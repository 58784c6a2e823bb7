----------------------------- MODULE Translate -----------------------------
(***************************************************************************)
(* translate.c: one walk of the tree that appends three-address code to a  *)
(* list.  The functions of the walk call each other; here the calls that   *)
(* are still to be made are the agenda, and the types that expSemaParser   *)
(* has returned and its callers still hold are vals, the newest first.  Of *)
(* int only the tag matters; an array is a record of its tag, the address, *)
(* and its dimensions.                                                     *)
(*                                                                         *)
(* The trees are those of programs whose types are int and arrays of int   *)
(* and whose only error, if any, is a name declared twice: the left side   *)
(* of an assignment is a variable, a call has the arguments its function   *)
(* declares, an array whose name was taken is not used.  Where the code    *)
(* takes the length of a tag that is NULL the process dies, and the        *)
(* handler has no step.  Memory that malloc returns is taken to be zero    *)
(* where the code reads it before writing it: what is freed on these       *)
(* paths is taken again for a field that is written first.                 *)
(*                                                                         *)
(* Names outlive the step that makes them: the counters number variables,  *)
(* temporaries and labels; hashmap maps names to tags, and also tags to    *)
(* tags; onetag and zerotag are the labels of the last && or ||; endTag is *)
(* the end of an if-else, shared with those in its else branch.            *)
(*                                                                         *)
(* Operators with a suffix after an underscore are wrong versions of the   *)
(* one that follows.                                                       *)
(***************************************************************************)
EXTENDS SymbolTable, FiniteSets, SequencesExt

CONSTANTS
    Sources,             \* programs: sequences of functions and of declarations outside them
    Exps, Decs, Stmts    \* the expressions, declarations and statements in them

RelOps == {"LT", "LE", "GT", "GE", "NE", "EQ"}
ArithOps == {"PLUS", "MINUS", "MUL", "DIV"}
Operations == RelOps \cup ArithOps \cup {"ASSIGN", "AND", "OR", "LP", "NEG", "NOT", "LB", "CALL"}

(* What stands where in a tree.                                            *)
ASSUME TranslateAssumption ==
    /\ \A e \in Exps : \/ e.e \in {"INT", "ID"}
                       \/ /\ e.e \in Operations /\ e.of \in Seq(Exps)
                          /\ e.e = "ASSIGN" => Len(e.of) = 2
    /\ \A d \in Decs : d.init \in Seq(Exps)
    /\ \A s \in Stmts :
          /\ s.s \in {"Exp", "RETURN", "CompSt", "IF", "WHILE"}
          /\ s.s = "CompSt" => s.defs \in Seq(Decs) /\ s.stmts \in Seq(Stmts)
          /\ s.s # "CompSt" => s.exp \in Exps
          /\ s.s = "IF" => s.then \in Stmts /\ s.else \in Seq(Stmts)
          /\ s.s = "WHILE" => s.body \in Stmts
    /\ \A p \in Sources :
          /\ p = [k \in 1..Len(p) |-> p[k]] /\ Len(p) \in Nat
          /\ \A k \in DOMAIN p :
                /\ p[k].kind \in {"fun", "vars"}
                /\ p[k].kind = "fun" => p[k].params \in Seq(Decs) /\ p[k].body \in Stmts
                /\ p[k].kind = "vars" => p[k].decs \in Seq(Decs)

VARIABLES
    source, agenda, vals,
    tacs,                                       \* the list; its last element is curTac
    labelCnt, vCnt, tCnt,
    onetag, zerotag, endTag, isEndTagDef,
    hashmap

tvars == <<source, agenda, vals, tacs, labelCnt, vCnt, tCnt,
           onetag, zerotag, endTag, isEndTagDef, hashmap, scopeStack>>

-----------------------------------------------------------------------------
(* Tags.  NULL is the tag of a type that was never given one.              *)

NULL == [sort |-> "null", n |-> 0]
Const(n) == [sort |-> "#", n |-> n]
Literal(n) == IF n >= 0 THEN Const(n) ELSE [sort |-> "#-", n |-> 0]     \* the digits are cut off
IsConst(tag) == tag.sort \in {"#", "#-"}
generateV(n) == [sort |-> "v", n |-> n]
generateT(n) == [sort |-> "t", n |-> n]
PlaceOf(n) == [sort |-> "&v", n |-> n]
WordAt(tag) == [sort |-> "*", of |-> tag]
generateLabel(n) == [sort |-> "label", n |-> n]
Comparison(op, l, r) == [sort |-> "rel", op |-> op, l |-> l, r |-> r]
FunctionTag(ps) == [sort |-> "fun", params |-> ps]
CallTag(f) == [sort |-> "call", f |-> f]
Negation(tag) == [sort |-> "#0-", of |-> tag]       \* a key of hashmap

Named(f) == [sort |-> f, n |-> 0]                  \* a name in the source

ArrayOf(at, dims) == [sort |-> "array", at |-> at, dims |-> dims]
TagOf(type) == IF type.sort = "array" THEN type.at ELSE type

(* The bytes of an int, or of an array with these dimensions.              *)
Space(dims) == FoldLeft(LAMBDA spaces, size : spaces * size, 4, dims)

Opposite == [LT |-> "GE", GE |-> "LT", GT |-> "LE", LE |-> "GT", EQ |-> "NE", NE |-> "EQ"]

(* The left operand is written in two characters: v0 to v9, #0 to #9.      *)
TwoWide(tag) == tag.n \in 0..9

(* IF tests the condition's opposite, found at column 3 of its text.       *)
Negated_Le(tag) ==
    IF tag.sort = "rel" /\ TwoWide(tag.l)
    THEN [tag EXCEPT !.op = IF @ = "LT" THEN "GT" ELSE Opposite[@]]
    ELSE tag

Negated(tag) ==
    IF tag.sort = "rel" /\ TwoWide(tag.l) THEN [tag EXCEPT !.op = Opposite[@]] ELSE tag

(* NOT exchanges the characters < and >, and == with !=.                   *)
Exchanged == [LT |-> "GT", GT |-> "LT", LE |-> "GE", GE |-> "LE", EQ |-> "NE", NE |-> "EQ"]

TruncDiv(a, b) ==
    LET mag(n) == IF n < 0 THEN -n ELSE n
        q == mag(a) \div mag(b)
    IN  IF (a < 0) = (b < 0) THEN q ELSE -q

Folded(op, a, b) ==
    IF op = "PLUS" THEN a + b
    ELSE IF op = "MINUS" THEN a - b
    ELSE IF op = "MUL" THEN a * b
    ELSE TruncDiv(a, b)

-----------------------------------------------------------------------------
(* The list.                                                               *)

newTac(title, target, op, arg1, arg2) ==
    [title |-> title, target |-> target, op |-> op, arg1 |-> arg1, arg2 |-> arg2]

One(title, target) == newTac(title, target, "", NULL, NULL)
LabelTac(l) == One("LABEL", l)
GotoTac(l) == One("GOTO", l)
IfTac(l, cond) == newTac("IF", l, "", cond, NULL)
AssTac(target, arg1) == newTac("ASS", target, "", arg1, NULL)
OperTac(target, op, arg1, arg2) == newTac("OPER", target, op, arg1, arg2)

curTac == tacs[Len(tacs)]

Emit(list) == tacs' = tacs \o list

(* printTacs prints a GOTO that directly follows another one not at all.   *)
Unprinted(list) ==
    {k \in DOMAIN list : list[k].title = "GOTO" /\ k > 1 /\ list[k - 1].title = "GOTO"}

-----------------------------------------------------------------------------
(* The walk.                                                               *)

This == Head(agenda)
Doing(kinds) == agenda # <<>> /\ This.do \in kinds
Task(kind) == Doing({kind})
Parsing(kind) == Task("Stmt") /\ This.it.s = kind

Continue(tasks) == agenda' = tasks \o Tail(agenda)

Each(kind, list) == [k \in 1..Len(list) |-> [do |-> kind, it |-> list[k]]]
Do(kind, it) == [do |-> kind, it |-> it]
Scoped_NoPop(s) == <<Do("pushScope", NULL), Do("Stmt", s)>>
Scoped(s) == <<Do("pushScope", NULL), Do("Stmt", s), Do("popScope", NULL)>>

Counters == <<labelCnt, vCnt, tCnt>>
Tags == <<onetag, zerotag, endTag, isEndTagDef>>

NewLabels_One(k) == labelCnt' = labelCnt + 1
NewLabels(k) == labelCnt' = labelCnt + k

NewT_Same == UNCHANGED tCnt
NewT == tCnt' = tCnt + 1

Lookup(key, other) == IF key \in DOMAIN hashmap THEN hashmap[key] ELSE other
With_Swapped(key, tag) == [k \in DOMAIN hashmap \cup {tag} |-> IF k = tag THEN key ELSE hashmap[k]]
With(key, tag) == [k \in DOMAIN hashmap \cup {key} |-> IF k = key THEN tag ELSE hashmap[k]]

TransInit ==
    /\ source \in Sources
    /\ agenda = Each("ExtDef", source)
    /\ vals = <<>> /\ tacs = <<>>
    /\ labelCnt = 0 /\ vCnt = 0 /\ tCnt = 0
    /\ onetag = NULL /\ zerotag = NULL /\ endTag = NULL /\ isEndTagDef = 0
    /\ hashmap = <<>>
    /\ scopeStack = << << [name |-> Named("read"), type |-> FunctionTag(0)],
                          [name |-> Named("write"), type |-> FunctionTag(1)] >> >>

EnterScope ==
    /\ Task("pushScope") /\ pushScope /\ Continue(<<>>)
    /\ UNCHANGED <<source, vals, tacs, Counters, Tags, hashmap>>

LeaveScope ==
    /\ Task("popScope") /\ popScope /\ Continue(<<>>)
    /\ UNCHANGED <<source, vals, tacs, Counters, Tags, hashmap>>

(* funDecSemaParser: FUNCTION, then the parameters, in the scope around    *)
(* the function; only then does extDefSemaParser look for the name.        *)
ExtDef ==
    /\ Task("ExtDef") /\ This.it.kind = "fun"
    /\ Emit(<<One("FUNC", CallTag(This.it.f))>>)
    /\ Continue(Each("ParamDec", This.it.params) \o <<Do("FunBody", This.it)>>)
    /\ UNCHANGED <<source, vals, Counters, Tags, hashmap, scopeStack>>

(* Variables outside the functions, declared in the scope around them;     *)
(* none in a definition that is only a type.                               *)
ExtDecList ==
    /\ Task("ExtDef") /\ This.it.kind = "vars"
    /\ Continue(Each("Dec", This.it.decs))
    /\ UNCHANGED <<source, vals, tacs, Counters, Tags, hashmap, scopeStack>>

(* The body of a function that is defined already is passed over.          *)
FunBody ==
    /\ Task("FunBody")
    /\ IF findSymbol(This.it.f) # NoDecl
       THEN Continue(<<>>) /\ UNCHANGED scopeStack
       ELSE /\ insertSymbol([name |-> This.it.f, type |-> FunctionTag(Len(This.it.params))])
            /\ Continue(Scoped(This.it.body))
    /\ UNCHANGED <<source, vals, tacs, Counters, Tags, hashmap>>

(* varDecSemaParser.  A name that is visible already is an error: it gets  *)
(* a symbol but no tag and no PARAM.                                       *)
VarDec(x, dims, isFuncParam) ==
    /\ IF findSymbol(x) # NoDecl
       THEN /\ insertSymbol([name |-> x, type |-> NULL])
            /\ UNCHANGED <<tacs, vCnt, hashmap>>
       ELSE LET vtg == generateV(vCnt)
                isPlace == dims # <<>> /\ ~isFuncParam
                tag == IF isPlace THEN PlaceOf(vCnt) ELSE vtg
            IN
            /\ insertSymbol([name |-> x, type |-> IF dims = <<>> THEN tag ELSE ArrayOf(tag, dims)])
            /\ vCnt' = vCnt + 1
            /\ hashmap' = With(x, tag)
            /\ \/ isFuncParam /\ Emit(<<One("PARAM", vtg)>>)
               \/ isPlace /\ Emit(<<newTac("DEC", NULL, "", vtg, Const(Space(dims)))>>)
               \/ ~isFuncParam /\ ~isPlace /\ UNCHANGED tacs
    /\ UNCHANGED <<source, vals, labelCnt, tCnt, Tags>>

ParamDec == Task("ParamDec") /\ VarDec(This.it.x, This.it.dims, TRUE) /\ Continue(<<>>)

(* A declaration, with an initial value or without.                        *)
Dec ==
    /\ Task("Dec") /\ VarDec(This.it.x, This.it.dims, FALSE)
    /\ Continue(Each("Exp", This.it.init) \o
                [k \in DOMAIN This.it.init |-> Do("Init", This.it.x)])

InitVar ==
    /\ Task("Init")
    /\ IF This.it \in DOMAIN hashmap
       THEN Emit(<<AssTac(hashmap[This.it], vals[1])>>)
       ELSE UNCHANGED tacs
    /\ vals' = Tail(vals) /\ Continue(<<>>)
    /\ UNCHANGED <<source, Counters, Tags, hashmap, scopeStack>>

-----------------------------------------------------------------------------
(* expSemaParser.  A node e has its operands in e.of.  The left side of an *)
(* assignment is an Exp= (isAss), and so is what is indexed in it and the  *)
(* index.                                                                  *)

Leaf ==
    /\ Doing({"Exp", "Exp="})
    /\ \/ This.it.e = "INT" /\ vals' = <<Literal(This.it.n)>> \o vals
       \/ This.it.e = "ID" /\ vals' = <<findSymbol(This.it.x)>> \o vals
    /\ Continue(<<>>)
    /\ UNCHANGED <<source, tacs, Counters, Tags, hashmap, scopeStack>>

(* The operands first, the right side of an assignment before the left.    *)
Operands ==
    /\ Doing({"Exp", "Exp="}) /\ This.it.e \notin {"INT", "ID"}
    /\ LET e == This.it
           isAss == This.do = "Exp=" /\ e.e = "LB"
       IN  Continue(CASE e.e = "ASSIGN" -> <<Do("Exp", e.of[2]), Do("Exp=", e.of[1]), Do("ASSIGN", e)>>
                      [] e.e = "LP" -> Each("Exp", e.of)
                      [] isAss -> Each("Exp=", e.of) \o <<Do("LB=", e)>>
                      [] e.e \notin {"ASSIGN", "LP"} /\ ~isAss -> Each("Exp", e.of) \o <<Do(e.e, e)>>)
    /\ UNCHANGED <<source, vals, tacs, Counters, Tags, hashmap, scopeStack>>

(* The operands that have been evaluated, in the order of evaluation, give *)
(* way to the result.                                                      *)
Opd(k) == vals[Len(This.it.of) + 1 - k]
Result(tag) ==
    /\ vals' = <<tag>> \o SubSeq(vals, Len(This.it.of) + 1, Len(vals))
    /\ Continue(<<>>)
    /\ UNCHANGED <<source, scopeStack>>

(* Operands whose tags are there to be read.                               *)
Tagged(ks) == \A k \in ks : Opd(k) # NULL

Assigned_Always(target, tag) == [tacs EXCEPT ![Len(tacs)].target = target]

(* What the last instruction has computed is computed into the target, if  *)
(* that is a variable.                                                     *)
Assigned(target, tag) ==
    IF curTac.target = tag /\ target.sort # "*"
    THEN [tacs EXCEPT ![Len(tacs)].target = target]
    ELSE Append(tacs, AssTac(target, tag))

(* A DEC has no target and the process dies when it is compared: directly  *)
(* after one, the walk goes no further.                                    *)
Assignment ==
    /\ Task("ASSIGN") /\ Tagged({1, 2}) /\ curTac.target # NULL
    /\ tacs' = Assigned(Lookup(Opd(2), Opd(2)), Opd(1))
    /\ Result(Opd(2))
    /\ UNCHANGED <<Counters, Tags, hashmap>>

(* The result has no tag: the caller goes on with onetag and zerotag.  The *)
(* second IF tests the first operand again.                                *)
Logical ==
    /\ Doing({"AND", "OR"})
    /\ LET isAnd == This.do = "AND"
           l == generateLabel(labelCnt)
           m == generateLabel(labelCnt + 1)
           r == generateLabel(labelCnt + 2)
           otag == IF isAnd THEN r ELSE l
           ztag == IF isAnd THEN m ELSE r
           tmpTag == IF isAnd THEN l ELSE m
       IN  /\ Emit(<<IfTac(l, Opd(1)), GotoTac(m), LabelTac(tmpTag), IfTac(otag, Opd(1)), GotoTac(ztag)>>)
           /\ onetag' = otag /\ zerotag' = ztag
    /\ NewLabels(3)
    /\ Result(NULL)
    /\ UNCHANGED <<vCnt, tCnt, endTag, isEndTagDef, hashmap>>

Relational ==
    /\ Doing(RelOps) /\ Tagged({1, 2})
    /\ Result(Comparison(This.do, Opd(1), Opd(2)))
    /\ UNCHANGED <<tacs, Counters, Tags, hashmap>>

Simplified_Minus(op, a, b) ==
    IF IsConst(a) /\ IsConst(b) THEN Const(Folded(op, a.n, b.n))
    ELSE IF op # "PLUS" /\ b = Const(1) THEN a
    ELSE NULL

(* The tag of a result that needs no code; NULL when it needs some.        *)
Simplified(op, a, b) ==
    IF IsConst(a) /\ IsConst(b) THEN Const(Folded(op, a.n, b.n))
    ELSE IF op \in {"MUL", "DIV"} /\ b = Const(1) THEN a
    ELSE IF op = "MUL" /\ a = Const(1) THEN b
    ELSE IF op = "MINUS" /\ a = b THEN Const(0)
    ELSE NULL

(* A sum whose left operand is no constant does not look at the right one. *)
Arithmetic ==
    /\ Doing(ArithOps)
    /\ Tagged(IF This.do = "PLUS" /\ ~IsConst(Opd(1)) THEN {1} ELSE {1, 2})
    /\ LET simple == Simplified(This.do, Opd(1), Opd(2)) IN
         IF simple # NULL
         THEN Result(simple) /\ UNCHANGED <<tacs, tCnt>>
         ELSE /\ Result(generateT(tCnt))
              /\ Emit(<<OperTac(generateT(tCnt), This.do, Opd(1), Opd(2))>>)
              /\ NewT
    /\ UNCHANGED <<labelCnt, vCnt, Tags, hashmap>>

(* The negation of a tag is computed once and remembered.                  *)
Minus ==
    /\ Task("NEG") /\ Tagged({1})
    /\ LET key == Negation(Opd(1)) IN
         IF key \in DOMAIN hashmap
         THEN Result(hashmap[key]) /\ UNCHANGED <<tacs, tCnt, hashmap>>
         ELSE /\ Result(generateT(tCnt))
              /\ Emit(<<OperTac(generateT(tCnt), "MINUS", Const(0), Opd(1))>>)
              /\ NewT
              /\ hashmap' = With(key, generateT(tCnt))
    /\ UNCHANGED <<labelCnt, vCnt, Tags>>

IsScaled_Vars(k) == k.sort = "v"

(* A temporary as index is passed over, like zero.                         *)
IsScaled(k) == k.sort \in {"v", "#", "#-"} /\ k # Const(0)

(* The address of an element, and its value unless it is to be assigned:   *)
(* hashmap remembers for its temporary where it comes from.                *)
Index ==
    /\ Doing({"LB", "LB="}) /\ Tagged({2})
    /\ LET array == Opd(1)
           k == Opd(2)
           rest == Tail(array.dims)
           unit == Const(Space(rest))
           isProduct == IsScaled(k) /\ k # Const(1)
           spc == generateT(tCnt)
           sum == generateT(IF isProduct THEN tCnt + 1 ELSE tCnt)
           addr == IF IsScaled(k) THEN sum ELSE array.at
           value == generateT(IF IsScaled(k) THEN sum.n + 1 ELSE tCnt)
           code == (IF isProduct THEN <<OperTac(spc, "MUL", k, unit)>> ELSE <<>>)
                   \o (IF IsScaled(k)
                       THEN <<OperTac(sum, "PLUS", array.at, IF isProduct THEN spc ELSE unit)>> ELSE <<>>)
       IN  IF rest # <<>>
           THEN /\ Emit(code) /\ Result(ArrayOf(addr, rest))
                /\ tCnt' = value.n /\ UNCHANGED hashmap
           ELSE /\ Emit(code \o (IF This.do = "LB=" THEN <<>> ELSE <<AssTac(value, WordAt(addr))>>))
                /\ Result(value)
                /\ tCnt' = value.n + 1 /\ hashmap' = With(value, WordAt(addr))
    /\ UNCHANGED <<labelCnt, vCnt, Tags>>

Not ==
    /\ Task("NOT") /\ Tagged({1})
    /\ Result(IF Opd(1).sort = "rel" THEN [Opd(1) EXCEPT !.op = Exchanged[@]] ELSE Opd(1))
    /\ UNCHANGED <<tacs, Counters, Tags, hashmap>>

ArgTacs_InOrder(args) == [k \in 1..Len(args) |-> One("ARG", TagOf(args[k]))]

(* The arguments, the last one first.                                      *)
ArgTacs(args) == [k \in 1..Len(args) |-> One("ARG", TagOf(args[Len(args) + 1 - k]))]

(* A call without arguments of a function other than read makes no code,   *)
(* and its type no tag.                                                    *)
Call ==
    /\ Task("CALL") /\ Tagged(DOMAIN This.it.of)
    /\ LET f == This.it.f
           args == [k \in 1..Len(This.it.of) |-> Opd(k)]
           t == generateT(tCnt)
       IN  \/ /\ f = Named("read")
              /\ Emit(<<One("READ", t)>>) /\ Result(t) /\ NewT
           \/ /\ f = Named("write")
              /\ Emit(<<One("WRITE", args[1])>>) /\ Result(NULL) /\ UNCHANGED tCnt
           \/ /\ f \notin {Named("read"), Named("write")} /\ args # <<>>
              /\ Emit(ArgTacs(args) \o <<AssTac(t, CallTag(f))>>) /\ Result(t) /\ NewT
           \/ /\ f # Named("read") /\ args = <<>>
              /\ Result(NULL) /\ UNCHANGED <<tacs, tCnt>>
    /\ UNCHANGED <<labelCnt, vCnt, Tags, hashmap>>

-----------------------------------------------------------------------------
(* Statements.  The statement of an if, of its else and of a while has a   *)
(* scope of its own; a compound statement as such has none.                *)

CompSt ==
    /\ Parsing("CompSt")
    /\ Continue(Each("Dec", This.it.defs) \o Each("Stmt", This.it.stmts))
    /\ UNCHANGED <<source, vals, tacs, Counters, Tags, hashmap, scopeStack>>

(* What a statement does when its expression, if it has one, is evaluated. *)
Evaluate ==
    /\ Parsing("Exp") \/ Parsing("RETURN") \/ Parsing("IF")
    /\ Continue(<<Do("Exp", This.it.exp), Do(IF This.it.s = "Exp" THEN "Exp;" ELSE This.it.s, This.it)>>)
    /\ UNCHANGED <<source, vals, tacs, Counters, Tags, hashmap, scopeStack>>

Expression ==
    /\ Task("Exp;") /\ vals' = Tail(vals) /\ Continue(<<>>)
    /\ UNCHANGED <<source, tacs, Counters, Tags, hashmap, scopeStack>>

Return ==
    /\ Task("RETURN")
    /\ Emit(<<One("RETURN", vals[1])>>)
    /\ vals' = Tail(vals) /\ Continue(<<>>)
    /\ UNCHANGED <<source, Counters, Tags, hashmap, scopeStack>>

(* A condition with a tag, or one that comes after some && or ||.          *)
Testable(cond) == cond # NULL \/ onetag # NULL

FalseTag_Own(cond, own) == own

(* Where a condition that does not hold leads.                             *)
FalseTag(cond, own) == IF cond # NULL THEN own ELSE zerotag

(* A condition with a tag is tested, negated, to jump over the statement;  *)
(* without one, the statement comes at the label of the last && or ||.     *)
If ==
    /\ Task("IF") /\ Testable(vals[1])
    /\ LET cond == vals[1]
           falseTag == FalseTag(cond, generateLabel(labelCnt))
       IN  /\ IF cond # NULL
              THEN Emit(<<IfTac(falseTag, Negated(cond))>>) /\ NewLabels(2)
              ELSE Emit(<<LabelTac(onetag)>>) /\ UNCHANGED labelCnt
           /\ Continue(Scoped(This.it.then) \o
                       <<Do(IF This.it.else = <<>> THEN "EndThen" ELSE "ELSE",
                            [falseTag |-> falseTag, else |-> This.it.else])>>)
    /\ vals' = Tail(vals)
    /\ UNCHANGED <<source, vCnt, tCnt, Tags, hashmap, scopeStack>>

EndThen ==
    /\ Task("EndThen")
    /\ Emit(<<LabelTac(This.it.falseTag)>>) /\ Continue(<<>>)
    /\ UNCHANGED <<source, vals, Counters, Tags, hashmap, scopeStack>>

(* No code for the end of a statement that ends with a RETURN.             *)
UnlessReturned(list) == IF curTac.title = "RETURN" THEN <<>> ELSE list

(* endTag is made by the outermost of the if-elses in else branches and    *)
(* placed by the first of them that ends.                                  *)
Else ==
    /\ Task("ELSE")
    /\ LET end == IF isEndTagDef = 0 THEN generateLabel(labelCnt) ELSE endTag IN
         /\ Emit(UnlessReturned(<<GotoTac(end)>>) \o <<LabelTac(This.it.falseTag)>>)
         /\ endTag' = end
    /\ labelCnt' = IF isEndTagDef = 0 THEN labelCnt + 1 ELSE labelCnt
    /\ isEndTagDef' = IF isEndTagDef = 0 THEN 1 ELSE isEndTagDef
    /\ Continue(Scoped(This.it.else[1]) \o <<Do("EndIf", NULL)>>)
    /\ UNCHANGED <<source, vals, vCnt, tCnt, onetag, zerotag, hashmap, scopeStack>>

EndIf ==
    /\ Task("EndIf")
    /\ IF isEndTagDef > 0
       THEN isEndTagDef' = isEndTagDef - 1 /\ Emit(UnlessReturned(<<LabelTac(endTag)>>))
       ELSE UNCHANGED <<isEndTagDef, tacs>>
    /\ Continue(<<>>)
    /\ UNCHANGED <<source, vals, Counters, onetag, zerotag, endTag, hashmap, scopeStack>>

(* The labels of a while are numbered before its condition is evaluated.   *)
While ==
    /\ Parsing("WHILE")
    /\ LET first == generateLabel(labelCnt)
           labels == [first |-> first, true |-> generateLabel(labelCnt + 1),
                      false |-> generateLabel(labelCnt + 2), body |-> This.it.body]
       IN  /\ Emit(<<LabelTac(first)>>)
           /\ Continue(<<Do("Exp", This.it.exp), Do("WHILE", labels)>>)
    /\ NewLabels(3)
    /\ UNCHANGED <<source, vals, vCnt, tCnt, Tags, hashmap, scopeStack>>

WhileBody ==
    /\ Task("WHILE") /\ Testable(vals[1])
    /\ LET cond == vals[1]
           trueTag == IF cond # NULL THEN This.it.true ELSE onetag
           falseTag == FalseTag(cond, This.it.false)
       IN  /\ Emit(IF cond # NULL
                   THEN <<IfTac(trueTag, cond), GotoTac(falseTag), LabelTac(trueTag)>>
                   ELSE <<LabelTac(trueTag)>>)
           /\ Continue(<<Do("pushScope", NULL), Do("Stmt", This.it.body),
                         Do("EndWhile", [first |-> This.it.first, false |-> falseTag]),
                         Do("popScope", NULL)>>)
    /\ vals' = Tail(vals)
    /\ UNCHANGED <<source, Counters, Tags, hashmap, scopeStack>>

EndWhile_LabelFirst ==
    /\ Task("EndWhile")
    /\ Emit(<<LabelTac(This.it.false), GotoTac(This.it.first)>>) /\ Continue(<<>>)
    /\ UNCHANGED <<source, vals, Counters, Tags, hashmap, scopeStack>>

EndWhile ==
    /\ Task("EndWhile")
    /\ Emit(<<GotoTac(This.it.first), LabelTac(This.it.false)>>) /\ Continue(<<>>)
    /\ UNCHANGED <<source, vals, Counters, Tags, hashmap, scopeStack>>

Parse ==
    \/ EnterScope \/ LeaveScope
    \/ ExtDef \/ ExtDecList \/ FunBody \/ ParamDec \/ Dec \/ InitVar
    \/ Leaf \/ Operands \/ Assignment \/ Logical \/ Relational \/ Arithmetic
    \/ Minus \/ Index \/ Not \/ Call
    \/ CompSt \/ Evaluate \/ Expression \/ Return
    \/ If \/ EndThen \/ Else \/ EndIf \/ While \/ WhileBody \/ EndWhile

TransSpec == TransInit /\ [][Parse]_tvars

-----------------------------------------------------------------------------
Numbered(sort, bound) == [sort: {sort}, n: 0..bound]
VTags == Numbered("v", vCnt - 1)
TTags == Numbered("t", tCnt - 1)
Places == Numbered("&v", vCnt - 1)
LabelTags == Numbered("label", labelCnt - 1)
IsWord(tag) == tag.sort = "*" /\ tag.of \in VTags \cup TTags \cup Places

Titles == {"FUNC", "READ", "WRITE", "LABEL", "GOTO", "IF", "ASS", "OPER", "RETURN", "PARAM", "ARG", "DEC"}

(* Types, and that whatever has a number was given it by a counter.         *)
TransTypeOK ==
    /\ labelCnt \in Nat /\ vCnt \in Nat /\ tCnt \in Nat
    /\ {onetag, zerotag, endTag} \subseteq LabelTags \cup {NULL}
    /\ isEndTagDef \in {0, 1}
    /\ \A key \in DOMAIN hashmap : hashmap[key] \in VTags \cup TTags \cup Places \/ IsWord(hashmap[key])
    /\ \A k \in DOMAIN tacs :
          /\ tacs[k].title \in Titles
          /\ tacs[k].title \in {"LABEL", "GOTO", "IF"} => tacs[k].target \in LabelTags
          /\ tacs[k].title \in {"OPER", "READ", "PARAM"} => tacs[k].target \in VTags \cup TTags
          /\ tacs[k].title = "ASS" => tacs[k].target \in VTags \cup TTags \/ IsWord(tacs[k].target)

(* There is one scope for each scope that the walk has still to leave, and  *)
(* the one around the functions: no path of the walk forgets to pop.        *)
Pops == {k \in DOMAIN agenda : agenda[k].do = "popScope"}
Pushes == {k \in DOMAIN agenda : agenda[k].do = "pushScope"}

ScopesMatchWalk ==
    Cardinality(Pops) + 1 = Len(scopeStack) + Cardinality(Pushes)

(* A label is placed at most once, and so is a temporary computed: the      *)
(* counters are advanced wherever they are used.                            *)
PlacedOnce ==
    \A j, k \in DOMAIN tacs :
        /\ j # k
        /\ \/ tacs[j].title = "LABEL" /\ tacs[k].title = "LABEL"
           \/ tacs[j].title \in {"ASS", "OPER", "READ"} /\ tacs[k].title \in {"ASS", "OPER", "READ"}
              /\ tacs[j].target.sort = "t"
        => tacs[j].target # tacs[k].target

Readers == RelOps \cup ArithOps \cup {"ASSIGN", "NEG", "NOT", "LB", "LB=", "CALL"}

(* What the handlers count on, of operands and of names, and do not look    *)
(* at: a tag whose text they read is there, or the process would die; what  *)
(* is assigned to is a variable or an element, and what is assigned is no   *)
(* label, or the last LABEL would get another one; what is indexed has an   *)
(* address; and a condition without a tag is the && or || whose code comes  *)
(* last, or the labels in onetag and zerotag would be those of another one. *)
OperandsFit ==
    /\ Doing(Readers) => Tagged(DOMAIN This.it.of)
    /\ Task("ASSIGN") => /\ LET left == Lookup(Opd(2), Opd(2)) IN left \in VTags \/ IsWord(left)
                         /\ Opd(1).sort # "label"
    /\ Task("Init") /\ This.it \in DOMAIN hashmap => hashmap[This.it] \in VTags
    /\ Doing({"LB", "LB="}) => Opd(1).at \in VTags \cup TTags \cup Places
    /\ Doing({"IF", "WHILE"}) /\ vals[1] = NULL => tacs # <<>> /\ curTac.title = "GOTO"

(* What an expression gives: a value (0), an array of that many dimensions, *)
(* no tag and the code of an && or ||, or no tag and none.                  *)
Judgement == -1
Nothing == -2

Calls(e) == e.f = Named("read") \/ (e.f # Named("write") /\ e.of # <<>>)

(* The trees of a program whose operands are where they belong: an array is *)
(* indexed at most as often as it has dimensions, a variable or an element  *)
(* of full depth is assigned to, what is computed with, compared, negated,  *)
(* assigned or an index has a value, an argument has a value or is an       *)
(* array, and a condition has a value or is an && or ||, not a call that    *)
(* makes no code.                                                           *)
Typing(kind, exps, decs, stmts) ==
    /\ \A e \in exps :
          /\ kind[e] \in Nat \cup {Judgement, Nothing}
          /\ e.e = "ID" => kind[e] \in Nat
          /\ e.e \in {"INT", "NEG", "NOT", "ASSIGN"} \cup RelOps \cup ArithOps => kind[e] = 0
          /\ e.e \in RelOps \cup ArithOps \cup {"LB"} => Len(e.of) = 2
          /\ e.e \in RelOps \cup ArithOps \cup {"ASSIGN", "NEG", "NOT"} =>
                \A k \in DOMAIN e.of : kind[e.of[k]] = 0
          /\ e.e \in {"AND", "OR"} => kind[e] = Judgement
          /\ e.e \in {"LP", "NOT", "NEG"} => Len(e.of) = 1
          /\ e.e = "LP" => kind[e] = kind[e.of[1]]
          /\ e.e = "ASSIGN" => e.of[1].e \in {"ID", "LB"}
          /\ e.e = "LB" => kind[e] \in Nat /\ kind[e.of[1]] = kind[e] + 1 /\ kind[e.of[2]] = 0
          /\ e.e = "CALL" => /\ kind[e] = IF Calls(e) THEN 0 ELSE Nothing
                             /\ \A k \in DOMAIN e.of : kind[e.of[k]] \in Nat
    /\ \A d \in decs :
          /\ d.dims \in Seq(Nat) /\ d.x.sort \notin {"v", "t", "#0-"}
          /\ Len(d.init) <= 1 /\ (d.init # <<>> => d.dims = <<>>)
    /\ \A s \in stmts : s.s \in {"IF", "WHILE"} => kind[s.exp] # Nothing

(* The name that is evaluated is visible and is what its declaration says,  *)
(* and one that is declared with a value was not visible before.            *)
NamesResolve(kind) ==
    /\ Doing({"Exp", "Exp="}) /\ This.it.e = "ID" =>
          LET type == findSymbol(This.it.x) IN
            /\ type # NoDecl
            /\ IF kind[This.it] = 0 THEN type.sort = "v"
               ELSE type.sort = "array" /\ Len(type.dims) = kind[This.it]
    /\ Task("Dec") /\ This.it.init # <<>> => findSymbol(This.it.x) = NoDecl

(* When a function is translated, every label that its code jumps to has    *)
(* been placed, in the code of that function.                               *)
FunctionOf(k) == CHOOSE j \in 1..k : /\ tacs[j].title = "FUNC"
                                      /\ \A i \in j+1..k : tacs[i].title # "FUNC"

JumpsStayInFunction ==
    (agenda = <<>> \/ This.do = "ExtDef") =>
        \A k \in DOMAIN tacs : tacs[k].title \in {"GOTO", "IF"} =>
            \E j \in DOMAIN tacs : /\ tacs[j] = LabelTac(tacs[k].target)
                                     /\ FunctionOf(j) = FunctionOf(k)

(* An instruction that is in the list is never changed, except that the     *)
(* last one may be made to compute a variable in place of the temporary     *)
(* that was generated for it.                                               *)
OnlyOwnResultRetargeted ==
    [][\A k \in DOMAIN tacs :
          tacs'[k] = tacs[k]
            \/ /\ k = Len(tacs) /\ tacs[k].target.sort = "t"
               /\ tacs'[k] = [tacs[k] EXCEPT !.target = tacs'[k].target]]_tvars

(* doc/Phase3.md: the condition of an IF is negated.                        *)
IfNegated ==
    [][Task("IF") /\ vals[1].sort = "rel" =>
         tacs'[Len(tacs')].arg1 = [vals[1] EXCEPT !.op = Opposite[@]]]_tvars
=============================================================================
