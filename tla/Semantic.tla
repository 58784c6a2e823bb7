------------------------------ MODULE Semantic ------------------------------
(***************************************************************************)
(* semantic.c: one walk of the tree that declares names in the scopes and  *)
(* reports errors.  As in Translate, the calls that are still to be made   *)
(* are the agenda, and the types and fields that have been returned and    *)
(* are still held are vals, the newest first; the type that the function   *)
(* declares is the oldest.                                                 *)
(*                                                                         *)
(* A task is a node with the line it is reported at.  A definition is a    *)
(* specifier with declarators, a parameter is a definition with one.       *)
(*                                                                         *)
(* Nothing here frees memory (uthash would, at its first split, and        *)
(* BktCapacity keeps below that), so what malloc returns is zero where it  *)
(* is read before it is written: a type nobody filled in is int, and the   *)
(* list of parameters that funDecSemaParser never stores (397: the result  *)
(* of varListSemaParser is dropped) is empty.  What expSemaParser does     *)
(* when that list is not empty, the loop over the arguments of a call      *)
(* (577-599) and the report of a call without any (605), is not modelled.  *)
(*                                                                         *)
(* Operators with a suffix after an underscore are wrong versions of the   *)
(* one that follows.                                                       *)
(***************************************************************************)
EXTENDS SymbolTable, FiniteSets, SequencesExt

CONSTANTS
    Trees,                   \* programs: sequences of external definitions
    Exps, Decs, Defs, Stmts  \* the expressions, declarators, definitions, statements in them

Literals == {"INT", "FLOAT", "CHAR"}
Logicals == {"AND", "OR"}
Operators == {"LT", "LE", "GT", "GE", "NE", "EQ", "PLUS", "MINUS", "MUL", "DIV"}

(* What stands where in a tree.                                            *)
ASSUME SemanticAssumption ==
    /\ \A e \in Exps :
          \/ e.e \in Literals \cup {"ID", "CALL"}
          \/ /\ e.e \in Logicals \cup Operators \cup {"ASSIGN", "LP", "LB", "DOT", "NEG", "NOT"}
             /\ e.of \in Seq(Exps)
    /\ \A d \in Decs : d.init \in Seq(Exps)
    /\ \A d \in Defs :
          /\ d.decs \in Seq(Decs)
          /\ d.spec.spec = "STRUCT" => d.spec.defs \in Seq(Defs)
    /\ \A s \in Stmts :
          /\ s.s = "CompSt" => s.defs \in Seq(Defs) /\ s.stmts \in Seq(Stmts)
          /\ s.s # "CompSt" => s.s \in {"Exp", "RETURN", "IF", "WHILE"} /\ s.exp \in Exps
          /\ s.s = "IF" => s.then \in Stmts /\ s.else \in Seq(Stmts)
          /\ s.s = "WHILE" => s.body \in Stmts
    /\ \A p \in Trees :
          /\ p = [k \in 1..Len(p) |-> p[k]] /\ Len(p) \in Nat
          /\ \A k \in DOMAIN p :
                /\ p[k].kind \in {"vars", "fun", "semi"}
                /\ p[k].spec.spec = "STRUCT" => p[k].spec.defs \in Seq(Defs)
                /\ p[k].kind = "vars" => p[k].decs \in Seq(Decs)
                /\ p[k].kind = "fun" =>
                      /\ p[k].params \in Seq(Defs)
                      /\ p[k].body.defs \in Seq(Defs) /\ p[k].body.stmts \in Seq(Stmts)

VARIABLES
    program, agenda, vals,
    reports,          \* the errors printed: their type and line
    fault             \* a NULL type has been dereferenced

svars == <<program, agenda, vals, reports, fault, scopeStack>>

-----------------------------------------------------------------------------
(* Types.  NoType is the null pointer.                                     *)

NoType == [category |-> "NULL"]
Primitive(p) == [category |-> "PRIMITIVE", primitive |-> p]
TYPE_INT == Primitive("int")
ArrayOf(n, t) == [category |-> "ARRAY", size |-> n, of |-> t]
Structure(fields) == [category |-> "STRUCTURE", fields |-> fields]
Function(f, t) == [category |-> "FUNCTION", fields |-> <<[name |-> f, type |-> t]>>]

Fresh == TYPE_INT                    \* malloc and nothing more

Is(t, category) == t.category = category
IsInt(t) == t = TYPE_INT

(* primitive shares its word with the pointers: it is zero, TYPE_INT, also *)
(* in a structure that has no fields.                                      *)
ReadsAs(t, p) ==
    t = Primitive(p) \/ (p = "int" /\ t = Structure(<<>>))

SameLength_Prefix(a, b) == Len(a) <= Len(b)
SameLength(a, b) == Len(a) = Len(b)

(* Equivalence: the same shape, whatever the names.                        *)
typeCmp[a \in Decl, b \in Decl] ==
    /\ NoType \notin {a, b} /\ a.category = b.category
    /\ Is(a, "PRIMITIVE") => a = b
    /\ Is(a, "ARRAY") => a.size = b.size /\ typeCmp[a.of, b.of]
    /\ a.category \in {"STRUCTURE", "FUNCTION"} =>
         /\ SameLength(a.fields, b.fields)
         /\ \A k \in DOMAIN a.fields : typeCmp[a.fields[k].type, b.fields[k].type]

-----------------------------------------------------------------------------
(* The walk.                                                               *)

Do(kind, it, ln) == [do |-> kind, it |-> it, ln |-> ln]
Each(kind, list, ln) == [k \in 1..Len(list) |-> Do(kind, list[k], ln)]
Own(kind, list) == [k \in 1..Len(list) |-> Do(kind, list[k], list[k].ln)]
Drop(n) == Do("Drop", n, 0)
Scoped_NoPop(tasks) == <<Do("pushScope", 0, 0)>> \o tasks
Scoped(tasks) == <<Do("pushScope", 0, 0)>> \o tasks \o <<Do("popScope", 0, 0)>>

This == Head(agenda)
Doing(kinds) == ~fault /\ agenda # <<>> /\ This.do \in kinds
Task(kind) == Doing({kind})
Parsing(kind) == Task("Stmt") /\ This.it.s = kind

Continue(tasks) == agenda' = tasks \o Tail(agenda) /\ UNCHANGED <<program, fault>>

Report(e) == reports' = Append(reports, [type |-> e, ln |-> This.ln])
NoReport == UNCHANGED reports
ReportIf(wrong, e) == IF wrong THEN Report(e) ELSE NoReport

(* The process dies at a null pointer.                                     *)
Fault == fault' = TRUE /\ UNCHANGED <<program, agenda, vals, reports, scopeStack>>

(* The last n results give way to those in list.                           *)
Returns(n, list) == vals' = list \o SubSeq(vals, n + 1, Len(vals))

SemInit ==
    /\ program \in Trees
    /\ agenda = Scoped(Own("ExtDef", program))
    /\ vals = <<>> /\ reports = <<>> /\ fault = FALSE
    /\ scopeStack = <<>>

EnterScope ==
    /\ Task("pushScope") /\ pushScope /\ Continue(<<>>)
    /\ NoReport /\ UNCHANGED vals

LeaveScope ==
    /\ Task("popScope") /\ popScope /\ Continue(<<>>)
    /\ NoReport /\ UNCHANGED vals

Discard ==
    /\ Task("Drop") /\ Returns(This.it, <<>>) /\ Continue(<<>>)
    /\ NoReport /\ UNCHANGED scopeStack

-----------------------------------------------------------------------------
(* Declarations.                                                           *)

(* Of the k-th declarator the type is below k - 1 fields.                   *)
Declarators(decs, ln) ==
    [k \in 1..Len(decs) |-> Do("VarDec", [dec |-> decs[k], nth |-> k], ln)]

(* The initial value of a declarator, if it has one, once it is declared.  *)
Initial(dec, nth, ln) ==
    Each("Exp", dec.init, ln) \o [j \in 1..Len(dec.init) |-> Do("Init", nth, ln)]

(* Each parameter is a definition of its own, from left to right.          *)
Params(list) == Own("Def", list)

(* The definition of variables, of a function, or of nothing.  Parameters  *)
(* are declared in the scope around the function.                          *)
ExtDef ==
    /\ Task("ExtDef")
    /\ LET d == This.it IN
         Continue(<<Do("Specifier", d.spec, d.ln)>> \o
            CASE d.kind = "vars" -> Declarators(d.decs, d.ln) \o <<Drop(Len(d.decs) + 1)>>
              [] d.kind = "fun" -> Params(d.params)
                                     \o <<Drop(Len(d.params)), Do("FunBody", d, d.ln), Drop(1)>>
              [] d.kind = "semi" -> <<Drop(1)>>)
    /\ NoReport /\ UNCHANGED <<vals, scopeStack>>

FunBody_Overloads ==
    /\ Task("FunBody")
    /\ LET d == This.it IN
         /\ insertSymbol([name |-> d.f, type |-> Function(d.f, vals[1])])
         /\ Continue(Scoped(<<Do("CompSt", d.body, d.ln)>>))
         /\ NoReport
    /\ UNCHANGED vals

(* The body of a function that is defined already is passed over.          *)
FunBody ==
    /\ Task("FunBody")
    /\ LET d == This.it IN
         IF findSymbol(d.f) # NoDecl
         THEN Report(4) /\ Continue(<<>>) /\ UNCHANGED scopeStack
         ELSE /\ insertSymbol([name |-> d.f, type |-> Function(d.f, vals[1])])
              /\ Continue(Scoped(<<Do("CompSt", d.body, d.ln)>>))
              /\ NoReport
    /\ UNCHANGED vals

TypeSpecifier ==
    /\ Task("Specifier") /\ This.it.spec = "TYPE"
    /\ Returns(0, <<Primitive(This.it.type)>>) /\ Continue(<<>>)
    /\ NoReport /\ UNCHANGED scopeStack

(* struct ID { ... }: the name is looked up before the fields are walked   *)
(* and declared after them.                                                *)
StructDef ==
    /\ Task("Specifier") /\ This.it.spec = "STRUCT"
    /\ LET s == This.it IN
         IF findSymbol(s.x) # NoDecl
         THEN Report(15) /\ Returns(0, <<NoType>>) /\ Continue(<<>>)
         ELSE /\ Continue(Own("Def", s.defs) \o <<Do("EndStruct", s, This.ln)>>)
              /\ NoReport /\ UNCHANGED vals
    /\ UNCHANGED scopeStack

(* Of the fields that the definitions have returned, defListSemaParser     *)
(* links the first and the one it stored behind it last.                   *)
Linked(fields) == IF Len(fields) <= 2 THEN fields ELSE <<fields[1], Last(fields)>>

EndStruct ==
    /\ Task("EndStruct")
    /\ LET n == Len(This.it.defs)
           type == Structure(Linked(Reverse(SubSeq(vals, 1, n))))
       IN  /\ insertSymbol([name |-> This.it.x, type |-> type])
           /\ Returns(n, <<type>>)
    /\ Continue(<<>>) /\ NoReport

(* struct ID: for what is not a structure the report itself dereferences a *)
(* null pointer.                                                           *)
NamedStruct ==
    /\ Task("Specifier") /\ This.it.spec = "NAMED"
    /\ LET type == findSymbol(This.it.x) IN
         IF ~Is(type, "STRUCTURE") THEN Fault
         ELSE /\ Returns(0, <<type>>) /\ Continue(<<>>)
              /\ NoReport /\ UNCHANGED scopeStack

(* A definition returns the field of its first declarator.                 *)
Def ==
    /\ Task("Def")
    /\ LET d == This.it IN
         Continue(<<Do("Specifier", d.spec, d.ln)>> \o Declarators(d.decs, d.ln)
                    \o <<Do("EndDef", Len(d.decs), d.ln)>>)
    /\ NoReport /\ UNCHANGED <<vals, scopeStack>>

EndDef_Type ==
    /\ Task("EndDef") /\ Returns(This.it + 1, <<vals[This.it + 1]>>) /\ Continue(<<>>)
    /\ NoReport /\ UNCHANGED scopeStack

EndDef ==
    /\ Task("EndDef") /\ Returns(This.it + 1, <<vals[This.it]>>) /\ Continue(<<>>)
    /\ NoReport /\ UNCHANGED scopeStack

(* int x[2][3]: the loop meets the last dimension first.                   *)
Dimensioned(type, dims) == FoldRight(ArrayOf, dims, type)

(* A name that is visible already, from any scope, is an error, and is     *)
(* declared all the same.                                                  *)
VarDec ==
    /\ Task("VarDec")
    /\ LET dec == This.it.dec
           type == Dimensioned(vals[This.it.nth], dec.dims)
       IN  /\ ReportIf(findSymbol(dec.x) # NoDecl, 3)
           /\ insertSymbol([name |-> dec.x, type |-> type])
           /\ Returns(0, <<[name |-> dec.x, type |-> type]>>)
           /\ Continue(Initial(dec, This.it.nth, This.ln))

(* The initial value is compared with the type of the specifier.           *)
InitVar ==
    /\ Task("Init")
    /\ ReportIf(~typeCmp[vals[This.it + 2], vals[1]], 5)
    /\ Returns(1, <<>>) /\ Continue(<<>>) /\ UNCHANGED scopeStack

-----------------------------------------------------------------------------
(* expSemaParser.  A node e has its operands in e.of.                      *)

Literal ==
    /\ Task("Exp") /\ This.it.e \in Literals
    /\ Returns(0, <<Primitive([INT |-> "int", FLOAT |-> "float", CHAR |-> "char"][This.it.e])>>)
    /\ Continue(<<>>) /\ NoReport /\ UNCHANGED scopeStack

Variable ==
    /\ Task("Exp") /\ This.it.e = "ID"
    /\ LET type == findSymbol(This.it.x) IN
         /\ ReportIf(type = NoDecl, 1)
         /\ Returns(0, <<IF type = NoDecl THEN Fresh ELSE type>>)
    /\ Continue(<<>>) /\ UNCHANGED scopeStack

(* Arguments are an error at once: no function seems to have parameters.   *)
Call ==
    /\ Task("Exp") /\ This.it.e = "CALL"
    /\ LET type == findSymbol(This.it.f)
           known == type # NoDecl
       IN  IF known /\ type = NoType THEN Fault
           ELSE /\ CASE ~known -> Report(1) /\ Returns(0, <<NoType>>)
                     [] known /\ ~Is(type, "FUNCTION") -> Report(11) /\ Returns(0, <<NoType>>)
                     [] known /\ Is(type, "FUNCTION") ->
                          IF This.it.args = <<>>
                          THEN NoReport /\ Returns(0, <<type.fields[1].type>>)
                          ELSE Report(9) /\ Returns(0, <<Fresh>>)
                /\ Continue(<<>>) /\ UNCHANGED scopeStack

(* The operands first, the right side of an assignment before the left.    *)
Operands ==
    /\ Task("Exp") /\ This.it.e \notin Literals \cup {"ID", "CALL"}
    /\ LET e == This.it
           of == IF e.e = "ASSIGN" THEN Reverse(e.of) ELSE e.of
       IN  Continue(Each("Exp", of, This.ln) \o (IF e.e = "LP" THEN <<>> ELSE <<Do(e.e, e, This.ln)>>))
    /\ NoReport /\ UNCHANGED <<vals, scopeStack>>

(* The types of the operands, in the order in which they were evaluated.   *)
expType1 == vals[Len(This.it.of)]
expType2 == vals[1]

(* An expression that is reported has the type nobody filled in.           *)
Checked(wrong, e, type) ==
    /\ ReportIf(wrong, e)
    /\ Returns(Len(This.it.of), <<IF wrong THEN Fresh ELSE type>>)
    /\ Continue(<<>>) /\ UNCHANGED scopeStack

IsVariable(e) == e.e \in {"ID", "DOT", "LB"}

Assignment ==
    /\ Task("ASSIGN")
    /\ LET expType == expType1
           leftType == expType2
       IN  IF ~IsVariable(This.it.of[1]) THEN Checked(TRUE, 6, Fresh)
           ELSE Checked(expType # NoType /\ ~typeCmp[leftType, expType], 5, leftType)

Logical ==
    /\ Doing(Logicals)
    /\ LET differ == ~typeCmp[expType1, expType2] IN
         IF differ /\ expType1 = NoType THEN Fault
         ELSE Checked(differ /\ ~Is(expType1, "PRIMITIVE") /\ ~ReadsAs(expType1, "int"), 7, expType1)

Operation_Any ==
    /\ Doing(Operators)
    /\ LET differ == ~typeCmp[expType1, expType2] IN
         IF differ /\ expType1 = NoType THEN Fault
         ELSE Checked(FALSE, 7, expType1)

(* Operands of different types are an error if the first is int or float.  *)
Operation ==
    /\ Doing(Operators)
    /\ LET differ == ~typeCmp[expType1, expType2] IN
         IF differ /\ expType1 = NoType THEN Fault
         ELSE Checked(differ /\ (ReadsAs(expType1, "int") \/ ReadsAs(expType1, "float")), 7, expType1)

(* An index that is not an integer is reported; the element has its type.  *)
Index ==
    /\ Task("LB")
    /\ IF NoType = expType1 \/ (Is(expType1, "ARRAY") /\ NoType = expType2) THEN Fault
       ELSE IF ~Is(expType1, "ARRAY") THEN Checked(TRUE, 10, Fresh)
       ELSE /\ ReportIf(~IsInt(expType2), 12)
            /\ Returns(2, <<expType1.of>>)
            /\ Continue(<<>>) /\ UNCHANGED scopeStack

Member_Null ==
    /\ Task("DOT")
    /\ IF expType1 = NoType THEN Fault
       ELSE IF ~Is(expType1, "STRUCTURE")
            THEN ReportIf(TRUE, 13) /\ Returns(1, <<NoType>>) /\ Continue(<<>>) /\ UNCHANGED scopeStack
       ELSE LET found == SelectSeq(expType1.fields, LAMBDA field : field.name = This.it.x) IN
              Checked(found = <<>>, 14, IF found = <<>> THEN Fresh ELSE Head(found).type)

Member ==
    /\ Task("DOT")
    /\ IF expType1 = NoType THEN Fault
       ELSE IF ~Is(expType1, "STRUCTURE") THEN Checked(TRUE, 13, Fresh)
       ELSE LET found == SelectSeq(expType1.fields, LAMBDA field : field.name = This.it.x) IN
              Checked(found = <<>>, 14, IF found = <<>> THEN Fresh ELSE Head(found).type)

Minus ==
    /\ Task("NEG")
    /\ IF expType1 = NoType THEN Fault
       ELSE Checked(~Is(expType1, "PRIMITIVE"), 7, expType1)

Not ==
    /\ Task("NOT")
    /\ IF expType1 = NoType THEN Fault
       ELSE Checked(~IsInt(expType1), 7, TYPE_INT)

-----------------------------------------------------------------------------
(* Statements.  Only a compound statement has a scope of its own.          *)

CompSt ==
    /\ Task("CompSt")
    /\ Continue(Own("Def", This.it.defs) \o <<Drop(Len(This.it.defs))>> \o Own("Stmt", This.it.stmts))
    /\ NoReport /\ UNCHANGED <<vals, scopeStack>>

Block_NoPop ==
    /\ Parsing("CompSt")
    /\ Continue(Scoped_NoPop(<<Do("CompSt", This.it, This.ln)>>))
    /\ NoReport /\ UNCHANGED <<vals, scopeStack>>

BlockStmt ==
    /\ Parsing("CompSt")
    /\ Continue(Scoped(<<Do("CompSt", This.it, This.ln)>>))
    /\ NoReport /\ UNCHANGED <<vals, scopeStack>>

Evaluate ==
    /\ Task("Stmt") /\ This.it.s # "CompSt"
    /\ Continue(<<Do("Exp", This.it.exp, This.ln),
                  IF This.it.s = "Exp" THEN Drop(1) ELSE Do(This.it.s, This.it, This.ln)>>)
    /\ NoReport /\ UNCHANGED <<vals, scopeStack>>

Return ==
    /\ Task("RETURN")
    /\ ReportIf(expType2 # NoType /\ ~typeCmp[Last(vals), expType2], 8)
    /\ Returns(1, <<>>) /\ Continue(<<>>) /\ UNCHANGED scopeStack

(* What is controlled by a condition that is not an integer is not walked. *)
Controlled(stmts) ==
    /\ ReportIf(expType2 # NoType /\ ~IsInt(expType2), 7)
    /\ Continue(IF IsInt(expType2) THEN Own("Stmt", stmts) ELSE <<>>)
    /\ Returns(1, <<>>) /\ UNCHANGED scopeStack

If == Task("IF") /\ Controlled(<<This.it.then>> \o This.it.else)

While == Task("WHILE") /\ Controlled(<<This.it.body>>)

Walk ==
    \/ EnterScope \/ LeaveScope \/ Discard
    \/ ExtDef \/ FunBody \/ TypeSpecifier \/ StructDef \/ EndStruct \/ NamedStruct
    \/ Def \/ EndDef \/ VarDec \/ InitVar
    \/ Literal \/ Variable \/ Call \/ Operands \/ Assignment \/ Logical \/ Operation
    \/ Index \/ Member \/ Minus \/ Not
    \/ CompSt \/ BlockStmt \/ Evaluate \/ Return \/ If \/ While

Ended == fault \/ agenda = <<>>

SemNext == Walk \/ (Ended /\ UNCHANGED svars)

SemSpec == SemInit /\ [][SemNext]_svars
-----------------------------------------------------------------------------
Reported == [type: 1..15, ln: Nat]
IsField(v) == DOMAIN v = {"name", "type"}

(* Every type that is held, and every symbol, is one of Decl; the list of   *)
(* parameters of a function is empty.                                       *)
SemTypeOK ==
    /\ TypeOK
    /\ \A k \in DOMAIN reports : reports[k] \in Reported
    /\ \A k \in DOMAIN vals : IF IsField(vals[k]) THEN vals[k] \in Symbol ELSE vals[k] \in Decl
    /\ fault \in BOOLEAN

(* Wherever the walk is, as many scopes are open as it has still to leave:  *)
(* pushScope and popScope are called in pairs on every path, also where a   *)
(* body is passed over or a branch is not walked.                           *)
Waiting(kind) == {k \in DOMAIN agenda : agenda[k].do = kind}

ScopesOpen ==
    Cardinality(Waiting("popScope")) = Len(scopeStack) + Cardinality(Waiting("pushScope"))

(* typeCmp is an equivalence on the types that the walk holds or has        *)
(* declared, other than the null pointer: the lists of structures and       *)
(* functions are compared to their ends.                                    *)
TypesHeld ==
    ({vals[k] : k \in {j \in DOMAIN vals : ~IsField(vals[j])}}
       \cup UNION {{scopeStack[d][k].type : k \in DOMAIN scopeStack[d]} : d \in DOMAIN scopeStack})
      \ {NoType}

TypesCompared ==
    \A a, b \in TypesHeld :
        /\ typeCmp[a, a]
        /\ typeCmp[a, b] => typeCmp[b, a]
        /\ typeCmp[a, b] => \A c \in TypesHeld : typeCmp[b, c] => typeCmp[a, c]
=============================================================================
