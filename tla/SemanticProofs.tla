-------------------------- MODULE SemanticProofs --------------------------
(***************************************************************************)
(* ScopesOpen holds of every program.  As in TranslateProofs the invariant *)
(* says of the agenda what makes it so: from any point to its end it       *)
(* enters no more scopes than it leaves, and as a whole it leaves as many  *)
(* more as are open.  What a handler adds is Even: it leaves what it       *)
(* enters.  A body that is passed over and a branch that is not walked add *)
(* nothing, so they do not disturb this.                                   *)
(***************************************************************************)
EXTENDS Semantic, Agendas

Body(s) == s.defs \in Seq(Defs) /\ s.stmts \in Seq(Stmts)
Specified(spec) == spec.spec = "STRUCT" => spec.defs \in Seq(Defs)

(* What the tasks of the walk carry.                                       *)
TaskOK(task) ==
    /\ task.do = "ExtDef" =>
         /\ task.it.kind \in {"vars", "fun", "semi"} /\ Specified(task.it.spec)
         /\ task.it.kind = "vars" => task.it.decs \in Seq(Decs)
         /\ task.it.kind = "fun" => task.it.params \in Seq(Defs) /\ Body(task.it.body)
    /\ task.do = "FunBody" => Body(task.it.body)
    /\ task.do = "Specifier" => Specified(task.it)
    /\ task.do = "Def" => task.it \in Defs
    /\ task.do = "VarDec" => task.it.dec \in Decs
    /\ task.do = "CompSt" => Body(task.it)
    /\ task.do = "Exp" => task.it \in Exps
    /\ task.do = "Stmt" => task.it \in Stmts
    /\ task.do = "IF" => task.it.then \in Stmts /\ task.it.else \in Seq(Stmts)
    /\ task.do = "WHILE" => task.it.body \in Stmts

Scopeless(task) == TaskOK(task) /\ task.do \notin {"pushScope", "popScope"}

Fit(s) ==
    /\ IsSequence(s)
    /\ \A k \in 1..Len(s) : TaskOK(s[k])
    /\ Balanced(s)

Even(s) == Fit(s) /\ Bal(s) = 0

LEMMA FitConcat ==
    ASSUME NEW s, Fit(s), NEW t, Fit(t)
    PROVE  Fit(s \o t) /\ Bal(s \o t) = Bal(s) + Bal(t)
<1>1. IsSequence(s) /\ IsSequence(t) /\ Balanced(s) /\ Balanced(t)
  BY DEF Fit
<1>2. ASSUME NEW k \in 1..Len(s \o t) PROVE TaskOK((s \o t)[k])
  BY <1>1, ConcatElements DEF Fit
<1>3. IsSequence(s \o t) /\ Balanced(s \o t) /\ Bal(s \o t) = Bal(s) + Bal(t)
  BY <1>1, ConcatLemma, BalancedConcat, BalConcat
<1> QED
  BY <1>2, <1>3 DEF Fit

LEMMA EvenConcat ==
    ASSUME NEW s, Even(s), NEW t, Even(t)
    PROVE  Even(s \o t)
BY FitConcat DEF Even

LEMMA EvenNone == Even(<<>>)
BY BalancedNone DEF Even, Fit

LEMMA EvenPlain ==
    ASSUME NEW s, IsSequence(s), \A k \in 1..Len(s) : Scopeless(s[k])
    PROVE  Even(s)
BY BalancedPlain DEF Even, Fit, Plain, Scopeless

LEMMA EvenOne ==
    ASSUME NEW x, Scopeless(x)
    PROVE  Even(<<x>>)
<1>1. PICK s : s = <<x>>
  OBVIOUS
<1>2. IsSequence(s) /\ \A k \in 1..Len(s) : Scopeless(s[k])
  BY <1>1, BalOne
<1> QED
  BY <1>1, <1>2, EvenPlain

LEMMA EvenTwo ==
    ASSUME NEW x, Scopeless(x), NEW y, Scopeless(y)
    PROVE  Even(<<x, y>>)
<1>1. Even(<<x>>) /\ Even(<<y>>)
  BY EvenOne
<1>2. Even(<<x>> \o <<y>>)
  BY <1>1, EvenConcat
<1> QED
  BY <1>2, PairLemma

(* Tasks made one by one from the members of a list.                       *)
LEMMA EvenEach ==
    ASSUME NEW S, NEW list \in Seq(S), NEW s,
           s = [k \in 1..Len(list) |-> s[k]],
           \A k \in 1..Len(list) : Scopeless(s[k])
    PROVE  Even(s)
<1>1. IsSequence(s) /\ Len(s) = Len(list)
  BY FunctionLemma
<1> QED
  BY <1>1, EvenPlain

LEMMA EvenOwn ==
    ASSUME NEW S, NEW list \in Seq(S), NEW kind,
           \A x \in S : \A ln : Scopeless(Do(kind, x, ln))
    PROVE  Even(Own(kind, list))
<1> DEFINE s == Own(kind, list)
<1>1. \A k \in 1..Len(list) : list[k] \in S
  OBVIOUS
<1>2. s = [k \in 1..Len(list) |-> s[k]] /\ \A k \in 1..Len(list) : Scopeless(s[k])
  BY <1>1 DEF Own
<1> HIDE DEF s
<1>3. Even(s)
  BY <1>2, EvenEach
<1> QED
  BY <1>3 DEF s

LEMMA EvenExps ==
    ASSUME NEW list \in Seq(Exps), NEW ln
    PROVE  Even(Each("Exp", list, ln))
<1> DEFINE s == Each("Exp", list, ln)
<1>1. \A k \in 1..Len(list) : list[k] \in Exps
  OBVIOUS
<1>2. s = [k \in 1..Len(list) |-> s[k]] /\ \A k \in 1..Len(list) : Scopeless(s[k])
  BY <1>1 DEF Each, Do, Scopeless, TaskOK
<1> HIDE DEF s
<1>3. Even(s)
  BY <1>2, EvenEach
<1> QED
  BY <1>3 DEF s

LEMMA EvenDeclarators ==
    ASSUME NEW decs \in Seq(Decs), NEW ln
    PROVE  Even(Declarators(decs, ln))
<1> DEFINE s == Declarators(decs, ln)
<1>1. \A k \in 1..Len(decs) : decs[k] \in Decs
  OBVIOUS
<1>2. s = [k \in 1..Len(decs) |-> s[k]] /\ \A k \in 1..Len(decs) : Scopeless(s[k])
  BY <1>1 DEF Declarators, Do, Scopeless, TaskOK
<1> HIDE DEF s
<1>3. Even(s)
  BY <1>2, EvenEach
<1> QED
  BY <1>3 DEF s

LEMMA EvenDefs ==
    ASSUME NEW list \in Seq(Defs)
    PROVE  Even(Own("Def", list))
<1>1. \A x \in Defs : \A ln : Scopeless(Do("Def", x, ln))
  BY DEF Do, Scopeless, TaskOK
<1> QED
  BY <1>1, EvenOwn

LEMMA EvenStmts ==
    ASSUME NEW list \in Seq(Stmts)
    PROVE  Even(Own("Stmt", list))
<1>1. \A x \in Stmts : \A ln : Scopeless(Do("Stmt", x, ln))
  BY DEF Do, Scopeless, TaskOK
<1> QED
  BY <1>1, EvenOwn

LEMMA ScopelessDrop ==
    ASSUME NEW n
    PROVE  Scopeless(Drop(n))
BY DEF Drop, Do, Scopeless, TaskOK

(* Tasks with a scope of their own.                                        *)
LEMMA EvenScoped ==
    ASSUME NEW u, Even(u)
    PROVE  Even(Scoped(u))
<1>1. PICK x, y : x = Do("pushScope", 0, 0) /\ y = Do("popScope", 0, 0)
  OBVIOUS
<1>2. TaskOK(x) /\ TaskOK(y) /\ Bal(<<x>>) = -1 /\ Bal(<<y>>) = 1
  BY <1>1, BalOne DEF Do, TaskOK
<1>3. PICK s, t : s = <<x>> /\ t = <<y>>
  OBVIOUS
<1>4. /\ IsOne(s) /\ IsSequence(s) /\ IsOne(t) /\ IsSequence(t)
      /\ \A k \in 1..Len(s) : TaskOK(s[k])
      /\ \A k \in 1..Len(t) : TaskOK(t[k])
  BY <1>2, <1>3, BalOne DEF IsOne
<1>5. PICK e : e = <<>>
  OBVIOUS
<1>6. Balanced(t)
  <2>1. IsSequence(e) /\ Balanced(e) /\ Bal(e) = 0
    BY <1>5, BalancedNone
  <2>2. Balanced(t \o e)
    BY <1>2, <1>3, <1>4, <2>1, BalancedCons
  <2>3. t \o e = t
    BY <1>3, <1>5
  <2> QED
    BY <2>2, <2>3
<1>7. PICK v : v = u \o t
  OBVIOUS
<1>8. Fit(v) /\ Bal(v) = 1
  <2>1. Fit(t) /\ Bal(t) = 1
    BY <1>2, <1>3, <1>4, <1>6 DEF Fit
  <2> QED
    BY <1>7, <2>1, FitConcat DEF Even
<1>9. IsSequence(v) /\ Balanced(v) /\ IsSequence(u)
  BY <1>8 DEF Fit, Even
<1>10. IsSequence(s \o v) /\ Balanced(s \o v) /\ Bal(s \o v) = 0
  BY <1>2, <1>3, <1>4, <1>8, <1>9, ConcatLemma, BalancedCons, BalConcat
<1>11. ASSUME NEW k \in 1..Len(s \o v) PROVE TaskOK((s \o v)[k])
  BY <1>4, <1>8, <1>9, ConcatElements DEF Fit
<1>12. Even(s \o v)
  BY <1>10, <1>11 DEF Even, Fit
<1>13. Scoped(u) = (s \o u) \o t
  BY <1>1, <1>3 DEF Scoped
<1>14. (s \o u) \o t = s \o v
  BY <1>4, <1>7, <1>9, Associative
<1> QED
  BY <1>12, <1>13, <1>14

-----------------------------------------------------------------------------
SInv ==
    /\ Fit(agenda)
    /\ IsSequence(scopeStack)
    /\ Bal(agenda) = Len(scopeStack)

LEMMA FitRest ==
    ASSUME SInv, agenda # <<>>
    PROVE  /\ TaskOK(This) /\ Fit(Tail(agenda))
           /\ Bal(agenda) = Bal(<<This>>) + Bal(Tail(agenda))
BY RestLemma DEF Fit, SInv, This

(* A handler that adds tasks and leaves the number of scopes alone.        *)
LEMMA Handled ==
    ASSUME SInv, agenda # <<>>, This.do \notin {"pushScope", "popScope"},
           NEW tasks, Even(tasks), Continue(tasks),
           IsSequence(scopeStack'), Len(scopeStack') = Len(scopeStack)
    PROVE  SInv'
<1>1. Fit(Tail(agenda)) /\ Bal(agenda) = Bal(<<This>>) + Bal(Tail(agenda))
  BY FitRest
<1>2. Bal(<<This>>) = 0
  BY BalOne
<1>3. Fit(tasks \o Tail(agenda)) /\ Bal(tasks \o Tail(agenda)) = Bal(Tail(agenda))
  <2>1. Bal(Tail(agenda)) \in Int
    BY <1>1, BalType DEF Fit
  <2> QED
    BY <1>1, <2>1, FitConcat DEF Even
<1>4. Bal(Tail(agenda)) \in Int
  BY <1>1, BalType DEF Fit
<1>5. Fit(agenda') /\ Bal(agenda') = Bal(agenda)
  BY <1>1, <1>2, <1>3, <1>4 DEF Continue
<1> QED
  BY <1>5 DEF SInv

LEMMA Adds ==
    ASSUME SInv, agenda # <<>>, This.do \notin {"pushScope", "popScope"},
           NEW tasks, Even(tasks), Continue(tasks), UNCHANGED scopeStack
    PROVE  SInv'
<1>1. IsSequence(scopeStack') /\ Len(scopeStack') = Len(scopeStack)
  BY DEF SInv
<1> QED
  BY <1>1, Handled

LEMMA Declares ==
    ASSUME SInv, agenda # <<>>, This.do \notin {"pushScope", "popScope"},
           NEW tasks, Even(tasks), Continue(tasks), NEW s, insertSymbol(s)
    PROVE  SInv'
<1>1. IsSequence(scopeStack') /\ Len(scopeStack') = Len(scopeStack)
  BY InsertKeeps DEF SInv
<1> QED
  BY <1>1, Handled

-----------------------------------------------------------------------------
LEMMA InitSInv == SemInit => SInv
<1> SUFFICES ASSUME SemInit PROVE SInv
  OBVIOUS
<1>1. /\ program \in Trees /\ IsSequence(program)
      /\ \A k \in 1..Len(program) : \A ln : TaskOK(Do("ExtDef", program[k], ln))
  <2>1. program \in Trees /\ IsSequence(program) /\ DOMAIN program = 1..Len(program)
    BY SemanticAssumption DEF SemInit, IsSequence
  <2>2. ASSUME NEW k \in 1..Len(program), NEW ln PROVE TaskOK(Do("ExtDef", program[k], ln))
    <3>1. PICK d : d = program[k]
      OBVIOUS
    <3>2. /\ d.kind \in {"vars", "fun", "semi"} /\ Specified(d.spec)
          /\ d.kind = "vars" => d.decs \in Seq(Decs)
          /\ d.kind = "fun" => d.params \in Seq(Defs) /\ Body(d.body)
      BY <2>1, <3>1, SemanticAssumption DEF Specified, Body
    <3> QED
      BY <3>1, <3>2 DEF TaskOK, Do
  <2> QED
    BY <2>1, <2>2
<1>2. Even(Own("ExtDef", program))
  <2>1. program \in Seq({program[k] : k \in 1..Len(program)})
    BY <1>1, RangeLemma
  <2>2. \A x \in {program[k] : k \in 1..Len(program)} : \A ln : Scopeless(Do("ExtDef", x, ln))
    BY <1>1 DEF Scopeless, Do
  <2> QED
    BY <2>1, <2>2, EvenOwn
<1>3. agenda = Scoped(Own("ExtDef", program)) /\ scopeStack = <<>>
  BY DEF SemInit
<1>4. Fit(agenda) /\ Bal(agenda) = 0
  BY <1>2, <1>3, EvenScoped DEF Even
<1>5. IsSequence(scopeStack) /\ Len(scopeStack) = 0
  BY <1>3, BalancedNone
<1> QED
  BY <1>4, <1>5 DEF SInv

LEMMA EnterStep ==
    ASSUME SInv, EnterScope
    PROVE  SInv'
<1>1. agenda # <<>> /\ This.do = "pushScope" /\ Continue(<<>>) /\ pushScope
  BY DEF EnterScope, Task, Doing
<1>2. Fit(Tail(agenda)) /\ Bal(agenda) = Bal(<<This>>) + Bal(Tail(agenda))
  BY <1>1, FitRest
<1>3. Bal(<<This>>) = -1
  BY <1>1, BalOne
<1>4. IsSequence(Tail(agenda)) /\ Bal(Tail(agenda)) \in Int
  BY <1>2, BalType DEF Fit
<1>5. agenda' = Tail(agenda)
  BY <1>1, <1>4, NothingBefore DEF Continue
<1>6. IsSequence(scopeStack') /\ Len(scopeStack') = Len(scopeStack) + 1
  BY <1>1, PushesOne DEF SInv
<1>7. Bal(Tail(agenda)) = Len(scopeStack')
  <2>1. PICK n \in Nat : n = Len(scopeStack)
    BY DEF SInv, IsSequence
  <2>2. PICK b \in Int : b = Bal(Tail(agenda))
    BY <1>4
  <2>3. n = -1 + b
    BY <1>2, <1>3, <2>1, <2>2 DEF SInv
  <2>4. Len(scopeStack') = n + 1
    BY <1>6, <2>1
  <2>5. b = n + 1
    BY <2>3
  <2> QED
    BY <2>2, <2>4, <2>5
<1> QED
  BY <1>2, <1>5, <1>6, <1>7 DEF SInv

(* There is a scope to leave: what is left over of the agenda is not less  *)
(* than nothing.                                                           *)
LEMMA LeaveStep ==
    ASSUME SInv, LeaveScope
    PROVE  SInv'
<1>1. agenda # <<>> /\ This.do = "popScope" /\ Continue(<<>>) /\ popScope
  BY DEF LeaveScope, Task, Doing
<1>2. Fit(Tail(agenda)) /\ Bal(agenda) = Bal(<<This>>) + Bal(Tail(agenda))
  BY <1>1, FitRest
<1>3. Bal(<<This>>) = 1
  BY <1>1, BalOne
<1>4. IsSequence(Tail(agenda)) /\ Bal(Tail(agenda)) \in Int /\ Bal(Tail(agenda)) >= 0
  BY <1>2, BalancedEnd DEF Fit
<1>5. agenda' = Tail(agenda)
  BY <1>1, <1>4, NothingBefore DEF Continue
<1>6. Len(scopeStack) >= 1
  BY <1>2, <1>3, <1>4 DEF SInv
<1>7. IsSequence(scopeStack') /\ Len(scopeStack') = Len(scopeStack) - 1
  BY <1>1, <1>6, PopsOne DEF SInv
<1>8. Bal(Tail(agenda)) = Len(scopeStack')
  <2>1. PICK n \in Nat : n = Len(scopeStack)
    BY DEF SInv, IsSequence
  <2>2. PICK b \in Int : b = Bal(Tail(agenda))
    BY <1>4
  <2>3. n = 1 + b
    BY <1>2, <1>3, <2>1, <2>2 DEF SInv
  <2>4. Len(scopeStack') = n - 1
    BY <1>7, <2>1
  <2>5. b = n - 1
    BY <2>3
  <2> QED
    BY <2>2, <2>4, <2>5
<1> QED
  BY <1>2, <1>5, <1>7, <1>8 DEF SInv

(* Handlers that end what they are about, or die at a null pointer.        *)
LEMMA EndingStep ==
    ASSUME SInv, agenda # <<>>, This.do \notin {"pushScope", "popScope"},
           (Continue(<<>>) /\ UNCHANGED scopeStack) \/ Fault
    PROVE  SInv'
<1>1. CASE Continue(<<>>) /\ UNCHANGED scopeStack
  BY <1>1, EvenNone, Adds
<1>2. CASE Fault
  BY <1>2 DEF Fault, SInv
<1> QED
  BY <1>1, <1>2

LEMMA EndingSteps ==
    ASSUME SInv,
           \/ Discard \/ TypeSpecifier \/ NamedStruct \/ EndDef \/ InitVar
           \/ Literal \/ Variable \/ Call \/ Assignment \/ Logical \/ Operation
           \/ Index \/ Member \/ Minus \/ Not \/ Return
    PROVE  SInv'
<1>1. agenda # <<>> /\ This.do \notin {"pushScope", "popScope"}
  BY DEF Task, Doing, Logicals, Operators, Discard, TypeSpecifier, NamedStruct, EndDef, InitVar,
         Literal, Variable, Call, Assignment, Logical, Operation, Index, Member, Minus, Not, Return
<1>2. (Continue(<<>>) /\ UNCHANGED scopeStack) \/ Fault
  <2>1. CASE Discard \/ TypeSpecifier \/ NamedStruct \/ EndDef \/ InitVar \/ Literal \/ Variable \/ Return
    BY <2>1 DEF Discard, TypeSpecifier, NamedStruct, EndDef, InitVar, Literal, Variable, Return
  <2>2. CASE Call
    BY <2>2 DEF Call
  <2>3. CASE Assignment \/ Logical \/ Operation
    BY <2>3 DEF Assignment, Logical, Operation, Checked
  <2>4. CASE Index \/ Member \/ Minus \/ Not
    BY <2>4 DEF Index, Member, Minus, Not, Checked
  <2> QED
    BY <2>1, <2>2, <2>3, <2>4
<1> QED
  BY <1>1, <1>2, EndingStep

LEMMA ExtDefStep ==
    ASSUME SInv, ExtDef
    PROVE  SInv'
<1> DEFINE d == This.it
           s == <<Do("Specifier", d.spec, d.ln)>>
<1>1. agenda # <<>> /\ This.do = "ExtDef" /\ UNCHANGED scopeStack
  BY DEF ExtDef, Task, Doing
<1>2. /\ d.kind \in {"vars", "fun", "semi"} /\ Specified(d.spec)
      /\ d.kind = "vars" => d.decs \in Seq(Decs)
      /\ d.kind = "fun" => d.params \in Seq(Defs) /\ Body(d.body)
  BY <1>1, FitRest DEF TaskOK
<1>3. Even(s)
  <2>1. Scopeless(Do("Specifier", d.spec, d.ln))
    BY <1>2 DEF Scopeless, TaskOK, Do
  <2> QED
    BY <2>1, EvenOne
<1>4. ASSUME NEW t, Even(t), Continue(s \o t) PROVE SInv'
  <2>1. Even(s \o t)
    BY <1>3, <1>4, EvenConcat
  <2> QED
    BY <1>1, <1>4, <2>1, Adds
<1>5. \A n : Even(<<Drop(n)>>)
  BY ScopelessDrop, EvenOne
<1>6. CASE d.kind = "vars"
  <2>1. Continue(s \o (Declarators(d.decs, d.ln) \o <<Drop(Len(d.decs) + 1)>>))
    BY <1>6 DEF ExtDef
  <2>2. Even(Declarators(d.decs, d.ln))
    BY <1>2, <1>6, EvenDeclarators
  <2>3. Even(Declarators(d.decs, d.ln) \o <<Drop(Len(d.decs) + 1)>>)
    BY <1>5, <2>2, EvenConcat
  <2> QED
    BY <1>4, <2>1, <2>3
<1>7. CASE d.kind = "fun"
  <2> DEFINE x == Drop(Len(d.params))
             y == Do("FunBody", d, d.ln)
             z == Drop(1)
  <2>1. Continue(s \o (Params(d.params) \o <<x, y, z>>))
    BY <1>7 DEF ExtDef
  <2>2. Even(Params(d.params))
    BY <1>2, <1>7, EvenDefs DEF Params
  <2>3. Scopeless(x) /\ Scopeless(y) /\ Scopeless(z)
    BY <1>2, <1>7, ScopelessDrop DEF Scopeless, TaskOK, Do
  <2> HIDE DEF x, y, z
  <2>4. Even(<<x, y, z>>)
    <3>1. PICK v : v = <<x, y, z>>
      OBVIOUS
    <3>2. IsSequence(v) /\ \A k \in 1..Len(v) : Scopeless(v[k])
      BY <2>3, <3>1 DEF IsSequence
    <3> QED
      BY <3>1, <3>2, EvenPlain
  <2>5. Even(Params(d.params) \o <<x, y, z>>)
    BY <2>2, <2>4, EvenConcat
  <2> QED
    BY <1>4, <2>1, <2>5
<1>8. CASE d.kind = "semi"
  <2>1. Continue(s \o <<Drop(1)>>)
    BY <1>8 DEF ExtDef
  <2> QED
    BY <1>4, <1>5, <2>1
<1> QED
  BY <1>2, <1>6, <1>7, <1>8

(* The body of a function that is defined already is passed over, and with *)
(* it the scope it would have had.                                         *)
LEMMA FunBodyStep ==
    ASSUME SInv, FunBody
    PROVE  SInv'
<1>1. agenda # <<>> /\ This.do = "FunBody"
  BY DEF FunBody, Task, Doing
<1>2. Body(This.it.body)
  BY <1>1, FitRest DEF TaskOK
<1>3. PICK x : x = Do("CompSt", This.it.body, This.it.ln)
  OBVIOUS
<1>4. \/ Continue(<<>>) /\ UNCHANGED scopeStack
      \/ Continue(Scoped(<<x>>)) /\ \E s : insertSymbol(s)
  BY <1>3 DEF FunBody
<1>5. Scopeless(x)
  BY <1>2, <1>3 DEF Scopeless, TaskOK, Do
<1>6. Even(Scoped(<<x>>))
  BY <1>5, EvenOne, EvenScoped
<1>7. CASE Continue(<<>>) /\ UNCHANGED scopeStack
  BY <1>1, <1>7, EndingStep
<1>8. CASE Continue(Scoped(<<x>>)) /\ \E s : insertSymbol(s)
  BY <1>1, <1>6, <1>8, Declares
<1> QED
  BY <1>4, <1>7, <1>8

LEMMA StructDefStep ==
    ASSUME SInv, StructDef
    PROVE  SInv'
<1>1. agenda # <<>> /\ This.do = "Specifier" /\ This.it.spec = "STRUCT" /\ UNCHANGED scopeStack
  BY DEF StructDef, Task, Doing
<1>2. This.it.defs \in Seq(Defs)
  BY <1>1, FitRest DEF TaskOK, Specified
<1>3. PICK x : x = Do("EndStruct", This.it, This.ln)
  OBVIOUS
<1>4. Continue(<<>>) \/ Continue(Own("Def", This.it.defs) \o <<x>>)
  BY <1>3 DEF StructDef
<1>5. Even(Own("Def", This.it.defs))
  BY <1>2, EvenDefs
<1>6. Even(<<x>>)
  <2>1. Scopeless(x)
    BY <1>3 DEF Scopeless, TaskOK, Do
  <2> QED
    BY <2>1, EvenOne
<1>7. Even(Own("Def", This.it.defs) \o <<x>>)
  BY <1>5, <1>6, EvenConcat
<1> QED
  BY <1>1, <1>4, <1>7, EvenNone, Adds

LEMMA EndStructStep ==
    ASSUME SInv, EndStruct
    PROVE  SInv'
<1>1. agenda # <<>> /\ This.do = "EndStruct" /\ Continue(<<>>) /\ \E s : insertSymbol(s)
  BY DEF EndStruct, Task, Doing
<1> QED
  BY <1>1, EvenNone, Declares

LEMMA DefStep ==
    ASSUME SInv, Def
    PROVE  SInv'
<1> DEFINE d == This.it
<1>1. agenda # <<>> /\ This.do = "Def" /\ UNCHANGED scopeStack
  BY DEF Def, Task, Doing
<1>2. d.decs \in Seq(Decs) /\ Specified(d.spec)
  BY <1>1, FitRest, SemanticAssumption DEF TaskOK, Specified
<1>3. PICK x, y : x = Do("Specifier", d.spec, d.ln) /\ y = Do("EndDef", Len(d.decs), d.ln)
  OBVIOUS
<1>4. Scopeless(x) /\ Scopeless(y)
  BY <1>2, <1>3 DEF Scopeless, TaskOK, Do
<1>5. Even(<<x>>) /\ Even(<<y>>) /\ Even(Declarators(d.decs, d.ln))
  BY <1>2, <1>4, EvenOne, EvenDeclarators
<1>6. Even(<<x>> \o Declarators(d.decs, d.ln))
  BY <1>5, EvenConcat
<1>7. Even(<<x>> \o Declarators(d.decs, d.ln) \o <<y>>)
  BY <1>5, <1>6, EvenConcat
<1>8. Continue(<<x>> \o Declarators(d.decs, d.ln) \o <<y>>)
  BY <1>3 DEF Def
<1> QED
  BY <1>1, <1>7, <1>8, Adds

LEMMA VarDecStep ==
    ASSUME SInv, VarDec
    PROVE  SInv'
<1> DEFINE dec == This.it.dec
<1>1. agenda # <<>> /\ This.do = "VarDec" /\ \E s : insertSymbol(s)
  BY DEF VarDec, Task, Doing
<1>2. dec.init \in Seq(Exps)
  BY <1>1, FitRest, SemanticAssumption DEF TaskOK
<1> DEFINE t == [j \in 1..Len(dec.init) |-> Do("Init", This.it.nth, This.ln)]
<1>3. Even(Each("Exp", dec.init, This.ln))
  BY <1>2, EvenExps
<1>4. Even(t)
  <2>1. t = [j \in 1..Len(dec.init) |-> t[j]] /\ \A j \in 1..Len(dec.init) : Scopeless(t[j])
    BY DEF Scopeless, TaskOK, Do
  <2> HIDE DEF t
  <2> QED
    BY <1>2, <2>1, EvenEach
<1>5. Continue(Each("Exp", dec.init, This.ln) \o t)
  BY DEF VarDec, Initial
<1> HIDE DEF t
<1>6. Even(Each("Exp", dec.init, This.ln) \o t)
  BY <1>3, <1>4, EvenConcat
<1> QED
  BY <1>1, <1>5, <1>6, Declares

LEMMA OperandsStep ==
    ASSUME SInv, Operands
    PROVE  SInv'
<1> DEFINE e == This.it
<1>1. /\ agenda # <<>> /\ This.do = "Exp" /\ UNCHANGED scopeStack
      /\ e.e \notin Literals \cup {"ID", "CALL"}
  BY DEF Operands, Task, Doing
<1>2. /\ e.e \in Logicals \cup Operators \cup {"ASSIGN", "LP", "LB", "DOT", "NEG", "NOT"}
      /\ e.of \in Seq(Exps)
  <2>1. e \in Exps
    BY <1>1, FitRest DEF TaskOK
  <2> QED
    BY <1>1, <2>1, SemanticAssumption
<1>3. PICK of : of = IF e.e = "ASSIGN" THEN Reverse(e.of) ELSE e.of
  OBVIOUS
<1>4. of \in Seq(Exps)
  <2>1. Reverse(e.of) \in Seq(Exps)
    BY <1>2 DEF Reverse
  <2> QED
    BY <1>2, <1>3, <2>1
<1>5. PICK t : t = IF e.e = "LP" THEN <<>> ELSE <<Do(e.e, e, This.ln)>>
  OBVIOUS
<1>6. Even(t)
  <2>1. Scopeless(Do(e.e, e, This.ln))
    BY <1>2 DEF Scopeless, TaskOK, Do, Logicals, Operators
  <2> QED
    BY <1>5, <2>1, EvenOne, EvenNone
<1>7. Even(Each("Exp", of, This.ln) \o t)
  BY <1>4, <1>6, EvenExps, EvenConcat
<1>8. Continue(Each("Exp", of, This.ln) \o t)
  BY <1>3, <1>5 DEF Operands
<1> QED
  BY <1>1, <1>7, <1>8, Adds

LEMMA CompStStep ==
    ASSUME SInv, CompSt
    PROVE  SInv'
<1> DEFINE s == Own("Def", This.it.defs)
           t == Own("Stmt", This.it.stmts)
           x == Drop(Len(This.it.defs))
<1>1. agenda # <<>> /\ This.do = "CompSt" /\ UNCHANGED scopeStack
  BY DEF CompSt, Task, Doing
<1>2. Body(This.it)
  BY <1>1, FitRest DEF TaskOK
<1>3. Even(s) /\ Even(t)
  BY <1>2, EvenDefs, EvenStmts DEF Body
<1>4. Even(<<x>>)
  BY ScopelessDrop, EvenOne
<1>5. Continue(s \o <<x>> \o t)
  BY DEF CompSt
<1> HIDE DEF s, t, x
<1>6. Even(s \o <<x>>)
  BY <1>3, <1>4, EvenConcat
<1>7. Even(s \o <<x>> \o t)
  BY <1>3, <1>6, EvenConcat
<1> QED
  BY <1>1, <1>5, <1>7, Adds

LEMMA BlockStmtStep ==
    ASSUME SInv, BlockStmt
    PROVE  SInv'
<1>1. agenda # <<>> /\ This.do = "Stmt" /\ This.it.s = "CompSt" /\ UNCHANGED scopeStack
  BY DEF BlockStmt, Parsing, Task, Doing
<1>2. Body(This.it)
  BY <1>1, FitRest, SemanticAssumption DEF TaskOK, Body
<1>3. PICK x : x = Do("CompSt", This.it, This.ln)
  OBVIOUS
<1>4. Scopeless(x)
  BY <1>2, <1>3 DEF Scopeless, TaskOK, Do
<1>5. Even(Scoped(<<x>>))
  BY <1>4, EvenOne, EvenScoped
<1>6. Continue(Scoped(<<x>>))
  BY <1>3 DEF BlockStmt
<1> QED
  BY <1>1, <1>5, <1>6, Adds

LEMMA EvaluateStep ==
    ASSUME SInv, Evaluate
    PROVE  SInv'
<1>1. agenda # <<>> /\ This.do = "Stmt" /\ This.it.s # "CompSt" /\ UNCHANGED scopeStack
  BY DEF Evaluate, Task, Doing
<1>2. This.it \in Stmts
  BY <1>1, FitRest DEF TaskOK
<1>3. /\ This.it.s \in {"Exp", "RETURN", "IF", "WHILE"} /\ This.it.exp \in Exps
      /\ This.it.s = "IF" => This.it.then \in Stmts /\ This.it.else \in Seq(Stmts)
      /\ This.it.s = "WHILE" => This.it.body \in Stmts
  BY <1>1, <1>2, SemanticAssumption
<1>4. PICK x, y : /\ x = Do("Exp", This.it.exp, This.ln)
                  /\ y = IF This.it.s = "Exp" THEN Drop(1) ELSE Do(This.it.s, This.it, This.ln)
  OBVIOUS
<1>5. Scopeless(x)
  BY <1>3, <1>4 DEF Scopeless, TaskOK, Do
<1>6. Scopeless(y)
  <2>1. CASE This.it.s = "Exp"
    BY <1>4, <2>1, ScopelessDrop
  <2>2. CASE This.it.s # "Exp"
    BY <1>3, <1>4, <2>2 DEF Scopeless, TaskOK, Do
  <2> QED
    BY <2>1, <2>2
<1>7. Even(<<x, y>>)
  BY <1>5, <1>6, EvenTwo
<1>8. Continue(<<x, y>>)
  BY <1>4 DEF Evaluate
<1> QED
  BY <1>1, <1>7, <1>8, Adds

(* A branch that is not walked enters no scope.                            *)
LEMMA ControlledStep ==
    ASSUME SInv, If \/ While
    PROVE  SInv'
<1>1. agenda # <<>> /\ This.do \in {"IF", "WHILE"} /\ UNCHANGED scopeStack
  BY DEF If, While, Controlled, Task, Doing
<1>2. PICK stmts : /\ stmts \in Seq(Stmts)
                   /\ Continue(Own("Stmt", stmts)) \/ Continue(<<>>)
  <2>1. CASE If
    <3>1. This.it.then \in Stmts /\ This.it.else \in Seq(Stmts)
      BY <1>1, <2>1, FitRest DEF TaskOK, If, Task, Doing
    <3>2. <<This.it.then>> \o This.it.else \in Seq(Stmts)
      BY <3>1
    <3>3. \/ Continue(Own("Stmt", <<This.it.then>> \o This.it.else))
          \/ Continue(<<>>)
      BY <2>1 DEF If, Controlled
    <3> QED
      BY <3>2, <3>3
  <2>2. CASE While
    <3>1. This.it.body \in Stmts
      BY <1>1, <2>2, FitRest DEF TaskOK, While, Task, Doing
    <3>2. <<This.it.body>> \in Seq(Stmts)
      BY <3>1
    <3>3. Continue(Own("Stmt", <<This.it.body>>)) \/ Continue(<<>>)
      BY <2>2 DEF While, Controlled
    <3> QED
      BY <3>2, <3>3
  <2> QED
    BY <2>1, <2>2
<1>3. Even(Own("Stmt", stmts)) /\ Even(<<>>)
  BY <1>2, EvenStmts, EvenNone
<1> QED
  BY <1>1, <1>2, <1>3, Adds

LEMMA StepSInv == SInv /\ [SemNext]_svars => SInv'
<1> SUFFICES ASSUME SInv, [SemNext]_svars PROVE SInv'
  OBVIOUS
<1>1. CASE EnterScope
  BY <1>1, EnterStep
<1>2. CASE LeaveScope
  BY <1>2, LeaveStep
<1>3. CASE \/ Discard \/ TypeSpecifier \/ NamedStruct \/ EndDef \/ InitVar
           \/ Literal \/ Variable \/ Call \/ Assignment \/ Logical \/ Operation
           \/ Index \/ Member \/ Minus \/ Not \/ Return
  BY <1>3, EndingSteps
<1>4. CASE ExtDef
  BY <1>4, ExtDefStep
<1>5. CASE FunBody
  BY <1>5, FunBodyStep
<1>6. CASE StructDef
  BY <1>6, StructDefStep
<1>7. CASE EndStruct
  BY <1>7, EndStructStep
<1>8. CASE Def
  BY <1>8, DefStep
<1>9. CASE VarDec
  BY <1>9, VarDecStep
<1>10. CASE Operands
  BY <1>10, OperandsStep
<1>11. CASE CompSt
  BY <1>11, CompStStep
<1>12. CASE BlockStmt
  BY <1>12, BlockStmtStep
<1>13. CASE Evaluate
  BY <1>13, EvaluateStep
<1>14. CASE If \/ While
  BY <1>14, ControlledStep
<1>15. CASE UNCHANGED svars
  BY <1>15 DEF svars, SInv
<1> QED
  BY <1>1, <1>2, <1>3, <1>4, <1>5, <1>6, <1>7, <1>8, <1>9, <1>10, <1>11, <1>12, <1>13, <1>14, <1>15
     DEF SemNext, Walk

LEMMA SInvOpen == SInv => ScopesOpen
<1> SUFFICES ASSUME SInv PROVE ScopesOpen
  OBVIOUS
<1>1. IsSequence(agenda)
  BY DEF SInv, Fit
<1>2. Waiting("popScope") = At("popScope", agenda) /\ Waiting("pushScope") = At("pushScope", agenda)
  BY DEF Waiting, At
<1>3. \A kind : Cardinality(At(kind, agenda)) \in Nat
  BY <1>1, AtFinite
<1>4. Len(scopeStack) \in Nat
  BY DEF SInv, IsSequence
<1> QED
  BY <1>2, <1>3, <1>4 DEF SInv, Bal, ScopesOpen

(* In every state of the walk of every program as many scopes are open as  *)
(* the walk has still to leave: no path through semantic.c forgets a       *)
(* popScope or makes one too many, also where it stops at a report.        *)
THEOREM ScopesStayOpen == SemSpec => []ScopesOpen
<1>1. SemInit => SInv
  BY InitSInv
<1>2. SInv /\ [SemNext]_svars => SInv'
  BY StepSInv
<1>3. SInv => ScopesOpen
  BY SInvOpen
<1> QED
  BY <1>1, <1>2, <1>3, PTL DEF SemSpec
=============================================================================
