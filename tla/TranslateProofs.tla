-------------------------- MODULE TranslateProofs --------------------------
(***************************************************************************)
(* ScopesMatchWalk holds of every program.  The invariant, SInv, says of   *)
(* the agenda what makes it so: read from any point to the end, it does    *)
(* not enter more scopes than it leaves, each task has the trees it needs, *)
(* and what it leaves over is the number of scopes.  Every handler adds    *)
(* tasks that are Fit and enter as much as they leave.                     *)
(*                                                                         *)
(* TransTypeOK and PlacedOnce hold of every walk whose operands are what   *)
(* the handlers take them for (OperandsFit).  The invariant, TInv, says    *)
(* which labels may still be placed: those that a task of the agenda       *)
(* holds, endTag, and the two of the && or || whose code comes last.  They *)
(* are pairwise different, and none has been placed.                       *)
(*                                                                         *)
(* OperandsFit holds of every typed program whose names resolve.  The      *)
(* invariant, KInv, gives what is in vals the kinds with which the agenda  *)
(* runs to its end.                                                        *)
(***************************************************************************)
EXTENDS Translate, Agendas, WellFoundedInduction

(* What the tasks of the walk carry.                                       *)

TaskOK(task) ==
    /\ task.do = "ExtDef" =>
          /\ task.it.kind \in {"fun", "vars"}
          /\ task.it.kind = "fun" => task.it.params \in Seq(Decs) /\ task.it.body \in Stmts
          /\ task.it.kind = "vars" => task.it.decs \in Seq(Decs)
    /\ task.do = "FunBody" => task.it.params \in Seq(Decs) /\ task.it.body \in Stmts
    /\ task.do \in {"Dec", "ParamDec"} => task.it \in Decs
    /\ task.do \in {"Exp", "Exp="} => task.it \in Exps
    /\ task.do = "Stmt" => task.it \in Stmts
    /\ task.do = "IF" => task.it.then \in Stmts /\ task.it.else \in Seq(Stmts)
    /\ task.do = "ELSE" => task.it.else \in Seq(Stmts) /\ task.it.else # <<>>
    /\ task.do = "WHILE" => task.it.body \in Stmts
    /\ task.do = "CALL" => task.it.of \in Seq(Exps)

(* Tasks that a handler may put on the agenda: they leave the scopes they  *)
(* enter.                                                                  *)
Fit(s) ==
    /\ IsSequence(s)
    /\ \A k \in 1..Len(s) : TaskOK(s[k])
    /\ Balanced(s)

LEMMA FitConcat ==
    ASSUME NEW s, Fit(s), NEW t, Fit(t)
    PROVE  Fit(s \o t) /\ Bal(s \o t) = Bal(s) + Bal(t)
<1>1. IsSequence(s) /\ IsSequence(t) /\ Balanced(s) /\ Balanced(t)
  BY DEF Fit
<1>2. ASSUME NEW k \in 1..Len(s \o t) PROVE TaskOK((s \o t)[k])
  BY <1>1, ConcatElements DEF Fit
<1>3. IsSequence(s \o t) /\ Balanced(s \o t) /\ Bal(s \o t) = Bal(s) + Bal(t)
  BY <1>1, ConcatLemma, BalancedConcat, BalConcat
<1> QED
  BY <1>2, <1>3 DEF Fit

LEMMA FitPlain ==
    ASSUME NEW s, IsSequence(s),
           \A k \in 1..Len(s) : TaskOK(s[k]) /\ s[k].do \notin {"pushScope", "popScope"}
    PROVE  Fit(s) /\ Bal(s) = 0
BY BalancedPlain DEF Fit, Plain

LEMMA OneTask ==
    ASSUME NEW kind, NEW it
    PROVE  /\ IsSequence(<<Do(kind, it)>>) /\ Len(<<Do(kind, it)>>) = 1
           /\ <<Do(kind, it)>>[1].do = kind /\ <<Do(kind, it)>>[1].it = it
BY DEF Do, IsSequence

LEMMA FitOne ==
    ASSUME NEW kind, NEW it, TaskOK(Do(kind, it)), kind \notin {"pushScope", "popScope"}
    PROVE  Fit(<<Do(kind, it)>>) /\ Bal(<<Do(kind, it)>>) = 0
<1> DEFINE s == <<Do(kind, it)>>
<1>1. IsSequence(s) /\ Len(s) = 1 /\ s[1] = Do(kind, it) /\ s[1].do = kind
  BY OneTask
<1> HIDE DEF s
<1>2. \A k \in 1..Len(s) : k = 1
  BY <1>1
<1>3. Fit(s) /\ Bal(s) = 0
  BY <1>1, <1>2, FitPlain
<1> QED
  BY <1>3 DEF s

LEMMA FitNone == Fit(<<>>) /\ Bal(<<>>) = 0
BY BalancedNone DEF Fit

LEMMA FitEach ==
    ASSUME NEW kind, kind \notin {"pushScope", "popScope"},
           NEW S, NEW list \in Seq(S), \A x \in S : TaskOK(Do(kind, x))
    PROVE  Fit(Each(kind, list)) /\ Bal(Each(kind, list)) = 0
<1> DEFINE s == Each(kind, list)
<1>1. Len(list) \in Nat /\ \A k \in 1..Len(list) : list[k] \in S
  OBVIOUS
<1>2. /\ s = [k \in 1..Len(list) |-> s[k]]
      /\ \A k \in 1..Len(list) : s[k] = Do(kind, list[k]) /\ s[k].do = kind
  BY DEF Each, Do
<1> HIDE DEF s
<1>3. IsSequence(s) /\ Len(s) = Len(list)
  BY <1>1, <1>2, FunctionLemma
<1>4. \A k \in 1..Len(s) : TaskOK(s[k]) /\ s[k].do \notin {"pushScope", "popScope"}
  BY <1>1, <1>2, <1>3
<1>5. Fit(s) /\ Bal(s) = 0
  BY <1>3, <1>4, FitPlain
<1> QED
  BY <1>5 DEF s

(* A first task in front of others.                                        *)
LEMMA FitCons ==
    ASSUME NEW x, TaskOK(x), NEW t, Fit(t), Bal(<<x>>) + Bal(t) >= 0
    PROVE  Fit(<<x>> \o t) /\ Bal(<<x>> \o t) = Bal(<<x>>) + Bal(t)
<1>1. PICK s : s = <<x>>
  OBVIOUS
<1>2. IsOne(s) /\ IsSequence(s) /\ IsSequence(t) /\ Balanced(t)
  BY <1>1, BalOne DEF IsOne, Fit
<1>3. \A k \in 1..Len(s) : TaskOK(s[k])
  BY <1>1, BalOne
<1>4. IsSequence(s \o t) /\ Balanced(s \o t) /\ Bal(s \o t) = Bal(s) + Bal(t)
  BY <1>1, <1>2, ConcatLemma, BalancedCons, BalConcat
<1>5. ASSUME NEW k \in 1..Len(s \o t) PROVE TaskOK((s \o t)[k])
  BY <1>2, <1>3, ConcatElements DEF Fit
<1> QED
  BY <1>1, <1>4, <1>5 DEF Fit

(* What is left when the first task is taken away.                         *)
LEMMA FitRest ==
    ASSUME NEW s, Fit(s), s # <<>>
    PROVE  /\ TaskOK(Head(s)) /\ Fit(Tail(s))
           /\ Bal(s) = Bal(<<Head(s)>>) + Bal(Tail(s))
BY RestLemma DEF Fit

LEMMA FitLeave ==
    ASSUME NEW it
    PROVE  Fit(<<Do("popScope", it)>>) /\ Bal(<<Do("popScope", it)>>) = 1
<1> DEFINE x == Do("popScope", it)
<1>1. TaskOK(x) /\ Bal(<<x>>) = 1
  BY BalOne DEF Do, TaskOK
<1> HIDE DEF x
<1>2. PICK t : t = <<>>
  OBVIOUS
<1>3. Fit(t) /\ Bal(t) = 0
  BY <1>2, FitNone
<1>4. Fit(<<x>> \o t)
  BY <1>1, <1>3, FitCons
<1>5. <<x>> \o t = <<x>>
  BY <1>2
<1> QED
  BY <1>1, <1>4, <1>5 DEF x

(* Tasks with a scope of their own.                                        *)
LEMMA FitScope ==
    ASSUME NEW u, Fit(u), Bal(u) = 0
    PROVE  LET s == <<Do("pushScope", NULL)>> \o (u \o <<Do("popScope", NULL)>>)
           IN  Fit(s) /\ Bal(s) = 0
<1>1. PICK v : v = u \o <<Do("popScope", NULL)>>
  OBVIOUS
<1>2. Fit(v) /\ Bal(v) = 1
  BY <1>1, FitLeave, FitConcat
<1>3. PICK x : x = Do("pushScope", NULL)
  OBVIOUS
<1>4. TaskOK(x) /\ Bal(<<x>>) = -1
  BY <1>3, BalOne DEF Do, TaskOK
<1>5. Fit(<<x>> \o v) /\ Bal(<<x>> \o v) = 0
  BY <1>2, <1>4, FitCons
<1> QED
  BY <1>1, <1>3, <1>5

LEMMA FitScoped ==
    ASSUME NEW s \in Stmts
    PROVE  Fit(Scoped(s)) /\ Bal(Scoped(s)) = 0
<1> DEFINE u == <<Do("Stmt", s)>>
<1>1. Fit(u) /\ Bal(u) = 0
  <2>1. TaskOK(Do("Stmt", s))
    BY DEF TaskOK, Do
  <2> QED
    BY <2>1, FitOne
<1>2. Scoped(s) = <<Do("pushScope", NULL)>> \o (u \o <<Do("popScope", NULL)>>)
  BY DEF Scoped
<1> HIDE DEF u
<1> QED
  BY <1>1, <1>2, FitScope

-----------------------------------------------------------------------------
SInv ==
    /\ Fit(agenda)
    /\ IsSequence(scopeStack)
    /\ Bal(agenda) + 1 = Len(scopeStack)

(* A handler that does its tasks and leaves the number of scopes alone.    *)
LEMMA Handled ==
    ASSUME SInv, agenda # <<>>, This.do \notin {"pushScope", "popScope"},
           NEW tasks, Fit(tasks), Bal(tasks) = 0, Continue(tasks),
           IsSequence(scopeStack'), Len(scopeStack') = Len(scopeStack)
    PROVE  SInv'
<1>1. /\ Fit(Tail(agenda))
      /\ Bal(agenda) = Bal(<<This>>) + Bal(Tail(agenda))
  BY FitRest DEF SInv, This
<1>2. Bal(<<This>>) = 0
  BY BalOne
<1>3. Fit(tasks \o Tail(agenda)) /\ Bal(tasks \o Tail(agenda)) = Bal(tasks) + Bal(Tail(agenda))
  BY <1>1, FitConcat
<1>4. Bal(Tail(agenda)) \in Int
  BY <1>1, BalType DEF Fit
<1>5. Fit(agenda') /\ Bal(agenda') = Bal(agenda)
  BY <1>1, <1>2, <1>3, <1>4 DEF Continue
<1> QED
  BY <1>5 DEF SInv

LEMMA SameScopes ==
    ASSUME SInv, UNCHANGED scopeStack
    PROVE  IsSequence(scopeStack') /\ Len(scopeStack') = Len(scopeStack)
BY DEF SInv

-----------------------------------------------------------------------------
LEMMA InitSInv == TransInit => SInv
<1> SUFFICES ASSUME TransInit PROVE SInv
  OBVIOUS
<1>1. /\ source \in Sources /\ IsSequence(source)
      /\ \A k \in 1..Len(source) :
            /\ source[k].kind \in {"fun", "vars"}
            /\ source[k].kind = "fun" => source[k].params \in Seq(Decs) /\ source[k].body \in Stmts
            /\ source[k].kind = "vars" => source[k].decs \in Seq(Decs)
  BY TranslateAssumption DEF TransInit, IsSequence
<1>2. agenda = Each("ExtDef", source)
  BY DEF TransInit
<1>3. Fit(agenda) /\ Bal(agenda) = 0
  <2>1. source \in Seq({source[k] : k \in 1..Len(source)})
    BY <1>1, RangeLemma
  <2>2. \A x \in {source[k] : k \in 1..Len(source)} : TaskOK(Do("ExtDef", x))
    BY <1>1 DEF TaskOK, Do
  <2> QED
    BY <1>2, <2>1, <2>2, FitEach
<1>4. IsSequence(scopeStack) /\ Len(scopeStack) = 1
  BY BalOne DEF TransInit
<1> QED
  BY <1>3, <1>4 DEF SInv

(* What the task at hand carries.                                          *)
LEMMA AtHand ==
    ASSUME SInv, agenda # <<>>
    PROVE  TaskOK(This)
BY FitRest DEF SInv, This

LEMMA EnterStep ==
    ASSUME SInv, EnterScope
    PROVE  SInv'
<1>1. agenda # <<>> /\ This.do = "pushScope" /\ Continue(<<>>) /\ pushScope
  BY DEF EnterScope, Task, Doing
<1>2. Fit(Tail(agenda)) /\ Bal(agenda) = Bal(<<This>>) + Bal(Tail(agenda))
  BY <1>1, FitRest DEF SInv, This
<1>3. Bal(<<This>>) = -1
  BY <1>1, BalOne
<1>4. IsSequence(Tail(agenda)) /\ Bal(Tail(agenda)) \in Int
  BY <1>2, BalType DEF Fit
<1>5. agenda' = Tail(agenda)
  BY <1>1, <1>4, NothingBefore DEF Continue
<1>6. IsSequence(scopeStack') /\ Len(scopeStack') = Len(scopeStack) + 1
  BY <1>1, PushesOne DEF SInv
<1> QED
  BY <1>2, <1>3, <1>4, <1>5, <1>6 DEF SInv

LEMMA LeaveStep ==
    ASSUME SInv, LeaveScope
    PROVE  SInv'
<1>1. agenda # <<>> /\ This.do = "popScope" /\ Continue(<<>>) /\ popScope
  BY DEF LeaveScope, Task, Doing
<1>2. Fit(Tail(agenda)) /\ Bal(agenda) = Bal(<<This>>) + Bal(Tail(agenda))
  BY <1>1, FitRest DEF SInv, This
<1>3. Bal(<<This>>) = 1
  BY <1>1, BalOne
<1>4. IsSequence(Tail(agenda)) /\ Bal(Tail(agenda)) \in Int /\ Bal(Tail(agenda)) >= 0
  BY <1>2, BalancedEnd DEF Fit
<1>5. agenda' = Tail(agenda)
  BY <1>1, <1>4, NothingBefore DEF Continue
<1>6. Len(scopeStack) >= 1
  BY <1>2, <1>3, <1>4 DEF SInv
<1>7. IsSequence(scopeStack') /\ Len(scopeStack') = Len(scopeStack) - 1
  BY <1>1, <1>6, PopsOne DEF SInv
<1>8. Len(scopeStack) \in Int
  BY DEF SInv, IsSequence
<1> QED
  BY <1>2, <1>3, <1>4, <1>5, <1>7, <1>8 DEF SInv

(* A handler that ends what it is about.                                   *)
LEMMA Ended ==
    ASSUME SInv, agenda # <<>>, This.do \notin {"pushScope", "popScope"},
           Continue(<<>>), UNCHANGED scopeStack
    PROVE  SInv'
BY Handled, SameScopes, FitNone

LEMMA VarDecKeeps ==
    ASSUME SInv, NEW x, NEW dims, NEW isFuncParam, VarDec(x, dims, isFuncParam)
    PROVE  IsSequence(scopeStack') /\ Len(scopeStack') = Len(scopeStack)
<1>1. \E s : insertSymbol(s)
  BY DEF VarDec
<1> QED
  BY <1>1, InsertKeeps DEF SInv

LEMMA EndingSteps ==
    ASSUME SInv,
           InitVar \/ Leaf \/ Assignment \/ Logical \/ Relational \/ Arithmetic \/ Minus \/ Index \/ Not
             \/ Call \/ Expression \/ Return \/ EndThen \/ EndIf \/ EndWhile
    PROVE  SInv'
<1>1. agenda # <<>> /\ This.do \notin {"pushScope", "popScope"}
  BY DEF Task, Doing, RelOps, ArithOps, InitVar, Leaf, Assignment, Logical, Relational, Arithmetic,
         Minus, Index, Not, Call, Expression, Return, EndThen, EndIf, EndWhile
<1>2. Continue(<<>>) /\ UNCHANGED scopeStack
  BY DEF Result, InitVar, Leaf, Assignment, Logical, Relational, Arithmetic,
         Minus, Index, Not, Call, Expression, Return, EndThen, EndIf, EndWhile
<1> QED
  BY <1>1, <1>2, Ended

LEMMA ExtDefStep ==
    ASSUME SInv, ExtDef
    PROVE  SInv'
<1>1. agenda # <<>> /\ This.do = "ExtDef" /\ UNCHANGED scopeStack
  BY DEF ExtDef, Task, Doing
<1>2. This.it.params \in Seq(Decs) /\ This.it.body \in Stmts
  BY <1>1, AtHand DEF TaskOK, ExtDef
<1> DEFINE s == Each("ParamDec", This.it.params)
           t == <<Do("FunBody", This.it)>>
<1>3. Fit(s) /\ Bal(s) = 0
  <2>1. \A x \in Decs : TaskOK(Do("ParamDec", x))
    BY DEF TaskOK, Do
  <2> QED
    BY <1>2, <2>1, FitEach
<1>4. Fit(t) /\ Bal(t) = 0
  <2>1. TaskOK(Do("FunBody", This.it))
    BY <1>2 DEF TaskOK, Do
  <2> QED
    BY <2>1, FitOne
<1>5. Continue(s \o t)
  BY DEF ExtDef
<1> HIDE DEF s, t
<1>6. Fit(s \o t) /\ Bal(s \o t) = 0
  BY <1>3, <1>4, FitConcat
<1> QED
  BY <1>1, <1>5, <1>6, Handled, SameScopes

LEMMA ExtDecListStep ==
    ASSUME SInv, ExtDecList
    PROVE  SInv'
<1>1. agenda # <<>> /\ This.do = "ExtDef" /\ UNCHANGED scopeStack
  BY DEF ExtDecList, Task, Doing
<1>2. This.it.decs \in Seq(Decs)
  BY <1>1, AtHand DEF TaskOK, ExtDecList
<1> DEFINE s == Each("Dec", This.it.decs)
<1>3. Fit(s) /\ Bal(s) = 0
  <2>1. \A x \in Decs : TaskOK(Do("Dec", x))
    BY DEF TaskOK, Do
  <2> QED
    BY <1>2, <2>1, FitEach
<1>4. Continue(s)
  BY DEF ExtDecList
<1> HIDE DEF s
<1> QED
  BY <1>1, <1>3, <1>4, Handled, SameScopes

LEMMA FunBodyStep ==
    ASSUME SInv, FunBody
    PROVE  SInv'
<1>1. agenda # <<>> /\ This.do = "FunBody"
  BY DEF FunBody, Task, Doing
<1>2. This.it.body \in Stmts
  BY <1>1, AtHand DEF TaskOK
<1>3. \/ Continue(<<>>) /\ UNCHANGED scopeStack
      \/ Continue(Scoped(This.it.body)) /\ \E s : insertSymbol(s)
  BY DEF FunBody
<1>4. CASE Continue(<<>>) /\ UNCHANGED scopeStack
  BY <1>1, <1>4, Ended
<1>5. CASE Continue(Scoped(This.it.body)) /\ \E s : insertSymbol(s)
  <2>1. IsSequence(scopeStack') /\ Len(scopeStack') = Len(scopeStack)
    BY <1>5, InsertKeeps DEF SInv
  <2>2. Fit(Scoped(This.it.body)) /\ Bal(Scoped(This.it.body)) = 0
    BY <1>2, FitScoped
  <2> QED
    BY <1>1, <1>5, <2>1, <2>2, Handled
<1> QED
  BY <1>3, <1>4, <1>5

LEMMA DecStep ==
    ASSUME SInv, ParamDec \/ Dec
    PROVE  SInv'
<1>1. agenda # <<>> /\ This.do \in {"ParamDec", "Dec"}
  BY DEF ParamDec, Dec, Task, Doing
<1>2. IsSequence(scopeStack') /\ Len(scopeStack') = Len(scopeStack)
  BY VarDecKeeps DEF ParamDec, Dec
<1>3. CASE ParamDec
  BY <1>1, <1>2, <1>3, Handled, FitNone DEF ParamDec
<1>4. CASE Dec
  <2>1. This.it \in Decs
    BY <1>1, <1>4, AtHand DEF TaskOK, Dec, Task, Doing
  <2>2. This.it.init \in Seq(Exps)
    BY <2>1, TranslateAssumption
  <2> DEFINE s == Each("Exp", This.it.init)
             t == [k \in DOMAIN This.it.init |-> Do("Init", This.it.x)]
  <2>3. Fit(s) /\ Bal(s) = 0
    <3>1. \A x \in Exps : TaskOK(Do("Exp", x))
      BY DEF TaskOK, Do
    <3> QED
      BY <2>2, <3>1, FitEach
  <2>4. Fit(t) /\ Bal(t) = 0
    <3>1. PICK n \in Nat : n = Len(This.it.init) /\ DOMAIN This.it.init = 1..n
      BY <2>2
    <3>2. t = [k \in 1..n |-> t[k]] /\ \A k \in 1..n : t[k].do = "Init"
      BY <3>1 DEF Do
    <3> HIDE DEF t
    <3>3. IsSequence(t) /\ Len(t) = n
      BY <3>2, FunctionLemma
    <3>4. \A k \in 1..Len(t) : TaskOK(t[k]) /\ t[k].do \notin {"pushScope", "popScope"}
      BY <3>2, <3>3 DEF TaskOK
    <3> QED
      BY <3>3, <3>4, FitPlain
  <2>5. Continue(s \o t)
    BY <1>4 DEF Dec
  <2> HIDE DEF s, t
  <2>6. Fit(s \o t) /\ Bal(s \o t) = 0
    BY <2>3, <2>4, FitConcat
  <2> QED
    BY <1>1, <1>2, <2>5, <2>6, Handled
<1> QED
  BY <1>3, <1>4

LEMMA FitTwo ==
    ASSUME NEW kind, NEW it, TaskOK(Do(kind, it)), kind \notin {"pushScope", "popScope"},
           NEW next, NEW then, TaskOK(Do(next, then)), next \notin {"pushScope", "popScope"}
    PROVE  Fit(<<Do(kind, it), Do(next, then)>>) /\ Bal(<<Do(kind, it), Do(next, then)>>) = 0
<1>1. PICK s : s = <<Do(kind, it)>>
  OBVIOUS
<1>2. PICK t : t = <<Do(next, then)>>
  OBVIOUS
<1>3. Fit(s) /\ Bal(s) = 0 /\ Fit(t) /\ Bal(t) = 0
  BY <1>1, <1>2, FitOne
<1>4. Fit(s \o t) /\ Bal(s \o t) = 0
  BY <1>3, FitConcat
<1>5. <<Do(kind, it)>> \o <<Do(next, then)>> = <<Do(kind, it), Do(next, then)>>
  BY PairLemma
<1> QED
  BY <1>1, <1>2, <1>4, <1>5

LEMMA OperandsStep ==
    ASSUME SInv, Operands
    PROVE  SInv'
<1> DEFINE e == This.it
<1>1. /\ agenda # <<>> /\ This.do \in {"Exp", "Exp="} /\ UNCHANGED scopeStack
      /\ e.e \notin {"INT", "ID"}
  BY DEF Operands, Doing
<1>2. e.e \in Operations /\ e.of \in Seq(Exps) /\ (e.e = "ASSIGN" => e.of[1] \in Exps /\ e.of[2] \in Exps)
  <2>1. e \in Exps
    BY <1>1, AtHand DEF TaskOK
  <2>2. e.e \in Operations /\ e.of \in Seq(Exps) /\ (e.e = "ASSIGN" => Len(e.of) = 2)
    BY <1>1, <2>1, TranslateAssumption
  <2> QED
    BY <2>2
<1>3. \A kind \in {"Exp", "Exp="} : \A x \in Exps : TaskOK(Do(kind, x))
  BY DEF TaskOK, Do
<1>4. \A kind \in Operations \cup {"LB="} : TaskOK(Do(kind, e)) /\ kind \notin {"pushScope", "popScope"}
  BY <1>2 DEF TaskOK, Do, Operations, RelOps, ArithOps
<1>5. ASSUME NEW kind \in {"Exp", "Exp="} PROVE Fit(Each(kind, e.of)) /\ Bal(Each(kind, e.of)) = 0
  BY <1>2, <1>3, FitEach
<1>6. ASSUME NEW kind \in {"Exp", "Exp="}, NEW op \in Operations \cup {"LB="}
      PROVE  LET tasks == Each(kind, e.of) \o <<Do(op, e)>> IN Fit(tasks) /\ Bal(tasks) = 0
  <2>1. PICK s : s = Each(kind, e.of)
    OBVIOUS
  <2>2. PICK t : t = <<Do(op, e)>>
    OBVIOUS
  <2>3. Fit(s) /\ Bal(s) = 0
    BY <1>5, <2>1
  <2>4. Fit(t) /\ Bal(t) = 0
    BY <1>4, <2>2, FitOne
  <2> QED
    BY <2>1, <2>2, <2>3, <2>4, FitConcat
<1>7. ASSUME NEW tasks, Fit(tasks), Bal(tasks) = 0, Continue(tasks) PROVE SInv'
  BY <1>1, <1>7, Handled, SameScopes
<1>8. CASE e.e = "ASSIGN"
  <2> DEFINE s == <<Do("Exp", e.of[2])>>
             t == <<Do("Exp=", e.of[1]), Do("ASSIGN", e)>>
  <2>1. Fit(s) /\ Bal(s) = 0
    BY <1>2, <1>3, <1>8, FitOne
  <2>2. Fit(t) /\ Bal(t) = 0
    BY <1>2, <1>3, <1>4, <1>8, FitTwo
  <2>3. Continue(s \o t)
    BY <1>8 DEF Operands, Continue
  <2> HIDE DEF s, t
  <2>4. Fit(s \o t) /\ Bal(s \o t) = 0
    BY <2>1, <2>2, FitConcat
  <2> QED
    BY <1>7, <2>3, <2>4
<1>9. CASE e.e = "LP"
  <2>1. Continue(Each("Exp", e.of))
    BY <1>1, <1>9 DEF Operands
  <2> QED
    BY <1>5, <1>7, <2>1
<1>10. CASE This.do = "Exp=" /\ e.e = "LB"
  <2>1. Continue(Each("Exp=", e.of) \o <<Do("LB=", e)>>)
    BY <1>10 DEF Operands
  <2> QED
    BY <1>6, <1>7, <2>1
<1>11. CASE e.e \notin {"ASSIGN", "LP"} /\ ~(This.do = "Exp=" /\ e.e = "LB")
  <2>1. Continue(Each("Exp", e.of) \o <<Do(e.e, e)>>)
    BY <1>11 DEF Operands
  <2> QED
    BY <1>2, <1>6, <1>7, <2>1
<1> QED
  BY <1>8, <1>9, <1>10, <1>11

LEMMA StmtAtHand ==
    ASSUME SInv, NEW kind, Parsing(kind)
    PROVE  /\ agenda # <<>> /\ This.do = "Stmt" /\ This.it \in Stmts /\ This.it.s = kind
BY AtHand DEF Parsing, Task, Doing, TaskOK

LEMMA CompStStep ==
    ASSUME SInv, CompSt
    PROVE  SInv'
<1>1. agenda # <<>> /\ This.do = "Stmt" /\ This.it \in Stmts /\ This.it.s = "CompSt" /\ UNCHANGED scopeStack
  BY StmtAtHand DEF CompSt
<1>2. This.it.defs \in Seq(Decs) /\ This.it.stmts \in Seq(Stmts)
  BY <1>1, TranslateAssumption
<1> DEFINE s == Each("Dec", This.it.defs)
           t == Each("Stmt", This.it.stmts)
<1>3. Fit(s) /\ Bal(s) = 0
  <2>1. \A x \in Decs : TaskOK(Do("Dec", x))
    BY DEF TaskOK, Do
  <2> QED
    BY <1>2, <2>1, FitEach
<1>4. Fit(t) /\ Bal(t) = 0
  <2>1. \A x \in Stmts : TaskOK(Do("Stmt", x))
    BY DEF TaskOK, Do
  <2> QED
    BY <1>2, <2>1, FitEach
<1>5. Continue(s \o t)
  BY DEF CompSt
<1> HIDE DEF s, t
<1>6. Fit(s \o t) /\ Bal(s \o t) = 0
  BY <1>3, <1>4, FitConcat
<1> QED
  BY <1>1, <1>5, <1>6, Handled, SameScopes

LEMMA EvaluateStep ==
    ASSUME SInv, Evaluate
    PROVE  SInv'
<1>1. /\ agenda # <<>> /\ This.do = "Stmt" /\ This.it \in Stmts /\ This.it.s \in {"Exp", "RETURN", "IF"}
      /\ UNCHANGED scopeStack
  BY StmtAtHand DEF Evaluate
<1>2. This.it.exp \in Exps /\ (This.it.s = "IF" => This.it.then \in Stmts /\ This.it.else \in Seq(Stmts))
  BY <1>1, TranslateAssumption
<1> DEFINE kind == IF This.it.s = "Exp" THEN "Exp;" ELSE This.it.s
           s == <<Do("Exp", This.it.exp), Do(kind, This.it)>>
<1>3. TaskOK(Do("Exp", This.it.exp)) /\ TaskOK(Do(kind, This.it)) /\ kind \notin {"pushScope", "popScope"}
  BY <1>1, <1>2 DEF TaskOK, Do
<1>4. Continue(s)
  BY DEF Evaluate
<1> HIDE DEF kind
<1>5. Fit(s) /\ Bal(s) = 0
  BY <1>3, FitTwo
<1> HIDE DEF s
<1> QED
  BY <1>1, <1>4, <1>5, Handled, SameScopes

LEMMA IfStep ==
    ASSUME SInv, If
    PROVE  SInv'
<1>1. agenda # <<>> /\ This.do = "IF" /\ UNCHANGED scopeStack
  BY DEF If, Task, Doing
<1>2. This.it.then \in Stmts /\ This.it.else \in Seq(Stmts)
  BY <1>1, AtHand DEF TaskOK
<1>3. PICK kind, it : /\ Continue(Scoped(This.it.then) \o <<Do(kind, it)>>)
                      /\ kind = (IF This.it.else = <<>> THEN "EndThen" ELSE "ELSE")
                      /\ it.else = This.it.else
  BY DEF If
<1>4. TaskOK(Do(kind, it)) /\ kind \notin {"pushScope", "popScope"}
  BY <1>2, <1>3 DEF TaskOK, Do
<1>5. PICK s, t : s = Scoped(This.it.then) /\ t = <<Do(kind, it)>>
  OBVIOUS
<1>6. Fit(s) /\ Bal(s) = 0 /\ Fit(t) /\ Bal(t) = 0
  BY <1>2, <1>4, <1>5, FitScoped, FitOne
<1>7. Fit(s \o t) /\ Bal(s \o t) = 0
  BY <1>6, FitConcat
<1> QED
  BY <1>1, <1>3, <1>5, <1>7, Handled, SameScopes

LEMMA ElseStep ==
    ASSUME SInv, Else
    PROVE  SInv'
<1>1. agenda # <<>> /\ This.do = "ELSE" /\ UNCHANGED scopeStack
  BY DEF Else, Task, Doing
<1>2. This.it.else[1] \in Stmts
  <2>1. This.it.else \in Seq(Stmts) /\ This.it.else # <<>>
    BY <1>1, AtHand DEF TaskOK
  <2> QED
    BY <2>1
<1>3. PICK s, t : s = Scoped(This.it.else[1]) /\ t = <<Do("EndIf", NULL)>>
  OBVIOUS
<1>4. TaskOK(Do("EndIf", NULL))
  BY DEF TaskOK, Do
<1>5. Fit(s) /\ Bal(s) = 0 /\ Fit(t) /\ Bal(t) = 0
  BY <1>2, <1>3, <1>4, FitScoped, FitOne
<1>6. Fit(s \o t) /\ Bal(s \o t) = 0
  BY <1>5, FitConcat
<1>7. Continue(s \o t)
  BY <1>3 DEF Else
<1> QED
  BY <1>1, <1>6, <1>7, Handled, SameScopes

LEMMA WhileStep ==
    ASSUME SInv, While
    PROVE  SInv'
<1>1. agenda # <<>> /\ This.do = "Stmt" /\ This.it \in Stmts /\ This.it.s = "WHILE" /\ UNCHANGED scopeStack
  BY StmtAtHand DEF While
<1>2. This.it.exp \in Exps /\ This.it.body \in Stmts
  BY <1>1, TranslateAssumption
<1> DEFINE labels == [first |-> generateLabel(labelCnt), true |-> generateLabel(labelCnt + 1),
                      false |-> generateLabel(labelCnt + 2), body |-> This.it.body]
<1>3. /\ Continue(<<Do("Exp", This.it.exp), Do("WHILE", labels)>>)
      /\ labels.body = This.it.body
  BY DEF While
<1> HIDE DEF labels
<1>4. TaskOK(Do("Exp", This.it.exp)) /\ TaskOK(Do("WHILE", labels))
  BY <1>2, <1>3 DEF TaskOK, Do
<1>5. PICK s : s = <<Do("Exp", This.it.exp), Do("WHILE", labels)>>
  OBVIOUS
<1>6. Fit(s) /\ Bal(s) = 0
  BY <1>4, <1>5, FitTwo
<1> QED
  BY <1>1, <1>3, <1>5, <1>6, Handled, SameScopes

(* The jump back is made before the scope of the body is left.             *)
LEMMA WhileBodyStep ==
    ASSUME SInv, WhileBody
    PROVE  SInv'
<1>1. agenda # <<>> /\ This.do = "WHILE" /\ UNCHANGED scopeStack
  BY DEF WhileBody, Task, Doing
<1>2. This.it.body \in Stmts
  BY <1>1, AtHand DEF TaskOK
<1>3. PICK it : Continue(<<Do("pushScope", NULL), Do("Stmt", This.it.body), Do("EndWhile", it), Do("popScope", NULL)>>)
  BY DEF WhileBody
<1>4. TaskOK(Do("Stmt", This.it.body)) /\ TaskOK(Do("EndWhile", it))
  BY <1>2 DEF TaskOK, Do
<1>5. PICK u : u = <<Do("Stmt", This.it.body), Do("EndWhile", it)>>
  OBVIOUS
<1>6. Fit(u) /\ Bal(u) = 0
  BY <1>4, <1>5, FitTwo
<1>7. PICK s : s = <<Do("pushScope", NULL)>> \o (u \o <<Do("popScope", NULL)>>)
  OBVIOUS
<1>8. Fit(s) /\ Bal(s) = 0
  BY <1>6, <1>7, FitScope
<1>9. <<Do("pushScope", NULL), Do("Stmt", This.it.body), Do("EndWhile", it), Do("popScope", NULL)>>
        = <<Do("pushScope", NULL)>> \o (<<Do("Stmt", This.it.body), Do("EndWhile", it)>> \o <<Do("popScope", NULL)>>)
  OBVIOUS
<1>10. Continue(s)
  BY <1>3, <1>5, <1>7, <1>9
<1> QED
  BY <1>1, <1>8, <1>10, Handled, SameScopes

LEMMA StepSInv == SInv /\ [Parse]_tvars => SInv'
<1> SUFFICES ASSUME SInv, [Parse]_tvars PROVE SInv'
  OBVIOUS
<1>1. CASE EnterScope
  BY <1>1, EnterStep
<1>2. CASE LeaveScope
  BY <1>2, LeaveStep
<1>3. CASE ExtDef \/ ExtDecList
  BY <1>3, ExtDefStep, ExtDecListStep
<1>4. CASE FunBody
  BY <1>4, FunBodyStep
<1>5. CASE ParamDec \/ Dec
  BY <1>5, DecStep
<1>6. CASE InitVar \/ Leaf \/ Assignment \/ Logical \/ Relational \/ Arithmetic \/ Minus \/ Index \/ Not
             \/ Call \/ Expression \/ Return \/ EndThen \/ EndIf \/ EndWhile
  BY <1>6, EndingSteps
<1>7. CASE Operands
  BY <1>7, OperandsStep
<1>8. CASE CompSt
  BY <1>8, CompStStep
<1>9. CASE Evaluate
  BY <1>9, EvaluateStep
<1>10. CASE If
  BY <1>10, IfStep
<1>11. CASE Else
  BY <1>11, ElseStep
<1>12. CASE While
  BY <1>12, WhileStep
<1>13. CASE WhileBody
  BY <1>13, WhileBodyStep
<1>14. CASE UNCHANGED tvars
  BY <1>14 DEF tvars, SInv
<1> QED
  BY <1>1, <1>2, <1>3, <1>4, <1>5, <1>6, <1>7, <1>8, <1>9, <1>10, <1>11, <1>12, <1>13, <1>14 DEF Parse

LEMMA SInvMatches == SInv => ScopesMatchWalk
<1> SUFFICES ASSUME SInv PROVE ScopesMatchWalk
  OBVIOUS
<1>1. IsSequence(agenda)
  BY DEF SInv, Fit
<1>2. Pops = At("popScope", agenda) /\ Pushes = At("pushScope", agenda)
  BY DEF Pops, Pushes, At
<1>3. Cardinality(Pops) \in Nat /\ Cardinality(Pushes) \in Nat
  BY <1>1, <1>2, AtFinite
<1>4. Len(scopeStack) \in Nat
  BY DEF SInv, IsSequence
<1> QED
  BY <1>2, <1>3, <1>4 DEF SInv, Bal, ScopesMatchWalk

(* In every state of the walk of every program there is one scope for each *)
(* scope that is still to be left, and the one around the functions: no    *)
(* path through translate.c forgets a popScope, or makes one too many.     *)
THEOREM ScopesStayMatched == TransSpec => []ScopesMatchWalk
<1>1. TransInit => SInv
  BY InitSInv
<1>2. SInv /\ [Parse]_tvars => SInv'
  BY StepSInv
<1>3. SInv => ScopesMatchWalk
  BY SInvMatches
<1> QED
  BY <1>1, <1>2, <1>3, PTL DEF TransSpec
-----------------------------------------------------------------------------
(* The list grows at its end.                                              *)

Placed(l) == \E k \in 1..Len(tacs) : tacs[k].title = "LABEL" /\ tacs[k].target = l

Computes(t) == t.title \in {"ASS", "OPER", "READ"} /\ t.target.sort = "t"

Shaped(t) == {"title", "target"} \subseteq DOMAIN t

(* What TransTypeOK says of one instruction.                               *)
TacOK(t) ==
    /\ Shaped(t) /\ t.title \in Titles
    /\ t.title \in {"LABEL", "GOTO", "IF"} => t.target \in LabelTags
    /\ t.title \in {"OPER", "READ", "PARAM"} => t.target \in VTags \cup TTags
    /\ t.title = "ASS" => t.target \in VTags \cup TTags \/ IsWord(t.target)

Clash(s, t) ==
    /\ \/ s.title = "LABEL" /\ t.title = "LABEL"
       \/ Computes(s) /\ Computes(t)
    /\ s.target = t.target

(* The list as it is: every instruction is what it should be and no two of *)
(* them place one label or compute one temporary.                          *)
ListOK(list) ==
    /\ IsSequence(list)
    /\ \A k \in 1..Len(list) : TacOK(list[k])
    /\ \A j, k \in 1..Len(list) : j # k => ~Clash(list[j], list[k])

CountersOK == labelCnt \in Nat /\ vCnt \in Nat /\ tCnt \in Nat

Grow ==
    /\ CountersOK /\ CountersOK'
    /\ labelCnt' >= labelCnt /\ vCnt' >= vCnt /\ tCnt' >= tCnt

LEMMA NumberedLemma ==
    ASSUME NEW s, NEW b \in Int
    PROVE  /\ \A n \in Int : 0 <= n /\ n <= b => [sort |-> s, n |-> n] \in Numbered(s, b)
           /\ \A x \in Numbered(s, b) : /\ x.sort = s /\ x.n \in Int /\ 0 <= x.n /\ x.n <= b
                                        /\ x = [sort |-> s, n |-> x.n]
           /\ \A c \in Int : b <= c => Numbered(s, b) \subseteq Numbered(s, c)
BY DEF Numbered

(* What has been numbered stays so.                                        *)
LEMMA TagsGrow ==
    ASSUME Grow
    PROVE  /\ LabelTags \subseteq LabelTags' /\ VTags \subseteq VTags'
           /\ TTags \subseteq TTags' /\ Places \subseteq Places'
           /\ \A x : IsWord(x) => IsWord(x)'
           /\ \A t : TacOK(t) => TacOK(t)'
<1>1. /\ LabelTags \subseteq LabelTags' /\ VTags \subseteq VTags'
      /\ TTags \subseteq TTags' /\ Places \subseteq Places'
  <2>1. ASSUME NEW a \in Nat, NEW c \in Nat, a <= c PROVE a - 1 \in Int /\ c - 1 \in Int /\ a - 1 <= c - 1
    BY <2>1
  <2>2. \A s : \A a, c \in Nat : a <= c => Numbered(s, a - 1) \subseteq Numbered(s, c - 1)
    BY <2>1, NumberedLemma
  <2> QED
    BY <2>2 DEF Grow, CountersOK, LabelTags, VTags, TTags, Places
<1>2. \A x : IsWord(x) => IsWord(x)'
  BY <1>1 DEF IsWord
<1>3. \A t : TacOK(t) => TacOK(t)'
  BY <1>1, <1>2 DEF TacOK
<1> QED
  BY <1>1, <1>2, <1>3

(* A number that has not been given yet.                                   *)
LEMMA NewTag ==
    ASSUME CountersOK
    PROVE  /\ \A n \in Nat : n >= labelCnt => generateLabel(n) \notin LabelTags
           /\ \A n \in Nat : n >= tCnt => generateT(n) \notin TTags
           /\ \A n \in Nat : generateLabel(n).n = n /\ generateT(n).n = n
           /\ \A n \in Nat : generateLabel(n).sort = "label" /\ generateT(n).sort = "t"
                               /\ generateV(n).sort = "v"
           /\ \A n \in Nat : n < labelCnt => generateLabel(n) \in LabelTags
           /\ \A n \in Nat : n < tCnt => generateT(n) \in TTags
           /\ \A n \in Nat : n < vCnt => generateV(n) \in VTags
           /\ \A n \in Nat : n < vCnt => PlaceOf(n) \in Places
           /\ \A x \in LabelTags : x.sort = "label"
           /\ \A x \in VTags : x.sort = "v"
           /\ \A x \in TTags : x.sort = "t"
BY NumberedLemma DEF CountersOK, generateLabel, generateT, generateV, PlaceOf, LabelTags, TTags, VTags, Places

(* Instructions put at the end: each what it should be, no label placed a  *)
(* second time, no temporary that has been numbered before.                *)
LEMMA Appended ==
    ASSUME ListOK(tacs), Grow, NEW list, ListOK(list)', Emit(list),
           \A k \in 1..Len(list) : /\ list[k].title = "LABEL" => ~Placed(list[k].target)
                                   /\ Computes(list[k]) => list[k].target \notin TTags
    PROVE  /\ ListOK(tacs)'
           /\ Len(tacs') = Len(tacs) + Len(list)
           /\ \A k \in 1..Len(tacs) : tacs'[k] = tacs[k]
           /\ \A k \in 1..Len(list) : tacs'[Len(tacs) + k] = list[k]
           /\ \A l : Placed(l)' => \/ Placed(l)
                                   \/ \E k \in 1..Len(list) : list[k].title = "LABEL" /\ list[k].target = l
<1>1. PICK m \in Nat : m = Len(tacs)
  BY DEF ListOK, IsSequence
<1>2. PICK n \in Nat : n = Len(list)
  BY DEF ListOK, IsSequence
<1>3. IsSequence(tacs) /\ IsSequence(list)
  BY DEF ListOK
<1>4. /\ IsSequence(tacs') /\ Len(tacs') = m + n
      /\ \A k \in 1..m : tacs'[k] = tacs[k]
      /\ \A k \in 1..n : tacs'[m + k] = list[k]
  BY <1>1, <1>2, <1>3, ConcatSequences DEF Emit
<1>5. \A k \in 1..m + n : k \in 1..m \/ (k - m \in 1..n /\ tacs'[k] = list[k - m])
  <2>1. ASSUME NEW k \in 1..m + n, k \notin 1..m PROVE k - m \in 1..n /\ m + (k - m) = k
    BY <2>1
  <2> QED
    BY <1>4, <2>1
<1>6. \A k \in 1..m + n : TacOK(tacs[k])'
  <2>1. ASSUME NEW t, NEW k \in 1..m, t = tacs[k] PROVE TacOK(t)'
    BY <1>1, <2>1, TagsGrow DEF ListOK
  <2>2. ASSUME NEW t, NEW k \in 1..n, t = list[k] PROVE TacOK(t)'
    BY <1>2, <2>2 DEF ListOK
  <2>3. ASSUME NEW k \in 1..m + n, NEW t, t = tacs'[k] PROVE TacOK(t)'
    <3>1. CASE k \in 1..m
      BY <1>4, <2>1, <2>3, <3>1
    <3>2. CASE k - m \in 1..n /\ tacs'[k] = list[k - m]
      BY <2>2, <2>3, <3>2
    <3> QED
      BY <1>5, <3>1, <3>2
  <2> QED
    BY <2>3
<1>7. ASSUME NEW j \in 1..m, NEW k \in 1..n
      PROVE  ~Clash(tacs[j], list[k]) /\ ~Clash(list[k], tacs[j])
  <2>1. tacs[j].title = "LABEL" /\ list[k].title = "LABEL" => tacs[j].target # list[k].target
    BY <1>1, <1>2 DEF Placed
  <2>2. ASSUME Computes(tacs[j]) /\ Computes(list[k]) PROVE tacs[j].target # list[k].target
    <3>1. tacs[j].target \in VTags \cup TTags \/ IsWord(tacs[j].target)
      BY <1>1, <2>2 DEF ListOK, TacOK, Computes
    <3>2. tacs[j].target \in TTags
      BY <2>2, <3>1, NewTag DEF Computes, IsWord, Grow
    <3> QED
      BY <1>2, <2>2, <3>2
  <2> QED
    BY <2>1, <2>2 DEF Clash
<1>8. \A j, k \in 1..m + n : j # k => ~Clash(tacs'[j], tacs'[k])
  <2> SUFFICES ASSUME NEW j \in 1..m + n, NEW k \in 1..m + n, j # k PROVE ~Clash(tacs'[j], tacs'[k])
    OBVIOUS
  <2>1. CASE j \in 1..m /\ k \in 1..m
    BY <1>1, <1>4, <2>1 DEF ListOK
  <2>2. CASE j \in 1..m /\ k \notin 1..m
    BY <1>4, <1>5, <1>7, <2>2
  <2>3. CASE j \notin 1..m /\ k \in 1..m
    BY <1>4, <1>5, <1>7, <2>3
  <2>4. CASE j \notin 1..m /\ k \notin 1..m
    <3>1. j - m # k - m
      OBVIOUS
    <3>2. j - m \in 1..n /\ k - m \in 1..n /\ tacs'[j] = list[j - m] /\ tacs'[k] = list[k - m]
      BY <1>5, <2>4
    <3>3. \A a, b \in 1..n : a # b => ~Clash(list[a], list[b])
      BY <1>2 DEF ListOK
    <3> QED
      BY <3>1, <3>2, <3>3
  <2> QED
    BY <2>1, <2>2, <2>3, <2>4
<1>9. ListOK(tacs)'
  <2>1. IsSequence(tacs)' /\ 1..Len(tacs') = 1..m + n
    BY <1>4 DEF IsSequence
  <2>2. \A j, k \in 1..m + n : j # k => ~Clash(tacs[j], tacs[k])'
    BY <1>8 DEF Clash, Computes
  <2> QED
    BY <1>6, <2>1, <2>2 DEF ListOK
<1>10. ASSUME NEW l, Placed(l)'
       PROVE  Placed(l) \/ \E k \in 1..n : list[k].title = "LABEL" /\ list[k].target = l
  <2>1. PICK k \in 1..m + n : tacs'[k].title = "LABEL" /\ tacs'[k].target = l
    BY <1>4, <1>10 DEF Placed
  <2> QED
    BY <1>1, <1>4, <1>5, <2>1 DEF Placed
<1> QED
  BY <1>1, <1>2, <1>4, <1>9, <1>10

-----------------------------------------------------------------------------
(* Labels that have been numbered and are still to be placed.  A task may  *)
(* hold one or two; endTag is one while isEndTagDef is set; and right after*)
(* an && or ||, onetag and zerotag are.                                    *)

Holds(task, l) ==
    \/ task.do \in {"EndThen", "ELSE"} /\ l = task.it.falseTag
    \/ task.do \in {"WHILE", "EndWhile"} /\ l = task.it.false
    \/ task.do = "WHILE" /\ l = task.it.true

Loops(task) ==
    /\ task.do \in {"WHILE", "EndWhile"} => task.it.first \in LabelTags
    /\ task.do = "WHILE" => task.it.true # task.it.false

Judged == tacs # <<>> /\ curTac.title = "GOTO"

Waiting(l) == l \in LabelTags /\ ~Placed(l) /\ \A k \in 1..Len(agenda) : ~Holds(agenda[k], l)

LInv ==
    /\ \A k \in 1..Len(agenda) : Loops(agenda[k]) /\ \A l : Holds(agenda[k], l) => l \in LabelTags /\ ~Placed(l)
    /\ \A j, k \in 1..Len(agenda) : j # k => \A l : ~(Holds(agenda[j], l) /\ Holds(agenda[k], l))
    /\ isEndTagDef = 1 => Waiting(endTag)
    /\ Judged => /\ Waiting(onetag) /\ Waiting(zerotag) /\ onetag # zerotag
                 /\ isEndTagDef = 1 => endTag # onetag /\ endTag # zerotag

(* The labels that the handler of the task at hand may give out: those of  *)
(* the task, the ones that wait, and those that have no number yet.        *)
Available(l) ==
    \/ Holds(This, l)
    \/ isEndTagDef = 1 /\ l = endTag
    \/ Judged /\ l \in {onetag, zerotag}
    \/ \E n \in Nat : n >= labelCnt /\ l = generateLabel(n)

LEMMA AvailableIsNew ==
    ASSUME SInv, CountersOK, ListOK(tacs), LInv, agenda # <<>>, NEW l, Available(l)
    PROVE  ~Placed(l) /\ \A k \in 2..Len(agenda) : ~Holds(agenda[k], l)
<1>1. This = agenda[1] /\ 1 \in 1..Len(agenda)
  BY RestLemma DEF SInv, Fit, This
<1>2. PICK n \in Nat : n = Len(agenda)
  BY DEF SInv, Fit, IsSequence
<1>3. \A k \in 2..n : k \in 1..n /\ k # 1
  OBVIOUS
<1>4. CASE Holds(This, l)
  BY <1>1, <1>2, <1>3, <1>4 DEF LInv
<1>5. CASE isEndTagDef = 1 /\ l = endTag
  BY <1>2, <1>3, <1>5 DEF LInv, Waiting
<1>6. CASE Judged /\ l \in {onetag, zerotag}
  BY <1>2, <1>3, <1>6 DEF LInv, Waiting
<1>7. CASE \E c \in Nat : c >= labelCnt /\ l = generateLabel(c)
  <2>1. l \notin LabelTags
    BY <1>7, NewTag
  <2>2. ~Placed(l)
    BY <2>1 DEF Placed, ListOK, TacOK
  <2> QED
    BY <1>2, <1>3, <2>1, <2>2 DEF LInv
<1> QED
  BY <1>4, <1>5, <1>6, <1>7 DEF Available

(* A handler gives out available labels, each to one place: to the list,   *)
(* to one of its tasks, to endTag, or to onetag or zerotag.                *)
LEMMA GivenOut ==
    ASSUME SInv, CountersOK, ListOK(tacs), LInv, Grow, agenda # <<>>,
           NEW tasks, IsSequence(tasks), Continue(tasks),
           NEW put, \A l : Placed(l)' => Placed(l) \/ l \in put,
           \A l \in put : Available(l),
           \A k \in 1..Len(tasks) : Loops(tasks[k])',
           \A k \in 1..Len(tasks) : \A l : Holds(tasks[k], l) => Available(l) /\ l \in LabelTags' /\ l \notin put,
           \A j, k \in 1..Len(tasks) : j # k => \A l : ~(Holds(tasks[j], l) /\ Holds(tasks[k], l)),
           isEndTagDef' = 1 => /\ Available(endTag') /\ endTag' \in LabelTags' /\ endTag' \notin put
                               /\ \A k \in 1..Len(tasks) : ~Holds(tasks[k], endTag'),
           Judged' => /\ onetag' # zerotag'
                      /\ isEndTagDef' = 1 => endTag' # onetag' /\ endTag' # zerotag'
                      /\ \A l \in {onetag', zerotag'} :
                            /\ Available(l) /\ l \in LabelTags' /\ l \notin put
                            /\ \A k \in 1..Len(tasks) : ~Holds(tasks[k], l)
    PROVE  LInv'
<1>1. PICK n \in Nat : n = Len(agenda)
  BY DEF SInv, Fit, IsSequence
<1>2. PICK m \in Nat : m = Len(tasks)
  BY DEF IsSequence
<1>3. PICK rest : rest = Tail(agenda)
  OBVIOUS
<1>4. /\ IsSequence(rest) /\ Len(rest) = n - 1
      /\ \A k \in 1..n - 1 : k + 1 \in 2..n /\ rest[k] = agenda[k + 1]
  <2>1. /\ IsSequence(rest) /\ Len(rest) = Len(agenda) - 1
        /\ \A k \in 1..Len(rest) : rest[k] = agenda[k + 1]
    BY <1>3, RestLemma DEF SInv, Fit
  <2> QED
    BY <1>1, <2>1
<1>5. /\ Len(agenda') = m + (n - 1)
      /\ \A k \in 1..m : agenda'[k] = tasks[k]
      /\ \A k \in 1..n - 1 : agenda'[m + k] = agenda[k + 1]
  BY <1>2, <1>3, <1>4, ConcatSequences DEF Continue
<1>6. n >= 1
  BY <1>1, RestLemma DEF SInv, Fit
<1>7. \A k \in 1..Len(agenda') :
          \/ k \in 1..m /\ agenda'[k] = tasks[k]
          \/ k - m + 1 \in 2..n /\ agenda'[k] = agenda[k - m + 1]
  <2>1. ASSUME NEW k \in 1..m + (n - 1), k \notin 1..m PROVE k - m \in 1..n - 1 /\ m + (k - m) = k
    BY <1>6, <2>1
  <2> QED
    BY <1>4, <1>5, <2>1
<1>8. \A l : Available(l) => ~Placed(l) /\ \A k \in 2..n : ~Holds(agenda[k], l)
  BY <1>1, AvailableIsNew
<1>9. \A l : Available(l) /\ l \notin put => ~Placed(l)'
  BY <1>8
<1>10. \A k \in 2..n : k \in 1..n
  OBVIOUS
<1>11. \A k \in 2..n : \A l : Holds(agenda[k], l) => l \in LabelTags' /\ ~Placed(l)'
  <2>1. \A k \in 2..n : \A l : Holds(agenda[k], l) => l \in LabelTags /\ ~Placed(l)
    BY <1>1, <1>10 DEF LInv
  <2>2. \A l \in LabelTags : l \in LabelTags'
    BY TagsGrow
  <2> QED
    BY <1>8, <2>1, <2>2
<1>12. ASSUME NEW k \in 1..Len(agenda') PROVE Loops(agenda[k])' /\ \A l : Holds(agenda'[k], l) => l \in LabelTags' /\ ~Placed(l)'
  <2>1. CASE k \in 1..m /\ agenda'[k] = tasks[k]
    BY <1>2, <1>9, <2>1 DEF Loops
  <2>2. CASE k - m + 1 \in 2..n /\ agenda'[k] = agenda[k - m + 1]
    <3>1. Loops(agenda[k - m + 1])
      BY <1>1, <1>10, <2>2 DEF LInv
    <3>2. Loops(agenda[k])'
      BY <2>2, <3>1, TagsGrow DEF Loops
    <3> QED
      BY <1>11, <2>2, <3>2
  <2> QED
    BY <1>7, <2>1, <2>2
<1>13. ASSUME NEW j \in 1..Len(agenda'), NEW k \in 1..Len(agenda'), j # k, NEW l
       PROVE  ~(Holds(agenda'[j], l) /\ Holds(agenda'[k], l))
  <2>1. CASE j \in 1..m /\ agenda'[j] = tasks[j]
    BY <1>2, <1>7, <1>8, <1>13, <2>1
  <2>2. CASE k \in 1..m /\ agenda'[k] = tasks[k]
    BY <1>2, <1>7, <1>8, <1>13, <2>2
  <2>3. CASE /\ j - m + 1 \in 2..n /\ agenda'[j] = agenda[j - m + 1]
             /\ k - m + 1 \in 2..n /\ agenda'[k] = agenda[k - m + 1]
    <3>1. j - m + 1 # k - m + 1
      BY <1>5, <1>13
    <3> QED
      BY <1>1, <1>10, <2>3, <3>1 DEF LInv
  <2> QED
    BY <1>7, <2>1, <2>2, <2>3
<1>14. ASSUME NEW l, Available(l), l \in LabelTags', l \notin put,
              \A k \in 1..m : ~Holds(tasks[k], l)
       PROVE  Waiting(l)'
  <2>1. \A k \in 1..Len(agenda') : ~Holds(agenda'[k], l)
    BY <1>7, <1>8, <1>14
  <2>2. ~Placed(l)'
    BY <1>9, <1>14
  <2> QED
    BY <1>14, <2>1, <2>2 DEF Waiting, Holds
<1>15. isEndTagDef' = 1 => Waiting(endTag)'
  <2>1. ASSUME isEndTagDef' = 1, NEW l, l = endTag' PROVE Waiting(l)'
    BY <1>2, <1>14, <2>1
  <2> QED
    BY <2>1 DEF Waiting, Placed, Holds
<1>16. Judged' => Waiting(onetag)' /\ Waiting(zerotag)'
  <2>1. ASSUME Judged', NEW l, l \in {onetag', zerotag'} PROVE Waiting(l)'
    BY <1>2, <1>14, <2>1
  <2> QED
    BY <2>1 DEF Waiting, Placed, Holds
<1>17. \A j, k \in 1..Len(agenda') : j # k => \A l : ~(Holds(agenda'[j], l) /\ Holds(agenda'[k], l))
  BY <1>13
<1> QED
  BY <1>12, <1>15, <1>16, <1>17 DEF LInv, Holds

HashOK == \A key \in DOMAIN hashmap : hashmap[key] \in VTags \cup TTags \cup Places \/ IsWord(hashmap[key])

(* What the list and the labels are like before every call of the walk.    *)
TInv ==
    /\ CountersOK
    /\ {onetag, zerotag, endTag} \subseteq LabelTags \cup {NULL}
    /\ isEndTagDef \in {0, 1}
    /\ HashOK
    /\ ListOK(tacs)
    /\ LInv

Holders == {"EndThen", "ELSE", "WHILE", "EndWhile"}

LEMMA TInvShows == TInv => TransTypeOK /\ PlacedOnce
<1> SUFFICES ASSUME TInv PROVE TransTypeOK /\ PlacedOnce
  OBVIOUS
<1>1. DOMAIN tacs = 1..Len(tacs)
  BY DEF TInv, ListOK, IsSequence
<1>2. TransTypeOK
  BY <1>1 DEF TInv, CountersOK, HashOK, ListOK, TacOK, TransTypeOK
<1>3. ASSUME NEW j \in DOMAIN tacs, NEW k \in DOMAIN tacs, j # k,
             \/ tacs[j].title = "LABEL" /\ tacs[k].title = "LABEL"
             \/ /\ tacs[j].title \in {"ASS", "OPER", "READ"} /\ tacs[k].title \in {"ASS", "OPER", "READ"}
                /\ tacs[j].target.sort = "t"
      PROVE  tacs[j].target # tacs[k].target
  <2>1. ~Clash(tacs[j], tacs[k])
    BY <1>1, <1>3 DEF TInv, ListOK
  <2> QED
    BY <1>3, <2>1 DEF Clash, Computes
<1> QED
  BY <1>2, <1>3 DEF PlacedOnce

LEMMA HashGrows ==
    ASSUME HashOK, Grow, UNCHANGED hashmap
    PROVE  HashOK'
<1>1. ASSUME NEW key \in DOMAIN hashmap, NEW x, x = hashmap[key]
      PROVE  (x \in VTags \cup TTags \cup Places \/ IsWord(x))'
  BY <1>1, TagsGrow DEF HashOK
<1> QED
  BY <1>1 DEF HashOK

LEMMA NothingAfter ==
    ASSUME NEW s, IsSequence(s)
    PROVE  s \o <<>> = s
<1>1. s \in Seq({s[k] : k \in 1..Len(s)})
  BY RangeLemma
<1> QED
  BY <1>1, ConcatEmptySeq

(* A handler that neither places labels nor gives any to a task.           *)
LEMMA KeepsLabels ==
    ASSUME SInv, TInv, Grow, HashOK', UNCHANGED Tags, agenda # <<>>,
           NEW tasks, IsSequence(tasks), Continue(tasks),
           \A k \in 1..Len(tasks) : tasks[k].do \notin Holders,
           ListOK(tacs)', \A l : Placed(l)' => Placed(l), Judged' => Judged
    PROVE  TInv'
<1>1. ListOK(tacs) /\ LInv /\ CountersOK
  BY DEF TInv
<1>2. PICK put : put = {}
  OBVIOUS
<1>3. \A l : Placed(l)' => Placed(l) \/ l \in put
  OBVIOUS
<1>4. /\ onetag' = onetag /\ zerotag' = zerotag /\ endTag' = endTag /\ isEndTagDef' = isEndTagDef
  BY DEF Tags
<1>5. \A k \in 1..Len(tasks) : \A l : ~Holds(tasks[k], l)
  BY DEF Holds, Holders
<1>6. \A k \in 1..Len(tasks) : Loops(tasks[k])'
  BY DEF Loops, Holders
<1>7. isEndTagDef' = 1 => /\ Available(endTag') /\ endTag' \in LabelTags' /\ endTag' \notin put
                          /\ \A k \in 1..Len(tasks) : ~Holds(tasks[k], endTag')
  BY <1>1, <1>2, <1>4, <1>5, TagsGrow DEF LInv, Waiting, Available
<1>8. Judged' => /\ onetag' # zerotag'
                 /\ isEndTagDef' = 1 => endTag' # onetag' /\ endTag' # zerotag'
                 /\ \A l \in {onetag', zerotag'} :
                       /\ Available(l) /\ l \in LabelTags' /\ l \notin put
                       /\ \A k \in 1..Len(tasks) : ~Holds(tasks[k], l)
  BY <1>1, <1>2, <1>4, <1>5, TagsGrow DEF LInv, Waiting, Available
<1>9. LInv'
  <2>1. \A l \in put : Available(l)
    BY <1>2
  <2>2. \A k \in 1..Len(tasks) : \A l : Holds(tasks[k], l) => Available(l) /\ l \in LabelTags' /\ l \notin put
    BY <1>5
  <2>3. \A j, k \in 1..Len(tasks) : j # k => \A l : ~(Holds(tasks[j], l) /\ Holds(tasks[k], l))
    BY <1>5
  <2> QED
    BY <1>1, <1>3, <1>6, <1>7, <1>8, <2>1, <2>2, <2>3, GivenOut
<1>10. ({onetag, zerotag, endTag} \subseteq LabelTags \cup {NULL})' /\ (isEndTagDef \in {0, 1})'
  BY <1>4, TagsGrow DEF TInv
<1> QED
  BY <1>9, <1>10 DEF TInv, Grow

(* One that puts at the end of the list what is no LABEL and no GOTO.      *)
LEMMA PlacesNone ==
    ASSUME SInv, TInv, Grow, HashOK', UNCHANGED Tags, agenda # <<>>,
           NEW tasks, IsSequence(tasks), Continue(tasks),
           \A k \in 1..Len(tasks) : tasks[k].do \notin Holders,
           NEW list, IsSequence(list), Emit(list),
           \A k \in 1..Len(list) : /\ TacOK(list[k])'
                                   /\ list[k].title \notin {"LABEL", "GOTO"}
                                   /\ Computes(list[k]) => list[k].target \notin TTags,
           \A j, k \in 1..Len(list) :
               j # k /\ Computes(list[j]) /\ Computes(list[k]) => list[j].target # list[k].target
    PROVE  TInv'
<1>1. ListOK(tacs)
  BY DEF TInv
<1>2. ListOK(list)'
  BY DEF ListOK, Clash, Computes
<1>3. /\ ListOK(tacs)'
      /\ Len(tacs') = Len(tacs) + Len(list)
      /\ \A k \in 1..Len(tacs) : tacs'[k] = tacs[k]
      /\ \A k \in 1..Len(list) : tacs'[Len(tacs) + k] = list[k]
      /\ \A l : Placed(l)' => \/ Placed(l)
                              \/ \E k \in 1..Len(list) : list[k].title = "LABEL" /\ list[k].target = l
  BY <1>1, <1>2, Appended
<1>4. \A l : Placed(l)' => Placed(l)
  BY <1>3
<1>5. Judged' => Judged
  <2>1. CASE list = <<>>
    BY <1>1, <2>1, NothingAfter DEF Emit, ListOK, Judged, curTac
  <2>2. CASE list # <<>>
    <3>1. PICK m \in Nat, n \in Nat : m = Len(tacs) /\ n = Len(list)
      BY <1>1 DEF ListOK, IsSequence
    <3>2. n \in 1..n
      BY <2>2, <3>1 DEF IsSequence
    <3>3. tacs'[Len(tacs')] = list[n]
      BY <1>3, <3>1, <3>2
    <3>4. list[n].title # "GOTO"
      BY <3>1, <3>2
    <3> QED
      BY <3>3, <3>4 DEF Judged, curTac
  <2> QED
    BY <2>1, <2>2
<1> QED
  BY <1>3, <1>4, <1>5, KeepsLabels

(* ... and makes no code either.                                           *)
LEMMA MakesNone ==
    ASSUME SInv, TInv, UNCHANGED <<Counters, Tags, tacs, hashmap>>, agenda # <<>>,
           NEW tasks, IsSequence(tasks), Continue(tasks),
           \A k \in 1..Len(tasks) : tasks[k].do \notin Holders
    PROVE  TInv'
<1>1. Grow
  BY DEF TInv, CountersOK, Grow, Counters
<1>2. HashOK'
  BY <1>1, HashGrows DEF TInv
<1>3. UNCHANGED Tags
  OBVIOUS
<1>4. PICK list : list = <<>>
  OBVIOUS
<1>5. IsSequence(list) /\ Len(list) = 0
  BY <1>4, BalancedNone
<1>6. Emit(list)
  BY <1>4, NothingAfter DEF Emit, TInv, ListOK
<1> QED
  BY <1>1, <1>2, <1>3, <1>5, <1>6, PlacesNone

-----------------------------------------------------------------------------
(* Tasks that hold no label.                                               *)
Free(s) == IsSequence(s) /\ \A k \in 1..Len(s) : s[k].do \notin Holders

LEMMA FreeNone == Free(<<>>)
BY BalancedNone DEF Free

LEMMA FreeOne ==
    ASSUME NEW kind, NEW it, kind \notin Holders
    PROVE  Free(<<Do(kind, it)>>)
<1>1. PICK s : s = <<Do(kind, it)>>
  OBVIOUS
<1>2. IsSequence(s) /\ Len(s) = 1 /\ s[1].do = kind
  BY <1>1, OneTask
<1>3. \A k \in 1..Len(s) : k = 1
  BY <1>2
<1> QED
  BY <1>1, <1>2, <1>3 DEF Free

LEMMA FreeConcat ==
    ASSUME NEW s, Free(s), NEW t, Free(t)
    PROVE  Free(s \o t)
<1>1. IsSequence(s) /\ IsSequence(t) /\ IsSequence(s \o t)
  BY ConcatSequences DEF Free
<1>2. ASSUME NEW k \in 1..Len(s \o t) PROVE (s \o t)[k].do \notin Holders
  BY <1>1, ConcatElements DEF Free
<1> QED
  BY <1>1, <1>2 DEF Free

LEMMA FreeEach ==
    ASSUME NEW S, NEW list \in Seq(S), NEW kind, kind \notin Holders
    PROVE  Free(Each(kind, list))
<1>1. PICK s : s = Each(kind, list)
  OBVIOUS
<1>2. Len(list) \in Nat /\ s = [k \in 1..Len(list) |-> s[k]] /\ \A k \in 1..Len(list) : s[k].do = kind
  BY <1>1 DEF Each
<1>3. IsSequence(s) /\ Len(s) = Len(list)
  BY <1>2, FunctionLemma
<1> QED
  BY <1>1, <1>2, <1>3 DEF Free

LEMMA FreeTwo ==
    ASSUME NEW kind, NEW it, kind \notin Holders, NEW next, NEW then, next \notin Holders
    PROVE  Free(<<Do(kind, it), Do(next, then)>>)
<1>1. Free(<<Do(kind, it)>>) /\ Free(<<Do(next, then)>>)
  BY FreeOne
<1>2. Free(<<Do(kind, it)>> \o <<Do(next, then)>>)
  BY <1>1, FreeConcat
<1> QED
  BY <1>2, PairLemma

LEMMA FreeScoped ==
    ASSUME NEW s
    PROVE  Free(Scoped(s))
<1>1. "pushScope" \notin Holders /\ "Stmt" \notin Holders /\ "popScope" \notin Holders
  BY DEF Holders
<1>2. PICK t, u, v : t = <<Do("pushScope", NULL)>> /\ u = <<Do("Stmt", s)>> /\ v = <<Do("popScope", NULL)>>
  OBVIOUS
<1>3. Free(t) /\ Free(u) /\ Free(v)
  BY <1>1, <1>2, FreeOne
<1>4. Free(u \o v)
  BY <1>3, FreeConcat
<1>5. Free(t \o (u \o v))
  BY <1>3, <1>4, FreeConcat
<1>6. Scoped(s) = <<Do("pushScope", NULL)>> \o (<<Do("Stmt", s)>> \o <<Do("popScope", NULL)>>)
  BY DEF Scoped
<1> QED
  BY <1>2, <1>5, <1>6

(* What the handlers of operands add.                                      *)
LEMMA OperandTasks ==
    ASSUME SInv, Operands
    PROVE  \E tasks : Continue(tasks) /\ Free(tasks)
<1> DEFINE e == This.it
<1>1. /\ agenda # <<>> /\ This.do \in {"Exp", "Exp="}
      /\ e.e \notin {"INT", "ID"}
  BY DEF Operands, Doing
<1>2. e.e \in Operations /\ e.of \in Seq(Exps)
  <2>1. e \in Exps
    BY <1>1, AtHand DEF TaskOK
  <2> QED
    BY <1>1, <2>1, TranslateAssumption
<1>3. \A kind \in {"Exp", "Exp=", "LB="} \cup Operations : kind \notin Holders
  BY DEF Operations, RelOps, ArithOps, Holders
<1>4. ASSUME NEW kind \in {"Exp", "Exp="} PROVE Free(Each(kind, e.of))
  BY <1>2, <1>3, FreeEach
<1>5. ASSUME NEW kind \in {"Exp", "Exp="}, NEW op \in Operations \cup {"LB="}
      PROVE  Free(Each(kind, e.of) \o <<Do(op, e)>>)
  <2>1. Free(Each(kind, e.of)) /\ Free(<<Do(op, e)>>)
    BY <1>3, <1>4, FreeOne
  <2> QED
    BY <2>1, FreeConcat
<1>6. CASE e.e = "ASSIGN"
  <2>1. Free(<<Do("Exp", e.of[2])>>) /\ Free(<<Do("Exp=", e.of[1]), Do("ASSIGN", e)>>)
    BY <1>2, <1>3, <1>6, FreeOne, FreeTwo
  <2>2. Continue(<<Do("Exp", e.of[2])>> \o <<Do("Exp=", e.of[1]), Do("ASSIGN", e)>>)
    BY <1>6 DEF Operands, Continue
  <2> QED
    BY <2>1, <2>2, FreeConcat
<1>7. CASE e.e = "LP"
  BY <1>1, <1>4, <1>7 DEF Operands
<1>8. CASE This.do = "Exp=" /\ e.e = "LB"
  BY <1>5, <1>8 DEF Operands
<1>9. CASE e.e \notin {"ASSIGN", "LP"} /\ ~(This.do = "Exp=" /\ e.e = "LB")
  <2>1. Continue(Each("Exp", e.of) \o <<Do(e.e, e)>>)
    BY <1>9 DEF Operands
  <2> QED
    BY <1>2, <1>5, <2>1
<1> QED
  BY <1>6, <1>7, <1>8, <1>9

LEMMA QuietSteps ==
    ASSUME SInv, TInv,
           EnterScope \/ LeaveScope \/ ExtDecList \/ FunBody \/ Leaf \/ Operands \/ Relational \/ Not
             \/ CompSt \/ Evaluate \/ Expression
    PROVE  TInv'
<1>1. agenda # <<>> /\ UNCHANGED <<Counters, Tags, tacs, hashmap>>
  BY DEF EnterScope, LeaveScope, ExtDecList, FunBody, Leaf, Operands, Relational, Not, CompSt, Evaluate, Expression,
         Task, Doing, Parsing, Counters, Tags
<1>2. SUFFICES \E tasks : Continue(tasks) /\ Free(tasks)
  BY <1>1, MakesNone DEF Free
<1>3. CASE EnterScope \/ LeaveScope \/ Leaf \/ Relational \/ Not \/ Expression
  BY <1>3, FreeNone DEF EnterScope, LeaveScope, Leaf, Relational, Not, Expression, Result
<1>4. CASE FunBody
  BY <1>4, FreeNone, FreeScoped DEF FunBody
<1>5. CASE Operands
  BY <1>5, OperandTasks
<1>6. CASE CompSt
  <2>1. This.it.defs \in Seq(Decs) /\ This.it.stmts \in Seq(Stmts)
    BY <1>6, StmtAtHand, TranslateAssumption DEF CompSt
  <2>2. Free(Each("Dec", This.it.defs)) /\ Free(Each("Stmt", This.it.stmts))
    BY <2>1, FreeEach DEF Holders
  <2> QED
    BY <1>6, <2>2, FreeConcat DEF CompSt
<1>7. CASE Evaluate
  <2>1. This.it.s \in {"Exp", "RETURN", "IF"}
    BY <1>7, StmtAtHand DEF Evaluate
  <2>2. PICK kind : kind = IF This.it.s = "Exp" THEN "Exp;" ELSE This.it.s
    OBVIOUS
  <2>3. kind \notin Holders /\ "Exp" \notin Holders
    BY <2>1, <2>2 DEF Holders
  <2>4. Continue(<<Do("Exp", This.it.exp), Do(kind, This.it)>>)
    BY <1>7, <2>2 DEF Evaluate
  <2> QED
    BY <2>3, <2>4, FreeTwo
<1>8. CASE ExtDecList
  <2>1. This.do = "ExtDef" /\ This.it.kind = "vars"
    BY <1>8 DEF ExtDecList, Task, Doing
  <2>2. This.it.decs \in Seq(Decs)
    BY <1>1, <2>1, AtHand DEF TaskOK
  <2>3. Free(Each("Dec", This.it.decs))
    BY <2>2, FreeEach DEF Holders
  <2> QED
    BY <1>8, <2>3 DEF ExtDecList
<1> QED
  BY <1>3, <1>4, <1>5, <1>6, <1>7, <1>8

-----------------------------------------------------------------------------
(* Handlers that make code without labels.                                 *)

LEMMA OneElement ==
    ASSUME NEW t
    PROVE  IsSequence(<<t>>) /\ Len(<<t>>) = 1 /\ <<t>>[1] = t
BY BalOne

LEMMA MakesOne ==
    ASSUME SInv, TInv, Grow, HashOK', UNCHANGED Tags, agenda # <<>>,
           NEW tasks, Free(tasks), Continue(tasks),
           NEW t, Emit(<<t>>), TacOK(t)', t.title \notin {"LABEL", "GOTO"},
           Computes(t) => t.target \notin TTags
    PROVE  TInv'
<1>1. PICK list : list = <<t>>
  OBVIOUS
<1>2. IsSequence(list) /\ Len(list) = 1 /\ list[1] = t
  BY <1>1, OneElement
<1>3. \A k \in 1..Len(list) : k = 1 /\ list[k] = t
  BY <1>2
<1> QED
  BY <1>1, <1>2, <1>3, PlacesNone DEF Free

LEMMA GrowSame ==
    ASSUME TInv, UNCHANGED Counters
    PROVE  Grow
BY DEF TInv, CountersOK, Grow, Counters

LEMMA ExtDefCode ==
    ASSUME SInv, TInv, ExtDef
    PROVE  TInv'
<1>1. agenda # <<>> /\ This.do = "ExtDef" /\ UNCHANGED <<Counters, Tags, hashmap>>
  BY DEF ExtDef, Task, Doing
<1>2. Grow /\ HashOK'
  BY <1>1, GrowSame, HashGrows DEF TInv
<1>3. This.it.params \in Seq(Decs)
  BY <1>1, AtHand DEF TaskOK, ExtDef
<1>4. PICK tasks : tasks = Each("ParamDec", This.it.params) \o <<Do("FunBody", This.it)>>
  OBVIOUS
<1>5. Free(tasks)
  <2>1. Free(Each("ParamDec", This.it.params)) /\ Free(<<Do("FunBody", This.it)>>)
    BY <1>3, FreeEach, FreeOne DEF Holders
  <2> QED
    BY <1>4, <2>1, FreeConcat
<1>6. PICK t : t = One("FUNC", CallTag(This.it.f))
  OBVIOUS
<1>7. Emit(<<t>>) /\ Continue(tasks)
  BY <1>4, <1>6 DEF ExtDef
<1>8. t.title = "FUNC" /\ Shaped(t)
  BY <1>6 DEF Shaped, One, newTac
<1>9. TacOK(t)' /\ t.title \notin {"LABEL", "GOTO"} /\ ~Computes(t)
  BY <1>8 DEF TacOK, Titles, Computes
<1> QED
  BY <1>1, <1>2, <1>5, <1>7, <1>9, MakesOne

LEMMA ReturnCode ==
    ASSUME SInv, TInv, Return
    PROVE  TInv'
<1>1. agenda # <<>> /\ UNCHANGED <<Counters, Tags, hashmap>> /\ Continue(<<>>)
  BY DEF Return, Task, Doing
<1>2. Grow /\ HashOK'
  BY <1>1, GrowSame, HashGrows DEF TInv
<1>3. PICK t : t = One("RETURN", vals[1])
  OBVIOUS
<1>4. t.title = "RETURN" /\ Emit(<<t>>) /\ Shaped(t)
  BY <1>3 DEF Shaped, Return, One, newTac
<1>5. TacOK(t)' /\ t.title \notin {"LABEL", "GOTO"} /\ ~Computes(t)
  BY <1>4 DEF TacOK, Titles, Computes
<1> QED
  BY <1>1, <1>2, <1>4, <1>5, FreeNone, MakesOne

LEMMA InitVarCode ==
    ASSUME SInv, TInv, OperandsFit, InitVar
    PROVE  TInv'
<1>1. agenda # <<>> /\ UNCHANGED <<Counters, Tags, hashmap>> /\ Continue(<<>>)
  BY DEF InitVar, Task, Doing
<1>2. Grow /\ HashOK'
  BY <1>1, GrowSame, HashGrows DEF TInv
<1>3. CASE This.it \in DOMAIN hashmap
  <2>1. PICK t, x : t = AssTac(x, vals[1]) /\ x = hashmap[This.it]
    OBVIOUS
  <2>2. t.title = "ASS" /\ t.target = x /\ Shaped(t)
    BY <2>1 DEF Shaped, AssTac, newTac
  <2>3. x \in VTags
    BY <1>3, <2>1 DEF OperandsFit, InitVar, Task, Doing
  <2>4. CountersOK /\ x.sort = "v" /\ x \in VTags'
    BY <1>2, <2>3, NewTag, TagsGrow DEF TInv
  <2>5. TacOK(t)' /\ t.title \notin {"LABEL", "GOTO"} /\ ~Computes(t)
    BY <2>2, <2>4 DEF TacOK, Titles, Computes
  <2>6. Emit(<<t>>)
    BY <1>3, <2>1 DEF InitVar
  <2> QED
    BY <1>1, <1>2, <2>5, <2>6, FreeNone, MakesOne
<1>4. CASE This.it \notin DOMAIN hashmap
  <2>1. UNCHANGED tacs
    BY <1>4 DEF InitVar
  <2> QED
    BY <1>1, <2>1, FreeNone, MakesNone DEF Free
<1> QED
  BY <1>3, <1>4

LEMMA NewNumbers ==
    ASSUME CountersOK'
    PROVE  /\ \A n \in Nat : n < labelCnt' => generateLabel(n) \in LabelTags'
           /\ \A n \in Nat : n < tCnt' => generateT(n) \in TTags'
           /\ \A n \in Nat : n < vCnt' => generateV(n) \in VTags' /\ PlaceOf(n) \in Places'
BY NumberedLemma DEF CountersOK, generateLabel, generateT, generateV, PlaceOf, LabelTags, TTags, VTags, Places

LEMMA HashGains ==
    ASSUME HashOK, Grow, NEW key, NEW tag, hashmap' = With(key, tag),
           (tag \in VTags \cup TTags \cup Places \/ IsWord(tag))'
    PROVE  HashOK'
<1>1. ASSUME NEW k \in DOMAIN hashmap', NEW x, x = hashmap'[k]
      PROVE  (x \in VTags \cup TTags \cup Places \/ IsWord(x))'
  <2>1. CASE k = key
    <3>1. x = tag
      BY <1>1, <2>1 DEF With
    <3> QED
      BY <3>1
  <2>2. CASE k # key
    <3>1. k \in DOMAIN hashmap /\ x = hashmap[k]
      BY <1>1, <2>2 DEF With
    <3> QED
      BY <3>1, TagsGrow DEF HashOK
  <2> QED
    BY <2>1, <2>2
<1> QED
  BY <1>1 DEF HashOK

(* A declaration numbers its variable, or makes no code at all.            *)
LEMMA VarDecCode ==
    ASSUME SInv, TInv, agenda # <<>>, NEW x, NEW dims, NEW isFuncParam, VarDec(x, dims, isFuncParam),
           NEW tasks, Free(tasks), Continue(tasks)
    PROVE  TInv'
<1>1. /\ labelCnt' = labelCnt /\ tCnt' = tCnt /\ UNCHANGED Tags /\ CountersOK
  BY DEF VarDec, TInv
<1>2. CASE findSymbol(x) # NoDecl
  <2>1. UNCHANGED <<tacs, vCnt, hashmap>>
    BY <1>2 DEF VarDec
  <2> QED
    BY <1>1, <2>1, MakesNone DEF Free, Counters
<1>3. CASE findSymbol(x) = NoDecl
  <2>1. PICK vtg, isPlace, tag :
           /\ vtg = generateV(vCnt) /\ isPlace = (dims # <<>> /\ ~isFuncParam)
           /\ tag = IF isPlace THEN PlaceOf(vCnt) ELSE vtg
    OBVIOUS
  <2>2. /\ vCnt' = vCnt + 1 /\ hashmap' = With(x, tag)
        /\ \/ isFuncParam /\ Emit(<<One("PARAM", vtg)>>)
           \/ isPlace /\ Emit(<<newTac("DEC", NULL, "", vtg, Const(Space(dims)))>>)
           \/ ~isFuncParam /\ ~isPlace /\ UNCHANGED tacs
    BY <1>3, <2>1 DEF VarDec
  <2>3. Grow
    <3>1. /\ labelCnt' = labelCnt /\ tCnt' = tCnt /\ vCnt' = vCnt + 1
          /\ CountersOK
      BY <1>1, <2>2
    <3> QED
      BY <3>1 DEF Grow, CountersOK
  <2>4. CountersOK' /\ vCnt < vCnt' /\ vCnt \in Nat
    <3>1. vCnt' = vCnt + 1 /\ CountersOK
      BY <1>1, <2>2
    <3> QED
      BY <2>3, <3>1 DEF Grow, CountersOK
  <2>5. vtg \in VTags' /\ tag \in VTags' \cup Places'
    BY <2>1, <2>4, NewNumbers
  <2>6. HashOK'
    BY <2>2, <2>3, <2>5, HashGains DEF TInv
  <2>7. CASE isFuncParam /\ Emit(<<One("PARAM", vtg)>>)
    <3>1. PICK t : t = One("PARAM", vtg)
      OBVIOUS
    <3>2. t.title = "PARAM" /\ t.target = vtg /\ Shaped(t)
      BY <3>1 DEF Shaped, One, newTac
    <3>3. TacOK(t)' /\ t.title \notin {"LABEL", "GOTO"} /\ ~Computes(t)
      BY <2>5, <3>2 DEF TacOK, Titles, Computes
    <3> QED
      BY <1>1, <2>3, <2>6, <2>7, <3>1, <3>3, MakesOne
  <2>8. CASE isPlace /\ Emit(<<newTac("DEC", NULL, "", vtg, Const(Space(dims)))>>)
    <3>1. PICK t : t = newTac("DEC", NULL, "", vtg, Const(Space(dims)))
      OBVIOUS
    <3>2. t.title = "DEC" /\ Shaped(t)
      BY <3>1 DEF Shaped, newTac
    <3>3. TacOK(t)' /\ t.title \notin {"LABEL", "GOTO"} /\ ~Computes(t)
      BY <3>2 DEF TacOK, Titles, Computes
    <3> QED
      BY <1>1, <2>3, <2>6, <2>8, <3>1, <3>3, MakesOne
  <2>9. CASE UNCHANGED tacs
    <3>1. PICK list : list = <<>>
      OBVIOUS
    <3>2. IsSequence(list) /\ Len(list) = 0
      BY <3>1, BalancedNone
    <3>3. Emit(list)
      BY <2>9, <3>1, NothingAfter DEF Emit, TInv, ListOK
    <3> QED
      BY <1>1, <2>3, <2>6, <3>2, <3>3, PlacesNone DEF Free
  <2> QED
    BY <2>2, <2>7, <2>8, <2>9
<1> QED
  BY <1>2, <1>3

LEMMA DecCode ==
    ASSUME SInv, TInv, ParamDec \/ Dec
    PROVE  TInv'
<1>1. agenda # <<>>
  BY DEF ParamDec, Dec, Task, Doing
<1>2. CASE ParamDec
  BY <1>1, <1>2, FreeNone, VarDecCode DEF ParamDec
<1>3. CASE Dec
  <2>1. This.it.init \in Seq(Exps)
    BY <1>3, AtHand, TranslateAssumption DEF TaskOK, Dec, Task, Doing
  <2>2. PICK s, t : /\ s = Each("Exp", This.it.init)
                    /\ t = [k \in DOMAIN This.it.init |-> Do("Init", This.it.x)]
    OBVIOUS
  <2>3. Free(s)
    BY <2>1, <2>2, FreeEach DEF Holders
  <2>4. Free(t)
    <3>1. PICK n \in Nat : DOMAIN This.it.init = 1..n
      BY <2>1
    <3>2. t = [k \in 1..n |-> t[k]] /\ \A k \in 1..n : t[k].do = "Init"
      BY <2>2, <3>1 DEF Do
    <3>3. IsSequence(t) /\ Len(t) = n
      BY <3>2, FunctionLemma
    <3> QED
      BY <3>2, <3>3 DEF Free, Holders
  <2>5. Free(s \o t) /\ Continue(s \o t)
    BY <1>3, <2>2, <2>3, <2>4, FreeConcat DEF Dec
  <2> QED
    BY <1>1, <1>3, <2>5, VarDecCode DEF Dec
<1> QED
  BY <1>2, <1>3

(* Instructions that compute the temporaries from a on, one after the      *)
(* other, up to b.                                                         *)
Temps(list, a, b) ==
    /\ IsSequence(list) /\ Len(list) = b - a
    /\ \A k \in 1..Len(list) : Shaped(list[k]) /\ list[k].title \in {"OPER", "ASS", "READ"} /\ list[k].target = generateT(a + k - 1)

LEMMA TempsNone ==
    ASSUME NEW a \in Nat
    PROVE  Temps(<<>>, a, a)
BY BalancedNone DEF Temps

LEMMA TempsOne ==
    ASSUME NEW a \in Nat, NEW t, Shaped(t), t.title \in {"OPER", "ASS", "READ"}, t.target = generateT(a)
    PROVE  Temps(<<t>>, a, a + 1)
<1>1. PICK list : list = <<t>>
  OBVIOUS
<1>2. IsSequence(list) /\ Len(list) = 1 /\ list[1] = t
  BY <1>1, OneElement
<1>3. \A k \in 1..Len(list) : k = 1 /\ list[k] = t /\ a + k - 1 = a
  BY <1>2
<1>4. a + 1 - a = 1
  OBVIOUS
<1>5. \A k \in 1..Len(list) : Shaped(list[k]) /\ list[k].title \in {"OPER", "ASS", "READ"} /\ list[k].target = generateT(a + k - 1)
  BY <1>3
<1> QED
  BY <1>1, <1>2, <1>4, <1>5 DEF Temps

LEMMA TempsConcat ==
    ASSUME NEW a \in Nat, NEW b \in Nat, NEW c \in Nat,
           NEW s, Temps(s, a, b), NEW t, Temps(t, b, c)
    PROVE  Temps(s \o t, a, c)
<1>1. IsSequence(s) /\ IsSequence(t) /\ Len(s) = b - a /\ Len(t) = c - b
  BY DEF Temps
<1>2. PICK u : u = s \o t
  OBVIOUS
<1>3. /\ IsSequence(u) /\ Len(u) = Len(s) + Len(t)
      /\ \A k \in 1..Len(s) : u[k] = s[k]
      /\ \A k \in 1..Len(t) : u[Len(s) + k] = t[k]
  <2>1. /\ IsSequence(s \o t) /\ Len(s \o t) = Len(s) + Len(t)
        /\ \A k \in 1..Len(s) : (s \o t)[k] = s[k]
        /\ \A k \in 1..Len(t) : (s \o t)[Len(s) + k] = t[k]
    BY <1>1, ConcatSequences
  <2> QED
    BY <1>2, <2>1
<1>4. Len(u) = c - a
  BY <1>1, <1>3
<1>5. ASSUME NEW k \in 1..Len(u)
      PROVE  Shaped(u[k]) /\ u[k].title \in {"OPER", "ASS", "READ"} /\ u[k].target = generateT(a + k - 1)
  <2>1. CASE k \in 1..Len(s)
    BY <1>3, <2>1 DEF Temps
  <2>2. CASE k \notin 1..Len(s)
    <3>1. k - Len(s) \in 1..Len(t) /\ Len(s) + (k - Len(s)) = k /\ b + (k - Len(s)) - 1 = a + k - 1
      BY <1>1, <1>4, <2>2
    <3> QED
      BY <1>3, <3>1 DEF Temps
  <2> QED
    BY <2>1, <2>2
<1> QED
  BY <1>2, <1>3, <1>4, <1>5 DEF Temps

LEMMA MakesTemps ==
    ASSUME SInv, TInv, HashOK', UNCHANGED <<labelCnt, vCnt>>, UNCHANGED Tags, agenda # <<>>, Continue(<<>>),
           NEW b \in Nat, NEW list, Temps(list, tCnt, b), Emit(list), tCnt' \in Nat, b <= tCnt'
    PROVE  TInv'
<1>1. PICK a : a = tCnt
  OBVIOUS
<1>2. a \in Nat /\ CountersOK /\ Len(list) = b - a /\ IsSequence(list) /\ Len(list) \in Nat
  BY <1>1 DEF TInv, CountersOK, Temps, IsSequence
<1>3. Grow
  <2>1. labelCnt' = labelCnt /\ vCnt' = vCnt /\ tCnt' >= tCnt
    BY <1>1, <1>2
  <2> QED
    BY <1>2, <2>1 DEF Grow, CountersOK
<1>4. \A k \in 1..Len(list) : /\ Shaped(list[k]) /\ list[k].title \in {"OPER", "ASS", "READ"} /\ list[k].target = generateT(a + k - 1)
                              /\ a + k - 1 \in Nat /\ a + k - 1 >= a /\ a + k - 1 < tCnt'
  BY <1>1, <1>2 DEF Temps
<1>5. \A k \in 1..Len(list) : list[k].target \in TTags' /\ list[k].target \notin TTags /\ list[k].target.n = a + k - 1
  BY <1>1, <1>2, <1>3, <1>4, NewTag, NewNumbers DEF Grow
<1>6. ASSUME NEW k \in 1..Len(list), NEW t, t = list[k]
      PROVE  TacOK(t)' /\ t.title \notin {"LABEL", "GOTO"}
  BY <1>4, <1>5, <1>6 DEF TacOK, Titles
<1>7. \A j, k \in 1..Len(list) : j # k => list[j].target # list[k].target
  <2>1. \A j, k \in 1..Len(list) : j # k => a + j - 1 # a + k - 1
    BY <1>2
  <2> QED
    BY <1>5, <2>1
<1>8. PICK tasks : tasks = <<>>
  OBVIOUS
<1>9. Free(tasks) /\ Continue(tasks)
  BY <1>8, FreeNone
<1>10. \A k \in 1..Len(list) : /\ TacOK(list[k])'
                               /\ list[k].title \notin {"LABEL", "GOTO"}
                               /\ Computes(list[k]) => list[k].target \notin TTags
  BY <1>5, <1>6
<1> QED
  BY <1>2, <1>3, <1>7, <1>9, <1>10, PlacesNone DEF Free

LEMMA ArithmeticCode ==
    ASSUME SInv, TInv, Arithmetic
    PROVE  TInv'
<1>1. /\ agenda # <<>> /\ Continue(<<>>) /\ UNCHANGED Tags
      /\ labelCnt' = labelCnt /\ vCnt' = vCnt /\ hashmap' = hashmap
  BY DEF Arithmetic, Doing, Result, Tags
<1>2. CASE UNCHANGED <<tacs, tCnt>>
  <2>1. UNCHANGED <<Counters, Tags, tacs, hashmap>>
    BY <1>1, <1>2 DEF Counters
  <2> QED
    BY <1>1, <2>1, FreeNone, MakesNone DEF Free
<1>3. CASE Emit(<<OperTac(generateT(tCnt), This.do, Opd(1), Opd(2))>>) /\ NewT
  <2>1. PICK a \in Nat : a = tCnt
    BY DEF TInv, CountersOK
  <2>2. PICK t : t = OperTac(generateT(tCnt), This.do, Opd(1), Opd(2))
    OBVIOUS
  <2>3. t.title = "OPER" /\ t.target = generateT(a) /\ Shaped(t)
    BY <2>1, <2>2 DEF Shaped, OperTac, newTac
  <2>4. Temps(<<t>>, tCnt, a + 1) /\ tCnt' = a + 1
    BY <1>3, <2>1, <2>3, TempsOne DEF NewT
  <2>5. Grow
    <3>1. labelCnt' = labelCnt /\ vCnt' = vCnt /\ tCnt' \in Nat /\ tCnt' >= tCnt
      BY <1>1, <2>1, <2>4
    <3> QED
      BY <3>1 DEF TInv, Grow, CountersOK
  <2>6. HashOK'
    BY <1>1, <2>5, HashGrows DEF TInv
  <2> QED
    BY <1>1, <1>3, <2>1, <2>2, <2>4, <2>6, MakesTemps
<1> QED
  BY <1>2, <1>3 DEF Arithmetic

LEMMA MinusCode ==
    ASSUME SInv, TInv, Minus
    PROVE  TInv'
<1>1. /\ agenda # <<>> /\ Continue(<<>>) /\ UNCHANGED Tags
      /\ labelCnt' = labelCnt /\ vCnt' = vCnt
  BY DEF Minus, Task, Doing, Result, Tags
<1>2. CASE UNCHANGED <<tacs, tCnt, hashmap>>
  <2>1. UNCHANGED <<Counters, Tags, tacs, hashmap>>
    BY <1>1, <1>2 DEF Counters
  <2> QED
    BY <1>1, <2>1, FreeNone, MakesNone DEF Free
<1>3. CASE /\ Emit(<<OperTac(generateT(tCnt), "MINUS", Const(0), Opd(1))>>) /\ NewT
           /\ hashmap' = With(Negation(Opd(1)), generateT(tCnt))
  <2>1. PICK a \in Nat : a = tCnt
    BY DEF TInv, CountersOK
  <2>2. PICK t : t = OperTac(generateT(tCnt), "MINUS", Const(0), Opd(1))
    OBVIOUS
  <2>3. t.title = "OPER" /\ t.target = generateT(a) /\ Shaped(t)
    BY <2>1, <2>2 DEF Shaped, OperTac, newTac
  <2>4. Temps(<<t>>, tCnt, a + 1) /\ tCnt' = a + 1
    BY <1>3, <2>1, <2>3, TempsOne DEF NewT
  <2>5. Grow
    <3>1. labelCnt' = labelCnt /\ vCnt' = vCnt /\ tCnt' \in Nat /\ tCnt' >= tCnt
      BY <1>1, <2>1, <2>4
    <3> QED
      BY <3>1 DEF TInv, Grow, CountersOK
  <2>6. HashOK'
    <3>1. generateT(a) \in TTags'
      BY <2>4, <2>5, NewNumbers DEF Grow
    <3> QED
      BY <1>3, <2>1, <2>5, <3>1, HashGains DEF TInv
  <2> QED
    BY <1>1, <1>3, <2>1, <2>2, <2>4, <2>6, MakesTemps
<1> QED
  BY <1>2, <1>3 DEF Minus

LEMMA IndexCode ==
    ASSUME SInv, TInv, OperandsFit, Index
    PROVE  TInv'
<1>1. /\ agenda # <<>> /\ Continue(<<>>) /\ UNCHANGED Tags /\ This.do \in {"LB", "LB="}
      /\ labelCnt' = labelCnt /\ vCnt' = vCnt
  BY DEF Index, Doing, Result, Tags
<1>2. PICK a \in Nat : a = tCnt
  BY DEF TInv, CountersOK
<1>3. PICK array, k : array = Opd(1) /\ k = Opd(2)
  OBVIOUS
<1>4. PICK rest, unit : rest = Tail(array.dims) /\ unit = Const(Space(rest))
  OBVIOUS
<1>5. PICK isProduct : isProduct = (IsScaled(k) /\ k # Const(1))
  OBVIOUS
<1>6. PICK b \in Nat : b = IF isProduct THEN a + 1 ELSE a
  OBVIOUS
<1>7. PICK c \in Nat : c = IF IsScaled(k) THEN b + 1 ELSE a
  BY <1>6
<1>8. PICK sum, value : sum = generateT(b) /\ value = generateT(c)
  OBVIOUS
<1>9. PICK addr : addr = IF IsScaled(k) THEN sum ELSE array.at
  OBVIOUS
<1>10. PICK product : product = IF isProduct THEN <<OperTac(generateT(a), "MUL", k, unit)>> ELSE <<>>
  OBVIOUS
<1>11. PICK total : total = IF IsScaled(k)
                            THEN <<OperTac(sum, "PLUS", array.at, IF isProduct THEN generateT(a) ELSE unit)>> ELSE <<>>
  OBVIOUS
<1>12. PICK load : load = IF This.do = "LB=" THEN <<>> ELSE <<AssTac(value, WordAt(addr))>>
  OBVIOUS
<1>13. /\ generateT(IF isProduct THEN tCnt + 1 ELSE tCnt) = sum
       /\ generateT(IF IsScaled(k) THEN sum.n + 1 ELSE tCnt) = value
       /\ value.n = c
  BY <1>2, <1>6, <1>7, <1>8 DEF generateT
<1>14. IF rest # <<>>
       THEN Emit(product \o total) /\ tCnt' = c /\ hashmap' = hashmap
       ELSE Emit((product \o total) \o load) /\ tCnt' = c + 1 /\ hashmap' = With(value, WordAt(addr))
  BY <1>2, <1>3, <1>4, <1>5, <1>9, <1>10, <1>11, <1>12, <1>13 DEF Index
<1>15. Temps(product, a, b)
  <2>1. CASE isProduct
    <3>1. PICK t : t = OperTac(generateT(a), "MUL", k, unit)
      OBVIOUS
    <3>2. t.title = "OPER" /\ t.target = generateT(a) /\ Shaped(t)
      BY <3>1 DEF Shaped, OperTac, newTac
    <3> QED
      BY <1>6, <1>10, <2>1, <3>1, <3>2, TempsOne
  <2>2. CASE ~isProduct
    BY <1>6, <1>10, <2>2, TempsNone
  <2> QED
    BY <2>1, <2>2
<1>16. Temps(total, b, c)
  <2>1. CASE IsScaled(k)
    <3>1. PICK t : t = OperTac(sum, "PLUS", array.at, IF isProduct THEN generateT(a) ELSE unit)
      OBVIOUS
    <3>2. t.title = "OPER" /\ t.target = generateT(b) /\ Shaped(t)
      BY <1>8, <3>1 DEF Shaped, OperTac, newTac
    <3> QED
      BY <1>7, <1>11, <2>1, <3>1, <3>2, TempsOne
  <2>2. CASE ~IsScaled(k)
    <3>1. b = a /\ c = a
      BY <1>5, <1>6, <1>7, <2>2
    <3> QED
      BY <1>11, <2>2, <3>1, TempsNone
  <2> QED
    BY <2>1, <2>2
<1>17. Temps(product \o total, a, c)
  BY <1>15, <1>16, TempsConcat
<1>18. a <= c
  BY <1>5, <1>6, <1>7
<1>19. CASE rest # <<>>
  <2>1. Grow
    <3>1. labelCnt' = labelCnt /\ vCnt' = vCnt /\ tCnt' \in Nat /\ tCnt' >= tCnt
      BY <1>1, <1>2, <1>14, <1>18, <1>19
    <3> QED
      BY <3>1 DEF TInv, Grow, CountersOK
  <2>2. HashOK'
    BY <1>14, <1>19, <2>1, HashGrows DEF TInv
  <2>3. PICK list : list = product \o total
    OBVIOUS
  <2>4. Temps(list, tCnt, c) /\ Emit(list) /\ tCnt' \in Nat /\ c <= tCnt'
    BY <1>2, <1>14, <1>17, <1>19, <2>3
  <2> QED
    BY <1>1, <2>2, <2>4, MakesTemps
<1>20. CASE rest = <<>>
  <2>1. Grow
    <3>1. labelCnt' = labelCnt /\ vCnt' = vCnt /\ tCnt' \in Nat /\ tCnt' >= tCnt
      BY <1>1, <1>2, <1>14, <1>18, <1>20
    <3> QED
      BY <3>1 DEF TInv, Grow, CountersOK
  <2>2. addr \in VTags' \cup TTags' \cup Places'
    <3>1. CASE IsScaled(k)
      <4>1. b \in Nat /\ b < tCnt'
        BY <1>7, <1>14, <1>20, <3>1
      <4> QED
        BY <1>8, <1>9, <2>1, <3>1, <4>1, NewNumbers DEF Grow
    <3>2. CASE ~IsScaled(k)
      <4>1. array.at \in VTags \cup TTags \cup Places
        BY <1>1, <1>3 DEF OperandsFit, Doing
      <4> QED
        BY <1>9, <2>1, <3>2, <4>1, TagsGrow
    <3> QED
      BY <3>1, <3>2
  <2>3. PICK word : word = WordAt(addr)
    OBVIOUS
  <2>4. IsWord(word)'
    BY <2>2, <2>3 DEF IsWord, WordAt
  <2>5. HashOK'
    BY <1>14, <1>20, <2>1, <2>3, <2>4, HashGains DEF TInv
  <2>6. \E d \in Nat : Temps(load, c, d) /\ d <= tCnt'
    <3>1. CASE This.do = "LB="
      BY <1>12, <1>14, <1>20, <3>1, TempsNone
    <3>2. CASE This.do # "LB="
      <4>1. PICK t : t = AssTac(value, WordAt(addr))
        OBVIOUS
      <4>2. t.title = "ASS" /\ t.target = generateT(c) /\ Shaped(t)
        BY <1>8, <4>1 DEF Shaped, AssTac, newTac
      <4>3. Temps(load, c, c + 1) /\ c + 1 \in Nat /\ c + 1 <= tCnt'
        BY <1>12, <1>14, <1>20, <3>2, <4>1, <4>2, TempsOne
      <4> QED
        BY <4>3
    <3> QED
      BY <3>1, <3>2
  <2>7. PICK d \in Nat : Temps(load, c, d) /\ d <= tCnt'
    BY <2>6
  <2>8. PICK code : code = product \o total
    OBVIOUS
  <2>9. Temps(code \o load, a, d)
    BY <1>17, <2>7, <2>8, TempsConcat
  <2>10. PICK list : list = code \o load
    OBVIOUS
  <2>11. Temps(list, tCnt, d) /\ Emit(list) /\ tCnt' \in Nat
    BY <1>2, <1>14, <1>20, <2>8, <2>9, <2>10
  <2> QED
    BY <1>1, <2>5, <2>7, <2>11, MakesTemps
<1> QED
  BY <1>19, <1>20

(* The arguments of a call, then the call.                                 *)
LEMMA CallCode ==
    ASSUME SInv, TInv, Call
    PROVE  TInv'
<1>1. /\ agenda # <<>> /\ Continue(<<>>) /\ UNCHANGED Tags
      /\ labelCnt' = labelCnt /\ vCnt' = vCnt /\ hashmap' = hashmap
  BY DEF Call, Task, Doing, Result, Tags
<1>2. PICK a \in Nat : a = tCnt
  BY DEF TInv, CountersOK
<1>3. PICK args : args = [k \in 1..Len(This.it.of) |-> Opd(k)]
  OBVIOUS
<1>4. PICK f, x : f = This.it.f /\ x = generateT(a)
  OBVIOUS
<1>5. \/ Emit(<<One("READ", x)>>) /\ NewT
      \/ Emit(<<One("WRITE", args[1])>>) /\ UNCHANGED tCnt
      \/ Emit(ArgTacs(args) \o <<AssTac(x, CallTag(f))>>) /\ NewT
      \/ UNCHANGED <<tacs, tCnt>>
  BY <1>2, <1>3, <1>4 DEF Call
<1>6. ASSUME NewT PROVE Grow /\ tCnt' = a + 1
  <2>1. labelCnt' = labelCnt /\ vCnt' = vCnt /\ tCnt' \in Nat /\ tCnt' >= tCnt /\ tCnt' = a + 1
    BY <1>1, <1>2, <1>6 DEF NewT
  <2> QED
    BY <2>1 DEF TInv, Grow, CountersOK
<1>7. ASSUME UNCHANGED tCnt PROVE UNCHANGED Counters /\ Grow
  <2>1. UNCHANGED Counters
    BY <1>1, <1>7 DEF Counters
  <2> QED
    BY <2>1, GrowSame
<1>8. Grow => HashOK'
  BY <1>1, HashGrows DEF TInv
<1>9. CASE Emit(<<One("READ", x)>>) /\ NewT
  <2>1. PICK t : t = One("READ", x)
    OBVIOUS
  <2>2. t.title = "READ" /\ t.target = generateT(a) /\ Shaped(t)
    BY <1>4, <2>1 DEF Shaped, One, newTac
  <2>3. PICK list : list = <<t>>
    OBVIOUS
  <2>4. Temps(list, tCnt, a + 1) /\ Emit(list) /\ a + 1 \in Nat
    BY <1>2, <1>9, <2>1, <2>2, <2>3, TempsOne
  <2> QED
    BY <1>1, <1>6, <1>8, <1>9, <2>4, MakesTemps
<1>10. CASE Emit(<<One("WRITE", args[1])>>) /\ UNCHANGED tCnt
  <2>1. PICK t : t = One("WRITE", args[1])
    OBVIOUS
  <2>2. t.title = "WRITE" /\ Shaped(t)
    BY <2>1 DEF Shaped, One, newTac
  <2>3. TacOK(t)' /\ t.title \notin {"LABEL", "GOTO"} /\ ~Computes(t) /\ Emit(<<t>>)
    BY <1>10, <2>1, <2>2 DEF TacOK, Titles, Computes
  <2> QED
    BY <1>1, <1>7, <1>8, <1>10, <2>3, FreeNone, MakesOne
<1>11. CASE Emit(ArgTacs(args) \o <<AssTac(x, CallTag(f))>>) /\ NewT
  <2>1. PICK s, last, u : s = ArgTacs(args) /\ last = AssTac(x, CallTag(f)) /\ u = <<last>>
    OBVIOUS
  <2>2. last.title = "ASS" /\ last.target = x /\ Shaped(last)
    BY <2>1 DEF Shaped, AssTac, newTac
  <2>3. IsSequence(u) /\ Len(u) = 1 /\ u[1] = last
    BY <2>1, OneElement
  <2>4. PICK n \in Nat : n = Len(This.it.of)
    BY AtHand DEF TaskOK, Call, Task, Doing
  <2>5. args = [k \in 1..n |-> args[k]] /\ Len(args) = n
    BY <1>3, <2>4
  <2>6. s = [k \in 1..n |-> s[k]] /\ \A k \in 1..n : s[k].title = "ARG" /\ Shaped(s[k])
    BY <2>1, <2>5 DEF Shaped, ArgTacs, One, newTac
  <2>7. IsSequence(s) /\ Len(s) = n
    BY <2>6, FunctionLemma
  <2>8. PICK list : list = s \o u
    OBVIOUS
  <2>9. IsSequence(s \o u) /\ Len(s \o u) = n + 1
    <3>1. IsSequence(s) /\ IsSequence(u)
      BY <2>3, <2>7
    <3>2. IsSequence(s \o u) /\ Len(s \o u) = Len(s) + Len(u)
      BY <3>1, ConcatSequences
    <3> QED
      BY <2>3, <2>7, <3>2
  <2>10. \A k \in 1..Len(list) : (list[k].title = "ARG" /\ Shaped(list[k])) \/ list[k] = last
    <3>1. \A k \in 1..Len(s \o u) : \/ \E j \in 1..Len(s) : (s \o u)[k] = s[j]
                                    \/ \E j \in 1..Len(u) : (s \o u)[k] = u[j]
      <4>1. IsSequence(s) /\ IsSequence(u)
        BY <2>3, <2>7
      <4> QED
        BY <4>1, ConcatElements
    <3> QED
      BY <2>3, <2>6, <2>7, <2>8, <3>1
  <2>11. \A k \in 1..n : list[k].title = "ARG"
    BY <2>3, <2>6, <2>7, <2>8, ConcatSequences
  <2>12. Grow /\ tCnt' = a + 1
    BY <1>6, <1>11
  <2>13. x \in TTags' /\ x \notin TTags
    BY <1>2, <1>4, <2>12, NewTag, NewNumbers DEF Grow
  <2>14. ASSUME NEW k \in 1..Len(list), NEW t, t = list[k]
         PROVE  TacOK(t)' /\ t.title \notin {"LABEL", "GOTO"} /\ (Computes(t) => t.target \notin TTags)
    BY <2>2, <2>10, <2>13, <2>14 DEF TacOK, Titles, Computes
  <2>15. \A k \in 1..Len(list) : /\ TacOK(list[k])'
                                 /\ list[k].title \notin {"LABEL", "GOTO"}
                                 /\ Computes(list[k]) => list[k].target \notin TTags
    BY <2>14
  <2>16. \A j, k \in 1..Len(list) : Computes(list[j]) /\ Computes(list[k]) => j = k
    <3>1. \A k \in 1..Len(list) : Computes(list[k]) => k = n + 1
      BY <2>8, <2>9, <2>11 DEF Computes
    <3> QED
      BY <3>1
  <2>17. IsSequence(list) /\ Emit(list)
    BY <1>11, <2>1, <2>8, <2>9
  <2>18. \A j, k \in 1..Len(list) :
            j # k /\ Computes(list[j]) /\ Computes(list[k]) => list[j].target # list[k].target
    BY <2>16
  <2>19. PICK tasks : tasks = <<>>
    OBVIOUS
  <2>20. IsSequence(tasks) /\ (\A k \in 1..Len(tasks) : tasks[k].do \notin Holders) /\ Continue(tasks)
    BY <1>1, <2>19, FreeNone DEF Free
  <2>21. HashOK'
    BY <1>8, <2>12
  <2> QED
    BY <1>1, <2>12, <2>15, <2>17, <2>18, <2>20, <2>21, PlacesNone
<1>12. CASE UNCHANGED <<tacs, tCnt>>
  <2>1. UNCHANGED <<Counters, Tags, tacs, hashmap>>
    BY <1>1, <1>7, <1>12
  <2> QED
    BY <1>1, <2>1, FreeNone, MakesNone DEF Free
<1> QED
  BY <1>5, <1>9, <1>10, <1>11, <1>12

LEMMA LastElement ==
    ASSUME NEW s, IsSequence(s), s # <<>>
    PROVE  Len(s) \in 1..Len(s)
BY DEF IsSequence

(* What computes the last value is made to compute the variable, or an     *)
(* instruction is added that does.                                         *)
LEMMA AssignmentCode ==
    ASSUME SInv, TInv, OperandsFit, Assignment
    PROVE  TInv'
<1>1. agenda # <<>> /\ UNCHANGED Counters /\ UNCHANGED Tags /\ UNCHANGED hashmap /\ Continue(<<>>) /\ This.do = "ASSIGN"
  BY DEF Assignment, Task, Doing, Result, Counters, Tags
<1>2. Grow /\ HashOK' /\ CountersOK
  BY <1>1, GrowSame, HashGrows DEF TInv
<1>3. PICK target, tag : target = Lookup(Opd(2), Opd(2)) /\ tag = Opd(1)
  OBVIOUS
<1>4. (target \in VTags \/ IsWord(target)) /\ tag.sort # "label"
  BY <1>1, <1>3 DEF OperandsFit, Task, Doing
<1>5. PICK n \in Nat : n = Len(tacs) /\ tacs = [k \in 1..n |-> tacs[k]]
  BY DEF TInv, ListOK, IsSequence
<1>6. CASE curTac.target = tag /\ target.sort # "*"
  <2>1. target \in VTags /\ target \in VTags' /\ target.sort = "v"
    BY <1>2, <1>4, <1>6, TagsGrow, NewTag DEF IsWord
  <2>2. tacs' = [tacs EXCEPT ![n].target = target]
    BY <1>3, <1>5, <1>6 DEF Assignment, Assigned
  <2>3. tacs' = [k \in 1..n |-> IF k = n THEN [tacs[n] EXCEPT !.target = target] ELSE tacs[k]]
    BY <1>5, <2>2
  <2>4. IsSequence(tacs') /\ Len(tacs') = n /\ \A k \in 1..n : k # n => tacs'[k] = tacs[k]
    BY <2>3, FunctionLemma
  <2>5. PICK last, new : last = tacs[n] /\ new = [last EXCEPT !.target = target]
    OBVIOUS
  <2>6. n \in 1..n => last.title \notin {"LABEL", "GOTO", "IF"}
    <3>1. n \in 1..n => TacOK(last)
      BY <1>5, <2>5 DEF TInv, ListOK
    <3>2. last.target = tag
      BY <1>5, <1>6, <2>5 DEF curTac
    <3>3. tag \notin LabelTags
      BY <1>2, <1>4, NewTag
    <3> QED
      BY <3>1, <3>2, <3>3 DEF TacOK
  <2>7. TacOK(last) /\ n \in 1..n => Shaped(new) /\ new.title = last.title /\ new.target = target
    BY <2>5 DEF TacOK, Shaped
  <2>8. ASSUME NEW k \in 1..n, NEW t, t = tacs'[k] PROVE TacOK(t)'
    <3>1. TacOK(tacs[k]) /\ (k = n => n \in 1..n)
      <4>1. TacOK(tacs[k])
        BY <1>5 DEF TInv, ListOK
      <4> QED
        BY <4>1
    <3>2. CASE k = n
      <4>1. t = new /\ TacOK(last)
        BY <2>3, <2>5, <2>8, <3>1, <3>2
      <4> QED
        BY <2>1, <2>6, <2>7, <3>1, <4>1 DEF TacOK
    <3>3. CASE k # n
      <4>1. t = tacs[k]
        BY <2>4, <2>8, <3>3
      <4> QED
        BY <1>2, <3>1, <4>1, TagsGrow
    <3> QED
      BY <3>2, <3>3
  <2>9. \A k \in 1..n : /\ tacs'[k].title = tacs[k].title
                        /\ k = n => tacs'[k].target = target /\ tacs[k].title \notin {"LABEL", "GOTO", "IF"}
                        /\ k # n => tacs'[k] = tacs[k]
    <3>1. ASSUME n \in 1..n PROVE tacs'[n] = new /\ TacOK(last)
      BY <1>5, <2>3, <2>5, <3>1 DEF TInv, ListOK
    <3>2. n \in 1..n => tacs'[n].title = tacs[n].title /\ tacs'[n].target = target
      BY <2>5, <2>7, <3>1
    <3> QED
      BY <2>4, <2>5, <2>6, <3>2
  <2>10. \A j, k \in 1..n : j # k => ~Clash(tacs'[j], tacs'[k])
    <3>1. \A j, k \in 1..n : j # k => ~Clash(tacs[j], tacs[k])
      BY <1>5 DEF TInv, ListOK
    <3> QED
      BY <2>1, <2>9, <3>1 DEF Clash, Computes
  <2>11. ListOK(tacs)'
    <3>1. \A k \in 1..n : TacOK(tacs[k])'
      BY <2>8
    <3>2. IsSequence(tacs)' /\ 1..Len(tacs') = 1..n
      BY <2>4 DEF IsSequence
    <3>3. \A j, k \in 1..n : j # k => ~Clash(tacs[j], tacs[k])'
      BY <2>10 DEF Clash, Computes
    <3> QED
      BY <3>1, <3>2, <3>3 DEF ListOK
  <2>12. \A l : Placed(l)' => Placed(l)
    BY <1>5, <2>4, <2>9 DEF Placed
  <2>13. Judged' => Judged
    <3>1. Judged' => n \in 1..n /\ tacs'[n].title = "GOTO"
      BY <2>4, LastElement DEF Judged, curTac
    <3> QED
      BY <1>5, <2>9, <3>1
  <2>14. PICK tasks : tasks = <<>>
    OBVIOUS
  <2>15. Free(tasks) /\ Continue(tasks)
    BY <1>1, <2>14, FreeNone
  <2> QED
    BY <1>1, <1>2, <2>11, <2>12, <2>13, <2>15, KeepsLabels DEF Free
<1>7. CASE ~(curTac.target = tag /\ target.sort # "*")
  <2>1. PICK t : t = AssTac(target, tag)
    OBVIOUS
  <2>2. t.title = "ASS" /\ t.target = target /\ Shaped(t)
    BY <2>1 DEF Shaped, AssTac, newTac
  <2>3. TacOK(t)' /\ t.title \notin {"LABEL", "GOTO"} /\ ~Computes(t)
    <3>1. target.sort # "t"
      BY <1>2, <1>4, NewTag DEF IsWord
    <3>2. (target \in VTags \/ IsWord(target))'
      BY <1>2, <1>4, TagsGrow
    <3> QED
      BY <2>2, <3>1, <3>2 DEF TacOK, Titles, Computes
  <2>4. Emit(<<t>>)
    <3>1. tacs' = Append(tacs, t)
      BY <1>3, <1>7, <2>1 DEF Assignment, Assigned
    <3>2. tacs \in Seq({tacs[k] : k \in 1..Len(tacs)} \cup {t})
      <4>1. tacs \in Seq({tacs[k] : k \in 1..Len(tacs)})
        BY RangeLemma DEF TInv, ListOK
      <4> QED
        BY <4>1, SeqDef
    <3>3. Append(tacs, t) = tacs \o <<t>>
      BY <3>2, AppendIsConcat
    <3> QED
      BY <3>1, <3>3 DEF Emit
  <2> QED
    BY <1>1, <1>2, <2>3, <2>4, FreeNone, MakesOne
<1> QED
  BY <1>6, <1>7

-----------------------------------------------------------------------------
(* Handlers that place labels.  At most one of the tasks they add holds    *)
(* any.                                                                    *)

Carry(s, task) ==
    /\ IsSequence(s)
    /\ \A k \in 1..Len(s) : s[k].do \in Holders => s[k] = task
    /\ \A j, k \in 1..Len(s) : s[j].do \in Holders /\ s[k].do \in Holders => j = k

LEMMA CarryOne ==
    ASSUME NEW task
    PROVE  Carry(<<task>>, task)
<1>1. PICK s : s = <<task>>
  OBVIOUS
<1>2. IsSequence(s) /\ Len(s) = 1 /\ s[1] = task
  BY <1>1, OneElement
<1>3. \A k \in 1..Len(s) : k = 1
  BY <1>2
<1> QED
  BY <1>1, <1>2, <1>3 DEF Carry

LEMMA CarryFree ==
    ASSUME NEW s, Free(s), NEW task
    PROVE  Carry(s, task)
BY DEF Free, Carry

LEMMA CarryAfter ==
    ASSUME NEW s, Free(s), NEW t, NEW task, Carry(t, task)
    PROVE  Carry(s \o t, task)
<1>1. PICK u : u = s \o t
  OBVIOUS
<1>2. PICK m \in Nat, n \in Nat : m = Len(s) /\ n = Len(t)
  BY DEF Free, Carry, IsSequence
<1>3. /\ IsSequence(u) /\ Len(u) = m + n
      /\ \A k \in 1..m : u[k] = s[k]
      /\ \A k \in 1..n : u[m + k] = t[k]
  BY <1>1, <1>2, ConcatSequences DEF Free, Carry
<1>4. ASSUME NEW k \in 1..m + n, u[k].do \in Holders
      PROVE  k - m \in 1..n /\ u[k] = t[k - m]
  <2>1. k \notin 1..m
    BY <1>2, <1>3, <1>4 DEF Free
  <2>2. k - m \in 1..n /\ m + (k - m) = k
    BY <2>1
  <2> QED
    BY <1>3, <2>2
<1>5. ASSUME NEW j \in 1..m + n, NEW k \in 1..m + n, u[j].do \in Holders, u[k].do \in Holders
      PROVE  j = k
  <2>1. j - m \in 1..n /\ k - m \in 1..n /\ t[j - m].do \in Holders /\ t[k - m].do \in Holders
    BY <1>4, <1>5
  <2>2. j - m = k - m
    BY <1>2, <2>1 DEF Carry
  <2> QED
    BY <2>2
<1>6. \A k \in 1..Len(u) : u[k].do \in Holders => u[k] = task
  BY <1>2, <1>3, <1>4 DEF Carry
<1> QED
  BY <1>1, <1>3, <1>5, <1>6 DEF Carry

LEMMA CarryBefore ==
    ASSUME NEW s, NEW task, Carry(s, task), NEW t, Free(t)
    PROVE  Carry(s \o t, task)
<1>1. PICK u : u = s \o t
  OBVIOUS
<1>2. PICK m \in Nat, n \in Nat : m = Len(s) /\ n = Len(t)
  BY DEF Free, Carry, IsSequence
<1>3. /\ IsSequence(u) /\ Len(u) = m + n
      /\ \A k \in 1..m : u[k] = s[k]
      /\ \A k \in 1..n : u[m + k] = t[k]
  BY <1>1, <1>2, ConcatSequences DEF Free, Carry
<1>4. ASSUME NEW k \in 1..m + n, u[k].do \in Holders
      PROVE  k \in 1..m /\ u[k] = s[k]
  <2>1. CASE k \notin 1..m
    <3>1. k - m \in 1..n /\ m + (k - m) = k
      BY <2>1
    <3>2. u[k] = t[k - m]
      BY <1>3, <3>1
    <3> QED
      BY <1>2, <1>4, <3>1, <3>2 DEF Free
  <2> QED
    BY <1>3, <2>1
<1>5. \A j, k \in 1..Len(u) : u[j].do \in Holders /\ u[k].do \in Holders => j = k
  BY <1>2, <1>3, <1>4 DEF Carry
<1>6. \A k \in 1..Len(u) : u[k].do \in Holders => u[k] = task
  BY <1>2, <1>3, <1>4 DEF Carry
<1> QED
  BY <1>1, <1>3, <1>5, <1>6 DEF Carry

(* One available label goes to the list, others to a task or to endTag or  *)
(* to onetag and zerotag.                                                  *)
LEMMA PlacesSome ==
    ASSUME SInv, TInv, Grow, UNCHANGED hashmap, agenda # <<>>,
           NEW tasks, NEW task, Carry(tasks, task), Continue(tasks),
           Loops(task)',
           NEW put, \A l \in put : Available(l),
           NEW list, IsSequence(list), Emit(list),
           \A k \in 1..Len(list) : /\ Shaped(list[k]) /\ list[k].title \in {"IF", "GOTO", "LABEL"}
                                   /\ list[k].target \in LabelTags'
                                   /\ list[k].title = "LABEL" => list[k].target \in put,
           \A j, k \in 1..Len(list) : list[j].title = "LABEL" /\ list[k].title = "LABEL" => j = k,
           \A l : Holds(task, l) => Available(l) /\ l \in LabelTags' /\ l \notin put,
           ({onetag, zerotag, endTag} \subseteq LabelTags \cup {NULL} /\ isEndTagDef \in {0, 1})',
           isEndTagDef' = 1 => /\ Available(endTag') /\ endTag' \in LabelTags' /\ endTag' \notin put
                               /\ ~Holds(task, endTag'),
           Judged' => /\ onetag' # zerotag'
                      /\ isEndTagDef' = 1 => endTag' # onetag' /\ endTag' # zerotag'
                      /\ \A l \in {onetag', zerotag'} :
                            Available(l) /\ l \in LabelTags' /\ l \notin put /\ ~Holds(task, l)
    PROVE  TInv'
<1>1. ListOK(tacs) /\ LInv /\ CountersOK /\ HashOK
  BY DEF TInv
<1>2. HashOK'
  BY <1>1, HashGrows
<1>3. ListOK(list)'
  <2>1. ASSUME NEW k \in 1..Len(list) PROVE TacOK(list[k])'
    BY DEF TacOK, Titles
  <2>2. \A j, k \in 1..Len(list) : j # k => ~Clash(list[j], list[k])
    BY DEF Clash, Computes
  <2> QED
    BY <2>1, <2>2 DEF ListOK, Clash, Computes
<1>4. \A k \in 1..Len(list) : /\ list[k].title = "LABEL" => ~Placed(list[k].target)
                              /\ Computes(list[k]) => list[k].target \notin TTags
  <2>1. \A l \in put : ~Placed(l)
    BY <1>1, AvailableIsNew
  <2> QED
    BY <2>1 DEF Computes
<1>5. /\ ListOK(tacs)'
      /\ \A l : Placed(l)' => \/ Placed(l)
                              \/ \E k \in 1..Len(list) : list[k].title = "LABEL" /\ list[k].target = l
  BY <1>1, <1>3, <1>4, Appended
<1>6. \A l : Placed(l)' => Placed(l) \/ l \in put
  BY <1>5
<1>7. /\ IsSequence(tasks)
      /\ \A k \in 1..Len(tasks) : tasks[k].do \in Holders => tasks[k] = task
      /\ \A j, k \in 1..Len(tasks) : tasks[j].do \in Holders /\ tasks[k].do \in Holders => j = k
  BY DEF Carry
<1>8. \A k \in 1..Len(tasks) : \A l : Holds(tasks[k], l) => tasks[k].do \in Holders /\ Holds(task, l)
  BY <1>7 DEF Holds, Holders
<1>9. ASSUME NEW k \in 1..Len(tasks) PROVE Loops(tasks[k])'
  BY <1>7 DEF Loops, Holders
<1>10. \A j, k \in 1..Len(tasks) : j # k => \A l : ~(Holds(tasks[j], l) /\ Holds(tasks[k], l))
  BY <1>7, <1>8
<1>11. \A k \in 1..Len(tasks) : \A l : Holds(tasks[k], l) => Available(l) /\ l \in LabelTags' /\ l \notin put
  BY <1>8
<1>12. isEndTagDef' = 1 => /\ Available(endTag') /\ endTag' \in LabelTags' /\ endTag' \notin put
                           /\ \A k \in 1..Len(tasks) : ~Holds(tasks[k], endTag')
  BY <1>8
<1>13. Judged' => /\ onetag' # zerotag'
                  /\ isEndTagDef' = 1 => endTag' # onetag' /\ endTag' # zerotag'
                  /\ \A l \in {onetag', zerotag'} :
                        /\ Available(l) /\ l \in LabelTags' /\ l \notin put
                        /\ \A k \in 1..Len(tasks) : ~Holds(tasks[k], l)
  BY <1>8
<1>14. LInv'
  <2>1. \A k \in 1..Len(tasks) : Loops(tasks[k])'
    BY <1>9
  <2> QED
    BY <1>1, <1>6, <1>7, <1>10, <1>11, <1>12, <1>13, <2>1, GivenOut
<1> QED
  BY <1>2, <1>5, <1>14 DEF TInv, Grow

(* The last instruction of what is put at the end.                         *)
LEMMA LastPut ==
    ASSUME TInv, NEW list, IsSequence(list), NEW n \in Nat \ {0}, Len(list) = n, Emit(list)
    PROVE  tacs' # <<>> /\ curTac' = list[n]
<1>1. PICK m \in Nat : m = Len(tacs)
  BY DEF TInv, ListOK, IsSequence
<1>2. /\ IsSequence(tacs') /\ Len(tacs') = m + n
      /\ \A k \in 1..n : tacs'[m + k] = list[k]
  BY <1>1, ConcatSequences DEF Emit, TInv, ListOK
<1>3. n \in 1..n /\ m + n # 0
  OBVIOUS
<1> QED
  BY <1>2, <1>3 DEF curTac

LEMMA NewLabel ==
    ASSUME NEW n \in Nat, n >= labelCnt
    PROVE  Available(generateLabel(n))
BY DEF Available

LEMMA LabelsDiffer == \A j, k : j # k => generateLabel(j) # generateLabel(k)
BY DEF generateLabel

LEMMA TwoElements ==
    ASSUME NEW a, NEW b
    PROVE  IsSequence(<<a, b>>) /\ Len(<<a, b>>) = 2 /\ <<a, b>>[1] = a /\ <<a, b>>[2] = b
BY DEF IsSequence

LEMMA ThreeElements ==
    ASSUME NEW a, NEW b, NEW c
    PROVE  LET s == <<a, b, c>>
           IN  IsSequence(s) /\ Len(s) = 3 /\ s[1] = a /\ s[2] = b /\ s[3] = c
BY DEF IsSequence

LEMMA FiveElements ==
    ASSUME NEW a, NEW b, NEW c, NEW d, NEW e
    PROVE  LET s == <<a, b, c, d, e>>
           IN  IsSequence(s) /\ Len(s) = 5 /\ s[1] = a /\ s[2] = b /\ s[3] = c /\ s[4] = d /\ s[5] = e
BY DEF IsSequence

LEMMA LabelInstructions ==
    ASSUME NEW l, NEW cond
    PROVE  /\ Shaped(LabelTac(l)) /\ LabelTac(l).title = "LABEL" /\ LabelTac(l).target = l
           /\ Shaped(GotoTac(l)) /\ GotoTac(l).title = "GOTO" /\ GotoTac(l).target = l
           /\ Shaped(IfTac(l, cond)) /\ IfTac(l, cond).title = "IF" /\ IfTac(l, cond).target = l
BY DEF Shaped, LabelTac, GotoTac, IfTac, One, newTac

(* Available, and not because it is endTag.                                *)
Mine(l) == Available(l) /\ ~(isEndTagDef = 1 /\ l = endTag)

LEMMA MineLemma ==
    ASSUME SInv, TInv, agenda # <<>>
    PROVE  /\ \A l : Holds(This, l) => Mine(l) /\ l \in LabelTags
           /\ Judged => Mine(onetag) /\ Mine(zerotag) /\ {onetag, zerotag} \subseteq LabelTags /\ onetag # zerotag
           /\ \A n \in Nat : n >= labelCnt => Mine(generateLabel(n))
<1>1. This = agenda[1] /\ 1 \in 1..Len(agenda)
  BY RestLemma DEF SInv, Fit, This
<1>2. LInv /\ CountersOK
  BY DEF TInv
<1>3. ASSUME NEW l, Holds(This, l) PROVE Mine(l) /\ l \in LabelTags
  BY <1>1, <1>2, <1>3 DEF LInv, Waiting, Mine, Available
<1>4. Judged => Mine(onetag) /\ Mine(zerotag) /\ {onetag, zerotag} \subseteq LabelTags /\ onetag # zerotag
  BY <1>2 DEF LInv, Waiting, Mine, Available
<1>5. ASSUME NEW n \in Nat, n >= labelCnt PROVE Mine(generateLabel(n))
  <2>1. generateLabel(n) \notin LabelTags
    BY <1>2, <1>5, NewTag
  <2>2. isEndTagDef = 1 => endTag \in LabelTags
    BY <1>2 DEF LInv, Waiting
  <2> QED
    BY <1>5, <2>1, <2>2, NewLabel DEF Mine
<1> QED
  BY <1>3, <1>4, <1>5

(* A handler that leaves the tags as they are and does not end with a GOTO.*)
LEMMA PlacesMine ==
    ASSUME SInv, TInv, Grow, UNCHANGED hashmap, UNCHANGED Tags, agenda # <<>>, ~Judged',
           NEW tasks, NEW task, Carry(tasks, task), Continue(tasks),
           Loops(task)',
           NEW put, \A l \in put : Mine(l),
           NEW list, IsSequence(list), Emit(list),
           \A k \in 1..Len(list) : /\ Shaped(list[k]) /\ list[k].title \in {"IF", "GOTO", "LABEL"}
                                   /\ list[k].target \in LabelTags'
                                   /\ list[k].title = "LABEL" => list[k].target \in put,
           \A j, k \in 1..Len(list) : list[j].title = "LABEL" /\ list[k].title = "LABEL" => j = k,
           \A l : Holds(task, l) => Mine(l) /\ l \in LabelTags' /\ l \notin put
    PROVE  TInv'
<1>1. onetag' = onetag /\ zerotag' = zerotag /\ endTag' = endTag /\ isEndTagDef' = isEndTagDef
  BY DEF Tags
<1>2. LInv
  BY DEF TInv
<1>3. ({onetag, zerotag, endTag} \subseteq LabelTags \cup {NULL} /\ isEndTagDef \in {0, 1})'
  BY <1>1, TagsGrow DEF TInv
<1>4. isEndTagDef' = 1 => /\ Available(endTag') /\ endTag' \in LabelTags' /\ endTag' \notin put
                          /\ ~Holds(task, endTag')
  <2>1. isEndTagDef = 1 => endTag \in LabelTags /\ Available(endTag) /\ ~Mine(endTag)
    BY <1>2 DEF LInv, Waiting, Available, Mine
  <2> QED
    BY <1>1, <2>1, TagsGrow
<1>5. \A l \in put : Available(l)
  BY DEF Mine
<1>6. \A l : Holds(task, l) => Available(l) /\ l \in LabelTags' /\ l \notin put
  BY DEF Mine
<1>7. Judged' => /\ onetag' # zerotag'
                 /\ isEndTagDef' = 1 => endTag' # onetag' /\ endTag' # zerotag'
                 /\ \A l \in {onetag', zerotag'} :
                       Available(l) /\ l \in LabelTags' /\ l \notin put /\ ~Holds(task, l)
  OBVIOUS
<1> QED
  BY <1>3, <1>4, <1>5, <1>6, <1>7, PlacesSome

(* ... and makes a single instruction.                                     *)
LEMMA PlacesOne ==
    ASSUME SInv, TInv, Grow, UNCHANGED hashmap, UNCHANGED Tags, agenda # <<>>,
           NEW tasks, NEW task, Carry(tasks, task), Continue(tasks),
           Loops(task)',
           NEW t, Emit(<<t>>), Shaped(t), t.title \in {"IF", "LABEL"}, t.target \in LabelTags',
           t.title = "LABEL" => Mine(t.target),
           \A l : Holds(task, l) => Mine(l) /\ l \in LabelTags' /\ (t.title = "LABEL" => l # t.target)
    PROVE  TInv'
<1>1. PICK list : list = <<t>>
  OBVIOUS
<1>2. IsSequence(list) /\ Len(list) = 1 /\ list[1] = t /\ Emit(list)
  BY <1>1, OneElement
<1>3. \A k \in 1..Len(list) : k = 1 /\ list[k] = t
  BY <1>2
<1>4. PICK put : put = IF t.title = "LABEL" THEN {t.target} ELSE {}
  OBVIOUS
<1>5. ~Judged'
  <2>1. tacs' # <<>> /\ curTac' = list[1]
    <3>1. PICK n \in Nat \ {0} : n = 1
      OBVIOUS
    <3> QED
      BY <1>2, <3>1, LastPut
  <2> QED
    BY <1>2, <2>1 DEF Judged
<1>6. \A l \in put : Mine(l)
  BY <1>4
<1>7. \A l : Holds(task, l) => Mine(l) /\ l \in LabelTags' /\ l \notin put
  BY <1>4
<1>8. \A k \in 1..Len(list) : /\ Shaped(list[k]) /\ list[k].title \in {"IF", "GOTO", "LABEL"}
                              /\ list[k].target \in LabelTags'
                              /\ list[k].title = "LABEL" => list[k].target \in put
  BY <1>3, <1>4
<1>9. \A j, k \in 1..Len(list) : list[j].title = "LABEL" /\ list[k].title = "LABEL" => j = k
  BY <1>3
<1> QED
  BY <1>2, <1>5, <1>6, <1>7, <1>8, <1>9, PlacesMine

(* Both labels of an && or || go to onetag and zerotag, the third to the   *)
(* second IF.                                                              *)
LEMMA LogicalCode ==
    ASSUME SInv, TInv, Logical
    PROVE  TInv'
<1>1. agenda # <<>> /\ UNCHANGED <<vCnt, tCnt, endTag, isEndTagDef, hashmap>> /\ labelCnt' = labelCnt + 3 /\ Continue(<<>>)
  BY DEF Logical, Doing, NewLabels, Result
<1>2. PICK n \in Nat : n = labelCnt
  BY DEF TInv, CountersOK
<1>3. labelCnt' \in Nat /\ labelCnt' = n + 3
  BY <1>1, <1>2
<1>4. Grow /\ CountersOK'
  BY <1>1, <1>2, <1>3 DEF TInv, CountersOK, Grow
<1>5. PICK l, m, r : l = generateLabel(n) /\ m = generateLabel(n + 1) /\ r = generateLabel(n + 2)
  OBVIOUS
<1>6. {l, m, r} \subseteq LabelTags' /\ l # m /\ l # r /\ m # r
  <2>1. n \in Nat /\ n < n + 3 /\ n + 1 \in Nat /\ n + 1 < n + 3 /\ n + 2 \in Nat /\ n + 2 < n + 3
    OBVIOUS
  <2>2. {l, m, r} \subseteq LabelTags'
    BY <1>3, <1>4, <1>5, <2>1, NewNumbers
  <2>3. n # n + 1 /\ n # n + 2 /\ n + 1 # n + 2
    OBVIOUS
  <2> QED
    BY <1>5, <2>2, <2>3, LabelsDiffer
<1>7. Mine(l) /\ Mine(m) /\ Mine(r)
  <2>1. n >= n /\ n + 1 \in Nat /\ n + 1 >= n /\ n + 2 \in Nat /\ n + 2 >= n
    OBVIOUS
  <2> QED
    BY <1>1, <1>2, <1>5, <2>1, MineLemma
<1>8. PICK otag, ztag, tmpTag, a :
          /\ Emit(<<IfTac(l, a), GotoTac(m), LabelTac(tmpTag), IfTac(otag, a), GotoTac(ztag)>>)
          /\ onetag' = otag /\ zerotag' = ztag
          /\ \/ otag = r /\ ztag = m /\ tmpTag = l
             \/ otag = l /\ ztag = r /\ tmpTag = m
  BY <1>2, <1>5 DEF Logical
<1>9. PICK list : list = <<IfTac(l, a), GotoTac(m), LabelTac(tmpTag), IfTac(otag, a), GotoTac(ztag)>>
  OBVIOUS
<1>10. /\ IsSequence(list) /\ Len(list) = 5 /\ list[1] = IfTac(l, a) /\ list[2] = GotoTac(m)
       /\ list[3] = LabelTac(tmpTag) /\ list[4] = IfTac(otag, a) /\ list[5] = GotoTac(ztag)
  BY <1>9, FiveElements
<1>11. \A k \in 1..5 : k = 1 \/ k = 2 \/ k = 3 \/ k = 4 \/ k = 5
  OBVIOUS
<1>12. PICK put : put = {tmpTag}
  OBVIOUS
<1>13. {otag, ztag, tmpTag} \subseteq {l, m, r} /\ otag # ztag /\ otag # tmpTag /\ ztag # tmpTag
  BY <1>6, <1>8
<1>14. \A k \in 1..Len(list) : /\ Shaped(list[k]) /\ list[k].title \in {"IF", "GOTO", "LABEL"}
                               /\ list[k].target \in LabelTags'
                               /\ list[k].title = "LABEL" => list[k].target \in put
  BY <1>6, <1>10, <1>11, <1>12, <1>13, LabelInstructions
<1>15. \A j, k \in 1..Len(list) : list[j].title = "LABEL" /\ list[k].title = "LABEL" => j = k
  <2>1. list[1].title # "LABEL" /\ list[2].title # "LABEL" /\ list[4].title # "LABEL" /\ list[5].title # "LABEL"
    BY <1>10, LabelInstructions
  <2> QED
    BY <1>10, <1>11, <2>1
<1>16. PICK tasks, task : tasks = <<>> /\ task = Do("Exp", NULL)
  OBVIOUS
<1>17. Carry(tasks, task) /\ Loops(task)' /\ \A x : ~Holds(task, x)
  <2>1. task.do = "Exp"
    BY <1>16 DEF Do
  <2> QED
    BY <1>16, <2>1, FreeNone, CarryFree DEF Loops, Holds
<1>18. ({onetag, zerotag, endTag} \subseteq LabelTags \cup {NULL} /\ isEndTagDef \in {0, 1})'
  <2>1. endTag' \in LabelTags' \cup {NULL} /\ isEndTagDef' \in {0, 1}
    BY <1>1, <1>4, TagsGrow DEF TInv
  <2> QED
    BY <1>6, <1>8, <1>13, <2>1
<1>19. isEndTagDef' = 1 => /\ Available(endTag') /\ endTag' \in LabelTags' /\ endTag' \notin put
                           /\ endTag' # otag /\ endTag' # ztag
  <2>1. isEndTagDef = 1 => /\ Available(endTag) /\ endTag \in LabelTags
                           /\ endTag # l /\ endTag # m /\ endTag # r
    BY <1>7 DEF TInv, LInv, Waiting, Available, Mine
  <2> QED
    BY <1>1, <1>4, <1>12, <1>13, <2>1, TagsGrow
<1>20. Available(otag) /\ Available(ztag) /\ \A x \in put : Available(x)
  BY <1>7, <1>12, <1>13 DEF Mine
<1>21. Judged' => /\ onetag' # zerotag'
                  /\ isEndTagDef' = 1 => endTag' # onetag' /\ endTag' # zerotag'
                  /\ \A x \in {onetag', zerotag'} :
                        Available(x) /\ x \in LabelTags' /\ x \notin put /\ ~Holds(task, x)
  BY <1>6, <1>8, <1>12, <1>13, <1>17, <1>19, <1>20
<1>22. isEndTagDef' = 1 => /\ Available(endTag') /\ endTag' \in LabelTags' /\ endTag' \notin put
                           /\ ~Holds(task, endTag')
  BY <1>17, <1>19
<1>23. UNCHANGED hashmap /\ Continue(tasks) /\ Emit(list)
  BY <1>1, <1>8, <1>9, <1>16
<1>24. \A x : Holds(task, x) => Available(x) /\ x \in LabelTags' /\ x \notin put
  BY <1>17
<1> QED
  BY <1>1, <1>4, <1>10, <1>14, <1>15, <1>17, <1>18, <1>20, <1>21, <1>22, <1>23, <1>24, PlacesSome

(* What a condition without a tag has left behind.                         *)
LEMMA ConditionJudged ==
    ASSUME OperandsFit, Doing({"IF", "WHILE"}), vals[1] = NULL
    PROVE  Judged
BY DEF OperandsFit, Judged

LEMMA LabelBelow ==
    ASSUME CountersOK', NEW n \in Nat, n < labelCnt'
    PROVE  generateLabel(n) \in LabelTags'
BY NewNumbers

LEMMA IfCode ==
    ASSUME SInv, TInv, OperandsFit, If
    PROVE  TInv'
<1>1. agenda # <<>> /\ This.do = "IF" /\ UNCHANGED <<vCnt, tCnt>> /\ UNCHANGED Tags /\ UNCHANGED hashmap
  BY DEF If, Task, Doing
<1>2. PICK n, cond, l, task, tasks :
          /\ n = labelCnt /\ cond = vals[1] /\ l = FalseTag(cond, generateLabel(n))
          /\ tasks = Scoped(This.it.then) \o <<task>> /\ Continue(tasks)
          /\ task.do \in {"EndThen", "ELSE"} /\ task.it.falseTag = l
  <2>1. PICK l, task : /\ l = FalseTag(vals[1], generateLabel(labelCnt))
                       /\ task = Do(IF This.it.else = <<>> THEN "EndThen" ELSE "ELSE",
                                    [falseTag |-> l, else |-> This.it.else])
    OBVIOUS
  <2>2. task.do \in {"EndThen", "ELSE"} /\ task.it.falseTag = l
    BY <2>1 DEF Do
  <2>3. Continue(Scoped(This.it.then) \o <<task>>)
    BY <2>1 DEF If
  <2> QED
    BY <2>1, <2>2, <2>3
<1>3. n \in Nat /\ CountersOK
  BY <1>2 DEF TInv, CountersOK
<1>4. Carry(tasks, task)
  BY <1>2, FreeScoped, CarryOne, CarryAfter
<1>5. Loops(task)' /\ \A x : Holds(task, x) => x = l
  BY <1>2 DEF Loops, Holds
<1>6. CASE cond # NULL
  <2>1. PICK t : t = IfTac(l, Negated(cond))
    OBVIOUS
  <2>2. Emit(<<t>>) /\ labelCnt' = n + 2 /\ l = generateLabel(n)
    BY <1>2, <1>6, <2>1 DEF If, NewLabels, FalseTag
  <2>3. n + 2 \in Nat /\ n < n + 2 /\ n + 2 >= n /\ n >= n
    BY <1>3
  <2>4. Grow /\ CountersOK'
    BY <1>1, <1>2, <1>3, <2>2, <2>3 DEF Grow, CountersOK
  <2>5. l \in LabelTags' /\ Mine(l)
    <3>1. l \in LabelTags'
      BY <1>3, <2>2, <2>3, <2>4, LabelBelow
    <3> QED
      BY <1>1, <1>2, <1>3, <2>2, <2>3, <3>1, MineLemma
  <2>6. Shaped(t) /\ t.title = "IF" /\ t.target = l
    BY <2>1, LabelInstructions
  <2> QED
    BY <1>1, <1>2, <1>4, <1>5, <2>2, <2>4, <2>5, <2>6, PlacesOne
<1>7. CASE cond = NULL
  <2>1. PICK t : t = LabelTac(onetag)
    OBVIOUS
  <2>2. Emit(<<t>>) /\ labelCnt' = labelCnt /\ l = zerotag
    BY <1>2, <1>7, <2>1 DEF If, FalseTag
  <2>3. Grow
    BY <1>1, <2>2, GrowSame DEF Counters
  <2>4. Judged
    BY <1>1, <1>2, <1>7, ConditionJudged DEF Doing
  <2>5. Mine(onetag) /\ Mine(l) /\ onetag \in LabelTags' /\ l \in LabelTags' /\ l # onetag
    BY <1>1, <2>2, <2>3, <2>4, MineLemma, TagsGrow
  <2>6. Shaped(t) /\ t.title = "LABEL" /\ t.target = onetag
    BY <2>1, LabelInstructions
  <2> QED
    BY <1>1, <1>2, <1>4, <1>5, <2>2, <2>3, <2>5, <2>6, PlacesOne
<1> QED
  BY <1>6, <1>7

LEMMA EndThenCode ==
    ASSUME SInv, TInv, EndThen
    PROVE  TInv'
<1>1. /\ agenda # <<>> /\ This.do = "EndThen" /\ UNCHANGED Counters /\ UNCHANGED Tags /\ UNCHANGED hashmap
      /\ Continue(<<>>)
  BY DEF EndThen, Task, Doing
<1>2. PICK l, t : l = This.it.falseTag /\ t = LabelTac(l)
  OBVIOUS
<1>3. Emit(<<t>>) /\ Shaped(t) /\ t.title = "LABEL" /\ t.target = l
  BY <1>2, LabelInstructions DEF EndThen
<1>4. Grow
  BY <1>1, GrowSame
<1>5. Mine(l) /\ l \in LabelTags'
  <2>1. Holds(This, l)
    BY <1>1, <1>2 DEF Holds
  <2> QED
    BY <1>1, <1>4, <2>1, MineLemma, TagsGrow
<1>6. PICK tasks, task : tasks = <<>> /\ task = Do("Exp", NULL)
  OBVIOUS
<1>7. Carry(tasks, task) /\ Loops(task)' /\ \A x : ~Holds(task, x)
  BY <1>6, FreeNone, CarryFree DEF Loops, Holds, Do
<1> QED
  BY <1>1, <1>3, <1>4, <1>5, <1>6, <1>7, PlacesOne

(* The labels of a while go to the task that goes on after its condition.  *)
LEMMA WhileCode ==
    ASSUME SInv, TInv, While
    PROVE  TInv'
<1>1. agenda # <<>> /\ UNCHANGED <<vCnt, tCnt>> /\ UNCHANGED Tags /\ UNCHANGED hashmap /\ labelCnt' = labelCnt + 3
  BY DEF While, Parsing, Task, Doing, NewLabels
<1>2. PICK n, l, it : /\ n = labelCnt /\ l = generateLabel(n) /\ it.first = l
                      /\ it.true = generateLabel(n + 1) /\ it.false = generateLabel(n + 2)
                      /\ Emit(<<LabelTac(l)>>)
                      /\ Continue(<<Do("Exp", This.it.exp), Do("WHILE", it)>>)
  BY DEF While
<1>3. n \in Nat /\ CountersOK
  BY <1>2 DEF TInv, CountersOK
<1>4. /\ labelCnt' = n + 3 /\ n + 3 \in Nat /\ n + 3 >= n
      /\ n \in Nat /\ n < n + 3 /\ n + 1 \in Nat /\ n + 1 < n + 3 /\ n + 2 \in Nat /\ n + 2 < n + 3
      /\ n >= n /\ n + 1 >= n /\ n + 2 >= n /\ n # n + 1 /\ n # n + 2 /\ n + 1 # n + 2
  BY <1>1, <1>2, <1>3
<1>5. Grow /\ CountersOK'
  BY <1>1, <1>2, <1>3, <1>4 DEF Grow, CountersOK
<1>6. {l, it.true, it.false} \subseteq LabelTags'
  BY <1>2, <1>4, <1>5, LabelBelow
<1>7. l # it.true /\ l # it.false /\ it.true # it.false
  BY <1>2, <1>4, LabelsDiffer
<1>8. Mine(l) /\ Mine(it.true) /\ Mine(it.false)
  BY <1>1, <1>2, <1>4, MineLemma
<1>9. PICK task, tasks : task = Do("WHILE", it) /\ tasks = <<Do("Exp", This.it.exp)>> \o <<task>>
  OBVIOUS
<1>10. Continue(tasks) /\ Carry(tasks, task)
  <2>1. Free(<<Do("Exp", This.it.exp)>>)
    BY FreeOne DEF Holders
  <2>2. Carry(tasks, task)
    BY <1>9, <2>1, CarryOne, CarryAfter
  <2> QED
    BY <1>2, <1>9, <2>2, PairLemma
<1>11. task.do = "WHILE" /\ task.it = it
  BY <1>9 DEF Do
<1>12. Loops(task)' /\ \A x : Holds(task, x) => x \in {it.true, it.false}
  BY <1>2, <1>6, <1>7, <1>11 DEF Loops, Holds
<1>13. PICK t : t = LabelTac(l)
  OBVIOUS
<1>14. Emit(<<t>>) /\ Shaped(t) /\ t.title = "LABEL" /\ t.target = l
  BY <1>2, <1>13, LabelInstructions
<1> QED
  BY <1>1, <1>5, <1>6, <1>7, <1>8, <1>10, <1>12, <1>14, PlacesOne

LEMMA WhileBodyCode ==
    ASSUME SInv, TInv, OperandsFit, WhileBody
    PROVE  TInv'
<1>1. agenda # <<>> /\ This.do = "WHILE" /\ UNCHANGED Counters /\ UNCHANGED Tags /\ UNCHANGED hashmap
  BY DEF WhileBody, Task, Doing
<1>2. PICK cond, l, m, it :
          /\ cond = vals[1] /\ l = (IF cond # NULL THEN This.it.true ELSE onetag)
          /\ m = FalseTag(cond, This.it.false)
          /\ it.first = This.it.first /\ it.false = m
          /\ Emit(IF cond # NULL THEN <<IfTac(l, cond), GotoTac(m), LabelTac(l)>> ELSE <<LabelTac(l)>>)
          /\ Continue(<<Do("pushScope", NULL), Do("Stmt", This.it.body), Do("EndWhile", it), Do("popScope", NULL)>>)
  BY DEF WhileBody
<1>3. Grow
  BY <1>1, GrowSame
<1>4. PICK task : task = Do("EndWhile", it)
  OBVIOUS
<1>5. task.do = "EndWhile" /\ task.it = it
  BY <1>4 DEF Do
<1>6. PICK s, t, u, tasks : /\ s = <<Do("pushScope", NULL), Do("Stmt", This.it.body)>>
                            /\ t = <<task>> /\ u = <<Do("popScope", NULL)>> /\ tasks = s \o (t \o u)
  OBVIOUS
<1>7. Carry(tasks, task)
  <2>1. Free(s) /\ Free(u) /\ Carry(t, task)
    BY <1>6, FreeOne, FreeTwo, CarryOne DEF Holders
  <2>2. Carry(t \o u, task)
    BY <2>1, CarryBefore
  <2> QED
    BY <1>6, <2>1, <2>2, CarryAfter
<1>8. Continue(tasks)
  <2>1. <<Do("pushScope", NULL), Do("Stmt", This.it.body), task, Do("popScope", NULL)>>
          = <<Do("pushScope", NULL), Do("Stmt", This.it.body)>> \o (<<task>> \o <<Do("popScope", NULL)>>)
    OBVIOUS
  <2> QED
    BY <1>2, <1>4, <1>6, <2>1
<1>9. Loops(This)
  BY <1>1, RestLemma DEF SInv, Fit, TInv, LInv, This
<1>10. Loops(task)' /\ \A x : Holds(task, x) => x = m
  BY <1>1, <1>2, <1>3, <1>5, <1>9, TagsGrow DEF Loops, Holds
<1>11. Mine(l) /\ Mine(m) /\ l \in LabelTags' /\ m \in LabelTags' /\ l # m
  <2>1. CASE cond # NULL
    <3>1. l = This.it.true /\ m = This.it.false
      BY <1>2, <2>1 DEF FalseTag
    <3>2. Holds(This, l) /\ Holds(This, m) /\ l # m
      BY <1>1, <1>9, <3>1 DEF Holds, Loops
    <3> QED
      BY <1>1, <1>3, <3>2, MineLemma, TagsGrow
  <2>2. CASE cond = NULL
    <3>1. l = onetag /\ m = zerotag /\ Judged
      BY <1>1, <1>2, <2>2, ConditionJudged DEF FalseTag, Doing
    <3> QED
      BY <1>1, <1>3, <3>1, MineLemma, TagsGrow
  <2> QED
    BY <2>1, <2>2
<1>12. CASE cond # NULL
  <2>1. PICK list : list = <<IfTac(l, cond), GotoTac(m), LabelTac(l)>>
    OBVIOUS
  <2>2. /\ IsSequence(list) /\ Len(list) = 3
        /\ list[1] = IfTac(l, cond) /\ list[2] = GotoTac(m) /\ list[3] = LabelTac(l)
    BY <2>1, ThreeElements
  <2>3. \A k \in 1..3 : k = 1 \/ k = 2 \/ k = 3
    OBVIOUS
  <2>4. PICK put : put = {l}
    OBVIOUS
  <2>5. \A k \in 1..Len(list) : /\ Shaped(list[k]) /\ list[k].title \in {"IF", "GOTO", "LABEL"}
                                /\ list[k].target \in LabelTags'
                                /\ list[k].title = "LABEL" => list[k].target \in put
    BY <1>11, <2>2, <2>3, <2>4, LabelInstructions
  <2>6. \A j, k \in 1..Len(list) : list[j].title = "LABEL" /\ list[k].title = "LABEL" => j = k
    <3>1. list[1].title # "LABEL" /\ list[2].title # "LABEL"
      BY <2>2, LabelInstructions
    <3> QED
      BY <2>2, <2>3, <3>1
  <2>7. Emit(list)
    BY <1>2, <1>12, <2>1
  <2>8. ~Judged'
    <3>1. PICK n \in Nat \ {0} : n = 3
      OBVIOUS
    <3>2. curTac' = list[3]
      BY <2>2, <2>7, <3>1, LastPut
    <3> QED
      BY <2>2, <3>2, LabelInstructions DEF Judged
  <2>9. (\A x \in put : Mine(x)) /\ \A x : Holds(task, x) => Mine(x) /\ x \in LabelTags' /\ x \notin put
    BY <1>10, <1>11, <2>4
  <2> QED
    BY <1>1, <1>3, <1>7, <1>8, <1>10, <2>2, <2>5, <2>6, <2>7, <2>8, <2>9, PlacesMine
<1>13. CASE cond = NULL
  <2>1. PICK x : x = LabelTac(l)
    OBVIOUS
  <2>2. Emit(<<x>>) /\ Shaped(x) /\ x.title = "LABEL" /\ x.target = l
    BY <1>2, <1>13, <2>1, LabelInstructions
  <2> QED
    BY <1>1, <1>3, <1>7, <1>8, <1>10, <1>11, <2>2, PlacesOne
<1> QED
  BY <1>12, <1>13

LEMMA EndWhileCode ==
    ASSUME SInv, TInv, EndWhile
    PROVE  TInv'
<1>1. /\ agenda # <<>> /\ This.do = "EndWhile" /\ UNCHANGED Counters /\ UNCHANGED Tags /\ UNCHANGED hashmap
      /\ Continue(<<>>)
  BY DEF EndWhile, Task, Doing
<1>2. PICK l, m, list : l = This.it.first /\ m = This.it.false /\ list = <<GotoTac(l), LabelTac(m)>>
  OBVIOUS
<1>3. Grow
  BY <1>1, GrowSame
<1>4. Loops(This)
  BY <1>1, RestLemma DEF SInv, Fit, TInv, LInv, This
<1>5. l \in LabelTags' /\ m \in LabelTags' /\ Mine(m)
  <2>1. Holds(This, m) /\ l \in LabelTags
    BY <1>1, <1>2, <1>4 DEF Holds, Loops
  <2> QED
    BY <1>1, <1>3, <2>1, MineLemma, TagsGrow
<1>6. Emit(list) /\ IsSequence(list) /\ Len(list) = 2 /\ list[1] = GotoTac(l) /\ list[2] = LabelTac(m)
  BY <1>2, TwoElements DEF EndWhile
<1>7. \A k \in 1..2 : k = 1 \/ k = 2
  OBVIOUS
<1>8. PICK put : put = {m}
  OBVIOUS
<1>9. \A k \in 1..Len(list) : /\ Shaped(list[k]) /\ list[k].title \in {"IF", "GOTO", "LABEL"}
                              /\ list[k].target \in LabelTags'
                              /\ list[k].title = "LABEL" => list[k].target \in put
  BY <1>5, <1>6, <1>7, <1>8, LabelInstructions
<1>10. \A j, k \in 1..Len(list) : list[j].title = "LABEL" /\ list[k].title = "LABEL" => j = k
  <2>1. list[1].title # "LABEL"
    BY <1>6, LabelInstructions
  <2> QED
    BY <1>6, <1>7, <2>1
<1>11. ~Judged'
  <2>1. PICK n \in Nat \ {0} : n = 2
    OBVIOUS
  <2>2. curTac' = list[2]
    BY <1>6, <2>1, LastPut
  <2> QED
    BY <1>6, <2>2, LabelInstructions DEF Judged
<1>12. PICK tasks, task : tasks = <<>> /\ task = Do("Exp", NULL)
  OBVIOUS
<1>13. Carry(tasks, task) /\ Loops(task)' /\ \A x : ~Holds(task, x)
  BY <1>12, FreeNone, CarryFree DEF Loops, Holds, Do
<1>14. (\A x \in put : Mine(x)) /\ \A x : Holds(task, x) => Mine(x) /\ x \in LabelTags' /\ x \notin put
  BY <1>5, <1>8, <1>13
<1> QED
  BY <1>1, <1>3, <1>6, <1>9, <1>10, <1>11, <1>12, <1>13, <1>14, PlacesMine

(* The label of the condition is placed; the one for the end is new, or it *)
(* goes on waiting.                                                        *)
LEMMA ElseCode ==
    ASSUME SInv, TInv, Else
    PROVE  TInv'
<1>1. /\ agenda # <<>> /\ This.do = "ELSE" /\ UNCHANGED <<vCnt, tCnt, onetag, zerotag>> /\ UNCHANGED hashmap
  BY DEF Else, Task, Doing
<1>2. CountersOK /\ isEndTagDef \in {0, 1}
  BY DEF TInv
<1>3. PICK n \in Nat : n = labelCnt
  BY DEF TInv, CountersOK
<1>4. PICK end, m : end = (IF isEndTagDef = 0 THEN generateLabel(n) ELSE endTag) /\ m = This.it.falseTag
  OBVIOUS
<1>5. labelCnt' = (IF isEndTagDef = 0 THEN n + 1 ELSE n)
  BY <1>3 DEF Else
<1>6. n + 1 \in Nat /\ n < n + 1 /\ n + 1 >= n /\ n >= n
  OBVIOUS
<1>7. Grow /\ CountersOK'
  BY <1>1, <1>2, <1>3, <1>5, <1>6 DEF Grow, CountersOK
<1>8. endTag' = end /\ isEndTagDef' = 1
  BY <1>2, <1>3, <1>4 DEF Else
<1>9. m \in LabelTags' /\ Mine(m)
  <2>1. Holds(This, m)
    BY <1>1, <1>4 DEF Holds
  <2> QED
    BY <1>1, <1>7, <2>1, MineLemma, TagsGrow
<1>10. end \in LabelTags' /\ Available(end) /\ end # m
  <2>1. CASE isEndTagDef = 0
    <3>1. end = generateLabel(n) /\ labelCnt' = n + 1
      BY <1>4, <1>5, <2>1
    <3>2. end \in LabelTags' /\ Available(end)
      BY <1>3, <1>6, <1>7, <3>1, LabelBelow, NewLabel
    <3>3. end \notin LabelTags /\ m \in LabelTags
      <4>1. Holds(This, m)
        BY <1>1, <1>4 DEF Holds
      <4> QED
        BY <1>1, <1>2, <1>3, <1>6, <3>1, <4>1, NewTag, MineLemma
    <3> QED
      BY <3>2, <3>3
  <2>2. CASE isEndTagDef = 1
    <3>1. end = endTag /\ end \in LabelTags
      BY <1>4, <2>2 DEF TInv, LInv, Waiting
    <3> QED
      BY <1>7, <1>9, <2>2, <3>1, TagsGrow DEF Available, Mine
  <2> QED
    BY <1>2, <2>1, <2>2
<1>11. PICK list : Emit(list) /\ (list = <<LabelTac(m)>> \/ list = <<GotoTac(end), LabelTac(m)>>)
  <2>1. Emit(UnlessReturned(<<GotoTac(end)>>) \o <<LabelTac(m)>>)
    BY <1>3, <1>4 DEF Else
  <2>2. UnlessReturned(<<GotoTac(end)>>) = <<>> \/ UnlessReturned(<<GotoTac(end)>>) = <<GotoTac(end)>>
    BY DEF UnlessReturned
  <2>3. <<>> \o <<LabelTac(m)>> = <<LabelTac(m)>>
    BY OneElement, NothingBefore
  <2> QED
    BY <2>1, <2>2, <2>3, PairLemma
<1>12. PICK put : put = {m}
  OBVIOUS
<1>13. PICK c \in Nat \ {0} :
          /\ IsSequence(list) /\ Len(list) = c /\ list[c] = LabelTac(m)
          /\ \A k \in 1..c : k # c => list[k] = GotoTac(end)
  <2>1. CASE list = <<LabelTac(m)>>
    <3>1. IsSequence(list) /\ Len(list) = 1 /\ list[1] = LabelTac(m)
      BY <2>1, OneElement
    <3> QED
      BY <3>1
  <2>2. CASE list = <<GotoTac(end), LabelTac(m)>>
    <3>1. IsSequence(list) /\ Len(list) = 2 /\ list[1] = GotoTac(end) /\ list[2] = LabelTac(m)
      BY <2>2, TwoElements
    <3>2. 2 \in Nat \ {0} /\ \A k \in 1..2 : k # 2 => k = 1
      OBVIOUS
    <3> QED
      BY <3>1, <3>2
  <2> QED
    BY <1>11, <2>1, <2>2
<1>14. \A k \in 1..Len(list) : /\ Shaped(list[k]) /\ list[k].title \in {"IF", "GOTO", "LABEL"}
                               /\ list[k].target \in LabelTags'
                               /\ list[k].title = "LABEL" => list[k].target \in put
  BY <1>9, <1>10, <1>12, <1>13, LabelInstructions
<1>15. \A j, k \in 1..Len(list) : list[j].title = "LABEL" /\ list[k].title = "LABEL" => j = k
  <2>1. \A k \in 1..Len(list) : list[k].title = "LABEL" => k = c
    BY <1>13, LabelInstructions
  <2> QED
    BY <2>1
<1>16. ~Judged'
  <2>1. curTac' = list[c]
    BY <1>11, <1>13, LastPut
  <2> QED
    BY <1>13, <2>1, LabelInstructions DEF Judged
<1>17. PICK tasks, task : tasks = Scoped(This.it.else[1]) \o <<Do("EndIf", NULL)>> /\ task = Do("Exp", NULL)
  OBVIOUS
<1>18. Carry(tasks, task) /\ Continue(tasks)
  <2>1. Free(Scoped(This.it.else[1])) /\ Free(<<Do("EndIf", NULL)>>)
    BY FreeScoped, FreeOne DEF Holders
  <2>2. Free(tasks)
    BY <1>17, <2>1, FreeConcat
  <2> QED
    BY <1>17, <2>2, CarryFree DEF Else
<1>19. Loops(task)' /\ \A x : ~Holds(task, x)
  BY <1>17 DEF Loops, Holds, Do
<1>20. ({onetag, zerotag, endTag} \subseteq LabelTags \cup {NULL} /\ isEndTagDef \in {0, 1})'
  <2>1. {onetag', zerotag'} \subseteq LabelTags' \cup {NULL}
    BY <1>1, <1>7, TagsGrow DEF TInv
  <2> QED
    BY <1>8, <1>10, <2>1
<1>21. isEndTagDef' = 1 => /\ Available(endTag') /\ endTag' \in LabelTags' /\ endTag' \notin put
                           /\ ~Holds(task, endTag')
  BY <1>8, <1>10, <1>12, <1>19
<1>22. Judged' => /\ onetag' # zerotag'
                  /\ isEndTagDef' = 1 => endTag' # onetag' /\ endTag' # zerotag'
                  /\ \A l \in {onetag', zerotag'} :
                        Available(l) /\ l \in LabelTags' /\ l \notin put /\ ~Holds(task, l)
  BY <1>16
<1>23. (\A x \in put : Available(x)) /\ \A x : Holds(task, x) => Available(x) /\ x \in LabelTags' /\ x \notin put
  BY <1>9, <1>12, <1>19 DEF Mine
<1>24. Grow /\ UNCHANGED hashmap /\ agenda # <<>> /\ Loops(task)' /\ IsSequence(list) /\ Emit(list)
  BY <1>1, <1>7, <1>11, <1>13, <1>19
<1> QED
  BY <1>14, <1>15, <1>18, <1>20, <1>21, <1>22, <1>23, <1>24, PlacesSome

(* endTag is placed and is no longer to be: the next if-else makes another.*)
LEMMA EndIfCode ==
    ASSUME SInv, TInv, EndIf
    PROVE  TInv'
<1>1. /\ agenda # <<>> /\ UNCHANGED Counters /\ UNCHANGED hashmap /\ UNCHANGED <<onetag, zerotag, endTag>>
      /\ Continue(<<>>)
  BY DEF EndIf, Task, Doing
<1>2. Grow
  BY <1>1, GrowSame
<1>3. isEndTagDef \in {0, 1}
  BY DEF TInv
<1>4. PICK tasks, task : tasks = <<>> /\ task = Do("Exp", NULL)
  OBVIOUS
<1>5. Carry(tasks, task) /\ Loops(task)' /\ \A x : ~Holds(task, x)
  BY <1>4, FreeNone, CarryFree DEF Loops, Holds, Do
<1>6. CASE isEndTagDef = 0
  <2>1. UNCHANGED tacs /\ UNCHANGED Tags
    BY <1>1, <1>6 DEF EndIf, Tags
  <2> QED
    BY <1>1, <2>1, FreeNone, MakesNone DEF Free
<1>7. CASE isEndTagDef = 1
  <2>1. isEndTagDef' = 0 /\ Emit(UnlessReturned(<<LabelTac(endTag)>>))
    BY <1>7 DEF EndIf
  <2>2. PICK l : l = endTag
    OBVIOUS
  <2>3. Available(l) /\ l \in LabelTags'
    BY <1>2, <1>7, <2>2, TagsGrow DEF TInv, LInv, Waiting, Available
  <2>4. PICK put : put = {l}
    OBVIOUS
  <2>5. ({onetag, zerotag, endTag} \subseteq LabelTags \cup {NULL} /\ isEndTagDef \in {0, 1})'
    <3>1. {onetag', zerotag', endTag'} \subseteq LabelTags' \cup {NULL}
      BY <1>1, <1>2, TagsGrow DEF TInv
    <3> QED
      BY <2>1, <3>1
  <2>6. isEndTagDef' # 1
    BY <2>1
  <2>7. CASE curTac.title = "RETURN"
    <3>1. PICK list : list = <<>>
      OBVIOUS
    <3>2. IsSequence(list) /\ Len(list) = 0 /\ Emit(list)
      BY <2>1, <2>7, <3>1, BalancedNone DEF UnlessReturned
    <3>3. tacs' = tacs
      BY <3>1, <3>2, NothingAfter DEF Emit, TInv, ListOK
    <3>4. ~Judged'
      BY <2>7, <3>3 DEF Judged, curTac
    <3>5. \A k \in 1..Len(list) : FALSE
      BY <3>2
    <3> QED
      BY <1>1, <1>2, <1>4, <1>5, <2>3, <2>4, <2>5, <2>6, <3>2, <3>4, <3>5, PlacesSome
  <2>8. CASE curTac.title # "RETURN"
    <3>1. PICK list : list = <<LabelTac(l)>>
      OBVIOUS
    <3>2. IsSequence(list) /\ Len(list) = 1 /\ list[1] = LabelTac(l) /\ Emit(list)
      BY <2>1, <2>2, <2>8, <3>1, OneElement DEF UnlessReturned
    <3>3. \A k \in 1..Len(list) : k = 1
      BY <3>2
    <3>4. ~Judged'
      <4>1. PICK n \in Nat \ {0} : n = 1
        OBVIOUS
      <4>2. curTac' = list[1]
        BY <3>2, <4>1, LastPut
      <4> QED
        BY <3>2, <4>2, LabelInstructions DEF Judged
    <3>5. \A k \in 1..Len(list) : /\ Shaped(list[k]) /\ list[k].title \in {"IF", "GOTO", "LABEL"}
                                  /\ list[k].target \in LabelTags'
                                  /\ list[k].title = "LABEL" => list[k].target \in put
      BY <2>3, <2>4, <3>2, <3>3, LabelInstructions
    <3>6. \A j, k \in 1..Len(list) : list[j].title = "LABEL" /\ list[k].title = "LABEL" => j = k
      BY <3>3
    <3>7. \A x \in put : Available(x)
      BY <2>3, <2>4
    <3> QED
      BY <1>1, <1>2, <1>4, <1>5, <2>5, <2>6, <3>2, <3>4, <3>5, <3>6, <3>7, PlacesSome
  <2> QED
    BY <2>7, <2>8
<1> QED
  BY <1>3, <1>6, <1>7

-----------------------------------------------------------------------------
LEMMA InitTInv == TransInit => TInv
<1> SUFFICES ASSUME TransInit PROVE TInv
  OBVIOUS
<1>1. CountersOK /\ {onetag, zerotag, endTag} \subseteq LabelTags \cup {NULL} /\ isEndTagDef \in {0, 1}
  BY DEF TransInit, CountersOK
<1>2. DOMAIN hashmap = {} /\ tacs = <<>> /\ isEndTagDef = 0
  BY DEF TransInit
<1>3. IsSequence(tacs) /\ Len(tacs) = 0
  BY <1>2, BalancedNone
<1>4. ListOK(tacs)
  BY <1>3 DEF ListOK
<1>5. HashOK
  BY <1>2 DEF HashOK
<1>6. \A k \in 1..Len(agenda) : agenda[k].do = "ExtDef"
  <2>1. Len(source) \in Nat /\ Len(agenda) = Len(source) /\ \A k \in 1..Len(source) : agenda[k].do = "ExtDef"
    <3>1. Len(source) \in Nat
      BY TranslateAssumption DEF TransInit
    <3>2. agenda = [k \in 1..Len(source) |-> [do |-> "ExtDef", it |-> source[k]]]
      BY DEF TransInit, Each
    <3>3. agenda = [k \in 1..Len(source) |-> agenda[k]] /\ \A k \in 1..Len(source) : agenda[k].do = "ExtDef"
      BY <3>2
    <3> QED
      BY <3>1, <3>3, FunctionLemma
  <2> QED
    BY <2>1
<1>7. LInv
  BY <1>2, <1>6 DEF LInv, Loops, Holds, Judged
<1> QED
  BY <1>1, <1>4, <1>5, <1>7 DEF TInv

LEMMA StepTInv == SInv /\ TInv /\ OperandsFit /\ [Parse]_tvars => TInv'
<1> SUFFICES ASSUME SInv, TInv, OperandsFit, [Parse]_tvars PROVE TInv'
  OBVIOUS
<1>1. CASE EnterScope \/ LeaveScope \/ ExtDecList \/ FunBody \/ Leaf \/ Operands \/ Relational \/ Not
             \/ CompSt \/ Evaluate \/ Expression
  BY <1>1, QuietSteps
<1>2. CASE ExtDef \/ ParamDec \/ Dec \/ InitVar \/ Return
  BY <1>2, ExtDefCode, DecCode, InitVarCode, ReturnCode
<1>3. CASE Assignment \/ Arithmetic \/ Minus \/ Index \/ Call
  BY <1>3, AssignmentCode, ArithmeticCode, MinusCode, IndexCode, CallCode
<1>4. CASE Logical \/ If \/ EndThen \/ Else \/ EndIf
  BY <1>4, LogicalCode, IfCode, EndThenCode, ElseCode, EndIfCode
<1>5. CASE While \/ WhileBody \/ EndWhile
  BY <1>5, WhileCode, WhileBodyCode, EndWhileCode
<1>6. CASE UNCHANGED tvars
  BY <1>6 DEF tvars, TInv, CountersOK, LabelTags, VTags, TTags, Places, IsWord, HashOK, ListOK, TacOK, Shaped,
              Clash, Computes, LInv, Loops, Holds, Waiting, Placed, Judged, curTac
<1> QED
  BY <1>1, <1>2, <1>3, <1>4, <1>5, <1>6 DEF Parse

(* Whatever the walk does with its counters and its tables, in every       *)
(* program: every label that is jumped to or placed, every variable and    *)
(* temporary that is computed, every tag that hashmap gives, has a number  *)
(* that a counter has given it.                                            *)
THEOREM TranslateTypeCorrect == TransSpec /\ []OperandsFit => []TransTypeOK
<1>1. TransInit => SInv /\ TInv
  BY InitSInv, InitTInv
<1>2. SInv /\ TInv /\ OperandsFit /\ [Parse]_tvars => (SInv /\ TInv)'
  BY StepSInv, StepTInv
<1>3. TInv => TransTypeOK
  BY TInvShows
<1> QED
  BY <1>1, <1>2, <1>3, PTL DEF TransSpec

(* No label is placed twice and no temporary computed twice, although      *)
(* endTag, onetag and zerotag hand one label from construct to construct.  *)
THEOREM NothingPlacedTwice == TransSpec /\ []OperandsFit => []PlacedOnce
<1>1. TransInit => SInv /\ TInv
  BY InitSInv, InitTInv
<1>2. SInv /\ TInv /\ OperandsFit /\ [Parse]_tvars => (SInv /\ TInv)'
  BY StepSInv, StepTInv
<1>3. TInv => PlacedOnce
  BY TInvShows
<1> QED
  BY <1>1, <1>2, <1>3, PTL DEF TransSpec

-----------------------------------------------------------------------------
(* OperandsFit of the programs that Typing describes.  What the types in   *)
(* vals are for is written as a sequence of kinds, the newest first, and   *)
(* each task takes and gives some.  A variable or an element that is to be *)
(* assigned has a kind of its own.                                         *)

Target == -3

Given(kind, task) ==
    IF task.do \in {"Exp=", "LB="} /\ task.it.e \in {"ID", "LB"} /\ kind[task.it] = 0
    THEN Target ELSE kind[task.it]

(* The code of an && or || comes last only until something else is done.   *)
Drop(k) == IF k = Judgement THEN Nothing ELSE k
Push(k, a) == [i \in 1..Len(a) + 1 |-> IF i = 1 THEN k ELSE Drop(a[i - 1])]
Cut(a, n) == [i \in 1..Len(a) - n |-> Drop(a[i + n])]

LEMMA DropTwice == \A k : Drop(Drop(k)) = Drop(k) /\ Drop(k) # Judgement
<1>1. Judgement # Nothing
  BY DEF Judgement, Nothing
<1> QED
  BY <1>1 DEF Drop

LEMMA PushLemma ==
    ASSUME NEW k, NEW a, IsSequence(a)
    PROVE  /\ IsSequence(Push(k, a)) /\ Len(Push(k, a)) = Len(a) + 1 /\ Push(k, a)[1] = k
           /\ \A i \in 1..Len(a) : Push(k, a)[i + 1] = Drop(a[i])
<1>1. PICK n \in Nat : n = Len(a)
  BY DEF IsSequence
<1>2. PICK b : b = Push(k, a)
  OBVIOUS
<1>3. b = [i \in 1..n + 1 |-> IF i = 1 THEN k ELSE Drop(a[i - 1])]
  BY <1>1, <1>2 DEF Push
<1>4. IsSequence(b) /\ Len(b) = n + 1
  <2>1. n + 1 \in Nat /\ b = [i \in 1..n + 1 |-> b[i]]
    BY <1>3
  <2> QED
    BY <2>1, FunctionLemma
<1>5. b[1] = k /\ \A i \in 1..n : b[i + 1] = Drop(a[i])
  <2>1. 1 \in 1..n + 1 /\ \A i \in 1..n : i + 1 \in 1..n + 1 /\ i + 1 # 1 /\ i + 1 - 1 = i
    OBVIOUS
  <2> QED
    BY <1>3, <2>1
<1> QED
  BY <1>1, <1>2, <1>4, <1>5

LEMMA CutLemma ==
    ASSUME NEW a, IsSequence(a), NEW n \in 0..Len(a)
    PROVE  /\ IsSequence(Cut(a, n)) /\ Len(Cut(a, n)) = Len(a) - n
           /\ \A i \in 1..Len(a) - n : Cut(a, n)[i] = Drop(a[i + n]) /\ i + n \in 1..Len(a)
           /\ \A i \in 1..Len(Cut(a, n)) : Cut(a, n)[i] # Judgement
<1>1. PICK m \in Nat : m = Len(a)
  BY DEF IsSequence
<1>2. PICK b : b = Cut(a, n)
  OBVIOUS
<1>3. m - n \in Nat /\ b = [i \in 1..m - n |-> Drop(a[i + n])]
  BY <1>1, <1>2 DEF Cut
<1>4. IsSequence(b) /\ Len(b) = m - n
  <2>1. b = [i \in 1..m - n |-> b[i]]
    BY <1>3
  <2> QED
    BY <1>3, <2>1, FunctionLemma
<1>5. \A i \in 1..m - n : b[i] = Drop(a[i + n]) /\ i + n \in 1..m /\ b[i] # Judgement
  BY <1>3, DropTwice
<1> QED
  BY <1>1, <1>2, <1>4, <1>5

LEMMA SameSequence ==
    ASSUME NEW a, IsSequence(a), NEW b, IsSequence(b), Len(a) = Len(b),
           \A i \in 1..Len(a) : a[i] = b[i]
    PROVE  a = b
BY DEF IsSequence

(* Dropping again changes nothing, and what was pushed can be taken off.   *)
LEMMA CutPush ==
    ASSUME NEW a, IsSequence(a), NEW k
    PROVE  /\ Push(k, Cut(a, 0)) = Push(k, a)
           /\ Cut(Cut(a, 0), 0) = Cut(a, 0)
           /\ Cut(Push(k, a), 1) = Cut(a, 0)
<1>1. PICK n \in Nat : n = Len(a)
  BY DEF IsSequence
<1>2. PICK c : c = Cut(a, 0)
  OBVIOUS
<1>3. 0 \in 0..Len(a)
  BY <1>1
<1>4. /\ IsSequence(c) /\ Len(c) = n /\ \A i \in 1..n : c[i] = Drop(a[i])
  BY <1>1, <1>2, <1>3, CutLemma
<1>5. PICK p : p = Push(k, a)
  OBVIOUS
<1>6. IsSequence(p) /\ Len(p) = n + 1 /\ p[1] = k /\ \A i \in 1..n : p[i + 1] = Drop(a[i])
  BY <1>1, <1>5, PushLemma
<1>7. Push(k, c) = p
  <2>1. PICK q : q = Push(k, c)
    OBVIOUS
  <2>2. IsSequence(q) /\ Len(q) = n + 1 /\ q[1] = k /\ \A i \in 1..n : q[i + 1] = Drop(c[i])
    BY <1>4, <2>1, PushLemma
  <2>3. ASSUME NEW i \in 1..n PROVE q[i + 1] = p[i + 1]
    <3>1. q[i + 1] = Drop(c[i]) /\ c[i] = Drop(a[i]) /\ p[i + 1] = Drop(a[i])
      BY <1>4, <1>6, <2>2
    <3>2. Drop(Drop(a[i])) = Drop(a[i])
      BY DropTwice
    <3> QED
      BY <3>1, <3>2
  <2>4. \A i \in 1..n + 1 : i = 1 \/ (i - 1 \in 1..n /\ i - 1 + 1 = i)
    OBVIOUS
  <2>5. \A i \in 1..n + 1 : q[i] = p[i]
    BY <1>6, <2>2, <2>3, <2>4
  <2> QED
    BY <1>6, <2>1, <2>2, <2>5, SameSequence
<1>8. Cut(c, 0) = c
  <2>1. PICK q : q = Cut(c, 0)
    OBVIOUS
  <2>2. 0 \in 0..Len(c)
    BY <1>4
  <2>3. IsSequence(q) /\ Len(q) = n /\ \A i \in 1..n : q[i] = Drop(c[i])
    BY <1>4, <2>1, <2>2, CutLemma
  <2>4. \A i \in 1..n : q[i] = c[i]
    BY <1>4, <2>3, DropTwice
  <2> QED
    BY <1>4, <2>1, <2>3, <2>4, SameSequence
<1>9. Cut(p, 1) = c
  <2>1. PICK q : q = Cut(p, 1)
    OBVIOUS
  <2>2. 1 \in 0..Len(p)
    BY <1>6
  <2>3. IsSequence(q) /\ Len(q) = n /\ \A i \in 1..n : q[i] = Drop(p[i + 1])
    BY <1>6, <2>1, <2>2, CutLemma
  <2>4. \A i \in 1..n : q[i] = c[i]
    BY <1>4, <1>6, <2>3, DropTwice
  <2> QED
    BY <1>4, <2>1, <2>3, <2>4, SameSequence
<1> QED
  BY <1>2, <1>5, <1>7, <1>8, <1>9

-----------------------------------------------------------------------------
Evaluating == {"Exp", "Exp="}
Operating == Operations \cup {"LB="}
Taking == {"Init", "Exp;", "RETURN", "IF", "WHILE"}

(* With a for the kinds of what is in vals, the task finds what it takes,  *)
(* and leaves b.                                                           *)
Takes(kind, task, a, b) ==
    /\ task.do \in Evaluating => b = Push(Given(kind, task), a)
    /\ task.do \in Operating =>
          /\ task.it \in Exps /\ (task.do = task.it.e \/ (task.do = "LB=" /\ task.it.e = "LB"))
          /\ Len(task.it.of) \in 0..Len(a)
          /\ task.do = "ASSIGN" => a[1] = Target
          /\ task.do \in {"LB", "LB="} => a[2] = kind[task.it] + 1
          /\ task.do \in Readers => \A i \in 1..Len(task.it.of) : a[i] \in Nat \cup {Target}
          /\ b = Push(Given(kind, task), Cut(a, Len(task.it.of)))
    /\ task.do \in Taking => Len(a) >= 1 /\ b = Cut(a, 1)
    /\ task.do \in {"IF", "WHILE"} => a[1] \in Nat \cup {Judgement}
    /\ task.do \notin Evaluating \cup Operating \cup Taking => b = Cut(a, 0)

(* The tasks of s, one after the other, lead from a to b.                  *)
Runs(kind, s, a, b) ==
    \E need : /\ need[0] = a /\ need[Len(s)] = b
              /\ \A i \in 0..Len(s) : IsSequence(need[i])
              /\ \A i \in 1..Len(s) : Takes(kind, s[i], need[i - 1], need[i])

LEMMA RunsConcat ==
    ASSUME NEW kind, NEW s, IsSequence(s), NEW t, IsSequence(t),
           NEW a, NEW b, NEW c, Runs(kind, s, a, b), Runs(kind, t, b, c)
    PROVE  Runs(kind, s \o t, a, c)
<1>1. PICK n, m \in Nat : n = Len(s) /\ m = Len(t)
  BY DEF IsSequence
<1>2. PICK f : /\ f[0] = a /\ f[n] = b /\ \A i \in 0..n : IsSequence(f[i])
               /\ \A i \in 1..n : Takes(kind, s[i], f[i - 1], f[i])
  BY <1>1 DEF Runs
<1>3. PICK g : /\ g[0] = b /\ g[m] = c /\ \A i \in 0..m : IsSequence(g[i])
               /\ \A i \in 1..m : Takes(kind, t[i], g[i - 1], g[i])
  BY <1>1 DEF Runs
<1>4. PICK u : u = s \o t
  OBVIOUS
<1>5. /\ Len(u) = n + m /\ \A k \in 1..n : u[k] = s[k]
      /\ \A k \in 1..m : u[n + k] = t[k]
  BY <1>1, <1>4, ConcatSequences
<1>6. PICK h : h = [i \in 0..n + m |-> IF i <= n THEN f[i] ELSE g[i - n]]
  OBVIOUS
<1>7. /\ \A i \in 0..n : h[i] = f[i]
      /\ \A i \in 0..m : h[n + i] = g[i]
  <2>1. ASSUME NEW i \in 0..n PROVE h[i] = f[i]
    <3>1. i \in 0..n + m /\ i <= n
      OBVIOUS
    <3> QED
      BY <1>6, <3>1
  <2>2. ASSUME NEW i \in 0..m PROVE h[n + i] = g[i]
    <3>1. n + i \in 0..n + m /\ n + i - n = i
      OBVIOUS
    <3>2. CASE i = 0
      BY <1>2, <1>3, <1>6, <3>1, <3>2
    <3>3. CASE i # 0
      <4>1. ~(n + i <= n)
        BY <3>3
      <4> QED
        BY <1>6, <3>1, <4>1
    <3> QED
      BY <3>2, <3>3
  <2> QED
    BY <2>1, <2>2
<1>8. h[0] = a /\ h[Len(u)] = c
  <2>1. 0 \in 0..n /\ m \in 0..m
    OBVIOUS
  <2> QED
    BY <1>2, <1>3, <1>5, <1>7, <2>1
<1>9. ASSUME NEW i \in 0..Len(u) PROVE IsSequence(h[i])
  <2>1. CASE i <= n
    <3>1. i \in 0..n
      BY <1>5, <2>1
    <3> QED
      BY <1>2, <1>7, <3>1
  <2>2. CASE i > n
    <3>1. i - n \in 0..m /\ n + (i - n) = i
      BY <1>5, <2>2
    <3>2. h[n + (i - n)] = g[i - n] /\ IsSequence(g[i - n])
      BY <1>3, <1>7, <3>1
    <3> QED
      BY <3>1, <3>2
  <2>3. i \in Int
    BY <1>5
  <2> QED
    BY <2>1, <2>2, <2>3
<1>10. ASSUME NEW i \in 1..Len(u) PROVE Takes(kind, u[i], h[i - 1], h[i])
  <2>0. i \in 1..n + m /\ i \in Int
    BY <1>5
  <2>1. CASE i <= n
    <3>1. i \in 1..n /\ i \in 0..n /\ i - 1 \in 0..n
      BY <2>0, <2>1
    <3>2. u[i] = s[i] /\ h[i - 1] = f[i - 1] /\ h[i] = f[i]
      BY <1>5, <1>7, <3>1
    <3> QED
      BY <1>2, <3>1, <3>2
  <2>2. CASE i > n
    <3>1. PICK k \in 1..m : k = i - n
      BY <2>0, <2>2
    <3>2. n + k = i /\ n + (k - 1) = i - 1 /\ k \in 0..m /\ k - 1 \in 0..m
      BY <2>0, <3>1
    <3>3. u[n + k] = t[k] /\ h[n + (k - 1)] = g[k - 1] /\ h[n + k] = g[k]
      BY <1>5, <1>7, <3>2
    <3>4. u[i] = t[k] /\ h[i - 1] = g[k - 1] /\ h[i] = g[k]
      BY <3>2, <3>3
    <3> QED
      BY <1>3, <3>4
  <2> QED
    BY <2>0, <2>1, <2>2
<1>11. Runs(kind, u, a, c)
  BY <1>8, <1>9, <1>10 DEF Runs
<1> QED
  BY <1>4, <1>11

(* The first task, and what comes after it.                                *)
LEMMA RunsFirst ==
    ASSUME NEW kind, NEW s, IsSequence(s), Balanced(s), s # <<>>,
           NEW a, NEW z, Runs(kind, s, a, z)
    PROVE  /\ IsSequence(a)
           /\ \E b : IsSequence(b) /\ Takes(kind, Head(s), a, b) /\ Runs(kind, Tail(s), b, z)
<1>1. PICK n \in Nat : n = Len(s)
  BY DEF IsSequence
<1>2. PICK f : /\ f[0] = a /\ f[n] = z /\ \A i \in 0..n : IsSequence(f[i])
               /\ \A i \in 1..n : Takes(kind, s[i], f[i - 1], f[i])
  BY <1>1 DEF Runs
<1>3. PICK t : t = Tail(s)
  OBVIOUS
<1>4. /\ Head(s) = s[1] /\ 1 \in 1..n /\ IsSequence(t) /\ Len(t) = n - 1
      /\ \A k \in 1..Len(t) : k + 1 \in 1..n /\ t[k] = s[k + 1]
  BY <1>1, <1>3, RestLemma
<1>5. 0 \in 0..n /\ 1 \in 0..n /\ 1 - 1 = 0
  BY <1>4
<1>6. IsSequence(a) /\ IsSequence(f[1]) /\ Takes(kind, Head(s), a, f[1])
  BY <1>2, <1>4, <1>5
<1>7. PICK g : g = [i \in 0..n - 1 |-> f[i + 1]]
  OBVIOUS
<1>8. \A i \in 0..n - 1 : i + 1 \in 0..n /\ g[i] = f[i + 1]
  BY <1>7
<1>9. g[0] = f[1] /\ g[Len(t)] = z
  <2>1. n - 1 \in 0..n - 1 /\ n - 1 + 1 = n /\ 0 \in 0..n - 1 /\ 0 + 1 = 1
    BY <1>4
  <2>2. g[n - 1] = f[n - 1 + 1] /\ g[0] = f[0 + 1]
    BY <1>8, <2>1
  <2> QED
    BY <1>2, <1>4, <2>1, <2>2
<1>10. \A i \in 0..Len(t) : IsSequence(g[i])
  BY <1>2, <1>4, <1>8
<1>11. ASSUME NEW i \in 1..Len(t) PROVE Takes(kind, t[i], g[i - 1], g[i])
  <2>1. i \in 0..n - 1 /\ i - 1 \in 0..n - 1 /\ i - 1 + 1 = i /\ i + 1 \in 1..n /\ i + 1 - 1 = i
    BY <1>4
  <2>2. t[i] = s[i + 1] /\ g[i] = f[i + 1]
    BY <1>4, <1>8, <2>1
  <2>3. g[i - 1] = f[i - 1 + 1]
    BY <1>8, <2>1
  <2>4. g[i - 1] = f[i]
    BY <2>1, <2>3
  <2>5. Takes(kind, s[i + 1], f[i + 1 - 1], f[i + 1])
    BY <1>2, <2>1
  <2>6. f[i + 1 - 1] = f[i]
    BY <2>1
  <2> QED
    BY <2>2, <2>4, <2>5, <2>6
<1>12. Runs(kind, t, f[1], z)
  BY <1>9, <1>10, <1>11 DEF Runs
<1> QED
  BY <1>3, <1>6, <1>12

(* Tasks that take nothing and give nothing.                               *)
LEMMA RunsIdle ==
    ASSUME NEW kind, NEW s, IsSequence(s), NEW b, IsSequence(b),
           \A i \in 1..Len(s) : Takes(kind, s[i], b, b)
    PROVE  Runs(kind, s, b, b)
<1>1. PICK n \in Nat : n = Len(s)
  BY DEF IsSequence
<1>2. PICK f : f = [i \in 0..n |-> b]
  OBVIOUS
<1>3. \A i \in 0..n : f[i] = b
  BY <1>2
<1>4. 0 \in 0..n /\ n \in 0..n /\ \A i \in 1..n : i \in 0..n /\ i - 1 \in 0..n
  OBVIOUS
<1>5. f[0] = b /\ f[n] = b /\ \A i \in 1..n : f[i - 1] = b /\ f[i] = b
  BY <1>3, <1>4
<1> QED
  BY <1>1, <1>3, <1>5 DEF Runs

LEMMA RunsNone ==
    ASSUME NEW kind, NEW b, IsSequence(b)
    PROVE  Runs(kind, <<>>, b, b)
<1>1. PICK s : s = <<>>
  OBVIOUS
<1>2. IsSequence(s) /\ Len(s) = 0
  BY <1>1, BalancedNone
<1>3. Runs(kind, s, b, b)
  BY <1>2, RunsIdle
<1> QED
  BY <1>1, <1>3

LEMMA RunsOne ==
    ASSUME NEW kind, NEW x, NEW a, IsSequence(a), NEW b, IsSequence(b), Takes(kind, x, a, b)
    PROVE  Runs(kind, <<x>>, a, b)
<1>1. PICK s : s = <<x>>
  OBVIOUS
<1>2. IsSequence(s) /\ Len(s) = 1 /\ s[1] = x
  BY <1>1, BalOne
<1>3. PICK f : f = [i \in 0..1 |-> IF i = 0 THEN a ELSE b]
  OBVIOUS
<1>4. f[0] = a /\ f[1] = b
  BY <1>3
<1>5. \A i \in 0..1 : IsSequence(f[i])
  <2>1. \A i \in 0..1 : i = 0 \/ i = 1
    OBVIOUS
  <2> QED
    BY <1>4, <2>1
<1>6. \A i \in 1..1 : i = 1 /\ i - 1 = 0
  OBVIOUS
<1>7. Takes(kind, s[1], f[1 - 1], f[1])
  BY <1>2, <1>4
<1>8. \A i \in 1..Len(s) : Takes(kind, s[i], f[i - 1], f[i])
  BY <1>2, <1>6, <1>7
<1>9. Runs(kind, s, a, b)
  BY <1>2, <1>4, <1>5, <1>8 DEF Runs
<1> QED
  BY <1>1, <1>9

(* The kinds when the first j expressions of s are evaluated.              *)
Pushed(kind, s, a, j) ==
    [i \in 1..Len(a) + j |->
        IF i > j THEN (IF j = 0 THEN a[i] ELSE Drop(a[i - j]))
        ELSE IF i = 1 THEN Given(kind, s[j]) ELSE Drop(Given(kind, s[j + 1 - i]))]

LiesOn(kind, s, a, j, p) ==
    /\ IsSequence(p) /\ Len(p) = Len(a) + j
    /\ j = 0 => p = a
    /\ j > 0 => p[1] = Given(kind, s[j])
    /\ \A i \in 1..j : i > 1 => p[i] = Drop(Given(kind, s[j + 1 - i]))
    /\ j > 0 => \A i \in 1..Len(a) : p[i + j] = Drop(a[i])

LEMMA PushedLemma ==
    ASSUME NEW kind, NEW s, NEW a, IsSequence(a), NEW j \in Nat
    PROVE  LiesOn(kind, s, a, j, Pushed(kind, s, a, j))
<1>1. PICK n \in Nat : n = Len(a)
  BY DEF IsSequence
<1>2. PICK p : p = Pushed(kind, s, a, j)
  OBVIOUS
<1>3. p = [i \in 1..n + j |->
            IF i > j THEN (IF j = 0 THEN a[i] ELSE Drop(a[i - j]))
            ELSE IF i = 1 THEN Given(kind, s[j]) ELSE Drop(Given(kind, s[j + 1 - i]))]
  BY <1>1, <1>2 DEF Pushed
<1>4. IsSequence(p) /\ Len(p) = n + j
  <2>1. n + j \in Nat /\ p = [i \in 1..n + j |-> p[i]]
    BY <1>3
  <2> QED
    BY <2>1, FunctionLemma
<1>5. ASSUME j = 0 PROVE p = a
  <2>1. n + j = n /\ \A i \in 1..n : i > j /\ i \in 1..n + j
    BY <1>5
  <2>2. \A i \in 1..n : p[i] = a[i]
    BY <1>3, <1>5, <2>1
  <2> QED
    BY <1>1, <1>4, <2>1, <2>2, SameSequence
<1>6. ASSUME j > 0 PROVE p[1] = Given(kind, s[j])
  <2>1. 1 \in 1..n + j /\ ~(1 > j)
    BY <1>6
  <2> QED
    BY <1>3, <2>1
<1>7. ASSUME NEW i \in 1..j, i > 1 PROVE p[i] = Drop(Given(kind, s[j + 1 - i]))
  <2>1. i \in 1..n + j /\ ~(i > j) /\ i # 1
    BY <1>7
  <2> QED
    BY <1>3, <2>1
<1>8. ASSUME j > 0, NEW i \in 1..n PROVE p[i + j] = Drop(a[i])
  <2>1. i + j \in 1..n + j /\ i + j > j /\ j # 0 /\ i + j - j = i
    BY <1>8
  <2> QED
    BY <1>3, <2>1
<1> QED
  BY <1>1, <1>2, <1>4, <1>5, <1>6, <1>7, <1>8 DEF LiesOn

(* One more expression.                                                    *)
LEMMA PushedNext ==
    ASSUME NEW kind, NEW s, NEW a, IsSequence(a), NEW j \in Nat
    PROVE  Pushed(kind, s, a, j + 1) = Push(Given(kind, s[j + 1]), Pushed(kind, s, a, j))
<1>1. PICK n \in Nat : n = Len(a)
  BY DEF IsSequence
<1>2. PICK p, q : p = Pushed(kind, s, a, j) /\ q = Pushed(kind, s, a, j + 1)
  OBVIOUS
<1>3. PICK r : r = Push(Given(kind, s[j + 1]), p)
  OBVIOUS
<1>4. /\ IsSequence(p) /\ Len(p) = n + j
      /\ j = 0 => p = a
      /\ j > 0 => p[1] = Given(kind, s[j])
      /\ \A i \in 1..j : i > 1 => p[i] = Drop(Given(kind, s[j + 1 - i]))
      /\ j > 0 => \A i \in 1..n : p[i + j] = Drop(a[i])
  <2>1. LiesOn(kind, s, a, j, p)
    BY <1>2, PushedLemma
  <2> QED
    BY <1>1, <2>1 DEF LiesOn
<1>5. PICK l \in Nat : l = j + 1 /\ l > 0
  OBVIOUS
<1>6. /\ IsSequence(q) /\ Len(q) = n + (j + 1)
      /\ q[1] = Given(kind, s[j + 1])
      /\ \A i \in 1..j + 1 : i > 1 => q[i] = Drop(Given(kind, s[j + 1 + 1 - i]))
      /\ \A i \in 1..n : q[i + (j + 1)] = Drop(a[i])
  <2>1. q = Pushed(kind, s, a, l)
    BY <1>2, <1>5
  <2>2. LiesOn(kind, s, a, l, q)
    BY <2>1, PushedLemma
  <2> QED
    BY <1>1, <1>5, <2>2 DEF LiesOn
<1>7. /\ IsSequence(r) /\ Len(r) = n + j + 1 /\ r[1] = Given(kind, s[j + 1])
      /\ \A i \in 1..n + j : r[i + 1] = Drop(p[i])
  BY <1>3, <1>4, PushLemma
<1>8. ASSUME NEW i \in 1..n + j PROVE q[i + 1] = r[i + 1]
  <2>1. CASE i > j
    <3>1. PICK k \in 1..n : k = i - j
      BY <2>1
    <3>2. k + (j + 1) = i + 1 /\ k + j = i
      BY <3>1
    <3>3. q[k + (j + 1)] = Drop(a[k])
      BY <1>6
    <3>4. Drop(p[i]) = Drop(a[k])
      <4>1. CASE j = 0
        BY <1>4, <3>2, <4>1
      <4>2. CASE j > 0
        <5>1. p[k + j] = Drop(a[k])
          BY <1>4, <4>2
        <5>2. Drop(Drop(a[k])) = Drop(a[k])
          BY DropTwice
        <5> QED
          BY <3>2, <5>1, <5>2
      <4> QED
        BY <4>1, <4>2
    <3> QED
      BY <1>7, <3>2, <3>3, <3>4
  <2>2. CASE i <= j
    <3>1. i \in 1..j /\ j > 0 /\ i + 1 \in 1..j + 1 /\ i + 1 > 1 /\ j + 1 + 1 - (i + 1) = j + 1 - i
      BY <2>2
    <3>2. q[i + 1] = Drop(Given(kind, s[j + 1 + 1 - (i + 1)]))
      BY <1>6, <3>1
    <3>3. q[i + 1] = Drop(Given(kind, s[j + 1 - i]))
      BY <3>1, <3>2
    <3>4. CASE i = 1
      <4>1. j + 1 - i = j
        BY <3>4
      <4> QED
        BY <1>4, <1>7, <3>1, <3>3, <3>4, <4>1
    <3>5. CASE i > 1
      <4>1. p[i] = Drop(Given(kind, s[j + 1 - i]))
        BY <1>4, <3>1, <3>5
      <4>2. Drop(Drop(Given(kind, s[j + 1 - i]))) = Drop(Given(kind, s[j + 1 - i]))
        BY DropTwice
      <4> QED
        BY <1>7, <3>3, <4>1, <4>2
    <3> QED
      BY <3>1, <3>4, <3>5
  <2> QED
    BY <2>1, <2>2
<1>9. \A i \in 1..n + (j + 1) : i = 1 \/ (i - 1 \in 1..n + j /\ i - 1 + 1 = i)
  OBVIOUS
<1>10. ASSUME NEW i \in 1..n + (j + 1) PROVE q[i] = r[i]
  <2>1. CASE i = 1
    BY <1>6, <1>7, <2>1
  <2>2. CASE i # 1
    <3>1. PICK k \in 1..n + j : k + 1 = i
      BY <1>9, <2>2
    <3>2. q[k + 1] = r[k + 1]
      BY <1>8
    <3> QED
      BY <3>1, <3>2
  <2> QED
    BY <2>1, <2>2
<1>11. q = r
  <2>1. Len(r) = n + (j + 1)
    BY <1>7
  <2> QED
    BY <1>6, <1>7, <1>10, <2>1, SameSequence
<1> QED
  BY <1>2, <1>3, <1>11

(* Expressions, one after the other: their kinds come to lie on those that *)
(* were there, and can be taken off again.                                 *)
Laid(kind, s, a, b) ==
    /\ IsSequence(b) /\ Runs(kind, s, a, b) /\ Len(b) = Len(a) + Len(s)
    /\ Cut(b, Len(s)) = Cut(a, 0)
    /\ Len(s) > 0 => b[1] = Given(kind, s[Len(s)])
    /\ \A i \in 1..Len(s) : i > 1 => b[i] = Drop(Given(kind, s[Len(s) + 1 - i]))

LEMMA RunsExps ==
    ASSUME NEW kind, NEW s, IsSequence(s), \A i \in 1..Len(s) : s[i].do \in Evaluating,
           NEW a, IsSequence(a)
    PROVE  \E b : Laid(kind, s, a, b)
<1>1. PICK n \in Nat : n = Len(s)
  BY DEF IsSequence
<1>2. PICK m \in Nat : m = Len(a)
  BY DEF IsSequence
<1>3. PICK f : f = [j \in 0..n |-> Pushed(kind, s, a, j)]
  OBVIOUS
<1>4. \A j \in 0..n : f[j] = Pushed(kind, s, a, j) /\ j \in Nat
  BY <1>3
<1>5. 0 \in 0..n /\ n \in 0..n
  OBVIOUS
<1>6. /\ IsSequence(f[n]) /\ Len(f[n]) = m + n
      /\ n = 0 => f[n] = a
      /\ n > 0 => f[n][1] = Given(kind, s[n])
      /\ \A i \in 1..n : i > 1 => f[n][i] = Drop(Given(kind, s[n + 1 - i]))
      /\ n > 0 => \A i \in 1..m : f[n][i + n] = Drop(a[i])
  <2>1. LiesOn(kind, s, a, n, f[n])
    BY <1>4, <1>5, PushedLemma
  <2> QED
    BY <1>2, <2>1 DEF LiesOn
<1>7. Runs(kind, s, a, f[n])
  <2>0. \A j \in 0..n : LiesOn(kind, s, a, j, f[j])
    BY <1>4, PushedLemma
  <2>1. f[0] = a
    BY <1>5, <2>0 DEF LiesOn
  <2>2. \A j \in 0..n : IsSequence(f[j])
    BY <2>0 DEF LiesOn
  <2>3. ASSUME NEW i \in 1..n PROVE Takes(kind, s[i], f[i - 1], f[i])
    <3>1. PICK j \in Nat : j + 1 = i
      BY <2>3
    <3>2. j \in 0..n /\ i \in 0..n /\ i - 1 = j
      BY <3>1
    <3>3. Pushed(kind, s, a, j + 1) = Push(Given(kind, s[j + 1]), Pushed(kind, s, a, j))
      BY PushedNext
    <3>4. f[i] = Push(Given(kind, s[i]), f[i - 1])
      BY <1>4, <3>1, <3>2, <3>3
    <3>5. s[i].do \in Evaluating
      BY <1>1
    <3> QED
      BY <3>4, <3>5 DEF Takes, Evaluating, Operating, Operations, RelOps, ArithOps, Taking
  <2> QED
    BY <1>1, <2>1, <2>2, <2>3 DEF Runs
<1>8. Cut(f[n], n) = Cut(a, 0)
  <2>1. n \in 0..Len(f[n]) /\ 0 \in 0..m
    BY <1>6
  <2>2. PICK c, d : c = Cut(f[n], n) /\ d = Cut(a, 0)
    OBVIOUS
  <2>3. m + n - n = m /\ m - 0 = m
    OBVIOUS
  <2>4. IsSequence(c) /\ Len(c) = m /\ \A i \in 1..m : c[i] = Drop(f[n][i + n])
    BY <1>6, <2>1, <2>2, <2>3, CutLemma
  <2>5. IsSequence(d) /\ Len(d) = m /\ \A i \in 1..m : d[i] = Drop(a[i])
    <3>1. \A i \in 1..m : i + 0 = i
      OBVIOUS
    <3>2. IsSequence(d) /\ Len(d) = m /\ \A i \in 1..m : d[i] = Drop(a[i + 0])
      BY <1>2, <2>1, <2>2, <2>3, CutLemma
    <3> QED
      BY <3>1, <3>2
  <2>6. ASSUME NEW i \in 1..m PROVE c[i] = d[i]
    <3>1. CASE n = 0
      <4>1. i + n = i
        BY <3>1
      <4> QED
        BY <1>6, <2>4, <2>5, <3>1, <4>1
    <3>2. CASE n > 0
      <4>1. f[n][i + n] = Drop(a[i])
        BY <1>6, <3>2
      <4>2. Drop(Drop(a[i])) = Drop(a[i])
        BY DropTwice
      <4> QED
        BY <2>4, <2>5, <4>1, <4>2
    <3> QED
      BY <3>1, <3>2
  <2> QED
    BY <2>2, <2>4, <2>5, <2>6, SameSequence
<1>9. Laid(kind, s, a, f[n])
  BY <1>1, <1>2, <1>6, <1>7, <1>8 DEF Laid
<1> QED
  BY <1>9

-----------------------------------------------------------------------------
(* What a value of each kind is.                                           *)
Fits(v, k) ==
    /\ v.sort # "label"
    /\ v.sort = "rel" => "sort" \in DOMAIN v
    /\ k = 0 => v # NULL
    /\ k \in Nat \ {0} => /\ v.sort = "array" /\ v.at \in VTags \cup TTags \cup Places
                          /\ IsSequence(v.dims) /\ Len(v.dims) = k
    /\ k = Target => v \in VTags \/ (v \in TTags /\ v \in DOMAIN hashmap)

ValsFit(a) ==
    /\ IsSequence(vals) /\ IsSequence(a) /\ Len(a) = Len(vals)
    /\ \A i \in 1..Len(a) : Fits(vals[i], a[i])

Valued(kind) ==
    \E a, z : /\ ValsFit(a) /\ Runs(kind, agenda, a, z)
              /\ Len(a) >= 1 /\ a[1] = Judgement => Judged

Gains == Grow /\ DOMAIN hashmap \subseteq DOMAIN hashmap'

LEMMA DropKeeps ==
    ASSUME NEW k
    PROVE  /\ Drop(k) = 0 => k = 0
           /\ Drop(k) \in Nat \ {0} => k = Drop(k)
           /\ Drop(k) = Target => k = Target
<1>1. PICK p : p = Nothing
  OBVIOUS
<1>2. p # 0 /\ p \notin Nat \ {0} /\ p # Target
  BY <1>1 DEF Nothing, Target
<1>3. Drop(k) = k \/ Drop(k) = p
  BY <1>1 DEF Drop
<1> QED
  BY <1>2, <1>3

LEMMA FitsGrow ==
    ASSUME Gains, NEW v, NEW k, Fits(v, k), NEW l, l = Drop(k)
    PROVE  Fits(v, l)'
<1>1. /\ VTags \subseteq VTags' /\ TTags \subseteq TTags' /\ Places \subseteq Places'
      /\ DOMAIN hashmap \subseteq DOMAIN hashmap'
  BY TagsGrow DEF Gains
<1>2. /\ v.sort # "label"
      /\ v.sort = "rel" => "sort" \in DOMAIN v
      /\ k = 0 => v # NULL
      /\ k = Target => v \in VTags \/ (v \in TTags /\ v \in DOMAIN hashmap)
  BY DEF Fits
<1>3. k \in Nat \ {0} => /\ v.sort = "array" /\ v.at \in VTags \cup TTags \cup Places
                         /\ IsSequence(v.dims) /\ Len(v.dims) = k
  BY DEF Fits
<1>5. (l = 0 => k = 0) /\ (l \in Nat \ {0} => k = l) /\ (l = Target => k = Target)
  BY DropKeeps
<1>6. l \in Nat \ {0} => /\ v.sort = "array" /\ v.at \in VTags' \cup TTags' \cup Places'
                         /\ IsSequence(v.dims) /\ Len(v.dims) = l
  BY <1>1, <1>3, <1>5
<1>7. l = Target => v \in VTags' \/ (v \in TTags' /\ v \in DOMAIN hashmap')
  BY <1>1, <1>2, <1>5
<1> QED
  BY <1>2, <1>5, <1>6, <1>7 DEF Fits

LEMMA FitsAfter ==
    ASSUME NEW w, w = vals', IsSequence(w), NEW c, IsSequence(c), Len(c) = Len(w),
           \A i \in 1..Len(c) : Fits(w[i], c[i])'
    PROVE  ValsFit(c)'
BY DEF ValsFit, Fits

(* Nothing is taken.                                                       *)
LEMMA FitsSettled ==
    ASSUME Gains, UNCHANGED vals, NEW a, ValsFit(a)
    PROVE  ValsFit(Cut(a, 0))'
<1>1. PICK n \in Nat : n = Len(a)
  BY DEF ValsFit, IsSequence
<1>2. PICK c : c = Cut(a, 0)
  OBVIOUS
<1>3. 0 \in 0..Len(a) /\ n - 0 = n /\ \A i \in 1..n : i + 0 = i
  BY <1>1
<1>4. IsSequence(c) /\ Len(c) = n /\ \A i \in 1..n : c[i] = Drop(a[i + 0])
  BY <1>1, <1>2, <1>3, CutLemma DEF ValsFit
<1>5. PICK w : w = vals /\ w = vals'
  OBVIOUS
<1>6. \A i \in 1..n : Fits(w[i], a[i])
  BY <1>1, <1>5 DEF ValsFit
<1>7. ASSUME NEW i \in 1..n PROVE Fits(w[i], c[i])'
  <2>1. Fits(w[i], a[i]) /\ c[i] = Drop(a[i])
    BY <1>3, <1>4, <1>6
  <2> QED
    BY <2>1, FitsGrow
<1>8. IsSequence(w) /\ Len(w) = n
  BY <1>1, <1>5 DEF ValsFit
<1>9. ValsFit(c)'
  BY <1>4, <1>5, <1>7, <1>8, FitsAfter
<1> QED
  BY <1>2, <1>9

(* What lies on top is taken.                                              *)
LEMMA FitsTaken ==
    ASSUME Gains, vals' = Tail(vals), NEW a, ValsFit(a), Len(a) >= 1
    PROVE  ValsFit(Cut(a, 1))'
<1>1. PICK n \in Nat : n = Len(a) /\ n >= 1
  BY DEF ValsFit, IsSequence
<1>2. PICK c : c = Cut(a, 1)
  OBVIOUS
<1>3. 1 \in 0..Len(a)
  BY <1>1
<1>4. IsSequence(c) /\ Len(c) = n - 1 /\ \A i \in 1..n - 1 : c[i] = Drop(a[i + 1])
  BY <1>1, <1>2, <1>3, CutLemma DEF ValsFit
<1>5. vals \in Seq({vals[k] : k \in 1..Len(vals)}) /\ Len(vals) = n
  BY <1>1, RangeLemma DEF ValsFit
<1>6. PICK w : w = Tail(vals)
  OBVIOUS
<1>7. /\ w \in Seq({vals[k] : k \in 1..Len(vals)}) /\ Len(w) = n - 1
      /\ \A i \in 1..n - 1 : w[i] = vals[i + 1]
  <2>1. vals # <<>>
    BY <1>1, <1>5
  <2> QED
    BY <1>5, <1>6, <2>1, HeadTailProperties
<1>8. ASSUME NEW i \in 1..n - 1 PROVE Fits(w[i], c[i])'
  <2>1. PICK j \in 1..n : j = i + 1
    OBVIOUS
  <2>2. PICK v, k : v = vals[j] /\ k = a[j]
    OBVIOUS
  <2>3. Fits(v, k)
    BY <1>1, <2>2 DEF ValsFit
  <2>4. w[i] = v /\ c[i] = Drop(k)
    BY <1>4, <1>7, <2>1, <2>2
  <2>5. Fits(w[i], k)
    BY <2>3, <2>4
  <2> QED
    BY <2>4, <2>5, FitsGrow
<1>9. IsSequence(w) /\ w = vals'
  BY <1>6, <1>7, SequenceLemma
<1>10. ValsFit(c)'
  BY <1>4, <1>7, <1>8, <1>9, FitsAfter
<1> QED
  BY <1>2, <1>10

(* Operands give way to a result.                                          *)
LEMMA FitsResult ==
    ASSUME Gains, NEW n \in Nat, NEW tag, vals' = <<tag>> \o SubSeq(vals, n + 1, Len(vals)),
           NEW a, ValsFit(a), n <= Len(a), NEW k, Fits(tag, k)'
    PROVE  ValsFit(Push(k, Cut(a, n)))'
<1>1. PICK m \in Nat : m = Len(a) /\ n <= m
  BY DEF ValsFit, IsSequence
<1>0. PICK d \in Nat : d = m - n
  <2>1. m - n \in Nat
    BY <1>1
  <2> QED
    BY <2>1
<1>2. PICK c : c = Cut(a, n)
  OBVIOUS
<1>3. n \in 0..Len(a)
  BY <1>1
<1>4. IsSequence(c) /\ Len(c) = d /\ \A i \in 1..d : c[i] = Drop(a[i + n]) /\ c[i] # Judgement
  BY <1>0, <1>1, <1>2, <1>3, CutLemma DEF ValsFit
<1>5. PICK p : p = Push(k, c)
  OBVIOUS
<1>6. IsSequence(p) /\ Len(p) = d + 1 /\ p[1] = k /\ \A i \in 1..d : p[i + 1] = Drop(c[i])
  BY <1>4, <1>5, PushLemma
<1>7. vals \in Seq({vals[j] : j \in 1..Len(vals)}) /\ Len(vals) = m
  BY <1>1, RangeLemma DEF ValsFit
<1>8. PICK w : w = SubSeq(vals, n + 1, m)
  OBVIOUS
<1>9. w = [i \in 1..d |-> vals[i + n]]
  BY <1>0, <1>1, <1>7, <1>8
<1>10. d \in Nat /\ w = [i \in 1..d |-> w[i]]
  BY <1>9
<1>11. IsSequence(w) /\ Len(w) = d
  BY <1>10, FunctionLemma
<1>12. PICK t : t = <<tag>>
  OBVIOUS
<1>13. IsSequence(t) /\ Len(t) = 1 /\ t[1] = tag
  BY <1>12, BalOne
<1>14. PICK u : u = t \o w
  OBVIOUS
<1>15. /\ IsSequence(u) /\ Len(u) = 1 + d /\ u[1] = tag
       /\ \A i \in 1..d : u[1 + i] = w[i]
  <2>0. IsSequence(t) /\ IsSequence(w)
    BY <1>11, <1>13
  <2>1. /\ IsSequence(u) /\ Len(u) = Len(t) + Len(w)
        /\ \A i \in 1..Len(t) : u[i] = t[i]
        /\ \A i \in 1..Len(w) : u[Len(t) + i] = w[i]
    BY <1>14, <2>0, ConcatSequences
  <2>2. 1 \in 1..Len(t)
    BY <1>13
  <2> QED
    BY <1>11, <1>13, <2>1, <2>2
<1>16. ASSUME NEW i \in 1..d PROVE Fits(u[i + 1], p[i + 1])'
  <2>1. PICK j \in 1..m : j = i + n
    BY <1>0, <1>1
  <2>2. PICK v, l : v = vals[j] /\ l = a[j]
    OBVIOUS
  <2>3. Fits(v, l)
    BY <1>1, <2>2 DEF ValsFit
  <2>4. Drop(Drop(l)) = Drop(l)
    BY DropTwice
  <2>5. p[i + 1] = Drop(c[i]) /\ c[i] = Drop(l)
    BY <1>4, <1>6, <2>1, <2>2
  <2>6. u[1 + i] = w[i] /\ w[i] = v /\ 1 + i = i + 1
    BY <1>9, <1>15, <2>1, <2>2
  <2>7. u[i + 1] = v /\ p[i + 1] = Drop(l)
    BY <2>4, <2>5, <2>6
  <2>8. Fits(u[i + 1], l)
    BY <2>3, <2>7
  <2> QED
    BY <2>7, <2>8, FitsGrow
<1>17. \A i \in 1..d + 1 : i = 1 \/ (i - 1 \in 1..d /\ i - 1 + 1 = i)
  BY <1>10
<1>18. ASSUME NEW i \in 1..d + 1 PROVE Fits(u[i], p[i])'
  <2>1. CASE i = 1
    BY <1>6, <1>15, <2>1
  <2>2. CASE i # 1
    <3>1. PICK j \in 1..d : j + 1 = i
      BY <1>17, <2>2
    <3>2. Fits(u[j + 1], p[j + 1])'
      BY <1>16
    <3> QED
      BY <3>1, <3>2
  <2> QED
    BY <2>1, <2>2
<1>19. u = vals' /\ Len(u) = d + 1
  <2>1. Len(vals) = m
    BY <1>7
  <2>2. u = vals'
    BY <1>8, <1>12, <1>14, <2>1
  <2>3. Len(u) = d + 1
    BY <1>15
  <2> QED
    BY <2>2, <2>3
<1>20. ValsFit(p)'
  BY <1>6, <1>15, <1>18, <1>19, FitsAfter
<1> QED
  BY <1>2, <1>5, <1>20

-----------------------------------------------------------------------------
(* What is left when the first task has been done.                         *)
LEMMA AtWork ==
    ASSUME SInv, NEW kind, Valued(kind), agenda # <<>>
    PROVE  \E a, b, z :
              /\ ValsFit(a) /\ IsSequence(a) /\ IsSequence(b)
              /\ Len(a) >= 1 /\ a[1] = Judgement => Judged
              /\ Takes(kind, This, a, b) /\ Runs(kind, Tail(agenda), b, z)
<1>1. PICK a, z : /\ ValsFit(a) /\ Runs(kind, agenda, a, z)
                  /\ Len(a) >= 1 /\ a[1] = Judgement => Judged
  BY DEF Valued
<1>2. IsSequence(agenda) /\ Balanced(agenda)
  BY DEF SInv, Fit
<1>3. PICK s : s = agenda
  OBVIOUS
<1>4. IsSequence(a) /\ \E b : IsSequence(b) /\ Takes(kind, Head(s), a, b) /\ Runs(kind, Tail(s), b, z)
  BY <1>1, <1>2, <1>3, RunsFirst
<1> QED
  BY <1>1, <1>3, <1>4 DEF This

LEMMA ValuedNext ==
    ASSUME SInv, agenda # <<>>, NEW kind, NEW b, NEW z, Runs(kind, Tail(agenda), b, z),
           NEW tasks, IsSequence(tasks), Continue(tasks),
           NEW c, ValsFit(c)', Runs(kind, tasks, c, b),
           Len(c) >= 1 /\ c[1] = Judgement => Judged'
    PROVE  Valued(kind)'
<1>1. IsSequence(Tail(agenda))
  BY FitRest DEF SInv, Fit
<1>2. PICK t : t = Tail(agenda)
  OBVIOUS
<1>3. Runs(kind, tasks \o t, c, z)
  BY <1>1, <1>2, RunsConcat
<1>4. agenda' = tasks \o t
  BY <1>2 DEF Continue
<1>5. Runs(kind, agenda', c, z)
  BY <1>3, <1>4
<1> QED
  BY <1>5 DEF Valued

(* Kinds among which no code of an && or || is waited for.                 *)
Calm(b) == IsSequence(b) /\ Cut(b, 0) = b /\ \A i \in 1..Len(b) : b[i] # Judgement

LEMMA CutIsCalm ==
    ASSUME NEW a, IsSequence(a), NEW n \in 0..Len(a)
    PROVE  Calm(Cut(a, n))
<1>1. PICK c : c = Cut(a, n)
  OBVIOUS
<1>2. PICK d : d = Len(c)
  OBVIOUS
<1>3. /\ IsSequence(c) /\ Len(c) = Len(a) - n
      /\ \A i \in 1..Len(a) - n : c[i] = Drop(a[i + n])
      /\ \A i \in 1..Len(c) : c[i] # Judgement
  BY <1>1, CutLemma
<1>4. d \in Nat /\ \A i \in 1..d : c[i] = Drop(a[i + n])
  BY <1>2, <1>3 DEF IsSequence
<1>5. PICK e : e = Cut(c, 0)
  OBVIOUS
<1>6. 0 \in 0..Len(c) /\ d - 0 = d /\ \A i \in 1..d : i + 0 = i
  BY <1>2, <1>4
<1>7. IsSequence(e) /\ Len(e) = d /\ \A i \in 1..d : e[i] = Drop(c[i + 0])
  BY <1>2, <1>3, <1>5, <1>6, CutLemma
<1>8. ASSUME NEW i \in 1..d PROVE e[i] = c[i]
  <2>1. e[i] = Drop(c[i]) /\ c[i] = Drop(a[i + n])
    BY <1>4, <1>6, <1>7
  <2>2. Drop(Drop(a[i + n])) = Drop(a[i + n])
    BY DropTwice
  <2> QED
    BY <2>1, <2>2
<1>9. e = c
  BY <1>2, <1>3, <1>7, <1>8, SameSequence
<1> QED
  BY <1>1, <1>3, <1>5, <1>9 DEF Calm

(* Tasks that leave vals as they find it.                                  *)
Silent(kind, s) == IsSequence(s) /\ \A b : Calm(b) => Runs(kind, s, b, b)

Loud == Evaluating \cup Operating \cup Taking

LEMMA SilentIdle ==
    ASSUME NEW kind, NEW s, IsSequence(s), \A i \in 1..Len(s) : s[i].do \notin Loud
    PROVE  Silent(kind, s)
<1>1. ASSUME NEW b, Calm(b) PROVE Runs(kind, s, b, b)
  <2>1. IsSequence(b) /\ Cut(b, 0) = b
    BY <1>1 DEF Calm
  <2>2. \A i \in 1..Len(s) : Takes(kind, s[i], b, b)
    BY <2>1 DEF Takes, Loud, Taking
  <2> QED
    BY <2>1, <2>2, RunsIdle
<1> QED
  BY <1>1 DEF Silent

LEMMA SilentConcat ==
    ASSUME NEW kind, NEW s, Silent(kind, s), NEW t, Silent(kind, t)
    PROVE  Silent(kind, s \o t)
<1>1. IsSequence(s) /\ IsSequence(t) /\ IsSequence(s \o t)
  BY ConcatSequences DEF Silent
<1>2. ASSUME NEW b, Calm(b) PROVE Runs(kind, s \o t, b, b)
  BY <1>1, <1>2, RunsConcat DEF Silent
<1> QED
  BY <1>1, <1>2 DEF Silent

LEMMA SilentNone ==
    ASSUME NEW kind
    PROVE  Silent(kind, <<>>)
BY BalancedNone, RunsNone DEF Silent, Calm

LEMMA SilentOne ==
    ASSUME NEW kind, NEW do, NEW it, do \notin Loud
    PROVE  Silent(kind, <<Do(do, it)>>)
<1>1. PICK s : s = <<Do(do, it)>>
  OBVIOUS
<1>2. IsSequence(s) /\ Len(s) = 1 /\ s[1].do = do
  BY <1>1, OneTask
<1>3. \A k \in 1..Len(s) : k = 1
  BY <1>2
<1>4. Silent(kind, s)
  BY <1>2, <1>3, SilentIdle
<1> QED
  BY <1>1, <1>4

LEMMA SilentEach ==
    ASSUME NEW kind, NEW S, NEW list \in Seq(S), NEW do, do \notin Loud
    PROVE  Silent(kind, Each(do, list))
<1>1. PICK s : s = Each(do, list)
  OBVIOUS
<1>2. Len(list) \in Nat /\ s = [k \in 1..Len(list) |-> s[k]] /\ \A k \in 1..Len(list) : s[k].do = do
  BY <1>1 DEF Each
<1>3. IsSequence(s) /\ Len(s) = Len(list)
  BY <1>2, FunctionLemma
<1>4. Silent(kind, s)
  BY <1>2, <1>3, SilentIdle
<1> QED
  BY <1>1, <1>4

LEMMA SilentScoped ==
    ASSUME NEW kind, NEW s
    PROVE  Silent(kind, Scoped(s))
<1>1. "pushScope" \notin Loud /\ "Stmt" \notin Loud /\ "popScope" \notin Loud
  BY DEF Loud, Evaluating, Operating, Operations, RelOps, ArithOps, Taking
<1>2. PICK t, u, v : t = <<Do("pushScope", NULL)>> /\ u = <<Do("Stmt", s)>> /\ v = <<Do("popScope", NULL)>>
  OBVIOUS
<1>3. Silent(kind, t) /\ Silent(kind, u) /\ Silent(kind, v)
  BY <1>1, <1>2, SilentOne
<1>4. Silent(kind, u \o v)
  BY <1>3, SilentConcat
<1>5. Silent(kind, t \o (u \o v))
  BY <1>3, <1>4, SilentConcat
<1>6. Scoped(s) = t \o (u \o v)
  BY <1>2 DEF Scoped
<1> QED
  BY <1>5, <1>6

(* An expression and the task that takes what it gives.                    *)
LEMMA SilentPair ==
    ASSUME NEW kind, NEW e, NEW do \in Taking, NEW it,
           do \in {"IF", "WHILE"} => kind[e] \in Nat \cup {Judgement}
    PROVE  Silent(kind, <<Do("Exp", e), Do(do, it)>>)
<1>1. PICK x, y : x = Do("Exp", e) /\ y = Do(do, it)
  OBVIOUS
<1>2. x.do = "Exp" /\ x.it = e /\ y.do = do
  BY <1>1 DEF Do
<1>3. PICK s, t : s = <<x>> /\ t = <<y>>
  OBVIOUS
<1>4. IsSequence(s) /\ IsSequence(t) /\ IsSequence(s \o t)
  BY <1>3, BalOne, ConcatSequences
<1>5. ASSUME NEW b, Calm(b) PROVE Runs(kind, s \o t, b, b)
  <2>1. IsSequence(b) /\ Cut(b, 0) = b
    BY <1>5 DEF Calm
  <2>2. PICK c : c = Push(kind[e], b)
    OBVIOUS
  <2>3. IsSequence(c) /\ Len(c) = Len(b) + 1 /\ c[1] = kind[e]
    BY <2>1, <2>2, PushLemma
  <2>4. Cut(c, 1) = b
    BY <2>1, <2>2, CutPush
  <2>5. Takes(kind, x, b, c)
    <3>1. Given(kind, x) = kind[e]
      BY <1>2 DEF Given
    <3> QED
      BY <1>2, <2>2, <3>1 DEF Takes, Evaluating, Operating, Operations, RelOps, ArithOps, Taking
  <2>6. Takes(kind, y, c, b)
    <3>1. Len(c) >= 1
      BY <2>1, <2>3 DEF IsSequence
    <3>2. do \notin Evaluating \cup Operating /\ do \in Taking
      BY DEF Evaluating, Operating, Operations, RelOps, ArithOps, Taking
    <3>3. do \in {"IF", "WHILE"} => c[1] \in Nat \cup {Judgement}
      BY <2>3
    <3> QED
      BY <1>2, <2>4, <3>1, <3>2, <3>3 DEF Takes, Operating, Operations
  <2>7. Runs(kind, s, b, c) /\ Runs(kind, t, c, b)
    BY <1>3, <2>1, <2>3, <2>5, <2>6, RunsOne
  <2> QED
    BY <1>4, <2>7, RunsConcat
<1>6. s \o t = <<x, y>>
  BY <1>3, PairLemma
<1> QED
  BY <1>1, <1>4, <1>5, <1>6 DEF Silent

(* A handler that leaves vals alone.                                       *)
LEMMA ValuedQuiet ==
    ASSUME SInv, NEW kind, Valued(kind), agenda # <<>>, This.do \notin Loud, Gains, UNCHANGED vals,
           NEW tasks, Continue(tasks), Silent(kind, tasks)
    PROVE  Valued(kind)'
<1>1. PICK a, b, z : /\ ValsFit(a) /\ IsSequence(a) /\ IsSequence(b)
                     /\ Takes(kind, This, a, b) /\ Runs(kind, Tail(agenda), b, z)
  BY AtWork
<1>2. b = Cut(a, 0)
  BY <1>1 DEF Takes, Loud
<1>3. 0 \in 0..Len(a)
  BY <1>1 DEF IsSequence
<1>4. Calm(b)
  BY <1>1, <1>2, <1>3, CutIsCalm
<1>5. ValsFit(b)'
  BY <1>1, <1>2, FitsSettled
<1>6. IsSequence(tasks) /\ Runs(kind, tasks, b, b)
  BY <1>4 DEF Silent
<1>7. Len(b) >= 1 /\ b[1] = Judgement => Judged'
  BY <1>1, <1>4 DEF Calm, IsSequence
<1> QED
  BY <1>1, <1>5, <1>6, <1>7, ValuedNext

(* A handler that takes one value.                                         *)
LEMMA ValuedTaking ==
    ASSUME SInv, NEW kind, Valued(kind), agenda # <<>>, This.do \in Taking, Gains, vals' = Tail(vals),
           NEW tasks, Continue(tasks), Silent(kind, tasks)
    PROVE  Valued(kind)'
<1>1. PICK a, b, z : /\ ValsFit(a) /\ IsSequence(a) /\ IsSequence(b)
                     /\ Takes(kind, This, a, b) /\ Runs(kind, Tail(agenda), b, z)
  BY AtWork
<1>2. b = Cut(a, 1) /\ Len(a) >= 1
  BY <1>1 DEF Takes
<1>3. 1 \in 0..Len(a)
  BY <1>1, <1>2 DEF IsSequence
<1>4. Calm(b)
  BY <1>1, <1>2, <1>3, CutIsCalm
<1>5. ValsFit(b)'
  BY <1>1, <1>2, FitsTaken
<1>6. IsSequence(tasks) /\ Runs(kind, tasks, b, b)
  BY <1>4 DEF Silent
<1>7. Len(b) >= 1 /\ b[1] = Judgement => Judged'
  BY <1>1, <1>4 DEF Calm, IsSequence
<1> QED
  BY <1>1, <1>5, <1>6, <1>7, ValuedNext

-----------------------------------------------------------------------------
(* No step takes a number or a tag back.                                   *)
LEMMA WithGains ==
    ASSUME NEW key, NEW tag, hashmap' = With(key, tag)
    PROVE  /\ DOMAIN hashmap' = DOMAIN hashmap \cup {key} /\ hashmap'[key] = tag
           /\ \A k \in DOMAIN hashmap : k # key => hashmap'[k] = hashmap[k]
BY DEF With

(* What an index makes of the numbers: addr and value for b and c.         *)
Indexed(array, i, b, c, addr, value) ==
    /\ b \in Nat /\ c \in Nat /\ tCnt <= b /\ tCnt <= c
    /\ value = generateT(c)
    /\ addr = IF IsScaled(i) THEN generateT(b) ELSE array.at
    /\ IsScaled(i) => b < c
    /\ IF Tail(array.dims) # <<>>
       THEN Result(ArrayOf(addr, Tail(array.dims))) /\ tCnt' = c /\ UNCHANGED hashmap
       ELSE Result(value) /\ tCnt' = c + 1 /\ hashmap' = With(value, WordAt(addr))

LEMMA IndexNumbers ==
    ASSUME TInv, Index
    PROVE  \E b, c, addr, value : Indexed(Opd(1), Opd(2), b, c, addr, value)
<1>2. PICK a \in Nat : a = tCnt
  BY DEF TInv, CountersOK
<1>3. PICK array, i : array = Opd(1) /\ i = Opd(2)
  OBVIOUS
<1>4. PICK rest : rest = Tail(array.dims)
  OBVIOUS
<1>5. PICK isProduct : isProduct = (IsScaled(i) /\ i # Const(1))
  OBVIOUS
<1>6. PICK b \in Nat : b = IF isProduct THEN a + 1 ELSE a
  OBVIOUS
<1>7. PICK c \in Nat : c = IF IsScaled(i) THEN b + 1 ELSE a
  BY <1>6
<1>8. PICK sum, value : sum = generateT(b) /\ value = generateT(c)
  OBVIOUS
<1>9. PICK addr : addr = IF IsScaled(i) THEN sum ELSE array.at
  OBVIOUS
<1>10. /\ generateT(IF isProduct THEN tCnt + 1 ELSE tCnt) = sum
       /\ generateT(IF IsScaled(i) THEN sum.n + 1 ELSE tCnt) = value
       /\ value.n = c
  BY <1>2, <1>6, <1>7, <1>8 DEF generateT
<1>11. IF rest # <<>>
       THEN Result(ArrayOf(addr, rest)) /\ tCnt' = c /\ UNCHANGED hashmap
       ELSE Result(value) /\ tCnt' = c + 1 /\ hashmap' = With(value, WordAt(addr))
  BY <1>2, <1>3, <1>4, <1>5, <1>9, <1>10 DEF Index
<1>12. tCnt <= b /\ tCnt <= c /\ (IsScaled(i) => b < c)
  BY <1>2, <1>5, <1>6, <1>7
<1>13. Indexed(array, i, b, c, addr, value)
  BY <1>4, <1>8, <1>9, <1>11, <1>12 DEF Indexed
<1> QED
  BY <1>3, <1>13

LEMMA StepGains ==
    ASSUME TInv, CountersOK', Parse
    PROVE  Gains
<1>1. PICK l, v, t \in Nat : l = labelCnt /\ v = vCnt /\ t = tCnt
  BY DEF TInv, CountersOK
<1>2. labelCnt' \in {l, l + 1, l + 2, l + 3}
  BY <1>1 DEF Parse, EnterScope, LeaveScope, ExtDef, ExtDecList, FunBody, ParamDec, Dec, InitVar, VarDec, Leaf, Operands,
              Assignment, Logical, Relational, Arithmetic, Minus, Index, Not, Call, CompSt, Evaluate, Expression,
              Return, If, EndThen, Else, EndIf, While, WhileBody, EndWhile, Counters, NewLabels
<1>3. vCnt' \in {v, v + 1}
  BY <1>1 DEF Parse, EnterScope, LeaveScope, ExtDef, ExtDecList, FunBody, ParamDec, Dec, InitVar, VarDec, Leaf, Operands,
              Assignment, Logical, Relational, Arithmetic, Minus, Index, Not, Call, CompSt, Evaluate, Expression,
              Return, If, EndThen, Else, EndIf, While, WhileBody, EndWhile, Counters
<1>4. CASE Index
  <2>1. PICK array, i, b, c, addr, value : Indexed(array, i, b, c, addr, value)
    BY <1>4, IndexNumbers
  <2>2. tCnt' >= tCnt
    <3>1. c \in Nat /\ tCnt <= c /\ (tCnt' = c \/ tCnt' = c + 1)
      BY <2>1 DEF Indexed
    <3> QED
      BY <1>1, <3>1
  <2>3. UNCHANGED hashmap \/ hashmap' = With(value, WordAt(addr))
    BY <2>1 DEF Indexed
  <2>4. DOMAIN hashmap \subseteq DOMAIN hashmap'
    <3>1. CASE hashmap' = With(value, WordAt(addr))
      BY <3>1, WithGains
    <3> QED
      BY <2>3, <3>1
  <2> QED
    BY <1>1, <1>2, <1>3, <2>2, <2>4 DEF Gains, Grow, CountersOK
<1>5. CASE ~Index
  <2>1. tCnt' \in {t, t + 1}
    BY <1>1, <1>5 DEF Parse, EnterScope, LeaveScope, ExtDef, ExtDecList, FunBody, ParamDec, Dec, InitVar, VarDec, Leaf, Operands,
              Assignment, Logical, Relational, Arithmetic, Minus, Not, Call, CompSt, Evaluate, Expression,
              Return, If, EndThen, Else, EndIf, While, WhileBody, EndWhile, Counters, NewT
  <2>2. \/ UNCHANGED hashmap
        \/ \E key, tag : hashmap' = With(key, tag)
    BY <1>5 DEF Parse, EnterScope, LeaveScope, ExtDef, ExtDecList, FunBody, ParamDec, Dec, InitVar, VarDec, Leaf, Operands,
              Assignment, Logical, Relational, Arithmetic, Minus, Not, Call, CompSt, Evaluate, Expression,
              Return, If, EndThen, Else, EndIf, While, WhileBody, EndWhile
  <2>3. DOMAIN hashmap \subseteq DOMAIN hashmap'
    BY <2>2, WithGains
  <2> QED
    BY <1>1, <1>2, <1>3, <2>1, <2>3 DEF Gains, Grow, CountersOK
<1> QED
  BY <1>4, <1>5

(* What an operation gives.                                                *)
LEMMA FitsSimple ==
    ASSUME NEW v, v.sort \notin {"label", "rel", "null"}
    PROVE  Fits(v, 0)' /\ Fits(v, 0)
<1>1. v # NULL
  BY DEF NULL
<1>2. PICK k, p : k = 0 /\ p = Target
  OBVIOUS
<1>3. k \notin Nat \ {0} /\ k # p
  BY <1>2 DEF Target
<1>4. Fits(v, k)' /\ Fits(v, k)
  BY <1>1, <1>2, <1>3 DEF Fits
<1> QED
  BY <1>2, <1>4

LEMMA FitsJudgement ==
    ASSUME NEW k \in {Judgement, Nothing}, NEW v, v.sort \notin {"label", "rel"}
    PROVE  Fits(v, k)'
<1>1. PICK p : p = Target
  OBVIOUS
<1>2. k # 0 /\ k \notin Nat \ {0} /\ k # p
  BY <1>1 DEF Judgement, Nothing, Target
<1> QED
  BY <1>1, <1>2 DEF Fits

(* The type of a variable, and a temporary from which an element can be    *)
(* assigned.                                                               *)
LEMMA FitsTarget ==
    ASSUME NEW v, v.sort \notin {"label", "rel", "null"},
           v \in VTags \/ (v \in TTags /\ v \in DOMAIN hashmap), Gains
    PROVE  Fits(v, Target)'
<1>1. PICK k, p : k = 0 /\ p = Target
  OBVIOUS
<1>2. p # k /\ p \notin Nat \ {0}
  BY <1>1 DEF Target
<1>3. (v \in VTags \/ (v \in TTags /\ v \in DOMAIN hashmap))'
  BY TagsGrow DEF Gains
<1>4. Fits(v, p)'
  BY <1>1, <1>2, <1>3 DEF Fits
<1> QED
  BY <1>1, <1>4

LEMMA FitsArray ==
    ASSUME NEW k \in Nat \ {0}, NEW v, v.sort = "array", v.at \in VTags' \cup TTags' \cup Places',
           IsSequence(v.dims), Len(v.dims) = k
    PROVE  Fits(v, k)'
<1>1. PICK p : p = Target
  OBVIOUS
<1>2. k # 0 /\ k # p
  BY <1>1 DEF Target
<1> QED
  BY <1>1, <1>2 DEF Fits

-----------------------------------------------------------------------------
(* What Typing says of one expression, and what it makes of a task.        *)
Kinded(kind) == Typing(kind, Exps, Decs, Stmts)

(* What the map of tags and the scopes hold, and what a declaration with a *)
(* value counts on until the value is there.                               *)
HKeys ==
    \A key \in DOMAIN hashmap :
        key.sort # "v" /\ (key.sort = "t" => IsWord(hashmap[key]))

Known(type) ==
    /\ type.sort = "v" => type \in VTags
    /\ type.sort = "array" => /\ type.at \in VTags \cup TTags \cup Places
                              /\ IsSequence(type.dims)

ScopesKnown ==
    \A d \in 1..Len(scopeStack) :
        IsSequence(scopeStack[d]) /\ \A i \in 1..Len(scopeStack[d]) : Known(scopeStack[d][i].type)

InitFits(x) ==
    x.sort \notin {"v", "t", "#0-"} /\ x \in DOMAIN hashmap /\ hashmap[x] \in VTags

Awaits(s, k) == s[k].do = "Init" /\ \A j \in 1..k-1 : s[j].do \in Evaluating \cup Operating

InitsFit ==
    \A k \in 1..Len(agenda) : agenda[k].do = "Init" => Awaits(agenda, k) /\ InitFits(agenda[k].it)

KInv(kind) == Valued(kind) /\ HKeys /\ ScopesKnown /\ InitsFit

LEMMA HKeysLookup ==
    ASSUME HKeys, CountersOK, NEW v, v \in VTags \/ (v \in TTags /\ v \in DOMAIN hashmap)
    PROVE  Lookup(v, v) \in VTags \/ IsWord(Lookup(v, v))
<1>1. CASE v \in VTags
  <2>1. v.sort = "v"
    BY <1>1, NewTag
  <2>2. v \notin DOMAIN hashmap
    BY <2>1 DEF HKeys
  <2> QED
    BY <1>1, <2>2 DEF Lookup
<1>2. CASE v \in TTags /\ v \in DOMAIN hashmap
  <2>1. v.sort = "t"
    BY <1>2, NewTag
  <2> QED
    BY <1>2, <2>1 DEF HKeys, Lookup
<1> QED
  BY <1>1, <1>2

(* What is known of the expression of a node, and what an operation finds. *)
LEMMA Nodes ==
    ASSUME NEW e \in Exps
    PROVE  /\ e.e \in {"INT", "ID"} \cup Operations
           /\ e.e \notin {"INT", "ID"} => e.of \in Seq(Exps)
           /\ e.e = "ASSIGN" => e.of \in Seq(Exps) /\ Len(e.of) = 2
<1>1. \/ e.e \in {"INT", "ID"}
      \/ e.e \in Operations /\ e.of \in Seq(Exps) /\ (e.e = "ASSIGN" => Len(e.of) = 2)
  BY TranslateAssumption
<1> QED
  BY <1>1

LEMMA TakesOperation ==
    ASSUME NEW kind, NEW task, NEW a, NEW b, Takes(kind, task, a, b), task.do \in Operating
    PROVE  /\ task.it \in Exps /\ (task.do = task.it.e \/ (task.do = "LB=" /\ task.it.e = "LB"))
           /\ Len(task.it.of) \in 0..Len(a)
           /\ task.do = "ASSIGN" => a[1] = Target
           /\ task.do \in {"LB", "LB="} => a[2] = kind[task.it] + 1
           /\ task.do \in Readers => \A i \in 1..Len(task.it.of) : a[i] \in Nat \cup {Target}
           /\ b = Push(Given(kind, task), Cut(a, Len(task.it.of)))
BY DEF Takes

LEMMA TakesIndex ==
    ASSUME NEW kind, NEW task, NEW a, NEW b, Takes(kind, task, a, b), task.do \in {"LB", "LB="}
    PROVE  /\ task.it \in Exps /\ task.it.e = "LB" /\ Len(task.it.of) \in 0..Len(a)
           /\ a[2] = kind[task.it] + 1
<1>1. task.do \in Operating
  BY DEF Operating, Operations
<1>2. PICK e : e = task.it
  OBVIOUS
<1>3. e \in Exps /\ (task.do = e.e \/ e.e = "LB") /\ Len(e.of) \in 0..Len(a) /\ a[2] = kind[e] + 1
  BY <1>1, <1>2, TakesOperation
<1>4. e.e # "LB="
  BY <1>3, Nodes DEF Operations, RelOps, ArithOps
<1> QED
  BY <1>2, <1>3, <1>4

(* A value, an array or what can be assigned to has a tag.                 *)
LEMMA FitsTagged ==
    ASSUME CountersOK, NEW k \in Nat \cup {Target}, NEW v, Fits(v, k)
    PROVE  v # NULL
<1>1. CASE k = 0
  BY <1>1 DEF Fits
<1>2. CASE k \in Nat \ {0}
  <2>1. v.sort = "array"
    BY <1>2 DEF Fits
  <2> QED
    BY <2>1 DEF NULL
<1>3. CASE k = Target
  <2>1. v \in VTags \cup TTags
    BY <1>3 DEF Fits
  <2>2. v.sort \in {"v", "t"}
    BY <2>1, NewTag
  <2> QED
    BY <2>2 DEF NULL
<1> QED
  BY <1>1, <1>2, <1>3

LEMMA KInvFits ==
    ASSUME SInv, TInv, NEW kind, Kinded(kind), KInv(kind)
    PROVE  OperandsFit
<1>1. CASE agenda = <<>>
  BY <1>1 DEF OperandsFit, Task, Doing
<1>2. CASE agenda # <<>>
  <2>1. PICK a, b, z : /\ ValsFit(a) /\ IsSequence(a) /\ IsSequence(b)
                       /\ Len(a) >= 1 /\ a[1] = Judgement => Judged
                       /\ Takes(kind, This, a, b) /\ Runs(kind, Tail(agenda), b, z)
    BY <1>2, AtWork DEF KInv
  <2>2. PICK n \in Nat : n = Len(a)
    BY <2>1 DEF IsSequence
  <2>3. \A i \in 1..n : Fits(vals[i], a[i])
    BY <2>1, <2>2 DEF ValsFit
  <2>4. ASSUME Task("ASSIGN")
        PROVE  /\ Lookup(Opd(2), Opd(2)) \in VTags \/ IsWord(Lookup(Opd(2), Opd(2)))
               /\ Opd(1).sort # "label"
    <3>1. This.do = "ASSIGN" /\ This.do \in Operating /\ This.do # "LB="
      BY <2>4 DEF Task, Doing, Operating, Operations
    <3>2. This.it \in Exps /\ This.it.e = "ASSIGN" /\ Len(This.it.of) \in 0..n /\ a[1] = Target
      BY <2>1, <2>2, <3>1, TakesOperation
    <3>3. Len(This.it.of) = 2 /\ 1 \in 1..n /\ 2 \in 1..n
      <4>1. PICK e : e = This.it
        OBVIOUS
      <4>2. Len(e.of) = 2
        BY <3>2, <4>1, Nodes
      <4> QED
        BY <3>2, <4>1, <4>2
    <3>4. Opd(1) = vals[2] /\ Opd(2) = vals[1]
      BY <3>3 DEF Opd
    <3>5. vals[1] \in VTags \/ (vals[1] \in TTags /\ vals[1] \in DOMAIN hashmap)
      BY <2>3, <3>2, <3>3 DEF Fits
    <3>6. vals[2].sort # "label"
      BY <2>3, <3>3 DEF Fits
    <3> QED
      BY <3>4, <3>5, <3>6, HKeysLookup DEF KInv, TInv
  <2>5. ASSUME Task("Init") PROVE hashmap[This.it] \in VTags
    <3>1. This = agenda[1] /\ 1 \in 1..Len(agenda)
      BY <1>2, RestLemma DEF SInv, Fit, This
    <3> QED
      BY <2>5, <3>1 DEF KInv, InitsFit, InitFits, Task, Doing
  <2>6. ASSUME Doing({"LB", "LB="}) PROVE Opd(1).at \in VTags \cup TTags \cup Places
    <3>1. This.do \in {"LB", "LB="} /\ This.do \in Operating
      BY <2>6 DEF Doing, Operating, Operations
    <3>2. This.it \in Exps /\ This.it.e = "LB" /\ Len(This.it.of) \in 0..n /\ a[2] = kind[This.it] + 1
      BY <2>1, <2>2, <3>1, TakesIndex
    <3>3. Len(This.it.of) = 2 /\ kind[This.it] \in Nat
      BY <3>2 DEF Kinded, Typing
    <3>4. 2 \in 1..n /\ a[2] \in Nat \ {0}
      BY <3>2, <3>3
    <3>5. Opd(1) = vals[2]
      BY <3>3 DEF Opd
    <3>6. vals[2].at \in VTags \cup TTags \cup Places
      BY <2>3, <3>4 DEF Fits
    <3> QED
      BY <3>5, <3>6
  <2>7. ASSUME Doing({"IF", "WHILE"}), vals[1] = NULL PROVE Judged
    <3>1. This.do \in {"IF", "WHILE"} /\ This.do \in Taking
      BY <2>7 DEF Doing, Taking
    <3>2. Len(a) >= 1 /\ a[1] \in Nat \cup {Judgement}
      BY <2>1, <3>1 DEF Takes
    <3>3. 1 \in 1..n
      BY <2>2, <3>2
    <3>4. Fits(vals[1], a[1]) /\ vals[1].sort = "null"
      BY <2>3, <2>7, <3>3 DEF NULL
    <3>5. a[1] # 0 /\ a[1] \notin Nat \ {0}
      BY <2>7, <3>4 DEF Fits
    <3> QED
      BY <2>1, <3>2, <3>5
  <2>8. ASSUME Doing(Readers) PROVE Tagged(DOMAIN This.it.of)
    <3>1. This.do \in Readers /\ This.do \in Operating
      BY <2>8 DEF Doing, Readers, Operating, Operations
    <3>2. PICK e : e = This.it
      OBVIOUS
    <3>3. e \in Exps /\ (This.do = e.e \/ e.e = "LB") /\ Len(e.of) \in 0..n
      BY <2>1, <2>2, <3>1, <3>2, TakesOperation
    <3>4. \A i \in 1..Len(e.of) : a[i] \in Nat \cup {Target}
      BY <2>1, <3>1, <3>2, TakesOperation
    <3>5. e.of \in Seq(Exps)
      BY <3>1, <3>3, Nodes DEF Readers, RelOps, ArithOps
    <3>6. PICK l \in 0..n : l = Len(e.of)
      BY <3>3
    <3>7. DOMAIN e.of = 1..l
      BY <3>5, <3>6
    <3>8. ASSUME NEW k \in 1..l PROVE Opd(k) # NULL
      <4>1. l + 1 - k \in 1..l /\ l + 1 - k \in 1..n
        BY <2>2, <3>6
      <4>2. PICK i \in 1..n : i = l + 1 - k /\ a[i] \in Nat \cup {Target}
        BY <3>4, <3>6, <4>1
      <4>3. Opd(k) = vals[i]
        BY <3>2, <3>6, <4>2 DEF Opd
      <4>4. Fits(vals[i], a[i])
        BY <2>3, <4>2
      <4> QED
        BY <4>2, <4>3, <4>4, FitsTagged DEF TInv
    <3> QED
      BY <3>2, <3>7, <3>8 DEF Tagged
  <2> QED
    BY <2>4, <2>5, <2>6, <2>7, <2>8 DEF OperandsFit, Judged
<1> QED
  BY <1>1, <1>2

-----------------------------------------------------------------------------
(* Handlers that put a result in the place of its operands.                *)
LEMMA TypedNodes ==
    ASSUME NEW kind, Kinded(kind), NEW e \in Exps
    PROVE  /\ kind[e] \in Nat \cup {Judgement, Nothing}
           /\ e.e = "ID" => kind[e] \in Nat
           /\ e.e \in {"INT", "NEG", "NOT", "ASSIGN"} \cup RelOps \cup ArithOps => kind[e] = 0
           /\ e.e \in RelOps \cup ArithOps \cup {"LB"} => Len(e.of) = 2
           /\ e.e \in {"AND", "OR"} => kind[e] = Judgement
           /\ e.e \in {"LP", "NOT", "NEG"} => Len(e.of) = 1
           /\ e.e = "LP" => kind[e] = kind[e.of[1]]
           /\ e.e = "ASSIGN" => e.of[1].e \in {"ID", "LB"}
           /\ e.e = "LB" => kind[e] \in Nat /\ kind[e.of[1]] = kind[e] + 1
           /\ e.e = "CALL" => kind[e] = IF Calls(e) THEN 0 ELSE Nothing
BY DEF Kinded, Typing

(* What an operation that reads tags is given has one.                     *)
LEMMA TypedOperands ==
    ASSUME NEW kind, Kinded(kind), NEW e \in Exps, e.e \in Readers, NEW i \in 1..Len(e.of)
    PROVE  /\ kind[e.of[i]] \in Nat
           /\ e.e = "ASSIGN" => kind[e.of[i]] = 0
<1>1. e.of \in Seq(Exps) /\ DOMAIN e.of = 1..Len(e.of)
  BY Nodes DEF Readers, RelOps, ArithOps
<1>2. i \in DOMAIN e.of
  BY <1>1
<1>3. CASE e.e \in RelOps \cup ArithOps \cup {"ASSIGN", "NEG", "NOT"}
  BY <1>2, <1>3 DEF Kinded, Typing
<1>4. CASE e.e = "CALL"
  BY <1>2, <1>4 DEF Kinded, Typing
<1>5. CASE e.e = "LB"
  <2>1. Len(e.of) = 2 /\ kind[e] \in Nat /\ kind[e.of[1]] = kind[e] + 1 /\ kind[e.of[2]] = 0
    BY <1>5 DEF Kinded, Typing
  <2>2. i = 1 \/ i = 2
    BY <2>1
  <2> QED
    BY <1>5, <2>1, <2>2
<1>6. e.e # "LB="
  BY Nodes DEF Operations, RelOps, ArithOps
<1> QED
  BY <1>3, <1>4, <1>5, <1>6 DEF Readers

LEMMA ValuedResult ==
    ASSUME SInv, agenda # <<>>, NEW kind, NEW a, NEW b, NEW z,
           ValsFit(a), IsSequence(a), Takes(kind, This, a, b), Runs(kind, Tail(agenda), b, z),
           This.do \in Operating, Gains,
           NEW tag, Result(tag), NEW k, k = Given(kind, This), Fits(tag, k)', k = Judgement => Judged'
    PROVE  Valued(kind)'
<1>1. PICK n : n = Len(This.it.of)
  OBVIOUS
<1>2. PICK m \in Nat : m = Len(a)
  BY DEF IsSequence
<1>3. n \in 0..m /\ b = Push(k, Cut(a, n))
  BY <1>1, <1>2, TakesOperation
<1>4. n \in Nat /\ n <= m
  BY <1>3
<1>5. vals' = <<tag>> \o SubSeq(vals, n + 1, Len(vals)) /\ Continue(<<>>)
  BY <1>1 DEF Result
<1>6. ValsFit(b)'
  BY <1>2, <1>3, <1>4, <1>5, FitsResult
<1>7. IsSequence(b) /\ b[1] = k
  <2>1. PICK c : c = Cut(a, n)
    OBVIOUS
  <2>2. IsSequence(c)
    BY <1>2, <1>3, <2>1, CutLemma
  <2>3. b = Push(k, c)
    BY <1>3, <2>1
  <2> QED
    BY <2>2, <2>3, PushLemma
<1>8. PICK tasks : tasks = <<>>
  OBVIOUS
<1>9. IsSequence(tasks) /\ Continue(tasks) /\ Runs(kind, tasks, b, b)
  BY <1>5, <1>7, <1>8, BalancedNone, RunsNone
<1> QED
  BY <1>6, <1>7, <1>9, ValuedNext

(* The operand that lies i deep.                                           *)
LEMMA OperandFits ==
    ASSUME NEW a, ValsFit(a), NEW n \in 0..Len(a), n = Len(This.it.of), NEW k \in 1..n
    PROVE  /\ n + 1 - k \in 1..Len(a) /\ Opd(k) = vals[n + 1 - k]
           /\ Fits(Opd(k), a[n + 1 - k])
<1>1. PICK m \in Nat : m = Len(a)
  BY DEF ValsFit, IsSequence
<1>2. n + 1 - k \in 1..m
  BY <1>1
<1>3. Opd(k) = vals[n + 1 - k]
  BY DEF Opd
<1> QED
  BY <1>1, <1>2, <1>3 DEF ValsFit

(* A tag that is not NULL and not a label is a value.                      *)
LEMMA FitsValue ==
    ASSUME NEW v, v.sort # "label", v.sort = "rel" => "sort" \in DOMAIN v, v # NULL
    PROVE  Fits(v, 0)'
<1>1. PICK k, p : k = 0 /\ p = Target
  OBVIOUS
<1>2. k \notin Nat \ {0} /\ k # p
  BY <1>1 DEF Target
<1>3. Fits(v, k)'
  BY <1>1, <1>2 DEF Fits
<1> QED
  BY <1>1, <1>3

LEMMA AssignmentValued ==
    ASSUME SInv, TInv, NEW kind, Kinded(kind), KInv(kind), Gains, Assignment
    PROVE  Valued(kind)'
<1>1. agenda # <<>> /\ This.do = "ASSIGN" /\ Result(Opd(2))
  BY DEF Assignment, Task, Doing
<1>2. PICK a, b, z : /\ ValsFit(a) /\ IsSequence(a) /\ IsSequence(b)
                     /\ Takes(kind, This, a, b) /\ Runs(kind, Tail(agenda), b, z)
  BY <1>1, AtWork DEF KInv
<1>3. This.do \in Operating /\ This.do # "LB="
  BY <1>1 DEF Operating, Operations
<1>4. PICK e : e = This.it
  OBVIOUS
<1>5. e \in Exps /\ e.e = "ASSIGN" /\ Len(e.of) \in 0..Len(a) /\ a[1] = Target
  BY <1>1, <1>2, <1>3, <1>4, TakesOperation
<1>6. Len(e.of) = 2 /\ kind[e] = 0
  BY <1>5, Nodes, TypedNodes
<1>7. Given(kind, This) = 0
  BY <1>1, <1>4, <1>6 DEF Given
<1>8. PICK n : n = Len(This.it.of)
  OBVIOUS
<1>9. n = 2 /\ n \in 0..Len(a) /\ 2 \in 1..n /\ n + 1 - 2 = 1
  <2>1. n = Len(e.of)
    BY <1>4, <1>8
  <2>2. n = 2 /\ n \in 0..Len(a)
    BY <1>5, <1>6, <2>1
  <2>3. 2 \in 1..2 /\ 2 + 1 - 2 = 1
    OBVIOUS
  <2> QED
    BY <2>2, <2>3
<1>10. Fits(Opd(2), a[n + 1 - 2])
  BY <1>2, <1>8, <1>9, OperandFits
<1>11. PICK v : v = Opd(2)
  OBVIOUS
<1>12. v \in VTags \cup TTags
  <2>1. Fits(v, Target)
    BY <1>5, <1>9, <1>10, <1>11
  <2> QED
    BY <2>1 DEF Fits
<1>13. v.sort \notin {"label", "rel", "null"}
  BY <1>12, NewTag DEF TInv
<1>14. Fits(v, 0)'
  BY <1>13, FitsSimple
<1>15. 0 # Judgement
  BY DEF Judgement
<1> QED
  BY <1>1, <1>2, <1>3, <1>7, <1>11, <1>14, <1>15, ValuedResult

LEMMA LogicalValued ==
    ASSUME SInv, TInv, NEW kind, Kinded(kind), KInv(kind), Gains, Judged', Logical
    PROVE  Valued(kind)'
<1>1. agenda # <<>> /\ This.do \in {"AND", "OR"} /\ Result(NULL)
  BY DEF Logical, Doing
<1>2. PICK a, b, z : /\ ValsFit(a) /\ IsSequence(a) /\ IsSequence(b)
                     /\ Takes(kind, This, a, b) /\ Runs(kind, Tail(agenda), b, z)
  BY <1>1, AtWork DEF KInv
<1>3. This.do \in Operating /\ This.do # "LB="
  BY <1>1 DEF Operating, Operations
<1>4. PICK e : e = This.it
  OBVIOUS
<1>5. e \in Exps /\ e.e = This.do
  BY <1>2, <1>3, <1>4, TakesOperation
<1>6. kind[e] = Judgement
  BY <1>1, <1>5, TypedNodes
<1>7. Given(kind, This) = Judgement
  BY <1>1, <1>4, <1>6 DEF Given
<1>8. Fits(NULL, Judgement)'
  <2>1. NULL.sort \notin {"label", "rel"}
    BY DEF NULL
  <2> QED
    BY <2>1, FitsJudgement
<1> QED
  BY <1>1, <1>2, <1>3, <1>7, <1>8, ValuedResult

LEMMA RelationalValued ==
    ASSUME SInv, TInv, NEW kind, Kinded(kind), KInv(kind), Gains, Relational
    PROVE  Valued(kind)'
<1>1. agenda # <<>> /\ This.do \in RelOps /\ Result(Comparison(This.do, Opd(1), Opd(2)))
  BY DEF Relational, Doing
<1>2. PICK a, b, z : /\ ValsFit(a) /\ IsSequence(a) /\ IsSequence(b)
                     /\ Takes(kind, This, a, b) /\ Runs(kind, Tail(agenda), b, z)
  BY <1>1, AtWork DEF KInv
<1>3. This.do \in Operating /\ This.do \notin {"LB=", "Exp="}
  BY <1>1 DEF Operating, Operations, RelOps
<1>4. PICK e : e = This.it
  OBVIOUS
<1>5. e \in Exps /\ e.e = This.do
  BY <1>2, <1>3, <1>4, TakesOperation
<1>6. kind[e] = 0
  BY <1>1, <1>5, TypedNodes
<1>7. Given(kind, This) = 0
  BY <1>3, <1>4, <1>6 DEF Given
<1>8. PICK v : v = Comparison(This.do, Opd(1), Opd(2))
  OBVIOUS
<1>9. v.sort = "rel" /\ "sort" \in DOMAIN v /\ v # NULL
  BY <1>8 DEF Comparison, NULL
<1>10. Fits(v, 0)'
  BY <1>9, FitsValue
<1>11. 0 # Judgement
  BY DEF Judgement
<1> QED
  BY <1>1, <1>2, <1>3, <1>7, <1>8, <1>10, <1>11, ValuedResult

LEMMA ArithmeticValued ==
    ASSUME SInv, TInv, NEW kind, Kinded(kind), KInv(kind), Gains, Arithmetic
    PROVE  Valued(kind)'
<1>1. agenda # <<>> /\ This.do \in ArithOps
  BY DEF Arithmetic, Doing
<1>2. PICK a, b, z : /\ ValsFit(a) /\ IsSequence(a) /\ IsSequence(b)
                     /\ Takes(kind, This, a, b) /\ Runs(kind, Tail(agenda), b, z)
  BY <1>1, AtWork DEF KInv
<1>3. This.do \in Operating /\ This.do \notin {"LB=", "Exp="}
  BY <1>1 DEF Operating, Operations, ArithOps
<1>4. PICK e : e = This.it
  OBVIOUS
<1>5. e \in Exps /\ e.e = This.do /\ Len(e.of) \in 0..Len(a)
  BY <1>2, <1>3, <1>4, TakesOperation
<1>6. kind[e] = 0 /\ Len(e.of) = 2
  BY <1>1, <1>5, TypedNodes
<1>7. Given(kind, This) = 0
  BY <1>3, <1>4, <1>6 DEF Given
<1>8. PICK n : n = Len(This.it.of)
  OBVIOUS
<1>9. n = 2 /\ n \in 0..Len(a) /\ 1 \in 1..n /\ 2 \in 1..n
  <2>1. n = Len(e.of)
    BY <1>4, <1>8
  <2>2. n = 2 /\ n \in 0..Len(a)
    BY <1>5, <1>6, <2>1
  <2>3. 1 \in 1..2 /\ 2 \in 1..2
    OBVIOUS
  <2> QED
    BY <2>2, <2>3
<1>10. Fits(Opd(1), a[n + 1 - 1]) /\ Fits(Opd(2), a[n + 1 - 2])
  BY <1>2, <1>8, <1>9, OperandFits
<1>11. PICK v : Result(v) /\ (v = generateT(tCnt) \/ (v = Simplified(This.do, Opd(1), Opd(2)) /\ v # NULL))
  BY DEF Arithmetic
<1>12. Fits(v, 0)'
  <2>1. CASE v = generateT(tCnt)
    <3>1. v.sort \notin {"label", "rel", "null"}
      BY <2>1 DEF generateT
    <3> QED
      BY <3>1, FitsSimple
  <2>2. CASE v = Simplified(This.do, Opd(1), Opd(2)) /\ v # NULL
    <3>1. PICK l, r : l = Opd(1) /\ r = Opd(2)
      OBVIOUS
    <3>2. v \in {l, r} \/ \E i : v = Const(i)
      BY <2>2, <3>1 DEF Simplified
    <3>3. /\ l.sort # "label" /\ (l.sort = "rel" => "sort" \in DOMAIN l)
          /\ r.sort # "label" /\ (r.sort = "rel" => "sort" \in DOMAIN r)
      BY <1>10, <3>1 DEF Fits
    <3>4. v.sort # "label" /\ (v.sort = "rel" => "sort" \in DOMAIN v)
      BY <3>2, <3>3 DEF Const
    <3> QED
      BY <2>2, <3>4, FitsValue
  <2> QED
    BY <1>11, <2>1, <2>2
<1>13. 0 # Judgement
  BY DEF Judgement
<1> QED
  BY <1>1, <1>2, <1>3, <1>7, <1>11, <1>12, <1>13, ValuedResult

(* The code of an && or || ends with a GOTO.                               *)
LEMMA LogicalJudged ==
    ASSUME TInv, Logical
    PROVE  Judged'
<1>1. PICK l, m, otag, ztag, tmpTag, a :
          Emit(<<IfTac(l, a), GotoTac(m), LabelTac(tmpTag), IfTac(otag, a), GotoTac(ztag)>>)
  BY DEF Logical
<1>2. PICK list : list = <<IfTac(l, a), GotoTac(m), LabelTac(tmpTag), IfTac(otag, a), GotoTac(ztag)>>
  OBVIOUS
<1>3. IsSequence(list) /\ Len(list) = 5 /\ list[5] = GotoTac(ztag)
  BY <1>2, FiveElements
<1>4. PICK n \in Nat \ {0} : n = 5
  OBVIOUS
<1>5. Len(list) = n /\ Emit(list)
  BY <1>1, <1>2, <1>3, <1>4
<1>6. tacs' # <<>> /\ curTac' = list[n]
  BY <1>3, <1>5, LastPut
<1>7. list[n].title = "GOTO"
  <2>1. PICK g : g = GotoTac(ztag)
    OBVIOUS
  <2>2. g.title = "GOTO"
    BY <2>1 DEF GotoTac, One, newTac
  <2> QED
    BY <1>3, <1>4, <2>1, <2>2
<1> QED
  BY <1>6, <1>7 DEF Judged

LEMMA MinusValued ==
    ASSUME SInv, TInv, NEW kind, Kinded(kind), KInv(kind), Gains, Minus
    PROVE  Valued(kind)'
<1>1. agenda # <<>> /\ This.do = "NEG"
  BY DEF Minus, Task, Doing
<1>2. PICK a, b, z : /\ ValsFit(a) /\ IsSequence(a) /\ IsSequence(b)
                     /\ Takes(kind, This, a, b) /\ Runs(kind, Tail(agenda), b, z)
  BY <1>1, AtWork DEF KInv
<1>3. This.do \in Operating /\ This.do \notin {"LB=", "Exp="}
  BY <1>1 DEF Operating, Operations
<1>4. PICK e : e = This.it
  OBVIOUS
<1>5. e \in Exps /\ e.e = "NEG"
  BY <1>1, <1>2, <1>3, <1>4, TakesOperation
<1>6. kind[e] = 0
  BY <1>5, TypedNodes
<1>7. Given(kind, This) = 0
  BY <1>3, <1>4, <1>6 DEF Given
<1>8. PICK v : Result(v) /\ (v = generateT(tCnt) \/ \E key \in DOMAIN hashmap : v = hashmap[key])
  BY DEF Minus
<1>9. v.sort \notin {"label", "rel", "null"}
  <2>1. CASE v = generateT(tCnt)
    BY <2>1 DEF generateT
  <2>2. CASE \E key \in DOMAIN hashmap : v = hashmap[key]
    <3>1. v \in VTags \/ v \in TTags \/ v \in Places \/ IsWord(v)
      BY <2>2 DEF TInv, HashOK
    <3> QED
      BY <3>1 DEF VTags, TTags, Places, Numbered, IsWord
  <2> QED
    BY <1>8, <2>1, <2>2
<1>10. Fits(v, 0)'
  BY <1>9, FitsSimple
<1>11. 0 # Judgement
  BY DEF Judgement
<1> QED
  BY <1>1, <1>2, <1>3, <1>7, <1>8, <1>10, <1>11, ValuedResult

LEMMA NotValued ==
    ASSUME SInv, TInv, NEW kind, Kinded(kind), KInv(kind), Gains, Not
    PROVE  Valued(kind)'
<1>1. agenda # <<>> /\ This.do = "NOT" /\ Tagged({1})
  BY DEF Not, Task, Doing
<1>2. PICK a, b, z : /\ ValsFit(a) /\ IsSequence(a) /\ IsSequence(b)
                     /\ Takes(kind, This, a, b) /\ Runs(kind, Tail(agenda), b, z)
  BY <1>1, AtWork DEF KInv
<1>3. This.do \in Operating /\ This.do \notin {"LB=", "Exp="}
  BY <1>1 DEF Operating, Operations
<1>4. PICK e : e = This.it
  OBVIOUS
<1>5. e \in Exps /\ e.e = "NOT" /\ Len(e.of) \in 0..Len(a)
  BY <1>1, <1>2, <1>3, <1>4, TakesOperation
<1>6. Len(e.of) = 1 /\ kind[e] = 0
  BY <1>5, TypedNodes
<1>7. Given(kind, This) = 0
  BY <1>3, <1>4, <1>6 DEF Given
<1>8. PICK n : n = Len(This.it.of)
  OBVIOUS
<1>9. n \in 0..Len(a) /\ 1 \in 1..n
  <2>1. n = 1 /\ n \in 0..Len(a)
    BY <1>4, <1>5, <1>6, <1>8
  <2>2. 1 \in 1..1
    OBVIOUS
  <2> QED
    BY <2>1, <2>2
<1>10. PICK u : u = Opd(1)
  OBVIOUS
<1>11. u.sort # "label" /\ (u.sort = "rel" => "sort" \in DOMAIN u) /\ u # NULL
  <2>1. Fits(u, a[n + 1 - 1])
    BY <1>2, <1>8, <1>9, <1>10, OperandFits
  <2>2. u # NULL
    BY <1>1, <1>10 DEF Tagged
  <2> QED
    BY <2>1, <2>2 DEF Fits
<1>12. PICK v : v = IF u.sort = "rel" THEN [u EXCEPT !.op = Exchanged[@]] ELSE u
  OBVIOUS
<1>13. Result(v)
  BY <1>10, <1>12 DEF Not
<1>14. Fits(v, 0)'
  <2>1. CASE u.sort = "rel"
    <3>1. "sort" \in DOMAIN u /\ v = [u EXCEPT !.op = Exchanged[@]]
      BY <1>11, <1>12, <2>1
    <3>2. v.sort = "rel" /\ "sort" \in DOMAIN v
      BY <2>1, <3>1
    <3>3. v # NULL
      BY <3>2 DEF NULL
    <3> QED
      BY <3>2, <3>3, FitsValue
  <2>2. CASE u.sort # "rel"
    BY <1>11, <1>12, <2>2, FitsValue
  <2> QED
    BY <2>1, <2>2
<1>15. 0 # Judgement
  BY DEF Judgement
<1> QED
  BY <1>1, <1>2, <1>3, <1>7, <1>13, <1>14, <1>15, ValuedResult

LEMMA CallValued ==
    ASSUME SInv, TInv, NEW kind, Kinded(kind), KInv(kind), Gains, Call
    PROVE  Valued(kind)'
<1>1. agenda # <<>> /\ This.do = "CALL"
  BY DEF Call, Task, Doing
<1>2. PICK a, b, z : /\ ValsFit(a) /\ IsSequence(a) /\ IsSequence(b)
                     /\ Takes(kind, This, a, b) /\ Runs(kind, Tail(agenda), b, z)
  BY <1>1, AtWork DEF KInv
<1>3. This.do \in Operating /\ This.do \notin {"LB=", "Exp="}
  BY <1>1 DEF Operating, Operations
<1>4. PICK e : e = This.it
  OBVIOUS
<1>5. e \in Exps /\ e.e = "CALL"
  BY <1>1, <1>2, <1>3, <1>4, TakesOperation
<1>6. kind[e] = IF Calls(e) THEN 0 ELSE Nothing
  BY <1>5, TypedNodes
<1>7. PICK k : k = kind[e]
  OBVIOUS
<1>8. k = Given(kind, This)
  BY <1>3, <1>4, <1>7 DEF Given
<1>9. \/ Calls(e) /\ Result(generateT(tCnt))
      \/ ~Calls(e) /\ Result(NULL)
  <2>1. PICK args : /\ args = [i \in 1..Len(e.of) |-> Opd(i)]
                    /\ \/ e.f = Named("read") /\ Result(generateT(tCnt))
                       \/ e.f = Named("write") /\ Result(NULL)
                       \/ e.f \notin {Named("read"), Named("write")} /\ args # <<>> /\ Result(generateT(tCnt))
                       \/ e.f # Named("read") /\ args = <<>> /\ Result(NULL)
    BY <1>4 DEF Call
  <2>2. Named("read") # Named("write")
    BY DEF Named
  <2>3. e.of \in Seq(Exps)
    BY <1>5, Nodes
  <2>4. args = <<>> <=> e.of = <<>>
    BY <2>1, <2>3
  <2> QED
    BY <2>1, <2>2, <2>4 DEF Calls
<1>10. PICK v : Result(v) /\ ((Calls(e) /\ v = generateT(tCnt)) \/ (~Calls(e) /\ v = NULL))
  BY <1>9
<1>11. Fits(v, k)'
  <2>1. CASE Calls(e) /\ v = generateT(tCnt)
    <3>1. v.sort \notin {"label", "rel", "null"} /\ k = 0
      BY <1>6, <1>7, <2>1 DEF generateT
    <3> QED
      BY <3>1, FitsSimple
  <2>2. CASE ~Calls(e) /\ v = NULL
    <3>1. v.sort \notin {"label", "rel"} /\ k = Nothing
      BY <1>6, <1>7, <2>2 DEF NULL
    <3> QED
      BY <3>1, FitsJudgement
  <2> QED
    BY <1>10, <2>1, <2>2
<1>12. k # Judgement
  <2>1. 0 # Judgement /\ Nothing # Judgement
    BY DEF Judgement, Nothing
  <2> QED
    BY <1>6, <1>7, <2>1
<1> QED
  BY <1>1, <1>2, <1>3, <1>8, <1>10, <1>11, <1>12, ValuedResult

LEMMA IndexValued ==
    ASSUME SInv, TInv, NEW kind, Kinded(kind), KInv(kind), Gains, Index
    PROVE  Valued(kind)'
<1>1. agenda # <<>> /\ This.do \in {"LB", "LB="}
  BY DEF Index, Doing
<1>2. PICK a, b, z : /\ ValsFit(a) /\ IsSequence(a) /\ IsSequence(b)
                     /\ Takes(kind, This, a, b) /\ Runs(kind, Tail(agenda), b, z)
  BY <1>1, AtWork DEF KInv
<1>3. This.do \in Operating
  BY <1>1 DEF Operating, Operations
<1>4. PICK e : e = This.it
  OBVIOUS
<1>5. e \in Exps /\ e.e = "LB" /\ Len(e.of) \in 0..Len(a) /\ a[2] = kind[e] + 1
  BY <1>1, <1>2, <1>4, TakesIndex
<1>6. Len(e.of) = 2 /\ kind[e] \in Nat
  BY <1>5, TypedNodes
<1>7. PICK m \in Nat : m = kind[e]
  BY <1>6
<1>8. PICK k : k = Given(kind, This)
  OBVIOUS
<1>9. k = m \/ (m = 0 /\ k = Target)
  BY <1>4, <1>7, <1>8 DEF Given
<1>10. PICK n : n = Len(This.it.of)
  OBVIOUS
<1>11. n = 2 /\ n \in 0..Len(a) /\ 1 \in 1..n /\ n + 1 - 1 = 2
  <2>1. n = Len(e.of)
    BY <1>4, <1>10
  <2>2. n = 2 /\ n \in 0..Len(a)
    BY <1>5, <1>6, <2>1
  <2>3. 1 \in 1..2 /\ 2 + 1 - 1 = 2
    OBVIOUS
  <2> QED
    BY <2>2, <2>3
<1>12. Fits(Opd(1), a[n + 1 - 1])
  BY <1>2, <1>10, <1>11, OperandFits
<1>13. PICK array, i : array = Opd(1) /\ i = Opd(2)
  OBVIOUS
<1>14. PICK l \in Nat \ {0} : l = m + 1
  OBVIOUS
<1>15. Fits(array, l)
  BY <1>5, <1>7, <1>11, <1>12, <1>13, <1>14
<1>16. array.at \in VTags \cup TTags \cup Places /\ IsSequence(array.dims) /\ Len(array.dims) = l
  BY <1>15 DEF Fits
<1>17. PICK rest : rest = Tail(array.dims)
  OBVIOUS
<1>18. IsSequence(rest) /\ Len(rest) = m
  <2>1. PICK s : s = array.dims
    OBVIOUS
  <2>2. IsSequence(s) /\ Len(s) = l
    BY <1>16, <2>1
  <2>3. s \in Seq({s[j] : j \in 1..Len(s)})
    BY <2>2, RangeLemma
  <2>4. s # <<>>
    BY <2>2, <2>3
  <2>5. rest \in Seq({s[j] : j \in 1..Len(s)}) /\ Len(rest) = l - 1
    BY <1>17, <2>1, <2>2, <2>3, <2>4, HeadTailProperties
  <2> QED
    BY <1>14, <2>5, SequenceLemma
<1>19. PICK c, d, addr, value : Indexed(array, i, c, d, addr, value)
  BY <1>13, IndexNumbers
<1>20. CountersOK'
  BY DEF Gains, Grow
<1>21. Grow
  BY DEF Gains
<1>22. addr \in VTags' \cup TTags' \cup Places'
  <2>1. CASE IsScaled(i)
    <3>1. c \in Nat /\ d \in Nat /\ c < d /\ addr = generateT(c) /\ (tCnt' = d \/ tCnt' = d + 1)
      BY <1>19, <2>1 DEF Indexed
    <3>2. c < tCnt'
      BY <3>1
    <3> QED
      BY <1>20, <3>1, <3>2, NewNumbers
  <2>2. CASE ~IsScaled(i)
    <3>1. addr = array.at
      BY <1>19, <2>2 DEF Indexed
    <3> QED
      BY <1>16, <1>21, <3>1, TagsGrow
  <2> QED
    BY <2>1, <2>2
<1>23. CASE rest # <<>>
  <2>1. PICK v : v = ArrayOf(addr, rest)
    OBVIOUS
  <2>2. Result(v)
    BY <1>17, <1>19, <1>23, <2>1 DEF Indexed
  <2>3. m # 0
    BY <1>18, <1>23 DEF IsSequence
  <2>4. k = m /\ m \in Nat \ {0}
    BY <1>9, <2>3
  <2>5. v.sort = "array" /\ v.at = addr /\ v.dims = rest
    BY <2>1 DEF ArrayOf
  <2>6. Fits(v, m)'
    BY <1>18, <1>22, <2>4, <2>5, FitsArray
  <2>7. k # Judgement
    BY <2>4 DEF Judgement
  <2> QED
    BY <1>1, <1>2, <1>3, <1>8, <2>2, <2>4, <2>6, <2>7, ValuedResult
<1>24. CASE rest = <<>>
  <2>1. /\ Result(value) /\ d \in Nat /\ value = generateT(d) /\ tCnt' = d + 1
        /\ hashmap' = With(value, WordAt(addr))
    BY <1>17, <1>19, <1>24 DEF Indexed
  <2>2. m = 0
    BY <1>18, <1>24
  <2>3. value.sort \notin {"label", "rel", "null"}
    BY <2>1 DEF generateT
  <2>4. value \in TTags' /\ value \in DOMAIN hashmap'
    <3>1. d < tCnt'
      BY <2>1
    <3>2. value \in TTags'
      BY <1>20, <2>1, <3>1, NewNumbers
    <3>3. PICK key, word : key = value /\ word = WordAt(addr)
      OBVIOUS
    <3>4. hashmap' = With(key, word)
      BY <2>1, <3>3
    <3>5. key \in DOMAIN hashmap'
      BY <3>4, WithGains
    <3> QED
      BY <3>2, <3>3, <3>5
  <2>5. Fits(value, k)'
    <3>1. CASE k = 0
      BY <2>3, <3>1, FitsSimple
    <3>2. CASE k = Target
      <4>1. k # 0 /\ k \notin Nat \ {0}
        BY <3>2 DEF Target
      <4> QED
        BY <2>3, <2>4, <3>2, <4>1 DEF Fits
    <3> QED
      BY <1>9, <2>2, <3>1, <3>2
  <2>6. k # Judgement
    BY <1>9, <2>2 DEF Judgement, Target
  <2> QED
    BY <1>1, <1>2, <1>3, <1>8, <2>1, <2>5, <2>6, ValuedResult
<1> QED
  BY <1>23, <1>24

-----------------------------------------------------------------------------
(* What findSymbol finds is in one of the tables.                          *)
LEMMA Least ==
    ASSUME NEW S \in SUBSET Nat, S # {}
    PROVE  \E x \in S : \A y \in S : x <= y
<1>1. PICK R : R = {ss \in Nat \X Nat : ss[1] < ss[2]}
  OBVIOUS
<1>2. IsWellFoundedOn(R, Nat)
  BY <1>1, NatLessThanWellFounded DEF OpToRel
<1>3. PICK x \in S : \A y \in S : ~(<<y, x>> \in R)
  BY <1>2, WFMin
<1>4. \A y \in S : ~(y < x)
  BY <1>1, <1>3
<1> QED
  BY <1>4

LEMMA Greatest ==
    ASSUME NEW n \in Nat, NEW S \in SUBSET (0..n), S # {}
    PROVE  \E x \in S : \A y \in S : y <= x
<1>1. PICK T : T = {n - x : x \in S}
  OBVIOUS
<1>2. T \in SUBSET Nat /\ T # {}
  <2>1. \A x \in 0..n : n - x \in Nat
    OBVIOUS
  <2>2. \A y \in T : y \in Nat
    BY <1>1, <2>1
  <2>3. PICK x : x \in S
    OBVIOUS
  <2>4. n - x \in T
    BY <1>1, <2>3
  <2> QED
    BY <2>2, <2>4
<1>3. PICK t \in T : \A y \in T : t <= y
  BY <1>2, Least
<1>4. PICK x \in S : t = n - x
  BY <1>1, <1>3
<1>5. ASSUME NEW y \in S PROVE y <= x
  <2>1. n - y \in T
    BY <1>1
  <2>2. n - x <= n - y /\ x \in Int /\ y \in Int
    BY <1>3, <1>4, <2>1
  <2> QED
    BY <2>2
<1> QED
  BY <1>5

LEMMA FirstIsMet ==
    ASSUME NEW n \in Nat, NEW met \in SUBSET [scope: 1..n, at: 1..BktCapacity, type: Decl], met # {}
    PROVE  First(met) \in met
<1>1. PICK m \in Nat : m = BktCapacity
  BY SymbolTableAssumption
<1>2. \A e \in met : e.scope \in 0..n /\ e.at \in 0..m
  BY <1>1
<1>3. PICK S : S = {e.scope : e \in met}
  OBVIOUS
<1>4. S \in SUBSET (0..n) /\ S # {}
  BY <1>2, <1>3
<1>5. PICK s \in S : \A y \in S : y <= s
  BY <1>4, Greatest
<1>6. PICK A : A = {e.at : e \in {f \in met : f.scope = s}}
  OBVIOUS
<1>7. A \in SUBSET (0..m) /\ A # {}
  <2>1. \E e \in met : e.scope = s
    BY <1>3, <1>5
  <2> QED
    BY <1>2, <1>6, <2>1
<1>8. PICK t \in A : \A y \in A : y <= t
  BY <1>7, Greatest
<1>9. PICK e \in met : e.scope = s /\ e.at = t
  BY <1>6, <1>8
<1>10. ASSUME NEW f \in met PROVE Before(e, f)
  <2>1. f.scope \in S /\ f.scope <= s /\ f.scope \in Int /\ s \in Int
    BY <1>2, <1>3, <1>4, <1>5
  <2>2. CASE f.scope = s
    <3>1. f.at \in A
      BY <1>6, <2>2
    <3>2. f.at <= t /\ f.at \in Int /\ t \in Int
      BY <1>2, <1>7, <1>8, <3>1
    <3> QED
      BY <1>9, <2>2, <3>2 DEF Before
  <2>3. CASE f.scope # s
    <3>1. s > f.scope
      BY <2>1, <2>3
    <3> QED
      BY <1>9, <3>1 DEF Before
  <2> QED
    BY <2>2, <2>3
<1> QED
  BY <1>9, <1>10 DEF First

LEMMA FoundIsKnown ==
    ASSUME SInv, ScopesKnown, NEW x, NEW type, type = findSymbol(x), type # NoDecl
    PROVE  Known(type)
<1>1. PICK n \in Nat : n = Len(scopeStack)
  BY DEF SInv, IsSequence
<1>2. PICK met : met = Met(n, x)
  OBVIOUS
<1>3. met # {} /\ type = First(met).type
  BY <1>1, <1>2 DEF findSymbol, FindAt
<1>4. /\ met \in SUBSET [scope: 1..n, at: 1..BktCapacity, type: Decl]
      /\ \A e \in met : /\ e.scope \in 1..n /\ e.at \in DOMAIN scopeStack[e.scope]
                        /\ scopeStack[e.scope][e.at] = [name |-> x, type |-> e.type]
  BY <1>2 DEF Met
<1>5. PICK e \in met : e = First(met)
  BY <1>3, <1>4, FirstIsMet
<1>6. PICK table : table = scopeStack[e.scope]
  OBVIOUS
<1>7. IsSequence(table) /\ \A i \in 1..Len(table) : Known(table[i].type)
  BY <1>1, <1>4, <1>6 DEF ScopesKnown
<1>8. DOMAIN table = 1..Len(table)
  BY <1>7 DEF IsSequence
<1>9. e.at \in 1..Len(table) /\ table[e.at] = [name |-> x, type |-> e.type]
  BY <1>4, <1>6, <1>8
<1>10. table[e.at].type = type
  BY <1>3, <1>5, <1>9
<1> QED
  BY <1>7, <1>9, <1>10

-----------------------------------------------------------------------------
(* Handlers that begin an expression.                                      *)
LEMMA ValuedMore ==
    ASSUME SInv, agenda # <<>>, NEW kind, NEW a, NEW b, NEW z,
           ValsFit(a), IsSequence(a), Runs(kind, Tail(agenda), b, z), Gains, UNCHANGED vals,
           NEW tasks, IsSequence(tasks), Continue(tasks), Runs(kind, tasks, Cut(a, 0), b)
    PROVE  Valued(kind)'
<1>1. PICK c : c = Cut(a, 0)
  OBVIOUS
<1>2. ValsFit(c)'
  BY <1>1, FitsSettled
<1>3. 0 \in 0..Len(a)
  BY DEF IsSequence
<1>4. Calm(c)
  BY <1>1, <1>3, CutIsCalm
<1>5. Len(c) >= 1 /\ c[1] = Judgement => Judged'
  BY <1>4 DEF Calm, IsSequence
<1> QED
  BY <1>1, <1>2, <1>5, ValuedNext

(* Nothing stands in the way of a value that is put on top.                *)
LEMMA ValuedPut ==
    ASSUME SInv, agenda # <<>>, NEW kind, NEW a, NEW b, NEW z,
           ValsFit(a), IsSequence(a), Takes(kind, This, a, b), Runs(kind, Tail(agenda), b, z),
           This.do \in Evaluating, Gains, Continue(<<>>),
           NEW v, vals' = <<v>> \o vals, NEW k, k = Given(kind, This), Fits(v, k)', k # Judgement
    PROVE  Valued(kind)'
<1>2. b = Push(k, a)
  BY DEF Takes
<1>3. PICK n \in Nat : n = 0
  OBVIOUS
<1>4. vals = SubSeq(vals, n + 1, Len(vals))
  <2>1. vals \in Seq({vals[k_1] : k_1 \in 1..Len(vals)})
    BY RangeLemma DEF ValsFit
  <2> QED
    BY <1>3, <2>1
<1>5. n <= Len(a) /\ 0 \in 0..Len(a)
  BY <1>3 DEF IsSequence
<1>6. ValsFit(Push(k, Cut(a, n)))'
  <2>1. vals' = <<v>> \o SubSeq(vals, n + 1, Len(vals))
    BY <1>4
  <2> QED
    BY <1>5, <2>1, FitsResult
<1>7. Push(k, Cut(a, n)) = b
  BY <1>2, <1>3, CutPush
<1>8. ValsFit(b)'
  BY <1>6, <1>7
<1>9. IsSequence(b) /\ b[1] = k
  BY <1>2, PushLemma
<1>10. PICK tasks : tasks = <<>>
  OBVIOUS
<1>11. IsSequence(tasks) /\ Continue(tasks) /\ Runs(kind, tasks, b, b)
  BY <1>9, <1>10, BalancedNone, RunsNone
<1> QED
  BY <1>8, <1>9, <1>11, ValuedNext

LEMMA LeafValued ==
    ASSUME SInv, TInv, NEW kind, Kinded(kind), KInv(kind), NamesResolve(kind), Gains, Leaf
    PROVE  Valued(kind)'
<1>1. /\ agenda # <<>> /\ This.do \in Evaluating /\ Continue(<<>>)
      /\ \/ This.it.e = "INT" /\ vals' = <<Literal(This.it.n)>> \o vals
         \/ This.it.e = "ID" /\ vals' = <<findSymbol(This.it.x)>> \o vals
  BY DEF Leaf, Doing, Evaluating
<1>2. PICK a, b, z : /\ ValsFit(a) /\ IsSequence(a) /\ IsSequence(b)
                     /\ Takes(kind, This, a, b) /\ Runs(kind, Tail(agenda), b, z)
  BY <1>1, AtWork DEF KInv
<1>3. PICK e : e = This.it /\ e \in Exps
  BY <1>1, AtHand DEF TaskOK, Evaluating
<1>4. PICK k : k = Given(kind, This)
  OBVIOUS
<1>5. CASE e.e = "INT"
  <2>1. k = 0
    <3>1. kind[e] = 0
      BY <1>3, <1>5, TypedNodes
    <3> QED
      BY <1>3, <1>4, <1>5, <3>1 DEF Given
  <2>2. PICK v : v = Literal(e.n)
    OBVIOUS
  <2>3. v.sort \notin {"label", "rel", "null"}
    BY <2>2 DEF Literal, Const
  <2>4. vals' = <<v>> \o vals
    BY <1>1, <1>3, <1>5, <2>2
  <2>5. Fits(v, k)'
    BY <2>1, <2>3, FitsSimple
  <2>6. k # Judgement
    BY <2>1 DEF Judgement
  <2> QED
    BY <1>1, <1>2, <1>4, <2>4, <2>5, <2>6, ValuedPut
<1>6. CASE e.e = "ID"
  <2>1. PICK m \in Nat : m = kind[e]
    BY <1>3, <1>6, TypedNodes
  <2>2. k = m \/ (m = 0 /\ k = Target)
    BY <1>3, <1>4, <2>1 DEF Given
  <2>3. PICK v : v = findSymbol(e.x)
    OBVIOUS
  <2>4. vals' = <<v>> \o vals
    BY <1>1, <1>3, <1>6, <2>3
  <2>5. /\ v # NoDecl
        /\ IF m = 0 THEN v.sort = "v" ELSE v.sort = "array" /\ Len(v.dims) = m
    <3>1. Doing({"Exp", "Exp="})
      BY DEF Leaf
    <3> QED
      BY <1>3, <1>6, <2>1, <2>3, <3>1 DEF NamesResolve
  <2>6. Known(v)
    BY <2>3, <2>5, FoundIsKnown DEF KInv
  <2>7. Grow
    BY DEF Gains
  <2>8. Fits(v, k)' /\ k # Judgement
    <3>1. CASE m = 0
      <4>1. v.sort = "v" /\ v \in VTags
        BY <2>5, <2>6, <3>1 DEF Known
      <4>2. CASE k = 0
        <5>1. v.sort \notin {"label", "rel", "null"}
          BY <4>1
        <5> QED
          BY <4>2, <5>1, FitsSimple DEF Judgement
      <4>3. CASE k = Target
        <5>1. v.sort \notin {"label", "rel", "null"}
          BY <4>1
        <5>2. Fits(v, Target)'
          BY <4>1, <5>1, FitsTarget
        <5>3. Target # Judgement
          BY DEF Target, Judgement
        <5> QED
          BY <4>3, <5>2, <5>3
      <4> QED
        BY <2>2, <3>1, <4>2, <4>3
    <3>2. CASE m # 0
      <4>1. k = m /\ m \in Nat \ {0}
        BY <2>2, <3>2
      <4>2. v.sort = "array" /\ Len(v.dims) = m
        BY <2>5, <3>2
      <4>3. v.at \in VTags \cup TTags \cup Places /\ IsSequence(v.dims)
        BY <2>6, <4>2 DEF Known
      <4>4. v.at \in VTags' \cup TTags' \cup Places'
        BY <2>7, <4>3, TagsGrow
      <4>5. Fits(v, m)'
        BY <4>1, <4>2, <4>3, <4>4, FitsArray
      <4>6. m # Judgement
        BY <4>1 DEF Judgement
      <4> QED
        BY <4>1, <4>5, <4>6
    <3> QED
      BY <3>1, <3>2
  <2> QED
    BY <1>1, <1>2, <1>4, <2>4, <2>8, ValuedPut
<1> QED
  BY <1>1, <1>3, <1>5, <1>6

(* The operands of an operation, and then the operation.                   *)
LEMMA RunsOperation ==
    ASSUME NEW kind, NEW s, IsSequence(s), \A i \in 1..Len(s) : s[i].do \in Evaluating,
           NEW x, x.do \in Operating, x.it \in Exps, x.do = x.it.e \/ (x.do = "LB=" /\ x.it.e = "LB"),
           Len(s) = Len(x.it.of),
           x.do = "ASSIGN" => Len(s) = 2 /\ Given(kind, s[2]) = Target,
           x.do \in {"LB", "LB="} =>
               Len(s) = 2 /\ kind[x.it] \in Nat /\ Given(kind, s[1]) = kind[x.it] + 1,
           x.do \in Readers => \A i \in 1..Len(s) : Given(kind, s[i]) \in Nat \cup {Target},
           NEW a, IsSequence(a)
    PROVE  Runs(kind, s \o <<x>>, Cut(a, 0), Push(Given(kind, x), a))
<1>1. PICK n \in Nat : n = Len(s)
  BY DEF IsSequence
<1>2. PICK c : c = Cut(a, 0)
  OBVIOUS
<1>3. IsSequence(c) /\ Cut(c, 0) = c
  <2>1. 0 \in 0..Len(a)
    BY DEF IsSequence
  <2> QED
    BY <1>2, <2>1, CutIsCalm DEF Calm
<1>4. PICK b : /\ IsSequence(b) /\ Runs(kind, s, c, b) /\ Len(b) = Len(c) + n
               /\ Cut(b, n) = Cut(c, 0)
               /\ n > 0 => b[1] = Given(kind, s[n])
               /\ \A i \in 1..n : i > 1 => b[i] = Drop(Given(kind, s[n + 1 - i]))
  <2>1. PICK b : Laid(kind, s, c, b)
    BY <1>3, RunsExps
  <2> QED
    BY <1>1, <2>1 DEF Laid
<1>5. PICK g : g = Given(kind, x)
  OBVIOUS
<1>6. PICK d : d = Push(g, a)
  OBVIOUS
<1>7. IsSequence(d) /\ d = Push(g, Cut(b, n))
  <2>1. Push(g, c) = d
    BY <1>2, <1>6, CutPush
  <2>2. Cut(b, n) = c
    BY <1>1, <1>3, <1>4
  <2> QED
    BY <1>6, <2>1, <2>2, PushLemma
<1>8. n \in 0..Len(b)
  <2>1. Len(c) \in Nat
    BY <1>3 DEF IsSequence
  <2> QED
    BY <1>1, <1>4, <2>1
<1>9. ASSUME x.do = "ASSIGN" PROVE b[1] = Target
  <2>1. n = 2 /\ Given(kind, s[2]) = Target
    BY <1>1, <1>9
  <2> QED
    BY <1>1, <1>4, <2>1
<1>10. ASSUME x.do \in {"LB", "LB="} PROVE b[2] = kind[x.it] + 1
  <2>1. n = 2 /\ kind[x.it] \in Nat /\ Given(kind, s[1]) = kind[x.it] + 1
    BY <1>1, <1>10
  <2>2. PICK l \in Nat : l = kind[x.it] + 1
    BY <2>1
  <2>3. l # Judgement
    BY DEF Judgement
  <2>4. 2 \in 1..n /\ 2 > 1 /\ n + 1 - 2 = 1
    BY <2>1
  <2>5. b[2] = Drop(Given(kind, s[n + 1 - 2]))
    BY <1>1, <1>4, <2>4
  <2>6. b[2] = Drop(l)
    BY <2>1, <2>2, <2>4, <2>5
  <2> QED
    BY <2>2, <2>3, <2>6 DEF Drop
<1>11. ASSUME x.do \in Readers, NEW i \in 1..Len(x.it.of) PROVE b[i] \in Nat \cup {Target}
  <2>1. i \in 1..n /\ n + 1 - i \in 1..n
    BY <1>1, <1>11
  <2>2. PICK w : w = Given(kind, s[n + 1 - i]) /\ w \in Nat \cup {Target}
    BY <1>1, <1>11, <2>1
  <2>3. Drop(w) = w
    BY <2>2 DEF Drop, Judgement, Target
  <2>4. CASE i = 1
    <3>1. n > 0 /\ n + 1 - i = n
      BY <2>1, <2>4
    <3>2. b[i] = Given(kind, s[n])
      BY <1>4, <2>4, <3>1
    <3> QED
      BY <2>2, <3>1, <3>2
  <2>5. CASE i > 1
    <3>1. b[i] = Drop(Given(kind, s[n + 1 - i]))
      BY <1>1, <1>4, <2>1, <2>5
    <3> QED
      BY <2>2, <2>3, <3>1
  <2> QED
    BY <2>1, <2>4, <2>5
<1>12. Takes(kind, x, b, d)
  <2>1. x.do \notin Evaluating \cup Taking
    BY DEF Evaluating, Operating, Operations, RelOps, ArithOps, Taking
  <2>2. x.do \notin {"IF", "WHILE"}
    BY <2>1 DEF Taking
  <2>3. Len(x.it.of) \in 0..Len(b) /\ d = Push(Given(kind, x), Cut(b, Len(x.it.of)))
    BY <1>1, <1>5, <1>7, <1>8
  <2> QED
    BY <1>9, <1>10, <1>11, <2>1, <2>2, <2>3 DEF Takes
<1>13. PICK t : t = <<x>>
  OBVIOUS
<1>14. IsSequence(t) /\ Runs(kind, t, b, d)
  BY <1>4, <1>7, <1>12, <1>13, BalOne, RunsOne
<1>15. Runs(kind, s \o t, c, d)
  BY <1>4, <1>14, RunsConcat
<1> QED
  BY <1>2, <1>5, <1>6, <1>13, <1>15

LEMMA EachExps ==
    ASSUME NEW do \in Evaluating, NEW list \in Seq(Exps)
    PROVE  /\ IsSequence(Each(do, list)) /\ Len(Each(do, list)) = Len(list)
           /\ \A i \in 1..Len(list) : Each(do, list)[i] = Do(do, list[i])
           /\ \A i \in 1..Len(list) : Each(do, list)[i].do \in Evaluating
<1>1. PICK s : s = Each(do, list)
  OBVIOUS
<1>2. PICK n \in Nat : n = Len(list)
  OBVIOUS
<1>3. s = [k \in 1..n |-> [do |-> do, it |-> list[k]]]
  BY <1>1, <1>2 DEF Each
<1>4. s = [k \in 1..n |-> s[k]] /\ \A i \in 1..n : s[i] = Do(do, list[i])
  BY <1>3 DEF Do
<1>5. IsSequence(s) /\ Len(s) = n
  BY <1>4, FunctionLemma
<1>6. Do(do, NULL).do = do /\ \A i \in 1..n : Do(do, list[i]).do = do
  BY DEF Do
<1> QED
  BY <1>1, <1>2, <1>4, <1>5, <1>6

LEMMA GivenOf ==
    ASSUME NEW kind, NEW do, NEW it
    PROVE  /\ Do(do, it).do = do /\ Do(do, it).it = it
           /\ Given(kind, Do(do, it)) =
                 IF do \in {"Exp=", "LB="} /\ it.e \in {"ID", "LB"} /\ kind[it] = 0 THEN Target ELSE kind[it]
BY DEF Do, Given

LEMMA OperandsRun ==
    ASSUME NEW kind, Kinded(kind), NEW e \in Exps, e.e \notin {"INT", "ID", "LP", "ASSIGN"},
           NEW do \in Evaluating, NEW op, op = e.e \/ (op = "LB=" /\ e.e = "LB"), e.e # "LB" => do = "Exp",
           NEW a, IsSequence(a)
    PROVE  Runs(kind, Each(do, e.of) \o <<Do(op, e)>>, Cut(a, 0), Push(Given(kind, Do(op, e)), a))
<1>1. e.e \in Operations /\ e.of \in Seq(Exps)
  BY Nodes
<1>2. PICK s : s = Each(do, e.of)
  OBVIOUS
<1>3. /\ IsSequence(s) /\ Len(s) = Len(e.of) /\ \A i \in 1..Len(e.of) : s[i] = Do(do, e.of[i])
      /\ \A i \in 1..Len(s) : s[i].do \in Evaluating
  BY <1>1, <1>2, EachExps
<1>4. PICK x : x = Do(op, e)
  OBVIOUS
<1>5. x.do = op /\ x.it = e
  BY <1>4, GivenOf
<1>6. op \in Operating /\ op # "ASSIGN" /\ (op \in {"LB", "LB="} => e.e = "LB") /\ (op \in Readers => e.e \in Readers)
  BY <1>1 DEF Operating, Operations, Readers, RelOps, ArithOps
<1>7. ASSUME NEW k, k = kind[e.of[1]], Len(e.of) >= 1, k = 0 => do = "Exp" \/ e.of[1].e \notin {"ID", "LB"}
      PROVE  Given(kind, s[1]) = k
  <2>1. s[1] = Do(do, e.of[1])
    BY <1>1, <1>3, <1>7
  <2>2. do = "Exp" => do \notin {"Exp=", "LB="}
    OBVIOUS
  <2> QED
    BY <1>7, <2>1, <2>2, GivenOf
<1>8. ASSUME e.e = "LB" PROVE Len(s) = 2 /\ kind[e] \in Nat /\ Given(kind, s[1]) = kind[e] + 1
  <2>1. Len(e.of) = 2 /\ kind[e] \in Nat /\ kind[e.of[1]] = kind[e] + 1
    BY <1>8, TypedNodes
  <2>2. PICK k : k = kind[e.of[1]]
    OBVIOUS
  <2>3. k # 0 /\ Len(e.of) >= 1
    BY <2>1, <2>2
  <2> QED
    BY <1>3, <1>7, <2>1, <2>2, <2>3
<1>9. ASSUME e.e \in Readers, NEW i \in 1..Len(s) PROVE Given(kind, s[i]) \in Nat \cup {Target}
  <2>1. i \in 1..Len(e.of) /\ s[i] = Do(do, e.of[i])
    BY <1>3
  <2>2. kind[e.of[i]] \in Nat
    BY <1>9, <2>1, TypedOperands
  <2>3. Given(kind, s[i]) \in {Target, kind[e.of[i]]}
    BY <2>1, GivenOf
  <2> QED
    BY <2>2, <2>3
<1> QED
  BY <1>2, <1>3, <1>4, <1>5, <1>6, <1>8, <1>9, RunsOperation

LEMMA TripleLemma ==
    ASSUME NEW p, NEW q, NEW x
    PROVE  <<p, q>> \o <<x>> = <<p, q, x>>
<1>1. PICK s, t, u, v : s = <<p, q>> /\ t = <<x>> /\ u = s \o t /\ v = <<p, q, x>>
  OBVIOUS
<1>2. IsSequence(s) /\ Len(s) = 2 /\ s[1] = p /\ s[2] = q
  BY <1>1, TwoElements
<1>3. IsSequence(t) /\ Len(t) = 1 /\ t[1] = x
  BY <1>1, BalOne
<1>4. IsSequence(v) /\ Len(v) = 3 /\ v[1] = p /\ v[2] = q /\ v[3] = x
  BY <1>1, ThreeElements
<1>5. /\ IsSequence(u) /\ Len(u) = Len(s) + Len(t)
      /\ \A k \in 1..Len(s) : u[k] = s[k]
      /\ \A k \in 1..Len(t) : u[Len(s) + k] = t[k]
  BY <1>1, <1>2, <1>3, ConcatSequences
<1>6. Len(u) = 3 /\ u[1] = p /\ u[2] = q /\ u[3] = x
  <2>1. 1 \in 1..2 /\ 2 \in 1..2 /\ 1 \in 1..1 /\ 2 + 1 = 3
    OBVIOUS
  <2>2. u[1] = s[1] /\ u[2] = s[2] /\ u[2 + 1] = t[1]
    BY <1>2, <1>3, <1>5, <2>1
  <2> QED
    BY <1>2, <1>3, <1>5, <2>1, <2>2
<1>7. \A k \in 1..3 : k = 1 \/ k = 2 \/ k = 3
  OBVIOUS
<1>8. u = v
  BY <1>4, <1>5, <1>6, <1>7, SameSequence
<1> QED
  BY <1>1, <1>8

LEMMA OperandsValued ==
    ASSUME SInv, TInv, NEW kind, Kinded(kind), KInv(kind), Gains, Operands
    PROVE  Valued(kind)'
<1>1. /\ agenda # <<>> /\ This.do \in Evaluating /\ UNCHANGED vals
  BY DEF Operands, Doing, Evaluating
<1>2. PICK a, b, z : /\ ValsFit(a) /\ IsSequence(a) /\ IsSequence(b)
                     /\ Takes(kind, This, a, b) /\ Runs(kind, Tail(agenda), b, z)
  BY <1>1, AtWork DEF KInv
<1>3. PICK e : e = This.it /\ e \in Exps /\ e.e \notin {"INT", "ID"}
  BY <1>1, AtHand DEF TaskOK, Evaluating, Operands
<1>4. e.e \in Operations /\ e.of \in Seq(Exps)
  BY <1>3, Nodes
<1>5. PICK k : k = Given(kind, This)
  OBVIOUS
<1>6. b = Push(k, a)
  BY <1>1, <1>2, <1>5 DEF Takes
<1>7. ASSUME NEW tasks, IsSequence(tasks), Continue(tasks), Runs(kind, tasks, Cut(a, 0), b)
      PROVE  Valued(kind)'
  BY <1>1, <1>2, <1>7, ValuedMore
<1>8. CASE e.e = "ASSIGN"
  <2>1. PICK f, g : f = e.of[1] /\ g = e.of[2]
    OBVIOUS
  <2>2. f.e \in {"ID", "LB"} /\ kind[f] = 0 /\ kind[g] = 0 /\ kind[e] = 0 /\ Len(e.of) = 2
    <3>1. f.e \in {"ID", "LB"} /\ kind[e] = 0 /\ Len(e.of) = 2
      BY <1>3, <1>8, <2>1, Nodes, TypedNodes
    <3>2. "ASSIGN" \in Readers /\ 1 \in 1..Len(e.of) /\ 2 \in 1..Len(e.of)
      BY <3>1 DEF Readers
    <3> QED
      BY <1>3, <1>8, <2>1, <3>1, <3>2, TypedOperands
  <2>3. PICK s, x : s = <<Do("Exp", g), Do("Exp=", f)>> /\ x = Do("ASSIGN", e)
    OBVIOUS
  <2>4. IsSequence(s) /\ Len(s) = 2 /\ s[1] = Do("Exp", g) /\ s[2] = Do("Exp=", f)
    BY <2>3, TwoElements
  <2>5. /\ Given(kind, s[2]) = Target
        /\ \A i \in 1..Len(s) : Given(kind, s[i]) \in Nat \cup {Target}
    <3>1. Given(kind, s[2]) = Target /\ Given(kind, s[1]) = 0
      BY <2>2, <2>4, GivenOf
    <3>2. \A i \in 1..2 : i = 1 \/ i = 2
      OBVIOUS
    <3> QED
      BY <2>4, <3>1, <3>2
  <2>6. \A i \in 1..Len(s) : s[i].do \in Evaluating
    <3>1. \A i \in 1..2 : i = 1 \/ i = 2
      OBVIOUS
    <3>2. PICK p, q : p = s[1] /\ q = s[2]
      OBVIOUS
    <3>3. p.do \in Evaluating /\ q.do \in Evaluating
      BY <2>4, <3>2 DEF Do, Evaluating
    <3> QED
      BY <2>4, <3>1, <3>2, <3>3
  <2>7. x.do = "ASSIGN" /\ x.it = e /\ Given(kind, x) = 0
    <3>1. x.do = "ASSIGN" /\ x.it = e
      BY <2>3 DEF Do
    <3> QED
      BY <2>2, <3>1 DEF Given
  <2>8. x.do \in Operating /\ x.do \notin {"LB", "LB="}
    BY <2>7 DEF Operating, Operations
  <2>9. Runs(kind, s \o <<x>>, Cut(a, 0), Push(0, a))
    BY <1>2, <1>3, <1>8, <2>2, <2>4, <2>5, <2>6, <2>7, <2>8, RunsOperation
  <2>10. k = 0
    BY <1>3, <1>5, <1>8, <2>2 DEF Given
  <2>11. PICK tasks : tasks = s \o <<x>>
    OBVIOUS
  <2>12. tasks = <<Do("Exp", g), Do("Exp=", f), Do("ASSIGN", e)>>
    <3>1. PICK p, q : p = Do("Exp", g) /\ q = Do("Exp=", f)
      OBVIOUS
    <3>2. <<p, q>> \o <<x>> = <<p, q, x>>
      BY TripleLemma
    <3> QED
      BY <2>3, <2>11, <3>1, <3>2
  <2>13. Continue(tasks)
    BY <1>3, <1>8, <2>1, <2>12 DEF Operands
  <2>14. IsSequence(tasks)
    BY <2>4, <2>11, BalOne, ConcatSequences
  <2> QED
    BY <1>6, <1>7, <2>9, <2>10, <2>11, <2>13, <2>14
<1>9. CASE e.e = "LP"
  <2>1. Len(e.of) = 1 /\ kind[e] = kind[e.of[1]]
    BY <1>3, <1>9, TypedNodes
  <2>2. k = kind[e]
    BY <1>3, <1>5, <1>9 DEF Given
  <2>3. PICK s : s = Each("Exp", e.of)
    OBVIOUS
  <2>4. /\ IsSequence(s) /\ Len(s) = 1 /\ s[1] = Do("Exp", e.of[1])
        /\ \A i \in 1..Len(s) : s[i].do \in Evaluating
    <3>1. "Exp" \in Evaluating /\ 1 \in 1..1
      BY DEF Evaluating
    <3> QED
      BY <1>4, <2>1, <2>3, <3>1, EachExps
  <2>5. Given(kind, s[1]) = k
    BY <2>1, <2>2, <2>4, GivenOf
  <2>6. PICK c : c = Cut(a, 0)
    OBVIOUS
  <2>7. IsSequence(c) /\ Push(k, c) = b
    <3>1. 0 \in 0..Len(a)
      BY <1>2 DEF IsSequence
    <3> QED
      BY <1>2, <1>6, <2>6, <3>1, CutLemma, CutPush
  <2>8. Takes(kind, s[1], c, b)
    <3>1. s[1].do \in Evaluating /\ s[1].do \notin Operating \cup Taking
      BY <2>4 DEF Evaluating, Operating, Operations, RelOps, ArithOps, Taking, Do
    <3> QED
      BY <2>5, <2>7, <3>1 DEF Takes, Taking
  <2>9. PICK x : x = s[1]
    OBVIOUS
  <2>10. Runs(kind, <<x>>, c, b)
    BY <1>2, <2>7, <2>8, <2>9, RunsOne
  <2>11. s = <<x>>
    <3>1. PICK t : t = <<x>>
      OBVIOUS
    <3>2. IsSequence(t) /\ Len(t) = 1 /\ t[1] = x
      BY <3>1, BalOne
    <3>3. \A i \in 1..1 : s[i] = t[i]
      BY <2>9, <3>2
    <3> QED
      BY <2>4, <3>1, <3>2, <3>3, SameSequence
  <2>12. Continue(s)
    BY <1>1, <1>3, <1>9, <2>3 DEF Operands
  <2> QED
    BY <1>7, <2>4, <2>6, <2>10, <2>11, <2>12
<1>10. CASE This.do = "Exp=" /\ e.e = "LB"
  <2>1. PICK tasks : tasks = Each("Exp=", e.of) \o <<Do("LB=", e)>>
    OBVIOUS
  <2>2. Continue(tasks)
    BY <1>3, <1>10, <2>1 DEF Operands
  <2>3. "Exp=" \in Evaluating
    BY DEF Evaluating
  <2>4. Runs(kind, tasks, Cut(a, 0), Push(Given(kind, Do("LB=", e)), a))
    BY <1>2, <1>3, <1>10, <2>1, <2>3, OperandsRun
  <2>5. Given(kind, Do("LB=", e)) = k
    <3>1. Given(kind, Do("LB=", e)) = IF kind[e] = 0 THEN Target ELSE kind[e]
      BY <1>10, GivenOf
    <3>2. k = IF kind[e] = 0 THEN Target ELSE kind[e]
      BY <1>3, <1>5, <1>10 DEF Given
    <3> QED
      BY <3>1, <3>2
  <2>6. IsSequence(tasks)
    BY <1>4, <2>1, <2>3, EachExps, BalOne, ConcatSequences
  <2> QED
    BY <1>6, <1>7, <2>2, <2>4, <2>5, <2>6
<1>11. CASE e.e \notin {"ASSIGN", "LP"} /\ ~(This.do = "Exp=" /\ e.e = "LB")
  <2>1. PICK tasks : tasks = Each("Exp", e.of) \o <<Do(e.e, e)>>
    OBVIOUS
  <2>2. Continue(tasks)
    BY <1>3, <1>11, <2>1 DEF Operands
  <2>3. "Exp" \in Evaluating
    BY DEF Evaluating
  <2>4. Runs(kind, tasks, Cut(a, 0), Push(Given(kind, Do(e.e, e)), a))
    BY <1>2, <1>3, <1>11, <2>1, <2>3, OperandsRun
  <2>5. Given(kind, Do(e.e, e)) = k
    <3>1. e.e \notin {"Exp=", "LB="}
      BY <1>4 DEF Operations, RelOps, ArithOps
    <3>2. Given(kind, Do(e.e, e)) = kind[e]
      BY <3>1, GivenOf
    <3>3. k = kind[e]
      BY <1>1, <1>3, <1>5, <1>11 DEF Given, Evaluating
    <3> QED
      BY <3>2, <3>3
  <2>6. IsSequence(tasks)
    BY <1>4, <2>1, <2>3, EachExps, BalOne, ConcatSequences
  <2> QED
    BY <1>6, <1>7, <2>2, <2>4, <2>5, <2>6
<1> QED
  BY <1>8, <1>9, <1>10, <1>11

-----------------------------------------------------------------------------
(* The other handlers.                                                     *)
LEMMA QuietValued ==
    ASSUME SInv, NEW kind, Valued(kind), Gains,
           EnterScope \/ LeaveScope \/ EndThen \/ EndIf \/ EndWhile \/ ParamDec
    PROVE  Valued(kind)'
<1>1. /\ agenda # <<>> /\ This.do \in {"pushScope", "popScope", "EndThen", "EndIf", "EndWhile", "ParamDec"}
      /\ UNCHANGED vals /\ Continue(<<>>)
  BY DEF EnterScope, LeaveScope, EndThen, EndIf, EndWhile, ParamDec, VarDec, Task, Doing
<1>2. This.do \notin Loud
  BY <1>1 DEF Loud, Evaluating, Operating, Operations, RelOps, ArithOps, Taking
<1>3. PICK tasks : tasks = <<>>
  OBVIOUS
<1>4. Silent(kind, tasks) /\ Continue(tasks)
  BY <1>1, <1>3, SilentNone
<1> QED
  BY <1>1, <1>2, <1>4, ValuedQuiet

LEMMA TakenValued ==
    ASSUME SInv, NEW kind, Valued(kind), Gains, InitVar \/ Expression \/ Return
    PROVE  Valued(kind)'
<1>1. /\ agenda # <<>> /\ This.do \in {"Init", "Exp;", "RETURN"}
      /\ vals' = Tail(vals) /\ Continue(<<>>)
  BY DEF InitVar, Expression, Return, Task, Doing
<1>2. This.do \in Taking
  BY <1>1 DEF Taking
<1>3. PICK tasks : tasks = <<>>
  OBVIOUS
<1>4. Silent(kind, tasks) /\ Continue(tasks)
  BY <1>1, <1>3, SilentNone
<1> QED
  BY <1>1, <1>2, <1>4, ValuedTaking

LEMMA Unheard ==
    /\ {"pushScope", "popScope", "ExtDef", "FunBody", "ParamDec", "Dec", "Stmt", "ELSE", "EndThen", "EndIf", "EndWhile"}
          \cap Loud = {}
    /\ {"Exp;", "RETURN", "IF", "WHILE", "Init"} \subseteq Taking
BY DEF Loud, Evaluating, Operating, Operations, RelOps, ArithOps, Taking

LEMMA ExtDefValued ==
    ASSUME SInv, NEW kind, Valued(kind), Gains, ExtDef
    PROVE  Valued(kind)'
<1>1. agenda # <<>> /\ This.do = "ExtDef" /\ UNCHANGED vals
  BY DEF ExtDef, Task, Doing
<1>2. This.it.params \in Seq(Decs)
  BY <1>1, AtHand DEF TaskOK, ExtDef
<1>3. PICK s, t : s = Each("ParamDec", This.it.params) /\ t = <<Do("FunBody", This.it)>>
  OBVIOUS
<1>4. This.do \notin Loud /\ "ParamDec" \notin Loud /\ "FunBody" \notin Loud
  BY <1>1, Unheard
<1>5. Silent(kind, s) /\ Silent(kind, t)
  BY <1>2, <1>3, <1>4, SilentEach, SilentOne
<1>6. PICK tasks : tasks = s \o t
  OBVIOUS
<1>7. Silent(kind, tasks)
  BY <1>5, <1>6, SilentConcat
<1>8. Continue(tasks)
  BY <1>3, <1>6 DEF ExtDef
<1> QED
  BY <1>1, <1>4, <1>7, <1>8, ValuedQuiet

LEMMA ExtDecListValued ==
    ASSUME SInv, NEW kind, Valued(kind), Gains, ExtDecList
    PROVE  Valued(kind)'
<1>1. agenda # <<>> /\ This.do = "ExtDef" /\ UNCHANGED vals
  BY DEF ExtDecList, Task, Doing
<1>2. This.it.decs \in Seq(Decs)
  BY <1>1, AtHand DEF TaskOK, ExtDecList
<1>3. PICK tasks : tasks = Each("Dec", This.it.decs)
  OBVIOUS
<1>4. This.do \notin Loud /\ "Dec" \notin Loud
  BY <1>1, Unheard
<1>5. Silent(kind, tasks)
  BY <1>2, <1>3, <1>4, SilentEach
<1>6. Continue(tasks)
  BY <1>3 DEF ExtDecList
<1> QED
  BY <1>1, <1>4, <1>5, <1>6, ValuedQuiet

LEMMA FunBodyValued ==
    ASSUME SInv, NEW kind, Valued(kind), Gains, FunBody
    PROVE  Valued(kind)'
<1>1. agenda # <<>> /\ This.do = "FunBody" /\ UNCHANGED vals
  BY DEF FunBody, Task, Doing
<1>2. PICK tasks : Continue(tasks) /\ (tasks = <<>> \/ tasks = Scoped(This.it.body))
  BY DEF FunBody
<1>3. Silent(kind, tasks)
  BY <1>2, SilentNone, SilentScoped
<1>4. This.do \notin Loud
  BY <1>1, Unheard
<1> QED
  BY <1>1, <1>2, <1>3, <1>4, ValuedQuiet

LEMMA DecValued ==
    ASSUME SInv, NEW kind, Kinded(kind), Valued(kind), Gains, Dec
    PROVE  Valued(kind)'
<1>1. agenda # <<>> /\ This.do = "Dec" /\ UNCHANGED vals
  BY DEF Dec, VarDec, Task, Doing
<1>2. PICK d : d = This.it /\ d \in Decs
  BY <1>1, AtHand DEF TaskOK
<1>3. d.init \in Seq(Exps) /\ Len(d.init) <= 1
  BY <1>2, TranslateAssumption DEF Kinded, Typing
<1>4. PICK n \in Nat : n = Len(d.init) /\ DOMAIN d.init = 1..n /\ n \in {0, 1}
  BY <1>3
<1>5. PICK s, t : s = Each("Exp", d.init) /\ t = [k \in 1..n |-> Do("Init", d.x)]
  OBVIOUS
<1>6. PICK tasks : tasks = s \o t
  OBVIOUS
<1>7. Continue(tasks)
  BY <1>2, <1>4, <1>5, <1>6 DEF Dec
<1>8. This.do \notin Loud
  BY <1>1, Unheard
<1>9. IsSequence(s) /\ Len(s) = n /\ \A i \in 1..n : s[i] = Do("Exp", d.init[i])
  <2>1. "Exp" \in Evaluating
    BY DEF Evaluating
  <2> QED
    BY <1>3, <1>4, <1>5, <2>1, EachExps
<1>10. IsSequence(t) /\ Len(t) = n /\ \A i \in 1..n : t[i] = Do("Init", d.x)
  <2>1. t = [i \in 1..n |-> t[i]] /\ \A i \in 1..n : t[i] = Do("Init", d.x)
    BY <1>5
  <2> QED
    BY <2>1, FunctionLemma
<1>11. CASE n = 0
  <2>1. Silent(kind, s) /\ Silent(kind, t)
    <3>1. \A i \in 1..n : FALSE
      BY <1>11
    <3> QED
      BY <1>9, <1>10, <3>1, SilentIdle
  <2>2. Silent(kind, tasks)
    BY <1>6, <2>1, SilentConcat
  <2> QED
    BY <1>1, <1>7, <1>8, <2>2, ValuedQuiet
<1>12. CASE n = 1
  <2>1. PICK e, x : e = d.init[1] /\ x = d.x
    OBVIOUS
  <2>2. PICK p, q : p = <<Do("Exp", e)>> /\ q = <<Do("Init", x)>>
    OBVIOUS
  <2>3. /\ IsSequence(p) /\ Len(p) = 1 /\ p[1] = Do("Exp", e)
        /\ IsSequence(q) /\ Len(q) = 1 /\ q[1] = Do("Init", x)
    BY <2>2, BalOne
  <2>4. \A i \in 1..1 : i = 1
    OBVIOUS
  <2>5. s[1] = p[1] /\ t[1] = q[1]
    BY <1>9, <1>10, <1>12, <2>1, <2>3
  <2>6. s = p /\ t = q
    BY <1>9, <1>10, <1>12, <2>3, <2>4, <2>5, SameSequence
  <2>7. tasks = <<Do("Exp", e), Do("Init", x)>>
    BY <1>6, <2>2, <2>6, PairLemma
  <2>8. Silent(kind, tasks)
    <3>1. "Init" \in Taking /\ "Init" \notin {"IF", "WHILE"}
      BY DEF Taking
    <3> QED
      BY <2>7, <3>1, SilentPair
  <2> QED
    BY <1>1, <1>7, <1>8, <2>8, ValuedQuiet
<1> QED
  BY <1>4, <1>11, <1>12

LEMMA CompStValued ==
    ASSUME SInv, NEW kind, Valued(kind), Gains, CompSt
    PROVE  Valued(kind)'
<1>1. agenda # <<>> /\ This.do = "Stmt" /\ This.it \in Stmts /\ This.it.s = "CompSt" /\ UNCHANGED vals
  BY StmtAtHand DEF CompSt
<1>2. This.it.defs \in Seq(Decs) /\ This.it.stmts \in Seq(Stmts)
  BY <1>1, TranslateAssumption
<1>3. PICK s, t : s = Each("Dec", This.it.defs) /\ t = Each("Stmt", This.it.stmts)
  OBVIOUS
<1>4. This.do \notin Loud /\ "Dec" \notin Loud /\ "Stmt" \notin Loud
  BY <1>1, Unheard
<1>5. Silent(kind, s) /\ Silent(kind, t)
  BY <1>2, <1>3, <1>4, SilentEach
<1>6. PICK tasks : tasks = s \o t
  OBVIOUS
<1>7. Silent(kind, tasks)
  BY <1>5, <1>6, SilentConcat
<1>8. Continue(tasks)
  BY <1>3, <1>6 DEF CompSt
<1> QED
  BY <1>1, <1>4, <1>7, <1>8, ValuedQuiet

(* What a condition is.                                                    *)
LEMMA ConditionKind ==
    ASSUME NEW kind, Kinded(kind), NEW s \in Stmts, s.s \in {"IF", "WHILE"}
    PROVE  kind[s.exp] \in Nat \cup {Judgement}
<1>1. PICK e : e = s.exp /\ e \in Exps
  BY TranslateAssumption
<1>2. kind[e] # Nothing
  BY <1>1 DEF Kinded, Typing
<1>3. kind[e] \in Nat \cup {Judgement, Nothing}
  BY <1>1, TypedNodes
<1> QED
  BY <1>1, <1>2, <1>3

LEMMA EvaluateValued ==
    ASSUME SInv, NEW kind, Kinded(kind), Valued(kind), Gains, Evaluate \/ While
    PROVE  Valued(kind)'
<1>1. /\ agenda # <<>> /\ This.do = "Stmt" /\ This.it \in Stmts /\ UNCHANGED vals
      /\ This.it.s \in {"Exp", "RETURN", "IF", "WHILE"}
  BY StmtAtHand DEF Evaluate, While
<1>2. PICK do, it : /\ Continue(<<Do("Exp", This.it.exp), Do(do, it)>>)
                    /\ do \in {"Exp;", "RETURN", "IF", "WHILE"}
                    /\ do \in {"IF", "WHILE"} => do = This.it.s
  <2>1. CASE Evaluate
    <3>1. This.it.s \in {"Exp", "RETURN", "IF"}
      BY <2>1 DEF Evaluate, Parsing
    <3>2. PICK w : w = IF This.it.s = "Exp" THEN "Exp;" ELSE This.it.s
      OBVIOUS
    <3>3. Continue(<<Do("Exp", This.it.exp), Do(w, This.it)>>)
      BY <2>1, <3>2 DEF Evaluate
    <3>4. w \in {"Exp;", "RETURN", "IF", "WHILE"}
      BY <3>1, <3>2
    <3>5. w \in {"IF", "WHILE"} => w = This.it.s
      BY <3>1, <3>2
    <3> QED
      BY <3>3, <3>4, <3>5
  <2>2. CASE While
    BY <2>2, StmtAtHand DEF While
  <2> QED
    BY <2>1, <2>2
<1>3. PICK e : e = This.it.exp
  OBVIOUS
<1>4. do \in {"IF", "WHILE"} => kind[e] \in Nat \cup {Judgement}
  BY <1>1, <1>2, <1>3, ConditionKind
<1>5. do \in Taking /\ This.do \notin Loud
  BY <1>1, <1>2, Unheard
<1>6. PICK tasks : tasks = <<Do("Exp", e), Do(do, it)>>
  OBVIOUS
<1>7. Silent(kind, tasks) /\ Continue(tasks)
  BY <1>2, <1>3, <1>4, <1>5, <1>6, SilentPair
<1> QED
  BY <1>1, <1>5, <1>7, ValuedQuiet

LEMMA ElseValued ==
    ASSUME SInv, NEW kind, Valued(kind), Gains, Else
    PROVE  Valued(kind)'
<1>1. agenda # <<>> /\ This.do = "ELSE" /\ UNCHANGED vals
  BY DEF Else, Task, Doing
<1>2. PICK s, t : s = Scoped(This.it.else[1]) /\ t = <<Do("EndIf", NULL)>>
  OBVIOUS
<1>3. This.do \notin Loud /\ "EndIf" \notin Loud
  BY <1>1, Unheard
<1>4. Silent(kind, s) /\ Silent(kind, t)
  BY <1>2, <1>3, SilentScoped, SilentOne
<1>5. PICK tasks : tasks = s \o t
  OBVIOUS
<1>6. Silent(kind, tasks)
  BY <1>4, <1>5, SilentConcat
<1>7. Continue(tasks)
  BY <1>2, <1>5 DEF Else
<1> QED
  BY <1>1, <1>3, <1>6, <1>7, ValuedQuiet

LEMMA IfValued ==
    ASSUME SInv, NEW kind, Valued(kind), Gains, If
    PROVE  Valued(kind)'
<1>1. agenda # <<>> /\ This.do = "IF" /\ vals' = Tail(vals)
  BY DEF If, Task, Doing
<1>2. PICK do, it : /\ Continue(Scoped(This.it.then) \o <<Do(do, it)>>)
                    /\ do \in {"EndThen", "ELSE"}
  BY DEF If
<1>3. PICK s, t : s = Scoped(This.it.then) /\ t = <<Do(do, it)>>
  OBVIOUS
<1>4. This.do \in Taking /\ do \notin Loud
  BY <1>1, <1>2, Unheard
<1>5. Silent(kind, s) /\ Silent(kind, t)
  BY <1>3, <1>4, SilentScoped, SilentOne
<1>6. PICK tasks : tasks = s \o t
  OBVIOUS
<1>7. Silent(kind, tasks) /\ Continue(tasks)
  BY <1>2, <1>3, <1>5, <1>6, SilentConcat
<1> QED
  BY <1>1, <1>4, <1>7, ValuedTaking

LEMMA WhileBodyValued ==
    ASSUME SInv, NEW kind, Valued(kind), Gains, WhileBody
    PROVE  Valued(kind)'
<1>1. agenda # <<>> /\ This.do = "WHILE" /\ vals' = Tail(vals)
  BY DEF WhileBody, Task, Doing
<1>2. PICK it : Continue(<<Do("pushScope", NULL), Do("Stmt", This.it.body), Do("EndWhile", it), Do("popScope", NULL)>>)
  BY DEF WhileBody
<1>3. PICK p, q, r, u : /\ p = Do("pushScope", NULL) /\ q = Do("Stmt", This.it.body)
                        /\ r = Do("EndWhile", it) /\ u = Do("popScope", NULL)
  OBVIOUS
<1>4. PICK tasks : tasks = <<p, q, r, u>>
  OBVIOUS
<1>5. IsSequence(tasks) /\ Len(tasks) = 4 /\ tasks[1] = p /\ tasks[2] = q /\ tasks[3] = r /\ tasks[4] = u
  BY <1>4 DEF IsSequence
<1>6. p.do \notin Loud /\ q.do \notin Loud /\ r.do \notin Loud /\ u.do \notin Loud
  BY <1>3, Unheard DEF Do
<1>7. \A i \in 1..4 : i = 1 \/ i = 2 \/ i = 3 \/ i = 4
  OBVIOUS
<1>8. \A i \in 1..Len(tasks) : tasks[i].do \notin Loud
  BY <1>5, <1>6, <1>7
<1>9. Silent(kind, tasks) /\ Continue(tasks)
  BY <1>2, <1>3, <1>4, <1>5, <1>8, SilentIdle
<1>10. This.do \in Taking
  BY <1>1, Unheard
<1> QED
  BY <1>1, <1>9, <1>10, ValuedTaking

LEMMA StepValued ==
    ASSUME SInv, TInv, CountersOK', NEW kind, Kinded(kind), KInv(kind), NamesResolve(kind), Parse
    PROVE  Valued(kind)'
<1>1. Gains
  BY StepGains
<1>2. Valued(kind)
  BY DEF KInv
<1>3. CASE EnterScope \/ LeaveScope \/ EndThen \/ EndIf \/ EndWhile \/ ParamDec
  BY <1>1, <1>2, <1>3, QuietValued
<1>4. CASE InitVar \/ Expression \/ Return
  BY <1>1, <1>2, <1>4, TakenValued
<1>5. CASE ExtDef \/ ExtDecList \/ FunBody \/ Dec
  BY <1>1, <1>2, <1>5, ExtDefValued, ExtDecListValued, FunBodyValued, DecValued
<1>6. CASE CompSt \/ Evaluate \/ While \/ Else
  BY <1>1, <1>2, <1>6, CompStValued, EvaluateValued, ElseValued
<1>7. CASE If \/ WhileBody
  BY <1>1, <1>2, <1>7, IfValued, WhileBodyValued
<1>8. CASE Leaf \/ Operands
  BY <1>1, <1>8, LeafValued, OperandsValued
<1>9. CASE Assignment \/ Relational \/ Arithmetic
  BY <1>1, <1>9, AssignmentValued, RelationalValued, ArithmeticValued
<1>10. CASE Logical
  BY <1>1, <1>10, LogicalJudged, LogicalValued
<1>11. CASE Minus \/ Index \/ Not \/ Call
  BY <1>1, <1>11, MinusValued, IndexValued, NotValued, CallValued
<1> QED
  BY <1>3, <1>4, <1>5, <1>6, <1>7, <1>8, <1>9, <1>10, <1>11 DEF Parse

-----------------------------------------------------------------------------
(* What a handler writes into hashmap.                                     *)
Written(key, tag) ==
    /\ hashmap' = With(key, tag) /\ key.sort # "v" /\ (key.sort = "t" => IsWord(tag)')
    /\ This.do \in Evaluating \cup Operating => key.sort \in {"t", "#0-"}

LEMMA DecWrites ==
    ASSUME SInv, NEW kind, Kinded(kind), ParamDec \/ Dec
    PROVE  UNCHANGED hashmap \/ \E key, tag : Written(key, tag)
<1>1. /\ agenda # <<>> /\ This.do \in {"ParamDec", "Dec"}
      /\ UNCHANGED hashmap \/ \E tag : hashmap' = With(This.it.x, tag)
  BY DEF ParamDec, Dec, VarDec, Task, Doing
<1>2. PICK d \in Decs : d = This.it
  BY <1>1, AtHand DEF TaskOK
<1>3. d.x.sort \notin {"v", "t", "#0-"}
  BY DEF Kinded, Typing
<1>4. This.do \notin Evaluating \cup Operating
  BY <1>1, Unheard DEF Loud
<1>5. PICK x : x = d.x
  OBVIOUS
<1>6. CASE \E tag : hashmap' = With(This.it.x, tag)
  <2>1. PICK tag : hashmap' = With(This.it.x, tag)
    BY <1>6
  <2>2. hashmap' = With(x, tag) /\ x.sort # "v" /\ x.sort # "t"
    BY <1>2, <1>3, <1>5, <2>1
  <2>3. Written(x, tag)
    BY <1>4, <2>2 DEF Written
  <2> QED
    BY <2>3
<1> QED
  BY <1>1, <1>6

LEMMA MinusWrites ==
    ASSUME Minus
    PROVE  UNCHANGED hashmap \/ \E key, tag : Written(key, tag)
<1>1. PICK key, tag : key = Negation(Opd(1)) /\ tag = generateT(tCnt)
  OBVIOUS
<1>2. UNCHANGED hashmap \/ hashmap' = With(key, tag)
  BY <1>1 DEF Minus
<1>3. key.sort = "#0-"
  BY <1>1 DEF Negation
<1>4. CASE hashmap' = With(key, tag)
  <2>1. Written(key, tag)
    BY <1>3, <1>4 DEF Written
  <2> QED
    BY <2>1
<1> QED
  BY <1>2, <1>4

LEMMA IndexWrites ==
    ASSUME TInv, CountersOK', Gains, OperandsFit, Index
    PROVE  UNCHANGED hashmap \/ \E key, tag : Written(key, tag)
<1>1. PICK array, i : array = Opd(1) /\ i = Opd(2)
  OBVIOUS
<1>2. PICK b, c, addr, value : Indexed(array, i, b, c, addr, value)
  <2>1. \E b, c, addr, value : Indexed(Opd(1), Opd(2), b, c, addr, value)
    BY IndexNumbers
  <2> QED
    BY <1>1, <2>1
<1>3. b \in Nat /\ c \in Nat /\ value = generateT(c) /\ addr = IF IsScaled(i) THEN generateT(b) ELSE array.at
  BY <1>2 DEF Indexed
<1>4. UNCHANGED hashmap \/ (hashmap' = With(value, WordAt(addr)) /\ tCnt' = c + 1)
  BY <1>2 DEF Indexed
<1>5. CASE hashmap' = With(value, WordAt(addr)) /\ tCnt' = c + 1
  <2>1. PICK tag : tag = WordAt(addr)
    OBVIOUS
  <2>2. addr \in VTags' \cup TTags' \cup Places'
    <3>1. CASE IsScaled(i)
      <4>1. b < c
        BY <1>2, <3>1 DEF Indexed
      <4>2. b < tCnt'
        BY <1>3, <1>5, <4>1
      <4>3. generateT(b) \in TTags'
        BY <1>3, <4>2, NewNumbers
      <4> QED
        BY <1>3, <3>1, <4>3
    <3>2. CASE ~IsScaled(i)
      <4>1. Doing({"LB", "LB="})
        BY DEF Index
      <4>2. array.at \in VTags \cup TTags \cup Places
        BY <1>1, <4>1 DEF OperandsFit
      <4>3. array.at \in VTags' \cup TTags' \cup Places'
        BY <4>2, TagsGrow DEF Gains
      <4> QED
        BY <1>3, <3>2, <4>3
    <3> QED
      BY <3>1, <3>2
  <2>3. tag.sort = "*" /\ tag.of = addr
    BY <2>1 DEF WordAt
  <2>4. IsWord(tag)'
    BY <2>2, <2>3 DEF IsWord
  <2>5. value.sort = "t"
    BY <1>3 DEF generateT
  <2>6. Written(value, tag)
    BY <1>5, <2>1, <2>4, <2>5 DEF Written
  <2> QED
    BY <2>6
<1> QED
  BY <1>4, <1>5

LEMMA StepWrites ==
    ASSUME SInv, TInv, CountersOK', Gains, NEW kind, Kinded(kind), OperandsFit, Parse
    PROVE  UNCHANGED hashmap \/ \E key, tag : Written(key, tag)
<1>1. CASE ParamDec \/ Dec
  BY <1>1, DecWrites
<1>2. CASE Minus
  BY <1>2, MinusWrites
<1>3. CASE Index
  BY <1>3, IndexWrites
<1>4. CASE ~(ParamDec \/ Dec \/ Minus \/ Index)
  BY <1>4 DEF Parse, EnterScope, LeaveScope, ExtDef, ExtDecList, FunBody, InitVar, Leaf, Operands, Assignment, Logical,
              Relational, Arithmetic, Not, Call, CompSt, Evaluate, Expression, Return, If, EndThen, Else, EndIf,
              While, WhileBody, EndWhile
<1> QED
  BY <1>1, <1>2, <1>3, <1>4

LEMMA StepHKeys ==
    ASSUME Gains, HKeys, UNCHANGED hashmap \/ \E key, tag : Written(key, tag)
    PROVE  HKeys'
<1>1. ASSUME NEW k \in DOMAIN hashmap', NEW x, x = hashmap'[k]
      PROVE  k.sort # "v" /\ (k.sort = "t" => IsWord(x)')
  <2>1. \A y : IsWord(y) => IsWord(y)'
    BY TagsGrow DEF Gains
  <2>2. CASE k \in DOMAIN hashmap /\ x = hashmap[k]
    BY <2>1, <2>2 DEF HKeys
  <2>3. CASE ~(k \in DOMAIN hashmap /\ x = hashmap[k])
    <3>1. PICK key, tag : Written(key, tag)
      BY <1>1, <2>3
    <3>2. hashmap' = With(key, tag) /\ key.sort # "v" /\ (key.sort = "t" => IsWord(tag)')
      BY <3>1 DEF Written
    <3>3. k = key /\ x = tag
      BY <1>1, <2>3, <3>2, WithGains
    <3> QED
      BY <3>2, <3>3
  <2> QED
    BY <2>2, <2>3
<1>2. ASSUME NEW k \in DOMAIN hashmap' PROVE k.sort # "v" /\ (k.sort = "t" => IsWord(hashmap[k])')
  <2>1. PICK x : x = hashmap'[k]
    OBVIOUS
  <2>2. k.sort # "v" /\ (k.sort = "t" => IsWord(x)')
    BY <1>1, <2>1
  <2> QED
    BY <2>1, <2>2 DEF IsWord
<1> QED
  BY <1>2 DEF HKeys

-----------------------------------------------------------------------------
(* What a handler does to the tables.                                      *)
LEMMA KnownGrows ==
    ASSUME Gains, NEW type, Known(type)
    PROVE  Known(type)'
<1>1. VTags \subseteq VTags' /\ TTags \subseteq TTags' /\ Places \subseteq Places'
  BY TagsGrow DEF Gains
<1>2. (type.sort = "v" => type \in VTags)
      /\ (type.sort = "array" => type.at \in VTags \cup TTags \cup Places /\ IsSequence(type.dims))
  BY DEF Known
<1> QED
  BY <1>1, <1>2 DEF Known

TableKnown(table) == IsSequence(table) /\ \A i \in 1..Len(table) : Known(table[i].type)

LEMMA TableGrows ==
    ASSUME Gains, NEW table, TableKnown(table)
    PROVE  TableKnown(table)'
<1>1. ASSUME NEW i \in 1..Len(table) PROVE Known(table[i].type)'
  <2>1. PICK type : type = table[i].type
    OBVIOUS
  <2>2. Known(type)'
    BY <2>1, KnownGrows DEF TableKnown
  <2> QED
    BY <2>1, <2>2 DEF Known
<1> QED
  BY <1>1 DEF TableKnown, Known

LEMMA TablesKnown ==
    ASSUME IsSequence(scopeStack), IsSequence(scopeStack'),
           \A d \in 1..Len(scopeStack') : TableKnown(scopeStack[d])'
    PROVE  ScopesKnown'
BY DEF ScopesKnown, TableKnown, Known

LEMMA SameTables ==
    ASSUME Gains, IsSequence(scopeStack), IsSequence(scopeStack'), ScopesKnown,
           NEW d, d \in 1..Len(scopeStack), scopeStack'[d] = scopeStack[d]
    PROVE  TableKnown(scopeStack[d])'
<1>1. PICK table : table = scopeStack[d]
  OBVIOUS
<1>2. TableKnown(table)
  BY <1>1 DEF ScopesKnown, TableKnown
<1>3. TableKnown(table)' /\ scopeStack'[d] = table
  BY <1>1, <1>2, TableGrows
<1> QED
  BY <1>3 DEF TableKnown, Known

LEMMA AppendedSequence ==
    ASSUME NEW s, IsSequence(s), NEW x
    PROVE  /\ IsSequence(Append(s, x)) /\ Len(Append(s, x)) = Len(s) + 1
           /\ \A i \in 1..Len(s) : Append(s, x)[i] = s[i]
           /\ Append(s, x)[Len(s) + 1] = x
<1>1. PICK S : S = {s[k] : k \in 1..Len(s)} \cup {x}
  OBVIOUS
<1>2. s \in Seq({s[k] : k \in 1..Len(s)})
  BY RangeLemma
<1>3. s \in Seq(S) /\ x \in S
  BY <1>1, <1>2, SeqDef
<1>4. /\ Append(s, x) \in Seq(S) /\ Len(Append(s, x)) = Len(s) + 1
      /\ \A i \in 1..Len(s) : Append(s, x)[i] = s[i]
      /\ Append(s, x)[Len(s) + 1] = x
  BY <1>3, AppendProperties
<1> QED
  BY <1>4, SequenceLemma

LEMMA InsertKnown ==
    ASSUME Gains, IsSequence(scopeStack), ScopesKnown,
           NEW s, insertSymbol(s), NEW type, type = s.type, Known(type)'
    PROVE  ScopesKnown'
<1>1. IsSequence(scopeStack') /\ Len(scopeStack') = Len(scopeStack)
  BY InsertKeeps
<1>2. PICK n \in Nat : n = Len(scopeStack) /\ scopeStack = [k \in 1..n |-> scopeStack[k]]
  BY DEF IsSequence
<1>3. ASSUME NEW d \in 1..n PROVE TableKnown(scopeStack[d])'
  <2>1. scopeStack # <<>>
    BY <1>2, <1>3, BalancedNone
  <2>2. PICK table : table = scopeStack[n]
    OBVIOUS
  <2>3. scopeStack' = [scopeStack EXCEPT ![n] = Append(table, s)]
    BY <1>2, <2>1, <2>2 DEF insertSymbol
  <2>4. CASE d # n
    <3>1. scopeStack'[d] = scopeStack[d]
      BY <1>2, <2>3, <2>4
    <3> QED
      BY <1>1, <1>2, <3>1, SameTables
  <2>5. CASE d = n
    <3>1. PICK new : new = Append(table, s)
      OBVIOUS
    <3>2. scopeStack'[d] = new
      BY <1>2, <2>3, <2>5, <3>1
    <3>3. TableKnown(table)
      BY <1>2, <2>2, <2>5 DEF ScopesKnown, TableKnown
    <3>4. TableKnown(table)'
      BY <3>3, TableGrows
    <3>5. PICK m \in Nat : m = Len(table)
      BY <3>3 DEF TableKnown, IsSequence
    <3>6. /\ IsSequence(new) /\ Len(new) = m + 1 /\ new[m + 1] = s
          /\ \A i \in 1..m : new[i] = table[i]
      BY <3>1, <3>3, <3>5, AppendedSequence DEF TableKnown
    <3>7. ASSUME NEW i \in 1..m + 1 PROVE Known(new[i].type)'
      <4>1. CASE i = m + 1
        BY <3>6, <4>1 DEF Known
      <4>2. CASE i # m + 1
        <5>1. i \in 1..m
          BY <4>2
        <5>2. new[i] = table[i]
          BY <3>6, <5>1
        <5> QED
          BY <3>4, <3>5, <5>1, <5>2 DEF TableKnown, Known
      <4> QED
        BY <4>1, <4>2
    <3> QED
      BY <3>2, <3>6, <3>7 DEF TableKnown, Known
  <2> QED
    BY <2>4, <2>5
<1> QED
  BY <1>1, <1>2, <1>3, TablesKnown

LEMMA EnterKnown ==
    ASSUME Gains, IsSequence(scopeStack), ScopesKnown, pushScope
    PROVE  ScopesKnown'
<1>1. PICK n \in Nat : n = Len(scopeStack)
  BY DEF IsSequence
<1>2. PICK new : new = <<>>
  OBVIOUS
<1>3. scopeStack' = Append(scopeStack, new)
  BY <1>2 DEF pushScope
<1>4. /\ IsSequence(scopeStack') /\ Len(scopeStack') = n + 1 /\ scopeStack'[n + 1] = new
      /\ \A i \in 1..n : scopeStack'[i] = scopeStack[i]
  BY <1>1, <1>3, AppendedSequence
<1>5. ASSUME NEW d \in 1..n + 1 PROVE TableKnown(scopeStack[d])'
  <2>1. CASE d = n + 1
    <3>1. IsSequence(new) /\ Len(new) = 0
      BY <1>2, BalancedNone
    <3> QED
      BY <1>4, <2>1, <3>1 DEF TableKnown
  <2>2. CASE d # n + 1
    <3>1. d \in 1..n
      BY <2>2
    <3> QED
      BY <1>1, <1>4, <3>1, SameTables
  <2> QED
    BY <2>1, <2>2
<1> QED
  BY <1>4, <1>5, TablesKnown

LEMMA LeaveKnown ==
    ASSUME Gains, IsSequence(scopeStack), ScopesKnown, popScope
    PROVE  ScopesKnown'
<1>1. PICK n \in Nat : n = Len(scopeStack)
  BY DEF IsSequence
<1>2. CASE scopeStack = <<>>
  <2>1. scopeStack' = <<>>
    BY <1>2 DEF popScope
  <2> QED
    BY <2>1, BalancedNone DEF ScopesKnown
<1>3. CASE scopeStack # <<>>
  <2>1. n # 0
    BY <1>1, <1>3 DEF IsSequence
  <2>2. n - 1 \in Nat /\ Len(scopeStack) >= 1
    BY <1>1, <2>1
  <2>3. PICK m \in Nat : m = n - 1
    BY <2>2
  <2>4. scopeStack' = SubSeq(scopeStack, 1, m)
    BY <1>1, <1>3, <2>3 DEF popScope
  <2>5. IsSequence(scopeStack') /\ Len(scopeStack') = m
    BY <1>1, <2>2, <2>3, PopsOne
  <2>6. \A d \in 1..m : d \in 1..n /\ scopeStack'[d] = scopeStack[d]
    BY <2>3, <2>4
  <2>7. ASSUME NEW d \in 1..m PROVE TableKnown(scopeStack[d])'
    BY <1>1, <2>5, <2>6, SameTables
  <2> QED
    BY <2>5, <2>7, TablesKnown
<1> QED
  BY <1>2, <1>3

LEMMA SameKnown ==
    ASSUME Gains, IsSequence(scopeStack), ScopesKnown, UNCHANGED scopeStack
    PROVE  ScopesKnown'
<1>1. ASSUME NEW d \in 1..Len(scopeStack) PROVE TableKnown(scopeStack[d])'
  BY SameTables
<1> QED
  BY <1>1, TablesKnown

(* The type of a symbol that a declaration inserts.                        *)
LEMMA VarDecKnown ==
    ASSUME TInv, CountersOK', Gains, IsSequence(scopeStack), ScopesKnown,
           NEW x, NEW dims \in Seq(Nat), NEW isFuncParam, VarDec(x, dims, isFuncParam)
    PROVE  ScopesKnown'
<1>1. CASE findSymbol(x) # NoDecl
  <2>1. PICK type, s : type = NULL /\ s = [name |-> x, type |-> type]
    OBVIOUS
  <2>2. insertSymbol(s) /\ type = s.type
    BY <1>1, <2>1 DEF VarDec
  <2>3. type.sort = "null"
    BY <2>1 DEF NULL
  <2>4. Known(type)'
    BY <2>3 DEF Known
  <2> QED
    BY <2>2, <2>4, InsertKnown
<1>2. CASE findSymbol(x) = NoDecl
  <2>1. PICK v \in Nat : v = vCnt
    BY DEF TInv, CountersOK
  <2>2. PICK tag : tag = IF dims # <<>> /\ ~isFuncParam THEN PlaceOf(v) ELSE generateV(v)
    OBVIOUS
  <2>3. PICK type, s : type = (IF dims = <<>> THEN tag ELSE ArrayOf(tag, dims)) /\ s = [name |-> x, type |-> type]
    OBVIOUS
  <2>4. insertSymbol(s) /\ type = s.type /\ vCnt' = v + 1
    BY <1>2, <2>1, <2>2, <2>3 DEF VarDec
  <2>5. generateV(v) \in VTags' /\ PlaceOf(v) \in Places'
    <3>1. v < vCnt'
      BY <2>4
    <3> QED
      BY <3>1, NewNumbers
  <2>6. Known(type)'
    <3>1. CASE dims = <<>>
      <4>1. type = generateV(v)
        BY <2>2, <2>3, <3>1
      <4>2. type.sort = "v" /\ type \in VTags'
        BY <2>5, <4>1 DEF generateV
      <4> QED
        BY <4>2 DEF Known
    <3>2. CASE dims # <<>>
      <4>1. type.sort = "array" /\ type.at = tag /\ type.dims = dims
        BY <2>3, <3>2 DEF ArrayOf
      <4>2. tag \in VTags' \cup Places'
        BY <2>2, <2>5
      <4>3. IsSequence(dims)
        BY DEF IsSequence
      <4> QED
        BY <4>1, <4>2, <4>3 DEF Known
    <3> QED
      BY <3>1, <3>2
  <2> QED
    BY <2>4, <2>6, InsertKnown
<1> QED
  BY <1>1, <1>2

LEMMA StepScopesKnown ==
    ASSUME SInv, TInv, CountersOK', Gains, NEW kind, Kinded(kind), ScopesKnown, Parse
    PROVE  ScopesKnown'
<1>1. IsSequence(scopeStack)
  BY DEF SInv
<1>2. CASE EnterScope
  BY <1>1, <1>2, EnterKnown DEF EnterScope
<1>3. CASE LeaveScope
  BY <1>1, <1>3, LeaveKnown DEF LeaveScope
<1>4. CASE ParamDec \/ Dec
  <2>1. /\ agenda # <<>> /\ This.do \in {"ParamDec", "Dec"}
        /\ \E isFuncParam : VarDec(This.it.x, This.it.dims, isFuncParam)
    BY <1>4 DEF ParamDec, Dec, Task, Doing
  <2>2. PICK d \in Decs : d = This.it
    BY <2>1, AtHand DEF TaskOK
  <2>3. d.dims \in Seq(Nat)
    BY DEF Kinded, Typing
  <2>4. PICK isFuncParam : VarDec(d.x, d.dims, isFuncParam)
    BY <2>1, <2>2
  <2> QED
    BY <1>1, <2>3, <2>4, VarDecKnown
<1>5. CASE FunBody
  <2>1. CASE UNCHANGED scopeStack
    BY <1>1, <2>1, SameKnown
  <2>2. CASE ~UNCHANGED scopeStack
    <3>1. PICK type, s : type = FunctionTag(Len(This.it.params)) /\ s = [name |-> This.it.f, type |-> type]
      OBVIOUS
    <3>2. insertSymbol(s) /\ type = s.type
      BY <1>5, <2>2, <3>1 DEF FunBody
    <3>3. type.sort = "fun"
      BY <3>1 DEF FunctionTag
    <3>4. Known(type)'
      BY <3>3 DEF Known
    <3> QED
      BY <1>1, <3>2, <3>4, InsertKnown
  <2> QED
    BY <2>1, <2>2
<1>6. CASE ~(EnterScope \/ LeaveScope \/ ParamDec \/ Dec \/ FunBody)
  <2>1. UNCHANGED scopeStack
    BY <1>6 DEF Parse, ExtDef, ExtDecList, InitVar, Leaf, Operands, Assignment, Logical, Result,
              Relational, Arithmetic, Minus, Index, Not, Call, CompSt, Evaluate, Expression, Return, If, EndThen,
              Else, EndIf, While, WhileBody, EndWhile
  <2> QED
    BY <1>1, <2>1, SameKnown
<1> QED
  BY <1>2, <1>3, <1>4, <1>5, <1>6

-----------------------------------------------------------------------------
(* The declarations whose value is being evaluated.                        *)
Among(S, s) == IsSequence(s) /\ \A k \in 1..Len(s) : s[k].do \in S

LEMMA AmongOne ==
    ASSUME NEW S, NEW do \in S, NEW it
    PROVE  Among(S, <<Do(do, it)>>)
<1>1. PICK s : s = <<Do(do, it)>>
  OBVIOUS
<1>2. IsSequence(s) /\ Len(s) = 1 /\ s[1].do = do
  BY <1>1, OneTask
<1> QED
  BY <1>1, <1>2 DEF Among

LEMMA AmongConcat ==
    ASSUME NEW S, NEW s, Among(S, s), NEW t, Among(S, t)
    PROVE  Among(S, s \o t)
<1>1. IsSequence(s) /\ IsSequence(t) /\ IsSequence(s \o t)
  BY ConcatSequences DEF Among
<1>2. ASSUME NEW k \in 1..Len(s \o t) PROVE (s \o t)[k].do \in S
  BY <1>1, ConcatElements DEF Among
<1> QED
  BY <1>1, <1>2 DEF Among

LEMMA AmongEach ==
    ASSUME NEW S, NEW do \in S, NEW X, NEW list \in Seq(X)
    PROVE  Among(S, Each(do, list))
<1>1. PICK s : s = Each(do, list)
  OBVIOUS
<1>2. Len(list) \in Nat /\ s = [k \in 1..Len(list) |-> s[k]] /\ \A k \in 1..Len(list) : s[k].do = do
  BY <1>1 DEF Each
<1>3. IsSequence(s) /\ Len(s) = Len(list)
  BY <1>2, FunctionLemma
<1> QED
  BY <1>1, <1>2, <1>3 DEF Among

LEMMA AmongNone == \A S : Among(S, <<>>)
BY BalancedNone DEF Among

LEMMA AmongTwo ==
    ASSUME NEW S, NEW do \in S, NEW it, NEW next \in S, NEW then
    PROVE  Among(S, <<Do(do, it), Do(next, then)>>)
<1>1. PICK s, t : s = <<Do(do, it)>> /\ t = <<Do(next, then)>>
  OBVIOUS
<1>2. Among(S, s \o t)
  BY <1>1, AmongOne, AmongConcat
<1>3. s \o t = <<Do(do, it), Do(next, then)>>
  BY <1>1, PairLemma
<1> QED
  BY <1>2, <1>3

(* The tasks that a handler, other than of an expression, leaves to do,    *)
(* unless a declaration has a value.                                       *)
Others ==
    {"pushScope", "popScope", "ParamDec", "FunBody", "Dec", "Stmt", "Exp", "Exp;", "RETURN", "IF", "WHILE",
     "EndThen", "ELSE", "EndIf", "EndWhile"}

LEMMA AmongScoped ==
    ASSUME NEW s
    PROVE  Among(Others, Scoped(s))
<1>1. PICK t : t = Scoped(s)
  OBVIOUS
<1>2. t = <<Do("pushScope", NULL), Do("Stmt", s), Do("popScope", NULL)>>
  BY <1>1 DEF Scoped
<1>3. PICK p, q, r : p = Do("pushScope", NULL) /\ q = Do("Stmt", s) /\ r = Do("popScope", NULL)
  OBVIOUS
<1>4. IsSequence(t) /\ Len(t) = 3 /\ t[1] = p /\ t[2] = q /\ t[3] = r
  BY <1>2, <1>3, ThreeElements
<1>5. p.do \in Others /\ q.do \in Others /\ r.do \in Others
  BY <1>3 DEF Do, Others
<1>6. \A k \in 1..3 : k = 1 \/ k = 2 \/ k = 3
  OBVIOUS
<1>7. \A k \in 1..Len(t) : t[k].do \in Others
  BY <1>4, <1>5, <1>6
<1> QED
  BY <1>1, <1>4, <1>7 DEF Among

LEMMA InitsAfter ==
    ASSUME NEW u, u = agenda', \A k \in 1..Len(u) : u[k].do = "Init" => Awaits(u, k) /\ InitFits(u[k].it)'
    PROVE  InitsFit'
BY DEF InitsFit, Awaits, InitFits

LEMMA NoInitsLeft ==
    ASSUME SInv, InitsFit, agenda # <<>>, This.do \notin Evaluating \cup Operating
    PROVE  \A k \in 1..Len(Tail(agenda)) : Tail(agenda)[k].do # "Init"
<1>1. PICK s, r : s = agenda /\ r = Tail(agenda)
  OBVIOUS
<1>2. s # <<>> /\ This = s[1] /\ IsSequence(r) /\ IsSequence(s)
      /\ \A k \in 1..Len(r) : k + 1 \in 1..Len(s) /\ r[k] = s[k + 1]
  BY <1>1, RestLemma DEF SInv, Fit, This
<1>3. ASSUME NEW k \in 1..Len(r), r[k].do = "Init" PROVE FALSE
  <2>1. PICK j : j = k + 1
    OBVIOUS
  <2>2. j \in 1..Len(s) /\ s[j].do = "Init"
    BY <1>2, <1>3, <2>1
  <2>3. Awaits(s, j)
    BY <1>1, <2>2 DEF InitsFit
  <2>4. k \in Nat /\ k >= 1
    <3>1. Len(r) \in Nat
      BY <1>2 DEF IsSequence
    <3> QED
      BY <3>1
  <2>5. 1 \in 1..j - 1
    BY <2>1, <2>4
  <2> QED
    BY <1>2, <2>3, <2>5 DEF Awaits
<1> QED
  BY <1>1, <1>3

LEMMA InitsNone ==
    ASSUME SInv, InitsFit, agenda # <<>>, This.do \notin Evaluating \cup Operating,
           NEW tasks, Among(Others, tasks), Continue(tasks)
    PROVE  InitsFit'
<1>1. PICK r : r = Tail(agenda)
  OBVIOUS
<1>2. IsSequence(r) /\ \A k \in 1..Len(r) : r[k].do # "Init"
  BY <1>1, NoInitsLeft, FitRest DEF SInv, Fit
<1>3. IsSequence(tasks) /\ \A k \in 1..Len(tasks) : tasks[k].do # "Init"
  BY DEF Among, Others
<1>4. PICK u : u = tasks \o r
  OBVIOUS
<1>5. u = agenda'
  BY <1>1, <1>4 DEF Continue
<1>6. ASSUME NEW k \in 1..Len(u) PROVE u[k].do # "Init"
  BY <1>2, <1>3, <1>4, ConcatElements
<1> QED
  BY <1>5, <1>6, InitsAfter

LEMMA InitFitsStays ==
    ASSUME Gains, This.do \in Evaluating \cup Operating, NEW x, InitFits(x),
           UNCHANGED hashmap \/ \E key, tag : Written(key, tag)
    PROVE  InitFits(x)'
<1>1. x.sort \notin {"v", "t", "#0-"} /\ x \in DOMAIN hashmap /\ hashmap[x] \in VTags
  BY DEF InitFits
<1>2. VTags \subseteq VTags' /\ DOMAIN hashmap \subseteq DOMAIN hashmap'
  BY TagsGrow DEF Gains
<1>3. hashmap'[x] = hashmap[x]
  <2>1. CASE \E key, tag : Written(key, tag)
    <3>1. PICK key, tag : Written(key, tag)
      BY <2>1
    <3>2. hashmap' = With(key, tag) /\ key.sort \in {"t", "#0-"}
      BY <3>1 DEF Written
    <3>3. key # x
      BY <1>1, <3>2
    <3>4. \A k \in DOMAIN hashmap : k # key => hashmap'[k] = hashmap[k]
      BY <3>2, WithGains
    <3> QED
      BY <1>1, <3>3, <3>4
  <2> QED
    BY <2>1
<1> QED
  BY <1>1, <1>2, <1>3 DEF InitFits

LEMMA InitsStay ==
    ASSUME SInv, Gains, InitsFit, agenda # <<>>, This.do \in Evaluating \cup Operating,
           NEW tasks, Among(Evaluating \cup Operating, tasks), Continue(tasks),
           UNCHANGED hashmap \/ \E key, tag : Written(key, tag)
    PROVE  InitsFit'
<1>1. PICK s, r : s = agenda /\ r = Tail(agenda)
  OBVIOUS
<1>2. s # <<>> /\ IsSequence(r) /\ IsSequence(s)
      /\ \A k \in 1..Len(r) : k + 1 \in 1..Len(s) /\ r[k] = s[k + 1]
  BY <1>1, RestLemma DEF SInv, Fit
<1>3. PICK m \in Nat : m = Len(tasks)
  BY DEF Among, IsSequence
<1>4. PICK n \in Nat : n = Len(r)
  BY <1>2 DEF IsSequence
<1>5. PICK u : u = tasks \o r
  OBVIOUS
<1>6. /\ Len(u) = m + n
      /\ \A k \in 1..m : u[k] = tasks[k]
      /\ \A k \in 1..n : u[m + k] = r[k]
  BY <1>2, <1>3, <1>4, <1>5, ConcatSequences DEF Among
<1>7. u = agenda'
  BY <1>1, <1>5 DEF Continue
<1>8. \A k \in 1..m : u[k].do \in Evaluating \cup Operating
  BY <1>3, <1>6 DEF Among
<1>9. "Init" \notin Evaluating \cup Operating
  BY DEF Evaluating, Operating, Operations, RelOps, ArithOps
<1>10. ASSUME NEW k \in 1..m + n, u[k].do = "Init"
       PROVE  Awaits(u, k) /\ InitFits(u[k].it)'
  <2>1. k \notin 1..m
    BY <1>8, <1>9, <1>10
  <2>2. PICK j \in 1..n : k = m + j
    <3>1. k - m \in 1..n /\ k = m + (k - m)
      BY <2>1
    <3> QED
      BY <3>1
  <2>3. u[k] = r[j] /\ r[j] = s[j + 1] /\ j + 1 \in 1..Len(s)
    BY <1>2, <1>4, <1>6, <2>2
  <2>4. PICK l : l = j + 1
    OBVIOUS
  <2>5. Awaits(s, l) /\ InitFits(s[l].it)
    <3>1. l \in 1..Len(agenda) /\ agenda[l].do = "Init"
      BY <1>1, <1>10, <2>3, <2>4
    <3> QED
      BY <1>1, <3>1 DEF InitsFit
  <2>6. ASSUME NEW i \in 1..k - 1 PROVE u[i].do \in Evaluating \cup Operating
    <3>1. CASE i <= m
      BY <1>8, <3>1
    <3>2. CASE i > m
      <4>1. PICK h : h = i - m
        OBVIOUS
      <4>2. h \in 1..n /\ i = m + h /\ h + 1 \in 1..l - 1
        BY <2>2, <2>4, <3>2, <4>1
      <4>3. u[i] = r[h] /\ r[h] = s[h + 1]
        BY <1>2, <1>4, <1>6, <4>2
      <4>4. s[h + 1].do \in Evaluating \cup Operating
        BY <2>5, <4>2 DEF Awaits
      <4> QED
        BY <4>3, <4>4
    <3> QED
      BY <3>1, <3>2
  <2>7. PICK x : x = s[l].it
    OBVIOUS
  <2>8. InitFits(x)'
    BY <2>5, <2>7, InitFitsStays
  <2>9. u[k].it = x
    BY <2>3, <2>4, <2>7
  <2>10. InitFits(u[k].it)'
    BY <2>8, <2>9
  <2> QED
    BY <1>10, <2>6, <2>10 DEF Awaits
<1> QED
  BY <1>6, <1>7, <1>10, InitsAfter

LEMMA OtherTasks ==
    ASSUME SInv, Parse, ~Dec, agenda # <<>>, This.do \notin Evaluating \cup Operating
    PROVE  \E tasks : Among(Others, tasks) /\ Continue(tasks)
<1>1. CASE EnterScope \/ LeaveScope \/ ParamDec \/ InitVar \/ Expression \/ Return \/ EndThen \/ EndIf \/ EndWhile
  <2>1. Continue(<<>>)
    BY <1>1 DEF EnterScope, LeaveScope, ParamDec, InitVar, Expression, Return, EndThen, EndIf, EndWhile
  <2> QED
    BY <2>1, AmongNone
<1>2. CASE ExtDef
  <2>1. This.do = "ExtDef" /\ This.it.kind = "fun"
    BY <1>2 DEF ExtDef, Task, Doing
  <2>2. This.it.params \in Seq(Decs)
    BY <2>1, AtHand DEF TaskOK
  <2>3. PICK s, t : s = Each("ParamDec", This.it.params) /\ t = <<Do("FunBody", This.it)>>
    OBVIOUS
  <2>4. "ParamDec" \in Others /\ "FunBody" \in Others
    BY DEF Others
  <2>5. Among(Others, s) /\ Among(Others, t)
    BY <2>2, <2>3, <2>4, AmongEach, AmongOne
  <2>6. Among(Others, s \o t) /\ Continue(s \o t)
    BY <1>2, <2>3, <2>5, AmongConcat DEF ExtDef
  <2> QED
    BY <2>6
<1>3. CASE FunBody
  <2>1. PICK tasks : Continue(tasks) /\ (tasks = <<>> \/ tasks = Scoped(This.it.body))
    BY <1>3 DEF FunBody
  <2>2. Among(Others, tasks)
    BY <2>1, AmongNone, AmongScoped
  <2> QED
    BY <2>1, <2>2
<1>4. CASE CompSt
  <2>1. This.it \in Stmts /\ This.it.s = "CompSt"
    BY <1>4, StmtAtHand DEF CompSt
  <2>2. This.it.defs \in Seq(Decs) /\ This.it.stmts \in Seq(Stmts)
    BY <2>1, TranslateAssumption
  <2>3. PICK s, t : s = Each("Dec", This.it.defs) /\ t = Each("Stmt", This.it.stmts)
    OBVIOUS
  <2>4. "Dec" \in Others /\ "Stmt" \in Others
    BY DEF Others
  <2>5. Among(Others, s) /\ Among(Others, t)
    BY <2>2, <2>3, <2>4, AmongEach
  <2>6. Among(Others, s \o t) /\ Continue(s \o t)
    BY <1>4, <2>3, <2>5, AmongConcat DEF CompSt
  <2> QED
    BY <2>6
<1>5. CASE Evaluate \/ While
  <2>1. PICK it, do, then : Continue(<<Do("Exp", it), Do(do, then)>>) /\ do \in Others
    <3>1. CASE Evaluate
      <4>1. This.it.s \in {"Exp", "RETURN", "IF"}
        BY <3>1 DEF Evaluate, Parsing
      <4>2. PICK w : w = IF This.it.s = "Exp" THEN "Exp;" ELSE This.it.s
        OBVIOUS
      <4>3. Continue(<<Do("Exp", This.it.exp), Do(w, This.it)>>)
        BY <3>1, <4>2 DEF Evaluate
      <4>4. w \in Others
        BY <4>1, <4>2 DEF Others
      <4> QED
        BY <4>3, <4>4
    <3>2. CASE While
      <4>1. "WHILE" \in Others
        BY DEF Others
      <4> QED
        BY <3>2, <4>1 DEF While
    <3> QED
      BY <1>5, <3>1, <3>2
  <2>2. "Exp" \in Others
    BY DEF Others
  <2>3. Among(Others, <<Do("Exp", it), Do(do, then)>>)
    BY <2>1, <2>2, AmongTwo
  <2> QED
    BY <2>1, <2>3
<1>6. CASE If \/ Else
  <2>1. PICK s, do, it : Continue(Scoped(s) \o <<Do(do, it)>>) /\ do \in Others
    <3>1. CASE If
      <4>1. PICK w, it : /\ w = IF This.it.else = <<>> THEN "EndThen" ELSE "ELSE"
                         /\ Continue(Scoped(This.it.then) \o <<Do(w, it)>>)
        BY <3>1 DEF If
      <4>2. w \in Others
        BY <4>1 DEF Others
      <4> QED
        BY <4>1, <4>2
    <3>2. CASE Else
      <4>1. "EndIf" \in Others
        BY DEF Others
      <4>2. Continue(Scoped(This.it.else[1]) \o <<Do("EndIf", NULL)>>)
        BY <3>2 DEF Else
      <4> QED
        BY <4>1, <4>2
    <3> QED
      BY <1>6, <3>1, <3>2
  <2>2. Among(Others, Scoped(s)) /\ Among(Others, <<Do(do, it)>>)
    BY <2>1, AmongScoped, AmongOne
  <2>3. Among(Others, Scoped(s) \o <<Do(do, it)>>)
    BY <2>2, AmongConcat
  <2> QED
    BY <2>1, <2>3
<1>7. CASE WhileBody
  <2>1. PICK s, it : Continue(<<Do("pushScope", NULL), Do("Stmt", s), Do("EndWhile", it), Do("popScope", NULL)>>)
    BY <1>7 DEF WhileBody
  <2>2. PICK p, q, r, u : /\ p = Do("pushScope", NULL) /\ q = Do("Stmt", s)
                          /\ r = Do("EndWhile", it) /\ u = Do("popScope", NULL)
    OBVIOUS
  <2>3. PICK tasks : tasks = <<p, q, r, u>>
    OBVIOUS
  <2>4. IsSequence(tasks) /\ Len(tasks) = 4 /\ tasks[1] = p /\ tasks[2] = q /\ tasks[3] = r /\ tasks[4] = u
    BY <2>3 DEF IsSequence
  <2>5. p.do \in Others /\ q.do \in Others /\ r.do \in Others /\ u.do \in Others
    BY <2>2 DEF Do, Others
  <2>6. \A k \in 1..4 : k = 1 \/ k = 2 \/ k = 3 \/ k = 4
    OBVIOUS
  <2>7. \A k \in 1..Len(tasks) : tasks[k].do \in Others
    BY <2>4, <2>5, <2>6
  <2>8. Among(Others, tasks) /\ Continue(tasks)
    BY <2>1, <2>2, <2>3, <2>4, <2>7 DEF Among
  <2> QED
    BY <2>8
<1>8. CASE Leaf \/ Operands \/ Assignment \/ Logical \/ Relational \/ Arithmetic \/ Minus \/ Index \/ Not \/ Call
  <2>1. This.do \in Evaluating \cup Operating
    BY <1>8 DEF Leaf, Operands, Assignment, Logical, Relational, Arithmetic, Minus, Index, Not, Call,
                Task, Doing, Evaluating, Operating, Operations
  <2> QED
    BY <2>1
<1>9. CASE ExtDecList
  <2>1. This.do = "ExtDef" /\ This.it.kind = "vars"
    BY <1>9 DEF ExtDecList, Task, Doing
  <2>2. This.it.decs \in Seq(Decs)
    BY <2>1, AtHand DEF TaskOK
  <2>3. "Dec" \in Others
    BY DEF Others
  <2>4. Among(Others, Each("Dec", This.it.decs))
    BY <2>2, <2>3, AmongEach
  <2> QED
    BY <1>9, <2>4 DEF ExtDecList
<1> QED
  BY <1>1, <1>2, <1>3, <1>4, <1>5, <1>6, <1>7, <1>8, <1>9 DEF Parse

LEMMA ExpTasks ==
    ASSUME SInv, Parse, agenda # <<>>, This.do \in Evaluating \cup Operating
    PROVE  \E tasks : Among(Evaluating \cup Operating, tasks) /\ Continue(tasks)
<1>1. PICK S : S = Evaluating \cup Operating
  OBVIOUS
<1>2. "Exp" \in S /\ "Exp=" \in S /\ "LB=" \in S /\ Operations \subseteq S
  BY <1>1 DEF Evaluating, Operating
<1>3. CASE Operands
  <2>1. This.do \in Evaluating /\ This.it.e \notin {"INT", "ID"}
    BY <1>3 DEF Operands, Doing, Evaluating
  <2>2. PICK e \in Exps : e = This.it
    BY <2>1, AtHand DEF TaskOK, Evaluating
  <2>3. e.e \in Operations /\ e.of \in Seq(Exps)
    BY <2>1, <2>2, Nodes
  <2>4. CASE e.e = "ASSIGN"
    <3>1. PICK p, q : p = e.of[1] /\ q = e.of[2]
      OBVIOUS
    <3>2. Continue(<<Do("Exp", q), Do("Exp=", p), Do("ASSIGN", e)>>)
      BY <1>3, <2>2, <2>4, <3>1 DEF Operands
    <3>3. PICK s, t : s = <<Do("Exp", q), Do("Exp=", p)>> /\ t = <<Do("ASSIGN", e)>>
      OBVIOUS
    <3>4. Among(S, s) /\ Among(S, t)
      <4>1. "ASSIGN" \in S
        BY <1>2, <2>3, <2>4
      <4> QED
        BY <1>2, <3>3, <4>1, AmongOne, AmongTwo
    <3>5. PICK x, y, z : x = Do("Exp", q) /\ y = Do("Exp=", p) /\ z = Do("ASSIGN", e)
      OBVIOUS
    <3>6. <<x, y>> \o <<z>> = <<x, y, z>>
      BY TripleLemma
    <3>7. Continue(s \o t)
      BY <3>2, <3>3, <3>5, <3>6
    <3>8. Among(S, s \o t)
      BY <3>4, AmongConcat
    <3> QED
      BY <1>1, <3>7, <3>8
  <2>5. CASE e.e = "LP"
    <3>1. Continue(Each("Exp", e.of))
      BY <1>3, <2>2, <2>5 DEF Operands
    <3>2. Among(S, Each("Exp", e.of))
      BY <1>2, <2>3, AmongEach
    <3> QED
      BY <1>1, <3>1, <3>2
  <2>6. CASE e.e \notin {"ASSIGN", "LP"}
    <3>1. PICK do, op : /\ Continue(Each(do, e.of) \o <<Do(op, e)>>)
                        /\ (do = "Exp=" /\ op = "LB=") \/ (do = "Exp" /\ op = e.e)
      <4>1. CASE This.do = "Exp=" /\ e.e = "LB"
        <5>1. Continue(Each("Exp=", e.of) \o <<Do("LB=", e)>>)
          BY <1>3, <2>2, <2>6, <4>1 DEF Operands
        <5> QED
          BY <5>1
      <4>2. CASE ~(This.do = "Exp=" /\ e.e = "LB")
        <5>1. Continue(Each("Exp", e.of) \o <<Do(e.e, e)>>)
          BY <1>3, <2>2, <2>6, <4>2 DEF Operands
        <5> QED
          BY <5>1
      <4> QED
        BY <4>1, <4>2
    <3>2. do \in S /\ op \in S
      BY <1>2, <2>3, <3>1
    <3>3. Among(S, Each(do, e.of)) /\ Among(S, <<Do(op, e)>>)
      BY <2>3, <3>2, AmongEach, AmongOne
    <3>4. Among(S, Each(do, e.of) \o <<Do(op, e)>>)
      BY <3>3, AmongConcat
    <3> QED
      BY <1>1, <3>1, <3>4
  <2> QED
    BY <2>4, <2>5, <2>6
<1>4. CASE ~Operands
  <2>1. CASE Leaf \/ Assignment \/ Logical \/ Relational \/ Arithmetic \/ Minus \/ Index \/ Not \/ Call
    <3>1. Continue(<<>>)
      BY <2>1 DEF Leaf, Assignment, Logical, Relational, Arithmetic, Minus, Index, Not, Call, Result
    <3> QED
      BY <3>1, AmongNone
  <2>2. CASE EnterScope \/ LeaveScope \/ ExtDef \/ ExtDecList \/ FunBody \/ ParamDec \/ Dec \/ InitVar \/ CompSt \/ Evaluate
               \/ Expression \/ Return \/ If \/ EndThen \/ Else \/ EndIf \/ While \/ WhileBody \/ EndWhile
    <3>1. This.do \in {"pushScope", "popScope", "ExtDef", "FunBody", "ParamDec", "Dec", "Init", "Stmt", "Exp;",
                       "RETURN", "IF", "EndThen", "ELSE", "EndIf", "WHILE", "EndWhile"}
      BY <2>2 DEF EnterScope, LeaveScope, ExtDef, ExtDecList, FunBody, ParamDec, Dec, InitVar, CompSt, Evaluate, Expression,
                  Return, If, EndThen, Else, EndIf, While, WhileBody, EndWhile, Parsing, Task, Doing
    <3> QED
      BY <3>1 DEF Evaluating, Operating, Operations, RelOps, ArithOps
  <2> QED
    BY <1>4, <2>1, <2>2 DEF Parse
<1> QED
  BY <1>3, <1>4

LEMMA InitsBegin ==
    ASSUME SInv, TInv, CountersOK', Gains, InitsFit, NEW kind, Kinded(kind), NamesResolve(kind), Dec
    PROVE  InitsFit'
<1>1. agenda # <<>> /\ This.do = "Dec" /\ VarDec(This.it.x, This.it.dims, FALSE)
  BY DEF Dec, Task, Doing
<1>2. PICK d \in Decs : d = This.it
  BY <1>1, AtHand DEF TaskOK
<1>3. PICK x : x = d.x
  OBVIOUS
<1>4. /\ d.init \in Seq(Exps) /\ Len(d.init) <= 1
      /\ x.sort \notin {"v", "t", "#0-"} /\ (d.init # <<>> => d.dims = <<>>)
  BY <1>3, TranslateAssumption DEF Kinded, Typing
<1>5. PICK n \in Nat : n = Len(d.init) /\ DOMAIN d.init = 1..n /\ n \in {0, 1}
  BY <1>4
<1>6. PICK s, t : s = Each("Exp", d.init) /\ t = [k \in 1..n |-> Do("Init", x)]
  OBVIOUS
<1>7. PICK r, tasks : r = Tail(agenda) /\ tasks = s \o t
  OBVIOUS
<1>8. PICK u : u = tasks \o r
  OBVIOUS
<1>9. u = agenda'
  BY <1>1, <1>2, <1>3, <1>5, <1>6, <1>7, <1>8 DEF Dec, Continue
<1>10. This.do \notin Evaluating \cup Operating
  BY <1>1, Unheard DEF Loud
<1>11. IsSequence(r) /\ \A k \in 1..Len(r) : r[k].do # "Init"
  BY <1>1, <1>7, <1>10, NoInitsLeft, FitRest DEF SInv, Fit
<1>12. IsSequence(s) /\ Len(s) = n /\ \A i \in 1..n : s[i].do = "Exp"
  <2>1. "Exp" \in Evaluating
    BY DEF Evaluating
  <2>2. IsSequence(s) /\ Len(s) = n /\ \A i \in 1..n : s[i] = Do("Exp", d.init[i])
    BY <1>4, <1>5, <1>6, <2>1, EachExps
  <2> QED
    BY <2>2 DEF Do
<1>13. IsSequence(t) /\ Len(t) = n /\ \A i \in 1..n : t[i].do = "Init" /\ t[i].it = x
  <2>1. t = [i \in 1..n |-> t[i]] /\ \A i \in 1..n : t[i].do = "Init" /\ t[i].it = x
    BY <1>6 DEF Do
  <2> QED
    BY <2>1, FunctionLemma
<1>14. /\ IsSequence(tasks) /\ Len(tasks) = n + n
       /\ \A k \in 1..n : tasks[k] = s[k] /\ tasks[n + k] = t[k]
  <2>0. IsSequence(s) /\ IsSequence(t)
    BY <1>12, <1>13
  <2>1. /\ IsSequence(tasks) /\ Len(tasks) = Len(s) + Len(t)
        /\ \A k \in 1..Len(s) : tasks[k] = s[k]
        /\ \A k \in 1..Len(t) : tasks[Len(s) + k] = t[k]
    BY <1>7, <2>0, ConcatSequences
  <2> QED
    BY <1>12, <1>13, <2>1
<1>15. PICK m \in Nat : m = Len(r)
  BY <1>11 DEF IsSequence
<1>16. PICK p \in Nat : p = n + n
  OBVIOUS
<1>17. /\ Len(u) = p + m /\ \A k \in 1..p : u[k] = tasks[k]
       /\ \A k \in 1..m : u[p + k] = r[k]
  <2>0. IsSequence(tasks) /\ IsSequence(r)
    BY <1>11, <1>14
  <2>1. /\ Len(u) = Len(tasks) + Len(r)
        /\ \A k \in 1..Len(tasks) : u[k] = tasks[k]
        /\ \A k \in 1..Len(r) : u[Len(tasks) + k] = r[k]
    BY <1>8, <2>0, ConcatSequences
  <2>2. Len(tasks) = p /\ Len(r) = m
    BY <1>14, <1>15, <1>16
  <2> QED
    BY <2>1, <2>2
<1>18. ASSUME NEW k \in 1..p + m, u[k].do = "Init"
       PROVE  n = 1 /\ k = 2
  <2>1. CASE k > p
    <3>1. PICK j \in 1..m : k = p + j
      <4>1. k - p \in 1..m /\ k = p + (k - p)
        BY <2>1
      <4> QED
        BY <4>1
    <3>2. u[k] = r[j] /\ r[j].do # "Init"
      BY <1>11, <1>15, <1>17, <3>1
    <3> QED
      BY <1>18, <3>2
  <2>2. CASE k <= p
    <3>1. n = 1
      BY <1>5, <1>16, <2>2
    <3>2. k = 1 \/ k = 2
      BY <1>16, <2>2, <3>1
    <3>3. u[1].do = "Exp"
      BY <1>12, <1>14, <1>16, <1>17, <3>1
    <3> QED
      BY <1>18, <3>1, <3>2, <3>3
  <2> QED
    BY <2>1, <2>2
<1>19. ASSUME n = 1 PROVE Awaits(u, 2) /\ InitFits(u[2].it)'
  <2>1. 1 \in 1..p /\ 2 \in 1..p /\ 1 \in 1..n /\ n + 1 = 2
    BY <1>16, <1>19
  <2>2. u[1] = s[1] /\ u[2] = t[1]
    BY <1>14, <1>17, <2>1
  <2>3. u[1].do = "Exp" /\ u[2].do = "Init" /\ u[2].it = x
    BY <1>12, <1>13, <2>1, <2>2
  <2>4. \A i \in 1..2 - 1 : i = 1
    OBVIOUS
  <2>5. Awaits(u, 2)
    BY <2>3, <2>4 DEF Awaits, Evaluating
  <2>6. d.init # <<>>
    BY <1>5, <1>19
  <2>7. findSymbol(x) = NoDecl
    <3>1. Task("Dec") /\ This.it.init # <<>>
      BY <1>1, <1>2, <2>6 DEF Task, Doing
    <3> QED
      BY <1>2, <1>3, <3>1 DEF NamesResolve
  <2>8. PICK v \in Nat : v = vCnt
    BY DEF TInv, CountersOK
  <2>9. PICK tag : tag = generateV(v)
    OBVIOUS
  <2>10. PICK dims : dims = d.dims /\ dims = <<>>
    BY <1>4, <2>6
  <2>11. VarDec(x, dims, FALSE)
    BY <1>1, <1>2, <1>3, <2>10
  <2>12. vCnt' = v + 1 /\ hashmap' = With(x, tag)
    BY <2>7, <2>8, <2>9, <2>10, <2>11 DEF VarDec
  <2>13. tag \in VTags'
    <3>1. v < vCnt'
      BY <2>12
    <3> QED
      BY <2>9, <3>1, NewNumbers
  <2>14. x \in DOMAIN hashmap' /\ hashmap'[x] = tag
    BY <2>12, WithGains
  <2>15. InitFits(x)'
    BY <1>4, <2>13, <2>14 DEF InitFits
  <2> QED
    BY <2>3, <2>5, <2>15
<1>20. ASSUME NEW k \in 1..Len(u), u[k].do = "Init"
       PROVE  Awaits(u, k) /\ InitFits(u[k].it)'
  BY <1>17, <1>18, <1>19, <1>20
<1> QED
  BY <1>9, <1>20, InitsAfter

LEMMA StepInitsFit ==
    ASSUME SInv, TInv, CountersOK', Gains, InitsFit, NEW kind, Kinded(kind), NamesResolve(kind), Parse,
           UNCHANGED hashmap \/ \E key, tag : Written(key, tag)
    PROVE  InitsFit'
<1>1. agenda # <<>>
  BY DEF Parse, EnterScope, LeaveScope, ExtDef, ExtDecList, FunBody, ParamDec, Dec, InitVar, Leaf, Operands,
         Assignment, Logical, Relational, Arithmetic, Minus, Index, Not, Call, CompSt, Evaluate, Expression,
         Return, If, EndThen, Else, EndIf, While, WhileBody, EndWhile, Parsing, Task, Doing
<1>2. CASE Dec
  BY <1>2, InitsBegin
<1>3. CASE ~Dec /\ This.do \notin Evaluating \cup Operating
  <2>1. PICK tasks : Among(Others, tasks) /\ Continue(tasks)
    BY <1>1, <1>3, OtherTasks
  <2> QED
    BY <1>1, <1>3, <2>1, InitsNone
<1>4. CASE This.do \in Evaluating \cup Operating
  <2>1. PICK tasks : Among(Evaluating \cup Operating, tasks) /\ Continue(tasks)
    BY <1>1, <1>4, ExpTasks
  <2> QED
    BY <1>1, <1>4, <2>1, InitsStay
<1> QED
  BY <1>2, <1>3, <1>4

-----------------------------------------------------------------------------
LEMMA InitKInv ==
    ASSUME NEW kind, TransInit
    PROVE  KInv(kind)
<1>1. PICK s : s = source
  OBVIOUS
<1>2. IsSequence(s)
  BY <1>1, TranslateAssumption DEF TransInit, IsSequence
<1>3. PICK S : S = {s[k] : k \in 1..Len(s)}
  OBVIOUS
<1>4. s \in Seq(S)
  BY <1>2, <1>3, RangeLemma
<1>5. agenda = Each("ExtDef", s) /\ vals = <<>> /\ DOMAIN hashmap = {}
  BY <1>1 DEF TransInit
<1>6. PICK a : a = <<>>
  OBVIOUS
<1>7. IsSequence(a) /\ Len(a) = 0 /\ \A i \in 1..Len(a) : FALSE
  BY <1>6, BalancedNone
<1>8. Calm(a)
  <2>1. PICK c : c = Cut(a, 0)
    OBVIOUS
  <2>2. 0 \in 0..Len(a)
    BY <1>7
  <2>3. IsSequence(c) /\ Len(c) = Len(a) - 0
    BY <1>7, <2>1, <2>2, CutLemma
  <2>4. Len(c) = 0
    BY <1>7, <2>3
  <2>5. c = a
    BY <1>7, <2>3, <2>4, SameSequence
  <2> QED
    BY <1>7, <2>1, <2>5 DEF Calm
<1>9. Valued(kind)
  <2>1. Silent(kind, agenda)
    BY <1>4, <1>5, Unheard, SilentEach
  <2>2. Runs(kind, agenda, a, a)
    BY <1>8, <2>1 DEF Silent
  <2>3. ValsFit(a)
    BY <1>5, <1>6, <1>7 DEF ValsFit
  <2> QED
    BY <1>7, <2>2, <2>3 DEF Valued
<1>10. HKeys
  BY <1>5 DEF HKeys
<1>11. ScopesKnown
  <2>1. PICK p, q : /\ p = [name |-> Named("read"), type |-> FunctionTag(0)]
                    /\ q = [name |-> Named("write"), type |-> FunctionTag(1)]
    OBVIOUS
  <2>2. PICK table : table = <<p, q>>
    OBVIOUS
  <2>3. IsSequence(table) /\ Len(table) = 2 /\ table[1] = p /\ table[2] = q
    BY <2>2, TwoElements
  <2>4. p.type.sort = "fun" /\ q.type.sort = "fun"
    BY <2>1 DEF FunctionTag
  <2>5. ASSUME NEW i \in 1..Len(table) PROVE Known(table[i].type)
    <3>1. i = 1 \/ i = 2
      BY <2>3
    <3>2. table[i].type.sort = "fun"
      BY <2>3, <2>4, <3>1
    <3> QED
      BY <3>2 DEF Known
  <2>6. scopeStack = <<table>>
    BY <2>1, <2>2 DEF TransInit
  <2>7. Len(scopeStack) = 1 /\ scopeStack[1] = table
    BY <2>6, OneElement
  <2>8. \A d \in 1..Len(scopeStack) : d = 1
    BY <2>7
  <2> QED
    BY <2>3, <2>5, <2>7, <2>8 DEF ScopesKnown
<1>12. InitsFit
  <2>1. "ExtDef" \in {"ExtDef"}
    OBVIOUS
  <2>2. Among({"ExtDef"}, agenda)
    BY <1>4, <1>5, <2>1, AmongEach
  <2> QED
    BY <2>2 DEF Among, InitsFit
<1> QED
  BY <1>9, <1>10, <1>11, <1>12 DEF KInv

LEMMA StepKInv ==
    ASSUME NEW kind, Kinded(kind), SInv, TInv, TInv', KInv(kind), NamesResolve(kind), [Parse]_tvars
    PROVE  KInv(kind)'
<1>1. CASE Parse
  <2>1. CountersOK'
    BY DEF TInv
  <2>2. Gains
    BY <1>1, <2>1, StepGains
  <2>3. OperandsFit
    BY KInvFits
  <2>4. Valued(kind)'
    BY <1>1, <2>1, StepValued
  <2>5. UNCHANGED hashmap \/ \E key, tag : Written(key, tag)
    BY <1>1, <2>1, <2>2, <2>3, StepWrites
  <2>6. HKeys'
    BY <2>2, <2>5, StepHKeys DEF KInv
  <2>7. ScopesKnown'
    BY <1>1, <2>1, <2>2, StepScopesKnown DEF KInv
  <2>8. InitsFit'
    BY <1>1, <2>1, <2>2, <2>5, StepInitsFit DEF KInv
  <2> QED
    BY <2>4, <2>6, <2>7, <2>8 DEF KInv
<1>2. CASE UNCHANGED tvars
  <2>1. Valued(kind)'
    BY <1>2 DEF KInv, tvars, Valued, ValsFit, Fits, Judged, curTac, VTags, TTags, Places
  <2>2. HKeys'
    BY <1>2 DEF KInv, tvars, HKeys, IsWord, VTags, TTags, Places
  <2>3. ScopesKnown'
    BY <1>2 DEF KInv, tvars, ScopesKnown, Known, VTags, TTags, Places
  <2>4. InitsFit'
    BY <1>2 DEF KInv, tvars, InitsFit, Awaits, InitFits, VTags
  <2> QED
    BY <2>1, <2>2, <2>3, <2>4 DEF KInv
<1> QED
  BY <1>1, <1>2

(* A program whose operands are of the kinds they should be, and in which  *)
(* the name evaluated is always visible as what it was declared, never     *)
(* makes expSemaParser and its callers meet anything that they count on    *)
(* not to meet; its code is well formed then, and nothing in it is placed  *)
(* or computed twice.                                                      *)
THEOREM TypedProgramsFit ==
    ASSUME NEW kind, Typing(kind, Exps, Decs, Stmts)
    PROVE  TransSpec /\ []NamesResolve(kind) => [](OperandsFit /\ TransTypeOK /\ PlacedOnce)
<1>1. Kinded(kind)
  BY DEF Kinded
<1>2. TransInit => SInv /\ TInv /\ KInv(kind)
  BY InitSInv, InitTInv, InitKInv
<1>3. SInv /\ TInv /\ KInv(kind) => OperandsFit /\ TransTypeOK /\ PlacedOnce
  BY <1>1, KInvFits, TInvShows
<1>4. SInv /\ TInv /\ KInv(kind) /\ NamesResolve(kind) /\ [Parse]_tvars => (SInv /\ TInv /\ KInv(kind))'
  <2> SUFFICES ASSUME SInv, TInv, KInv(kind), NamesResolve(kind), [Parse]_tvars
               PROVE  (SInv /\ TInv /\ KInv(kind))'
    OBVIOUS
  <2>1. SInv' /\ TInv'
    BY <1>3, StepSInv, StepTInv
  <2>2. KInv(kind)'
    BY <1>1, <2>1, StepKInv
  <2> QED
    BY <2>1, <2>2
<1> QED
  BY <1>2, <1>3, <1>4, PTL DEF TransSpec
=============================================================================
