--------------------------- MODULE MipsGenProofs ---------------------------
(***************************************************************************)
(* For every list of instructions the generator may be given: the frame of *)
(* a call, sized before any code is emitted, fits the list of variables    *)
(* that fills it, and no variable is listed twice.                         *)
(*                                                                         *)
(* emit_assign may extend the list while code is emitted, so FrameFits is  *)
(* not inductive: it needs AssignsCollected, that the first pass has       *)
(* already put in the list whatever an ASSIGN could add.                   *)
(***************************************************************************)
EXTENDS MipsGen, FiniteSetTheorems, TLAPS

NotCountedYet == gen = "collect" => all_variables_count = 0

IInv ==
    /\ GenTypeOK
    /\ FrameFits
    /\ OneLabelEach
    /\ AssignsCollected
    /\ NotCountedYet

-----------------------------------------------------------------------------
Distinct(list) == \A j, k \in DOMAIN list : list[j] = list[k] => j = k

(* add_variable keeps what is listed and adds at most the one name.        *)
LEMMA AddVariableLemma ==
    ASSUME NEW list \in Seq(Var), NEW x \in Var
    PROVE  /\ AddVariable(list, x) \in Seq(Var)
           /\ Contains(AddVariable(list, x), x)
           /\ \A y \in Var : Contains(list, y) => Contains(AddVariable(list, x), y)
           /\ Contains(list, x) => AddVariable(list, x) = list
           /\ Distinct(list) => Distinct(AddVariable(list, x))
<1>1. CASE Contains(list, x)
  BY <1>1 DEF AddVariable
<1>2. CASE ~Contains(list, x)
  <2> DEFINE new == <<x>> \o list
  <2>1. /\ new \in Seq(Var)
        /\ Len(new) = Len(list) + 1
        /\ new[1] = x
        /\ \A i \in 1..Len(list) : new[i + 1] = list[i]
        /\ \A i \in 2..Len(new) : new[i] = list[i - 1]
    OBVIOUS
  <2>2. AddVariable(list, x) = new
    BY <1>2 DEF AddVariable
  <2> HIDE DEF new
  <2>3. Contains(new, x)
    BY <2>1 DEF Contains
  <2>4. ASSUME NEW y \in Var, Contains(list, y)
        PROVE  Contains(new, y)
    <3>1. PICK i \in 1..Len(list) : list[i] = y
      BY <2>4 DEF Contains
    <3>2. i + 1 \in 1..Len(new) /\ new[i + 1] = y
      BY <2>1, <3>1
    <3> QED
      BY <3>2 DEF Contains
  <2>5. ASSUME Distinct(list)
        PROVE  Distinct(new)
    <3>1. SUFFICES ASSUME NEW j \in 1..Len(new), NEW k \in 1..Len(new), j < k
                   PROVE  new[j] # new[k]
      BY <2>1 DEF Distinct
    <3>2. new[k] = list[k - 1] /\ k - 1 \in 1..Len(list)
      BY <2>1, <3>1
    <3>3. CASE j = 1
      BY <1>2, <2>1, <3>2, <3>3 DEF Contains
    <3>4. CASE j # 1
      <4>1. new[j] = list[j - 1] /\ j - 1 \in 1..Len(list) /\ j - 1 # k - 1
        BY <2>1, <3>1, <3>4
      <4> QED
        BY <2>5, <3>2, <4>1 DEF Distinct
    <3> QED
      BY <3>3, <3>4
  <2> QED
    BY <1>2, <2>1, <2>2, <2>3, <2>4, <2>5
<1> QED
  BY <1>1, <1>2

LEMMA AddOperandLemma ==
    ASSUME NEW list \in Seq(Var), NEW o \in Opd
    PROVE  /\ AddOperand(list, o) \in Seq(Var)
           /\ o.kind = "OP_VARIABLE" => o.char_val \in Var /\ Contains(AddOperand(list, o), o.char_val)
           /\ \A y \in Var : Contains(list, y) => Contains(AddOperand(list, o), y)
           /\ Distinct(list) => Distinct(AddOperand(list, o))
<1>1. CASE o.kind = "OP_VARIABLE"
  <2>1. o.char_val \in Var
    BY <1>1 DEF Opd, ScalarOpd, VarOpd, PointerOpd
  <2> QED
    BY <1>1, <2>1, AddVariableLemma DEF AddOperand
<1>2. CASE o.kind # "OP_VARIABLE"
  BY <1>2 DEF AddOperand
<1> QED
  BY <1>1, <1>2

(* The operands collect_variables looks at are operands.                   *)
LEMMA InstLemma ==
    ASSUME NEW i \in Inst
    PROVE  /\ i.kind = "ASSIGN" =>
                /\ i.left \in Opd /\ i.right \in Opd
                /\ i.left.kind = "OP_VARIABLE" /\ i.left.char_val \in Var
                /\ i.right.kind \in {"OP_VARIABLE", "OP_CONSTANT"}
                /\ i.right.kind = "OP_VARIABLE" => i.right.char_val \in Var
           /\ i.kind \in ArithKinds => i.left \in Opd /\ i.r1 \in Opd /\ i.r2 \in Opd
           /\ i.kind \in {"READ", "WRITE"} => i.var \in Opd
           /\ i.kind = "CALL" => i.ret \in Opd
BY DEF Inst, Opd, ScalarOpd, VarOpd, PointerOpd, ArithKinds, IfKinds

(* One step of the first pass: it loses no name and lists none twice.      *)
LEMMA CollectedLemma ==
    ASSUME NEW list \in Seq(Var), NEW i \in Inst
    PROVE  /\ Collected(list, i) \in Seq(Var)
           /\ \A y \in Var : Contains(list, y) => Contains(Collected(list, i), y)
           /\ Distinct(list) => Distinct(Collected(list, i))
           /\ i.kind = "ASSIGN" =>
                /\ Contains(Collected(list, i), i.left.char_val)
                /\ i.right.kind = "OP_VARIABLE" => Contains(Collected(list, i), i.right.char_val)
<1>1. CASE i.kind = "ASSIGN"
  <2> DEFINE one == AddOperand(list, i.left)
             two == AddOperand(one, i.right)
  <2>1. /\ i.left \in Opd /\ i.right \in Opd
        /\ i.left.kind = "OP_VARIABLE" /\ i.left.char_val \in Var
    BY <1>1, InstLemma
  <2>2. /\ one \in Seq(Var)
        /\ Contains(one, i.left.char_val)
        /\ \A y \in Var : Contains(list, y) => Contains(one, y)
        /\ Distinct(list) => Distinct(one)
    BY <2>1, AddOperandLemma
  <2>3. /\ two \in Seq(Var)
        /\ i.right.kind = "OP_VARIABLE" => Contains(two, i.right.char_val)
        /\ \A y \in Var : Contains(one, y) => Contains(two, y)
        /\ Distinct(one) => Distinct(two)
    <3> HIDE DEF one
    <3> QED
      BY <2>1, <2>2, AddOperandLemma
  <2>4. Collected(list, i) = two
    BY <1>1 DEF Collected
  <2> QED
    BY <2>1, <2>2, <2>3, <2>4
<1>2. CASE i.kind \in ArithKinds
  <2> DEFINE one == AddOperand(list, i.left)
             two == AddOperand(one, i.r1)
             three == AddOperand(two, i.r2)
  <2>1. i.left \in Opd /\ i.r1 \in Opd /\ i.r2 \in Opd
    BY <1>2, InstLemma
  <2>2. /\ one \in Seq(Var)
        /\ \A y \in Var : Contains(list, y) => Contains(one, y)
        /\ Distinct(list) => Distinct(one)
    BY <2>1, AddOperandLemma
  <2>3. /\ two \in Seq(Var)
        /\ \A y \in Var : Contains(one, y) => Contains(two, y)
        /\ Distinct(one) => Distinct(two)
    <3> HIDE DEF one
    <3> QED
      BY <2>1, <2>2, AddOperandLemma
  <2>4. /\ three \in Seq(Var)
        /\ \A y \in Var : Contains(two, y) => Contains(three, y)
        /\ Distinct(two) => Distinct(three)
    <3> HIDE DEF two
    <3> QED
      BY <2>1, <2>3, AddOperandLemma
  <2>5. Collected(list, i) = three /\ i.kind # "ASSIGN"
    BY <1>2 DEF Collected, ArithKinds
  <2> HIDE DEF one, two, three
  <2> QED
    BY <2>2, <2>3, <2>4, <2>5
<1>3. CASE i.kind \in {"READ", "WRITE"}
  <2>1. Collected(list, i) = AddOperand(list, i.var) /\ i.kind # "ASSIGN"
    BY <1>3 DEF Collected, ArithKinds
  <2> QED
    BY <1>3, <2>1, InstLemma, AddOperandLemma
<1>4. CASE i.kind = "CALL"
  <2>1. Collected(list, i) = AddOperand(list, i.ret) /\ i.kind # "ASSIGN"
    BY <1>4 DEF Collected, ArithKinds
  <2> QED
    BY <1>4, <2>1, InstLemma, AddOperandLemma
<1>5. CASE i.kind \notin {"ASSIGN", "READ", "WRITE", "CALL"} \cup ArithKinds
  BY <1>5 DEF Collected
<1> QED
  BY <1>1, <1>2, <1>3, <1>4, <1>5

-----------------------------------------------------------------------------
(* What all emitters but emit_assign have in common: they go to the next   *)
(* node and leave the list and its length alone.                           *)
LEMMA EmitterLemma ==
    ASSUME IInv,
           gen = "emit", cur <= Len(tac), cur' = cur + 1,
           UNCHANGED <<tac, gen, all_variables, all_variables_count, data>>,
           arg_count' \in Nat, param_count' \in Nat
    PROVE  IInv'
BY DEF IInv, GenTypeOK, FrameFits, OneLabelEach, AssignsCollected, NotCountedYet

LEMMA InitLemma == Init => IInv
<1> SUFFICES ASSUME Init PROVE IInv
  OBVIOUS
<1>1. tac \in Seq(Inst)
  BY ProgramsAssumption DEF Init
<1> QED
  BY <1>1 DEF Init, IInv, GenTypeOK, FrameFits, OneLabelEach, AssignsCollected, NotCountedYet

LEMMA CollectLemma == IInv /\ Collect => IInv'
<1> SUFFICES ASSUME IInv, Collect PROVE IInv'
  OBVIOUS
<1> USE DEF IInv
<1> DEFINE i == tac[cur]
<1>1. /\ tac \in Seq(Inst) /\ tac' = tac /\ cur \in 1..Len(tac) /\ cur' = cur + 1
      /\ gen = "collect" /\ gen' = gen
      /\ all_variables \in Seq(Var) /\ all_variables' = Collected(all_variables, i)
      /\ i \in Inst
  BY DEF Collect, GenTypeOK
<1>2. /\ all_variables' \in Seq(Var)
      /\ \A y \in Var : Contains(all_variables, y) => Contains(all_variables', y)
      /\ OneLabelEach'
      /\ i.kind = "ASSIGN" =>
            /\ Contains(all_variables', i.left.char_val)
            /\ i.right.kind = "OP_VARIABLE" => Contains(all_variables', i.right.char_val)
  BY <1>1, CollectedLemma DEF OneLabelEach, Distinct
<1>3. GenTypeOK' /\ FrameFits' /\ NotCountedYet'
  BY <1>1, <1>2 DEF Collect, GenTypeOK, FrameFits, NotCountedYet
<1>4. AssignsCollected'
  <2>1. SUFFICES ASSUME NEW n \in DOMAIN tac, tac[n].kind = "ASSIGN", n < cur + 1
                 PROVE  /\ Contains(all_variables', tac[n].left.char_val)
                        /\ tac[n].right.kind = "OP_VARIABLE" =>
                              Contains(all_variables', tac[n].right.char_val)
    BY <1>1 DEF AssignsCollected
  <2>2. CASE n = cur
    BY <1>2, <2>1, <2>2
  <2>3. CASE n # cur
    <3>1. n < cur /\ tac[n] \in Inst
      BY <1>1, <2>1, <2>3
    <3>2. /\ tac[n].left.char_val \in Var
          /\ tac[n].right.kind = "OP_VARIABLE" => tac[n].right.char_val \in Var
      BY <2>1, <3>1, InstLemma
    <3> QED
      BY <1>1, <1>2, <2>1, <3>1, <3>2 DEF AssignsCollected
  <2> QED
    BY <2>2, <2>3
<1> QED
  BY <1>2, <1>3, <1>4

(* emit_assign: both names are in the list, so add_variable returns it.    *)
LEMMA EmitAssignLemma == IInv /\ EmitAssign => IInv'
<1> SUFFICES ASSUME IInv, EmitAssign PROVE IInv'
  OBVIOUS
<1> DEFINE i == tac[cur]
<1>1. /\ gen = "emit" /\ cur \in DOMAIN tac /\ cur <= Len(tac) /\ i \in Inst /\ i.kind = "ASSIGN"
      /\ all_variables \in Seq(Var)
      /\ UNCHANGED <<tac, gen, all_variables_count, data, arg_count, param_count>>
      /\ cur' = cur + 1
      /\ arg_count \in Nat /\ param_count \in Nat
  BY DEF EmitAssign, At, Out, IInv, GenTypeOK
<1>2. /\ i.left.char_val \in Var /\ Contains(all_variables, i.left.char_val)
      /\ i.right.kind # "OP_CONSTANT" =>
            i.right.char_val \in Var /\ Contains(all_variables, i.right.char_val)
  BY <1>1, InstLemma DEF IInv, AssignsCollected
<1>3. AddVariable(all_variables, i.left.char_val) = all_variables
  BY <1>1, <1>2, AddVariableLemma
<1>4. i.right.kind # "OP_CONSTANT" =>
        AddVariable(all_variables, i.right.char_val) = all_variables
  BY <1>1, <1>2, AddVariableLemma
<1>5. all_variables' = all_variables
  BY <1>3, <1>4 DEF EmitAssign
<1> QED
  BY <1>1, <1>5, EmitterLemma

LEMMA StepLemma == IInv /\ [GenNext]_gvars => IInv'
<1> SUFFICES ASSUME IInv, [GenNext]_gvars PROVE IInv'
  OBVIOUS
<1>1. arg_count \in Nat /\ param_count \in Nat
  BY DEF IInv, GenTypeOK
<1>2. CASE Collect
  BY <1>2, CollectLemma
<1>3. CASE Prologue
  <2>1. /\ all_variables \in Seq(Var) /\ all_variables_count = 0
        /\ all_variables_count' = Len(all_variables) /\ all_variables' = all_variables
        /\ data' = all_variables /\ gen = "collect" /\ gen' = "emit"
        /\ tac' = tac /\ tac \in Seq(Inst) /\ cur' = 1 /\ cur > Len(tac)
        /\ arg_count' = arg_count /\ param_count' = param_count
    BY <1>3 DEF Prologue, IInv, GenTypeOK, NotCountedYet
  <2>2. GenTypeOK' /\ FrameFits' /\ NotCountedYet'
    BY <1>1, <2>1 DEF GenTypeOK, FrameFits, NotCountedYet
  <2>3. OneLabelEach'
    BY <2>1 DEF IInv, OneLabelEach
  <2>4. AssignsCollected'
    <3>1. \A i \in DOMAIN tac : i < cur
      BY <2>1 DEF IInv, GenTypeOK
    <3> QED
      BY <2>1, <3>1 DEF IInv, AssignsCollected
  <2> QED
    BY <2>2, <2>3, <2>4 DEF IInv
<1>4. CASE EmitAssign
  BY <1>4, EmitAssignLemma
<1>5. CASE \/ EmitLabel \/ EmitFunction \/ EmitArith \/ EmitAddr \/ EmitFetch
           \/ EmitDeref \/ EmitGoto \/ EmitIf \/ EmitReturn \/ EmitDec
           \/ EmitRead \/ EmitWrite
  <2>1. \E lines : Out(lines)
    BY <1>5 DEF EmitLabel, EmitFunction, EmitArith, EmitAddr, EmitFetch, EmitDeref,
                EmitGoto, EmitIf, EmitReturn, EmitDec, EmitRead, EmitWrite
  <2>2. gen = "emit" /\ cur <= Len(tac) /\ UNCHANGED Counters
    BY <1>5 DEF EmitLabel, EmitFunction, EmitArith, EmitAddr, EmitFetch, EmitDeref,
                EmitGoto, EmitIf, EmitReturn, EmitDec, EmitRead, EmitWrite, At
  <2> QED
    BY <1>1, <2>1, <2>2, EmitterLemma DEF Out, Counters
<1>6. CASE EmitArg
  BY <1>1, <1>6, EmitterLemma DEF EmitArg, At, Out
<1>7. CASE EmitCall
  BY <1>1, <1>7, EmitterLemma DEF EmitCall, At, Out
<1>8. CASE EmitParam
  BY <1>1, <1>8, EmitterLemma DEF EmitParam, At, Out
<1>9. CASE SkipNone
  BY <1>1, <1>9, EmitterLemma DEF SkipNone, At, Counters
<1>10. CASE Finish
  BY <1>10 DEF Finish, IInv, GenTypeOK, FrameFits, OneLabelEach, AssignsCollected, NotCountedYet
<1>11. CASE UNCHANGED gvars
  BY <1>11 DEF gvars, IInv, GenTypeOK, FrameFits, OneLabelEach, AssignsCollected, NotCountedYet
<1> QED
  BY <1>2, <1>3, <1>4, <1>5, <1>6, <1>7, <1>8, <1>9, <1>10, <1>11 DEF GenNext

THEOREM Inductive == GenSpec => []IInv
BY InitLemma, StepLemma, PTL DEF GenSpec

(* The generator's variables have their types, whatever the list.          *)
THEOREM GenTypeCorrect == GenSpec => []GenTypeOK
BY Inductive, PTL DEF IInv

(* The frame of every CALL is exactly as large as the words emit_call puts *)
(* in it, and each of those has a word in .data.                           *)
THEOREM FrameAlwaysFits == GenSpec => []FrameFits
BY Inductive, PTL DEF IInv

(* collect_variables and emit_assign never list a name twice.              *)
THEOREM LabelsAreDistinct == GenSpec => []OneLabelEach
BY Inductive, PTL DEF IInv

(* Whatever an ASSIGN names is listed before any code is emitted.          *)
THEOREM AssignsAreCollected == GenSpec => []AssignsCollected
BY Inductive, PTL DEF IInv

-----------------------------------------------------------------------------
(* The layout of the text: which lines are where, and what the counters    *)
(* count.                                                                  *)

RunOf(kind, i, n) ==
    /\ n \in 0..i - 1
    /\ \A j \in i - n..i - 1 : tac[j].kind = kind
    /\ i - n - 1 >= 1 => tac[i - n - 1].kind # kind

ArgsBefore == [i \in 1..Len(tac) + 1 |-> CHOOSE n \in 0..i - 1 : RunOf("ARG", i, n)]
ParamsBefore == [i \in 1..Len(tac) + 1 |-> CHOOSE n \in 0..i - 1 : RunOf("PARAM", i, n)]
Pos == [i \in 1..Len(tac) + 1 |-> 1 + Cardinality({k \in DOMAIN text : text[k].of < i})]

Lines(i) ==
    LET t == tac[i] IN
    IF t.kind = "LABEL" THEN <<Mark(t.labelno)>>
    ELSE IF t.kind = "FUNCTION" THEN <<Mark(t.funcname)>>
    ELSE IF t.kind = "ASSIGN" THEN <<Load(t.right, "t0"), Swl("t0", t.left.char_val)>>
    ELSE IF t.kind \in ArithKinds
         THEN <<Load(t.r1, "t0"), Load(t.r2, "t1")>> \o ArithOp[t.kind] \o <<Swl("t2", t.left.char_val)>>
    ELSE IF t.kind = "ADDR" THEN <<La("t0", t.right.char_val), Swl("t0", t.left.char_val)>>
    ELSE IF t.kind = "FETCH"
         THEN <<Lwl("t0", t.raddr.char_val), Lw("t1", 0, "t0"), Swl("t1", t.left.char_val)>>
    ELSE IF t.kind = "DEREF"
         THEN <<Lwl("t0", t.right.char_val), Lwl("t1", t.laddr.char_val), Sw("t1", 0, "t0")>>
    ELSE IF t.kind = "GOTO" THEN <<J(t.labelno)>>
    ELSE IF t.kind \in IfKinds
         THEN <<Load(t.c1, "t0"), Load(t.c2, "t1"), Branch(BranchOp[t.kind], "t0", "t1", t.labelno)>>
    ELSE IF t.kind = "RETURN"
         THEN <<IF t.var.kind = "OP_CONSTANT" THEN Li("v0", t.var.int_val) ELSE Lwl("v0", t.var.char_val), Jr>>
    ELSE IF t.kind = "ARG" THEN <<Load(t.var, "t0"), Addi("sp", "sp", -4), Sw("t0", 0, "sp")>>
    ELSE IF t.kind = "CALL"
         THEN <<Addi("sp", "sp", -FrameSize)>> \o SaveAll
               \o <<Sw("ra", RaOffset, "sp"), Jal(t.funcname)>>
               \o RestoreAll
               \o <<Lw("ra", RaOffset, "sp"), Addi("sp", "sp", FrameSize + 4 * ArgsBefore[i]),
                    Swl("v0", t.ret.char_val)>>
    ELSE IF t.kind = "PARAM"
         THEN <<Lw("t0", 4 * ParamsBefore[i] + FrameSize, "sp"), Swl("t0", t.var.char_val)>>
    ELSE IF t.kind = "READ" THEN AroundCall("read") \o <<Swl("v0", t.var.char_val)>>
    ELSE IF t.kind = "WRITE"
         THEN <<IF t.var.kind = "OP_CONSTANT" THEN Li("a0", t.var.int_val) ELSE Lwl("a0", t.var.char_val)>>
               \o AroundCall("write")
    ELSE <<>>

(* The lines of the instructions before i, and nothing else, are in text.  *)
Layout(first, i) ==
    /\ first \in [1..i -> Nat]
    /\ first[1] = Len(Runtime) + 1 /\ first[i] = Len(text) + 1
    /\ \A j, k \in 1..i : j <= k => first[j] <= first[k]
    /\ \A k \in 1..Len(Runtime) : text[k] = Runtime[k]
    /\ \A j \in 1..i - 1 :
         /\ first[j + 1] = first[j] + Len(Lines(j))
         /\ \A k \in 1..Len(Lines(j)) : text[first[j] + k - 1] = [of |-> j, ins |-> Lines(j)[k]]
    /\ \A k \in DOMAIN text : k > Len(Runtime) =>
         /\ text[k].of \in 1..i - 1
         /\ first[text[k].of] <= k /\ k < first[text[k].of + 1]

IsSeq(s) == s \in Seq({s[k] : k \in DOMAIN s})

(* The counters are the lengths of the runs of ARGs and PARAMs that end    *)
(* before the instruction whose lines are emitted next.                    *)
CountersFit ==
    /\ gen = "collect" => arg_count = 0 /\ param_count = 0
    /\ gen = "emit" =>
         /\ RunOf("ARG", cur, arg_count)
         /\ cur > 1 /\ tac[cur - 1].kind = "PARAM" => RunOf("PARAM", cur, param_count)
         /\ param_count # 0 =>
              \E j \in 1..cur - 1 : tac[j].kind = "PARAM" /\ \A k \in j..cur - 1 : tac[k].kind # "CALL"

LaidOut ==
    /\ IsSeq(text)
    /\ gen # "collect" => \E first : Layout(first, cur)
    /\ gen = "done" => cur = Len(tac) + 1

LayInv == IInv /\ Supported(tac) /\ CountersFit /\ LaidOut

-----------------------------------------------------------------------------
(* A sequence is one over its own elements.                                *)
LEMMA SeqLemma ==
    ASSUME NEW S, NEW s \in Seq(S)
    PROVE  IsSeq(s)
BY DEF IsSeq

(* s followed by the values of a function.                                 *)
LEMMA ConcatLemma ==
    ASSUME NEW s, IsSeq(s), NEW m \in Nat, NEW t, t = [k \in 1..m |-> t[k]]
    PROVE  /\ IsSeq(s \o t) /\ Len(s \o t) = Len(s) + m /\ Len(s) \in Nat
           /\ \A k \in 1..Len(s) : (s \o t)[k] = s[k]
           /\ \A k \in 1..m : (s \o t)[Len(s) + k] = t[k]
           /\ DOMAIN s = 1..Len(s) /\ DOMAIN (s \o t) = 1..Len(s) + m
<1>1. PICK S : S = {s[k] : k \in DOMAIN s} \cup {t[k] : k \in 1..m}
  OBVIOUS
<1>2. s \in Seq(S) /\ t \in Seq(S) /\ Len(t) = m
  BY <1>1 DEF IsSeq
<1>3. PICK u : u = s \o t
  OBVIOUS
<1>4. /\ u \in Seq(S) /\ Len(u) = Len(s) + m /\ Len(s) \in Nat
      /\ \A k \in 1..Len(s) : u[k] = s[k]
      /\ \A k \in 1..m : u[Len(s) + k] = t[k]
  BY <1>2, <1>3
<1>5. IsSeq(u)
  BY <1>4, SeqLemma
<1> QED
  BY <1>2, <1>3, <1>4, <1>5

(* What is constant of a list once it is: runs, and the lines of each.     *)
LEMMA RunsSame ==
    ASSUME UNCHANGED tac
    PROVE  /\ ArgsBefore' = ArgsBefore /\ ParamsBefore' = ParamsBefore
           /\ \A kind, i, n : RunOf(kind, i, n)' = RunOf(kind, i, n)
BY DEF ArgsBefore, ParamsBefore, RunOf

(* The lines of an instruction depend on the list and on the variables     *)
(* only.                                                                   *)
LEMMA LinesSame ==
    ASSUME UNCHANGED <<tac, all_variables, all_variables_count>>, NEW i
    PROVE  Lines(i)' = Lines(i)
BY RunsSame DEF Lines, SaveAll, RestoreAll, FrameSize, RaOffset

(* A run has one length.                                                   *)
LEMMA RunUnique ==
    ASSUME tac \in Seq(Inst), NEW kind, NEW i \in 1..Len(tac) + 1, NEW n, RunOf(kind, i, n),
           NEW m, RunOf(kind, i, m)
    PROVE  m = n
<1>1. n \in 0..i - 1 /\ m \in 0..i - 1
  BY DEF RunOf
<1>2. ~(n < m)
  <2> SUFFICES ASSUME n < m PROVE FALSE
    OBVIOUS
  <2>1. i - n - 1 >= 1 /\ i - n - 1 \in i - m..i - 1
    BY <1>1
  <2> QED
    BY <2>1 DEF RunOf
<1>3. ~(m < n)
  <2> SUFFICES ASSUME m < n PROVE FALSE
    OBVIOUS
  <2>1. i - m - 1 >= 1 /\ i - m - 1 \in i - n..i - 1
    BY <1>1
  <2> QED
    BY <2>1 DEF RunOf
<1> QED
  BY <1>1, <1>2, <1>3

(* ArgsBefore and ParamsBefore are the lengths of the runs.                *)
LEMMA RunLength ==
    ASSUME tac \in Seq(Inst), NEW i \in 1..Len(tac) + 1, NEW n
    PROVE  /\ RunOf("ARG", i, n) => ArgsBefore[i] = n
           /\ RunOf("PARAM", i, n) => ParamsBefore[i] = n
<1>1. ASSUME RunOf("ARG", i, n) PROVE ArgsBefore[i] = n
  <2>1. n \in 0..i - 1
    BY <1>1 DEF RunOf
  <2>2. PICK m : m = CHOOSE k \in 0..i - 1 : RunOf("ARG", i, k)
    OBVIOUS
  <2>3. RunOf("ARG", i, m)
    BY <1>1, <2>1, <2>2
  <2> QED
    BY <1>1, <2>2, <2>3, RunUnique DEF ArgsBefore
<1>2. ASSUME RunOf("PARAM", i, n) PROVE ParamsBefore[i] = n
  <2>1. n \in 0..i - 1
    BY <1>2 DEF RunOf
  <2>2. PICK m : m = CHOOSE k \in 0..i - 1 : RunOf("PARAM", i, k)
    OBVIOUS
  <2>3. RunOf("PARAM", i, m)
    BY <1>2, <2>1, <2>2
  <2> QED
    BY <1>2, <2>2, <2>3, RunUnique DEF ParamsBefore
<1> QED
  BY <1>1, <1>2

(* The concatenation of two sequences, element by element.                 *)
LEMMA JoinLemma ==
    ASSUME NEW s, IsSeq(s), NEW t, IsSeq(t)
    PROVE  /\ IsSeq(s \o t) /\ Len(s \o t) = Len(s) + Len(t)
           /\ \A k \in 1..Len(s) : (s \o t)[k] = s[k]
           /\ \A k \in Len(s) + 1..Len(s) + Len(t) : (s \o t)[k] = t[k - Len(s)]
<1>1. Len(t) \in Nat /\ t = [k \in 1..Len(t) |-> t[k]]
  BY DEF IsSeq
<1>2. PICK u : u = s \o t
  OBVIOUS
<1>3. /\ IsSeq(u) /\ Len(u) = Len(s) + Len(t) /\ Len(s) \in Nat
      /\ \A k \in 1..Len(s) : u[k] = s[k]
      /\ \A k \in 1..Len(t) : u[Len(s) + k] = t[k]
  <2>1. PICK S : S = {s[k] : k \in DOMAIN s} \cup {t[k] : k \in DOMAIN t}
    OBVIOUS
  <2>2. s \in Seq(S) /\ t \in Seq(S)
    BY <2>1 DEF IsSeq
  <2>3. /\ u \in Seq(S) /\ Len(u) = Len(s) + Len(t) /\ Len(s) \in Nat
        /\ \A k \in 1..Len(s) : u[k] = s[k]
        /\ \A k \in 1..Len(t) : u[Len(s) + k] = t[k]
    BY <1>2, <2>2
  <2> QED
    BY <2>3, SeqLemma
<1>4. ASSUME NEW k \in Len(s) + 1..Len(s) + Len(t)
      PROVE  u[k] = t[k - Len(s)]
  <2>1. k - Len(s) \in 1..Len(t) /\ Len(s) + (k - Len(s)) = k
    BY <1>1, <1>3
  <2> QED
    BY <1>3, <2>1
<1> QED
  BY <1>2, <1>3, <1>4

(* A sequence is a function of its indices.                                *)
LEMMA IsSeqLemma ==
    ASSUME NEW s, IsSeq(s)
    PROVE  Len(s) \in Nat /\ DOMAIN s = 1..Len(s) /\ s = [k \in 1..Len(s) |-> s[k]]
BY DEF IsSeq

(* The lines of each kind of instruction.                                  *)
LEMMA MarkLines ==
    ASSUME NEW i
    PROVE  /\ tac[i].kind = "LABEL" => Lines(i) = <<Mark(tac[i].labelno)>>
           /\ tac[i].kind = "FUNCTION" => Lines(i) = <<Mark(tac[i].funcname)>>
           /\ tac[i].kind = "GOTO" => Lines(i) = <<J(tac[i].labelno)>>
           /\ tac[i].kind \in NoLines => Lines(i) = <<>>
BY DEF Lines, NoLines, ArithKinds, IfKinds

LEMMA MoveLines ==
    ASSUME NEW i
    PROVE  /\ tac[i].kind = "ASSIGN" =>
                Lines(i) = <<Load(tac[i].right, "t0"), Swl("t0", tac[i].left.char_val)>>
           /\ tac[i].kind = "ADDR" =>
                Lines(i) = <<La("t0", tac[i].right.char_val), Swl("t0", tac[i].left.char_val)>>
           /\ tac[i].kind = "FETCH" =>
                Lines(i) = <<Lwl("t0", tac[i].raddr.char_val), Lw("t1", 0, "t0"),
                             Swl("t1", tac[i].left.char_val)>>
           /\ tac[i].kind = "DEREF" =>
                Lines(i) = <<Lwl("t0", tac[i].right.char_val), Lwl("t1", tac[i].laddr.char_val),
                             Sw("t1", 0, "t0")>>
           /\ tac[i].kind = "PARAM" =>
                Lines(i) = <<Lw("t0", 4 * ParamsBefore[i] + FrameSize, "sp"),
                             Swl("t0", tac[i].var.char_val)>>
           /\ tac[i].kind = "ARG" =>
                Lines(i) = <<Load(tac[i].var, "t0"), Addi("sp", "sp", -4), Sw("t0", 0, "sp")>>
BY DEF Lines, ArithKinds, IfKinds

(* Two sequences that are the same element by element.                     *)
LEMMA SameSeq ==
    ASSUME NEW s, IsSeq(s), NEW t, IsSeq(t), Len(s) = Len(t), \A k \in 1..Len(s) : s[k] = t[k]
    PROVE  s = t
<1>1. s = [k \in 1..Len(s) |-> s[k]] /\ t = [k \in 1..Len(s) |-> t[k]]
  BY IsSeqLemma
<1>2. [k \in 1..Len(s) |-> s[k]] = [k \in 1..Len(s) |-> t[k]]
  OBVIOUS
<1> QED
  BY <1>1, <1>2

(* Tuples are sequences.                                                   *)
LEMMA TupleLemma ==
    ASSUME NEW a, NEW b, NEW c, NEW d, NEW e, NEW f
    PROVE  /\ IsSeq(<<a>>) /\ IsSeq(<<a, b>>) /\ IsSeq(<<a, b, c>>) /\ IsSeq(<<a, b, c, d>>)
           /\ IsSeq(<<a, b, c, d, e>>) /\ IsSeq(<<a, b, c, d, e, f>>)
<1>1. PICK S : S = {a, b, c, d, e, f}
  OBVIOUS
<1>2. <<a>> \in Seq(S) /\ <<a, b>> \in Seq(S) /\ <<a, b, c>> \in Seq(S)
  BY <1>1
<1>3. <<a, b, c, d>> \in Seq(S) /\ <<a, b, c, d, e>> \in Seq(S) /\ <<a, b, c, d, e, f>> \in Seq(S)
  BY <1>1
<1> QED
  BY <1>2, <1>3, SeqLemma

(* The same, of two sequences over one set.                                *)
LEMMA EqualSeq ==
    ASSUME NEW S, NEW s \in Seq(S), NEW t \in Seq(S), Len(s) = Len(t), \A k \in 1..Len(s) : s[k] = t[k]
    PROVE  s = t
OBVIOUS

(* Concatenation over one set; the lengths the emitters need follow.       *)
LEMMA JoinIn ==
    ASSUME NEW S, NEW s \in Seq(S), NEW t \in Seq(S)
    PROVE  /\ s \o t \in Seq(S) /\ Len(s \o t) = Len(s) + Len(t)
           /\ \A k \in 1..Len(s) : (s \o t)[k] = s[k]
           /\ \A k \in Len(s) + 1..Len(s) + Len(t) : (s \o t)[k] = t[k - Len(s)]
OBVIOUS

LEMMA Join21 ==
    ASSUME NEW S, NEW s \in Seq(S), NEW t \in Seq(S), Len(s) = 2, Len(t) = 1
    PROVE  /\ s \o t \in Seq(S) /\ Len(s \o t) = 3
           /\ (s \o t)[1] = s[1] /\ (s \o t)[2] = s[2]
           /\ (s \o t)[3] = t[1]
<1>1. PICK u : u = s \o t
  OBVIOUS
<1>2. /\ u \in Seq(S) /\ Len(u) = Len(s) + Len(t)
      /\ \A k \in 1..Len(s) : u[k] = s[k]
      /\ \A k \in Len(s) + 1..Len(s) + Len(t) : u[k] = t[k - Len(s)]
  BY <1>1, JoinIn
<1>3. /\ Len(u) = 3
      /\ u[1] = s[1] /\ u[2] = s[2]
      /\ u[3] = t[1]
  BY <1>2
<1> QED
  BY <1>1, <1>2, <1>3

LEMMA Join22 ==
    ASSUME NEW S, NEW s \in Seq(S), NEW t \in Seq(S), Len(s) = 2, Len(t) = 2
    PROVE  /\ s \o t \in Seq(S) /\ Len(s \o t) = 4
           /\ (s \o t)[1] = s[1] /\ (s \o t)[2] = s[2]
           /\ (s \o t)[3] = t[1] /\ (s \o t)[4] = t[2]
<1>1. PICK u : u = s \o t
  OBVIOUS
<1>2. /\ u \in Seq(S) /\ Len(u) = Len(s) + Len(t)
      /\ \A k \in 1..Len(s) : u[k] = s[k]
      /\ \A k \in Len(s) + 1..Len(s) + Len(t) : u[k] = t[k - Len(s)]
  BY <1>1, JoinIn
<1>3. /\ Len(u) = 4
      /\ u[1] = s[1] /\ u[2] = s[2]
      /\ u[3] = t[1] /\ u[4] = t[2]
  BY <1>2
<1> QED
  BY <1>1, <1>2, <1>3

LEMMA Join31 ==
    ASSUME NEW S, NEW s \in Seq(S), NEW t \in Seq(S), Len(s) = 3, Len(t) = 1
    PROVE  /\ s \o t \in Seq(S) /\ Len(s \o t) = 4
           /\ (s \o t)[1] = s[1] /\ (s \o t)[2] = s[2] /\ (s \o t)[3] = s[3]
           /\ (s \o t)[4] = t[1]
<1>1. PICK u : u = s \o t
  OBVIOUS
<1>2. /\ u \in Seq(S) /\ Len(u) = Len(s) + Len(t)
      /\ \A k \in 1..Len(s) : u[k] = s[k]
      /\ \A k \in Len(s) + 1..Len(s) + Len(t) : u[k] = t[k - Len(s)]
  BY <1>1, JoinIn
<1>3. /\ Len(u) = 4
      /\ u[1] = s[1] /\ u[2] = s[2] /\ u[3] = s[3]
      /\ u[4] = t[1]
  BY <1>2
<1> QED
  BY <1>1, <1>2, <1>3

LEMMA Join41 ==
    ASSUME NEW S, NEW s \in Seq(S), NEW t \in Seq(S), Len(s) = 4, Len(t) = 1
    PROVE  /\ s \o t \in Seq(S) /\ Len(s \o t) = 5
           /\ (s \o t)[1] = s[1] /\ (s \o t)[2] = s[2] /\ (s \o t)[3] = s[3] /\ (s \o t)[4] = s[4]
           /\ (s \o t)[5] = t[1]
<1>1. PICK u : u = s \o t
  OBVIOUS
<1>2. /\ u \in Seq(S) /\ Len(u) = Len(s) + Len(t)
      /\ \A k \in 1..Len(s) : u[k] = s[k]
      /\ \A k \in Len(s) + 1..Len(s) + Len(t) : u[k] = t[k - Len(s)]
  BY <1>1, JoinIn
<1>3. /\ Len(u) = 5
      /\ u[1] = s[1] /\ u[2] = s[2] /\ u[3] = s[3] /\ u[4] = s[4]
      /\ u[5] = t[1]
  BY <1>2
<1> QED
  BY <1>1, <1>2, <1>3

LEMMA Join51 ==
    ASSUME NEW S, NEW s \in Seq(S), NEW t \in Seq(S), Len(s) = 5, Len(t) = 1
    PROVE  /\ s \o t \in Seq(S) /\ Len(s \o t) = 6
           /\ (s \o t)[1] = s[1] /\ (s \o t)[2] = s[2] /\ (s \o t)[3] = s[3] /\ (s \o t)[4] = s[4] /\ (s \o t)[5] = s[5]
           /\ (s \o t)[6] = t[1]
<1>1. PICK u : u = s \o t
  OBVIOUS
<1>2. /\ u \in Seq(S) /\ Len(u) = Len(s) + Len(t)
      /\ \A k \in 1..Len(s) : u[k] = s[k]
      /\ \A k \in Len(s) + 1..Len(s) + Len(t) : u[k] = t[k - Len(s)]
  BY <1>1, JoinIn
<1>3. /\ Len(u) = 6
      /\ u[1] = s[1] /\ u[2] = s[2] /\ u[3] = s[3] /\ u[4] = s[4] /\ u[5] = s[5]
      /\ u[6] = t[1]
  BY <1>2
<1> QED
  BY <1>1, <1>2, <1>3

LEMMA Join15 ==
    ASSUME NEW S, NEW s \in Seq(S), NEW t \in Seq(S), Len(s) = 1, Len(t) = 5
    PROVE  /\ s \o t \in Seq(S) /\ Len(s \o t) = 6
           /\ (s \o t)[1] = s[1]
           /\ (s \o t)[2] = t[1] /\ (s \o t)[3] = t[2] /\ (s \o t)[4] = t[3] /\ (s \o t)[5] = t[4] /\ (s \o t)[6] = t[5]
<1>1. PICK u : u = s \o t
  OBVIOUS
<1>2. /\ u \in Seq(S) /\ Len(u) = Len(s) + Len(t)
      /\ \A k \in 1..Len(s) : u[k] = s[k]
      /\ \A k \in Len(s) + 1..Len(s) + Len(t) : u[k] = t[k - Len(s)]
  BY <1>1, JoinIn
<1>3. /\ Len(u) = 6
      /\ u[1] = s[1]
      /\ u[2] = t[1] /\ u[3] = t[2] /\ u[4] = t[3] /\ u[5] = t[4] /\ u[6] = t[5]
  BY <1>2
<1> QED
  BY <1>1, <1>2, <1>3

(* Sequences of a given length are equal if their elements are.            *)
LEMMA Equal4 ==
    ASSUME NEW S, NEW s \in Seq(S), NEW t \in Seq(S), Len(s) = 4, Len(t) = 4,
           s[1] = t[1] /\ s[2] = t[2] /\ s[3] = t[3] /\ s[4] = t[4]
    PROVE  s = t
<1>1. \A k \in 1..4 : s[k] = t[k]
  OBVIOUS
<1>2. Len(s) = Len(t) /\ \A k \in 1..Len(s) : s[k] = t[k]
  BY <1>1
<1> QED
  BY <1>2, EqualSeq

LEMMA Equal5 ==
    ASSUME NEW S, NEW s \in Seq(S), NEW t \in Seq(S), Len(s) = 5, Len(t) = 5,
           s[1] = t[1] /\ s[2] = t[2] /\ s[3] = t[3] /\ s[4] = t[4] /\ s[5] = t[5]
    PROVE  s = t
<1>1. \A k \in 1..5 : s[k] = t[k]
  OBVIOUS
<1>2. Len(s) = Len(t) /\ \A k \in 1..Len(s) : s[k] = t[k]
  BY <1>1
<1> QED
  BY <1>2, EqualSeq

LEMMA Equal6 ==
    ASSUME NEW S, NEW s \in Seq(S), NEW t \in Seq(S), Len(s) = 6, Len(t) = 6,
           s[1] = t[1] /\ s[2] = t[2] /\ s[3] = t[3] /\ s[4] = t[4] /\ s[5] = t[5] /\ s[6] = t[6]
    PROVE  s = t
<1>1. \A k \in 1..6 : s[k] = t[k]
  OBVIOUS
<1>2. Len(s) = Len(t) /\ \A k \in 1..Len(s) : s[k] = t[k]
  BY <1>1
<1> QED
  BY <1>2, EqualSeq

(* The concatenations the emitters write, as tuples.                       *)
LEMMA JoinFour ==
    ASSUME NEW a, NEW b, NEW c, NEW d
    PROVE  <<a, b>> \o <<c>> \o <<d>> = <<a, b, c, d>>
<1>0. PICK S : S = {a, b, c, d}
  OBVIOUS
<1>1. PICK p0 : p0 = <<a, b>>
  OBVIOUS
<1>2. p0 \in Seq(S) /\ Len(p0) = 2 /\ p0[1] = a /\ p0[2] = b
  BY <1>0, <1>1
<1>3. PICK p1 : p1 = <<c>>
  OBVIOUS
<1>4. p1 \in Seq(S) /\ Len(p1) = 1 /\ p1[1] = c
  BY <1>0, <1>3
<1>5. PICK p2 : p2 = <<d>>
  OBVIOUS
<1>6. p2 \in Seq(S) /\ Len(p2) = 1 /\ p2[1] = d
  BY <1>0, <1>5
<1>7. PICK w : w = <<a, b, c, d>>
  OBVIOUS
<1>8. w \in Seq(S) /\ Len(w) = 4 /\ w[1] = a /\ w[2] = b /\ w[3] = c /\ w[4] = d
  BY <1>0, <1>7
<1>9. PICK u1 : u1 = p0 \o p1
  OBVIOUS
<1>10. u1 \in Seq(S) /\ Len(u1) = 3 /\ u1[1] = p0[1] /\ u1[2] = p0[2] /\ u1[3] = p1[1]
  BY <1>2, <1>4, <1>9, Join21
<1>11. u1 \in Seq(S) /\ Len(u1) = 3 /\ u1[1] = a /\ u1[2] = b /\ u1[3] = c
  BY <1>2, <1>4, <1>10
<1>12. PICK u2 : u2 = u1 \o p2
  OBVIOUS
<1>13. u2 \in Seq(S) /\ Len(u2) = 4 /\ u2[1] = u1[1] /\ u2[2] = u1[2] /\ u2[3] = u1[3] /\ u2[4] = p2[1]
  BY <1>11, <1>6, <1>12, Join31
<1>14. u2 \in Seq(S) /\ Len(u2) = 4 /\ u2[1] = a /\ u2[2] = b /\ u2[3] = c /\ u2[4] = d
  BY <1>11, <1>6, <1>13
<1>15. u2 = w
  BY <1>14, <1>8, Equal4
<1> QED
  BY <1>1, <1>3, <1>5, <1>7, <1>9, <1>12, <1>15

LEMMA JoinFive ==
    ASSUME NEW a, NEW b, NEW c, NEW d, NEW e
    PROVE  <<a, b>> \o <<c, d>> \o <<e>> = <<a, b, c, d, e>>
<1>0. PICK S : S = {a, b, c, d, e}
  OBVIOUS
<1>1. PICK p0 : p0 = <<a, b>>
  OBVIOUS
<1>2. p0 \in Seq(S) /\ Len(p0) = 2 /\ p0[1] = a /\ p0[2] = b
  BY <1>0, <1>1
<1>3. PICK p1 : p1 = <<c, d>>
  OBVIOUS
<1>4. p1 \in Seq(S) /\ Len(p1) = 2 /\ p1[1] = c /\ p1[2] = d
  BY <1>0, <1>3
<1>5. PICK p2 : p2 = <<e>>
  OBVIOUS
<1>6. p2 \in Seq(S) /\ Len(p2) = 1 /\ p2[1] = e
  BY <1>0, <1>5
<1>7. PICK w : w = <<a, b, c, d, e>>
  OBVIOUS
<1>8. w \in Seq(S) /\ Len(w) = 5 /\ w[1] = a /\ w[2] = b /\ w[3] = c /\ w[4] = d /\ w[5] = e
  BY <1>0, <1>7
<1>9. PICK u1 : u1 = p0 \o p1
  OBVIOUS
<1>10. u1 \in Seq(S) /\ Len(u1) = 4 /\ u1[1] = p0[1] /\ u1[2] = p0[2] /\ u1[3] = p1[1] /\ u1[4] = p1[2]
  BY <1>2, <1>4, <1>9, Join22
<1>11. u1 \in Seq(S) /\ Len(u1) = 4 /\ u1[1] = a /\ u1[2] = b /\ u1[3] = c /\ u1[4] = d
  BY <1>2, <1>4, <1>10
<1>12. PICK u2 : u2 = u1 \o p2
  OBVIOUS
<1>13. u2 \in Seq(S) /\ Len(u2) = 5 /\ u2[1] = u1[1] /\ u2[2] = u1[2] /\ u2[3] = u1[3] /\ u2[4] = u1[4] /\ u2[5] = p2[1]
  BY <1>11, <1>6, <1>12, Join41
<1>14. u2 \in Seq(S) /\ Len(u2) = 5 /\ u2[1] = a /\ u2[2] = b /\ u2[3] = c /\ u2[4] = d /\ u2[5] = e
  BY <1>11, <1>6, <1>13
<1>15. u2 = w
  BY <1>14, <1>8, Equal5
<1> QED
  BY <1>1, <1>3, <1>5, <1>7, <1>9, <1>12, <1>15

LEMMA JoinSix ==
    ASSUME NEW a, NEW b, NEW c, NEW d, NEW e, NEW f
    PROVE  <<a, b, c, d, e>> \o <<f>> = <<a, b, c, d, e, f>>
<1>0. PICK S : S = {a, b, c, d, e, f}
  OBVIOUS
<1>1. PICK p0 : p0 = <<a, b, c, d, e>>
  OBVIOUS
<1>2. p0 \in Seq(S) /\ Len(p0) = 5 /\ p0[1] = a /\ p0[2] = b /\ p0[3] = c /\ p0[4] = d /\ p0[5] = e
  BY <1>0, <1>1
<1>3. PICK p1 : p1 = <<f>>
  OBVIOUS
<1>4. p1 \in Seq(S) /\ Len(p1) = 1 /\ p1[1] = f
  BY <1>0, <1>3
<1>5. PICK w : w = <<a, b, c, d, e, f>>
  OBVIOUS
<1>6. w \in Seq(S) /\ Len(w) = 6 /\ w[1] = a /\ w[2] = b /\ w[3] = c /\ w[4] = d /\ w[5] = e /\ w[6] = f
  BY <1>0, <1>5
<1>7. PICK u1 : u1 = p0 \o p1
  OBVIOUS
<1>8. u1 \in Seq(S) /\ Len(u1) = 6 /\ u1[1] = p0[1] /\ u1[2] = p0[2] /\ u1[3] = p0[3] /\ u1[4] = p0[4] /\ u1[5] = p0[5] /\ u1[6] = p1[1]
  BY <1>2, <1>4, <1>7, Join51
<1>9. u1 \in Seq(S) /\ Len(u1) = 6 /\ u1[1] = a /\ u1[2] = b /\ u1[3] = c /\ u1[4] = d /\ u1[5] = e /\ u1[6] = f
  BY <1>2, <1>4, <1>8
<1>10. u1 = w
  BY <1>9, <1>6, Equal6
<1> QED
  BY <1>1, <1>3, <1>5, <1>7, <1>10

LEMMA JoinSixFront ==
    ASSUME NEW a, NEW b, NEW c, NEW d, NEW e, NEW f
    PROVE  <<f>> \o <<a, b, c, d, e>> = <<f, a, b, c, d, e>>
<1>0. PICK S : S = {a, b, c, d, e, f}
  OBVIOUS
<1>1. PICK p0 : p0 = <<f>>
  OBVIOUS
<1>2. p0 \in Seq(S) /\ Len(p0) = 1 /\ p0[1] = f
  BY <1>0, <1>1
<1>3. PICK p1 : p1 = <<a, b, c, d, e>>
  OBVIOUS
<1>4. p1 \in Seq(S) /\ Len(p1) = 5 /\ p1[1] = a /\ p1[2] = b /\ p1[3] = c /\ p1[4] = d /\ p1[5] = e
  BY <1>0, <1>3
<1>5. PICK w : w = <<f, a, b, c, d, e>>
  OBVIOUS
<1>6. w \in Seq(S) /\ Len(w) = 6 /\ w[1] = f /\ w[2] = a /\ w[3] = b /\ w[4] = c /\ w[5] = d /\ w[6] = e
  BY <1>0, <1>5
<1>7. PICK u1 : u1 = p0 \o p1
  OBVIOUS
<1>8. u1 \in Seq(S) /\ Len(u1) = 6 /\ u1[1] = p0[1] /\ u1[2] = p1[1] /\ u1[3] = p1[2] /\ u1[4] = p1[3] /\ u1[5] = p1[4] /\ u1[6] = p1[5]
  BY <1>2, <1>4, <1>7, Join15
<1>9. u1 \in Seq(S) /\ Len(u1) = 6 /\ u1[1] = f /\ u1[2] = a /\ u1[3] = b /\ u1[4] = c /\ u1[5] = d /\ u1[6] = e
  BY <1>2, <1>4, <1>8
<1>10. u1 = w
  BY <1>9, <1>6, Equal6
<1> QED
  BY <1>1, <1>3, <1>5, <1>7, <1>10

LEMMA ArithLines ==
    ASSUME NEW i
    PROVE  /\ tac[i].kind = "ADD" =>
                Lines(i) = <<Load(tac[i].r1, "t0"), Load(tac[i].r2, "t1"),
                             Alu("add", "t2", "t0", "t1"), Swl("t2", tac[i].left.char_val)>>
           /\ tac[i].kind = "SUB" =>
                Lines(i) = <<Load(tac[i].r1, "t0"), Load(tac[i].r2, "t1"),
                             Alu("sub", "t2", "t0", "t1"), Swl("t2", tac[i].left.char_val)>>
           /\ tac[i].kind = "MUL" =>
                Lines(i) = <<Load(tac[i].r1, "t0"), Load(tac[i].r2, "t1"),
                             Alu("mul", "t2", "t0", "t1"), Swl("t2", tac[i].left.char_val)>>
           /\ tac[i].kind = "DIV" =>
                Lines(i) = <<Load(tac[i].r1, "t0"), Load(tac[i].r2, "t1"),
                             Alu("div", "lo", "t0", "t1"), Move("t2", "lo"),
                             Swl("t2", tac[i].left.char_val)>>
<1>1. /\ ArithOp["ADD"] = <<Alu("add", "t2", "t0", "t1")>>
      /\ ArithOp["SUB"] = <<Alu("sub", "t2", "t0", "t1")>>
      /\ ArithOp["MUL"] = <<Alu("mul", "t2", "t0", "t1")>>
      /\ ArithOp["DIV"] = <<Alu("div", "lo", "t0", "t1"), Move("t2", "lo")>>
  BY DEF ArithOp, ArithKinds
<1>2. tac[i].kind \in ArithKinds =>
        Lines(i) = <<Load(tac[i].r1, "t0"), Load(tac[i].r2, "t1")>> \o ArithOp[tac[i].kind]
                     \o <<Swl("t2", tac[i].left.char_val)>>
  BY DEF Lines, ArithKinds, IfKinds
<1>3. ASSUME NEW k \in {"ADD", "SUB", "MUL"}, NEW o, ArithOp[k] = <<o>>, tac[i].kind = k
      PROVE  Lines(i) = <<Load(tac[i].r1, "t0"), Load(tac[i].r2, "t1"), o, Swl("t2", tac[i].left.char_val)>>
  <2>1. Lines(i) = <<Load(tac[i].r1, "t0"), Load(tac[i].r2, "t1")>> \o <<o>>
                     \o <<Swl("t2", tac[i].left.char_val)>>
    BY <1>2, <1>3 DEF ArithKinds
  <2> QED
    BY <2>1, JoinFour
<1>4. ASSUME tac[i].kind = "DIV"
      PROVE  Lines(i) = <<Load(tac[i].r1, "t0"), Load(tac[i].r2, "t1"), Alu("div", "lo", "t0", "t1"),
                          Move("t2", "lo"), Swl("t2", tac[i].left.char_val)>>
  <2>1. Lines(i) = <<Load(tac[i].r1, "t0"), Load(tac[i].r2, "t1")>>
                     \o <<Alu("div", "lo", "t0", "t1"), Move("t2", "lo")>>
                     \o <<Swl("t2", tac[i].left.char_val)>>
    BY <1>1, <1>2, <1>4 DEF ArithKinds
  <2> QED
    BY <2>1, JoinFive
<1> QED
  BY <1>1, <1>3, <1>4

LEMMA BranchLines ==
    ASSUME NEW i
    PROVE  /\ tac[i].kind \in IfKinds =>
                Lines(i) = <<Load(tac[i].c1, "t0"), Load(tac[i].c2, "t1"),
                             Branch(BranchOp[tac[i].kind], "t0", "t1", tac[i].labelno)>>
           /\ tac[i].kind = "RETURN" =>
                Lines(i) = <<IF tac[i].var.kind = "OP_CONSTANT" THEN Li("v0", tac[i].var.int_val)
                             ELSE Lwl("v0", tac[i].var.char_val), Jr>>
BY DEF Lines, ArithKinds, IfKinds

LEMMA RoutineLines ==
    ASSUME NEW i
    PROVE  /\ tac[i].kind = "READ" =>
                Lines(i) = <<Addi("sp", "sp", -4), Sw("ra", 0, "sp"), Jal("read"), Lw("ra", 0, "sp"),
                             Addi("sp", "sp", 4), Swl("v0", tac[i].var.char_val)>>
           /\ tac[i].kind = "WRITE" =>
                Lines(i) = <<IF tac[i].var.kind = "OP_CONSTANT" THEN Li("a0", tac[i].var.int_val)
                             ELSE Lwl("a0", tac[i].var.char_val),
                             Addi("sp", "sp", -4), Sw("ra", 0, "sp"), Jal("write"), Lw("ra", 0, "sp"),
                             Addi("sp", "sp", 4)>>
<1>1. ASSUME tac[i].kind = "READ"
      PROVE  Lines(i) = <<Addi("sp", "sp", -4), Sw("ra", 0, "sp"), Jal("read"), Lw("ra", 0, "sp"),
                          Addi("sp", "sp", 4), Swl("v0", tac[i].var.char_val)>>
  <2>1. PICK a, b, c, d, e, f :
          /\ a = Addi("sp", "sp", -4) /\ b = Sw("ra", 0, "sp") /\ c = Jal("read")
          /\ d = Lw("ra", 0, "sp") /\ e = Addi("sp", "sp", 4) /\ f = Swl("v0", tac[i].var.char_val)
    OBVIOUS
  <2>2. Lines(i) = AroundCall("read") \o <<f>>
    BY <1>1, <2>1 DEF Lines, ArithKinds, IfKinds
  <2>3. AroundCall("read") = <<a, b, c, d, e>>
    BY <2>1 DEF AroundCall
  <2>4. <<a, b, c, d, e>> \o <<f>> = <<a, b, c, d, e, f>>
    BY JoinSix
  <2>5. Lines(i) = <<a, b, c, d, e, f>>
    BY <2>2, <2>3, <2>4, Zenon
  <2> QED
    BY <2>1, <2>5
<1>2. ASSUME tac[i].kind = "WRITE"
      PROVE  Lines(i) = <<IF tac[i].var.kind = "OP_CONSTANT" THEN Li("a0", tac[i].var.int_val)
                          ELSE Lwl("a0", tac[i].var.char_val),
                          Addi("sp", "sp", -4), Sw("ra", 0, "sp"), Jal("write"), Lw("ra", 0, "sp"),
                          Addi("sp", "sp", 4)>>
  <2>1. PICK l : l = IF tac[i].var.kind = "OP_CONSTANT" THEN Li("a0", tac[i].var.int_val)
                     ELSE Lwl("a0", tac[i].var.char_val)
    OBVIOUS
  <2>2. Lines(i) = <<l>> \o AroundCall("write")
    BY <1>2, <2>1 DEF Lines, ArithKinds, IfKinds
  <2>3. AroundCall("write") = <<Addi("sp", "sp", -4), Sw("ra", 0, "sp"), Jal("write"), Lw("ra", 0, "sp"),
                                Addi("sp", "sp", 4)>>
    BY DEF AroundCall
  <2>4. Lines(i) = <<l, Addi("sp", "sp", -4), Sw("ra", 0, "sp"), Jal("write"), Lw("ra", 0, "sp"),
                     Addi("sp", "sp", 4)>>
    BY <2>2, <2>3, JoinSixFront
  <2> QED
    BY <2>1, <2>4
<1> QED
  BY <1>1, <1>2

(* A function of 1..m is a sequence of length m.                           *)
LEMMA FunctionSeq ==
    ASSUME NEW m \in Nat, NEW t, t = [k \in 1..m |-> t[k]]
    PROVE  IsSeq(t) /\ Len(t) = m
<1>1. PICK S : S = {t[k] : k \in 1..m}
  OBVIOUS
<1>2. t \in Seq(S) /\ Len(t) = m
  BY <1>1
<1> QED
  BY <1>2, SeqLemma

(* The lines of a CALL: its frame, the words saved, the jump, the words    *)
(* restored.                                                               *)
LEMMA CallLines ==
    ASSUME NEW n \in Nat, n = Len(all_variables), all_variables_count = n, NEW i, tac[i].kind = "CALL"
    PROVE  /\ IsSeq(Lines(i)) /\ Len(Lines(i)) = 4 * n + 6
           /\ Lines(i)[1] = Addi("sp", "sp", -(4 * n + 4))
           /\ \A m \in 0..n - 1 : /\ Lines(i)[2 + 2 * m] = Lwl("t0", all_variables[m + 1])
                                  /\ Lines(i)[3 + 2 * m] = Sw("t0", 4 * m, "sp")
           /\ Lines(i)[2 * n + 2] = Sw("ra", 4 * n, "sp")
           /\ Lines(i)[2 * n + 3] = Jal(tac[i].funcname)
           /\ \A m \in 0..n - 1 : /\ Lines(i)[2 * n + 4 + 2 * m] = Lw("t0", 4 * m, "sp")
                                  /\ Lines(i)[2 * n + 5 + 2 * m] = Swl("t0", all_variables[m + 1])
           /\ Lines(i)[4 * n + 4] = Lw("ra", 4 * n, "sp")
           /\ Lines(i)[4 * n + 5] = Addi("sp", "sp", 4 * n + 4 + 4 * ArgsBefore[i])
           /\ Lines(i)[4 * n + 6] = Swl("v0", tac[i].ret.char_val)
<1>1. PICK a : a = <<Addi("sp", "sp", -(4 * n + 4))>>
  OBVIOUS
<1>2. PICK s : s = SaveAll
  OBVIOUS
<1>3. PICK b : b = <<Sw("ra", 4 * n, "sp"), Jal(tac[i].funcname)>>
  OBVIOUS
<1>4. PICK r : r = RestoreAll
  OBVIOUS
<1>5. PICK z : z = <<Lw("ra", 4 * n, "sp"), Addi("sp", "sp", 4 * n + 4 + 4 * ArgsBefore[i]),
                     Swl("v0", tac[i].ret.char_val)>>
  OBVIOUS
<1>6. Lines(i) = a \o s \o b \o r \o z
  BY <1>1, <1>2, <1>3, <1>4, <1>5 DEF Lines, FrameSize, RaOffset, ArithKinds, IfKinds
<1>7. IsSeq(a) /\ Len(a) = 1 /\ a[1] = Addi("sp", "sp", -(4 * n + 4))
  BY <1>1, TupleLemma
<1>8. IsSeq(b) /\ Len(b) = 2 /\ b[1] = Sw("ra", 4 * n, "sp") /\ b[2] = Jal(tac[i].funcname)
  BY <1>3, TupleLemma
<1>9. /\ IsSeq(z) /\ Len(z) = 3
      /\ z[1] = Lw("ra", 4 * n, "sp") /\ z[2] = Addi("sp", "sp", 4 * n + 4 + 4 * ArgsBefore[i])
      /\ z[3] = Swl("v0", tac[i].ret.char_val)
  BY <1>5, TupleLemma
<1>10. /\ IsSeq(s) /\ Len(s) = 2 * n
       /\ \A m \in 0..n - 1 : s[2 * m + 1] = Lwl("t0", all_variables[m + 1]) /\ s[2 * m + 2] = Sw("t0", 4 * m, "sp")
  <2>0. s = [k \in 1..(2 * n) |-> IF k % 2 = 1 THEN Lwl("t0", all_variables[((k - 1) \div 2) + 1])
                                    ELSE Sw("t0", 4 * ((k - 1) \div 2), "sp")]
    BY <1>2 DEF SaveAll
  <2>1. IsSeq(s) /\ Len(s) = 2 * n
    <3>1. s = [k \in 1..(2 * n) |-> s[k]] /\ 2 * n \in Nat
      BY <2>0
    <3> QED
      BY <3>1, FunctionSeq
  <2>2. ASSUME NEW m \in 0..n - 1
        PROVE  s[2 * m + 1] = Lwl("t0", all_variables[m + 1]) /\ s[2 * m + 2] = Sw("t0", 4 * m, "sp")
    <3>1. PICK k \in 1..(2 * n) : k = 2 * m + 1
      OBVIOUS
    <3>2. PICK l \in 1..(2 * n) : l = 2 * m + 2
      OBVIOUS
    <3>3. (k - 1) \div 2 = m /\ k % 2 = 1 /\ (l - 1) \div 2 = m /\ l % 2 = 0
      BY <3>1, <3>2
    <3>4. k % 2 = 1 => s[k] = Lwl("t0", all_variables[((k - 1) \div 2) + 1])
      BY <2>0
    <3>5. l % 2 = 0 => s[l] = Sw("t0", 4 * ((l - 1) \div 2), "sp")
      <4>1. l % 2 = 0 => l % 2 # 1
        OBVIOUS
      <4> QED
        BY <2>0, <4>1
    <3> QED
      BY <3>1, <3>2, <3>3, <3>4, <3>5
  <2> QED
    BY <2>1, <2>2
<1>11. /\ IsSeq(r) /\ Len(r) = 2 * n
       /\ \A m \in 0..n - 1 : r[2 * m + 1] = Lw("t0", 4 * m, "sp") /\ r[2 * m + 2] = Swl("t0", all_variables[m + 1])
  <2>0. r = [k \in 1..(2 * n) |-> IF k % 2 = 1 THEN Lw("t0", 4 * ((k - 1) \div 2), "sp")
                                    ELSE Swl("t0", all_variables[((k - 1) \div 2) + 1])]
    BY <1>4 DEF RestoreAll
  <2>1. IsSeq(r) /\ Len(r) = 2 * n
    <3>1. r = [k \in 1..(2 * n) |-> r[k]] /\ 2 * n \in Nat
      BY <2>0
    <3> QED
      BY <3>1, FunctionSeq
  <2>2. ASSUME NEW m \in 0..n - 1
        PROVE  r[2 * m + 1] = Lw("t0", 4 * m, "sp") /\ r[2 * m + 2] = Swl("t0", all_variables[m + 1])
    <3>1. PICK k \in 1..(2 * n) : k = 2 * m + 1
      OBVIOUS
    <3>2. PICK l \in 1..(2 * n) : l = 2 * m + 2
      OBVIOUS
    <3>3. (k - 1) \div 2 = m /\ k % 2 = 1 /\ (l - 1) \div 2 = m /\ l % 2 = 0
      BY <3>1, <3>2
    <3>4. k % 2 = 1 => r[k] = Lw("t0", 4 * ((k - 1) \div 2), "sp")
      BY <2>0
    <3>5. l % 2 = 0 => r[l] = Swl("t0", all_variables[((l - 1) \div 2) + 1])
      <4>1. l % 2 = 0 => l % 2 # 1
        OBVIOUS
      <4> QED
        BY <2>0, <4>1
    <3> QED
      BY <3>1, <3>2, <3>3, <3>4, <3>5
  <2> QED
    BY <2>1, <2>2
<1>12. PICK u : u = a \o s
  OBVIOUS
<1>13. /\ IsSeq(u) /\ Len(u) = 2 * n + 1
       /\ u[1] = a[1] /\ \A k \in 2..2 * n + 1 : u[k] = s[k - 1]
  <2>1. /\ IsSeq(u) /\ Len(u) = Len(a) + Len(s)
        /\ (\A k \in 1..Len(a) : u[k] = a[k]) /\ \A k \in Len(a) + 1..Len(a) + Len(s) : u[k] = s[k - Len(a)]
    BY <1>7, <1>10, <1>12, JoinLemma
  <2>2. PICK q \in Nat : q = 2 * n
    OBVIOUS
  <2>3. Len(a) = 1 /\ Len(s) = q
    BY <1>7, <1>10, <2>2
  <2>4. Len(u) = q + 1 /\ u[1] = a[1] /\ \A k \in 2..q + 1 : u[k] = s[k - 1]
    BY <2>1, <2>3
  <2> QED
    BY <2>1, <2>2, <2>4
<1>14. PICK v : v = u \o b
  OBVIOUS
<1>15. /\ IsSeq(v) /\ Len(v) = 2 * n + 3
       /\ (\A k \in 1..2 * n + 1 : v[k] = u[k]) /\ v[2 * n + 2] = b[1] /\ v[2 * n + 3] = b[2]
  <2>1. /\ IsSeq(v) /\ Len(v) = Len(u) + Len(b)
        /\ (\A k \in 1..Len(u) : v[k] = u[k]) /\ \A k \in Len(u) + 1..Len(u) + Len(b) : v[k] = b[k - Len(u)]
    <3>1. IsSeq(u) /\ IsSeq(b)
      BY <1>8, <1>13
    <3> QED
      BY <1>14, <3>1, JoinLemma
  <2>2. PICK q \in Nat : q = 2 * n + 1
    OBVIOUS
  <2>3. Len(u) = q /\ Len(b) = 2
    BY <1>8, <1>13, <2>2
  <2>4. /\ Len(v) = q + 2 /\ (\A k \in 1..q : v[k] = u[k])
        /\ v[q + 1] = b[1] /\ v[q + 2] = b[2]
    BY <2>1, <2>3
  <2>5. q + 1 = 2 * n + 2 /\ q + 2 = 2 * n + 3
    BY <2>2
  <2> QED
    BY <2>1, <2>2, <2>4, <2>5
<1>16. PICK w : w = v \o r
  OBVIOUS
<1>17. /\ IsSeq(w) /\ Len(w) = 4 * n + 3
       /\ (\A k \in 1..2 * n + 3 : w[k] = v[k])
       /\ \A k \in 2 * n + 4..4 * n + 3 : w[k] = r[k - (2 * n + 3)]
  <2>1. /\ IsSeq(w) /\ Len(w) = Len(v) + Len(r)
        /\ (\A k \in 1..Len(v) : w[k] = v[k]) /\ \A k \in Len(v) + 1..Len(v) + Len(r) : w[k] = r[k - Len(v)]
    <3>1. IsSeq(v) /\ IsSeq(r)
      BY <1>11, <1>15
    <3> QED
      BY <1>16, <3>1, JoinLemma
  <2>2. PICK p, q \in Nat : p = 2 * n + 3 /\ q = 2 * n
    OBVIOUS
  <2>3. Len(v) = p /\ Len(r) = q
    BY <1>11, <1>15, <2>2
  <2>4. /\ Len(w) = p + q /\ (\A k \in 1..p : w[k] = v[k])
        /\ \A k \in p + 1..p + q : w[k] = r[k - p]
    BY <2>1, <2>3
  <2>5. p + q = 4 * n + 3 /\ p + 1 = 2 * n + 4
    BY <2>2
  <2> QED
    BY <2>1, <2>2, <2>4, <2>5
<1>18. PICK x : x = w \o z
  OBVIOUS
<1>19. /\ IsSeq(x) /\ Len(x) = 4 * n + 6
       /\ (\A k \in 1..4 * n + 3 : x[k] = w[k])
       /\ x[4 * n + 4] = z[1] /\ x[4 * n + 5] = z[2] /\ x[4 * n + 6] = z[3]
  <2>1. /\ IsSeq(x) /\ Len(x) = Len(w) + Len(z)
        /\ (\A k \in 1..Len(w) : x[k] = w[k]) /\ \A k \in Len(w) + 1..Len(w) + Len(z) : x[k] = z[k - Len(w)]
    <3>1. IsSeq(w) /\ IsSeq(z)
      BY <1>9, <1>17
    <3> QED
      BY <1>18, <3>1, JoinLemma
  <2>2. PICK q \in Nat : q = 4 * n + 3
    OBVIOUS
  <2>3. Len(w) = q /\ Len(z) = 3
    BY <1>9, <1>17, <2>2
  <2>4. /\ Len(x) = q + 3 /\ (\A k \in 1..q : x[k] = w[k])
        /\ x[q + 1] = z[1] /\ x[q + 2] = z[2] /\ x[q + 3] = z[3]
    BY <2>1, <2>3
  <2> QED
    BY <2>1, <2>2, <2>4
<1>20. Lines(i) = x
  BY <1>6, <1>12, <1>14, <1>16, <1>18
<1>21. \A k \in 1..2 * n + 1 : x[k] = u[k]
  BY <1>15, <1>17, <1>19
<1>22. x[1] = a[1] /\ x[2 * n + 2] = b[1] /\ x[2 * n + 3] = b[2]
  BY <1>13, <1>15, <1>17, <1>19, <1>21
<1>23. ASSUME NEW m \in 0..n - 1
       PROVE  /\ x[2 + 2 * m] = s[2 * m + 1] /\ x[3 + 2 * m] = s[2 * m + 2]
              /\ x[2 * n + 4 + 2 * m] = r[2 * m + 1] /\ x[2 * n + 5 + 2 * m] = r[2 * m + 2]
  <2>1. PICK j, k \in 2..2 * n + 1 : j = 2 + 2 * m /\ k = 3 + 2 * m /\ j - 1 = 2 * m + 1 /\ k - 1 = 2 * m + 2
    OBVIOUS
  <2>2. x[j] = s[j - 1] /\ x[k] = s[k - 1]
    BY <1>13, <1>21
  <2>3. PICK p, q \in 2 * n + 4..4 * n + 3 :
          /\ p = 2 * n + 4 + 2 * m /\ q = 2 * n + 5 + 2 * m
          /\ p - (2 * n + 3) = 2 * m + 1 /\ q - (2 * n + 3) = 2 * m + 2
    OBVIOUS
  <2>4. x[p] = r[p - (2 * n + 3)] /\ x[q] = r[q - (2 * n + 3)]
    <3>1. p \in 1..4 * n + 3 /\ q \in 1..4 * n + 3
      OBVIOUS
    <3>2. x[p] = w[p] /\ x[q] = w[q]
      BY <1>19, <3>1
    <3>3. w[p] = r[p - (2 * n + 3)] /\ w[q] = r[q - (2 * n + 3)]
      BY <1>17
    <3> QED
      BY <3>2, <3>3
  <2> QED
    BY <2>1, <2>2, <2>3, <2>4
<1> QED
  BY <1>7, <1>8, <1>9, <1>10, <1>11, <1>19, <1>20, <1>22, <1>23

(* The lines of an instruction are a sequence.                             *)
LEMMA LinesAreSeq ==
    ASSUME IInv, gen # "collect", NEW i \in DOMAIN tac
    PROVE  IsSeq(Lines(i))
<1>1. tac[i] \in Inst
  BY DEF IInv, GenTypeOK
<1>2. tac[i].kind \in {"LABEL", "GOTO", "FUNCTION", "ASSIGN", "ADDR", "FETCH", "DEREF", "RETURN", "ARG", "WRITE",
                       "PARAM", "READ", "CALL"} \cup ArithKinds \cup IfKinds \cup NoLines
  BY <1>1 DEF Inst, NoLines
<1>3. IsSeq(<<>>)
  BY DEF IsSeq
<1>4. CASE tac[i].kind = "CALL"
  <2>1. Len(all_variables) \in Nat /\ all_variables_count = Len(all_variables)
    BY DEF IInv, GenTypeOK, FrameFits
  <2> QED
    BY <1>4, <2>1, CallLines
<1>5. CASE tac[i].kind \in {"LABEL", "GOTO", "FUNCTION"} \cup NoLines
  BY <1>3, <1>5, MarkLines, TupleLemma
<1>6. CASE tac[i].kind \in {"ASSIGN", "ADDR", "FETCH", "DEREF", "PARAM", "ARG"}
  <2>1. CASE tac[i].kind \in {"ASSIGN", "ADDR", "PARAM"}
    <3>1. \E a, b : Lines(i) = <<a, b>>
      BY <2>1, MoveLines
    <3> QED
      BY <3>1, TupleLemma
  <2>2. CASE tac[i].kind \in {"FETCH", "DEREF", "ARG"}
    <3>1. \E a, b, c : Lines(i) = <<a, b, c>>
      BY <2>2, MoveLines
    <3> QED
      BY <3>1, TupleLemma
  <2> QED
    BY <1>6, <2>1, <2>2
<1>7. CASE tac[i].kind \in ArithKinds
  <2>1. (\E a, b, c, d : Lines(i) = <<a, b, c, d>>) \/ (\E a, b, c, d, e : Lines(i) = <<a, b, c, d, e>>)
    <3>1. CASE tac[i].kind = "DIV"
      BY <3>1, ArithLines
    <3>2. CASE tac[i].kind = "ADD"
      BY <3>2, ArithLines
    <3>3. CASE tac[i].kind = "SUB"
      BY <3>3, ArithLines
    <3>4. CASE tac[i].kind = "MUL"
      BY <3>4, ArithLines
    <3> QED
      BY <1>7, <3>1, <3>2, <3>3, <3>4 DEF ArithKinds
  <2>2. CASE \E a, b, c, d : Lines(i) = <<a, b, c, d>>
    BY <2>2, TupleLemma
  <2>3. CASE \E a, b, c, d, e : Lines(i) = <<a, b, c, d, e>>
    BY <2>3, TupleLemma
  <2> QED
    BY <2>1, <2>2, <2>3
<1>8. CASE tac[i].kind \in IfKinds \cup {"RETURN"}
  BY <1>8, BranchLines, TupleLemma
<1>9. CASE tac[i].kind \in {"READ", "WRITE"}
  BY <1>9, RoutineLines, TupleLemma
<1> QED
  BY <1>2, <1>4, <1>5, <1>6, <1>7, <1>8, <1>9

(* The lines of the two routines of the runtime.                           *)
LEMMA RuntimeLemma ==
    /\ IsSeq(Runtime) /\ Len(Runtime) = 9
    /\ Runtime[1] = [of |-> 0, ins |-> Mark("read")] /\ Runtime[2] = [of |-> 0, ins |-> Syscall(4)]
    /\ Runtime[3] = [of |-> 0, ins |-> Syscall(5)] /\ Runtime[4] = [of |-> 0, ins |-> Jr]
    /\ Runtime[5] = [of |-> 0, ins |-> Mark("write")] /\ Runtime[6] = [of |-> 0, ins |-> Syscall(1)]
    /\ Runtime[7] = [of |-> 0, ins |-> Syscall(4)] /\ Runtime[8] = [of |-> 0, ins |-> Move("v0", "zero")]
    /\ Runtime[9] = [of |-> 0, ins |-> Jr]
<1>1. PICK r : r = <<Mark("read"), Syscall(4), Syscall(5), Jr>>
  OBVIOUS
<1>2. PICK w : w = <<Mark("write"), Syscall(1), Syscall(4), Move("v0", "zero"), Jr>>
  OBVIOUS
<1>3. /\ IsSeq(r) /\ Len(r) = 4
      /\ r[1] = Mark("read") /\ r[2] = Syscall(4) /\ r[3] = Syscall(5) /\ r[4] = Jr
  BY <1>1, TupleLemma
<1>4. /\ IsSeq(w) /\ Len(w) = 5
      /\ w[1] = Mark("write") /\ w[2] = Syscall(1) /\ w[3] = Syscall(4) /\ w[4] = Move("v0", "zero") /\ w[5] = Jr
  BY <1>2, TupleLemma
<1>5. PICK u : u = r \o w
  OBVIOUS
<1>6. /\ IsSeq(u) /\ Len(u) = Len(r) + Len(w)
      /\ \A k \in 1..Len(r) : u[k] = r[k]
      /\ \A k \in Len(r) + 1..Len(r) + Len(w) : u[k] = w[k - Len(r)]
  <2>1. IsSeq(r) /\ IsSeq(w)
    BY <1>3, <1>4
  <2> QED
    BY <1>5, <2>1, JoinLemma
<1>7. /\ Len(u) = 9 /\ u[1] = r[1] /\ u[2] = r[2] /\ u[3] = r[3] /\ u[4] = r[4]
      /\ u[5] = w[1] /\ u[6] = w[2] /\ u[7] = w[3] /\ u[8] = w[4] /\ u[9] = w[5]
  BY <1>3, <1>4, <1>6
<1>8. Runtime = [k \in 1..Len(u) |-> [of |-> 0, ins |-> u[k]]]
  BY <1>1, <1>2, <1>5 DEF Runtime
<1>9. PICK t : t = [k \in 1..9 |-> [of |-> 0, ins |-> u[k]]]
  OBVIOUS
<1>10. Runtime = t
  BY <1>7, <1>8, <1>9
<1>11. t = [k \in 1..9 |-> t[k]]
  BY <1>9
<1>12. IsSeq(t) /\ Len(t) = 9
  BY <1>11, FunctionSeq
<1>13. \A k \in 1..9 : t[k] = [of |-> 0, ins |-> u[k]]
  BY <1>9
<1>14. /\ t[1] = [of |-> 0, ins |-> u[1]] /\ t[2] = [of |-> 0, ins |-> u[2]] /\ t[3] = [of |-> 0, ins |-> u[3]]
       /\ t[4] = [of |-> 0, ins |-> u[4]] /\ t[5] = [of |-> 0, ins |-> u[5]] /\ t[6] = [of |-> 0, ins |-> u[6]]
       /\ t[7] = [of |-> 0, ins |-> u[7]] /\ t[8] = [of |-> 0, ins |-> u[8]] /\ t[9] = [of |-> 0, ins |-> u[9]]
  BY <1>13
<1> QED
  BY <1>3, <1>4, <1>7, <1>10, <1>12, <1>14

(* Emitting the lines of the next instruction extends the layout by them.  *)
LEMMA ExtendLemma ==
    ASSUME IInv, IsSeq(text), gen = "emit", NEW c \in DOMAIN tac, NEW first, Layout(first, c),
           UNCHANGED <<tac, all_variables, all_variables_count>>,
           text' = text \o [k \in 1..Len(Lines(c)) |-> [of |-> c, ins |-> Lines(c)[k]]]
    PROVE  IsSeq(text') /\ \E g : Layout(g, c + 1)'
<1>1. PICK m : m = Len(Lines(c))
  OBVIOUS
<1>2. m \in Nat
  BY <1>1, LinesAreSeq, IsSeqLemma
<1>3. PICK new : new = [k \in 1..m |-> [of |-> c, ins |-> Lines(c)[k]]]
  OBVIOUS
<1>4. new = [k \in 1..m |-> new[k]] /\ \A k \in 1..m : new[k] = [of |-> c, ins |-> Lines(c)[k]]
  BY <1>3
<1>5. text' = text \o new
  BY <1>1, <1>3
<1>6. /\ IsSeq(text') /\ Len(text') = Len(text) + m /\ Len(text) \in Nat
      /\ \A k \in 1..Len(text) : text'[k] = text[k]
      /\ \A k \in 1..m : text'[Len(text) + k] = new[k]
      /\ DOMAIN text = 1..Len(text) /\ DOMAIN text' = 1..Len(text) + m
  <2>1. /\ IsSeq(text \o new) /\ Len(text \o new) = Len(text) + m /\ Len(text) \in Nat
        /\ \A k \in 1..Len(text) : (text \o new)[k] = text[k]
        /\ \A k \in 1..m : (text \o new)[Len(text) + k] = new[k]
        /\ DOMAIN text = 1..Len(text) /\ DOMAIN (text \o new) = 1..Len(text) + m
    BY <1>2, <1>4, ConcatLemma
  <2> QED
    BY <1>5, <2>1
<1>7. PICK z : z = Len(text)
  OBVIOUS
<1>8. PICK r : r = Len(Runtime)
  OBVIOUS
<1>9. c \in Nat /\ c >= 1 /\ r = 9 /\ z \in Nat
  <2>1. c \in Nat /\ c >= 1
    BY DEF IInv, GenTypeOK
  <2>2. r = 9
    BY <1>8, RuntimeLemma
  <2> QED
    BY <1>6, <1>7, <2>1, <2>2
<1>10. /\ first \in [1..c -> Nat] /\ first[1] = r + 1 /\ first[c] = z + 1
       /\ \A j, k \in 1..c : j <= k => first[j] <= first[k]
       /\ \A k \in 1..r : text[k] = Runtime[k]
       /\ \A j \in 1..c - 1 :
            /\ first[j + 1] = first[j] + Len(Lines(j))
            /\ \A k \in 1..Len(Lines(j)) : text[first[j] + k - 1] = [of |-> j, ins |-> Lines(j)[k]]
       /\ \A k \in 1..z : k > r =>
            /\ text[k].of \in 1..c - 1
            /\ first[text[k].of] <= k /\ k < first[text[k].of + 1]
  BY <1>6, <1>7, <1>8 DEF Layout
<1>11. r <= z
  BY <1>9, <1>10
<1>12. PICK g : g = [j \in 1..c + 1 |-> IF j = c + 1 THEN z + m + 1 ELSE first[j]]
  OBVIOUS
<1>13. /\ g \in [1..c + 1 -> Nat] /\ g[c + 1] = z + m + 1
       /\ \A j \in 1..c : g[j] = first[j]
  <2>1. \A j \in 1..c : j \in 1..c + 1 /\ j # c + 1 /\ first[j] \in Nat
    <3>1. first \in [1..c -> Nat]
      BY <1>10
    <3> QED
      BY <1>9, <3>1
  <2>2. c + 1 \in 1..c + 1 /\ z + m + 1 \in Nat
    BY <1>2, <1>9
  <2>3. \A j \in 1..c + 1 : j = c + 1 \/ j \in 1..c
    BY <1>9
  <2>4. g[c + 1] = z + m + 1 /\ \A j \in 1..c : g[j] = first[j]
    BY <1>12, <2>1, <2>2
  <2>5. g \in [1..c + 1 -> Nat]
    BY <1>12, <2>1, <2>2, <2>3
  <2> QED
    BY <2>4, <2>5
<1>14. \A j \in 1..c : first[j] <= z + 1 /\ first[j] >= r + 1
  BY <1>9, <1>10
<1>15. \A i : Lines(i)' = Lines(i)
  BY LinesSame
<1>16. g[1] = r + 1 /\ g[c + 1] = Len(text') + 1
  BY <1>6, <1>7, <1>9, <1>10, <1>13
<1>23. g[c] = z + 1 /\ g[c + 1] = z + m + 1
  BY <1>9, <1>10, <1>13
<1>17. ASSUME NEW j \in 1..c + 1, NEW k \in 1..c + 1, j <= k
       PROVE  g[j] <= g[k]
  <2>1. CASE k = c + 1
    <3>1. CASE j = c + 1
      BY <2>1, <3>1, <1>13
    <3>2. CASE j # c + 1
      <4>1. j \in 1..c
        BY <1>9, <3>2
      <4>2. g[j] <= z + 1 /\ g[j] \in Nat
        BY <1>10, <1>13, <1>14, <4>1
      <4> QED
        BY <1>2, <1>9, <1>13, <2>1, <4>2
    <3> QED
      BY <3>1, <3>2
  <2>2. CASE k # c + 1
    <3>1. k \in 1..c /\ j \in 1..c
      BY <1>9, <1>17, <2>2
    <3> QED
      BY <1>10, <1>13, <1>17, <3>1
  <2> QED
    BY <2>1, <2>2
<1>18. \A k \in 1..r : text'[k] = Runtime[k]
  BY <1>6, <1>7, <1>9, <1>10, <1>11
<1>19. ASSUME NEW j \in 1..c
       PROVE  /\ g[j + 1] = g[j] + Len(Lines(j))
              /\ \A k \in 1..Len(Lines(j)) : text'[g[j] + k - 1] = [of |-> j, ins |-> Lines(j)[k]]
  <2>1. CASE j = c
    <3>1. g[j + 1] = g[j] + m
      <4>1. g[c + 1] = g[c] + m
        BY <1>2, <1>9, <1>23
      <4> QED
        BY <2>1, <4>1
    <3>2. ASSUME NEW k \in 1..m
          PROVE  text'[g[j] + k - 1] = [of |-> c, ins |-> Lines(c)[k]]
      <4>1. g[j] + k - 1 = z + k
        BY <1>9, <1>23, <2>1
      <4> QED
        BY <1>4, <1>6, <1>7, <4>1
    <3> QED
      BY <1>1, <2>1, <3>1, <3>2
  <2>2. CASE j # c
    <3>1. j \in 1..c - 1 /\ j + 1 \in 1..c
      BY <1>9, <2>2
    <3>2. g[j + 1] = first[j + 1] /\ g[j] = first[j] /\ first[j] \in Nat
      BY <1>10, <1>13, <3>1
    <3>3. Len(Lines(j)) \in Nat
      BY <1>9, <3>1, LinesAreSeq, IsSeqLemma DEF IInv, GenTypeOK
    <3>4. ASSUME NEW k \in 1..Len(Lines(j))
          PROVE  text'[g[j] + k - 1] = [of |-> j, ins |-> Lines(j)[k]]
      <4>1. first[j] + Len(Lines(j)) <= z + 1 /\ first[j] >= r + 1
        BY <1>10, <1>14, <3>1
      <4>2. first[j] + k - 1 \in 1..z
        <5>1. PICK p, l \in Nat : p = first[j] /\ l = Len(Lines(j))
          BY <3>2, <3>3
        <5>2. p + l <= z + 1 /\ p >= 10 /\ k \in 1..l
          BY <1>9, <4>1, <5>1
        <5>3. p + k - 1 \in 1..z
          BY <1>9, <5>2
        <5> QED
          BY <5>1, <5>3
      <4> QED
        BY <1>6, <1>7, <1>10, <3>1, <3>2, <4>2
    <3> QED
      BY <1>10, <3>1, <3>2, <3>4
  <2> QED
    BY <2>1, <2>2
<1>20. ASSUME NEW k \in 1..z + m, k > r
       PROVE  /\ text'[k].of \in 1..c
              /\ g[text'[k].of] <= k /\ k < g[text'[k].of + 1]
  <2>1. CASE k <= z
    <3>1. k \in 1..z /\ text'[k] = text[k]
      BY <1>6, <1>7, <1>9, <2>1
    <3>2. text[k].of \in 1..c - 1 /\ first[text[k].of] <= k /\ k < first[text[k].of + 1]
      BY <1>10, <1>20, <3>1
    <3>3. text[k].of \in 1..c /\ text[k].of + 1 \in 1..c
      BY <1>9, <3>2
    <3> QED
      BY <1>13, <3>1, <3>2, <3>3
  <2>2. CASE k > z
    <3>1. PICK q \in 1..m : q = k - z
      BY <1>2, <1>9, <2>2
    <3>2. text'[k] = new[q]
      <4>1. z + q = k
        BY <1>9, <3>1
      <4> QED
        BY <1>6, <1>7, <4>1
    <3>3. text'[k].of = c
      <4>1. new[q] = [of |-> c, ins |-> Lines(c)[q]]
        BY <1>4
      <4>2. new[q].of = c
        BY <4>1
      <4>3. \A x : x = new[q] => x.of = c
        BY <4>2
      <4> QED
        BY <3>2, <4>3, Zenon
    <3>4. g[c] <= k /\ k < g[c + 1]
      BY <1>2, <1>9, <1>23, <2>2
    <3>5. c \in 1..c
      BY <1>9
    <3> QED
      BY <3>3, <3>4, <3>5
  <2>3. k <= z \/ k > z
    BY <1>2, <1>9
  <2> QED
    BY <2>1, <2>2, <2>3
<1>21. Runtime' = Runtime
  BY DEF Runtime
<1>22. Layout(g, c + 1)'
  <2>1. (c + 1) - 1 = c
    BY <1>9
  <2>2. DOMAIN text' = 1..z + m
    BY <1>6, <1>7
  <2> QED
    BY <1>8, <1>13, <1>15, <1>16, <1>17, <1>18, <1>19, <1>20, <1>21, <2>1, <2>2 DEF Layout
<1> QED
  BY <1>6, <1>22

-----------------------------------------------------------------------------
(* The counters.                                                           *)

(* The counters after the instruction at c.                                *)
Counted(c) ==
    /\ arg_count' = IF tac[c].kind = "ARG" THEN arg_count + 1 ELSE IF tac[c].kind = "CALL" THEN 0 ELSE arg_count
    /\ param_count' = IF tac[c].kind = "PARAM" THEN param_count + 1
                      ELSE IF tac[c].kind = "CALL" THEN 0 ELSE param_count

(* At a PARAM, param_count is its number: a CALL has reset it since the    *)
(* last function with one.                                                 *)
LEMMA ParamsCounted ==
    ASSUME LayInv, gen = "emit", cur \in DOMAIN tac, tac[cur].kind = "PARAM"
    PROVE  RunOf("PARAM", cur, param_count)
<1>1. tac \in Seq(Inst) /\ cur \in Nat /\ param_count \in Nat /\ ParamsFirst(tac)
  BY DEF LayInv, IInv, GenTypeOK, Supported
<1>2. cur > 1 /\ tac[cur - 1].kind \in {"FUNCTION", "PARAM"}
  BY <1>1 DEF ParamsFirst
<1>3. CASE tac[cur - 1].kind = "PARAM"
  BY <1>2, <1>3 DEF LayInv, CountersFit
<1>4. CASE tac[cur - 1].kind = "FUNCTION"
  <2>1. param_count = 0
    <3> SUFFICES ASSUME param_count # 0 PROVE FALSE
      OBVIOUS
    <3>1. PICK j \in 1..cur - 1 : tac[j].kind = "PARAM" /\ \A k \in j..cur - 1 : tac[k].kind # "CALL"
      BY DEF LayInv, CountersFit
    <3>2. \E k \in j..cur : tac[k].kind = "CALL"
      BY <1>1, <1>4, <3>1 DEF ParamsFirst
    <3> QED
      BY <1>1, <3>1, <3>2
  <2> QED
    BY <1>1, <1>2, <1>4, <2>1 DEF RunOf
<1> QED
  BY <1>2, <1>3, <1>4

(* The counters go on being the lengths of the runs.                       *)
LEMMA CountersStep ==
    ASSUME LayInv, gen = "emit", cur \in DOMAIN tac, cur' = cur + 1, UNCHANGED <<tac, gen>>, Counted(cur)
    PROVE  CountersFit'
<1>1. /\ tac \in Seq(Inst) /\ cur \in Nat /\ cur >= 1 /\ cur <= Len(tac) /\ arg_count \in Nat /\ param_count \in Nat
      /\ ArgsBeforeCall(tac) /\ RunOf("ARG", cur, arg_count)
  BY DEF LayInv, IInv, GenTypeOK, Supported, CountersFit
<1>2. RunOf("ARG", cur + 1, arg_count')
  <2>1. CASE tac[cur].kind = "ARG"
    <3>1. arg_count' = arg_count + 1
      BY <2>1 DEF Counted
    <3>2. /\ arg_count + 1 \in 0..(cur + 1) - 1
          /\ (cur + 1) - (arg_count + 1) - 1 = cur - arg_count - 1
          /\ (cur + 1) - (arg_count + 1) = cur - arg_count /\ (cur + 1) - 1 = cur
      <4>1. arg_count \in 0..cur - 1
        BY <1>1 DEF RunOf
      <4> QED
        BY <1>1, <4>1
    <3>3. \A j \in cur - arg_count..cur : tac[j].kind = "ARG"
      BY <1>1, <2>1 DEF RunOf
    <3> QED
      BY <1>1, <3>1, <3>2, <3>3 DEF RunOf
  <2>2. CASE tac[cur].kind # "ARG"
    <3>1. arg_count' = 0
      <4>1. CASE tac[cur].kind = "CALL"
        BY <2>2, <4>1 DEF Counted
      <4>2. CASE tac[cur].kind # "CALL"
        <5>1. arg_count = 0
          <6> SUFFICES ASSUME arg_count # 0 PROVE FALSE
            OBVIOUS
          <6>1. cur - 1 \in cur - arg_count..cur - 1 /\ cur - 1 \in DOMAIN tac /\ (cur - 1) + 1 = cur
            BY <1>1 DEF RunOf
          <6>2. tac[cur - 1].kind = "ARG"
            BY <1>1, <6>1 DEF RunOf
          <6> QED
            BY <1>1, <2>2, <4>2, <6>1, <6>2 DEF ArgsBeforeCall
        <5> QED
          BY <2>2, <4>2, <5>1 DEF Counted
      <4> QED
        BY <4>1, <4>2
    <3>2. (cur + 1) - 0 - 1 = cur
      BY <1>1
    <3> QED
      BY <1>1, <2>2, <3>1, <3>2 DEF RunOf
  <2> QED
    BY <2>1, <2>2
<1>3. ASSUME tac[cur].kind = "PARAM" PROVE RunOf("PARAM", cur + 1, param_count')
  <2>1. param_count' = param_count + 1 /\ RunOf("PARAM", cur, param_count)
    BY <1>3, ParamsCounted DEF Counted
  <2>2. /\ param_count + 1 \in 0..(cur + 1) - 1
        /\ (cur + 1) - (param_count + 1) - 1 = cur - param_count - 1
        /\ (cur + 1) - (param_count + 1) = cur - param_count /\ (cur + 1) - 1 = cur
    BY <1>1, <2>1 DEF RunOf
  <2>3. \A j \in cur - param_count..cur : tac[j].kind = "PARAM"
    <3>1. \A j \in cur - param_count..cur - 1 : tac[j].kind = "PARAM"
      BY <2>1 DEF RunOf
    <3>2. \A j \in cur - param_count..cur : j \in cur - param_count..cur - 1 \/ j = cur
      BY <1>1
    <3> QED
      BY <1>3, <3>1, <3>2
  <2> QED
    BY <1>1, <2>1, <2>2, <2>3 DEF RunOf
<1>4. ASSUME param_count' # 0
      PROVE  \E j \in 1..cur : tac[j].kind = "PARAM" /\ \A k \in j..cur : tac[k].kind # "CALL"
  <2>1. CASE tac[cur].kind = "PARAM"
    BY <1>1, <2>1
  <2>2. CASE tac[cur].kind # "PARAM"
    <3>1. tac[cur].kind # "CALL" /\ param_count # 0
      BY <1>4, <2>2 DEF Counted
    <3>2. PICK j \in 1..cur - 1 : tac[j].kind = "PARAM" /\ \A k \in j..cur - 1 : tac[k].kind # "CALL"
      BY <3>1 DEF LayInv, CountersFit
    <3>3. j \in 1..cur /\ \A k \in j..cur : tac[k].kind # "CALL"
      BY <1>1, <3>1, <3>2
    <3> QED
      BY <3>2, <3>3
  <2> QED
    BY <2>1, <2>2
<1>5. /\ RunOf("ARG", cur', arg_count')
      /\ (cur' > 1 /\ tac[cur' - 1].kind = "PARAM") => RunOf("PARAM", cur', param_count')
      /\ param_count' # 0 =>
           \E j \in 1..cur' - 1 : tac[j].kind = "PARAM" /\ \A k \in j..cur' - 1 : tac[k].kind # "CALL"
  <2>1. cur' = cur + 1 /\ cur' - 1 = cur
    BY <1>1
  <2> QED
    BY <1>2, <1>3, <1>4, <2>1
<1> QED
  BY <1>5 DEF CountersFit, RunOf

-----------------------------------------------------------------------------
(* The steps of the generator.                                             *)

(* Every emitter appends the lines of its instruction and counts it.       *)
LEMMA EmitsLines ==
    ASSUME LayInv, GenNext, gen = "emit", cur \in DOMAIN tac
    PROVE  /\ text' = text \o [k \in 1..Len(Lines(cur)) |-> [of |-> cur, ins |-> Lines(cur)[k]]]
           /\ cur' = cur + 1 /\ UNCHANGED <<tac, gen>> /\ Counted(cur)
<1> DEFINE Emitted == /\ text' = text \o [k \in 1..Len(Lines(cur)) |-> [of |-> cur, ins |-> Lines(cur)[k]]]
                      /\ cur' = cur + 1 /\ UNCHANGED <<tac, gen>>
<1>1. /\ tac \in Seq(Inst) /\ cur \in Nat /\ cur <= Len(tac) /\ IsSeq(text)
      /\ arg_count \in Nat /\ param_count \in Nat
  BY DEF LayInv, IInv, GenTypeOK, LaidOut
<1>2. ASSUME NEW lines, lines = Lines(cur), Out(lines)
      PROVE  Emitted
  BY <1>2 DEF Out
<1>3. CASE EmitLabel \/ EmitFunction \/ EmitGoto
  <2>1. \/ tac[cur].kind = "LABEL" /\ Out(<<Mark(tac[cur].labelno)>>)
        \/ tac[cur].kind = "FUNCTION" /\ Out(<<Mark(tac[cur].funcname)>>)
        \/ tac[cur].kind = "GOTO" /\ Out(<<J(tac[cur].labelno)>>)
    BY <1>3 DEF EmitLabel, EmitFunction, EmitGoto, At
  <2>2. UNCHANGED Counters
    BY <1>3 DEF EmitLabel, EmitFunction, EmitGoto
  <2> QED
    BY <1>2, <2>1, <2>2, MarkLines DEF Counted, Counters
<1>4. CASE EmitAssign \/ EmitAddr \/ EmitFetch \/ EmitDeref
  <2>1. \/ tac[cur].kind = "ASSIGN" /\ Out(<<Load(tac[cur].right, "t0"), Swl("t0", tac[cur].left.char_val)>>)
        \/ tac[cur].kind = "ADDR" /\ Out(<<La("t0", tac[cur].right.char_val), Swl("t0", tac[cur].left.char_val)>>)
        \/ tac[cur].kind = "FETCH" /\ Out(<<Lwl("t0", tac[cur].raddr.char_val), Lw("t1", 0, "t0"),
                             Swl("t1", tac[cur].left.char_val)>>)
        \/ tac[cur].kind = "DEREF" /\ Out(<<Lwl("t0", tac[cur].right.char_val), Lwl("t1", tac[cur].laddr.char_val),
                             Sw("t1", 0, "t0")>>)
    BY <1>4 DEF EmitAssign, EmitAddr, EmitFetch, EmitDeref, At
  <2>2. UNCHANGED <<arg_count, param_count>>
    BY <1>4 DEF EmitAssign, EmitAddr, EmitFetch, EmitDeref, Counters
  <2> QED
    BY <1>2, <2>1, <2>2, MoveLines DEF Counted
<1>5. CASE EmitArith
  <2>1. tac[cur].kind \in ArithKinds /\ UNCHANGED Counters
    BY <1>5 DEF EmitArith, At
  <2>2. Out(Lines(cur))
    BY <1>5, <2>1 DEF EmitArith, Lines, ArithKinds
  <2> QED
    BY <1>2, <2>1, <2>2 DEF Counted, Counters, ArithKinds
<1>6. CASE EmitIf \/ EmitReturn
  <2>1. /\ tac[cur].kind \in IfKinds \cup {"RETURN"} /\ UNCHANGED Counters
        /\ Out(Lines(cur))
    BY <1>6, BranchLines DEF EmitIf, EmitReturn, At, IfKinds
  <2> QED
    BY <1>2, <2>1 DEF Counted, Counters, IfKinds
<1>7. CASE EmitRead \/ EmitWrite
  <2>1. /\ tac[cur].kind \in {"READ", "WRITE"} /\ UNCHANGED Counters
        /\ Out(Lines(cur))
    BY <1>7 DEF EmitRead, EmitWrite, At, Lines, ArithKinds, IfKinds
  <2> QED
    BY <1>2, <2>1 DEF Counted, Counters
<1>8. CASE EmitDec
  <2>1. tac[cur].kind = "DEC" /\ UNCHANGED Counters /\ Out(Lines(cur))
    BY <1>8, MarkLines DEF EmitDec, At, NoLines
  <2> QED
    BY <1>2, <2>1 DEF Counted, Counters
<1>9. CASE EmitArg
  <2>1. /\ tac[cur].kind = "ARG" /\ arg_count' = arg_count + 1 /\ param_count' = param_count /\ Out(Lines(cur))
    BY <1>9, MoveLines DEF EmitArg, At
  <2> QED
    BY <1>2, <2>1 DEF Counted
<1>10. CASE EmitCall
  <2>1. tac[cur].kind = "CALL" /\ arg_count' = 0 /\ param_count' = 0
    BY <1>10 DEF EmitCall, At
  <2>2. arg_count = ArgsBefore[cur]
    BY <1>1, RunLength DEF LayInv, CountersFit
  <2>3. Out(Lines(cur))
    BY <1>10, <2>1, <2>2 DEF EmitCall, Lines, Popped, ArithKinds, IfKinds
  <2> QED
    BY <1>2, <2>1, <2>3 DEF Counted
<1>11. CASE EmitParam
  <2>1. tac[cur].kind = "PARAM" /\ param_count' = param_count + 1 /\ arg_count' = arg_count
    BY <1>11 DEF EmitParam, At
  <2>2. param_count = ParamsBefore[cur]
    BY <1>1, <2>1, ParamsCounted, RunLength
  <2>3. Out(Lines(cur))
    BY <1>11, <2>1, <2>2, MoveLines DEF EmitParam
  <2> QED
    BY <1>2, <2>1, <2>3 DEF Counted
<1>12. CASE SkipNone
  <2>1. tac[cur].kind = "NONE" /\ UNCHANGED Counters /\ text' = text /\ cur' = cur + 1 /\ UNCHANGED <<tac, gen>>
    BY <1>12 DEF SkipNone, At
  <2>2. PICK e : e = [k \in 1..Len(Lines(cur)) |-> [of |-> cur, ins |-> Lines(cur)[k]]]
    OBVIOUS
  <2>3. e = <<>>
    BY <2>1, <2>2, MarkLines DEF NoLines
  <2>4. text \o e = text
    BY <1>1, <2>3 DEF IsSeq
  <2> QED
    BY <2>1, <2>2, <2>4 DEF Counted, Counters
<1>13. ~Collect /\ ~Prologue /\ ~Finish
  BY <1>1 DEF Collect, Prologue, Finish
<1> QED
  BY <1>3, <1>4, <1>5, <1>6, <1>7, <1>8, <1>9, <1>10, <1>11, <1>12, <1>13 DEF GenNext

(* No emitter changes the list, emit_assign included.                      *)
LEMMA KeepsList ==
    ASSUME IInv, GenNext, gen = "emit"
    PROVE  UNCHANGED <<all_variables, all_variables_count>>
<1>1. CASE EmitAssign
  <2> DEFINE i == tac[cur]
  <2>1. i \in Inst /\ i.kind = "ASSIGN" /\ all_variables \in Seq(Var) /\ UNCHANGED all_variables_count /\ cur \in DOMAIN tac
    BY <1>1 DEF EmitAssign, At, Out, IInv, GenTypeOK
  <2>2. /\ i.left.char_val \in Var /\ Contains(all_variables, i.left.char_val)
        /\ i.right.kind # "OP_CONSTANT" =>
              i.right.char_val \in Var /\ Contains(all_variables, i.right.char_val)
    BY <2>1, InstLemma DEF IInv, AssignsCollected
  <2>3. AddVariable(all_variables, i.left.char_val) = all_variables
    BY <2>1, <2>2, AddVariableLemma
  <2>4. i.right.kind # "OP_CONSTANT" =>
          AddVariable(all_variables, i.right.char_val) = all_variables
    BY <2>1, <2>2, AddVariableLemma
  <2> QED
    BY <1>1, <2>1, <2>3, <2>4 DEF EmitAssign
<1>2. CASE ~EmitAssign
  BY <1>2 DEF GenNext, Collect, Prologue, EmitLabel, EmitFunction, EmitArith, EmitAddr, EmitFetch,
     EmitDeref, EmitGoto, EmitIf, EmitReturn, EmitDec, EmitArg, EmitCall, EmitParam, EmitRead, EmitWrite, SkipNone,
     Finish, Out, Counters
<1> QED
  BY <1>1, <1>2

(* Nothing has been emitted yet.                                           *)
LEMMA LayInit == ASSUME Init, \A p \in Programs : Supported(p) PROVE LayInv
<1>1. IInv /\ Supported(tac)
  BY InitLemma DEF Init
<1>2. IsSeq(text)
  BY DEF Init, IsSeq
<1> QED
  BY <1>1, <1>2 DEF Init, LayInv, CountersFit, LaidOut

(* Every step of the generator keeps the layout.                           *)
LEMMA LayStep == LayInv /\ [GenNext]_gvars => LayInv'
<1> SUFFICES ASSUME LayInv, [GenNext]_gvars PROVE LayInv'
  OBVIOUS
<1>1. IInv /\ IInv'
  BY StepLemma DEF LayInv
<1>2. UNCHANGED tac
  BY DEF GenNext, gvars, Collect, Prologue, EmitLabel, EmitFunction, EmitAssign, EmitArith, EmitAddr, EmitFetch,
     EmitDeref, EmitGoto, EmitIf, EmitReturn, EmitDec, EmitArg, EmitCall, EmitParam, EmitRead, EmitWrite, SkipNone,
     Finish, Out
<1>3. Supported(tac)'
  BY <1>2 DEF LayInv
<1>4. tac \in Seq(Inst) /\ cur \in 1..Len(tac) + 1 /\ Len(tac) \in Nat /\ IsSeq(text)
  BY <1>1 DEF IInv, GenTypeOK, LayInv, LaidOut
<1>5. CASE Collect
  <2>1. gen = "collect" /\ gen' = "collect" /\ UNCHANGED <<arg_count, param_count, text>>
    BY <1>5 DEF Collect
  <2> QED
    BY <1>1, <1>3, <2>1 DEF LayInv, CountersFit, LaidOut, IsSeq
<1>6. CASE Prologue
  <2>1. gen = "collect" /\ gen' = "emit" /\ cur' = 1 /\ UNCHANGED <<tac, arg_count, param_count>> /\ text' = Runtime
    BY <1>6 DEF Prologue
  <2>2. arg_count' = 0 /\ param_count' = 0
    BY <2>1 DEF LayInv, CountersFit
  <2>3. CountersFit'
    BY <1>4, <2>1, <2>2 DEF CountersFit, RunOf
  <2>4. IsSeq(text')
    BY <2>1, RuntimeLemma
  <2>5. PICK g : g = [j \in 1..1 |-> 10]
    OBVIOUS
  <2>6. g \in [1..1 -> Nat] /\ g[1] = 10 /\ \A j \in 1..1 : g[j] = 10
    BY <2>5
  <2>7. Runtime' = Runtime /\ Len(Runtime) = 9 /\ IsSeq(Runtime)
    BY RuntimeLemma DEF Runtime
  <2>8. Len(text') = 9 /\ DOMAIN text' = 1..9
    BY <2>1, <2>7, IsSeqLemma
  <2>9. Layout(g, 1)'
    BY <2>1, <2>6, <2>7, <2>8 DEF Layout
  <2> QED
    BY <1>1, <1>3, <2>1, <2>3, <2>4, <2>9 DEF LayInv, LaidOut, IsSeq
<1>7. CASE gen = "emit" /\ cur \in DOMAIN tac /\ GenNext
  <2>1. /\ text' = text \o [k \in 1..Len(Lines(cur)) |-> [of |-> cur, ins |-> Lines(cur)[k]]]
        /\ cur' = cur + 1 /\ UNCHANGED <<tac, gen>> /\ Counted(cur)
    BY <1>7, EmitsLines
  <2>2. CountersFit'
    BY <1>7, <2>1, CountersStep
  <2>3. UNCHANGED <<all_variables, all_variables_count>>
    BY <1>1, <1>7, KeepsList
  <2>4. PICK first : Layout(first, cur)
    BY <1>7 DEF LayInv, LaidOut
  <2>5. PICK c \in DOMAIN tac : c = cur
    BY <1>7
  <2>6. IsSeq(text') /\ \E g : Layout(g, c + 1)'
    BY <1>1, <1>2, <1>4, <1>7, <2>1, <2>3, <2>4, <2>5, ExtendLemma
  <2>7. (\E g : Layout(g, cur))'
    BY <2>1, <2>5, <2>6 DEF Layout
  <2> QED
    BY <1>1, <1>3, <1>7, <2>1, <2>2, <2>6, <2>7 DEF LayInv, LaidOut
<1>8. CASE Finish
  <2>1. gen = "emit" /\ gen' = "done" /\ UNCHANGED <<tac, cur, text, all_variables, all_variables_count>> /\ cur = Len(tac) + 1
    BY <1>4, <1>8 DEF Finish
  <2>2. PICK first : Layout(first, cur)
    BY <2>1 DEF LayInv, LaidOut
  <2>3. Layout(first, cur)'
    <3>1. \A i : Lines(i)' = Lines(i)
      BY <2>1, LinesSame
    <3>2. Runtime' = Runtime
      BY DEF Runtime
    <3> QED
      BY <2>1, <2>2, <3>1, <3>2 DEF Layout
  <2> QED
    BY <1>1, <1>3, <1>4, <2>1, <2>3 DEF LayInv, LaidOut, CountersFit
<1>9. CASE UNCHANGED gvars
  <2>1. \A i : Lines(i)' = Lines(i)
    BY <1>9, LinesSame DEF gvars
  <2>2. Runtime' = Runtime
    BY DEF Runtime
  <2>3. \A first : Layout(first, cur) => Layout(first, cur)'
    BY <1>9, <2>1, <2>2 DEF Layout, gvars
  <2> QED
    BY <1>1, <1>3, <1>9, <2>3 DEF LayInv, LaidOut, CountersFit, gvars, RunOf, IsSeq
<1>10. GenNext => Collect \/ Prologue \/ Finish \/ (gen = "emit" /\ cur \in DOMAIN tac)
  BY <1>4 DEF GenNext, EmitLabel, EmitFunction, EmitAssign, EmitArith, EmitAddr, EmitFetch,
     EmitDeref, EmitGoto, EmitIf, EmitReturn, EmitDec, EmitArg, EmitCall, EmitParam, EmitRead, EmitWrite, SkipNone, At
<1> QED
  BY <1>5, <1>6, <1>7, <1>8, <1>9, <1>10

(* arg_count and param_count, baked into the lines of a CALL and a PARAM,   *)
(* are the number of the ARGs and PARAMs directly before it, and the lines  *)
(* of each instruction, in its order, are all that follows the runtime.     *)
THEOREM TextIsLaidOut ==
    ASSUME \A p \in Programs : Supported(p)
    PROVE  GenSpec => [](CountersFit /\ LaidOut)
<1>1. Init => LayInv
  BY LayInit
<1> QED
  BY <1>1, LayStep, PTL DEF GenSpec, LayInv
=============================================================================
