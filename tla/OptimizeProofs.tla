--------------------------- MODULE OptimizeProofs ---------------------------
(***************************************************************************)
(* For every file of well-formed lines: what the optimizer has written is  *)
(* what it has read, in order, without lines that falling through cannot   *)
(* reach, and with some IFs replaced by the jump they always make.         *)
(*                                                                         *)
(* That a deleted line is behind a jump needs what the flag stands for:    *)
(* while it is set, the line that is read next is behind a jump.           *)
(*                                                                         *)
(* And for every set of well-formed files: what has been written runs as   *)
(* what was read.                                                          *)
(***************************************************************************)
EXTENDS Optimized, SequenceTheorems, TLAPS

FlagBehindJump == isUnreachable => BehindJump(at)

(* Every label and every function of the input is in the output as it was.  *)
TargetsKept ==
    \A i \in 1..at - 1 : tac[i].kind \in {"LABEL", "FUNCTION"} =>
        \E p \in DOMAIN out : out[p] = [of |-> i, ins |-> tac[i]]

OInv ==
    /\ OptTypeOK
    /\ TargetsKept
    /\ DeletedBehindJump
    /\ ChangesHold
    /\ FlagBehindJump

-----------------------------------------------------------------------------
(* Lines that an IF may be: it has a label and two operands, and an        *)
(* operand that is a literal has a number.                                 *)
LEMMA IfParts ==
    ASSUME NEW i \in Inst, i.kind \in IfKinds
    PROVE  i.c1 \in Opd /\ i.c2 \in Opd /\ i.labelno \in Lbl
  BY DEF Inst, IfKinds, ArithKinds

LEMMA OperandParts ==
    ASSUME NEW o \in Opd
    PROVE  o.int_val \in Int
  BY DEF Opd, ScalarOpd, PointerOpd, VarOpd

LEMMA GotoInst ==
    ASSUME NEW l \in Lbl
    PROVE  Goto(l) \in Inst
  BY DEF Goto, Inst

(* An IF that is folded holds.                                             *)
LEMMA FoldedHolds ==
    ASSUME NEW i \in Inst, Folds(i)
    PROVE  /\ i.kind \in IfKinds
           /\ {i.c1.kind, i.c2.kind} = {"OP_CONSTANT"}
           /\ Holds(i.kind, i.c1.int_val, i.c2.int_val)
           /\ Goto(i.labelno) \in Inst
<1>1. i.kind \in IfKinds
  BY DEF Folds, IfKinds
<1>2. i.c1.int_val \in Int /\ i.c2.int_val \in Int /\ i.labelno \in Lbl
  BY <1>1, IfParts, OperandParts
<1>3. {i.c1.kind, i.c2.kind} = {"OP_CONSTANT"}
  BY DEF Folds
<1>4. Holds(i.kind, i.c1.int_val, i.c2.int_val)
  <2> USE <1>2
  <2>1. CASE i.kind = "IFEQ"
    BY <2>1 DEF Folds, Holds
  <2>2. CASE i.kind = "IFNE"
    BY <2>2 DEF Folds, Holds
  <2>3. CASE i.kind = "IFGE"
    BY <2>3 DEF Folds, Holds
  <2>4. CASE i.kind = "IFLE"
    BY <2>4 DEF Folds, Holds
  <2> QED
    BY <2>1, <2>2, <2>3, <2>4 DEF Folds
<1> QED
  BY <1>1, <1>2, <1>3, <1>4, GotoInst

-----------------------------------------------------------------------------
(* What a step does, whichever action it is: it reads a line, and either   *)
(* deletes it or writes one line for it; the flag is set only by a line    *)
(* that always jumps, and stays set unless a label is read.                *)
Deletes ==
    out' = out /\ isUnreachable /\ tac[at].kind \notin {"LABEL", "FUNCTION"}

Writes(ins) ==
    /\ PrintLine(ins)
    /\ ins = tac[at] \/ (Folds(tac[at]) /\ ins = Goto(tac[at].labelno))

Flags == isUnreachable' => (isUnreachable /\ tac[at].kind # "LABEL") \/ AlwaysJumps(tac[at])

LEMMA StepShape ==
    ASSUME OptTypeOK, Optimizing
    PROVE  /\ at \in DOMAIN tac /\ tac' = tac /\ at' = at + 1
           /\ tac[at] \in Inst
           /\ Deletes \/ \E ins \in Inst : Writes(ins)
           /\ isUnreachable' \in BOOLEAN /\ labels' \subseteq Lbl
           /\ Flags
<1> USE DEF Reading, NextLine
<1>1. at \in DOMAIN tac /\ tac' = tac /\ at' = at + 1
  BY DEF Optimizing, CopyFunction, CopyLabel, Delete, CopyEmpty, CopyPlain, CopyGoto, CopyIf, FoldIf
<1>2. tac[at] \in Inst
  BY <1>1 DEF OptTypeOK
<1>3. CASE CopyFunction
  BY <1>1, <1>2, <1>3 DEF CopyFunction, OptTypeOK, Writes, Flags
<1>4. CASE CopyLabel
  <2>1. tac[at].labelno \in Lbl
    BY <1>2, <1>4 DEF CopyLabel, Inst, IfKinds, ArithKinds
  <2> QED
    BY <1>1, <1>2, <1>4, <2>1 DEF CopyLabel, Reachable, OptTypeOK, Writes, Flags
<1>5. CASE Delete
  BY <1>1, <1>2, <1>5 DEF Delete, Plain, IfKinds, ArithKinds, OptTypeOK, Deletes, Flags
<1>6. CASE CopyEmpty
  BY <1>1, <1>2, <1>6 DEF CopyEmpty, OptTypeOK, Writes, Flags
<1>7. CASE CopyPlain
  BY <1>1, <1>2, <1>7 DEF CopyPlain, OptTypeOK, Writes, Flags
<1>8. CASE CopyGoto
  BY <1>1, <1>2, <1>8 DEF CopyGoto, OptTypeOK, Writes, Flags, AlwaysJumps
<1>9. CASE CopyIf
  BY <1>1, <1>2, <1>9 DEF CopyIf, OptTypeOK, Writes, Flags
<1>10. CASE FoldIf
  BY <1>1, <1>2, <1>10, FoldedHolds DEF FoldIf, OptTypeOK, Writes, Flags, AlwaysJumps
<1> QED
  BY <1>3, <1>4, <1>5, <1>6, <1>7, <1>8, <1>9, <1>10 DEF Optimizing

(* A line that is written leaves those before it as they are.              *)
LEMMA PrintLineLemma ==
    ASSUME OptTypeOK, at \in DOMAIN tac, NEW ins \in Inst, PrintLine(ins)
    PROVE  /\ out' \in Seq([of: Nat, ins: Inst])
           /\ DOMAIN out' = DOMAIN out \cup {Len(out) + 1}
           /\ \A p \in DOMAIN out : out'[p] = out[p] /\ p < Len(out) + 1
           /\ out'[Len(out) + 1] = [of |-> at, ins |-> ins]
<1>1. out \in Seq([of: Nat, ins: Inst]) /\ at \in Nat
  BY DEF OptTypeOK
<1>2. [of |-> at, ins |-> ins] \in [of: Nat, ins: Inst]
  BY <1>1
<1> QED
  BY <1>1, <1>2 DEF PrintLine

-----------------------------------------------------------------------------
LEMMA InitOInv == OptInit => OInv
<1> SUFFICES ASSUME OptInit PROVE OInv
  OBVIOUS
<1>1. tac \in Seq(Inst) /\ out = <<>> /\ at = 1 /\ isUnreachable = FALSE /\ labels = {}
  BY OptimizeAssumption DEF OptInit
<1>2. DOMAIN out = {} /\ 1..at - 1 = {}
  BY <1>1
<1>3. OptTypeOK
  <2>1. out \in Seq([of: Nat, ins: Inst]) /\ at \in 1..Len(tac) + 1
    BY <1>1
  <2> QED
    BY <1>1, <1>2, <2>1 DEF OptTypeOK
<1>4. TargetsKept /\ DeletedBehindJump
  BY <1>2 DEF TargetsKept, DeletedBehindJump
<1>5. ChangesHold
  BY <1>2 DEF ChangesHold
<1>6. FlagBehindJump
  BY <1>1 DEF FlagBehindJump
<1> QED
  BY <1>3, <1>4, <1>5, <1>6 DEF OInv

LEMMA StepOInv == OInv /\ [Optimizing]_ovars => OInv'
<1> SUFFICES ASSUME OInv, [Optimizing]_ovars PROVE OInv'
  OBVIOUS
<1>1. CASE UNCHANGED ovars
  BY <1>1 DEF OInv, ovars, OptTypeOK, TargetsKept, DeletedBehindJump, ChangesHold, FlagBehindJump,
              BehindJump, Kept
<1>2. CASE Optimizing
  <2>1. OptTypeOK
    BY DEF OInv
  <2>2. /\ at \in DOMAIN tac /\ tac' = tac /\ at' = at + 1
        /\ tac[at] \in Inst
        /\ Deletes \/ \E ins \in Inst : Writes(ins)
        /\ isUnreachable' \in BOOLEAN /\ labels' \subseteq Lbl
        /\ Flags
    BY <1>2, <2>1, StepShape
  <2>3. /\ tac \in Seq(Inst) /\ at \in 1..Len(tac) /\ at' \in 1..Len(tac') + 1
        /\ 1..at' - 1 = (1..at - 1) \cup {at}
    BY <2>1, <2>2 DEF OptTypeOK
  <2>4. FlagBehindJump'
    <3>1. PICK next \in Nat : next = at + 1
      BY <2>3
    <3>2. SUFFICES ASSUME isUnreachable' PROVE BehindJump(next)
      BY <2>2, <3>1 DEF FlagBehindJump, BehindJump
    <3>3. 1..next - 1 = (1..at - 1) \cup {at} /\ at \in 1..next - 1 /\ at + 1..next - 1 = {}
      BY <2>3, <3>1
    <3>4. CASE AlwaysJumps(tac[at])
      BY <3>3, <3>4 DEF BehindJump
    <3>5. CASE isUnreachable /\ tac[at].kind # "LABEL"
      <4>1. PICK j \in 1..at - 1 : AlwaysJumps(tac[j]) /\ \A k \in j + 1..at - 1 : tac[k].kind # "LABEL"
        BY <3>5 DEF OInv, FlagBehindJump, BehindJump
      <4>2. j + 1..next - 1 = (j + 1..at - 1) \cup {at}
        BY <2>3, <3>1, <4>1
      <4> QED
        BY <3>3, <3>5, <4>1, <4>2 DEF BehindJump
    <3> QED
      BY <2>2, <3>2, <3>4, <3>5 DEF Flags
  <2>5. ASSUME NEW i, BehindJump(i)
        PROVE  BehindJump(i)'
    BY <2>2, <2>5 DEF BehindJump
  <2>6. CASE Deletes
    <3>1. OptTypeOK'
      BY <2>1, <2>2, <2>3, <2>6 DEF OptTypeOK, Deletes
    <3>2. TargetsKept'
      BY <2>2, <2>3, <2>6 DEF OInv, TargetsKept, Deletes
    <3>3. DeletedBehindJump'
      <4>1. BehindJump(at) /\ tac[at].kind \notin {"LABEL", "FUNCTION"}
        BY <2>6 DEF OInv, FlagBehindJump, Deletes
      <4>2. SUFFICES ASSUME NEW i \in 1..at' - 1, ~Kept(i)'
                     PROVE  BehindJump(i)' /\ tac'[i].kind \notin {"LABEL", "FUNCTION"}
        BY DEF DeletedBehindJump
      <4>3. CASE i = at
        BY <2>2, <2>5, <4>1, <4>3
      <4>4. CASE i \in 1..at - 1
        <5>1. ~Kept(i)
          BY <2>6, <4>2 DEF Kept, Deletes
        <5> QED
          BY <2>2, <2>5, <4>4, <5>1 DEF OInv, DeletedBehindJump
      <4> QED
        BY <2>3, <4>3, <4>4
    <3>4. ChangesHold'
      BY <2>2, <2>6 DEF OInv, ChangesHold, Deletes
    <3> QED
      BY <2>4, <3>1, <3>2, <3>3, <3>4 DEF OInv
  <2>7. CASE \E ins \in Inst : Writes(ins)
    <3>1. PICK ins \in Inst : Writes(ins)
      BY <2>7
    <3>2. PICK last : last = Len(out) + 1
      OBVIOUS
    <3>3. /\ out' \in Seq([of: Nat, ins: Inst])
          /\ DOMAIN out' = DOMAIN out \cup {last}
          /\ \A p \in DOMAIN out : out'[p] = out[p] /\ p < last
          /\ out'[last] = [of |-> at, ins |-> ins]
      BY <2>1, <2>2, <3>1, <3>2, PrintLineLemma DEF Writes
    <3>4. OptTypeOK'
      <4>1. \A p \in DOMAIN out' : out'[p].of \in 1..at' - 1
        BY <2>1, <2>2, <2>3, <3>3 DEF OptTypeOK
      <4>2. \A p \in DOMAIN out : out'[p].of < out'[last].of
        BY <2>1, <2>3, <3>3 DEF OptTypeOK
      <4>3. \A p, q \in DOMAIN out' : p < q => out'[p].of < out'[q].of
        <5>1. last \in Nat /\ DOMAIN out \subseteq Nat
          BY <2>1, <3>2 DEF OptTypeOK
        <5> QED
          BY <2>1, <3>3, <4>2, <5>1 DEF OptTypeOK
      <4> QED
        BY <2>2, <2>3, <3>3, <4>1, <4>3 DEF OptTypeOK
    <3>5. TargetsKept'
      <4>1. ASSUME NEW i \in 1..at - 1, tac[i].kind \in {"LABEL", "FUNCTION"}
            PROVE  \E p \in DOMAIN out' : out'[p] = [of |-> i, ins |-> tac[i]]
        BY <3>3, <4>1 DEF OInv, TargetsKept
      <4>2. tac[at].kind \in {"LABEL", "FUNCTION"} => out'[last] = [of |-> at, ins |-> tac[at]]
        BY <2>2, <3>1, <3>3, FoldedHolds DEF Writes, IfKinds
      <4> QED
        BY <2>2, <2>3, <3>3, <4>1, <4>2 DEF TargetsKept
    <3>6. DeletedBehindJump'
      <4>1. SUFFICES ASSUME NEW i \in 1..at' - 1, ~Kept(i)'
                     PROVE  BehindJump(i)' /\ tac'[i].kind \notin {"LABEL", "FUNCTION"}
        BY DEF DeletedBehindJump
      <4>2. i # at
        BY <3>3, <4>1 DEF Kept
      <4>3. ~Kept(i)
        BY <3>3, <4>1 DEF Kept
      <4>4. i \in 1..at - 1
        BY <2>3, <4>2
      <4> QED
        BY <2>2, <2>5, <4>3, <4>4 DEF OInv, DeletedBehindJump
    <3>7. ChangesHold'
      <4>1. ASSUME NEW p \in DOMAIN out, out'[p].ins # tac'[out'[p].of]
            PROVE  LET i == tac'[out'[p].of] IN
                   /\ i.kind \in IfKinds /\ Holds(i.kind, i.c1.int_val, i.c2.int_val)
                   /\ {i.c1.kind, i.c2.kind} = {"OP_CONSTANT"}
                   /\ out'[p].ins = Goto(i.labelno)
        BY <2>2, <3>3, <4>1 DEF OInv, ChangesHold
      <4>2. out'[last].ins = ins /\ tac'[out'[last].of] = tac[at]
        BY <2>2, <3>3
      <4>3. ins # tac[at] =>
                   /\ tac[at].kind \in IfKinds
                   /\ Holds(tac[at].kind, tac[at].c1.int_val, tac[at].c2.int_val)
                   /\ {tac[at].c1.kind, tac[at].c2.kind} = {"OP_CONSTANT"}
                   /\ ins = Goto(tac[at].labelno)
        BY <2>2, <3>1, FoldedHolds DEF Writes
      <4> QED
        BY <3>3, <4>1, <4>2, <4>3 DEF ChangesHold
    <3> QED
      BY <2>4, <3>4, <3>5, <3>6, <3>7 DEF OInv
  <2> QED
    BY <2>2, <2>6, <2>7
<1> QED
  BY <1>1, <1>2

LEMMA Inductive == OptSpec => []OInv
<1> QED
  BY InitOInv, StepOInv, PTL DEF OptSpec

(* The lines of the output are lines of the input, in their order.         *)
THEOREM TypeCorrect == OptSpec => []OptTypeOK
<1>1. OInv => OptTypeOK
  BY DEF OInv
<1> QED
  BY <1>1, Inductive, PTL

(* Every label and every function of the input is in the output.           *)
THEOREM TargetsAreKept == OptSpec => []TargetsKept
<1>1. OInv => TargetsKept
  BY DEF OInv
<1> QED
  BY <1>1, Inductive, PTL

(* Only lines between an unconditional jump and the next label are deleted. *)
THEOREM OnlyUnreachableDeleted == OptSpec => []DeletedBehindJump
<1>1. OInv => DeletedBehindJump
  BY DEF OInv
<1> QED
  BY <1>1, Inductive, PTL

(* Only an IF whose condition holds is changed, into its jump.             *)
THEOREM OnlyTrueIfsChanged == OptSpec => []ChangesHold
<1>1. OInv => ChangesHold
  BY DEF OInv
<1> QED
  BY <1>1, Inductive, PTL

-----------------------------------------------------------------------------
(* That the program the optimizer has written runs as the file it has read. *)
(*                                                                         *)
(* The argument.  A line of the file is live when it is not behind a jump, *)
(* or is a label.  All live lines are in the output, so the line after one *)
(* that may be fallen through has the line after its image as its image;   *)
(* a label or a function is in the output once, as in the file, and is     *)
(* live.  So the machine, and every activation that waits for it, stands   *)
(* at a live line, which is the line of the file or the jump it makes.     *)

Live(i) == i \in DOMAIN tac => ~BehindJump(i) \/ tac[i].kind = "LABEL"

(* Line p of the output, or its end, stands for a live line.               *)
Stands(p) == p \in 1..Len(out) + 1 /\ Live(Line(p))

IsFrame(f) ==
    f = [ret |-> f.ret, back |-> f.back, env |-> f.env, loc |-> f.loc, actuals |-> f.actuals]

IsStack(s) ==
    /\ s \in Seq({s[k] : k \in DOMAIN s})
    /\ \A k \in DOMAIN s : IsFrame(s[k])

Idle ==
    /\ prog = <<>> /\ ipc = 0 /\ env = <<>> /\ actuals = <<>>
    /\ pending = <<>> /\ frames = <<>> /\ loc = <<>> /\ wrote = <<>>

Running ==
    /\ at > Len(tac) /\ out # <<>>
    /\ prog = [p \in DOMAIN out |-> out[p].ins]
    /\ ipc = 0 \/ Stands(ipc)
    /\ IsStack(frames) /\ \A k \in DOMAIN frames : Stands(frames[k].back)

RInv == OInv /\ WellFormed(tac) /\ (Idle \/ Running)

-----------------------------------------------------------------------------
(* Which line of the file a line of the output stands for.                 *)
LEMMA LineCases ==
    ASSUME OptTypeOK
    PROVE  /\ Line(0) = 0
           /\ \A p \in DOMAIN out : Line(p) = out[p].of /\ Line(p) \in 1..at - 1
           /\ Line(Len(out) + 1) = Len(tac) + 1
           /\ DOMAIN out = 1..Len(out) /\ Len(out) \in Nat
           /\ DOMAIN tac = 1..Len(tac) /\ Len(tac) \in Nat
<1>1. DOMAIN out = 1..Len(out) /\ Len(out) \in Nat /\ DOMAIN tac = 1..Len(tac) /\ Len(tac) \in Nat
  BY DEF OptTypeOK
<1>2. 0 \notin DOMAIN out /\ Len(out) + 1 \notin DOMAIN out /\ Len(out) + 1 # 0
  BY <1>1
<1>3. Line(0) = 0
  BY <1>2 DEF Line
<1>4. ASSUME NEW p \in DOMAIN out PROVE Line(p) = out[p].of
  BY <1>2, <1>4 DEF Line
<1>5. Line(Len(out) + 1) = Len(tac) + 1
  BY <1>2 DEF Line
<1> QED
  BY <1>1, <1>3, <1>4, <1>5 DEF OptTypeOK

(* When the file has been read, every live line is in the output.          *)
LEMMA LiveKept ==
    ASSUME OInv, at > Len(tac), NEW i \in DOMAIN tac, Live(i)
    PROVE  \E p \in DOMAIN out : Line(p) = i
<1>1. i \in 1..at - 1
  BY DEF OInv, OptTypeOK
<1>2. Kept(i)
  BY <1>1 DEF OInv, DeletedBehindJump, Live
<1> QED
  BY <1>2, LineCases DEF Kept, OInv

(* The line after a live line that does not always jump is live, and its   *)
(* copy comes right after the other's.                                     *)
LEMMA FallsThrough ==
    ASSUME OInv, at > Len(tac), NEW p \in DOMAIN out, Live(Line(p)), ~AlwaysJumps(tac[Line(p)])
    PROVE  Stands(p + 1) /\ Line(p + 1) = Line(p) + 1
<1>1. PICK i : i = Line(p)
  OBVIOUS
<1>2. /\ i = out[p].of /\ i \in 1..at - 1 /\ at = Len(tac) + 1 /\ i \in 1..Len(tac)
      /\ DOMAIN out = 1..Len(out) /\ Len(out) \in Nat
      /\ DOMAIN tac = 1..Len(tac) /\ Len(tac) \in Nat
  BY <1>1, LineCases DEF OInv, OptTypeOK
<1>3. p + 1 \in 1..Len(out) + 1
  BY <1>2
<1>4. PICK next : next = i + 1
  OBVIOUS
<1>5. Live(next)
  <2>1. SUFFICES ASSUME BehindJump(next) PROVE FALSE
    BY DEF Live
  <2>2. PICK j \in 1..i : AlwaysJumps(tac[j]) /\ \A k \in j + 1..i : tac[k].kind # "LABEL"
    <3>1. next - 1 = i
      BY <1>2, <1>4
    <3> QED
      BY <2>1, <3>1 DEF BehindJump
  <2>3. j # i /\ j \in 1..i - 1
    BY <1>1, <1>2, <2>2
  <2>4. tac[i].kind # "LABEL" /\ \A k \in j + 1..i - 1 : tac[k].kind # "LABEL"
    BY <1>2, <2>2, <2>3
  <2> QED
    BY <1>1, <1>2, <2>2, <2>3, <2>4 DEF Live, BehindJump
<1>6. Line(p + 1) = next
  <2>1. CASE next \in DOMAIN tac
    <3>1. PICK q \in DOMAIN out : Line(q) = next /\ out[q].of = next
      BY <1>5, <2>1, LiveKept, LineCases DEF OInv
    <3>2. p < q
      <4>1. \A a, b \in DOMAIN out : a < b => out[a].of < out[b].of
        BY DEF OInv, OptTypeOK
      <4>2. p # q /\ ~(q < p)
        BY <1>2, <1>4, <3>1, <4>1
      <4> QED
        BY <1>2, <4>2
    <3>3. p + 1 \in DOMAIN out /\ ~(p + 1 < q)
      <4>1. p + 1 \in DOMAIN out /\ p < p + 1
        BY <1>2, <3>2
      <4>2. out[p].of < out[p + 1].of /\ (p + 1 < q => out[p + 1].of < out[q].of) /\ out[p + 1].of \in Int
        BY <4>1 DEF OInv, OptTypeOK
      <4> QED
        BY <1>2, <1>4, <3>1, <4>1, <4>2
    <3>4. q = p + 1
      BY <1>2, <3>2, <3>3
    <3> QED
      BY <3>1, <3>4
  <2>2. CASE next \notin DOMAIN tac
    <3>1. next = Len(tac) + 1
      BY <1>2, <1>4, <2>2
    <3>2. p + 1 \notin DOMAIN out
      <4>1. SUFFICES ASSUME p + 1 \in DOMAIN out PROVE FALSE
        OBVIOUS
      <4>2. out[p].of < out[p + 1].of /\ out[p + 1].of \in 1..at - 1
        BY <1>2, <4>1 DEF OInv, OptTypeOK
      <4> QED
        BY <1>2, <1>4, <3>1, <4>2
    <3>3. p + 1 = Len(out) + 1
      BY <1>2, <3>2
    <3> QED
      BY <3>1, <3>3, LineCases DEF OInv
  <2> QED
    BY <2>1, <2>2
<1> QED
  BY <1>1, <1>3, <1>4, <1>5, <1>6 DEF Stands

-----------------------------------------------------------------------------
(* A label or a function is in the output where it is copied to, and        *)
(* nowhere else.                                                            *)
LEMMA CopiedOnce ==
    ASSUME OInv, at > Len(tac), WellFormed(tac),
           NEW i \in DOMAIN tac, tac[i].kind \in {"LABEL", "FUNCTION"}
    PROVE  \E p \in DOMAIN out :
             /\ out[p].ins = tac[i] /\ Line(p) = i
             /\ \A q \in DOMAIN out : out[q].ins = tac[i] => q = p
<1>1. i \in 1..at - 1 /\ tac[i] \in Inst
  BY DEF OInv, OptTypeOK
<1>2. PICK p \in DOMAIN out : out[p] = [of |-> i, ins |-> tac[i]]
  BY <1>1 DEF OInv, TargetsKept
<1>3. ASSUME NEW q \in DOMAIN out, out[q].ins = tac[i] PROVE q = p
  <2>1. tac[out[q].of] = tac[i] /\ out[q].of \in DOMAIN tac
    <3>1. tac[i] # Goto(tac[out[q].of].labelno)
      BY DEF Goto
    <3>2. tac[out[q].of] = tac[i]
      BY <1>3, <3>1 DEF OInv, ChangesHold
    <3> QED
      BY <3>2, LineCases DEF OInv, OptTypeOK
  <2>2. out[q].of = out[p].of
    BY <1>2, <2>1 DEF WellFormed
  <2>3. ~(p < q) /\ ~(q < p)
    BY <1>2, <2>2 DEF OInv, OptTypeOK
  <2>4. p \in Nat /\ q \in Nat
    BY LineCases DEF OInv
  <2> QED
    BY <2>3, <2>4
<1> QED
  BY <1>2, <1>3, LineCases DEF OInv

LEMMA LabelParts ==
    ASSUME NEW i \in Inst
    PROVE  /\ i.kind = "LABEL" => i = Label(i.labelno)
           /\ i.kind = "FUNCTION" => i = Function(i.funcname)
<1>1. i.kind = "LABEL" => i \in [kind: {"LABEL", "GOTO"}, labelno: Lbl]
  BY DEF Inst, ArithKinds, IfKinds
<1>2. i.kind = "FUNCTION" => i \in [kind: {"FUNCTION"}, funcname: Func]
  BY DEF Inst, ArithKinds, IfKinds
<1> QED
  BY <1>1, <1>2 DEF Label, Function

(* Instructions of the output are instructions.                             *)
LEMMA LoadedLemma ==
    ASSUME OInv, Running
    PROVE  /\ prog # <<>> /\ DOMAIN prog = DOMAIN out /\ Len(prog) = Len(out)
           /\ \A p \in DOMAIN out : prog[p] = out[p].ins /\ prog[p] \in Inst
<1>1. out \in Seq([of: Nat, ins: Inst]) /\ DOMAIN out = 1..Len(out) /\ Len(out) \in Nat
  BY LineCases DEF OInv, OptTypeOK
<1>2. \A p \in DOMAIN out : prog[p] = out[p].ins /\ prog[p] \in Inst
  <2>1. PICK S : S = [of: Nat, ins: Inst]
    OBVIOUS
  <2>2. out \in Seq(S)
    BY <1>1, <2>1
  <2>3. \A p \in DOMAIN out : out[p] \in S
    BY <2>2
  <2>4. \A p \in DOMAIN out : out[p].ins \in Inst
    BY <2>1, <2>3
  <2> QED
    BY <2>4 DEF Running
<1>3. prog \in Seq(Inst) /\ DOMAIN prog = DOMAIN out
  BY <1>1, <1>2 DEF Running
<1>4. Len(prog) = Len(out)
  BY <1>1, <1>3
<1>5. out # <<>> => Len(out) # 0
  BY <1>1
<1> QED
  BY <1>1, <1>2, <1>3, <1>4, <1>5 DEF Running

(* Jumps and calls of the output lead to the copy of where they lead in     *)
(* the file.                                                               *)
LEMMA LabelLemma ==
    ASSUME OInv, WellFormed(tac), Running, NEW l, \E j \in DOMAIN tac : tac[j] = Label(l)
    PROVE  Stands(New!LabelAt(l)) /\ Line(New!LabelAt(l)) = Old!LabelAt(l)
<1>1. PICK j \in DOMAIN tac : tac[j] = Label(l)
  OBVIOUS
<1>2. tac[j].kind = "LABEL" /\ tac[j].labelno = l
  BY <1>1 DEF Label
<1>3. PICK p \in DOMAIN out :
        /\ out[p].ins = tac[j] /\ Line(p) = j
        /\ \A q \in DOMAIN out : out[q].ins = tac[j] => q = p
  BY <1>2, CopiedOnce DEF Running
<1>4. New!LabelAt(l) = p
  <2>1. prog[p].kind = "LABEL" /\ prog[p].labelno = l /\ p \in DOMAIN prog
    BY <1>2, <1>3, LoadedLemma
  <2>2. ASSUME NEW q \in DOMAIN prog, prog[q].kind = "LABEL", prog[q].labelno = l PROVE q = p
    BY <1>1, <1>3, <2>2, LoadedLemma, LabelParts
  <2> QED
    BY <2>1, <2>2 DEF New!LabelAt
<1>5. Old!LabelAt(l) = j
  <2>1. ASSUME NEW q \in DOMAIN tac, tac[q].kind = "LABEL", tac[q].labelno = l PROVE q = j
    <3>1. tac[q] \in Inst
      BY DEF OInv, OptTypeOK
    <3> QED
      BY <1>1, <1>2, <2>1, <3>1, LabelParts DEF WellFormed
  <2> QED
    BY <1>2, <2>1 DEF Old!LabelAt
<1>6. Stands(p)
  BY <1>2, <1>3, LineCases DEF OInv, Stands, Live
<1> QED
  BY <1>3, <1>4, <1>5, <1>6

LEMMA FunctionLemma ==
    ASSUME OInv, WellFormed(tac), Running, NEW f, \E j \in DOMAIN tac : tac[j] = Function(f)
    PROVE  Stands(New!FunctionAt(f)) /\ Line(New!FunctionAt(f)) = Old!FunctionAt(f)
<1>1. PICK j \in DOMAIN tac : tac[j] = Function(f)
  OBVIOUS
<1>2. tac[j].kind = "FUNCTION" /\ tac[j].funcname = f
  BY <1>1 DEF Function
<1>3. PICK p \in DOMAIN out :
        /\ out[p].ins = tac[j] /\ Line(p) = j
        /\ \A q \in DOMAIN out : out[q].ins = tac[j] => q = p
  BY <1>2, CopiedOnce DEF Running
<1>4. New!FunctionAt(f) = p
  <2>1. prog[p].kind = "FUNCTION" /\ prog[p].funcname = f /\ p \in DOMAIN prog
    BY <1>2, <1>3, LoadedLemma
  <2>2. ASSUME NEW q \in DOMAIN prog, prog[q].kind = "FUNCTION", prog[q].funcname = f PROVE q = p
    BY <1>1, <1>3, <2>2, LoadedLemma, LabelParts
  <2> QED
    BY <2>1, <2>2 DEF New!FunctionAt
<1>5. Old!FunctionAt(f) = j
  <2>1. ASSUME NEW q \in DOMAIN tac, tac[q].kind = "FUNCTION", tac[q].funcname = f PROVE q = j
    <3>1. tac[q] \in Inst
      BY DEF OInv, OptTypeOK
    <3> QED
      BY <1>1, <1>2, <2>1, <3>1, LabelParts DEF WellFormed
  <2> QED
    BY <1>2, <2>1 DEF Old!FunctionAt
<1>6. ~BehindJump(j)
  BY <1>2 DEF WellFormed, BehindJump
<1>7. Stands(p)
  BY <1>3, <1>6, LineCases DEF OInv, Stands, Live
<1> QED
  BY <1>3, <1>4, <1>5, <1>7

-----------------------------------------------------------------------------
(* A step of the machine on the output.                                     *)
Stepping ==
    /\ OInv /\ WellFormed(tac) /\ Running
    /\ ipc \in 1..Len(prog) /\ prog' = prog /\ UNCHANGED ovars

(* What it leads to in the file, besides the step that is taken there.       *)
StaysRunning == (ipc' = 0 \/ Stands(ipc')) /\ IsStack(frames') /\ \A k \in DOMAIN frames' : Stands(frames'[k].back)

LEMMA LineSame ==
    ASSUME UNCHANGED ovars
    PROVE  /\ \A p : Line(p)' = Line(p)
           /\ \A p : Stands(p)' <=> Stands(p)
  BY DEF ovars, Line, Stands, Live, BehindJump

(* The machine's instruction is the line of the file, or the jump that      *)
(* line always makes.                                                      *)
LEMMA Here ==
    ASSUME Stepping
    PROVE  /\ ipc \in DOMAIN out /\ ipc # 0 /\ Line(ipc) \in DOMAIN tac /\ Line(ipc) # 0 /\ Live(Line(ipc))
           /\ prog # <<>> /\ prog' # <<>>
           /\ Old!Cur = tac[Line(ipc)] /\ Old!Cur \in Inst /\ New!Cur \in Inst
           /\ \/ New!Cur = Old!Cur
              \/ /\ New!Cur = Goto(Old!Cur.labelno) /\ Old!Cur.kind \in IfKinds
                 /\ Holds(Old!Cur.kind, Old!Cur.c1.int_val, Old!Cur.c2.int_val)
                 /\ {Old!Cur.c1.kind, Old!Cur.c2.kind} = {"OP_CONSTANT"}
           /\ \A kinds : Old!Is(kinds) <=> Old!Cur.kind \in kinds
           /\ \A kinds : New!Is(kinds) <=> New!Cur.kind \in kinds
<1> USE DEF Stepping
<1>1. /\ ipc \in DOMAIN out /\ ipc # 0 /\ prog # <<>> /\ prog' # <<>>
      /\ New!Cur = out[ipc].ins /\ New!Cur \in Inst
  BY LoadedLemma, LineCases DEF New!Cur, OInv
<1>2. Line(ipc) = out[ipc].of /\ Line(ipc) \in DOMAIN tac /\ Line(ipc) # 0
  BY <1>1, LineCases DEF OInv, OptTypeOK
<1>3. Live(Line(ipc))
  BY <1>1 DEF Running, Stands
<1>4. Old!Cur = tac[Line(ipc)]
  BY <1>1 DEF Old!Cur
<1>5. Old!Cur \in Inst
  BY <1>2, <1>4 DEF OInv, OptTypeOK
<1>6. \/ New!Cur = Old!Cur
      \/ /\ New!Cur = Goto(Old!Cur.labelno) /\ Old!Cur.kind \in IfKinds
         /\ Holds(Old!Cur.kind, Old!Cur.c1.int_val, Old!Cur.c2.int_val)
         /\ {Old!Cur.c1.kind, Old!Cur.c2.kind} = {"OP_CONSTANT"}
  BY <1>1, <1>2, <1>4 DEF OInv, ChangesHold
<1>7. \A kinds : New!Is(kinds) <=> New!Cur.kind \in kinds
  BY <1>1 DEF New!Is
<1>8. \A kinds : Old!Is(kinds) <=> Old!Cur.kind \in kinds
  BY <1>1, <1>2 DEF Old!Is
<1> QED
  BY <1>1, <1>2, <1>3, <1>4, <1>5, <1>6, <1>7, <1>8

(* The machines value an operand alike.                                     *)
LEMMA SameValues ==
    /\ \A o : (Old!Defined(o) <=> New!Defined(o)) /\ Old!Value(o) = New!Value(o)
    /\ \A o, x : Old!Points(o, x) <=> New!Points(o, x)
    /\ \A o, n : Old!Bind(o, n) <=> New!Bind(o, n)
    /\ \A f, x, n : Old!With(f, x, n) = New!With(f, x, n)
    /\ \A k, a, b : Old!Apply(k, a, b) = New!Apply(k, a, b)
    /\ \A k, a, b : Old!Holds(k, a, b) = New!Holds(k, a, b) /\ Holds(k, a, b) = New!Holds(k, a, b)
    /\ \A x : Old!V(x) = New!V(x)
    /\ Old!ArithKinds = New!ArithKinds /\ Old!IfKinds = New!IfKinds
    /\ IfKinds = New!IfKinds /\ ArithKinds = New!ArithKinds
<1>1. \A o : (Old!Defined(o) <=> New!Defined(o)) /\ Old!Value(o) = New!Value(o)
  BY DEF Old!Defined, New!Defined, Old!Value, New!Value
<1>2. \A o, x : Old!Points(o, x) <=> New!Points(o, x)
  BY <1>1 DEF Old!Points, New!Points
<1>3. /\ \A f, x, n : Old!With(f, x, n) = New!With(f, x, n)
      /\ \A o, n : Old!Bind(o, n) <=> New!Bind(o, n)
  BY DEF Old!Bind, New!Bind, Old!With, New!With
<1>4. \A k, a, b : Old!TruncDiv(a, b) = New!TruncDiv(a, b)
  BY DEF Old!TruncDiv, New!TruncDiv
<1>5. \A k, a, b : Old!Apply(k, a, b) = New!Apply(k, a, b)
  BY <1>4 DEF Old!Apply, New!Apply
<1>6. \A k, a, b : Old!Holds(k, a, b) = New!Holds(k, a, b) /\ Holds(k, a, b) = New!Holds(k, a, b)
  BY DEF Old!Holds, New!Holds, Holds
<1>7. (\A x : Old!V(x) = New!V(x)) /\ Old!ArithKinds = New!ArithKinds /\ Old!IfKinds = New!IfKinds
        /\ IfKinds = New!IfKinds /\ ArithKinds = New!ArithKinds
  BY DEF Old!V, New!V, Old!ArithKinds, New!ArithKinds, Old!IfKinds, New!IfKinds, IfKinds, ArithKinds
<1> QED
  BY <1>1, <1>2, <1>3, <1>5, <1>6, <1>7

(* Past an instruction that does not always jump both go to the next one.   *)
LEMMA OnToNext ==
    ASSUME Stepping, New!Next1, ~AlwaysJumps(Old!Cur)
    PROVE  Old!Next1 /\ Stands(ipc')
<1>1. Stands(ipc + 1) /\ Line(ipc + 1) = Line(ipc) + 1
  BY Here, FallsThrough DEF Stepping, Running
<1>2. ipc' = ipc + 1
  BY DEF New!Next1
<1>3. Line(ipc)' = Line(ipc) + 1
  BY <1>1, <1>2, LineSame DEF Stepping
<1>4. Old!Next1
  BY <1>3, Here DEF Old!Next1
<1> QED
  BY <1>1, <1>2, <1>4

(* Waiting activations stay where they are.                                 *)
LEMMA SameFrames ==
    ASSUME Stepping, frames' = frames
    PROVE  /\ IsStack(frames') /\ \A k \in DOMAIN frames' : Stands(frames'[k].back)
           /\ [k \in DOMAIN frames |-> [frames[k] EXCEPT !.back = Line(@)]]'
                = [k \in DOMAIN frames |-> [frames[k] EXCEPT !.back = Line(@)]]
<1>1. IsStack(frames') /\ \A k \in DOMAIN frames' : Stands(frames'[k].back)
  BY DEF Stepping, Running
<1>2. \A p : Line(p)' = Line(p)
  BY LineSame DEF Stepping
<1> QED
  BY <1>1, <1>2

LEMMA NoJump ==
    ASSUME NEW i \in Inst, i.kind \notin IfKinds \cup {"GOTO"}
    PROVE  ~AlwaysJumps(i)
  BY DEF AlwaysJumps, Folds, IfKinds

(* An instruction that goes to the next one and is no jump is the line of   *)
(* the file.                                                                *)
LEMMA Plainly ==
    ASSUME Stepping, New!Next1, New!Cur.kind \notin IfKinds \cup {"GOTO"}, frames' = frames
    PROVE  New!Cur = Old!Cur /\ Old!Next1 /\ StaysRunning
<1>1. New!Cur = Old!Cur
  BY Here DEF Goto
<1>2. ~AlwaysJumps(Old!Cur)
  BY <1>1, Here, NoJump
<1> QED
  BY <1>1, <1>2, OnToNext, SameFrames DEF StaysRunning

LEMMA PassRuns == ASSUME Stepping, New!Pass PROVE Old!Pass /\ StaysRunning
<1>1. New!Cur.kind \notin IfKinds \cup {"GOTO"}
  BY Here DEF New!Pass, IfKinds
<1>2. New!Cur = Old!Cur /\ Old!Next1 /\ StaysRunning
  BY <1>1, Plainly DEF New!Pass
<1> QED
  BY <1>2, Here, SameFrames DEF New!Pass, Old!Pass

LEMMA ComputeRuns == ASSUME Stepping, New!Compute PROVE Old!Compute /\ StaysRunning
<1>1. New!Cur.kind \notin IfKinds \cup {"GOTO"}
  BY Here DEF New!Compute, IfKinds, New!ArithKinds
<1>2. New!Cur = Old!Cur /\ Old!Next1 /\ StaysRunning
  BY <1>1, Plainly DEF New!Compute
<1> QED
  BY <1>2, Here, SameFrames, SameValues DEF New!Compute, Old!Compute

LEMMA TakeAddressRuns ==
    ASSUME Stepping, NEW a, New!TakeAddress(a) PROVE Old!TakeAddress(a) /\ StaysRunning
<1>1. New!Cur.kind \notin IfKinds \cup {"GOTO"}
  BY Here DEF New!TakeAddress, IfKinds
<1>2. New!Cur = Old!Cur /\ Old!Next1 /\ StaysRunning
  BY <1>1, Plainly DEF New!TakeAddress
<1> QED
  BY <1>2, Here, SameFrames, SameValues DEF New!TakeAddress, Old!TakeAddress

LEMMA ThroughAddressRuns ==
    ASSUME Stepping, New!ThroughAddress PROVE Old!ThroughAddress /\ StaysRunning
<1>1. New!Cur.kind \notin IfKinds \cup {"GOTO"}
  BY Here DEF New!ThroughAddress, IfKinds
<1>2. New!Cur = Old!Cur /\ Old!Next1 /\ StaysRunning
  BY <1>1, Plainly DEF New!ThroughAddress
<1> QED
  BY <1>2, Here, SameFrames, SameValues DEF New!ThroughAddress, Old!ThroughAddress

LEMMA PushArgRuns == ASSUME Stepping, New!PushArg PROVE Old!PushArg /\ StaysRunning
<1>1. New!Cur.kind \notin IfKinds \cup {"GOTO"}
  BY Here DEF New!PushArg, IfKinds
<1>2. New!Cur = Old!Cur /\ Old!Next1 /\ StaysRunning
  BY <1>1, Plainly DEF New!PushArg
<1> QED
  BY <1>2, Here, SameFrames, SameValues DEF New!PushArg, Old!PushArg

LEMMA TakeParamRuns == ASSUME Stepping, New!TakeParam PROVE Old!TakeParam /\ StaysRunning
<1>1. New!Cur.kind \notin IfKinds \cup {"GOTO"}
  BY Here DEF New!TakeParam, IfKinds
<1>2. New!Cur = Old!Cur /\ Old!Next1 /\ StaysRunning
  BY <1>1, Plainly DEF New!TakeParam
<1> QED
  BY <1>2, Here, SameFrames, SameValues DEF New!TakeParam, Old!TakeParam

LEMMA InputRuns == ASSUME Stepping, NEW n, New!Input(n) PROVE Old!Input(n) /\ StaysRunning
<1>1. New!Cur.kind \notin IfKinds \cup {"GOTO"}
  BY Here DEF New!Input, IfKinds
<1>2. New!Cur = Old!Cur /\ Old!Next1 /\ StaysRunning
  BY <1>1, Plainly DEF New!Input
<1> QED
  BY <1>2, Here, SameFrames, SameValues DEF New!Input, Old!Input

LEMMA OutputRuns == ASSUME Stepping, New!Output PROVE Old!Output /\ StaysRunning
<1>1. New!Cur.kind \notin IfKinds \cup {"GOTO"}
  BY Here DEF New!Output, IfKinds
<1>2. New!Cur = Old!Cur /\ Old!Next1 /\ StaysRunning
  BY <1>1, Plainly DEF New!Output
<1> QED
  BY <1>2, Here, SameFrames, SameValues DEF New!Output, Old!Output

(* A GOTO, or an IF with its condition: where the output has the jump for   *)
(* an IF, the file takes it.                                                *)
LEMMA JumpRuns == ASSUME Stepping, New!Jump PROVE Old!Jump /\ StaysRunning
<1>1. PICK l : l = Old!Cur.labelno
  OBVIOUS
<1>2. New!Cur.kind \in IfKinds \cup {"GOTO"}
  BY Here, SameValues DEF New!Jump
<1>3. Old!Cur.kind \in IfKinds \cup {"GOTO"} /\ New!Cur.labelno = l
  BY <1>1, <1>2, Here DEF Goto
<1>4. Stands(New!LabelAt(l)) /\ Line(New!LabelAt(l)) = Old!LabelAt(l)
  BY <1>1, <1>3, LabelLemma, Here DEF Stepping, WellFormed
<1>5. frames' = frames
  BY DEF New!Jump
<1>6. ASSUME ipc' = New!LabelAt(l)
      PROVE  Stands(ipc') /\ (IF prog = <<>> THEN CHOOSE i \in DOMAIN tac : tac[i] = Function("main")
                              ELSE Line(ipc))' = Old!LabelAt(l)
  BY <1>4, <1>6, Here, LineSame DEF Stepping
<1>7. CASE New!Cur.kind = "GOTO"
  <2>1. ipc' = New!LabelAt(l)
    BY <1>3, <1>7, Here, SameValues DEF New!Jump, IfKinds, New!IfKinds
  <2>2. CASE New!Cur = Old!Cur
    BY <1>1, <1>5, <1>6, <1>7, <2>1, <2>2, Here, SameFrames DEF New!Jump, Old!Jump, StaysRunning
  <2>3. CASE /\ Old!Cur.kind \in IfKinds
             /\ Holds(Old!Cur.kind, Old!Cur.c1.int_val, Old!Cur.c2.int_val)
             /\ {Old!Cur.c1.kind, Old!Cur.c2.kind} = {"OP_CONSTANT"}
    <3>1. Old!Cur.c1.kind = "OP_CONSTANT" /\ Old!Cur.c2.kind = "OP_CONSTANT"
      BY <2>3
    <3>2. Old!Defined(Old!Cur.c1) /\ Old!Defined(Old!Cur.c2)
      BY <3>1 DEF Old!Defined
    <3>3. Old!Value(Old!Cur.c1) = Old!Cur.c1.int_val /\ Old!Value(Old!Cur.c2) = Old!Cur.c2.int_val
      BY <3>1 DEF Old!Value
    <3>4. Old!Holds(Old!Cur.kind, Old!Value(Old!Cur.c1), Old!Value(Old!Cur.c2))
      BY <2>3, <3>3, SameValues
    <3>5. Old!Is(Old!IfKinds)
      BY <2>3, Here, SameValues
    <3> QED
      BY <1>1, <1>5, <1>6, <2>1, <3>2, <3>4, <3>5, SameFrames DEF New!Jump, Old!Jump, StaysRunning
  <2> QED
    BY <2>2, <2>3, Here
<1>8. CASE New!Cur.kind \in IfKinds
  <2>1. New!Cur = Old!Cur
    BY <1>8, Here DEF Goto, IfKinds
  <2>2. /\ Old!Is(Old!IfKinds) /\ New!Is(New!IfKinds)
        /\ New!Defined(New!Cur.c1) /\ New!Defined(New!Cur.c2)
        /\ IF New!Holds(New!Cur.kind, New!Value(New!Cur.c1), New!Value(New!Cur.c2))
           THEN ipc' = New!LabelAt(l) ELSE New!Next1
    BY <1>3, <1>8, <2>1, Here, SameValues DEF New!Jump, IfKinds
  <2>3. CASE New!Holds(New!Cur.kind, New!Value(New!Cur.c1), New!Value(New!Cur.c2))
    BY <1>1, <1>5, <1>6, <2>1, <2>2, <2>3, SameFrames, SameValues DEF New!Jump, Old!Jump, StaysRunning
  <2>4. CASE ~New!Holds(New!Cur.kind, New!Value(New!Cur.c1), New!Value(New!Cur.c2))
    <3>1. ~AlwaysJumps(Old!Cur)
      <4>1. Old!Cur.kind # "GOTO"
        BY <1>8, <2>1 DEF IfKinds
      <4>2. ~Folds(Old!Cur)
        <5>1. SUFFICES ASSUME Folds(Old!Cur) PROVE FALSE
          OBVIOUS
        <5>2. /\ Holds(Old!Cur.kind, Old!Cur.c1.int_val, Old!Cur.c2.int_val)
              /\ {Old!Cur.c1.kind, Old!Cur.c2.kind} = {"OP_CONSTANT"}
          BY <5>1, Here, FoldedHolds
        <5>3. Old!Value(Old!Cur.c1) = Old!Cur.c1.int_val /\ Old!Value(Old!Cur.c2) = Old!Cur.c2.int_val
          BY <5>2 DEF Old!Value
        <5> QED
          BY <2>1, <2>4, <5>2, <5>3, SameValues
      <4> QED
        BY <4>1, <4>2 DEF AlwaysJumps
    <3>2. Old!Next1 /\ Stands(ipc')
      BY <2>2, <2>4, <3>1, OnToNext
    <3> QED
      BY <1>5, <2>1, <2>2, <2>4, <3>2, SameFrames, SameValues DEF New!Jump, Old!Jump, StaysRunning
  <2> QED
    BY <2>3, <2>4
<1> QED
  BY <1>2, <1>7, <1>8

-----------------------------------------------------------------------------
(* Suspended activations, as the file sees them.                            *)
Mapped(s) == [k \in DOMAIN s |-> [s[k] EXCEPT !.back = Line(@)]]

LEMMA StackSequence ==
    ASSUME NEW s, IsStack(s)
    PROVE  /\ Len(s) \in Nat /\ DOMAIN s = 1..Len(s)
           /\ \E M : Mapped(s) \in Seq(M)
           /\ Len(Mapped(s)) = Len(s)
<1>1. PICK S : S = {s[k] : k \in DOMAIN s}
  OBVIOUS
<1>2. s \in Seq(S)
  BY <1>1 DEF IsStack
<1>3. Len(s) \in Nat /\ DOMAIN s = 1..Len(s)
  BY <1>2
<1>4. PICK m : m = Mapped(s)
  OBVIOUS
<1>5. PICK M : M = {m[k] : k \in DOMAIN s}
  OBVIOUS
<1>6. m \in [1..Len(s) -> M]
  BY <1>3, <1>4, <1>5 DEF Mapped
<1>7. m \in Seq(M) /\ Len(m) = Len(s)
  BY <1>3, <1>6
<1> QED
  BY <1>3, <1>4, <1>5, <1>7

(* Putting one on, in the output and in the file.                           *)
LEMMA PushMapped ==
    ASSUME NEW s, IsStack(s), NEW f, IsFrame(f)
    PROVE  /\ IsStack(<<f>> \o s)
           /\ \A k \in DOMAIN (<<f>> \o s) : (<<f>> \o s)[k] = f \/ \E j \in DOMAIN s : (<<f>> \o s)[k] = s[j]
           /\ Mapped(<<f>> \o s) = <<[f EXCEPT !.back = Line(@)]>> \o Mapped(s)
<1>1. PICK g : g = [f EXCEPT !.back = Line(@)]
  OBVIOUS
<1>2. PICK m : m = Mapped(s)
  OBVIOUS
<1>3. PICK S : S = {s[k] : k \in DOMAIN s} \cup {f}
  OBVIOUS
<1>4. PICK N : m \in Seq(N)
  BY <1>2, StackSequence
<1>5. s \in Seq(S) /\ Len(s) \in Nat /\ DOMAIN s = 1..Len(s)
  <2>1. PICK T : T = {s[k] : k \in DOMAIN s}
    OBVIOUS
  <2>2. s \in Seq(T) /\ T \subseteq S
    BY <1>3, <2>1 DEF IsStack
  <2> QED
    BY <2>2
<1>6. PICK M : M = N \cup {g} /\ m \in Seq(M) /\ Len(m) = Len(s)
  <2>1. PICK M : M = N \cup {g}
    OBVIOUS
  <2>2. m \in Seq(M)
    BY <1>4, <2>1
  <2> QED
    BY <1>2, <2>1, <2>2, StackSequence
<1>7. PICK t : t = <<f>> \o s
  OBVIOUS
<1>8. PICK u : u = <<g>> \o m
  OBVIOUS
<1>9. /\ t \in Seq(S) /\ Len(t) = 1 + Len(s)
      /\ \A k \in 1..1 + Len(s) : t[k] = IF k = 1 THEN f ELSE s[k - 1]
  BY <1>3, <1>5, <1>7
<1>10. /\ u \in Seq(M) /\ Len(u) = 1 + Len(s)
       /\ \A k \in 1..1 + Len(s) : u[k] = IF k = 1 THEN g ELSE m[k - 1]
  BY <1>6, <1>8
<1>11. DOMAIN t = 1..1 + Len(s) /\ DOMAIN u = 1..1 + Len(s)
  BY <1>5, <1>9, <1>10
<1>12. \A k \in DOMAIN t : t[k] = f \/ \E j \in DOMAIN s : t[k] = s[j]
  BY <1>5, <1>9, <1>11
<1>13. IsStack(t)
  <2>1. PICK T : T = {t[k] : k \in DOMAIN t}
    OBVIOUS
  <2>2. t \in [1..1 + Len(s) -> T]
    BY <1>9, <1>11, <2>1
  <2>3. t \in Seq(T)
    BY <1>5, <2>2
  <2> QED
    BY <1>12, <2>1, <2>3 DEF IsStack
<1>14. Mapped(t) = u
  <2>1. \A k \in DOMAIN t : [t[k] EXCEPT !.back = Line(@)] = u[k]
    <3>1. SUFFICES ASSUME NEW k \in 1..1 + Len(s) PROVE [t[k] EXCEPT !.back = Line(@)] = u[k]
      BY <1>11
    <3>2. CASE k = 1
      BY <1>1, <1>9, <1>10, <3>2
    <3>3. CASE k # 1
      <4>1. k - 1 \in DOMAIN s /\ t[k] = s[k - 1] /\ u[k] = m[k - 1]
        BY <1>5, <1>9, <1>10, <3>3
      <4> QED
        BY <1>2, <4>1 DEF Mapped
    <3> QED
      BY <3>2, <3>3
  <2>2. u = [k \in DOMAIN u |-> u[k]]
    BY <1>10
  <2> QED
    BY <1>11, <2>1, <2>2 DEF Mapped
<1> QED
  BY <1>1, <1>2, <1>7, <1>8, <1>12, <1>13, <1>14

(* Taking one off.                                                          *)
LEMMA PopMapped ==
    ASSUME NEW s, IsStack(s), s # <<>>
    PROVE  /\ IsStack(Tail(s)) /\ IsFrame(Head(s))
           /\ \E j \in DOMAIN s : Head(s) = s[j]
           /\ \A k \in DOMAIN Tail(s) : \E j \in DOMAIN s : Tail(s)[k] = s[j]
           /\ Mapped(s) # <<>>
           /\ Head(Mapped(s)) = [Head(s) EXCEPT !.back = Line(@)]
           /\ Tail(Mapped(s)) = Mapped(Tail(s))
<1>1. PICK m : m = Mapped(s)
  OBVIOUS
<1>2. PICK S : S = {s[k] : k \in DOMAIN s}
  OBVIOUS
<1>3. PICK M : m \in Seq(M)
  BY <1>1, StackSequence
<1>4. s \in Seq(S) /\ Len(s) \in Nat /\ DOMAIN s = 1..Len(s)
  BY <1>2, StackSequence DEF IsStack
<1>5. m \in Seq(M) /\ Len(m) = Len(s)
  BY <1>1, <1>3, StackSequence
<1>6. Len(s) > 0 /\ 1 \in DOMAIN s /\ m # <<>>
  BY <1>4, <1>5
<1>7. PICK t : t = Tail(s)
  OBVIOUS
<1>8. PICK u : u = Tail(m)
  OBVIOUS
<1>9. t \in Seq(S) /\ Len(t) = Len(s) - 1 /\ \A k \in 1..Len(s) - 1 : t[k] = s[k + 1]
  BY <1>4, <1>6, <1>7
<1>10. u \in Seq(M) /\ Len(u) = Len(s) - 1 /\ \A k \in 1..Len(s) - 1 : u[k] = m[k + 1]
  BY <1>5, <1>6, <1>4, <1>8
<1>11. /\ DOMAIN t = 1..Len(s) - 1 /\ DOMAIN u = 1..Len(s) - 1
       /\ \A k \in 1..Len(s) - 1 : k + 1 \in DOMAIN s
  BY <1>4, <1>9, <1>10
<1>12. \A k \in DOMAIN t : \E j \in DOMAIN s : t[k] = s[j]
  BY <1>9, <1>11
<1>13. IsStack(t)
  <2>1. PICK T : T = {t[k] : k \in DOMAIN t}
    OBVIOUS
  <2>2. t \in [1..Len(s) - 1 -> T]
    BY <1>9, <1>11, <2>1
  <2>3. t \in Seq(T)
    <3>1. Len(s) - 1 \in Nat
      BY <1>4, <1>6
    <3> QED
      BY <2>2, <3>1
  <2> QED
    BY <1>12, <2>1, <2>3 DEF IsStack
<1>14. Mapped(t) = u
  <2>1. \A k \in DOMAIN t : [t[k] EXCEPT !.back = Line(@)] = u[k]
    BY <1>1, <1>9, <1>10, <1>11 DEF Mapped
  <2>2. u = [k \in DOMAIN u |-> u[k]]
    BY <1>10
  <2> QED
    BY <1>11, <2>1, <2>2 DEF Mapped
<1>15. Head(s) = s[1] /\ Head(m) = m[1]
  BY <1>4, <1>5, <1>6
<1>16. m[1] = [s[1] EXCEPT !.back = Line(@)]
  BY <1>1, <1>6 DEF Mapped
<1> QED
  <2>1. IsStack(Tail(s)) /\ \A k \in DOMAIN Tail(s) : \E j \in DOMAIN s : Tail(s)[k] = s[j]
    BY <1>7, <1>12, <1>13
  <2>2. IsFrame(Head(s)) /\ \E j \in DOMAIN s : Head(s) = s[j]
    BY <1>6, <1>15 DEF IsStack
  <2>3. Mapped(s) # <<>> /\ Head(Mapped(s)) = [Head(s) EXCEPT !.back = Line(@)]
    BY <1>1, <1>6, <1>15, <1>16
  <2>4. Tail(Mapped(s)) = Mapped(Tail(s))
    BY <1>1, <1>7, <1>8, <1>14
  <2> QED
    BY <2>1, <2>2, <2>3, <2>4

LEMMA MappedLater ==
    ASSUME Stepping
    PROVE  [k \in DOMAIN frames |-> [frames[k] EXCEPT !.back = Line(@)]]' = Mapped(frames')
<1>1. \A p : Line(p)' = Line(p)
  BY LineSame DEF Stepping
<1> QED
  BY <1>1 DEF Mapped

(* CALL comes back, in the output and in the file, to the next line.         *)
LEMMA EnterRuns == ASSUME Stepping, New!Enter PROVE Old!Enter /\ StaysRunning
<1>1. New!Cur.kind = "CALL"
  BY Here DEF New!Enter
<1>2. New!Cur = Old!Cur
  BY <1>1, Here DEF Goto
<1>3. ~AlwaysJumps(Old!Cur)
  BY <1>1, <1>2, Here, NoJump DEF IfKinds
<1>4. Stands(ipc + 1) /\ Line(ipc + 1) = Line(ipc) + 1
  BY <1>3, Here, FallsThrough DEF Stepping, Running
<1>5. PICK f : f = New!Cur.funcname
  OBVIOUS
<1>6. Stands(New!FunctionAt(f)) /\ Line(New!FunctionAt(f)) = Old!FunctionAt(f)
  BY <1>1, <1>2, <1>5, Here, FunctionLemma DEF Stepping, WellFormed
<1>7. ipc' = New!FunctionAt(f)
  BY <1>5 DEF New!Enter
<1>8. (IF prog = <<>> THEN CHOOSE i \in DOMAIN tac : tac[i] = Function("main") ELSE Line(ipc))'
        = Old!FunctionAt(f)
  BY <1>6, <1>7, Here, LineSame DEF Stepping
<1>9. PICK r : r = [ret |-> New!Cur.ret, back |-> ipc + 1, env |-> env, loc |-> loc, actuals |-> actuals]
  OBVIOUS
<1>10. IsFrame(r) /\ r.back = ipc + 1
  BY <1>9 DEF IsFrame
<1>11. [r EXCEPT !.back = Line(@)]
         = [ret |-> New!Cur.ret, back |-> Line(ipc) + 1, env |-> env, loc |-> loc, actuals |-> actuals]
  BY <1>4, <1>9
<1>12. frames' = <<r>> \o frames
  BY <1>9 DEF New!Enter
<1>13. /\ IsStack(<<r>> \o frames)
       /\ \A k \in DOMAIN (<<r>> \o frames) : Stands((<<r>> \o frames)[k].back)
       /\ Mapped(<<r>> \o frames) = <<[r EXCEPT !.back = Line(@)]>> \o Mapped(frames)
  <2>1. IsStack(frames) /\ \A k \in DOMAIN frames : Stands(frames[k].back)
    BY DEF Stepping, Running
  <2>2. /\ IsStack(<<r>> \o frames)
        /\ \A k \in DOMAIN (<<r>> \o frames) :
             (<<r>> \o frames)[k] = r \/ \E j \in DOMAIN frames : (<<r>> \o frames)[k] = frames[j]
        /\ Mapped(<<r>> \o frames) = <<[r EXCEPT !.back = Line(@)]>> \o Mapped(frames)
    BY <1>10, <2>1, PushMapped
  <2> QED
    BY <1>4, <1>10, <2>1, <2>2
<1>14. [k \in DOMAIN frames |-> [frames[k] EXCEPT !.back = Line(@)]]'
         = <<[ret |-> New!Cur.ret, back |-> Line(ipc) + 1, env |-> env, loc |-> loc, actuals |-> actuals]>>
             \o Mapped(frames)
  BY <1>11, <1>12, <1>13, MappedLater
<1>15. StaysRunning
  BY <1>6, <1>7, <1>12, <1>13 DEF StaysRunning
<1> QED
  BY <1>1, <1>2, <1>5, <1>8, <1>14, <1>15, Here DEF New!Enter, Old!Enter, Mapped

(* RETURN goes on with the newest activation that waits.                    *)
LEMMA LeaveRuns == ASSUME Stepping, New!Leave PROVE Old!Leave /\ StaysRunning
<1>1. New!Cur.kind = "RETURN"
  BY Here DEF New!Leave
<1>2. New!Cur = Old!Cur
  BY <1>1, Here DEF Goto
<1>3. New!Defined(New!Cur.var) /\ Old!Defined(New!Cur.var) /\ Old!Is({"RETURN"})
  BY <1>1, <1>2, Here, SameValues DEF New!Leave
<1>4. IsStack(frames) /\ \A k \in DOMAIN frames : Stands(frames[k].back)
  BY DEF Stepping, Running
<1>5. PICK v : v = New!Value(New!Cur.var) /\ v = Old!Value(New!Cur.var)
  BY SameValues
<1>6. CASE frames = <<>>
  <2>1. ipc' = 0 /\ UNCHANGED <<env, loc, actuals, frames, pending, wrote>>
    BY <1>6 DEF New!Leave
  <2>2. Line(ipc)' = 0
    <3>1. Line(0) = 0
      BY LineCases DEF Stepping, OInv
    <3> QED
      BY <2>1, <3>1, LineSame DEF Stepping
  <2>3. (IF prog = <<>> THEN CHOOSE i \in DOMAIN tac : tac[i] = Function("main") ELSE Line(ipc))' = 0
    BY <2>2, Here
  <2>4. [k \in DOMAIN frames |-> [frames[k] EXCEPT !.back = Line(@)]] = <<>>
    BY <1>6
  <2>5. StaysRunning
    BY <2>1, SameFrames DEF StaysRunning
  <2> QED
    BY <1>2, <1>3, <2>1, <2>3, <2>4, <2>5, SameFrames DEF Old!Leave
<1>7. CASE frames # <<>>
  <2>1. PICK f : f = Head(frames)
    OBVIOUS
  <2>2. PICK g : g = [f EXCEPT !.back = Line(@)]
    OBVIOUS
  <2>3. PICK m : m = Mapped(frames)
    OBVIOUS
  <2>4. /\ IsStack(Tail(frames)) /\ IsFrame(f)
        /\ \E j \in DOMAIN frames : f = frames[j]
        /\ \A k \in DOMAIN Tail(frames) : \E j \in DOMAIN frames : Tail(frames)[k] = frames[j]
        /\ m # <<>> /\ Head(m) = g /\ Tail(m) = Mapped(Tail(frames))
    BY <1>4, <1>7, <2>1, <2>2, <2>3, PopMapped
  <2>5. /\ f.ret = g.ret /\ f.env = g.env /\ f.loc = g.loc /\ f.actuals = g.actuals
        /\ g.back = Line(f.back)
    BY <2>2, <2>4 DEF IsFrame
  <2>6. /\ loc' = f.loc /\ actuals' = f.actuals
        /\ ipc' = f.back /\ frames' = Tail(frames) /\ UNCHANGED <<pending, wrote>>
    BY <1>5, <1>7, <2>1 DEF New!Leave
  <2>7. Stands(f.back)
    BY <1>4, <2>4
  <2>8. (IF prog = <<>> THEN CHOOSE i \in DOMAIN tac : tac[i] = Function("main") ELSE Line(ipc))' = g.back
    BY <2>5, <2>6, Here, LineSame DEF Stepping
  <2>9. [k \in DOMAIN frames |-> [frames[k] EXCEPT !.back = Line(@)]]' = Tail(m)
    BY <2>4, <2>6, MappedLater
  <2>10. StaysRunning
    BY <1>4, <2>4, <2>6, <2>7 DEF StaysRunning
  <2> QED
    BY <1>2, <1>3, <1>5, <1>7, <2>1, <2>3, <2>4, <2>5, <2>6, <2>8, <2>9, <2>10, SameValues DEF New!Leave, Old!Leave, Mapped
<1> QED
  BY <1>6, <1>7

LEMMA RunsAlike ==
    ASSUME Stepping, NEW n, NEW a, New!Run(n, a)
    PROVE  Old!Run(n, a) /\ StaysRunning
<1>1. UNCHANGED tac
  BY DEF Stepping, ovars
<1> QED
  BY <1>1, PassRuns, ComputeRuns, TakeAddressRuns, ThroughAddressRuns, JumpRuns, PushArgRuns,
     TakeParamRuns, EnterRuns, LeaveRuns, InputRuns, OutputRuns DEF New!Run, Old!Run

-----------------------------------------------------------------------------
(* The first line of the file that is run.                                  *)
LEMMA MainLemma ==
    ASSUME tac \in Seq(Inst), WellFormed(tac)
    PROVE  Old!FunctionAt("main") = CHOOSE i \in DOMAIN tac : tac[i] = Function("main")
<1>1. \A i \in DOMAIN tac :
         tac[i] = Function("main") <=> tac[i].kind = "FUNCTION" /\ tac[i].funcname = "main"
  <2>1. \A i \in DOMAIN tac : tac[i] \in Inst
    OBVIOUS
  <2> QED
    BY <2>1, LabelParts DEF Function
<1>2. PICK j \in DOMAIN tac : tac[j] = Function("main")
  BY DEF WellFormed
<1>3. \A i \in DOMAIN tac : tac[i] = Function("main") => i = j
  BY <1>2 DEF WellFormed, Function
<1>4. (CHOOSE i \in DOMAIN tac : tac[i] = Function("main")) = j
  BY <1>2, <1>3
<1>5. Old!FunctionAt("main") = j
  BY <1>1, <1>2, <1>3 DEF Old!FunctionAt
<1> QED
  BY <1>4, <1>5

LEMMA LoadRuns ==
    ASSUME RInv, Load
    PROVE  Idle /\ UNCHANGED Old!ivars /\ Running'
<1>1. Idle
  BY LoadedLemma DEF RInv, Load
<1>2. PICK j \in DOMAIN tac : tac[j] = Function("main")
  BY DEF RInv, WellFormed
<1>3. tac[j].kind = "FUNCTION" /\ tac \in Seq(Inst)
  BY <1>2 DEF Function, RInv, OInv, OptTypeOK
<1>4. PICK p \in DOMAIN out :
        /\ out[p].ins = Function("main") /\ Line(p) = j
        /\ \A q \in DOMAIN out : out[q].ins = Function("main") => q = p
  BY <1>2, <1>3, CopiedOnce DEF RInv, Load
<1>5. ipc' = p /\ UNCHANGED ovars
  BY <1>4 DEF Load
<1>6. (CHOOSE i \in DOMAIN tac : tac[i] = Function("main")) = j
  <2>1. \A i \in DOMAIN tac : tac[i] = Function("main") => i = j
    BY <1>2, <1>3 DEF RInv, WellFormed
  <2> QED
    BY <1>2, <2>1
<1>7. prog' # <<>>
  <2>1. p \in DOMAIN prog'
    BY <1>4 DEF Load
  <2>2. SUFFICES ASSUME prog' = <<>> PROVE FALSE
    OBVIOUS
  <2>3. DOMAIN prog' = {}
    BY <2>2
  <2> QED
    BY <2>1, <2>3
<1>8. Line(ipc)' = j
  BY <1>4, <1>5, LineSame
<1>9. (IF prog = <<>> THEN CHOOSE i \in DOMAIN tac : tac[i] = Function("main") ELSE Line(ipc))'
        = IF prog = <<>> THEN CHOOSE i \in DOMAIN tac : tac[i] = Function("main") ELSE Line(ipc)
  BY <1>1, <1>6, <1>7, <1>8 DEF Idle
<1>10. UNCHANGED Old!ivars
  <2>1. frames = <<>> /\ frames' = <<>>
    BY <1>1 DEF Idle, Load
  <2> QED
    BY <1>5, <1>9, <2>1 DEF Old!ivars, Load, ovars
<1>11. Stands(p)
  <2>1. ~BehindJump(j)
    BY <1>3 DEF RInv, WellFormed, BehindJump
  <2> QED
    BY <1>4, <2>1, LineCases DEF RInv, OInv, Stands, Live
<1>12. Running'
  <2>1. at' > Len(tac') /\ out' # <<>>
    BY <1>4, <1>5 DEF Load, ovars
  <2>2. prog' = [q \in DOMAIN out' |-> out'[q].ins]
    BY <1>5 DEF Load, ovars
  <2>3. Stands(ipc)'
    BY <1>5, <1>11, LineSame
  <2>4. frames' = <<>>
    BY <1>1 DEF Idle, Load
  <2>5. IsStack(frames)'
    BY <2>4 DEF IsStack
  <2>6. \A k \in DOMAIN frames' : Stands(frames[k].back)'
    BY <2>4
  <2> QED
    BY <2>1, <2>2, <2>3, <2>5, <2>6 DEF Running
<1> QED
  BY <1>1, <1>10, <1>12

LEMMA InitRInv == Init => RInv
<1> SUFFICES ASSUME Init PROVE RInv
  OBVIOUS
<1> QED
  BY InitOInv, OptimizedAssumption DEF Init, OptInit, RInv, Idle

(* Each step is a step of the file, or none.                                *)
LEMMA StepRInv ==
    ASSUME RInv, [Next]_vars
    PROVE  RInv' /\ [OldSteps]_(Old!ivars)
<1>1. CASE UNCHANGED vars
  <2>1. UNCHANGED <<ovars, mvars>>
    BY <1>1 DEF vars
  <2>2. OInv'
    BY <2>1, StepOInv DEF RInv
  <2>3. WellFormed(tac)' /\ (Idle <=> Idle')
    BY <2>1 DEF RInv, Idle, mvars, ovars, WellFormed
  <2>4. Running => Running'
    BY <2>1, LineSame DEF Running, mvars, ovars, IsStack
  <2>5. UNCHANGED Old!ivars
    BY <2>1, LineSame DEF Old!ivars, mvars, ovars
  <2> QED
    BY <2>2, <2>3, <2>4, <2>5 DEF RInv
<1>2. CASE Optimizing /\ UNCHANGED mvars
  <2>1. OInv' /\ tac' = tac /\ at \in DOMAIN tac
    BY <1>2, StepOInv, StepShape DEF RInv, OInv
  <2>2. Idle
    BY <2>1, LineCases DEF RInv, Running, OInv
  <2>3. Idle' /\ WellFormed(tac)'
    BY <1>2, <2>1, <2>2 DEF Idle, mvars, RInv, WellFormed
  <2>4. UNCHANGED Old!ivars
    BY <1>2, <2>1, <2>2, <2>3 DEF Idle, mvars, Old!ivars
  <2> QED
    BY <2>1, <2>3, <2>4 DEF RInv
<1>3. CASE Load
  <2>1. OInv' /\ WellFormed(tac)'
    BY <1>3, StepOInv DEF RInv, Load, ovars, WellFormed
  <2> QED
    BY <1>3, <2>1, LoadRuns DEF RInv
<1>4. CASE RunNew
  <2>1. Running /\ OInv'
    BY <1>4, StepOInv DEF RInv, RunNew, Idle
  <2>2. PICK n \in Inputs, a \in Places : New!Run(n, a)
    BY <1>4 DEF RunNew
  <2>3. Stepping
    BY <1>4, <2>1, <2>2 DEF RInv, RunNew, New!Run, Stepping
  <2>4. Old!Run(n, a) /\ StaysRunning
    BY <2>2, <2>3, RunsAlike
  <2>5. WellFormed(tac)'
    BY <2>3 DEF Stepping, ovars, WellFormed
  <2>6. Running'
    BY <2>3, <2>4, LineSame DEF Stepping, Running, StaysRunning, ovars, IsStack
  <2> QED
    BY <2>1, <2>4, <2>5, <2>6 DEF RInv, OldSteps
<1> QED
  BY <1>1, <1>2, <1>3, <1>4 DEF Next, Stopped

(* Every run of the optimized file is a run of the file that was read: it   *)
(* takes the same branches, computes the same values, calls the same        *)
(* functions and writes the same numbers.                                   *)
THEOREM OptimizerKeepsRuns == Spec => RunsOriginal
<1>1. Init => Old!Start
  <2> SUFFICES ASSUME Init PROVE Old!Start
    OBVIOUS
  <2>1. tac \in Seq(Inst) /\ WellFormed(tac)
    BY OptimizeAssumption, OptimizedAssumption DEF Init, OptInit
  <2> QED
    BY <2>1, MainLemma DEF Init, Old!Start
<1>2. RInv /\ [Next]_vars => RInv' /\ [OldSteps]_(Old!ivars)
  BY StepRInv
<1> QED
  BY <1>1, <1>2, InitRInv, PTL DEF Spec, RunsOriginal
=============================================================================
