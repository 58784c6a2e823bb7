---------------------------- MODULE BackEndProofs ----------------------------
(***************************************************************************)
(* The assembly of a list runs as the list does, whatever the list: it is  *)
(* in step with it at every instruction, its words hold the variables, its *)
(* stack the pending arguments, and it prints what the list writes.        *)
(*                                                                         *)
(* The comparison is made at the first line of an instruction, so none of  *)
(* the properties is inductive.  BackInv adds                              *)
(*   - the layout of the text (MipsGenProofs): which lines are where;      *)
(*   - for each suspended activation, the words of its variables and its   *)
(*     return address in a frame below its base (Saved), the bases being   *)
(*     those of some function B: a frame begins where the callee's base is;*)
(*   - the arguments a call has pushed and those not yet taken (Stack,     *)
(*     Given), and why nothing else is on the stack (Live);                *)
(*   - how far the lines of the current instruction have come (Phase): the *)
(*     values in registers, the words saved or restored so far.            *)
(* A fault is not excluded: a run may need more stack than there is, and   *)
(* an address may be computed from any number.  A step that faults ends it.*)
(***************************************************************************)
EXTENDS BackEnd, MipsGenProofs, FiniteSetTheorems, TLAPS

-----------------------------------------------------------------------------
(* The text the machine runs.                                              *)

Built == LayInv /\ gen = "done"

Size == Len(data)
Frame == 4 * Size + 4

(* What holds of the lists once the generator is done.                     *)
LEMMA BuiltFacts ==
    ASSUME Built
    PROVE  /\ tac \in Seq(Inst) /\ Len(tac) \in Nat /\ DOMAIN tac = 1..Len(tac) /\ Supported(tac)
           /\ data \in Seq(Var) /\ Size \in Nat /\ DOMAIN data = 1..Size
           /\ all_variables = data /\ all_variables_count = Size /\ FrameSize = Frame /\ RaOffset = 4 * Size
           /\ \A j, k \in 1..Size : data[j] = data[k] => j = k
           /\ IsSeq(text) /\ Len(text) \in Nat /\ DOMAIN text = 1..Len(text)
           /\ \E first : Layout(first, Len(tac) + 1)
<1>1. tac \in Seq(Inst) /\ data \in Seq(Var) /\ all_variables = data /\ all_variables_count = Len(all_variables)
  BY DEF Built, LayInv, IInv, GenTypeOK, FrameFits
<1>2. Supported(tac) /\ IsSeq(text) /\ \E first : Layout(first, Len(tac) + 1)
  BY DEF Built, LayInv, LaidOut
<1>3. \A j, k \in DOMAIN data : data[j] = data[k] => j = k
  BY <1>1 DEF Built, LayInv, IInv, OneLabelEach
<1>4. Len(text) \in Nat /\ DOMAIN text = 1..Len(text)
  BY <1>2, IsSeqLemma
<1> QED
  BY <1>1, <1>2, <1>3, <1>4 DEF Size, Frame, FrameSize, RaOffset

(* Counting lines finds the place of an instruction.                       *)
LEMMA PosIsFirst ==
    ASSUME Built, NEW first, Layout(first, Len(tac) + 1)
    PROVE  Pos = first
<1> DEFINE n == Len(tac) + 1
<1>1. n \in Nat /\ n >= 1 /\ Len(text) \in Nat /\ DOMAIN text = 1..Len(text)
  BY BuiltFacts
<1>2. /\ first \in [1..n -> Nat] /\ first[1] = 10 /\ first[n] = Len(text) + 1
      /\ \A j, k \in 1..n : j <= k => first[j] <= first[k]
      /\ \A k \in 1..9 : text[k] = Runtime[k]
      /\ \A k \in DOMAIN text : k > 9 =>
            text[k].of \in 1..n - 1 /\ first[text[k].of] <= k /\ k < first[text[k].of + 1]
  BY RuntimeLemma DEF Layout
<1>3. \A k \in 1..9 : text[k].of = 0
  <2>1. \A k \in 1..9 : Runtime[k].of = 0
    <3>1. \A k \in 1..9 : k \in {1, 2, 3, 4, 5, 6, 7, 8, 9}
      OBVIOUS
    <3>2. \A i \in {1, 2, 3, 4, 5, 6, 7, 8, 9} : Runtime[i].of = 0
      BY RuntimeLemma
    <3> QED
      BY <3>1, <3>2
  <2> QED
    BY <1>2, <2>1
<1> HIDE DEF n
<1>4. ASSUME NEW i \in 1..n
      PROVE  1 + Cardinality({k \in DOMAIN text : text[k].of < i}) = first[i]
  <2>1. first[i] \in Nat /\ 10 <= first[i] /\ first[i] <= Len(text) + 1
    BY <1>1, <1>2
  <2>2. {k \in DOMAIN text : text[k].of < i} = 1..first[i] - 1
    <3>1. ASSUME NEW k \in DOMAIN text, text[k].of < i
          PROVE  k \in 1..first[i] - 1
      <4>1. CASE k > 9
        <5>1. PICK j \in 1..n - 1 : j = text[k].of
          BY <1>2, <4>1
        <5>2. j + 1 \in 1..n /\ j + 1 <= i
          BY <1>1, <3>1, <5>1
        <5>3. first[j + 1] <= first[i] /\ k < first[j + 1] /\ first[j + 1] \in Nat
          BY <1>2, <4>1, <5>1, <5>2
        <5> QED
          BY <1>1, <2>1, <5>3
      <4> QED
        BY <1>1, <2>1, <4>1
    <3>2. ASSUME NEW k \in 1..first[i] - 1
          PROVE  k \in DOMAIN text /\ text[k].of < i
      <4>0. k \in DOMAIN text
        BY <1>1, <2>1
      <4>1. CASE k > 9
        <5>1. PICK j \in 1..n - 1 : j = text[k].of
          BY <1>2, <4>0, <4>1
        <5>4. first[text[k].of] <= k
          BY <1>2, <4>0, <4>1
        <5>5. j \in 1..n /\ first[j] <= k
          BY <1>1, <5>1, <5>4
        <5>2. j \in 1..n /\ first[j] <= k /\ first[j] \in Nat
          BY <1>2, <5>5
        <5>3. ~(i <= j)
          <6> SUFFICES ASSUME i <= j PROVE FALSE
            OBVIOUS
          <6>1. first[i] <= first[j]
            BY <1>2, <5>2
          <6> QED
            BY <2>1, <5>2, <6>1
        <5>6. j \in Nat /\ i \in Nat
          BY <1>1, <5>2
        <5>7. j < i
          BY <5>3, <5>6
        <5> QED
          BY <4>0, <5>1, <5>7
      <4>2. CASE ~(k > 9)
        <5>1. k \in 1..9 /\ 0 < i
          BY <1>1, <4>0, <4>2
        <5> QED
          BY <1>3, <4>0, <5>1
      <4> QED
        BY <4>1, <4>2
    <3> QED
      BY <3>1, <3>2
  <2>3. PICK m \in Nat : m = first[i] - 1
    BY <2>1
  <2>4. m >= 1 /\ 1 + m = first[i]
    BY <2>1, <2>3
  <2>5. Cardinality(1..m) = IF 1 > m THEN 0 ELSE m - 1 + 1
    BY FS_Interval
  <2>6. Cardinality(1..m) = m
    BY <2>4, <2>5
  <2>7. {k \in DOMAIN text : text[k].of < i} = 1..m
    BY <2>2, <2>3
  <2>8. Cardinality({k \in DOMAIN text : text[k].of < i}) = m
    BY <2>6, <2>7, Zenon
  <2> QED
    BY <2>4, <2>8
<1>5. Pos = [i \in 1..n |-> first[i]]
  BY <1>4 DEF Pos, n
<1> QED
  BY <1>2, <1>5

(* The lines of instruction i begin at Pos[i] and end before Pos[i + 1].   *)
LEMMA PosFacts ==
    ASSUME Built
    PROVE  /\ \A i \in 1..Len(tac) + 1 : Pos[i] \in Nat /\ Pos[i] >= 10
           /\ Pos[1] = 10 /\ Pos[Len(tac) + 1] = Len(text) + 1
           /\ \A j, k \in 1..Len(tac) + 1 : j <= k => Pos[j] <= Pos[k]
           /\ \A i \in DOMAIN tac :
                /\ Len(Lines(i)) \in Nat /\ Pos[i + 1] = Pos[i] + Len(Lines(i))
                /\ \A k \in 1..Len(Lines(i)) : /\ Pos[i] + k - 1 \in DOMAIN text
                                               /\ text[Pos[i] + k - 1] = [of |-> i, ins |-> Lines(i)[k]]
           /\ \A k \in 1..9 : k \in DOMAIN text /\ text[k] = Runtime[k]
           /\ \A k \in DOMAIN text : k > 9 =>
                text[k].of \in DOMAIN tac /\ Pos[text[k].of] <= k /\ k < Pos[text[k].of + 1]
<1>1. PICK first : Layout(first, Len(tac) + 1)
  BY BuiltFacts
<1>2. Pos = first
  BY <1>1, PosIsFirst
<1>3. PICK n : n = Len(tac) + 1
  OBVIOUS
<1>4. n \in Nat /\ n >= 1 /\ DOMAIN tac = 1..n - 1 /\ Len(text) \in Nat /\ DOMAIN text = 1..Len(text)
  BY <1>3, BuiltFacts
<1>5. /\ Pos \in [1..n -> Nat] /\ Pos[1] = 10 /\ Pos[n] = Len(text) + 1
      /\ \A j, k \in 1..n : j <= k => Pos[j] <= Pos[k]
      /\ \A k \in 1..9 : text[k] = Runtime[k]
      /\ \A k \in DOMAIN text : k > 9 =>
            text[k].of \in 1..n - 1 /\ Pos[text[k].of] <= k /\ k < Pos[text[k].of + 1]
      /\ \A j \in 1..n - 1 :
            /\ Pos[j + 1] = Pos[j] + Len(Lines(j))
            /\ \A k \in 1..Len(Lines(j)) : text[Pos[j] + k - 1] = [of |-> j, ins |-> Lines(j)[k]]
  BY <1>1, <1>2, <1>3, RuntimeLemma DEF Layout
<1>6. \A i \in 1..n : Pos[i] \in Nat /\ Pos[i] >= 10 /\ Pos[i] <= Len(text) + 1
  BY <1>4, <1>5
<1>7. ASSUME NEW i \in DOMAIN tac, NEW k \in 1..Len(Lines(i))
      PROVE  Pos[i] + k - 1 \in DOMAIN text
  <2>1. IsSeq(Lines(i))
    BY LinesAreSeq DEF Built, LayInv
  <2>2. Len(Lines(i)) \in Nat
    BY <2>1, IsSeqLemma
  <2>3. i \in 1..n - 1 /\ i \in 1..n /\ i + 1 \in 1..n
    BY <1>4
  <2>4. Pos[i + 1] <= Len(text) + 1 /\ Pos[i] >= 10 /\ Pos[i] \in Nat
    BY <1>6, <2>3
  <2>5. Pos[i + 1] = Pos[i] + Len(Lines(i))
    BY <1>5, <2>3
  <2>6. PICK a, b, c \in Nat : a = Pos[i] /\ b = Len(Lines(i)) /\ c = Len(text)
    BY <1>4, <2>2, <2>4
  <2>7. a + b <= c + 1 /\ a >= 10 /\ k \in 1..b
    BY <2>4, <2>5, <2>6
  <2>8. a + k - 1 \in 1..c
    BY <2>7
  <2> QED
    BY <1>4, <2>6, <2>8
<1>8. \A i \in DOMAIN tac : Len(Lines(i)) \in Nat
  BY LinesAreSeq, IsSeqLemma DEF Built, LayInv
<1>9. \A k \in 1..9 : k \in DOMAIN text
  BY <1>4, <1>6
<1> QED
  BY <1>3, <1>4, <1>5, <1>6, <1>7, <1>8, <1>9

(* The o-th line of instruction i, from 0.                                 *)
LEMMA LineAt ==
    ASSUME Built, NEW i \in DOMAIN tac, NEW o \in Nat, o < Len(Lines(i))
    PROVE  /\ Pos[i] + o \in DOMAIN text /\ text[Pos[i] + o].of = i
           /\ text[Pos[i] + o].ins = Lines(i)[o + 1]
<1>1. PICK k \in 1..Len(Lines(i)) : k = o + 1
  BY PosFacts
<1>2. Pos[i] + k - 1 \in DOMAIN text /\ text[Pos[i] + k - 1] = [of |-> i, ins |-> Lines(i)[k]]
  BY PosFacts
<1>3. Pos[i] + k - 1 = Pos[i] + o
  <2>1. i \in 1..Len(tac) + 1
    BY BuiltFacts
  <2>2. Pos[i] \in Nat
    BY <2>1, PosFacts
  <2> QED
    BY <1>1, <2>2
<1>4. PICK t : t = text[Pos[i] + o]
  OBVIOUS
<1>5. t = [of |-> i, ins |-> Lines(i)[k]]
  BY <1>2, <1>3, <1>4
<1> QED
  BY <1>1, <1>2, <1>3, <1>4, <1>5

(* Which of its lines completes an instruction other than a CALL.          *)
LEMMA CompletesAt ==
    ASSUME Built, NEW i \in DOMAIN tac, tac[i].kind # "CALL", NEW o \in Nat, o < Len(Lines(i))
    PROVE  Completes(Pos[i] + o) <=> o + 1 = Len(Lines(i))
<1>1. /\ Pos[i] \in Nat /\ Pos[i + 1] = Pos[i] + Len(Lines(i)) /\ Len(Lines(i)) \in Nat /\ Pos[i + 1] \in Nat
      /\ Pos[i + 1] <= Len(text) + 1 /\ Len(text) \in Nat /\ DOMAIN text = 1..Len(text)
      /\ Pos[i + 1] >= 10
      /\ i \in 1..Len(tac) /\ Len(tac) \in Nat
  <2>1. i \in 1..Len(tac) + 1 /\ i + 1 \in 1..Len(tac) + 1 /\ Len(tac) + 1 \in 1..Len(tac) + 1 /\ i + 1 <= Len(tac) + 1
    BY BuiltFacts
  <2>2. /\ \A j \in 1..Len(tac) + 1 : Pos[j] \in Nat /\ Pos[j] >= 10
        /\ Pos[Len(tac) + 1] = Len(text) + 1
        /\ \A j, k \in 1..Len(tac) + 1 : j <= k => Pos[j] <= Pos[k]
        /\ Len(Lines(i)) \in Nat /\ Pos[i + 1] = Pos[i] + Len(Lines(i))
    BY PosFacts
  <2>3. Pos[i + 1] <= Pos[Len(tac) + 1]
    BY <2>1, <2>2
  <2> QED
    BY <2>1, <2>2, <2>3, BuiltFacts
<1>6. Pos[i] \in Nat
  BY <1>1
<1>2. /\ Pos[i] + o \in DOMAIN text /\ text[Pos[i] + o].of = i
  BY LineAt
<1>3. Completes(Pos[i] + o) <=> (Pos[i] + o = Len(text) \/ text[Pos[i] + o + 1].of # i)
  BY <1>2 DEF Completes
<1>4. CASE o + 1 < Len(Lines(i))
  <2>1. text[Pos[i] + (o + 1)].of = i /\ Pos[i] + (o + 1) \in DOMAIN text
    <3>1. PICK u \in Nat : u = o + 1
      OBVIOUS
    <3>2. text[Pos[i] + u].of = i /\ Pos[i] + u \in DOMAIN text
      BY <1>4, <3>1, LineAt
    <3> QED
      BY <3>1, <3>2
  <2>2. Pos[i] + (o + 1) = Pos[i] + o + 1
    BY <1>6
  <2>3. text[Pos[i] + o + 1].of = i /\ Pos[i] + o + 1 \in 1..Len(text)
    BY <1>1, <2>1, <2>2
  <2>4. Pos[i] + o # Len(text)
    BY <1>1, <2>3
  <2>5. o + 1 # Len(Lines(i))
    BY <1>1, <1>4
  <2> QED
    BY <1>3, <2>3, <2>4, <2>5
<1>5. CASE o + 1 = Len(Lines(i))
  <2>1. Pos[i] + o + 1 = Pos[i + 1]
    <3>1. Pos[i] + o + 1 = Pos[i] + (o + 1)
      BY <1>6
    <3> QED
      BY <1>1, <1>5, <3>1
  <2>2. CASE Pos[i] + o # Len(text)
    <3>1. PICK k \in DOMAIN text : k = Pos[i] + o + 1
      <4>1. PICK u : u = Pos[i] + o
        OBVIOUS
      <4>2. u \in 1..Len(text) /\ u # Len(text)
        BY <1>1, <1>2, <2>2, <4>1
      <4>3. PICK h \in Nat : h = Len(text) /\ DOMAIN text = 1..h
        BY <1>1
      <4>4. u + 1 \in 1..h
        BY <4>2, <4>3
      <4> QED
        BY <4>1, <4>3, <4>4
    <3>2. k = Pos[i + 1] /\ k > 9
      <4>1. k = Pos[i + 1]
        BY <2>1, <3>1
      <4>2. Pos[i + 1] > 9
        BY <1>1
      <4> QED
        BY <4>1, <4>2
    <3>3. text[k].of \in DOMAIN tac /\ k < Pos[text[k].of + 1]
      BY <3>2, PosFacts
    <3>4. text[k].of # i
      <4>1. ~(k < Pos[i + 1])
        BY <1>1, <3>2
      <4> QED
        BY <3>3, <4>1
    <3> QED
      BY <1>3, <1>5, <3>1, <3>4
  <2> QED
    BY <1>3, <1>5, <2>2
<1> QED
  BY <1>1, <1>4, <1>5

-----------------------------------------------------------------------------
(* The machine, line by line.                                              *)

(* What a line does: to a register, to a word, to the program counter.     *)
Sets(r, v) == reg' = [reg EXCEPT ![r] = v] /\ pc' = pc + 1 /\ UNCHANGED <<mem, status, printed>>
Stores(a, v) ==
    a \in DOMAIN mem /\ mem' = [mem EXCEPT ![a] = v] /\ pc' = pc + 1 /\ UNCHANGED <<reg, status, printed>>
Goes(p) == pc' = p /\ UNCHANGED <<reg, mem, status, printed>>
Faults == status' = "fault"

(* The word at a, if there is one.                                         *)
Fetches(r, a) == a \in DOMAIN mem /\ Sets(r, mem[a])

(* What the machine does at a line of each kind.                           *)
LEMMA LiStep ==
    ASSUME Execute, NEW d, NEW n, Ins = Li(d, n)
    PROVE  Sets(d, n)
BY DEF Execute, ToRegister, LoadWord, StoreWord, Transfer, JumpBack, SystemCall, Do, AluOps, CodeOps, BranchOps,
       Sets, Li, Computed

LEMMA MoveStep ==
    ASSUME Execute, NEW d, NEW s, Ins = Move(d, s)
    PROVE  Sets(d, reg[s])
BY DEF Execute, ToRegister, LoadWord, StoreWord, Transfer, JumpBack, SystemCall, Do, AluOps, CodeOps, BranchOps,
       Sets, Move, Computed

LEMMA LaStep ==
    ASSUME Execute, NEW d, NEW x, Ins = La(d, x)
    PROVE  Sets(d, Address(x))
BY DEF Execute, ToRegister, LoadWord, StoreWord, Transfer, JumpBack, SystemCall, Do, AluOps, CodeOps, BranchOps,
       Sets, La, Computed

LEMMA AddiStep ==
    ASSUME Execute, NEW d, NEW s, NEW n, Ins = Addi(d, s, n)
    PROVE  Sets(d, reg[s] + n)
BY DEF Execute, ToRegister, LoadWord, StoreWord, Transfer, JumpBack, SystemCall, Do, AluOps, CodeOps, BranchOps,
       Sets, Addi, Computed

LEMMA AluStep ==
    ASSUME Execute, NEW d, NEW s, NEW t
    PROVE  /\ Ins = Alu("add", d, s, t) => Sets(d, reg[s] + reg[t])
           /\ Ins = Alu("sub", d, s, t) => Sets(d, reg[s] - reg[t])
           /\ Ins = Alu("mul", d, s, t) => Sets(d, reg[s] * reg[t])
           /\ Ins = Alu("div", d, s, t) => Sets(d, Trunc(reg[s], reg[t]))
BY DEF Execute, ToRegister, LoadWord, StoreWord, Transfer, JumpBack, SystemCall, Do, AluOps, CodeOps, BranchOps,
       Sets, Alu, Computed

LEMMA LwlStep ==
    ASSUME Execute, NEW d, NEW x, Ins = Lwl(d, x)
    PROVE  Fetches(d, Address(x)) \/ Faults
BY DEF Execute, ToRegister, LoadWord, StoreWord, Transfer, JumpBack, SystemCall, Do, AluOps, CodeOps, BranchOps,
       Sets, Fetches, Lwl, Place, Fault, Faults

LEMMA LwStep ==
    ASSUME Execute, NEW d, NEW off, NEW b, Ins = Lw(d, off, b)
    PROVE  Fetches(d, reg[b] + off) \/ Faults
BY DEF Execute, ToRegister, LoadWord, StoreWord, Transfer, JumpBack, SystemCall, Do, AluOps, CodeOps, BranchOps,
       Sets, Fetches, Lw, Place, Fault, Faults

LEMMA SwlStep ==
    ASSUME Execute, NEW s, NEW x, Ins = Swl(s, x)
    PROVE  Stores(Address(x), reg[s]) \/ Faults
BY DEF Execute, ToRegister, LoadWord, StoreWord, Transfer, JumpBack, SystemCall, Do, AluOps, CodeOps, BranchOps,
       Stores, Swl, Place, Fault, Faults

LEMMA SwStep ==
    ASSUME Execute, NEW s, NEW off, NEW b, Ins = Sw(s, off, b)
    PROVE  Stores(reg[b] + off, reg[s]) \/ Faults
BY DEF Execute, ToRegister, LoadWord, StoreWord, Transfer, JumpBack, SystemCall, Do, AluOps, CodeOps, BranchOps,
       Stores, Sw, Place, Fault, Faults

LEMMA MarkStep ==
    ASSUME Execute, NEW l, Ins = Mark(l)
    PROVE  Goes(pc + 1)
BY DEF Execute, ToRegister, LoadWord, StoreWord, Transfer, JumpBack, SystemCall, Do, AluOps, CodeOps, BranchOps,
       Goes, Mark

LEMMA JumpStep ==
    ASSUME Execute, NEW l
    PROVE  /\ Ins = J(l) => Goes(Line(l))
           /\ Ins = Jal(l) => /\ pc' = Line(l) /\ reg' = [reg EXCEPT !["ra"] = pc + 1]
                              /\ UNCHANGED <<mem, status, printed>>
BY DEF Execute, ToRegister, LoadWord, StoreWord, Transfer, JumpBack, SystemCall, Do, AluOps, CodeOps, BranchOps,
       Goes, J, Jal

LEMMA JrStep ==
    ASSUME Execute, Ins = Jr
    PROVE  /\ pc' = reg["ra"] /\ UNCHANGED <<reg, mem, printed>>
           /\ status' = IF pc' = 0 THEN "halted" ELSE IF pc' \in DOMAIN text THEN "running" ELSE "fault"
BY DEF Execute, ToRegister, LoadWord, StoreWord, Transfer, JumpBack, SystemCall, Do, AluOps, CodeOps, BranchOps, Jr

LEMMA SyscallStep ==
    ASSUME Execute, NEW n, Ins = Syscall(n)
    PROVE  /\ \E v : reg' = [reg EXCEPT !["v0"] = v]
           /\ printed' = IF n = 1 THEN Append(printed, reg["a0"]) ELSE printed
           /\ pc' = pc + 1 /\ UNCHANGED <<mem, status>>
BY DEF Execute, ToRegister, LoadWord, StoreWord, Transfer, JumpBack, SystemCall, Do, AluOps, CodeOps, BranchOps,
       Syscall

(* A branch is taken when the comparison it stands for holds.              *)
LEMMA BranchStep ==
    ASSUME Execute, NEW k \in IfKinds, NEW s, NEW t, NEW l, Ins = Branch(BranchOp[k], s, t, l)
    PROVE  Goes(IF IR!Holds(k, reg[s], reg[t]) THEN Line(l) ELSE pc + 1)
<1>1. PICK o : o = BranchOp[k]
  OBVIOUS
<1>2. o \in BranchOps
  BY <1>1 DEF BranchOp, BranchOps, IfKinds
<1>3. Ins = Branch(o, s, t, l)
  BY <1>1
<1>4. Goes(IF Taken(Ins) THEN Line(l) ELSE pc + 1)
  BY <1>2, <1>3 DEF Execute, ToRegister, LoadWord, StoreWord, Transfer, JumpBack, SystemCall, Do, AluOps, CodeOps, BranchOps,
       Goes, Branch
<1>5. Taken(Ins) = IR!Holds(k, reg[s], reg[t])
  <2>1. /\ k = "IFLT" => o = "blt"
        /\ k = "IFLE" => o = "ble"
        /\ k = "IFGT" => o = "bgt"
        /\ k = "IFGE" => o = "bge"
        /\ k = "IFNE" => o = "bne"
        /\ k = "IFEQ" => o = "beq"
    BY <1>1 DEF BranchOp, IfKinds
  <2>2. k \in {"IFLT", "IFLE", "IFGT", "IFGE", "IFNE", "IFEQ"}
    BY DEF IfKinds
  <2>3. Ins.op = o /\ Ins.s = s /\ Ins.t = t
    BY <1>3 DEF Branch
  <2> QED
    BY <2>1, <2>2, <2>3 DEF Taken, IR!Holds
<1> QED
  BY <1>4, <1>5

LEMMA GarbageStep ==
    ASSUME Execute
    PROVE  Ins # Garbage
BY DEF Execute, ToRegister, LoadWord, StoreWord, Transfer, JumpBack, SystemCall, Do, AluOps, CodeOps, BranchOps, Garbage

(* Only a running machine executes.                                        *)
LEMMA ExecuteStatus == Execute => status = "running" /\ pc \in DOMAIN text
BY DEF Execute, ToRegister, LoadWord, StoreWord, Transfer, JumpBack, SystemCall, Do

-----------------------------------------------------------------------------
(* The program beside the machine: the invariant.                          *)

Static == Built /\ Assembles

Listed(x) == \E k \in DOMAIN data : data[k] = x
Word(a, v) == a \in DOMAIN mem /\ mem[a] = v

StackLow == StackTop - 4 * StackWords

(* Where the call at c returns to, and what $ra is in activation k.        *)
RetPos(c) == Pos[c] + 2 * Size + 3
RaOf(k) == IF k = Len(frames) THEN 0 ELSE RetPos(frames[k + 1].back - 1)

(* The registers and words there are.                                      *)
Machine ==
    /\ DOMAIN reg = Reg /\ reg["zero"] = 0
    /\ DOMAIN mem = Addresses

(* Every variable is in .data, and every address is one of its words.      *)
Placed(e, l) ==
    /\ \A x \in DOMAIN e : Listed(x)
    /\ \A x \in DOMAIN l : Listed(x) /\ l[x] = Address(x)

(* The frame of a suspended activation whose base is `base': the words     *)
(* from `below' up hold its variables and its return address.              *)
Saved(f, base, below, ra) ==
    /\ f.back - 1 \in DOMAIN tac /\ tac[f.back - 1].kind = "CALL" /\ f.ret = tac[f.back - 1].ret
    /\ ~Sealed(tac, f.back - 1)
    /\ f.back \in Int /\ ArgsBefore[f.back - 1] \in Nat
    /\ below = base - 4 * ArgsBefore[f.back - 1] - Frame
    /\ \A j \in DOMAIN data : data[j] \in DOMAIN f.env => Word(below + 4 * (j - 1), f.env[data[j]])
    /\ Word(below + 4 * Size, ra)
    /\ Placed(f.env, f.loc) /\ IsSeq(f.actuals)

(* B[k] is the base of activation k, 0 the current one.                    *)
Suspended(B) ==
    /\ B \in [0..Len(frames) -> Int] /\ B[Len(frames)] = StackTop
    /\ \A j, k \in 0..Len(frames) : j <= k => B[j] <= B[k]
    /\ \A k \in 1..Len(frames) : Saved(frames[k], B[k], B[k - 1], RaOf(k))

(* The pending arguments are on top of the base.                           *)
Top(B) == B[0] - 4 * Len(pending)

Stack(B) ==
    /\ IsSeq(frames) /\ IsSeq(pending)
    /\ Suspended(B) /\ StackLow <= Top(B)
    /\ \A k \in DOMAIN pending : Word(Top(B) + 4 * (k - 1), pending[k])

(* The arguments not yet taken are where the next PARAM will look.         *)
Given(B) ==
    /\ IsSeq(actuals)
    /\ tac[ipc].kind \in {"FUNCTION", "PARAM"} =>
         \E n \in Nat :
             /\ RunOf("PARAM", ipc, n)
             /\ \A m \in DOMAIN actuals : Word(B[0] + Frame + 4 * (n + m - 1), actuals[m])

(* Control is where it may be, and exactly the ARGs before it are pending. *)
Live ==
    /\ ipc \in DOMAIN tac /\ (Sealed(tac, ipc) => tac[ipc].kind \in {"LABEL", "FUNCTION"})
    /\ RunOf("ARG", ipc, Len(pending))

(* What holds after every line.                                            *)
Sound(B) == Machine /\ Live /\ Stack(B) /\ Given(B) /\ Placed(env, loc)

(* Each variable has its value in its word.                                *)
Values == \A x \in DOMAIN env : Word(Address(x), env[x])

(* What holds between instructions, and within those that need no more.    *)
Steady(B) == reg["sp"] = Top(B) /\ reg["ra"] = RaOf(0) /\ printed = wrote /\ Values

(* The operand, if it has a value, is in the register.                     *)
Loaded(o, r) == IR!Defined(o) => reg[r] = IR!Value(o)

-----------------------------------------------------------------------------
(* What does not change while the assembly runs.                           *)
LEMMA StaticKept ==
    ASSUME Static, UNCHANGED gvars
    PROVE  /\ Static' /\ Pos' = Pos /\ ArgsBefore' = ArgsBefore /\ ParamsBefore' = ParamsBefore
           /\ Size' = Size /\ Frame' = Frame /\ Addresses' = Addresses
           /\ \A i : Lines(i)' = Lines(i)
           /\ \A x : Address(x)' = Address(x) /\ (Listed(x)' <=> Listed(x))
           /\ \A l : Line(l)' = Line(l)
           /\ \A c : RetPos(c)' = RetPos(c)
<1>1. UNCHANGED <<tac, gen, cur, all_variables, all_variables_count, arg_count, param_count, data, text>>
  BY DEF gvars
<1>2. LayInv'
  BY LayStep DEF Static, Built
<1>3. Assembles'
  BY <1>1 DEF Static, Assembles, Accepted, Marks
<1>4. Static'
  BY <1>1, <1>2, <1>3 DEF Static, Built
<1>5. Pos' = Pos
  BY <1>1 DEF Pos
<1>6. \A i : Lines(i)' = Lines(i)
  BY <1>1, LinesSame
<1>7. Size' = Size /\ Frame' = Frame
  BY <1>1 DEF Size, Frame
<1>8. \A x : Address(x)' = Address(x)
  BY <1>1 DEF Address
<1>9. \A x : Listed(x)' <=> Listed(x)
  BY <1>1 DEF Listed
<1>10. \A l : Line(l)' = Line(l)
  BY <1>1 DEF Line
<1>11. \A c : RetPos(c)' = RetPos(c)
  BY <1>5, <1>7 DEF RetPos
<1>12. Addresses' = Addresses
  BY <1>1 DEF Addresses
<1> QED
  BY <1>1, <1>4, <1>5, <1>6, <1>7, <1>8, <1>9, <1>10, <1>11, <1>12, RunsSame

(* .data has a word for each listed variable, and it is below the stack.   *)
LEMMA AddressFacts ==
    ASSUME Static
    PROVE  /\ StackLow \in Int /\ 8 * Size + 4 < StackLow /\ StackLow <= StackTop /\ Size \in Nat
           /\ \A x : Listed(x) => /\ Address(x) \in Addresses /\ Address(x) \in Int
                                  /\ Address(x) <= 4 * Size /\ x \in Var
           /\ \A x, y : Listed(x) /\ Listed(y) /\ Address(x) = Address(y) => x = y
           /\ \A j \in 1..Size : Listed(data[j]) /\ Address(data[j]) = 4 * j
           /\ \A a \in Addresses : a \in Int /\ (a > 4 * Size => a >= StackLow)
<1>1. data \in Seq(Var) /\ Size \in Nat /\ DOMAIN data = 1..Size /\ \A j, k \in 1..Size : data[j] = data[k] => j = k
  BY BuiltFacts DEF Static
<1>2. Size <= Cardinality(Var)
  <2>1. [j \in 1..Size |-> data[j]] \in Injection(1..Size, Var)
    BY <1>1 DEF Injection, IsInjective
  <2>2. Cardinality(1..Size) <= Cardinality(Var)
    BY <2>1, BackEndAssumption, FS_Injection
  <2>3. Cardinality(1..Size) = IF 1 > Size THEN 0 ELSE Size - 1 + 1
    BY <1>1, FS_Interval
  <2> QED
    BY <1>1, <2>2, <2>3
<1>3. Cardinality(Var) \in Nat /\ StackWords \in Nat /\ 2 * Cardinality(Var) + 1 + StackWords < 1000
  BY BackEndAssumption, FS_CardinalityType
<1>4. StackLow \in Int /\ 8 * Size + 4 < StackLow /\ StackLow <= StackTop
  BY <1>1, <1>2, <1>3 DEF StackLow, StackTop
<1>5. ASSUME NEW j \in 1..Size
      PROVE  Listed(data[j]) /\ Address(data[j]) = 4 * j
  <2>1. Listed(data[j])
    BY <1>1 DEF Listed
  <2>2. PICK k : k = CHOOSE m \in DOMAIN data : data[m] = data[j]
    OBVIOUS
  <2>3. k \in 1..Size /\ data[k] = data[j]
    BY <1>1, <2>2
  <2>4. k = j
    BY <1>1, <2>3
  <2> QED
    BY <2>1, <2>2, <2>4 DEF Address
<1>6. ASSUME NEW x, Listed(x)
      PROVE  \E j \in 1..Size : data[j] = x /\ Address(x) = 4 * j
  BY <1>1, <1>5, <1>6 DEF Listed
<1>7. \A j \in 1..Size : 4 * j \in Addresses /\ 4 * j <= 4 * Size /\ 4 * j \in Int
  BY <1>1 DEF Addresses
<1>8. ASSUME NEW x, NEW y, Listed(x), Listed(y), Address(x) = Address(y)
      PROVE  x = y
  <2>1. PICK j \in 1..Size : data[j] = x /\ Address(x) = 4 * j
    BY <1>6, <1>8
  <2>2. PICK k \in 1..Size : data[k] = y /\ Address(y) = 4 * k
    BY <1>6, <1>8
  <2>3. 4 * j = 4 * k
    BY <1>8, <2>1, <2>2
  <2>4. j = k
    BY <2>3, <1>1
  <2> QED
    BY <2>1, <2>2, <2>4
<1>9. ASSUME NEW a \in Addresses
      PROVE  a \in Int /\ (a > 4 * Size => a >= StackLow)
  <2>1. \/ \E k \in 1..Size : a = 4 * k
        \/ \E k \in (1 - ArgvWords)..StackWords : a = StackTop - 4 * k
    BY <1>1 DEF Addresses
  <2> QED
    BY <1>1, <1>3, <2>1 DEF ArgvWords, StackTop, StackLow
<1>10. \A x : Listed(x) => x \in Var
  BY <1>1 DEF Listed
<1> QED
  BY <1>1, <1>4, <1>5, <1>6, <1>7, <1>8, <1>9, <1>10

-----------------------------------------------------------------------------
(* The words from t up are not written.                                    *)
HighKept(t) == DOMAIN mem' = DOMAIN mem /\ \A a \in DOMAIN mem : a >= t => mem'[a] = mem[a]

(* A line that stores nothing, or below t.                                 *)
LEMMA HighLemma ==
    ASSUME NEW t
    PROVE  /\ UNCHANGED mem => HighKept(t)
           /\ \A a, v : mem' = [mem EXCEPT ![a] = v] /\ ~(a >= t) => HighKept(t)
BY DEF HighKept

(* The words, frames and arguments from t up are then kept.                *)
LEMMA WordKept ==
    ASSUME NEW t, NEW a, NEW v, HighKept(t), a >= t, Word(a, v)
    PROVE  Word(a, v)'
BY DEF HighKept, Word

LEMMA PlacedKept ==
    ASSUME Static, UNCHANGED gvars, NEW e, NEW l, Placed(e, l)
    PROVE  Placed(e, l)'
BY StaticKept DEF Placed

LEMMA SavedKept ==
    ASSUME Static, UNCHANGED gvars, NEW t \in Int, HighKept(t), NEW f, NEW base, NEW below \in Int, NEW ra,
           Saved(f, base, below, ra), t <= below
    PROVE  Saved(f, base, below, ra)'
<1>1. /\ Size \in Nat /\ DOMAIN data = 1..Size
  BY BuiltFacts DEF Static
<1>2. UNCHANGED <<tac, data>> /\ ArgsBefore' = ArgsBefore /\ Frame' = Frame /\ Size' = Size
  BY StaticKept DEF gvars
<1>3. Placed(f.env, f.loc)'
  BY PlacedKept DEF Saved
<1>4. Word(below + 4 * Size, ra)'
  <2>1. PICK a : a = below + 4 * Size
    OBVIOUS
  <2>2. a >= t /\ Word(a, ra)
    BY <1>1, <2>1 DEF Saved
  <2>3. Word(a, ra)'
    BY <2>2, WordKept
  <2> QED
    BY <1>2, <2>1, <2>3
<1>5. ASSUME NEW j \in DOMAIN data, data[j] \in DOMAIN f.env
      PROVE  Word(below + 4 * (j - 1), f.env[data[j]])'
  <2>1. PICK a, v : a = below + 4 * (j - 1) /\ v = f.env[data[j]]
    OBVIOUS
  <2>4. \A k \in DOMAIN data : data[k] \in DOMAIN f.env => Word(below + 4 * (k - 1), f.env[data[k]])
    BY DEF Saved
  <2>5. Word(a, v)
    BY <1>5, <2>1, <2>4
  <2>2. a >= t /\ Word(a, v)
    BY <1>1, <2>1, <2>5
  <2>3. Word(a, v)'
    BY <2>2, WordKept
  <2> QED
    BY <1>2, <2>1, <2>3
<1>6. IsSeq(f.actuals)'
  BY DEF Saved, IsSeq
<1> QED
  BY <1>2, <1>3, <1>4, <1>5, <1>6 DEF Saved

LEMMA SuspendedKept ==
    ASSUME Static, UNCHANGED <<gvars, frames>>, NEW B, Stack(B), HighKept(Top(B))
    PROVE  Suspended(B)' /\ IsSeq(frames)' /\ \A k : RaOf(k)' = RaOf(k)
<1>1. /\ Len(frames) \in Nat /\ Len(pending) \in Nat /\ B \in [0..Len(frames) -> Int] /\ B[0] \in Int
  <2>1. IsSeq(frames) /\ IsSeq(pending) /\ B \in [0..Len(frames) -> Int]
    BY DEF Stack, Suspended
  <2>2. Len(frames) \in Nat /\ Len(pending) \in Nat
    BY <2>1, IsSeqLemma
  <2> QED
    BY <2>1, <2>2
<1>2. Top(B) \in Int /\ Top(B) <= B[0]
  BY <1>1 DEF Top
<1>3. UNCHANGED <<tac, data>> /\ \A c : RetPos(c)' = RetPos(c)
  BY StaticKept DEF gvars
<1>4. \A k : RaOf(k)' = RaOf(k)
  BY <1>3 DEF RaOf
<1>5. ASSUME NEW k \in 1..Len(frames)
      PROVE  Saved(frames[k], B[k], B[k - 1], RaOf(k))'
  <2>1. k - 1 \in 0..Len(frames) /\ 0 \in 0..Len(frames) /\ 0 <= k - 1
    BY <1>1
  <2>2. B[0] <= B[k - 1] /\ B[k - 1] \in Int
    BY <1>1, <2>1 DEF Stack, Suspended
  <2>3. Saved(frames[k], B[k], B[k - 1], RaOf(k))
    BY DEF Stack, Suspended
  <2>4. PICK f, base, below, ra : f = frames[k] /\ base = B[k] /\ below = B[k - 1] /\ ra = RaOf(k)
    OBVIOUS
  <2>5. Saved(f, base, below, ra)'
    <3>1. Saved(f, base, below, ra) /\ below \in Int /\ Top(B) <= below
      BY <1>1, <1>2, <2>2, <2>3, <2>4
    <3>2. PICK t \in Int : t = Top(B)
      BY <1>2
    <3> QED
      BY <3>1, <3>2, SavedKept
  <2>6. f = frames'[k] /\ ra = RaOf(k)'
    BY <1>4, <2>4
  <2> QED
    BY <2>4, <2>5, <2>6
<1>6. Suspended(B)'
  BY <1>5 DEF Stack, Suspended
<1>7. IsSeq(frames)'
  BY DEF Stack, IsSeq
<1> QED
  BY <1>4, <1>6, <1>7

LEMMA StackKept ==
    ASSUME Static, UNCHANGED <<gvars, frames, pending>>, NEW B, Stack(B), HighKept(Top(B))
    PROVE  Stack(B)' /\ Top(B)' = Top(B) /\ RaOf(0)' = RaOf(0)
<1>1. /\ Len(pending) \in Nat /\ B \in [0..Len(frames) -> Int] /\ Len(frames) \in Nat /\ B[0] \in Int
      /\ DOMAIN pending = 1..Len(pending)
  <2>1. IsSeq(frames) /\ IsSeq(pending) /\ B \in [0..Len(frames) -> Int]
    BY DEF Stack, Suspended
  <2>2. Len(frames) \in Nat /\ Len(pending) \in Nat /\ DOMAIN pending = 1..Len(pending)
    BY <2>1, IsSeqLemma
  <2> QED
    BY <2>1, <2>2
<1>2. Top(B) \in Int /\ Top(B)' = Top(B)
  BY <1>1 DEF Top
<1>3. Suspended(B)' /\ IsSeq(frames)' /\ \A k : RaOf(k)' = RaOf(k)
  BY SuspendedKept
<1>7. ASSUME NEW k \in DOMAIN pending
      PROVE  Word(Top(B) + 4 * (k - 1), pending[k])'
  <2>1. Word(Top(B) + 4 * (k - 1), pending[k]) /\ Top(B) + 4 * (k - 1) >= Top(B)
    BY <1>1, <1>2 DEF Stack
  <2>2. PICK a, v : a = Top(B) + 4 * (k - 1) /\ v = pending[k]
    OBVIOUS
  <2>3. Word(a, v)'
    BY <2>1, <2>2, WordKept
  <2>4. a = (Top(B) + 4 * (k - 1))' /\ v = pending[k]'
    BY <1>2, <2>2
  <2> QED
    BY <2>3, <2>4
<1>8. IsSeq(pending)' /\ StackLow' = StackLow
  BY DEF Stack, IsSeq, StackLow, StackTop
<1> QED
  BY <1>2, <1>3, <1>7, <1>8 DEF Stack

-----------------------------------------------------------------------------
(* Where control goes.                                                     *)

(* What comes after an instruction that passes control to the next one.    *)
LEMMA Follows ==
    ASSUME Static, NEW i \in DOMAIN tac, Sealed(tac, i) => tac[i].kind \in {"LABEL", "FUNCTION"},
           tac[i].kind \notin {"RETURN", "GOTO"}
    PROVE  /\ i + 1 \in DOMAIN tac /\ ~Sealed(tac, i + 1) /\ tac[i + 1].kind # "FUNCTION"
           /\ \A n \in Nat : RunOf("ARG", i, n) =>
                RunOf("ARG", i + 1, IF tac[i].kind = "ARG" THEN n + 1 ELSE 0)
           /\ tac[i + 1].kind = "PARAM" =>
                /\ tac[i].kind \in {"FUNCTION", "PARAM"}
                /\ \A n \in Nat : RunOf("PARAM", i, n) =>
                     RunOf("PARAM", i + 1, IF tac[i].kind = "PARAM" THEN n + 1 ELSE 0)
<1>1. Len(tac) \in Nat /\ DOMAIN tac = 1..Len(tac) /\ Supported(tac) /\ i \in 1..Len(tac)
  BY BuiltFacts DEF Static
<1>2. ~Sealed(tac, i + 1)
  <2> SUFFICES ASSUME Sealed(tac, i + 1) PROVE FALSE
    OBVIOUS
  <2>1. PICK j \in 1..i : /\ tac[j].kind \in {"RETURN", "GOTO"} /\ \A k \in j + 1..i : tac[k].kind \in NoLines
    <3>1. (i + 1) - 1 = i
      BY <1>1
    <3>2. \E j \in 1..(i + 1) - 1 :
             tac[j].kind \in {"RETURN", "GOTO"} /\ \A k \in j + 1..(i + 1) - 1 : tac[k].kind \in NoLines
      BY DEF Sealed
    <3> QED
      BY <3>1, <3>2
  <2>2. j # i
    BY <2>1
  <2>3. j \in 1..i - 1 /\ i \in j + 1..i
    BY <1>1, <2>2
  <2>4. tac[i].kind \in NoLines
    BY <2>1, <2>3
  <2>5. \A k \in j + 1..i - 1 : tac[k].kind \in NoLines
    BY <1>1, <2>1
  <2>6. Sealed(tac, i)
    BY <2>1, <2>3, <2>5 DEF Sealed
  <2> QED
    BY <2>4, <2>6 DEF NoLines
<1>3. i # Len(tac)
  BY <1>1, <1>2 DEF Supported
<1>4. i + 1 \in 1..Len(tac) /\ i + 1 > 1
  BY <1>1, <1>3
<1>5. tac[i + 1].kind # "FUNCTION"
  <2>1. PICK j \in DOMAIN tac : j = i + 1
    BY <1>1, <1>4
  <2>2. ~(tac[j].kind = "FUNCTION" /\ j > 1)
    BY <1>1, <1>2, <2>1 DEF Supported
  <2> QED
    BY <1>4, <2>1, <2>2
<1>6. ASSUME NEW kind, NEW n \in Nat, RunOf(kind, i, n)
      PROVE  RunOf(kind, i + 1, IF tac[i].kind = kind THEN n + 1 ELSE 0)
  <2>1. n \in 0..i - 1 /\ (\A j \in i - n..i - 1 : tac[j].kind = kind) /\ (i - n - 1 >= 1 => tac[i - n - 1].kind # kind)
    BY <1>6 DEF RunOf
  <2>2. CASE tac[i].kind = kind
    <3>1. PICK m \in Nat : m = n + 1
      OBVIOUS
    <3>2. m \in 0..(i + 1) - 1 /\ (i + 1) - m = i - n /\ (i + 1) - 1 = i /\ (i + 1) - m - 1 = i - n - 1
      BY <1>1, <2>1, <3>1
    <3>3. \A j \in i - n..i : tac[j].kind = kind
      <4>1. \A j \in i - n..i : j = i \/ j \in i - n..i - 1
        BY <1>1, <2>1
      <4> QED
        BY <2>1, <2>2, <4>1
    <3>4. RunOf(kind, i + 1, m)
      BY <2>1, <3>2, <3>3 DEF RunOf
    <3> QED
      BY <2>2, <3>1, <3>4
  <2>3. CASE tac[i].kind # kind
    <3>1. (i + 1) - 0 - 1 = i /\ (i + 1) - 0 = i + 1 /\ (i + 1) - 1 = i /\ 0 \in 0..i /\ \A j \in i + 1..i : FALSE
      BY <1>1
    <3>2. RunOf(kind, i + 1, 0)
      BY <2>3, <3>1 DEF RunOf
    <3> QED
      BY <2>3, <3>2
  <2> QED
    BY <2>2, <2>3
<1>7. tac[i + 1].kind = "PARAM" => tac[i].kind \in {"FUNCTION", "PARAM"}
  <2>1. PICK j \in DOMAIN tac : j = i + 1 /\ j - 1 = i
    BY <1>1, <1>4
  <2>2. tac[j].kind = "PARAM" => tac[j - 1].kind \in {"FUNCTION", "PARAM"}
    BY <1>1 DEF Supported, ParamsFirst
  <2> QED
    BY <2>1, <2>2
<1> QED
  BY <1>1, <1>2, <1>4, <1>5, <1>6, <1>7

(* No argument is waiting but before an ARG or a CALL.                     *)
LEMMA NoneWaiting ==
    ASSUME Static, NEW i \in DOMAIN tac, tac[i].kind \notin {"ARG", "CALL"}
    PROVE  RunOf("ARG", i, 0) /\ \A n : RunOf("ARG", i, n) => n = 0
<1>1. Len(tac) \in Nat /\ tac \in Seq(Inst) /\ DOMAIN tac = 1..Len(tac) /\ Supported(tac) /\ i \in 1..Len(tac)
  BY BuiltFacts DEF Static
<1>2. RunOf("ARG", i, 0)
  <2>1. ASSUME i - 1 >= 1 PROVE tac[i - 1].kind # "ARG"
    <3>1. PICK j \in DOMAIN tac : j = i - 1 /\ j + 1 = i
      BY <1>1, <2>1
    <3>2. tac[j].kind = "ARG" => tac[j + 1].kind \in {"ARG", "CALL"}
      BY <1>1 DEF Supported, ArgsBeforeCall
    <3> QED
      BY <3>1, <3>2
  <2>2. i - 0 - 1 = i - 1 /\ i - 0 = i /\ 0 \in 0..i - 1 /\ \A j \in i..i - 1 : FALSE
    BY <1>1
  <2> QED
    BY <2>1, <2>2 DEF RunOf
<1>3. i \in 1..Len(tac) + 1
  BY <1>1
<1> QED
  BY <1>1, <1>2, <1>3, RunUnique

(* Where a jump or a call leads.                                           *)
LEMMA Beginning ==
    ASSUME Static, NEW i \in DOMAIN tac, tac[i].kind = "FUNCTION"
    PROVE  RunOf("PARAM", i, 0)
<1>1. Len(tac) \in Nat /\ DOMAIN tac = 1..Len(tac) /\ Supported(tac) /\ i \in 1..Len(tac)
  BY BuiltFacts DEF Static
<1>2. ASSUME i - 1 >= 1 PROVE tac[i - 1].kind # "PARAM"
  <2>1. Sealed(tac, i)
    BY <1>1, <1>2 DEF Supported
  <2>2. PICK j \in 1..i - 1 : /\ tac[j].kind \in {"RETURN", "GOTO"} /\ \A k \in j + 1..i - 1 : tac[k].kind \in NoLines
    BY <2>1 DEF Sealed
  <2>3. i - 1 = j \/ i - 1 \in j + 1..i - 1
    BY <1>1, <2>2
  <2> QED
    BY <2>2, <2>3 DEF NoLines
<1>3. i - 0 - 1 = i - 1 /\ i - 0 = i /\ 0 \in 0..i - 1 /\ \A j \in i..i - 1 : FALSE
  BY <1>1
<1> QED
  BY <1>2, <1>3 DEF RunOf

(* The name an instruction declares is found at its line.                  *)
LEMMA MarkPlace ==
    ASSUME Static, NEW i \in DOMAIN tac, NEW l,
           \/ tac[i].kind = "LABEL" /\ tac[i].labelno = l
           \/ tac[i].kind = "FUNCTION" /\ tac[i].funcname = l
    PROVE  Line(l) = Pos[i] /\ Pos[i] \in DOMAIN text /\ text[Pos[i]].ins = Mark(l) /\ text[Pos[i]].of = i
<1>1. Lines(i) = <<Mark(l)>>
  BY MarkLines
<1>2. Len(Lines(i)) = 1 /\ Lines(i)[1] = Mark(l)
  BY <1>1
<1>3. Pos[i] \in Nat
  <2>1. i \in 1..Len(tac) + 1
    BY BuiltFacts DEF Static
  <2> QED
    BY <2>1, PosFacts DEF Static
<1>4. /\ Pos[i] + 0 \in DOMAIN text /\ text[Pos[i] + 0].of = i
      /\ text[Pos[i] + 0].ins = Lines(i)[0 + 1]
  <2>1. 0 < Len(Lines(i)) /\ 0 \in Nat /\ Built
    BY <1>2 DEF Static
  <2> QED
    BY <2>1, LineAt
<1>5. /\ Pos[i] \in DOMAIN text /\ text[Pos[i]].of = i /\ text[Pos[i]].ins = Mark(l)
  BY <1>2, <1>3, <1>4
<1>6. PICK k : k = Line(l)
  OBVIOUS
<1>7. k \in DOMAIN text /\ text[k].ins = Mark(l)
  BY <1>5, <1>6 DEF Line, Mark
<1>8. k \in Marks /\ Pos[i] \in Marks /\ text[k].ins.lab = l /\ text[Pos[i]].ins.lab = l
  BY <1>5, <1>7 DEF Marks, Mark
<1>9. k = Pos[i]
  BY <1>8 DEF Static, Assembles
<1> QED
  BY <1>5, <1>6, <1>9

(* A jump to a label goes to the first line of its instruction.            *)
LEMMA LabelPlace ==
    ASSUME Static, NEW i \in DOMAIN tac, tac[i].kind \in IfKinds \cup {"GOTO"}
    PROVE  /\ IR!LabelAt(tac[i].labelno) \in DOMAIN tac
           /\ tac[IR!LabelAt(tac[i].labelno)].kind = "LABEL"
           /\ Line(tac[i].labelno) = Pos[IR!LabelAt(tac[i].labelno)]
<1>1. PICK l : l = tac[i].labelno
  OBVIOUS
<1>2. \E j \in DOMAIN tac : tac[j] = Label(l)
  BY <1>1, BuiltFacts DEF Static, Supported
<1>3. \E j \in DOMAIN tac : tac[j].kind = "LABEL" /\ tac[j].labelno = l
  BY <1>2 DEF Label
<1>4. PICK j : j = IR!LabelAt(l)
  OBVIOUS
<1>5. j \in DOMAIN tac /\ tac[j].kind = "LABEL" /\ tac[j].labelno = l
  BY <1>3, <1>4 DEF IR!LabelAt
<1> QED
  BY <1>1, <1>4, <1>5, MarkPlace

(* So does a jump to a function.                                           *)
LEMMA FunctionPlace ==
    ASSUME Static, NEW f, \E j \in DOMAIN tac : tac[j] = Function(f)
    PROVE  /\ IR!FunctionAt(f) \in DOMAIN tac
           /\ tac[IR!FunctionAt(f)].kind = "FUNCTION"
           /\ Line(f) = Pos[IR!FunctionAt(f)]
<1>1. \E j \in DOMAIN tac : tac[j].kind = "FUNCTION" /\ tac[j].funcname = f
  BY DEF Function
<1>2. PICK j : j = IR!FunctionAt(f)
  OBVIOUS
<1>3. j \in DOMAIN tac /\ tac[j].kind = "FUNCTION" /\ tac[j].funcname = f
  BY <1>1, <1>2 DEF IR!FunctionAt
<1> QED
  BY <1>2, <1>3, MarkPlace

(* The routines of the runtime are where their names are declared.         *)
LEMMA RuntimePlace ==
    ASSUME Static
    PROVE  /\ Line("read") = 1 /\ Line("write") = 5
           /\ text[1].ins = Mark("read") /\ text[2].ins = Syscall(4) /\ text[3].ins = Syscall(5) /\ text[4].ins = Jr
           /\ text[5].ins = Mark("write") /\ text[6].ins = Syscall(1) /\ text[7].ins = Syscall(4)
           /\ text[8].ins = Move("v0", "zero") /\ text[9].ins = Jr
           /\ \A k \in 1..9 : k \in DOMAIN text /\ text[k].of = 0
<1>1. \A k \in 1..9 : k \in DOMAIN text /\ text[k] = Runtime[k]
  BY PosFacts DEF Static
<1>2. \A k \in 1..9 : k \in {1, 2, 3, 4, 5, 6, 7, 8, 9}
  OBVIOUS
<1>3. \A k \in {1, 2, 3, 4, 5, 6, 7, 8, 9} : k \in 1..9
  OBVIOUS
<1>4. \A k \in {1, 2, 3, 4, 5, 6, 7, 8, 9} : Runtime[k].of = 0
  BY RuntimeLemma
<1>5. /\ text[1] = Runtime[1] /\ text[2] = Runtime[2] /\ text[3] = Runtime[3] /\ text[4] = Runtime[4]
      /\ text[5] = Runtime[5] /\ text[6] = Runtime[6] /\ text[7] = Runtime[7] /\ text[8] = Runtime[8]
      /\ text[9] = Runtime[9] /\ 1 \in DOMAIN text /\ 5 \in DOMAIN text
  BY <1>1, <1>3
<1>6. /\ text[1].ins = Mark("read") /\ text[2].ins = Syscall(4) /\ text[3].ins = Syscall(5) /\ text[4].ins = Jr
      /\ text[5].ins = Mark("write") /\ text[6].ins = Syscall(1) /\ text[7].ins = Syscall(4)
      /\ text[8].ins = Move("v0", "zero") /\ text[9].ins = Jr
  BY <1>5, RuntimeLemma
<1>7. ASSUME NEW l, NEW p \in DOMAIN text, text[p].ins = Mark(l)
      PROVE  Line(l) = p
  <2>1. PICK k : k = Line(l)
    OBVIOUS
  <2>2. k \in DOMAIN text /\ text[k].ins = Mark(l)
    BY <1>7, <2>1 DEF Line, Mark
  <2>3. k \in Marks /\ p \in Marks /\ text[k].ins.lab = l /\ text[p].ins.lab = l
    BY <1>7, <2>2 DEF Marks, Mark
  <2>4. k = p
    BY <2>3 DEF Static, Assembles
  <2> QED
    BY <2>1, <2>4
<1> QED
  BY <1>1, <1>2, <1>4, <1>5, <1>6, <1>7

-----------------------------------------------------------------------------
(* The program beside the machine.                                         *)

CurI == tac[ipc]
Here(o) == pc = Pos[ipc] + o

(* The names in the lines are declared: the assembler has taken them.      *)
LEMMA NamesListed ==
    ASSUME Static, NEW k \in DOMAIN text
    PROVE  /\ \A r, x : text[k].ins \in {Lwl(r, x), Swl(r, x), La(r, x)} => Listed(x)
           /\ text[k].ins # Garbage
<1>1. Accepted(text[k].ins)
  BY DEF Static, Assembles
<1> QED
  BY <1>1 DEF Accepted, DataOps, Listed, Lwl, Swl, La, Garbage

(* The top of the stack is above .data.                                    *)
LEMMA TopFacts ==
    ASSUME Static, NEW B, Stack(B)
    PROVE  /\ Top(B) \in Int /\ Top(B) <= B[0] /\ B[0] \in Int /\ StackLow <= Top(B) /\ 8 * Size + 4 < Top(B)
           /\ Len(pending) \in Nat /\ DOMAIN pending = 1..Len(pending)
           /\ Len(frames) \in Nat /\ DOMAIN frames = 1..Len(frames)
           /\ Size \in Nat /\ StackLow \in Int
<1>1. IsSeq(frames) /\ IsSeq(pending) /\ B \in [0..Len(frames) -> Int] /\ StackLow <= Top(B)
  BY DEF Stack, Suspended
<1>2. Len(frames) \in Nat /\ Len(pending) \in Nat /\ DOMAIN pending = 1..Len(pending) /\ DOMAIN frames = 1..Len(frames)
  BY <1>1, IsSeqLemma
<1>3. B[0] \in Int
  BY <1>1, <1>2
<1>4. StackLow \in Int /\ 8 * Size + 4 < StackLow /\ Size \in Nat
  BY AddressFacts
<1>5. Top(B) \in Int /\ Top(B) <= B[0]
  BY <1>2, <1>3 DEF Top
<1> QED
  BY <1>1, <1>2, <1>3, <1>4, <1>5

(* The arguments of the running activation are above its base.             *)
LEMMA GivenWords ==
    ASSUME Static, UNCHANGED gvars, NEW B, Stack(B), HighKept(Top(B)), NEW n \in Nat, NEW m \in Nat, m >= 1, NEW v,
           Word(B[0] + Frame + 4 * (n + m - 1), v)
    PROVE  Word(B[0] + Frame + 4 * (n + m - 1), v)'
<1>1. PICK a : a = B[0] + Frame + 4 * (n + m - 1)
  OBVIOUS
<1>2. a >= Top(B)
  <2>1. PICK t, b, z \in Int : t = Top(B) /\ b = B[0] /\ z = Size /\ t <= b /\ z >= 0
    BY TopFacts
  <2>2. Frame = 4 * z + 4
    BY <2>1 DEF Frame
  <2>3. b + (4 * z + 4) + 4 * (n + m - 1) >= t
    BY <2>1
  <2> QED
    BY <1>1, <2>1, <2>2, <2>3
<1>3. Word(a, v)'
  BY <1>1, <1>2, WordKept
<1>4. Frame' = Frame
  BY StaticKept
<1> QED
  BY <1>1, <1>3, <1>4

(* They stay until the PARAMs have taken them.                             *)
LEMMA GivenKept ==
    ASSUME Static, UNCHANGED <<gvars, ipc, actuals>>, NEW B, Stack(B), HighKept(Top(B)), Given(B)
    PROVE  Given(B)'
<1>1. IsSeq(actuals)' /\ UNCHANGED tac /\ IsSeq(actuals)
  BY DEF Given, IsSeq, gvars
<1>2. ASSUME tac[ipc].kind \in {"FUNCTION", "PARAM"}
      PROVE  \E n \in Nat : /\ RunOf("PARAM", ipc, n)
                            /\ \A m \in DOMAIN actuals : Word(B[0] + Frame + 4 * (n + m - 1), actuals[m])'
  <2>1. PICK n \in Nat : /\ RunOf("PARAM", ipc, n)
                         /\ \A m \in DOMAIN actuals : Word(B[0] + Frame + 4 * (n + m - 1), actuals[m])
    BY <1>2 DEF Given
  <2>2. ASSUME NEW m \in DOMAIN actuals
        PROVE  Word(B[0] + Frame + 4 * (n + m - 1), actuals[m])'
    <3>1. PICK v : v = actuals[m]
      OBVIOUS
    <3>2. m \in Nat /\ m >= 1
      BY <1>1, IsSeqLemma
    <3>3. Word(B[0] + Frame + 4 * (n + m - 1), v)'
      BY <2>1, <3>1, <3>2, GivenWords
    <3> QED
      BY <3>1, <3>3
  <2> QED
    BY <2>1, <2>2
<1>3. \A n : RunOf("PARAM", ipc, n)' <=> RunOf("PARAM", ipc, n)
  BY <1>1 DEF RunOf
<1> QED
  BY <1>1, <1>2, <1>3 DEF Given

(* A line that only the machine takes part in.                             *)
LEMMA Stays ==
    ASSUME Static, UNCHANGED <<gvars, ivars>>, NEW B, Sound(B), HighKept(Top(B)), Machine'
    PROVE  Sound(B)' /\ Top(B)' = Top(B) /\ RaOf(0)' = RaOf(0) /\ CurI' = CurI
<1>1. UNCHANGED <<tac, ipc, env, actuals, pending, frames, loc, wrote>>
  BY DEF ivars, gvars
<1>2. Stack(B)' /\ Top(B)' = Top(B) /\ RaOf(0)' = RaOf(0)
  BY <1>1, StackKept DEF Sound
<1>3. Given(B)'
  BY <1>1, GivenKept DEF Sound
<1>4. Placed(env, loc)'
  <2>1. PICK e, l : e = env /\ l = loc
    OBVIOUS
  <2>2. Placed(e, l)'
    BY <2>1, PlacedKept DEF Sound
  <2> QED
    BY <1>1, <2>1, <2>2
<1>5. Live'
  BY <1>1 DEF Sound, Live, RunOf, Sealed
<1> QED
  BY <1>1, <1>2, <1>3, <1>4, <1>5 DEF Sound, CurI

(* What no line changes.                                                   *)
LEMMA MachineKept ==
    ASSUME Static, UNCHANGED gvars, Machine
    PROVE  /\ \A r, v : r \in Reg \ {"zero"} /\ Sets(r, v) => Machine' /\ reg'[r] = v /\ \A q \in Reg : q # r => reg'[q] = reg[q]
           /\ \A a, v : Stores(a, v) => Machine' /\ mem'[a] = v
           /\ UNCHANGED <<reg, mem>> => Machine'
<1>1. Addresses' = Addresses
  BY StaticKept
<1> QED
  BY <1>1 DEF Machine, Sets, Stores, Reg

(* The names of reg, one by one: what a line leaves alone.                 *)
LEMMA ValuesKept ==
    ASSUME Static, UNCHANGED <<gvars, env>>, Placed(env, loc), Values
    PROVE  /\ UNCHANGED mem => Values'
           /\ \A a, v : Stores(a, v) /\ a > 4 * Size => Values'
<1>1. \A x : Address(x)' = Address(x)
  BY StaticKept
<1>2. ASSUME UNCHANGED mem PROVE Values'
  BY <1>1, <1>2 DEF Values, Word
<1>3. ASSUME NEW a, NEW v, Stores(a, v), a > 4 * Size PROVE Values'
  <2>1. ASSUME NEW x \in DOMAIN env PROVE Word(Address(x), env[x])'
    <3>1. Word(Address(x), env[x])
      BY DEF Values
    <3>2. Address(x) \in Int /\ Address(x) <= 4 * Size /\ Size \in Nat
      BY AddressFacts DEF Placed
    <3>3. Address(x) # a
      BY <1>3, <3>2
    <3> QED
      BY <1>1, <1>3, <3>1, <3>3 DEF Word, Stores
  <2> QED
    BY <2>1 DEF Values
<1> QED
  BY <1>2, <1>3

(* An operand keeps its value.                                             *)
LEMMA ValueSame ==
    ASSUME UNCHANGED <<env, loc>>, NEW o
    PROVE  IR!Value(o)' = IR!Value(o) /\ (IR!Defined(o)' <=> IR!Defined(o))
BY DEF IR!Value, IR!Defined

(* A register keeps the operand it was given.                              *)
LEMMA LoadedKept ==
    ASSUME UNCHANGED <<env, loc>>, NEW o, NEW r, Loaded(o, r), reg'[r] = reg[r]
    PROVE  Loaded(o, r)'
BY ValueSame DEF Loaded

(* An operand goes to its register.                                        *)
LEMMA OperandStep ==
    ASSUME Static, NEW B, Sound(B), Values, Execute, UNCHANGED <<gvars, env, loc>>, NEW o \in Opd, NEW r \in Reg \ {"zero"},
           \/ Ins = Load(o, r)
           \/ o \in ScalarOpd /\ Ins = IF o.kind = "OP_CONSTANT" THEN Li(r, o.int_val) ELSE Lwl(r, o.char_val)
    PROVE  Faults \/ \E v : Sets(r, v) /\ Loaded(o, r)'
<1>1. pc \in DOMAIN text /\ Machine /\ Placed(env, loc)
  BY ExecuteStatus DEF Sound
<1>2. o.kind \in {"OP_CONSTANT", "OP_VARIABLE", "OP_POINTER"} /\ (o \in ScalarOpd => o.kind # "OP_POINTER")
  BY DEF Opd, ScalarOpd, VarOpd, PointerOpd
<1>3. CASE o.kind = "OP_CONSTANT"
  <2>1. Ins = Li(r, o.int_val) \/ (Ins = Move(r, "zero") /\ o.int_val = 0)
    BY <1>3 DEF Load
  <2>2. PICK v : Sets(r, v) /\ v = o.int_val
    BY <1>1, <2>1, LiStep, MoveStep DEF Machine
  <2>3. reg'[r] = v
    BY <1>1, <2>2, MachineKept
  <2>4. IR!Value(o) = o.int_val
    BY <1>3 DEF IR!Value
  <2>5. Loaded(o, r)'
    BY <2>2, <2>3, <2>4, ValueSame DEF Loaded
  <2> QED
    BY <2>2, <2>5
<1>4. CASE o.kind = "OP_VARIABLE"
  <2>1. Ins = Lwl(r, o.char_val)
    BY <1>4 DEF Load
  <2>2. Fetches(r, Address(o.char_val)) \/ Faults
    BY <2>1, LwlStep
  <2>3. ASSUME Fetches(r, Address(o.char_val)) PROVE \E v : Sets(r, v) /\ Loaded(o, r)'
    <3>1. PICK v : Sets(r, v) /\ v = mem[Address(o.char_val)]
      BY <2>3 DEF Fetches
    <3>2. reg'[r] = v
      BY <1>1, <3>1, MachineKept
    <3>3. IR!Value(o) = env[o.char_val]
      BY <1>4 DEF IR!Value
    <3>4. IR!Defined(o) => v = env[o.char_val]
      BY <1>4, <3>1 DEF IR!Defined, Values, Word
    <3>5. Loaded(o, r)'
      BY <3>2, <3>3, <3>4, ValueSame DEF Loaded
    <3> QED
      BY <3>1, <3>5
  <2> QED
    BY <2>2, <2>3
<1>5. CASE o.kind = "OP_POINTER"
  <2>1. Ins = Garbage
    BY <1>2, <1>5 DEF Load
  <2> QED
    BY <2>1, GarbageStep
<1> QED
  BY <1>2, <1>3, <1>4, <1>5

(* A variable receives a value, in the program and in its word.            *)
LEMMA BindStep ==
    ASSUME Static, UNCHANGED gvars, NEW B, Sound(B), Values, NEW x, Listed(x), NEW v, Stores(Address(x), v),
           env' = IR!With(env, x, v)
    PROVE  Values' /\ HighKept(Top(B)) /\ Machine' /\ (UNCHANGED loc => Placed(env, loc)')
<1>1. Machine /\ Stack(B) /\ Placed(env, loc) /\ DOMAIN mem = Addresses
  BY DEF Sound, Machine
<1>2. \A y : Address(y)' = Address(y) /\ (Listed(y)' <=> Listed(y))
  BY StaticKept
<1>3. Machine' /\ mem'[Address(x)] = v /\ DOMAIN mem' = DOMAIN mem
  BY <1>1, MachineKept DEF Stores
<1>4. DOMAIN env' = DOMAIN env \cup {x} /\ env'[x] = v /\ \A y \in DOMAIN env : y # x => env'[y] = env[y]
  <2>1. PICK f : f = IR!With(env, x, v)
    OBVIOUS
  <2>2. DOMAIN f = DOMAIN env \cup {x} /\ f[x] = v /\ \A y \in DOMAIN env : y # x => f[y] = env[y]
    BY <2>1 DEF IR!With
  <2>3. env' = f
    BY <2>1
  <2> QED
    BY <2>2, <2>3
<1>5. Values'
  <2>1. ASSUME NEW y \in DOMAIN env' PROVE Word(Address(y), env[y])'
    <3>1. CASE y = x
      BY <1>1, <1>2, <1>3, <1>4, <3>1, AddressFacts DEF Word
    <3>2. CASE y # x
      <4>1. y \in DOMAIN env /\ Listed(y) /\ Word(Address(y), env[y])
        BY <1>1, <1>4, <3>2 DEF Placed, Values
      <4>2. Address(y) # Address(x)
        BY <3>2, <4>1, AddressFacts
      <4> QED
        BY <1>2, <1>4, <3>2, <4>1, <4>2 DEF Word, Stores
    <3> QED
      BY <3>1, <3>2
  <2> QED
    BY <2>1 DEF Values
<1>6. HighKept(Top(B))
  <2>1. Address(x) \in Int /\ Address(x) <= 4 * Size /\ Size \in Nat /\ 8 * Size + 4 < Top(B) /\ Top(B) \in Int
    BY <1>1, AddressFacts, TopFacts
  <2>2. ~(Address(x) >= Top(B))
    BY <2>1
  <2> QED
    BY <2>2, HighLemma DEF Stores
<1>7. UNCHANGED loc => Placed(env, loc)'
  BY <1>1, <1>2, <1>4 DEF Placed
<1> QED
  BY <1>3, <1>5, <1>6, <1>7

-----------------------------------------------------------------------------
(* One step of the program.                                                *)

(* The names in the current line are declared.                             *)
Listing == \A r, x : Ins \in {Lwl(r, x), Swl(r, x), La(r, x)} => Listed(x)

(* The lines of an instruction but the last: the program waits.            *)
LEMMA Inside ==
    ASSUME Static, RunLine, ipc \in DOMAIN tac, CurI.kind # "CALL",
           NEW o \in Nat, Here(o), o + 1 < Len(Lines(ipc))
    PROVE  Execute /\ UNCHANGED <<gvars, ivars>> /\ Ins = Lines(ipc)[o + 1] /\ Listing
<1>3. Execute
  BY DEF RunLine
<1>4. Listing
  BY <1>3, ExecuteStatus, NamesListed DEF Listing, Ins
<1>1. Len(Lines(ipc)) \in Nat
  BY PosFacts DEF Static
<1>2. text[pc].ins = Lines(ipc)[o + 1] /\ ~Completes(pc)
  BY <1>1, LineAt, CompletesAt DEF Static, CurI, Here
<1> QED
  BY <1>2, <1>4 DEF RunLine, Ins

(* The last one: the program takes its step.                               *)
LEMMA Ending ==
    ASSUME Static, RunLine, ipc \in DOMAIN tac, CurI.kind # "CALL",
           NEW o \in Nat, Here(o), o + 1 = Len(Lines(ipc))
    PROVE  /\ Execute /\ UNCHANGED gvars /\ Ins = Lines(ipc)[o + 1]
           /\ Faults \/ IR!Run(reg["v0"], reg["t0"])
           /\ ipc # 0 /\ pc + 1 = Pos[ipc + 1] /\ Listing
<1>1. Len(Lines(ipc)) \in Nat /\ ipc # 0
  BY PosFacts, BuiltFacts DEF Static
<1>4. Pos[ipc] \in Nat /\ Pos[ipc + 1] = Pos[ipc] + Len(Lines(ipc))
  <2>1. ipc \in 1..Len(tac) + 1
    BY BuiltFacts DEF Static
  <2> QED
    BY <2>1, PosFacts DEF Static
<1>5. pc + 1 = Pos[ipc + 1]
  <2>1. pc + 1 = Pos[ipc] + (o + 1)
    BY <1>4 DEF Here
  <2> QED
    BY <1>4, <2>1
<1>6. Execute
  BY DEF RunLine
<1>7. Listing
  BY <1>6, ExecuteStatus, NamesListed DEF Listing, Ins
<1>3. o < Len(Lines(ipc))
  BY <1>1
<1>2. text[pc].ins = Lines(ipc)[o + 1] /\ text[pc].of = ipc /\ Completes(pc)
  BY <1>3, <1>1, LineAt, CompletesAt DEF Static, CurI, Here
<1> QED
  BY <1>1, <1>2, <1>5, <1>7 DEF RunLine, Ins, Faults

(* A line of another instruction, or of the runtime.                       *)
LEMMA Aside ==
    ASSUME RunLine, text[pc].of # ipc
    PROVE  Execute /\ UNCHANGED <<gvars, ivars>>
BY DEF RunLine

-----------------------------------------------------------------------------
(* The step of the program, by the kind of its instruction.                *)
LEMMA RunActs ==
    ASSUME NEW n, NEW a, IR!Run(n, a), ipc # 0
    PROVE  \/ IR!Pass /\ CurI.kind \in {"LABEL", "FUNCTION", "DEC", "NONE"}
           \/ IR!Compute /\ CurI.kind \in {"ASSIGN"} \cup ArithKinds
           \/ IR!TakeAddress(a) /\ CurI.kind = "ADDR"
           \/ IR!ThroughAddress /\ CurI.kind \in {"FETCH", "DEREF"}
           \/ IR!Jump /\ CurI.kind \in {"GOTO"} \cup IfKinds
           \/ IR!PushArg /\ CurI.kind = "ARG"
           \/ IR!TakeParam /\ CurI.kind = "PARAM"
           \/ IR!Enter /\ CurI.kind = "CALL"
           \/ IR!Leave /\ CurI.kind = "RETURN"
           \/ IR!Input(n) /\ CurI.kind = "READ"
           \/ IR!Output /\ CurI.kind = "WRITE"
<1>1. \A kinds : IR!Is(kinds) => CurI.kind \in kinds
  BY DEF IR!Is, IR!Cur, CurI
<1>5. IR!Pass => IR!Is({"LABEL", "FUNCTION", "DEC", "NONE"})
  BY DEF IR!Pass
<1>6. IR!Compute => IR!Is({"ASSIGN"}) \/ IR!Is(ArithKinds)
  BY DEF IR!Compute, IR!ArithKinds, ArithKinds
<1>7. IR!TakeAddress(a) => IR!Is({"ADDR"})
  BY DEF IR!TakeAddress
<1>8. IR!ThroughAddress => IR!Is({"FETCH"}) \/ IR!Is({"DEREF"})
  BY Zenon DEF IR!ThroughAddress
<1>2. IR!Jump => IR!Is({"GOTO"}) \/ IR!Is(IfKinds)
  BY DEF IR!Jump, IR!IfKinds, IfKinds
<1>3. /\ IR!PushArg => IR!Is({"ARG"})
      /\ IR!TakeParam => IR!Is({"PARAM"})
      /\ IR!Enter => IR!Is({"CALL"})
      /\ IR!Leave => IR!Is({"RETURN"})
      /\ IR!Input(n) => IR!Is({"READ"})
      /\ IR!Output => IR!Is({"WRITE"})
  BY DEF IR!PushArg, IR!TakeParam, IR!Enter, IR!Leave, IR!Input, IR!Output
<1>4. \/ IR!Pass \/ IR!Compute \/ IR!TakeAddress(a) \/ IR!ThroughAddress \/ IR!Jump
      \/ IR!PushArg \/ IR!TakeParam \/ IR!Enter \/ IR!Leave \/ IR!Input(n) \/ IR!Output
  BY DEF IR!Run
<1> QED
  BY <1>1, <1>2, <1>3, <1>4, <1>5, <1>6, <1>7, <1>8

(* The kind of the current instruction decides what the program does:      *)
LEMMA IsKinds ==
    ASSUME ipc # 0
    PROVE  \A kinds : IR!Is(kinds) <=> CurI.kind \in kinds
BY DEF IR!Is, IR!Cur, CurI

(* the step of each kind.                                                  *)
LEMMA RunKinds ==
    ASSUME NEW n, NEW a, IR!Run(n, a), ipc # 0
    PROVE  /\ CurI.kind \in {"LABEL", "FUNCTION", "DEC", "NONE"} => ipc' = ipc + 1 /\ UNCHANGED <<env, actuals, pending, frames, loc, wrote>>
           /\ CurI.kind = "ASSIGN" =>
                /\ IR!Defined(CurI.right) /\ env' = IR!With(env, CurI.left.char_val, IR!Value(CurI.right))
                /\ ipc' = ipc + 1 /\ UNCHANGED <<actuals, pending, frames, loc, wrote>>
           /\ CurI.kind \in ArithKinds =>
                /\ IR!Defined(CurI.r1) /\ IR!Defined(CurI.r2) /\ (CurI.kind = "DIV" => IR!Value(CurI.r2) # 0)
                /\ env' = IR!With(env, CurI.left.char_val, IR!Apply(CurI.kind, IR!Value(CurI.r1), IR!Value(CurI.r2)))
                /\ ipc' = ipc + 1 /\ UNCHANGED <<actuals, pending, frames, loc, wrote>>
           /\ CurI.kind = "ADDR" =>
                /\ loc' = IR!With(loc, CurI.right.char_val, a) /\ env' = IR!With(env, CurI.left.char_val, a)
                /\ ipc' = ipc + 1 /\ UNCHANGED <<actuals, pending, frames, wrote>>
           /\ CurI.kind = "FETCH" =>
                /\ \E x \in DOMAIN loc \cap DOMAIN env :
                      IR!Points(CurI.raddr, x) /\ env' = IR!With(env, CurI.left.char_val, env[x])
                /\ ipc' = ipc + 1 /\ UNCHANGED <<actuals, pending, frames, loc, wrote>>
<1>1. CurI.kind \in {"LABEL", "FUNCTION", "DEC", "NONE"} => IR!Pass
  BY RunActs DEF ArithKinds, IfKinds
<1>2. CurI.kind \in {"ASSIGN"} \cup ArithKinds => IR!Compute
  BY RunActs DEF ArithKinds, IfKinds
<1>3. (CurI.kind = "ADDR" => IR!TakeAddress(a)) /\ (CurI.kind = "FETCH" => IR!ThroughAddress)
  BY RunActs DEF ArithKinds, IfKinds
<1>4. CASE CurI.kind \in {"LABEL", "FUNCTION", "DEC", "NONE"}
  BY <1>1, <1>4 DEF IR!Pass, IR!Next1, ArithKinds
<1>5. CASE CurI.kind = "ASSIGN"
  <2>1. ~IR!Is(IR!ArithKinds)
    BY <1>5, IsKinds DEF IR!ArithKinds
  <2>2. IR!Defined(CurI.right) /\ IR!Bind(CurI.left, IR!Value(CurI.right))
    BY <1>2, <1>5, <2>1 DEF IR!Compute, IR!Cur, CurI
  <2>3. ipc' = ipc + 1 /\ UNCHANGED <<actuals, pending, frames, loc, wrote>>
    BY <1>2, <1>5 DEF IR!Compute, IR!Next1
  <2> QED
    BY <1>5, <2>2, <2>3 DEF IR!Bind, ArithKinds
<1>6. CASE CurI.kind \in ArithKinds
  <2>1. /\ IR!Defined(CurI.r1) /\ IR!Defined(CurI.r2) /\ (CurI.kind = "DIV" => IR!Value(CurI.r2) # 0)
        /\ IR!Bind(CurI.left, IR!Apply(CurI.kind, IR!Value(CurI.r1), IR!Value(CurI.r2)))
        /\ IR!Next1 /\ UNCHANGED <<actuals, pending, frames, loc, wrote>>
    BY <1>2, <1>6 DEF IR!Compute, IR!Is, IR!Cur, CurI, ArithKinds
  <2> QED
    BY <1>6, <2>1 DEF IR!Bind, IR!Next1, ArithKinds
<1>7. CASE CurI.kind = "ADDR"
  BY <1>3, <1>7 DEF IR!TakeAddress, IR!Cur, IR!Bind, IR!Next1, CurI, ArithKinds
<1>8. CASE CurI.kind = "FETCH"
  BY <1>3, <1>8 DEF IR!ThroughAddress, IR!Is, IR!Cur, IR!Bind, IR!Next1, CurI, ArithKinds
<1> QED
  BY <1>4, <1>5, <1>6, <1>7, <1>8

LEMMA RunKinds2 ==
    ASSUME NEW n, NEW a, IR!Run(n, a), ipc # 0
    PROVE  /\ CurI.kind = "GOTO" =>
                ipc' = IR!LabelAt(CurI.labelno) /\ UNCHANGED <<env, actuals, pending, frames, loc, wrote>>
           /\ CurI.kind \in IfKinds =>
                /\ IR!Defined(CurI.c1) /\ IR!Defined(CurI.c2)
                /\ ipc' = IF IR!Holds(CurI.kind, IR!Value(CurI.c1), IR!Value(CurI.c2))
                          THEN IR!LabelAt(CurI.labelno) ELSE ipc + 1
                /\ UNCHANGED <<env, actuals, pending, frames, loc, wrote>>
           /\ CurI.kind = "ARG" =>
                /\ IR!Defined(CurI.var) /\ pending' = <<IR!Value(CurI.var)>> \o pending
                /\ ipc' = ipc + 1 /\ UNCHANGED <<env, actuals, frames, loc, wrote>>
           /\ CurI.kind = "PARAM" =>
                /\ actuals # <<>> /\ env' = IR!With(env, CurI.var.char_val, Head(actuals)) /\ actuals' = Tail(actuals)
                /\ ipc' = ipc + 1 /\ UNCHANGED <<pending, frames, loc, wrote>>
           /\ CurI.kind = "READ" =>
                /\ env' = IR!With(env, CurI.var.char_val, n)
                /\ ipc' = ipc + 1 /\ UNCHANGED <<actuals, pending, frames, loc, wrote>>
           /\ CurI.kind = "WRITE" =>
                /\ IR!Defined(CurI.var) /\ wrote' = Append(wrote, IR!Value(CurI.var))
                /\ ipc' = ipc + 1 /\ UNCHANGED <<env, actuals, pending, frames, loc>>
<1>1. CurI.kind \in {"GOTO"} \cup IfKinds => IR!Jump
  BY RunActs DEF ArithKinds, IfKinds
<1>2. /\ CurI.kind = "ARG" => IR!PushArg
      /\ CurI.kind = "PARAM" => IR!TakeParam
      /\ CurI.kind = "READ" => IR!Input(n)
      /\ CurI.kind = "WRITE" => IR!Output
  BY RunActs DEF ArithKinds, IfKinds
<1>3. CASE CurI.kind = "GOTO"
  <2>1. ~IR!Is(IR!IfKinds)
    BY <1>3, IsKinds DEF IR!IfKinds
  <2>2. ipc' = IR!LabelAt(CurI.labelno) /\ UNCHANGED <<env, actuals, pending, frames, loc, wrote>>
    BY <1>1, <1>3, <2>1 DEF IR!Jump, IR!Cur, CurI
  <2> QED
    BY <1>3, <2>2 DEF IfKinds
<1>4. CASE CurI.kind \in IfKinds
  <2>1. /\ IR!Defined(CurI.c1) /\ IR!Defined(CurI.c2)
        /\ IF IR!Holds(CurI.kind, IR!Value(CurI.c1), IR!Value(CurI.c2))
           THEN ipc' = IR!LabelAt(CurI.labelno) ELSE IR!Next1
        /\ UNCHANGED <<env, actuals, pending, frames, loc, wrote>>
    BY <1>1, <1>4 DEF IR!Jump, IR!Is, IR!Cur, CurI, IfKinds
  <2> QED
    BY <1>4, <2>1 DEF IR!Next1, IfKinds
<1>5. CASE CurI.kind = "ARG"
  BY <1>2, <1>5 DEF IR!PushArg, IR!Cur, IR!Next1, CurI, IfKinds
<1>6. CASE CurI.kind = "PARAM"
  BY <1>2, <1>6 DEF IR!TakeParam, IR!Cur, IR!Bind, IR!Next1, CurI, IfKinds
<1>7. CASE CurI.kind = "READ"
  BY <1>2, <1>7 DEF IR!Input, IR!Cur, IR!Bind, IR!Next1, CurI, IfKinds
<1>8. CASE CurI.kind = "WRITE"
  BY <1>2, <1>8 DEF IR!Output, IR!Cur, IR!Next1, CurI, IfKinds
<1> QED
  BY <1>3, <1>4, <1>5, <1>6, <1>7, <1>8

LEMMA RunKinds3 ==
    ASSUME NEW n, NEW a, IR!Run(n, a), ipc # 0
    PROVE  /\ CurI.kind = "CALL" =>
                /\ frames' = <<[ret |-> CurI.ret, back |-> ipc + 1, env |-> env, loc |-> loc, actuals |-> actuals]>>
                               \o frames
                /\ ipc' = IR!FunctionAt(CurI.funcname)
                /\ env' = <<>> /\ loc' = <<>> /\ actuals' = pending /\ pending' = <<>> /\ UNCHANGED wrote
           /\ CurI.kind = "RETURN" =>
                /\ IR!Defined(CurI.var) /\ UNCHANGED <<pending, wrote>>
                /\ frames = <<>> => ipc' = 0 /\ UNCHANGED <<env, loc, actuals, frames>>
                /\ frames # <<>> =>
                     /\ env' = IR!With(frames[1].env, frames[1].ret.char_val, IR!Value(CurI.var))
                     /\ loc' = frames[1].loc /\ actuals' = frames[1].actuals
                     /\ ipc' = frames[1].back /\ frames' = Tail(frames)
<1>1. (CurI.kind = "CALL" => IR!Enter) /\ (CurI.kind = "RETURN" => IR!Leave)
  BY RunActs DEF ArithKinds, IfKinds
<1>2. CASE CurI.kind = "CALL"
  BY <1>1, <1>2 DEF IR!Enter, IR!Cur, CurI
<1>3. CASE CurI.kind = "RETURN"
  <2>1. IR!Leave
    BY <1>1, <1>3
  <2>2. CASE frames = <<>>
    BY <1>3, <2>1, <2>2 DEF IR!Leave, IR!Cur, CurI
  <2>3. CASE frames # <<>>
    <3>1. PICK f : f = Head(frames)
      OBVIOUS
    <3>2. f = frames[1]
      BY <3>1
    <3>3. /\ env' = IR!With(f.env, f.ret.char_val, IR!Value(CurI.var))
          /\ loc' = f.loc /\ actuals' = f.actuals /\ ipc' = f.back /\ frames' = Tail(frames)
          /\ IR!Defined(CurI.var) /\ UNCHANGED <<pending, wrote>>
      BY <2>1, <2>3, <3>1 DEF IR!Leave, IR!Cur, CurI
    <3> QED
      BY <1>3, <2>3, <3>2, <3>3
  <2> QED
    BY <2>2, <2>3
<1> QED
  BY <1>2, <1>3

-----------------------------------------------------------------------------
(* The program goes on to the next instruction.                            *)
LEMMA TailFacts ==
    ASSUME NEW s, IsSeq(s), s # <<>>
    PROVE  /\ IsSeq(Tail(s)) /\ Len(Tail(s)) = Len(s) - 1 /\ Len(s) \in Nat /\ Len(s) >= 1 /\ Head(s) = s[1]
           /\ \A m \in 1..Len(s) - 1 : Tail(s)[m] = s[m + 1]
<1>1. PICK S : S = {s[k] : k \in DOMAIN s}
  OBVIOUS
<1>2. s \in Seq(S)
  BY <1>1 DEF IsSeq
<1>3. Tail(s) \in Seq(S) /\ Len(Tail(s)) = Len(s) - 1 /\ Len(s) \in Nat /\ Len(s) >= 1 /\ Head(s) = s[1]
      /\ \A m \in 1..Len(s) - 1 : Tail(s)[m] = s[m + 1]
  BY <1>2
<1> QED
  BY <1>3, SeqLemma

(* Most steps go on to the next instruction.                               *)
LEMMA Advances ==
    ASSUME Static, NEW B, Sound(B), UNCHANGED <<gvars, frames, pending>>, ipc' = ipc + 1,
           CurI.kind \notin {"RETURN", "GOTO", "CALL", "ARG"}, HighKept(Top(B)), Machine', Placed(env, loc)',
           CurI.kind = "PARAM" => actuals # <<>> /\ actuals' = Tail(actuals),
           CurI.kind # "PARAM" => actuals' = actuals
    PROVE  Sound(B)' /\ Top(B)' = Top(B) /\ RaOf(0)' = RaOf(0)
<1>1. Stack(B)' /\ Top(B)' = Top(B) /\ RaOf(0)' = RaOf(0)
  BY StackKept DEF Sound
<1>2. UNCHANGED tac /\ ipc \in DOMAIN tac /\ (Sealed(tac, ipc) => CurI.kind \in {"LABEL", "FUNCTION"})
  BY DEF gvars, Sound, Live, CurI
<1>3. /\ ipc + 1 \in DOMAIN tac /\ ~Sealed(tac, ipc + 1) /\ tac[ipc + 1].kind # "FUNCTION"
      /\ tac[ipc + 1].kind = "PARAM" =>
           /\ CurI.kind \in {"FUNCTION", "PARAM"}
           /\ \A n \in Nat : RunOf("PARAM", ipc, n) =>
                RunOf("PARAM", ipc + 1, IF CurI.kind = "PARAM" THEN n + 1 ELSE 0)
      /\ RunOf("ARG", ipc + 1, 0) /\ Len(pending) = 0
  <2>1. RunOf("ARG", ipc, 0) /\ Len(pending) = 0
    BY <1>2, NoneWaiting DEF Sound, Live, CurI
  <2> QED
    BY <1>2, <2>1, Follows DEF CurI
<1>4. Live'
  BY <1>2, <1>3 DEF Live, RunOf, Sealed
<1>5. IsSeq(actuals) /\ IsSeq(actuals)'
  <2>1. IsSeq(actuals)
    BY DEF Sound, Given
  <2>2. CASE CurI.kind = "PARAM"
    <3>1. PICK s : s = Tail(actuals)
      OBVIOUS
    <3>2. IsSeq(s)
      BY <2>1, <2>2, <3>1, TailFacts
    <3> QED
      BY <2>1, <2>2, <3>1, <3>2 DEF IsSeq
  <2>3. CASE CurI.kind # "PARAM"
    BY <2>1, <2>3 DEF IsSeq
  <2> QED
    BY <2>2, <2>3
<1>6. ASSUME tac[ipc + 1].kind = "PARAM"
      PROVE  \E n \in Nat : /\ RunOf("PARAM", ipc + 1, n)
                            /\ \A m \in DOMAIN actuals' : Word(B[0] + Frame + 4 * (n + m - 1), actuals[m])'
  <2>1. PICK n \in Nat : /\ RunOf("PARAM", ipc, n)
                         /\ \A m \in DOMAIN actuals : Word(B[0] + Frame + 4 * (n + m - 1), actuals[m])
    BY <1>3, <1>6 DEF Sound, Given, CurI
  <2>2. CASE CurI.kind = "FUNCTION"
    <3>1. n = 0
      <4>1. RunOf("PARAM", ipc, 0)
        BY <1>2, <2>2, Beginning DEF CurI
      <4>2. tac \in Seq(Inst) /\ ipc \in 1..Len(tac) + 1
        BY <1>2, BuiltFacts DEF Static
      <4> QED
        BY <2>1, <4>1, <4>2, RunUnique
    <3>2. RunOf("PARAM", ipc + 1, n) /\ UNCHANGED actuals
      BY <1>3, <1>6, <2>1, <2>2, <3>1
    <3>3. ASSUME NEW m \in DOMAIN actuals PROVE Word(B[0] + Frame + 4 * (n + m - 1), actuals[m])'
      <4>1. PICK v : v = actuals[m]
        OBVIOUS
      <4>2. m \in Nat /\ m >= 1
        BY <1>5, IsSeqLemma
      <4>3. Word(B[0] + Frame + 4 * (n + m - 1), v)'
        BY <2>1, <4>1, <4>2, GivenWords DEF Sound
      <4> QED
        BY <3>2, <4>1, <4>3
    <3> QED
      BY <3>2, <3>3
  <2>3. CASE CurI.kind = "PARAM"
    <3>1. RunOf("PARAM", ipc + 1, n + 1) /\ actuals # <<>> /\ actuals' = Tail(actuals)
      BY <1>3, <1>6, <2>1, <2>3
    <3>2. PICK s : s = actuals'
      OBVIOUS
    <3>3. /\ IsSeq(s) /\ Len(s) = Len(actuals) - 1 /\ Len(actuals) \in Nat
          /\ \A m \in 1..Len(actuals) - 1 : s[m] = actuals[m + 1]
      BY <1>5, <3>1, <3>2, TailFacts
    <3>4. DOMAIN s = 1..Len(actuals) - 1 /\ DOMAIN actuals = 1..Len(actuals)
      BY <1>5, <3>3, IsSeqLemma
    <3>5. ASSUME NEW m \in DOMAIN s PROVE Word(B[0] + Frame + 4 * ((n + 1) + m - 1), s[m])'
      <4>1. PICK k \in DOMAIN actuals : k = m + 1
        BY <3>3, <3>4
      <4>5. k \in Nat /\ k >= 1 /\ m \in Int
        BY <3>3, <3>4
      <4>7. n + k - 1 = (n + 1) + m - 1
        BY <4>1, <4>5
      <4>6. s[m] = actuals[m + 1]
        BY <3>3, <3>4
      <4>2. s[m] = actuals[k] /\ k \in Nat /\ k >= 1 /\ m \in Int /\ n + k - 1 = (n + 1) + m - 1
        BY <4>1, <4>5, <4>6, <4>7
      <4>3. PICK v : v = actuals[k]
        OBVIOUS
      <4>4. Word(B[0] + Frame + 4 * (n + k - 1), v)'
        BY <2>1, <4>2, <4>3, GivenWords DEF Sound
      <4> QED
        BY <4>2, <4>3, <4>4
    <3>6. n + 1 \in Nat
      OBVIOUS
    <3>7. \A m \in DOMAIN actuals' : Word(B[0] + Frame + 4 * ((n + 1) + m - 1), actuals[m])'
      BY <3>2, <3>5
    <3>8. PICK q \in Nat : q = n + 1
      BY <3>6
    <3>9. RunOf("PARAM", ipc + 1, q)
      BY <3>1, <3>8
    <3>10. \A m \in DOMAIN actuals' : Word(B[0] + Frame + 4 * (q + m - 1), actuals[m])'
      BY <3>7, <3>8
    <3> QED
      BY <3>9, <3>10
  <2> QED
    BY <1>3, <1>6, <2>2, <2>3
<1>7. \A n : RunOf("PARAM", ipc, n)' <=> RunOf("PARAM", ipc + 1, n)
  BY <1>2 DEF RunOf
<1>8. Given(B)'
  BY <1>2, <1>3, <1>5, <1>6, <1>7 DEF Given
<1> QED
  BY <1>1, <1>4, <1>8 DEF Sound

(* The program jumps to a label.                                           *)
LEMMA Arrives ==
    ASSUME Static, NEW B, Sound(B), UNCHANGED <<gvars, frames, pending, actuals>>, ipc' \in DOMAIN tac,
           tac[ipc'].kind = "LABEL",
           CurI.kind \notin {"CALL", "ARG"}, HighKept(Top(B)), Machine', Placed(env, loc)'
    PROVE  Sound(B)' /\ Top(B)' = Top(B) /\ RaOf(0)' = RaOf(0)
<1>1. Stack(B)' /\ Top(B)' = Top(B) /\ RaOf(0)' = RaOf(0)
  BY StackKept DEF Sound
<1>2. UNCHANGED tac /\ ipc \in DOMAIN tac
  BY DEF gvars, Sound, Live
<1>3. Len(pending) = 0
  BY <1>2, NoneWaiting DEF Sound, Live, CurI
<1>4. PICK j \in DOMAIN tac : j = ipc'
  OBVIOUS
<1>5. RunOf("ARG", j, 0)
  BY <1>4, NoneWaiting
<1>6. Live'
  BY <1>2, <1>3, <1>4, <1>5 DEF Live, RunOf, Sealed
<1>7. Given(B)'
  BY <1>2 DEF Sound, Given, IsSeq
<1> QED
  BY <1>1, <1>6, <1>7 DEF Sound

-----------------------------------------------------------------------------
(* Instructions that compute.                                              *)

(* Where the machine is within the lines of the current instruction.       *)
Fresh(B) == Here(0) /\ Steady(B)

Copying(B) == CurI.kind = "ASSIGN" /\ Here(1) /\ Steady(B) /\ Loaded(CurI.right, "t0")

Result == IR!Apply(CurI.kind, IR!Value(CurI.r1), IR!Value(CurI.r2))

Working(B) ==
    /\ CurI.kind \in ArithKinds /\ Steady(B)
    /\ \/ Here(1) /\ Loaded(CurI.r1, "t0")
       \/ Here(2) /\ Loaded(CurI.r1, "t0") /\ Loaded(CurI.r2, "t1")
       \/ CurI.kind = "DIV" /\ Here(3) /\ (IR!Defined(CurI.r1) /\ IR!Defined(CurI.r2) => reg["lo"] = Result)
       \/ Here(IF CurI.kind = "DIV" THEN 4 ELSE 3)
             /\ (IR!Defined(CurI.r1) /\ IR!Defined(CurI.r2) => reg["t2"] = Result)

Pointing(B) == CurI.kind = "ADDR" /\ Here(1) /\ Steady(B) /\ reg["t0"] = Address(CurI.right.char_val)
                  /\ Listed(CurI.right.char_val)

Following(B) ==
    /\ CurI.kind = "FETCH" /\ Steady(B)
    /\ \/ Here(1) /\ Loaded(CurI.raddr, "t0")
       \/ Here(2) /\ \A x \in DOMAIN loc \cap DOMAIN env : IR!Points(CurI.raddr, x) => reg["t1"] = env[x]

Comparing(B) ==
    /\ CurI.kind \in IfKinds /\ Steady(B)
    /\ \/ Here(1) /\ Loaded(CurI.c1, "t0")
       \/ Here(2) /\ Loaded(CurI.c1, "t0") /\ Loaded(CurI.c2, "t1")

Taking(B) == CurI.kind = "PARAM" /\ Here(1) /\ Steady(B) /\ (actuals # <<>> => reg["t0"] = Head(actuals))

-----------------------------------------------------------------------------
(* The fields of an instruction of each kind.                              *)
LEMMA InstFields ==
    ASSUME NEW i \in Inst
    PROVE  /\ i.kind = "ASSIGN" => i.right \in Opd /\ i.left \in VarOpd
           /\ i.kind \in ArithKinds => i.r1 \in Opd /\ i.r2 \in Opd
           /\ i.kind \in IfKinds => i.c1 \in Opd /\ i.c2 \in Opd
           /\ i.kind \in {"ARG", "RETURN", "WRITE"} => i.var \in Opd
           /\ i.kind = "FETCH" => i.raddr \in VarOpd
           /\ i.kind = "CALL" => i.ret \in VarOpd
BY DEF Inst, Opd, ScalarOpd, VarOpd, PointerOpd, ArithKinds, IfKinds

(* The current instruction is one of the list.                             *)
LEMMA CurFacts ==
    ASSUME Static, NEW B, Sound(B)
    PROVE  /\ ipc \in DOMAIN tac /\ CurI \in Inst /\ Pos[ipc] \in Nat /\ Machine /\ Placed(env, loc) /\ Stack(B)
           /\ DOMAIN reg = Reg /\ DOMAIN mem = Addresses
<1>1. ipc \in DOMAIN tac /\ Machine /\ Placed(env, loc) /\ Stack(B)
  BY DEF Sound, Live
<1>2. CurI \in Inst /\ ipc \in 1..Len(tac) + 1
  BY <1>1, BuiltFacts DEF Static, CurI
<1> QED
  BY <1>1, <1>2, PosFacts DEF Static, Machine

(* A line that sets a register of no special meaning.                      *)
LEMMA SetsStep ==
    ASSUME Static, UNCHANGED <<gvars, ivars>>, NEW B, Sound(B), Steady(B), NEW r \in Reg \ {"zero", "sp", "ra"}, NEW v, Sets(r, v)
    PROVE  /\ Sound(B)' /\ Steady(B)' /\ CurI' = CurI /\ reg'[r] = v /\ \A q \in Reg : q # r => reg'[q] = reg[q]
           /\ UNCHANGED <<env, loc, actuals, ipc>> /\ Pos' = Pos /\ pc' = pc + 1
<1>1. UNCHANGED <<env, loc, actuals, ipc, wrote>> /\ UNCHANGED <<mem, printed>>
  BY DEF ivars, Sets
<1>2. Machine' /\ reg'[r] = v /\ \A q \in Reg : q # r => reg'[q] = reg[q]
  BY MachineKept DEF Sound
<1>3. Sound(B)' /\ Top(B)' = Top(B) /\ RaOf(0)' = RaOf(0) /\ CurI' = CurI
  BY <1>1, <1>2, HighLemma, Stays
<1>4. Values'
  BY <1>1, ValuesKept DEF Steady, Sound
<1>5. reg'["sp"] = reg["sp"] /\ reg'["ra"] = reg["ra"]
  BY <1>2 DEF Reg
<1>6. Steady(B)'
  BY <1>1, <1>3, <1>4, <1>5 DEF Steady
<1> QED
  BY <1>1, <1>2, <1>3, <1>6, StaticKept DEF Sets

(* The last line of an instruction that gives a variable its value.        *)
LEMMA Binding ==
    ASSUME Static, UNCHANGED <<gvars, frames, pending, wrote>>, NEW B, Sound(B), Steady(B),
           CurI.kind \notin {"RETURN", "GOTO", "CALL", "ARG"},
           NEW x, Listed(x), NEW v, Stores(Address(x), v), env' = IR!With(env, x, v),
           ipc' = ipc + 1, pc + 1 = Pos[ipc + 1],
           UNCHANGED loc \/ Placed(env, loc)',
           CurI.kind = "PARAM" => actuals # <<>> /\ actuals' = Tail(actuals),
           CurI.kind # "PARAM" => actuals' = actuals
    PROVE  Sound(B)' /\ Fresh(B)'
<1>1. Values' /\ HighKept(Top(B)) /\ Machine' /\ Placed(env, loc)'
  BY BindStep DEF Steady
<1>2. Sound(B)' /\ Top(B)' = Top(B) /\ RaOf(0)' = RaOf(0)
  BY <1>1, Advances
<1>3. UNCHANGED <<reg, printed>> /\ pc' = pc + 1
  BY DEF Stores
<1>4. Steady(B)'
  BY <1>1, <1>2, <1>3 DEF Steady
<1>5. Pos' = Pos
  BY StaticKept
<1>6. Pos[ipc + 1] \in Nat
  <2>1. ipc' \in DOMAIN tac /\ UNCHANGED tac
    BY <1>2 DEF Sound, Live, gvars
  <2>2. ipc + 1 \in 1..Len(tac) + 1
    BY <2>1, BuiltFacts DEF Static
  <2> QED
    BY <2>2, PosFacts DEF Static
<1>7. Here(0)'
  BY <1>3, <1>5, <1>6 DEF Here
<1> QED
  BY <1>2, <1>4, <1>7 DEF Fresh

(* The lines of an ASSIGN.                                                 *)
LEMMA AssignStep ==
    ASSUME Static, RunLine, NEW B, Sound(B), CurI.kind = "ASSIGN", Fresh(B) \/ Copying(B)
    PROVE  Faults \/ (Sound(B)' /\ (Fresh(B) \/ Copying(B))')
<1>1. ipc \in DOMAIN tac /\ CurI \in Inst /\ Pos[ipc] \in Nat
  BY CurFacts
<1>2. Lines(ipc) = <<Load(CurI.right, "t0"), Swl("t0", CurI.left.char_val)>>
  BY MoveLines DEF CurI
<1>3. /\ Len(Lines(ipc)) = 2 /\ Lines(ipc)[0 + 1] = Load(CurI.right, "t0")
      /\ Lines(ipc)[1 + 1] = Swl("t0", CurI.left.char_val)
  BY <1>2
<1>4. CASE Fresh(B)
  <2>1. Execute /\ UNCHANGED <<gvars, ivars>> /\ Ins = Load(CurI.right, "t0")
    BY <1>1, <1>3, <1>4, Inside DEF Fresh
  <2>2. CurI.right \in Opd /\ UNCHANGED <<env, loc>> /\ "t0" \in Reg \ {"zero"}
    BY <1>1, <2>1, InstFields DEF ivars, Reg
  <2>5. PICK o \in Opd : o = CurI.right
    BY <2>2
  <2>3. Faults \/ \E v : Sets("t0", v) /\ Loaded(o, "t0")'
    BY <1>4, <2>1, <2>2, <2>5, OperandStep DEF Fresh, Steady
  <2>4. ASSUME NEW v, Sets("t0", v), Loaded(o, "t0")' PROVE Sound(B)' /\ Copying(B)'
    <3>1. Sound(B)' /\ Steady(B)' /\ CurI' = CurI /\ UNCHANGED ipc /\ Pos' = Pos /\ pc' = pc + 1
      BY <1>4, <2>1, <2>4, SetsStep DEF Fresh, Reg
    <3>2. Here(1)'
      BY <1>1, <1>4, <3>1 DEF Here, Fresh
    <3>3. Loaded(CurI.right, "t0")'
      BY <2>4, <2>5, <3>1
    <3> QED
      BY <3>1, <3>2, <3>3 DEF Copying
  <2> QED
    BY <2>3, <2>4
<1>5. CASE Copying(B)
  <2>1. /\ Execute /\ UNCHANGED gvars /\ Ins = Swl("t0", CurI.left.char_val)
        /\ Faults \/ IR!Run(reg["v0"], reg["t0"])
        /\ ipc # 0 /\ pc + 1 = Pos[ipc + 1] /\ Listing
    BY <1>1, <1>3, <1>5, Ending DEF Copying
  <2>2. Faults \/ Stores(Address(CurI.left.char_val), reg["t0"])
    BY <2>1, SwlStep
  <2>3. Listed(CurI.left.char_val)
    BY <2>1 DEF Listing
  <2>4. ASSUME ~Faults PROVE Sound(B)' /\ Fresh(B)'
    <3>1. /\ IR!Defined(CurI.right) /\ env' = IR!With(env, CurI.left.char_val, IR!Value(CurI.right))
          /\ ipc' = ipc + 1 /\ UNCHANGED <<actuals, pending, frames, loc, wrote>>
      BY <2>1, <2>4, RunKinds
    <3>2. PICK v : v = reg["t0"] /\ Stores(Address(CurI.left.char_val), v) /\ v = IR!Value(CurI.right)
      BY <1>5, <2>2, <2>4, <3>1 DEF Copying, Loaded
    <3>3. env' = IR!With(env, CurI.left.char_val, v)
      BY <3>1, <3>2
    <3> QED
      BY <1>5, <2>1, <2>3, <3>1, <3>2, <3>3, Binding DEF Copying
  <2> QED
    BY <2>4
<1> QED
  BY <1>4, <1>5

(* A line that loads an operand leaves its value in the register.          *)
LEMMA LoadsOperand ==
    ASSUME Static, UNCHANGED <<gvars, ivars>>, NEW B, Sound(B), Steady(B), Execute,
           NEW o \in Opd, NEW r \in {"t0", "t1", "v0", "a0"},
           \/ Ins = Load(o, r)
           \/ o \in ScalarOpd /\ Ins = IF o.kind = "OP_CONSTANT" THEN Li(r, o.int_val) ELSE Lwl(r, o.char_val)
    PROVE  \/ Faults
           \/ /\ Sound(B)' /\ Steady(B)' /\ CurI' = CurI /\ Loaded(o, r)' /\ \A q \in Reg : q # r => reg'[q] = reg[q]
              /\ UNCHANGED <<env, loc, actuals, ipc>> /\ Pos' = Pos /\ pc' = pc + 1
<1>1. r \in Reg \ {"zero"} /\ r \in Reg \ {"zero", "sp", "ra"} /\ UNCHANGED <<env, loc>>
  BY DEF Reg, ivars
<1>2. Faults \/ \E v : Sets(r, v) /\ Loaded(o, r)'
  BY <1>1, OperandStep DEF Steady
<1>3. ASSUME NEW v, Sets(r, v), Loaded(o, r)'
      PROVE  /\ Sound(B)' /\ Steady(B)' /\ CurI' = CurI /\ Loaded(o, r)' /\ \A q \in Reg : q # r => reg'[q] = reg[q]
             /\ UNCHANGED <<env, loc, actuals, ipc>> /\ Pos' = Pos /\ pc' = pc + 1
  BY <1>1, <1>3, SetsStep
<1> QED
  BY <1>2, <1>3

(* The lines of an ADD, SUB, MUL or DIV.                                   *)
LEMMA ArithStep ==
    ASSUME Static, RunLine, NEW B, Sound(B), CurI.kind \in ArithKinds, Fresh(B) \/ Working(B)
    PROVE  Faults \/ (Sound(B)' /\ (Fresh(B) \/ Working(B))')
<1>1. ipc \in DOMAIN tac /\ CurI \in Inst /\ Pos[ipc] \in Nat
  BY CurFacts
<1>2. PICK a, b \in Opd : a = CurI.r1 /\ b = CurI.r2
  BY <1>1, InstFields
<1>k. CurI.kind \in {"ADD", "SUB", "MUL", "DIV"} /\ CurI.kind # "CALL" /\ CurI.kind \notin {"RETURN", "GOTO", "CALL", "ARG", "PARAM"}
  BY DEF ArithKinds
<1>3. PICK n \in {3, 4} : n = IF CurI.kind = "DIV" THEN 4 ELSE 3
  OBVIOUS
<1>4. /\ Len(Lines(ipc)) = n + 1 /\ Lines(ipc)[0 + 1] = Load(a, "t0") /\ Lines(ipc)[1 + 1] = Load(b, "t1")
      /\ Lines(ipc)[n + 1] = Swl("t2", CurI.left.char_val)
      /\ CurI.kind = "ADD" => Lines(ipc)[2 + 1] = Alu("add", "t2", "t0", "t1")
      /\ CurI.kind = "SUB" => Lines(ipc)[2 + 1] = Alu("sub", "t2", "t0", "t1")
      /\ CurI.kind = "MUL" => Lines(ipc)[2 + 1] = Alu("mul", "t2", "t0", "t1")
      /\ CurI.kind = "DIV" => Lines(ipc)[2 + 1] = Alu("div", "lo", "t0", "t1") /\ Lines(ipc)[3 + 1] = Move("t2", "lo")
  <2>1. CASE CurI.kind = "DIV"
    <3>1. Lines(ipc) = <<Load(a, "t0"), Load(b, "t1"), Alu("div", "lo", "t0", "t1"), Move("t2", "lo"), Swl("t2", CurI.left.char_val)>>
      BY <1>2, <2>1, ArithLines DEF CurI
    <3> QED
      BY <1>3, <2>1, <3>1
  <2>2. ASSUME NEW o, Lines(ipc) = <<Load(a, "t0"), Load(b, "t1"), o, Swl("t2", CurI.left.char_val)>>
        PROVE  /\ Len(Lines(ipc)) = 4 /\ Lines(ipc)[0 + 1] = Load(a, "t0") /\ Lines(ipc)[1 + 1] = Load(b, "t1")
               /\ Lines(ipc)[3 + 1] = Swl("t2", CurI.left.char_val) /\ Lines(ipc)[2 + 1] = o
    BY <2>2
  <2>3. CASE CurI.kind = "ADD"
    <3>1. Lines(ipc) = <<Load(a, "t0"), Load(b, "t1"), Alu("add", "t2", "t0", "t1"), Swl("t2", CurI.left.char_val)>>
      BY <1>2, <2>3, ArithLines DEF CurI
    <3> QED
      BY <1>3, <2>2, <2>3, <3>1
  <2>4. CASE CurI.kind = "SUB"
    <3>1. Lines(ipc) = <<Load(a, "t0"), Load(b, "t1"), Alu("sub", "t2", "t0", "t1"), Swl("t2", CurI.left.char_val)>>
      BY <1>2, <2>4, ArithLines DEF CurI
    <3> QED
      BY <1>3, <2>2, <2>4, <3>1
  <2>5. CASE CurI.kind = "MUL"
    <3>1. Lines(ipc) = <<Load(a, "t0"), Load(b, "t1"), Alu("mul", "t2", "t0", "t1"), Swl("t2", CurI.left.char_val)>>
      BY <1>2, <2>5, ArithLines DEF CurI
    <3> QED
      BY <1>3, <2>2, <2>5, <3>1
  <2> QED
    BY <1>k, <2>1, <2>3, <2>4, <2>5
<1>5. CASE Fresh(B)
  <2>1. Execute /\ UNCHANGED <<gvars, ivars>> /\ Ins = Load(a, "t0")
    <3>1. 0 + 1 < Len(Lines(ipc))
      BY <1>3, <1>4
    <3> QED
      BY <1>1, <1>k, <1>4, <1>5, <3>1, Inside DEF Fresh
  <2>2. \/ Faults
        \/ /\ Sound(B)' /\ Steady(B)' /\ CurI' = CurI /\ Loaded(a, "t0")'
           /\ UNCHANGED ipc /\ Pos' = Pos /\ pc' = pc + 1
    BY <1>5, <2>1, LoadsOperand DEF Fresh
  <2>3. ASSUME ~Faults PROVE Sound(B)' /\ Working(B)'
    <3>1. Here(1)'
      BY <1>1, <1>5, <2>2, <2>3 DEF Here, Fresh
    <3>2. Loaded(CurI.r1, "t0")'
      BY <1>2, <2>2, <2>3
    <3> QED
      BY <2>2, <2>3, <3>1, <3>2 DEF Working
  <2> QED
    BY <2>3
<1>6. CASE Working(B) /\ Here(1) /\ Loaded(CurI.r1, "t0")
  <2>1. Execute /\ UNCHANGED <<gvars, ivars>> /\ Ins = Load(b, "t1")
    <3>1. 1 + 1 < Len(Lines(ipc))
      BY <1>3, <1>4
    <3> QED
      BY <1>1, <1>k, <1>4, <1>6, <3>1, Inside
  <2>2. \/ Faults
        \/ /\ Sound(B)' /\ Steady(B)' /\ CurI' = CurI /\ Loaded(b, "t1")' /\ \A q \in Reg : q # "t1" => reg'[q] = reg[q]
           /\ UNCHANGED <<env, loc, actuals, ipc>> /\ Pos' = Pos /\ pc' = pc + 1
    BY <1>6, <2>1, LoadsOperand DEF Working
  <2>3. ASSUME ~Faults PROVE Sound(B)' /\ Working(B)'
    <3>1. Here(2)'
      BY <1>1, <1>6, <2>2, <2>3 DEF Here
    <3>2. Loaded(CurI.r2, "t1")'
      BY <1>2, <2>2, <2>3
    <3>3. Loaded(a, "t0")'
      <4>1. reg'["t0"] = reg["t0"]
        BY <2>2, <2>3 DEF Reg
      <4> QED
        BY <1>2, <1>6, <2>2, <2>3, <4>1, LoadedKept
    <3>4. Loaded(CurI.r1, "t0")'
      BY <1>2, <2>2, <2>3, <3>3
    <3> QED
      BY <2>2, <2>3, <3>1, <3>2, <3>4 DEF Working
  <2> QED
    BY <2>3
<1>7. CASE Working(B) /\ Here(2) /\ Loaded(CurI.r1, "t0") /\ Loaded(CurI.r2, "t1")
  <2>1. Execute /\ UNCHANGED <<gvars, ivars>> /\ Ins = Lines(ipc)[2 + 1]
    <3>1. 2 + 1 < Len(Lines(ipc))
      BY <1>3, <1>4
    <3> QED
      BY <1>1, <1>k, <1>7, <3>1, Inside
  <2>2. PICK r \in {"t2", "lo"} : r = IF CurI.kind = "DIV" THEN "lo" ELSE "t2"
    OBVIOUS
  <2>3. PICK v : Sets(r, v) /\ (IR!Defined(a) /\ IR!Defined(b) => v = IR!Apply(CurI.kind, IR!Value(a), IR!Value(b)))
    <3>0. IR!Defined(a) /\ IR!Defined(b) => reg["t0"] = IR!Value(a) /\ reg["t1"] = IR!Value(b)
      BY <1>2, <1>7 DEF Loaded
    <3>1. CASE CurI.kind = "ADD"
      <4>1. Sets("t2", reg["t0"] + reg["t1"])
        BY <1>4, <2>1, <3>1, AluStep
      <4>2. \A p, q : IR!Apply("ADD", p, q) = p + q
        BY DEF IR!Apply
      <4> QED
        BY <2>2, <3>0, <3>1, <4>1, <4>2
    <3>2. CASE CurI.kind = "SUB"
      <4>1. Sets("t2", reg["t0"] - reg["t1"])
        BY <1>4, <2>1, <3>2, AluStep
      <4>2. \A p, q : IR!Apply("SUB", p, q) = p - q
        BY DEF IR!Apply
      <4> QED
        BY <2>2, <3>0, <3>2, <4>1, <4>2
    <3>3. CASE CurI.kind = "MUL"
      <4>1. Sets("t2", reg["t0"] * reg["t1"])
        BY <1>4, <2>1, <3>3, AluStep
      <4>2. \A p, q : IR!Apply("MUL", p, q) = p * q
        BY DEF IR!Apply
      <4> QED
        BY <2>2, <3>0, <3>3, <4>1, <4>2
    <3>4. CASE CurI.kind = "DIV"
      <4>1. Sets("lo", Trunc(reg["t0"], reg["t1"]))
        BY <1>4, <2>1, <3>4, AluStep
      <4>2. \A p, q : IR!Apply("DIV", p, q) = Trunc(p, q)
        BY DEF IR!Apply, IR!TruncDiv, Trunc
      <4> QED
        BY <2>2, <3>0, <3>4, <4>1, <4>2
    <3> QED
      BY <1>k, <3>1, <3>2, <3>3, <3>4
  <2>4. /\ Sound(B)' /\ Steady(B)' /\ CurI' = CurI /\ reg'[r] = v
        /\ UNCHANGED <<env, loc, actuals, ipc>> /\ Pos' = Pos /\ pc' = pc + 1
    <3>1. r \in Reg \ {"zero", "sp", "ra"}
      BY DEF Reg
    <3> QED
      BY <1>7, <2>1, <2>3, <3>1, SetsStep DEF Working
  <2>5. Here(3)'
    BY <1>1, <1>7, <2>4 DEF Here
  <2>6. (IR!Defined(CurI.r1) /\ IR!Defined(CurI.r2))' => reg'[r] = Result'
    <3>1. (IR!Defined(a) /\ IR!Defined(b))' => reg'[r] = IR!Apply(CurI.kind, IR!Value(a), IR!Value(b))'
      <4>1. \A k, p, q : IR!Apply(k, p, q)' = IR!Apply(k, p, q)
        BY DEF IR!Apply
      <4> QED
        BY <2>3, <2>4, ValueSame
    <3> QED
      BY <1>2, <2>4, <3>1 DEF Result
  <2>7. Working(B)'
    <3>1. CASE CurI.kind = "DIV"
      BY <2>2, <2>4, <2>5, <2>6, <3>1 DEF Working, ArithKinds
    <3>2. CASE CurI.kind # "DIV"
      BY <2>2, <2>4, <2>5, <2>6, <3>2 DEF Working
    <3> QED
      BY <3>1, <3>2
  <2> QED
    BY <2>4, <2>7
<1>8. CASE Working(B) /\ CurI.kind = "DIV" /\ Here(3) /\ (IR!Defined(CurI.r1) /\ IR!Defined(CurI.r2) => reg["lo"] = Result)
  <2>1. Execute /\ UNCHANGED <<gvars, ivars>> /\ Ins = Move("t2", "lo")
    <3>1. 3 + 1 < Len(Lines(ipc))
      BY <1>3, <1>4, <1>8
    <3> QED
      BY <1>1, <1>k, <1>4, <1>8, <3>1, Inside
  <2>2. Sets("t2", reg["lo"])
    BY <2>1, MoveStep
  <2>4. /\ Sound(B)' /\ Steady(B)' /\ CurI' = CurI /\ reg'["t2"] = reg["lo"]
        /\ UNCHANGED <<env, loc, actuals, ipc>> /\ Pos' = Pos /\ pc' = pc + 1
    <3>1. "t2" \in Reg \ {"zero", "sp", "ra"}
      BY DEF Reg
    <3> QED
      BY <1>8, <2>1, <2>2, <3>1, SetsStep DEF Working
  <2>5. Here(4)'
    BY <1>1, <1>8, <2>4 DEF Here
  <2>6. (IR!Defined(CurI.r1) /\ IR!Defined(CurI.r2))' => reg'["t2"] = Result'
    <3>1. (IR!Defined(a) /\ IR!Defined(b))' => reg'["t2"] = IR!Apply(CurI.kind, IR!Value(a), IR!Value(b))'
      <4>1. \A k, p, q : IR!Apply(k, p, q)' = IR!Apply(k, p, q)
        BY DEF IR!Apply
      <4> QED
        BY <1>2, <1>8, <2>4, <4>1, ValueSame DEF Result
    <3> QED
      BY <1>2, <2>4, <3>1 DEF Result
  <2>7. Working(B)'
    BY <1>8, <2>4, <2>5, <2>6 DEF Working, ArithKinds
  <2> QED
    BY <2>4, <2>7
<1>9. CASE Working(B) /\ Here(n) /\ (IR!Defined(CurI.r1) /\ IR!Defined(CurI.r2) => reg["t2"] = Result)
  <2>1. /\ Execute /\ UNCHANGED gvars /\ Ins = Swl("t2", CurI.left.char_val)
        /\ Faults \/ IR!Run(reg["v0"], reg["t0"])
        /\ ipc # 0 /\ pc + 1 = Pos[ipc + 1] /\ Listing
    <3>1. n \in Nat
      OBVIOUS
    <3> QED
      BY <1>1, <1>k, <1>4, <1>9, <3>1, Ending
  <2>2. Faults \/ Stores(Address(CurI.left.char_val), reg["t2"])
    BY <2>1, SwlStep
  <2>3. Listed(CurI.left.char_val)
    BY <2>1 DEF Listing
  <2>4. ASSUME ~Faults PROVE Sound(B)' /\ Fresh(B)'
    <3>1. /\ IR!Defined(CurI.r1) /\ IR!Defined(CurI.r2) /\ env' = IR!With(env, CurI.left.char_val, Result)
          /\ ipc' = ipc + 1 /\ UNCHANGED <<actuals, pending, frames, loc, wrote>>
      BY <2>1, <2>4, RunKinds DEF Result
    <3>2. PICK v : v = reg["t2"] /\ Stores(Address(CurI.left.char_val), v) /\ v = Result
      BY <1>9, <2>2, <2>4, <3>1
    <3>3. env' = IR!With(env, CurI.left.char_val, v)
      BY <3>1, <3>2
    <3> QED
      BY <1>9, <1>k, <2>1, <2>3, <3>1, <3>2, <3>3, Binding DEF Working
  <2> QED
    BY <2>4
<1> QED
  BY <1>3, <1>5, <1>6, <1>7, <1>8, <1>9 DEF Working

-----------------------------------------------------------------------------
(* Instructions that jump, and pointers.                                   *)

(* The last line of an instruction that changes nothing but the place.     *)
LEMMA Passing ==
    ASSUME Static, UNCHANGED <<gvars, env, actuals, pending, frames, loc, wrote>>, NEW B, Sound(B), Steady(B),
           CurI.kind \notin {"RETURN", "CALL", "ARG", "PARAM"}, NEW p, Goes(p), p = Pos[ipc'],
           \/ ipc' = ipc + 1 /\ CurI.kind # "GOTO"
           \/ ipc' \in DOMAIN tac /\ tac[ipc'].kind = "LABEL"
    PROVE  Sound(B)' /\ Fresh(B)'
<1>1. UNCHANGED <<reg, mem, printed>> /\ pc' = p
  BY DEF Goes
<1>2. Values' /\ HighKept(Top(B)) /\ Machine' /\ Placed(env, loc)'
  <2>1. PICK e, l : e = env /\ l = loc
    OBVIOUS
  <2>2. Placed(e, l)'
    BY <2>1, PlacedKept DEF Sound
  <2>3. Placed(env, loc)'
    BY <2>1, <2>2
  <2>4. Values'
    BY <1>1, ValuesKept DEF Steady, Sound
  <2>5. Machine'
    BY <1>1, MachineKept DEF Sound
  <2> QED
    BY <1>1, <2>3, <2>4, <2>5, HighLemma
<1>3. Sound(B)' /\ Top(B)' = Top(B) /\ RaOf(0)' = RaOf(0)
  BY <1>2, Advances, Arrives
<1>4. Steady(B)'
  BY <1>1, <1>2, <1>3 DEF Steady
<1>5. Pos' = Pos
  BY StaticKept
<1>6. Pos[ipc'] \in Nat
  <2>1. ipc' \in DOMAIN tac /\ UNCHANGED tac
    BY <1>3 DEF Sound, Live, gvars
  <2>2. ipc' \in 1..Len(tac) + 1
    BY <2>1, BuiltFacts DEF Static
  <2> QED
    BY <2>2, PosFacts DEF Static
<1>7. Here(0)'
  BY <1>1, <1>5, <1>6 DEF Here
<1> QED
  BY <1>3, <1>4, <1>7 DEF Fresh

(* The line of a LABEL or a FUNCTION.                                      *)
LEMMA MarkedStep ==
    ASSUME Static, RunLine, NEW B, Sound(B), CurI.kind \in {"LABEL", "FUNCTION"}, Fresh(B)
    PROVE  Faults \/ (Sound(B)' /\ Fresh(B)')
<1>1. ipc \in DOMAIN tac /\ CurI \in Inst /\ Pos[ipc] \in Nat
  BY CurFacts
<1>2. PICK l : Lines(ipc) = <<Mark(l)>>
  BY MarkLines DEF CurI
<1>3. Len(Lines(ipc)) = 0 + 1 /\ Lines(ipc)[0 + 1] = Mark(l)
  BY <1>2
<1>4. /\ Execute /\ UNCHANGED gvars /\ Ins = Mark(l)
      /\ Faults \/ IR!Run(reg["v0"], reg["t0"])
      /\ ipc # 0 /\ pc + 1 = Pos[ipc + 1] /\ Listing
  BY <1>1, <1>3, Ending DEF Fresh
<1>5. Goes(pc + 1)
  BY <1>4, MarkStep
<1>6. ASSUME ~Faults PROVE Sound(B)' /\ Fresh(B)'
  <2>1. ipc' = ipc + 1 /\ UNCHANGED <<env, actuals, pending, frames, loc, wrote>>
    BY <1>4, <1>6, RunKinds
  <2>2. PICK p : p = pc + 1
    OBVIOUS
  <2>3. p = Pos[ipc'] /\ Goes(p)
    BY <1>4, <1>5, <2>1, <2>2
  <2> QED
    BY <1>4, <2>1, <2>3, Passing DEF Fresh
<1> QED
  BY <1>6

(* The line of a GOTO.                                                     *)
LEMMA GotoStep ==
    ASSUME Static, RunLine, NEW B, Sound(B), CurI.kind = "GOTO", Fresh(B)
    PROVE  Faults \/ (Sound(B)' /\ Fresh(B)')
<1>1. ipc \in DOMAIN tac /\ CurI \in Inst /\ Pos[ipc] \in Nat
  BY CurFacts
<1>2. Lines(ipc) = <<J(CurI.labelno)>>
  BY MarkLines DEF CurI
<1>3. Len(Lines(ipc)) = 0 + 1 /\ Lines(ipc)[0 + 1] = J(CurI.labelno)
  BY <1>2
<1>4. /\ Execute /\ UNCHANGED gvars /\ Ins = J(CurI.labelno)
      /\ Faults \/ IR!Run(reg["v0"], reg["t0"])
      /\ ipc # 0 /\ pc + 1 = Pos[ipc + 1] /\ Listing
  BY <1>1, <1>3, Ending DEF Fresh
<1>5. Goes(Line(CurI.labelno))
  BY <1>4, JumpStep
<1>6. ASSUME ~Faults PROVE Sound(B)' /\ Fresh(B)'
  <2>1. ipc' = IR!LabelAt(CurI.labelno) /\ UNCHANGED <<env, actuals, pending, frames, loc, wrote>>
    BY <1>4, <1>6, RunKinds2
  <2>2. ipc' \in DOMAIN tac /\ tac[ipc'].kind = "LABEL" /\ Line(CurI.labelno) = Pos[ipc']
    BY <1>1, <2>1, LabelPlace DEF CurI
  <2>3. PICK p : p = Line(CurI.labelno)
    OBVIOUS
  <2>4. p = Pos[ipc'] /\ Goes(p)
    BY <1>5, <2>2, <2>3
  <2> QED
    BY <1>4, <2>1, <2>2, <2>4, Passing DEF Fresh
<1> QED
  BY <1>6

(* The lines of a comparison.                                              *)
LEMMA IfStep ==
    ASSUME Static, RunLine, NEW B, Sound(B), CurI.kind \in IfKinds, Fresh(B) \/ Comparing(B)
    PROVE  Faults \/ (Sound(B)' /\ (Fresh(B) \/ Comparing(B))')
<1>1. ipc \in DOMAIN tac /\ CurI \in Inst /\ Pos[ipc] \in Nat
  BY CurFacts
<1>2. PICK a, b \in Opd : a = CurI.c1 /\ b = CurI.c2
  BY <1>1, InstFields
<1>k. CurI.kind # "CALL" /\ CurI.kind \notin {"RETURN", "GOTO", "CALL", "ARG", "PARAM"}
  BY DEF IfKinds
<1>3. Lines(ipc) = <<Load(a, "t0"), Load(b, "t1"), Branch(BranchOp[CurI.kind], "t0", "t1", CurI.labelno)>>
  BY <1>2, BranchLines DEF CurI
<1>4. /\ Len(Lines(ipc)) = 3 /\ Lines(ipc)[0 + 1] = Load(a, "t0") /\ Lines(ipc)[1 + 1] = Load(b, "t1")
      /\ Lines(ipc)[2 + 1] = Branch(BranchOp[CurI.kind], "t0", "t1", CurI.labelno)
  BY <1>3
<1>5. CASE Fresh(B)
  <2>1. Execute /\ UNCHANGED <<gvars, ivars>> /\ Ins = Load(a, "t0")
    BY <1>1, <1>k, <1>4, <1>5, Inside DEF Fresh
  <2>2. \/ Faults
        \/ /\ Sound(B)' /\ Steady(B)' /\ CurI' = CurI /\ Loaded(a, "t0")'
           /\ UNCHANGED ipc /\ Pos' = Pos /\ pc' = pc + 1
    BY <1>5, <2>1, LoadsOperand DEF Fresh
  <2>3. ASSUME ~Faults PROVE Sound(B)' /\ Comparing(B)'
    <3>1. Here(1)'
      BY <1>1, <1>5, <2>2, <2>3 DEF Here, Fresh
    <3>2. Loaded(CurI.c1, "t0")'
      BY <1>2, <2>2, <2>3
    <3> QED
      BY <2>2, <2>3, <3>1, <3>2 DEF Comparing
  <2> QED
    BY <2>3
<1>6. CASE Comparing(B) /\ Here(1) /\ Loaded(CurI.c1, "t0")
  <2>1. Execute /\ UNCHANGED <<gvars, ivars>> /\ Ins = Load(b, "t1")
    BY <1>1, <1>k, <1>4, <1>6, Inside
  <2>2. \/ Faults
        \/ /\ Sound(B)' /\ Steady(B)' /\ CurI' = CurI /\ Loaded(b, "t1")' /\ \A q \in Reg : q # "t1" => reg'[q] = reg[q]
           /\ UNCHANGED <<env, loc, actuals, ipc>> /\ Pos' = Pos /\ pc' = pc + 1
    BY <1>6, <2>1, LoadsOperand DEF Comparing
  <2>3. ASSUME ~Faults PROVE Sound(B)' /\ Comparing(B)'
    <3>1. Here(2)'
      BY <1>1, <1>6, <2>2, <2>3 DEF Here
    <3>2. Loaded(CurI.c2, "t1")'
      BY <1>2, <2>2, <2>3
    <3>3. Loaded(a, "t0")'
      <4>1. reg'["t0"] = reg["t0"]
        BY <2>2, <2>3 DEF Reg
      <4> QED
        BY <1>2, <1>6, <2>2, <2>3, <4>1, LoadedKept
    <3>4. Loaded(CurI.c1, "t0")'
      BY <1>2, <2>2, <2>3, <3>3
    <3> QED
      BY <2>2, <2>3, <3>1, <3>2, <3>4 DEF Comparing
  <2> QED
    BY <2>3
<1>7. CASE Comparing(B) /\ Here(2) /\ Loaded(CurI.c1, "t0") /\ Loaded(CurI.c2, "t1")
  <2>1. /\ Execute /\ UNCHANGED gvars /\ Ins = Branch(BranchOp[CurI.kind], "t0", "t1", CurI.labelno)
        /\ Faults \/ IR!Run(reg["v0"], reg["t0"])
        /\ ipc # 0 /\ pc + 1 = Pos[ipc + 1] /\ Listing
    BY <1>1, <1>k, <1>4, <1>7, Ending
  <2>2. Goes(IF IR!Holds(CurI.kind, reg["t0"], reg["t1"]) THEN Line(CurI.labelno) ELSE pc + 1)
    BY <2>1, BranchStep
  <2>3. ASSUME ~Faults PROVE Sound(B)' /\ Fresh(B)'
    <3>1. /\ IR!Defined(a) /\ IR!Defined(b)
          /\ ipc' = IF IR!Holds(CurI.kind, IR!Value(a), IR!Value(b)) THEN IR!LabelAt(CurI.labelno) ELSE ipc + 1
          /\ UNCHANGED <<env, actuals, pending, frames, loc, wrote>>
      BY <1>2, <2>1, <2>3, RunKinds2
    <3>2. reg["t0"] = IR!Value(a) /\ reg["t1"] = IR!Value(b)
      BY <1>2, <1>7, <3>1 DEF Loaded
    <3>3. CASE IR!Holds(CurI.kind, IR!Value(a), IR!Value(b))
      <4>1. ipc' = IR!LabelAt(CurI.labelno) /\ Goes(Line(CurI.labelno))
        BY <2>2, <3>1, <3>2, <3>3
      <4>2. ipc' \in DOMAIN tac /\ tac[ipc'].kind = "LABEL" /\ Line(CurI.labelno) = Pos[ipc']
        BY <1>1, <4>1, LabelPlace DEF CurI
      <4>3. PICK p : p = Line(CurI.labelno)
        OBVIOUS
      <4>4. p = Pos[ipc'] /\ Goes(p)
        BY <4>1, <4>2, <4>3
      <4> QED
        BY <1>7, <1>k, <2>1, <3>1, <4>2, <4>4, Passing DEF Comparing
    <3>4. CASE ~IR!Holds(CurI.kind, IR!Value(a), IR!Value(b))
      <4>1. ipc' = ipc + 1 /\ Goes(pc + 1)
        BY <2>2, <3>1, <3>2, <3>4
      <4>2. PICK p : p = pc + 1
        OBVIOUS
      <4>3. p = Pos[ipc'] /\ Goes(p)
        BY <2>1, <4>1, <4>2
      <4> QED
        BY <1>7, <1>k, <2>1, <3>1, <4>1, <4>3, Passing DEF Comparing
    <3> QED
      BY <3>3, <3>4
  <2> QED
    BY <2>3
<1> QED
  BY <1>5, <1>6, <1>7 DEF Comparing

(* The lines of an ADDR.                                                   *)
LEMMA AddrStep ==
    ASSUME Static, RunLine, NEW B, Sound(B), CurI.kind = "ADDR", Fresh(B) \/ Pointing(B)
    PROVE  Faults \/ (Sound(B)' /\ (Fresh(B) \/ Pointing(B))')
<1>1. ipc \in DOMAIN tac /\ CurI \in Inst /\ Pos[ipc] \in Nat
  BY CurFacts
<1>2. PICK y : y = CurI.right.char_val
  OBVIOUS
<1>3. Lines(ipc) = <<La("t0", y), Swl("t0", CurI.left.char_val)>>
  BY <1>2, MoveLines DEF CurI
<1>4. Len(Lines(ipc)) = 2 /\ Lines(ipc)[0 + 1] = La("t0", y) /\ Lines(ipc)[1 + 1] = Swl("t0", CurI.left.char_val)
  BY <1>3
<1>5. CASE Fresh(B)
  <2>1. Execute /\ UNCHANGED <<gvars, ivars>> /\ Ins = La("t0", y) /\ Listing
    BY <1>1, <1>4, <1>5, Inside DEF Fresh
  <2>2. PICK v : Sets("t0", v) /\ v = Address(y)
    BY <2>1, LaStep
  <2>3. /\ Sound(B)' /\ Steady(B)' /\ CurI' = CurI /\ reg'["t0"] = v
        /\ UNCHANGED ipc /\ Pos' = Pos /\ pc' = pc + 1
    <3>1. "t0" \in Reg \ {"zero", "sp", "ra"}
      BY DEF Reg
    <3> QED
      BY <1>5, <2>1, <2>2, <3>1, SetsStep DEF Fresh
  <2>4. Here(1)'
    BY <1>1, <1>5, <2>3 DEF Here, Fresh
  <2>5. Listed(y)' /\ Address(y)' = Address(y)
    BY <2>1, StaticKept DEF Listing
  <2>6. Pointing(B)'
    <3>1. y = CurI'.right.char_val
      BY <1>2, <2>3
    <3>2. (reg["t0"] = Address(CurI.right.char_val) /\ Listed(CurI.right.char_val))'
      BY <2>2, <2>3, <2>5, <3>1
    <3> QED
      BY <2>3, <2>4, <3>2 DEF Pointing
  <2> QED
    BY <2>3, <2>6
<1>6. CASE Pointing(B)
  <2>1. /\ Execute /\ UNCHANGED gvars /\ Ins = Swl("t0", CurI.left.char_val)
        /\ Faults \/ IR!Run(reg["v0"], reg["t0"])
        /\ ipc # 0 /\ pc + 1 = Pos[ipc + 1] /\ Listing
    BY <1>1, <1>4, <1>6, Ending DEF Pointing
  <2>2. Faults \/ Stores(Address(CurI.left.char_val), reg["t0"])
    BY <2>1, SwlStep
  <2>3. Listed(CurI.left.char_val)
    BY <2>1 DEF Listing
  <2>4. ASSUME ~Faults PROVE Sound(B)' /\ Fresh(B)'
    <3>1. PICK v : v = reg["t0"]
      OBVIOUS
    <3>2. /\ loc' = IR!With(loc, y, v) /\ env' = IR!With(env, CurI.left.char_val, v)
          /\ ipc' = ipc + 1 /\ UNCHANGED <<actuals, pending, frames, wrote>>
      BY <1>2, <2>1, <2>4, <3>1, RunKinds
    <3>3. v = Address(y) /\ Listed(y) /\ Stores(Address(CurI.left.char_val), v)
      BY <1>2, <1>6, <2>2, <2>4, <3>1 DEF Pointing
    <3>4. Placed(env, loc)'
      <4>1. \A x : Address(x)' = Address(x) /\ (Listed(x)' <=> Listed(x))
        BY <2>1, StaticKept
      <4>2. DOMAIN loc' = DOMAIN loc \cup {y} /\ loc'[y] = v /\ \A x \in DOMAIN loc : x # y => loc'[x] = loc[x]
        BY <3>2 DEF IR!With
      <4>3. DOMAIN env' = DOMAIN env \cup {CurI.left.char_val}
        BY <3>2 DEF IR!With
      <4>4. \A x \in DOMAIN env' : Listed(x)
        BY <2>3, <4>3 DEF Sound, Placed
      <4>5. \A x \in DOMAIN loc' : Listed(x) /\ loc'[x] = Address(x)
        BY <3>3, <4>2 DEF Sound, Placed
      <4> QED
        BY <4>1, <4>4, <4>5 DEF Placed
    <3> QED
      BY <1>6, <2>1, <2>3, <3>2, <3>3, <3>4, Binding DEF Pointing
  <2> QED
    BY <2>4
<1> QED
  BY <1>5, <1>6

(* The lines of a FETCH.                                                   *)
LEMMA FetchStep ==
    ASSUME Static, RunLine, NEW B, Sound(B), CurI.kind = "FETCH", Fresh(B) \/ Following(B)
    PROVE  Faults \/ (Sound(B)' /\ (Fresh(B) \/ Following(B))')
<1>1. ipc \in DOMAIN tac /\ CurI \in Inst /\ Pos[ipc] \in Nat
  BY CurFacts
<1>2. PICK o \in Opd : o = CurI.raddr /\ o.kind = "OP_VARIABLE"
  BY <1>1, InstFields DEF VarOpd, Opd, ScalarOpd
<1>3. Lines(ipc) = <<Lwl("t0", o.char_val), Lw("t1", 0, "t0"), Swl("t1", CurI.left.char_val)>>
  BY <1>2, MoveLines DEF CurI
<1>4. /\ Len(Lines(ipc)) = 3 /\ Lines(ipc)[0 + 1] = Lwl("t0", o.char_val) /\ Lines(ipc)[1 + 1] = Lw("t1", 0, "t0")
      /\ Lines(ipc)[2 + 1] = Swl("t1", CurI.left.char_val)
  BY <1>3
<1>5. CASE Fresh(B)
  <2>1. Execute /\ UNCHANGED <<gvars, ivars>> /\ Ins = Lwl("t0", o.char_val)
    BY <1>1, <1>4, <1>5, Inside DEF Fresh
  <2>9. Ins = Load(o, "t0")
    BY <1>2, <2>1 DEF Load
  <2>2. \/ Faults
        \/ /\ Sound(B)' /\ Steady(B)' /\ CurI' = CurI /\ Loaded(o, "t0")'
           /\ UNCHANGED ipc /\ Pos' = Pos /\ pc' = pc + 1
    BY <1>5, <2>1, <2>9, LoadsOperand DEF Fresh
  <2>3. ASSUME ~Faults PROVE Sound(B)' /\ Following(B)'
    <3>1. Here(1)'
      BY <1>1, <1>5, <2>2, <2>3 DEF Here, Fresh
    <3>2. Loaded(CurI.raddr, "t0")'
      BY <1>2, <2>2, <2>3
    <3> QED
      BY <2>2, <2>3, <3>1, <3>2 DEF Following
  <2> QED
    BY <2>3
<1>6. CASE Following(B) /\ Here(1) /\ Loaded(CurI.raddr, "t0")
  <2>1. Execute /\ UNCHANGED <<gvars, ivars>> /\ Ins = Lw("t1", 0, "t0")
    BY <1>1, <1>4, <1>6, Inside
  <2>2. Faults \/ Fetches("t1", reg["t0"] + 0)
    BY <2>1, LwStep
  <2>3. ASSUME ~Faults PROVE Sound(B)' /\ Following(B)'
    <3>1. PICK a, v : a = reg["t0"] + 0 /\ v = mem[a] /\ Sets("t1", v)
      BY <2>2, <2>3 DEF Fetches
    <3>2. /\ Sound(B)' /\ Steady(B)' /\ CurI' = CurI /\ reg'["t1"] = v
          /\ UNCHANGED <<env, loc, ipc>> /\ Pos' = Pos /\ pc' = pc + 1
      <4>1. "t1" \in Reg \ {"zero", "sp", "ra"}
        BY DEF Reg
      <4> QED
        BY <1>6, <2>1, <3>1, <4>1, SetsStep DEF Following
    <3>3. Here(2)'
      BY <1>1, <1>6, <3>2 DEF Here
    <3>4. ASSUME NEW x \in DOMAIN loc \cap DOMAIN env, IR!Points(o, x)
          PROVE  v = env[x]
      <4>1. IR!Defined(o) /\ loc[x] = IR!Value(o)
        BY <3>4 DEF IR!Points
      <4>2. reg["t0"] = Address(x) /\ Address(x) \in Int
        BY <1>2, <1>6, <4>1, AddressFacts DEF Loaded, Sound, Placed
      <4>3. a = Address(x)
        BY <3>1, <4>2
      <4> QED
        BY <1>6, <3>1, <4>3 DEF Following, Steady, Values, Word
    <3>5. \A x : IR!Points(o, x)' <=> IR!Points(o, x)
      BY <3>2, ValueSame DEF IR!Points
    <3>6. (\A x \in DOMAIN loc \cap DOMAIN env : IR!Points(CurI.raddr, x) => reg["t1"] = env[x])'
      BY <1>2, <3>2, <3>4, <3>5
    <3> QED
      BY <1>6, <3>2, <3>3, <3>6 DEF Following
  <2> QED
    BY <2>3
<1>7. CASE Following(B) /\ Here(2) /\ \A x \in DOMAIN loc \cap DOMAIN env : IR!Points(CurI.raddr, x) => reg["t1"] = env[x]
  <2>1. /\ Execute /\ UNCHANGED gvars /\ Ins = Swl("t1", CurI.left.char_val)
        /\ Faults \/ IR!Run(reg["v0"], reg["t0"])
        /\ ipc # 0 /\ pc + 1 = Pos[ipc + 1] /\ Listing
    BY <1>1, <1>4, <1>7, Ending
  <2>2. Faults \/ Stores(Address(CurI.left.char_val), reg["t1"])
    BY <2>1, SwlStep
  <2>3. Listed(CurI.left.char_val)
    BY <2>1 DEF Listing
  <2>4. ASSUME ~Faults PROVE Sound(B)' /\ Fresh(B)'
    <3>1. /\ \E x \in DOMAIN loc \cap DOMAIN env :
                IR!Points(CurI.raddr, x) /\ env' = IR!With(env, CurI.left.char_val, env[x])
          /\ ipc' = ipc + 1 /\ UNCHANGED <<actuals, pending, frames, loc, wrote>>
      BY <2>1, <2>4, RunKinds
    <3>2. PICK v : v = reg["t1"]
      OBVIOUS
    <3>3. Stores(Address(CurI.left.char_val), v) /\ env' = IR!With(env, CurI.left.char_val, v)
      BY <1>7, <2>2, <2>4, <3>1, <3>2
    <3> QED
      BY <1>7, <2>1, <2>3, <3>1, <3>3, Binding DEF Following
  <2> QED
    BY <2>4
<1> QED
  BY <1>5, <1>6, <1>7 DEF Following

-----------------------------------------------------------------------------
(* Taking and pushing arguments.                                           *)

(* The lines of a PARAM: the word it loads is the argument of its number.  *)
LEMMA TakeStep ==
    ASSUME Static, RunLine, NEW B, Sound(B), CurI.kind = "PARAM", Fresh(B) \/ Taking(B)
    PROVE  Faults \/ (Sound(B)' /\ (Fresh(B) \/ Taking(B))')
<1>1. ipc \in DOMAIN tac /\ CurI \in Inst /\ Pos[ipc] \in Nat /\ ipc \in 1..Len(tac) + 1 /\ tac \in Seq(Inst)
  BY CurFacts, BuiltFacts DEF Static
<1>2. PICK off : off = 4 * ParamsBefore[ipc] + Frame
  OBVIOUS
<1>3. Lines(ipc) = <<Lw("t0", off, "sp"), Swl("t0", CurI.var.char_val)>>
  BY <1>2, MoveLines, BuiltFacts DEF CurI, Static
<1>4. /\ Len(Lines(ipc)) = 2 /\ Lines(ipc)[0 + 1] = Lw("t0", off, "sp")
      /\ Lines(ipc)[1 + 1] = Swl("t0", CurI.var.char_val)
  BY <1>3
<1>5. CASE Fresh(B)
  <2>1. Execute /\ UNCHANGED <<gvars, ivars>> /\ Ins = Lw("t0", off, "sp")
    BY <1>1, <1>4, <1>5, Inside DEF Fresh
  <2>2. Faults \/ Fetches("t0", reg["sp"] + off)
    BY <2>1, LwStep
  <2>3. ASSUME ~Faults PROVE Sound(B)' /\ Taking(B)'
    <3>1. PICK a, v : a = reg["sp"] + off /\ v = mem[a] /\ Sets("t0", v)
      BY <2>2, <2>3 DEF Fetches
    <3>2. /\ Sound(B)' /\ Steady(B)' /\ CurI' = CurI /\ reg'["t0"] = v
          /\ UNCHANGED <<actuals, ipc>> /\ Pos' = Pos /\ pc' = pc + 1
      <4>1. "t0" \in Reg \ {"zero", "sp", "ra"}
        BY DEF Reg
      <4> QED
        BY <1>5, <2>1, <3>1, <4>1, SetsStep DEF Fresh
    <3>3. Here(1)'
      BY <1>1, <1>5, <3>2 DEF Here, Fresh
    <3>4. ASSUME actuals # <<>> PROVE v = Head(actuals)
      <4>1. PICK n \in Nat : /\ RunOf("PARAM", ipc, n)
                             /\ \A m \in DOMAIN actuals : Word(B[0] + Frame + 4 * (n + m - 1), actuals[m])
        BY DEF Sound, Given, CurI
      <4>2. ParamsBefore[ipc] = n
        BY <1>1, <4>1, RunLength
      <4>3. Top(B) = B[0] /\ B[0] \in Int /\ Frame \in Int
        <5>1. Len(pending) = 0
          BY <1>1, NoneWaiting DEF Sound, Live, CurI
        <5> QED
          BY <5>1, TopFacts DEF Sound, Top, Frame
      <4>4. 1 \in DOMAIN actuals /\ Head(actuals) = actuals[1]
        <5>1. IsSeq(actuals)
          BY DEF Sound, Given
        <5> QED
          BY <3>4, <5>1, TailFacts, IsSeqLemma
      <4>5. Word(B[0] + Frame + 4 * (n + 1 - 1), actuals[1])
        BY <4>1, <4>4
      <4>6. a = B[0] + Frame + 4 * (n + 1 - 1)
        <5>1. a = B[0] + (4 * n + Frame)
          BY <1>2, <1>5, <3>1, <4>2, <4>3 DEF Fresh, Steady
        <5> QED
          BY <4>3, <5>1
      <4> QED
        BY <3>1, <4>4, <4>5, <4>6 DEF Word
    <3>5. (actuals # <<>> => reg["t0"] = Head(actuals))'
      BY <3>2, <3>4
    <3> QED
      BY <3>2, <3>3, <3>5 DEF Taking
  <2> QED
    BY <2>3
<1>6. CASE Taking(B)
  <2>1. /\ Execute /\ UNCHANGED gvars /\ Ins = Swl("t0", CurI.var.char_val)
        /\ Faults \/ IR!Run(reg["v0"], reg["t0"])
        /\ ipc # 0 /\ pc + 1 = Pos[ipc + 1] /\ Listing
    BY <1>1, <1>4, <1>6, Ending DEF Taking
  <2>2. Faults \/ Stores(Address(CurI.var.char_val), reg["t0"])
    BY <2>1, SwlStep
  <2>3. Listed(CurI.var.char_val)
    BY <2>1 DEF Listing
  <2>4. ASSUME ~Faults PROVE Sound(B)' /\ Fresh(B)'
    <3>1. /\ actuals # <<>> /\ env' = IR!With(env, CurI.var.char_val, Head(actuals)) /\ actuals' = Tail(actuals)
          /\ ipc' = ipc + 1 /\ UNCHANGED <<pending, frames, loc, wrote>>
      BY <2>1, <2>4, RunKinds2
    <3>2. PICK v : v = reg["t0"] /\ Stores(Address(CurI.var.char_val), v) /\ v = Head(actuals)
      BY <1>6, <2>2, <2>4, <3>1 DEF Taking
    <3>3. env' = IR!With(env, CurI.var.char_val, v)
      BY <3>1, <3>2
    <3> QED
      BY <1>6, <2>1, <2>3, <3>1, <3>2, <3>3, Binding DEF Taking
  <2> QED
    BY <2>4
<1> QED
  BY <1>5, <1>6

-----------------------------------------------------------------------------
(* A line that moves the machine only: a register, or a word below the top *)
(* of the stack, receives a value.                                         *)
Alone(B) ==
    \/ UNCHANGED <<reg, mem>>
    \/ \E r \in Reg \ {"zero"} : \E v : reg' = [reg EXCEPT ![r] = v] /\ UNCHANGED mem
    \/ \E a, v : Stores(a, v) /\ a > 4 * Size /\ ~(a >= Top(B))

(* A PARAM reads no argument of another activation.                        *)
LEMMA AloneStep ==
    ASSUME Static, UNCHANGED <<gvars, ivars>>, NEW B, Sound(B), Values, Alone(B)
    PROVE  /\ Sound(B)' /\ Values' /\ Top(B)' = Top(B) /\ RaOf(0)' = RaOf(0) /\ CurI' = CurI /\ Pos' = Pos
           /\ UNCHANGED <<ipc, env, loc, actuals, wrote>>
           /\ \A o, r : Loaded(o, r) /\ reg'[r] = reg[r] => Loaded(o, r)'
           /\ \A o : IR!Value(o)' = IR!Value(o) /\ (IR!Defined(o)' <=> IR!Defined(o))
           /\ \A a, v : Word(a, v) /\ UNCHANGED mem => Word(a, v)'
<1>1. UNCHANGED <<ipc, env, loc, actuals, wrote>> /\ Machine /\ Placed(env, loc)
  BY DEF ivars, Sound
<1>2. Machine' /\ HighKept(Top(B)) /\ Values'
  <2>1. CASE UNCHANGED <<reg, mem>>
    BY <1>1, <2>1, MachineKept, HighLemma, ValuesKept
  <2>2. ASSUME NEW r \in Reg \ {"zero"}, NEW v, reg' = [reg EXCEPT ![r] = v], UNCHANGED mem
        PROVE  Machine' /\ HighKept(Top(B)) /\ Values'
    <3>1. Addresses' = Addresses
      BY StaticKept
    <3>2. Machine'
      BY <1>1, <2>2, <3>1 DEF Machine
    <3> QED
      BY <1>1, <2>2, <3>2, HighLemma, ValuesKept
  <2>3. ASSUME NEW a, NEW v, Stores(a, v), a > 4 * Size, ~(a >= Top(B))
        PROVE  Machine' /\ HighKept(Top(B)) /\ Values'
    BY <1>1, <2>3, MachineKept, HighLemma, ValuesKept DEF Stores
  <2> QED
    BY <2>1, <2>2, <2>3 DEF Alone
<1>3. Sound(B)' /\ Top(B)' = Top(B) /\ RaOf(0)' = RaOf(0) /\ CurI' = CurI
  BY <1>2, Stays
<1>4. Pos' = Pos
  BY StaticKept
<1>5. ASSUME NEW o, NEW r, Loaded(o, r), reg'[r] = reg[r] PROVE Loaded(o, r)'
  BY <1>1, <1>5, LoadedKept
<1>6. \A o : IR!Value(o)' = IR!Value(o) /\ (IR!Defined(o)' <=> IR!Defined(o))
  BY <1>1, ValueSame
<1>7. \A a, v : Word(a, v) /\ UNCHANGED mem => Word(a, v)'
  BY DEF Word
<1> QED
  BY <1>1, <1>2, <1>3, <1>4, <1>5, <1>6, <1>7

(* A register that is set and the ones that are not.                       *)
LEMMA RegSet ==
    ASSUME Machine, NEW r \in Reg \ {"zero"}, NEW v, reg' = [reg EXCEPT ![r] = v]
    PROVE  reg'[r] = v /\ \A q \in Reg : q # r => reg'[q] = reg[q]
BY DEF Machine

(* sp is about to go down, or has gone down, to the word of the argument.  *)
Pushing(B) ==
    /\ CurI.kind = "ARG" /\ Loaded(CurI.var, "t0")
    /\ reg["ra"] = RaOf(0) /\ printed = wrote /\ Values
    /\ \/ Here(1) /\ reg["sp"] = Top(B)
       \/ Here(2) /\ reg["sp"] = Top(B) - 4

(* The arguments with one more in front.                                   *)
LEMMA Prepended ==
    ASSUME NEW s, IsSeq(s), NEW v
    PROVE  /\ IsSeq(<<v>> \o s) /\ Len(<<v>> \o s) = Len(s) + 1 /\ DOMAIN (<<v>> \o s) = 1..Len(s) + 1
           /\ (<<v>> \o s)[1] = v /\ \A k \in 1..Len(s) : (<<v>> \o s)[k + 1] = s[k]
<1>1. PICK S : S = {s[k] : k \in DOMAIN s} \cup {v}
  OBVIOUS
<1>2. s \in Seq(S) /\ <<v>> \in Seq(S)
  BY <1>1 DEF IsSeq
<1>3. PICK u : u = <<v>> \o s
  OBVIOUS
<1>4. /\ u \in Seq(S) /\ Len(u) = Len(s) + 1 /\ Len(s) \in Nat /\ DOMAIN u = 1..Len(s) + 1
      /\ u[1] = v /\ \A k \in 1..Len(s) : u[k + 1] = s[k]
  BY <1>2, <1>3
<1>5. IsSeq(u)
  BY <1>4, SeqLemma
<1> QED
  BY <1>3, <1>4, <1>5

(* The lines of an ARG.                                                    *)
LEMMA PushStep ==
    ASSUME Static, RunLine, NEW B, Sound(B), CurI.kind = "ARG", Fresh(B) \/ Pushing(B)
    PROVE  Faults \/ (Sound(B)' /\ (Fresh(B) \/ Pushing(B))')
<1>1. ipc \in DOMAIN tac /\ CurI \in Inst /\ Pos[ipc] \in Nat /\ Machine
  BY CurFacts
<1>2. PICK o \in Opd : o = CurI.var
  BY <1>1, InstFields
<1>3. Lines(ipc) = <<Load(o, "t0"), Addi("sp", "sp", -4), Sw("t0", 0, "sp")>>
  BY <1>2, MoveLines DEF CurI
<1>4. /\ Len(Lines(ipc)) = 3 /\ Lines(ipc)[0 + 1] = Load(o, "t0") /\ Lines(ipc)[1 + 1] = Addi("sp", "sp", -4)
      /\ Lines(ipc)[2 + 1] = Sw("t0", 0, "sp")
  BY <1>3
<1>t. Top(B) \in Int
  BY TopFacts DEF Sound
<1>5. CASE Fresh(B)
  <2>1. Execute /\ UNCHANGED <<gvars, ivars>> /\ Ins = Load(o, "t0")
    BY <1>1, <1>4, <1>5, Inside DEF Fresh
  <2>2. \/ Faults
        \/ /\ Sound(B)' /\ Steady(B)' /\ CurI' = CurI /\ Loaded(o, "t0")'
           /\ UNCHANGED ipc /\ Pos' = Pos /\ pc' = pc + 1
    BY <1>5, <2>1, LoadsOperand DEF Fresh
  <2>3. ASSUME ~Faults PROVE Sound(B)' /\ Pushing(B)'
    <3>1. Here(1)'
      BY <1>1, <1>5, <2>2, <2>3 DEF Here, Fresh
    <3>2. Loaded(CurI.var, "t0")'
      BY <1>2, <2>2, <2>3
    <3> QED
      BY <2>2, <2>3, <3>1, <3>2 DEF Pushing, Steady
  <2> QED
    BY <2>3
<1>6. CASE Pushing(B) /\ Here(1) /\ reg["sp"] = Top(B)
  <2>1. Execute /\ UNCHANGED <<gvars, ivars>> /\ Ins = Addi("sp", "sp", -4)
    BY <1>1, <1>4, <1>6, Inside
  <2>2. PICK v : Sets("sp", v) /\ v = reg["sp"] + (-4)
    BY <2>1, AddiStep
  <2>3. Alone(B)
    BY <2>2 DEF Alone, Sets, Reg
  <2>4. /\ Sound(B)' /\ Values' /\ Top(B)' = Top(B) /\ RaOf(0)' = RaOf(0) /\ CurI' = CurI /\ Pos' = Pos
        /\ UNCHANGED <<ipc, wrote>> /\ (Loaded(o, "t0") /\ reg'["t0"] = reg["t0"] => Loaded(o, "t0")')
    BY <1>6, <2>1, <2>3, AloneStep DEF Pushing
  <2>5. reg'["sp"] = Top(B) - 4 /\ reg'["t0"] = reg["t0"] /\ reg'["ra"] = reg["ra"]
    <3>1. reg'["sp"] = v /\ \A q \in Reg : q # "sp" => reg'[q] = reg[q]
      BY <1>1, <2>2, RegSet DEF Sets, Reg
    <3> QED
      BY <1>6, <1>t, <2>2, <3>1 DEF Reg
  <2>6. Here(2)'
    BY <1>1, <1>6, <2>2, <2>4 DEF Here, Sets
  <2>7. Loaded(CurI.var, "t0")'
    BY <1>2, <1>6, <2>4, <2>5 DEF Pushing
  <2>8. Pushing(B)'
    BY <1>6, <2>2, <2>4, <2>5, <2>6, <2>7 DEF Pushing, Sets
  <2> QED
    BY <2>4, <2>8
<1>7. CASE Pushing(B) /\ Here(2) /\ reg["sp"] = Top(B) - 4
  <2>1. /\ Execute /\ UNCHANGED gvars /\ Ins = Sw("t0", 0, "sp")
        /\ Faults \/ IR!Run(reg["v0"], reg["t0"])
        /\ ipc # 0 /\ pc + 1 = Pos[ipc + 1]
    BY <1>1, <1>4, <1>7, Ending
  <2>2. Faults \/ Stores(reg["sp"] + 0, reg["t0"])
    BY <2>1, SwStep
  <2>3. ASSUME ~Faults PROVE Sound(B)' /\ Fresh(B)'
    <3>1. /\ IR!Defined(CurI.var) /\ pending' = <<IR!Value(CurI.var)>> \o pending
          /\ ipc' = ipc + 1 /\ UNCHANGED <<env, actuals, frames, loc, wrote>>
      BY <2>1, <2>3, RunKinds2
    <3>2. PICK a, v : a = Top(B) - 4 /\ a \in Int /\ Stores(a, v) /\ v = IR!Value(CurI.var)
      BY <1>7, <1>t, <2>2, <2>3, <3>1 DEF Pushing, Loaded
    <3>3. /\ Stack(B) /\ 8 * Size + 4 < Top(B) /\ Size \in Nat /\ Len(pending) \in Nat /\ StackLow \in Int
          /\ B[0] \in Int /\ Placed(env, loc) /\ DOMAIN pending = 1..Len(pending)
      BY TopFacts DEF Sound
    <3>4. a > 4 * Size /\ ~(a >= Top(B))
      BY <1>t, <3>2, <3>3
    <3>5. /\ IsSeq(pending') /\ Len(pending') = Len(pending) + 1 /\ DOMAIN pending' = 1..Len(pending) + 1
          /\ pending'[1] = v /\ \A k \in 1..Len(pending) : pending'[k + 1] = pending[k]
      <4>1. PICK s : s = pending /\ IsSeq(s)
        BY <3>3 DEF Stack
      <4>2. pending' = <<v>> \o s
        BY <3>1, <3>2, <4>1
      <4> QED
        BY <4>1, <4>2, Prepended
    <3>6. Machine' /\ mem'[a] = v /\ HighKept(Top(B)) /\ Values' /\ UNCHANGED <<reg, printed>> /\ pc' = pc + 1
          /\ DOMAIN mem = Addresses /\ Addresses' = Addresses
      <4>1. Machine' /\ mem'[a] = v
        BY <1>1, <2>1, <3>2, MachineKept
      <4>2. HighKept(Top(B))
        BY <3>2, <3>4, HighLemma DEF Stores
      <4>3. Values'
        BY <1>7, <2>1, <3>1, <3>2, <3>3, <3>4, ValuesKept DEF Pushing
      <4> QED
        BY <1>1, <2>1, <3>2, <4>1, <4>2, <4>3, StaticKept DEF Stores, Machine
    <3>7. Top(B)' = a
      BY <1>t, <3>2, <3>3, <3>5 DEF Top
    <3>8. StackLow <= a
      <4>1. a \in Addresses
        BY <1>1, <3>2 DEF Stores, Machine
      <4> QED
        BY <3>4, <4>1, AddressFacts
    <3>9. Suspended(B)' /\ IsSeq(frames)' /\ RaOf(0)' = RaOf(0)
      BY <2>1, <3>1, <3>3, <3>6, SuspendedKept
    <3>10. ASSUME NEW k \in DOMAIN pending'
           PROVE  Word(a + 4 * (k - 1), pending[k])'
      <4>1. CASE k = 1
        <5>1. a + 4 * (k - 1) = a
          BY <3>2, <4>1
        <5> QED
          BY <1>1, <3>2, <3>5, <3>6, <4>1, <5>1 DEF Word, Stores
      <4>2. CASE k # 1
        <5>1. PICK j \in 1..Len(pending) : k = j + 1
          <6>1. k - 1 \in 1..Len(pending) /\ k = (k - 1) + 1
            BY <3>3, <3>5, <4>2
          <6> QED
            BY <6>1
        <5>2. Word(Top(B) + 4 * (j - 1), pending[j])
          BY <3>3 DEF Stack
        <5>3. PICK b, u : b = Top(B) + 4 * (j - 1) /\ u = pending[j]
          OBVIOUS
        <5>4. b >= Top(B) /\ b = a + 4 * (k - 1)
          BY <1>t, <3>2, <3>3, <5>1, <5>3
        <5>5. Word(b, u)'
          BY <3>6, <5>2, <5>3, <5>4, WordKept
        <5>6. u = pending'[k]
          BY <3>5, <5>1, <5>3
        <5> QED
          BY <5>4, <5>5, <5>6 DEF Word
      <4> QED
        BY <4>1, <4>2
    <3>11. Stack(B)'
      <4>1. IsSeq(pending)'
        BY <3>5 DEF IsSeq
      <4>2. StackLow' = StackLow
        BY DEF StackLow, StackTop
      <4>3. (\A k \in DOMAIN pending : Word(Top(B) + 4 * (k - 1), pending[k]))'
        <5>1. ASSUME NEW k \in DOMAIN pending' PROVE Word(Top(B) + 4 * (k - 1), pending[k])'
          BY <3>7, <3>10 DEF Word
        <5> QED
          BY <5>1
      <4> QED
        BY <3>7, <3>8, <3>9, <4>1, <4>2, <4>3 DEF Stack
    <3>12. /\ UNCHANGED tac /\ ipc + 1 \in DOMAIN tac /\ ~Sealed(tac, ipc + 1) /\ tac[ipc + 1].kind \notin {"FUNCTION", "PARAM"}
           /\ RunOf("ARG", ipc + 1, Len(pending) + 1)
      <4>1. UNCHANGED tac /\ (Sealed(tac, ipc) => CurI.kind \in {"LABEL", "FUNCTION"}) /\ RunOf("ARG", ipc, Len(pending))
        BY <2>1 DEF gvars, Sound, Live, CurI
      <4> QED
        BY <1>1, <3>3, <4>1, Follows DEF CurI
    <3>13. Live'
      BY <3>1, <3>5, <3>12 DEF Live, RunOf, Sealed
    <3>14. Given(B)'
      <4>1. IsSeq(actuals)
        BY DEF Sound, Given
      <4>2. IsSeq(actuals)'
        BY <3>1, <4>1 DEF IsSeq
      <4> QED
        BY <3>1, <3>12, <4>2 DEF Given
    <3>15. Placed(env, loc)'
      <4>1. PICK e, l : e = env /\ l = loc
        OBVIOUS
      <4>2. Placed(e, l)'
        BY <2>1, <3>3, <4>1, PlacedKept
      <4> QED
        BY <3>1, <4>1, <4>2
    <3>16. Sound(B)'
      BY <3>6, <3>11, <3>13, <3>14, <3>15 DEF Sound
    <3>17. Fresh(B)'
      <4>1. Pos' = Pos /\ Pos[ipc + 1] \in Nat
        <5>1. ipc + 1 \in 1..Len(tac) + 1
          BY <3>12, BuiltFacts DEF Static
        <5> QED
          BY <2>1, <5>1, StaticKept, PosFacts DEF Static
      <4>2. Here(0)'
        BY <2>1, <3>1, <3>6, <4>1 DEF Here
      <4>3. Steady(B)'
        BY <1>7, <3>1, <3>2, <3>6, <3>7, <3>9 DEF Steady, Pushing
      <4> QED
        BY <4>2, <4>3 DEF Fresh
    <3> QED
      BY <3>16, <3>17
  <2> QED
    BY <2>3
<1> QED
  BY <1>5, <1>6, <1>7 DEF Pushing

-----------------------------------------------------------------------------
(* READ and WRITE: a routine of the runtime is called.                     *)

(* Lines o to o + 4 of a READ (o = 0) or a WRITE (o = 1) call a routine of *)
(* the runtime, whose lines are first to last; $ra is in the word below.   *)
FirstOf(o) == IF o = 0 THEN 1 ELSE 5
LastOf(o) == IF o = 0 THEN 4 ELSE 9

Around(B, o) ==
    /\ reg["sp"] = Top(B) - 4 /\ Values
    /\ \/ Here(o + 1) /\ reg["ra"] = RaOf(0)
       \/ Here(o + 2) /\ Word(Top(B) - 4, RaOf(0))
       \/ pc \in FirstOf(o)..LastOf(o) /\ reg["ra"] = Pos[ipc] + o + 3 /\ Word(Top(B) - 4, RaOf(0))
       \/ Here(o + 3) /\ Word(Top(B) - 4, RaOf(0))
       \/ Here(o + 4) /\ reg["ra"] = RaOf(0)

Reading(B) ==
    /\ CurI.kind = "READ" /\ printed = wrote
    /\ Around(B, 0) \/ (Here(5) /\ Steady(B))

Written == IF pc \in 7..9 \/ Here(4) \/ Here(5)
           THEN printed = Append(wrote, IR!Value(CurI.var))
           ELSE printed = wrote /\ reg["a0"] = IR!Value(CurI.var)

Writing(B) ==
    /\ CurI.kind = "WRITE" /\ (IR!Defined(CurI.var) => Written)
    /\ Around(B, 1) \/ (Here(1) /\ Steady(B))

-----------------------------------------------------------------------------
(* What AloneStep says, for a line that sets a register.                   *)
LEMMA SetStep ==
    ASSUME Static, UNCHANGED <<gvars, ivars>>, NEW B, Sound(B), Values,
           NEW r \in Reg \ {"zero"}, NEW v, reg' = [reg EXCEPT ![r] = v], UNCHANGED mem
    PROVE  /\ Sound(B)' /\ Values' /\ Top(B)' = Top(B) /\ RaOf(0)' = RaOf(0) /\ CurI' = CurI /\ Pos' = Pos
           /\ UNCHANGED <<ipc, env, loc, actuals, wrote>>
           /\ \A o, q : Loaded(o, q) /\ reg'[q] = reg[q] => Loaded(o, q)'
           /\ \A o : IR!Value(o)' = IR!Value(o) /\ (IR!Defined(o)' <=> IR!Defined(o))
           /\ \A a, w : Word(a, w) => Word(a, w)'
           /\ reg'[r] = v /\ \A q \in Reg : q # r => reg'[q] = reg[q]
<1>1. Alone(B)
  BY DEF Alone
<1>2. reg'[r] = v /\ \A q \in Reg : q # r => reg'[q] = reg[q]
  BY RegSet DEF Sound
<1> QED
  BY <1>1, <1>2, AloneStep

(* A line that changes only the place.                                     *)
LEMMA SkipStep ==
    ASSUME Static, UNCHANGED <<gvars, ivars>>, NEW B, Sound(B), Values, UNCHANGED <<reg, mem>>
    PROVE  /\ Sound(B)' /\ Values' /\ Top(B)' = Top(B) /\ RaOf(0)' = RaOf(0) /\ CurI' = CurI /\ Pos' = Pos
           /\ UNCHANGED <<ipc, env, loc, actuals, wrote>>
           /\ \A o, q : Loaded(o, q) => Loaded(o, q)'
           /\ \A o : IR!Value(o)' = IR!Value(o) /\ (IR!Defined(o)' <=> IR!Defined(o))
           /\ \A a, w : Word(a, w) => Word(a, w)'
<1>1. Alone(B)
  BY DEF Alone
<1> QED
  BY <1>1, AloneStep

(* The line that puts $ra in the word below the stack.                     *)
LEMMA StoreStep ==
    ASSUME Static, UNCHANGED <<gvars, ivars>>, NEW B, Sound(B), Values,
           NEW a, NEW v, Stores(a, v), a > 4 * Size, ~(a >= Top(B))
    PROVE  /\ Sound(B)' /\ Values' /\ Top(B)' = Top(B) /\ RaOf(0)' = RaOf(0) /\ CurI' = CurI /\ Pos' = Pos
           /\ UNCHANGED <<ipc, env, loc, actuals, wrote>>
           /\ \A o, q : Loaded(o, q) => Loaded(o, q)'
           /\ \A o : IR!Value(o)' = IR!Value(o) /\ (IR!Defined(o)' <=> IR!Defined(o))
           /\ Word(a, v)'
<1>1. Alone(B)
  BY DEF Alone
<1>2. Word(a, v)'
  BY DEF Stores, Word
<1>3. UNCHANGED reg
  BY DEF Stores
<1> QED
  BY <1>1, <1>2, <1>3, AloneStep

-----------------------------------------------------------------------------
(* The routine of the runtime.                                             *)
Unmoved == ipc' = ipc /\ CurI' = CurI /\ Pos' = Pos /\ UNCHANGED <<wrote, env, loc>>

(* A line of the routine that is called.                                   *)
LEMMA RoutineStep ==
    ASSUME Static, Execute, UNCHANGED <<gvars, ivars>>, NEW B, Sound(B), Values, NEW o \in {0, 1},
           reg["sp"] = Top(B) - 4, pc \in FirstOf(o)..LastOf(o), reg["ra"] = Pos[ipc] + o + 3, Word(Top(B) - 4, RaOf(0))
    PROVE  /\ Sound(B)' /\ Around(B, o)' /\ Unmoved
           /\ reg'["a0"] = reg["a0"] /\ printed' = IF pc = 6 THEN Append(printed, reg["a0"]) ELSE printed
           /\ pc' = IF pc = LastOf(o) THEN Pos[ipc] + o + 3 ELSE pc + 1
           /\ \A x : IR!Value(x)' = IR!Value(x) /\ (IR!Defined(x)' <=> IR!Defined(x))
<1>1. Machine /\ pc \in {1, 2, 3, 4, 5, 6, 7, 8, 9} /\ Pos[ipc] \in Nat
  BY CurFacts DEF FirstOf, LastOf
<1>2. CASE Ins = Jr
  <2>1. pc' = Pos[ipc] + o + 3 /\ UNCHANGED <<reg, mem, printed>>
    BY <1>2, JrStep
  <2>2. /\ Sound(B)' /\ Values' /\ Top(B)' = Top(B) /\ RaOf(0)' = RaOf(0) /\ Unmoved
        /\ Word(Top(B) - 4, RaOf(0))'
        /\ \A x : IR!Value(x)' = IR!Value(x) /\ (IR!Defined(x)' <=> IR!Defined(x))
    BY <2>1, SkipStep DEF Unmoved, Word
  <2>3. pc = LastOf(o)
    BY <1>1, <1>2, RuntimePlace DEF FirstOf, LastOf, Ins, Jr, Mark, Syscall, Move
  <2>4. Here(o + 3)'
    <3>1. pc' = Pos[ipc] + (o + 3)
      BY <1>1, <2>1
    <3> QED
      BY <2>2, <3>1 DEF Here, Unmoved
  <2>5. Around(B, o)'
    BY <2>1, <2>2, <2>4 DEF Around
  <2>6. pc # 6
    BY <2>3 DEF LastOf
  <2> QED
    BY <2>1, <2>2, <2>3, <2>5, <2>6
<1>3. CASE Ins # Jr
  <2>1. pc # LastOf(o) /\ pc + 1 \in FirstOf(o)..LastOf(o)
    BY <1>1, <1>3, RuntimePlace DEF FirstOf, LastOf, Ins
  <2>2. pc' = pc + 1 /\ UNCHANGED mem
        /\ printed' = (IF pc = 6 THEN Append(printed, reg["a0"]) ELSE printed)
        /\ ((\E v : reg' = [reg EXCEPT !["v0"] = v]) \/ UNCHANGED reg)
    <3>1. CASE pc \in {1, 5}
      <4>1. \E l : Ins = Mark(l)
        BY <3>1, RuntimePlace DEF Ins
      <4> QED
        BY <3>1, <4>1, MarkStep DEF Goes
    <3>2. CASE pc \in {2, 3, 6, 7}
      <4>1. Ins = Syscall(IF pc = 2 THEN 4 ELSE IF pc = 3 THEN 5 ELSE IF pc = 6 THEN 1 ELSE 4)
        BY <3>2, RuntimePlace DEF Ins
      <4> QED
        BY <3>2, <4>1, SyscallStep
    <3>3. CASE pc = 8
      <4>1. Ins = Move("v0", "zero")
        BY <3>3, RuntimePlace DEF Ins
      <4> QED
        BY <3>3, <4>1, MoveStep DEF Sets
    <3>4. pc \notin {4, 9}
      BY <1>3, RuntimePlace DEF Ins
    <3> QED
      BY <1>1, <3>1, <3>2, <3>3, <3>4
  <2>3. /\ Sound(B)' /\ Values' /\ Top(B)' = Top(B) /\ RaOf(0)' = RaOf(0) /\ Unmoved
        /\ Word(Top(B) - 4, RaOf(0))'
        /\ \A x : IR!Value(x)' = IR!Value(x) /\ (IR!Defined(x)' <=> IR!Defined(x))
        /\ reg'["a0"] = reg["a0"] /\ reg'["sp"] = reg["sp"] /\ reg'["ra"] = reg["ra"]
    <3>1. CASE UNCHANGED reg
      BY <2>2, <3>1, SkipStep DEF Unmoved, Word
    <3>2. ASSUME NEW v, reg' = [reg EXCEPT !["v0"] = v]
          PROVE  /\ Sound(B)' /\ Values' /\ Top(B)' = Top(B) /\ RaOf(0)' = RaOf(0) /\ Unmoved
                 /\ Word(Top(B) - 4, RaOf(0))'
                 /\ \A x : IR!Value(x)' = IR!Value(x) /\ (IR!Defined(x)' <=> IR!Defined(x))
                 /\ reg'["a0"] = reg["a0"] /\ reg'["sp"] = reg["sp"] /\ reg'["ra"] = reg["ra"]
      <4>1. "v0" \in Reg \ {"zero"} /\ {"a0", "sp", "ra"} \subseteq Reg
        BY DEF Reg
      <4>2. PICK r \in Reg \ {"zero"} : r = "v0" /\ reg' = [reg EXCEPT ![r] = v]
        BY <3>2, <4>1
      <4>3. /\ Sound(B)' /\ Values' /\ Top(B)' = Top(B) /\ RaOf(0)' = RaOf(0) /\ Unmoved
            /\ \A x : IR!Value(x)' = IR!Value(x) /\ (IR!Defined(x)' <=> IR!Defined(x))
            /\ \A q \in Reg : q # r => reg'[q] = reg[q]
        BY <2>2, <4>2, SetStep DEF Unmoved
      <4> QED
        BY <2>2, <4>1, <4>2, <4>3 DEF Word
    <3> QED
      BY <2>2, <3>1, <3>2
  <2>4. Around(B, o)'
    <3>1. pc' \in FirstOf(o)..LastOf(o) /\ reg'["ra"] = Pos'[ipc'] + o + 3
      BY <2>1, <2>2, <2>3 DEF Unmoved
    <3> QED
      BY <2>3, <3>1 DEF Around
  <2> QED
    BY <2>1, <2>2, <2>3, <2>4
<1> QED
  BY <1>2, <1>3

(* The word below the top is free.                                         *)
LEMMA BelowFacts ==
    ASSUME Static, NEW B, Stack(B)
    PROVE  /\ Top(B) \in Int /\ Top(B) - 4 \in Int /\ Top(B) - 4 > 4 * Size /\ ~(Top(B) - 4 >= Top(B))
           /\ Top(B) - 4 + 0 = Top(B) - 4 /\ Top(B) + (-4) = Top(B) - 4 /\ Top(B) - 4 + 4 = Top(B)
BY TopFacts

(* The first of the five lines.                                            *)
LEMMA LowerStep ==
    ASSUME Static, Execute, UNCHANGED <<gvars, ivars>>, NEW B, Sound(B), Steady(B), NEW o \in {0, 1},
           Here(o), Ins = Addi("sp", "sp", -4)
    PROVE  /\ Sound(B)' /\ Around(B, o)' /\ Here(o + 1)' /\ Unmoved /\ reg'["a0"] = reg["a0"] /\ UNCHANGED printed
           /\ \A x : IR!Value(x)' = IR!Value(x) /\ (IR!Defined(x)' <=> IR!Defined(x))
<1>1. PICK v : Sets("sp", v) /\ v = Top(B) - 4
  BY AddiStep, BelowFacts DEF Steady, Sound
<1>2. {"sp", "ra", "a0"} \subseteq Reg /\ Pos[ipc] \in Nat
  BY CurFacts DEF Reg
<1>3. PICK r \in Reg \ {"zero"} : r = "sp" /\ reg' = [reg EXCEPT ![r] = v]
  BY <1>1, <1>2 DEF Sets
<1>s. reg' = [reg EXCEPT ![r] = v] /\ UNCHANGED mem /\ Values
  BY <1>1, <1>3 DEF Sets, Steady
<1>4. /\ Sound(B)' /\ Values' /\ Top(B)' = Top(B) /\ RaOf(0)' = RaOf(0) /\ Unmoved
      /\ \A x : IR!Value(x)' = IR!Value(x) /\ (IR!Defined(x)' <=> IR!Defined(x))
      /\ reg'[r] = v /\ \A q \in Reg : q # r => reg'[q] = reg[q]
  BY <1>s, SetStep DEF Unmoved
<1>5. pc' = pc + 1 /\ UNCHANGED printed
  BY <1>1 DEF Sets
<1>6. Here(o + 1)'
  BY <1>2, <1>4, <1>5 DEF Here, Unmoved
<1>7. Around(B, o)'
  BY <1>1, <1>2, <1>3, <1>4, <1>6 DEF Around, Steady
<1> QED
  BY <1>2, <1>3, <1>4, <1>5, <1>6, <1>7

(* The last one.                                                           *)
LEMMA RaiseStep ==
    ASSUME Static, Execute, NEW B, Sound(B), Around(B, 0) \/ Around(B, 1), NEW o \in {0, 1}, Around(B, o), Here(o + 4),
           Ins = Addi("sp", "sp", 4)
    PROVE  Sets("sp", Top(B)) /\ reg["ra"] = RaOf(0)
<1>1. Pos[ipc] \in Nat /\ Pos[ipc] >= 10
  <2>1. ipc \in 1..Len(tac) + 1
    BY BuiltFacts DEF Static, Sound, Live
  <2> QED
    BY <2>1, PosFacts DEF Static
<1>2. PICK v : Sets("sp", v) /\ v = reg["sp"] + 4
  BY AddiStep
<1>3. v = Top(B)
  BY <1>2, BelowFacts DEF Around, Sound
<1> QED
  BY <1>1, <1>2, <1>3 DEF Around, Here, FirstOf, LastOf

(* The five lines around the call of a routine.                            *)
LEMMA AroundStep ==
    ASSUME Static, Execute, UNCHANGED <<gvars, ivars>>, NEW B, Sound(B), NEW o \in {0, 1}, Around(B, o), ~Here(o + 4),
           Here(o + 1) => Ins = Sw("ra", 0, "sp"),
           Here(o + 2) => Ins = Jal(IF o = 0 THEN "read" ELSE "write"),
           Here(o + 3) => Ins = Lw("ra", 0, "sp")
    PROVE  \/ Faults
           \/ /\ Sound(B)' /\ Around(B, o)' /\ Unmoved /\ reg'["a0"] = reg["a0"]
              /\ printed' = IF pc = 6 THEN Append(printed, reg["a0"]) ELSE printed
              /\ pc' = IF Here(o + 2) THEN FirstOf(o) ELSE IF pc = LastOf(o) THEN Pos[ipc] + o + 3 ELSE pc + 1
              /\ \A x : IR!Value(x)' = IR!Value(x) /\ (IR!Defined(x)' <=> IR!Defined(x))
<1>1. {"sp", "ra", "a0"} \subseteq Reg /\ Pos[ipc] \in Nat /\ Pos[ipc] >= 10 /\ Values
  <2>1. ipc \in 1..Len(tac) + 1
    BY BuiltFacts DEF Static, Sound, Live
  <2> QED
    BY <2>1, PosFacts DEF Static, Reg, Around
<1>2. CASE Here(o + 1) /\ reg["sp"] = Top(B) - 4 /\ reg["ra"] = RaOf(0)
  <2>1. Faults \/ Stores(reg["sp"] + 0, reg["ra"])
    BY <1>2, SwStep
  <2>2. ASSUME ~Faults PROVE /\ Sound(B)' /\ Around(B, o)' /\ Unmoved /\ UNCHANGED <<reg, printed>> /\ pc' = pc + 1
                             /\ \A x : IR!Value(x)' = IR!Value(x) /\ (IR!Defined(x)' <=> IR!Defined(x))
    <3>1. PICK a, v : a = Top(B) - 4 /\ v = RaOf(0) /\ Stores(a, v)
      BY <1>2, <2>1, <2>2, BelowFacts DEF Sound
    <3>2. a > 4 * Size /\ ~(a >= Top(B))
      BY <3>1, BelowFacts DEF Sound
    <3>3. /\ Sound(B)' /\ Values' /\ Top(B)' = Top(B) /\ RaOf(0)' = RaOf(0) /\ Unmoved /\ Word(a, v)'
          /\ \A x : IR!Value(x)' = IR!Value(x) /\ (IR!Defined(x)' <=> IR!Defined(x))
      BY <1>1, <3>1, <3>2, StoreStep DEF Unmoved
    <3>4. Word(Top(B) - 4, RaOf(0))'
      BY <3>1, <3>3 DEF Word
    <3>5. pc' = pc + 1 /\ UNCHANGED <<reg, printed>>
      BY <3>1 DEF Stores
    <3>6. Here(o + 2)'
      <4>1. pc' = Pos[ipc] + (o + 2)
        BY <1>1, <1>2, <3>5 DEF Here
      <4> QED
        BY <3>3, <4>1 DEF Here, Unmoved
    <3>7. Around(B, o)'
      BY <1>2, <3>3, <3>4, <3>5, <3>6 DEF Around
    <3> QED
      BY <3>3, <3>5, <3>7
  <2>3. pc # 6 /\ ~Here(o + 2) /\ pc # LastOf(o)
    BY <1>1, <1>2 DEF Here, LastOf
  <2> QED
    BY <2>2, <2>3
<1>3. CASE Here(o + 2) /\ reg["sp"] = Top(B) - 4 /\ Word(Top(B) - 4, RaOf(0))
  <2>1. /\ pc' = FirstOf(o) /\ reg' = [reg EXCEPT !["ra"] = pc + 1] /\ UNCHANGED <<mem, printed>>
    BY <1>3, JumpStep, RuntimePlace DEF FirstOf
  <2>2. PICK r, v : r \in Reg \ {"zero"} /\ r = "ra" /\ v = pc + 1 /\ reg' = [reg EXCEPT ![r] = v]
    BY <1>1, <2>1
  <2>s. r \in Reg \ {"zero"} /\ reg' = [reg EXCEPT ![r] = v] /\ UNCHANGED mem /\ Values
    BY <1>1, <2>1, <2>2
  <2>3. /\ Sound(B)' /\ Values' /\ Top(B)' = Top(B) /\ RaOf(0)' = RaOf(0) /\ Unmoved
        /\ \A x : IR!Value(x)' = IR!Value(x) /\ (IR!Defined(x)' <=> IR!Defined(x))
        /\ reg'[r] = v /\ \A q \in Reg : q # r => reg'[q] = reg[q]
        /\ \A a, w : Word(a, w) => Word(a, w)'
    BY <2>s, SetStep DEF Unmoved
  <2>4. reg'["ra"] = Pos'[ipc'] + o + 3
    <3>1. pc + 1 = Pos[ipc] + o + 3
      BY <1>1, <1>3 DEF Here
    <3> QED
      BY <2>2, <2>3, <3>1 DEF Unmoved
  <2>5. Word(Top(B) - 4, RaOf(0))' /\ pc' \in FirstOf(o)..LastOf(o)
    BY <1>3, <2>1, <2>3 DEF Word, FirstOf, LastOf
  <2>6. Around(B, o)'
    BY <1>1, <1>3, <2>2, <2>3, <2>4, <2>5 DEF Around
  <2>7. pc # 6
    BY <1>1, <1>3 DEF Here
  <2> QED
    BY <1>1, <1>3, <2>1, <2>2, <2>3, <2>6, <2>7
<1>4. CASE pc \in FirstOf(o)..LastOf(o) /\ reg["ra"] = Pos[ipc] + o + 3 /\ reg["sp"] = Top(B) - 4 /\ Word(Top(B) - 4, RaOf(0))
  <2>1. ~Here(o + 2)
    BY <1>1, <1>4 DEF Here, FirstOf, LastOf
  <2> QED
    BY <1>1, <1>4, <2>1, RoutineStep
<1>5. CASE Here(o + 3) /\ reg["sp"] = Top(B) - 4 /\ Word(Top(B) - 4, RaOf(0))
  <2>1. Faults \/ Fetches("ra", reg["sp"] + 0)
    BY <1>5, LwStep
  <2>2. ASSUME ~Faults PROVE /\ Sound(B)' /\ Around(B, o)' /\ Unmoved /\ reg'["a0"] = reg["a0"] /\ UNCHANGED printed /\ pc' = pc + 1
                             /\ \A x : IR!Value(x)' = IR!Value(x) /\ (IR!Defined(x)' <=> IR!Defined(x))
    <3>1. PICK a : a = Top(B) - 4 /\ Fetches("ra", a)
      BY <1>5, <2>1, <2>2, BelowFacts DEF Sound
    <3>2. PICK r, v : r \in Reg \ {"zero"} /\ r = "ra" /\ v = RaOf(0) /\ Sets(r, v)
      BY <1>1, <1>5, <3>1 DEF Fetches, Word
    <3>3. /\ Sound(B)' /\ Values' /\ Top(B)' = Top(B) /\ RaOf(0)' = RaOf(0) /\ Unmoved
          /\ \A x : IR!Value(x)' = IR!Value(x) /\ (IR!Defined(x)' <=> IR!Defined(x))
          /\ reg'[r] = v /\ \A q \in Reg : q # r => reg'[q] = reg[q]
      BY <1>1, <3>2, SetStep DEF Unmoved, Sets
    <3>5. pc' = pc + 1 /\ UNCHANGED printed
      BY <3>2 DEF Sets
    <3>6. Here(o + 4)'
      <4>1. pc' = Pos[ipc] + (o + 4)
        BY <1>1, <1>5, <3>5 DEF Here
      <4> QED
        BY <3>3, <4>1 DEF Here, Unmoved
    <3>7. Around(B, o)'
      BY <1>1, <1>5, <3>2, <3>3, <3>6 DEF Around
    <3> QED
      BY <1>1, <3>2, <3>3, <3>5, <3>7
  <2>3. pc # 6 /\ ~Here(o + 2) /\ pc # LastOf(o)
    BY <1>1, <1>5 DEF Here, LastOf
  <2> QED
    BY <2>2, <2>3
<1> QED
  BY <1>2, <1>3, <1>4, <1>5 DEF Around

(* Where the machine is, when it is at none of the ends.                   *)
LEMMA AroundPlaces ==
    ASSUME Static, NEW B, Sound(B), NEW o \in {0, 1}, Around(B, o)
    PROVE  /\ Pos[ipc] \in Nat /\ Pos[ipc] >= 10
           /\ Here(o + 1) \/ Here(o + 2) \/ Here(o + 3) \/ Here(o + 4) \/ pc \in FirstOf(o)..LastOf(o)
           /\ pc \in FirstOf(o)..LastOf(o) => pc \in 1..9 /\ text[pc].of # ipc /\ ~Here(o + 1) /\ ~Here(o + 2) /\ ~Here(o + 3)
<1>1. ipc \in DOMAIN tac /\ DOMAIN tac = 1..Len(tac) /\ Len(tac) \in Nat
  BY BuiltFacts DEF Static, Sound, Live
<1>2. Pos[ipc] \in Nat /\ Pos[ipc] >= 10
  <2>1. ipc \in 1..Len(tac) + 1
    BY <1>1
  <2> QED
    BY <2>1, PosFacts DEF Static
<1>3. Here(o + 1) \/ Here(o + 2) \/ Here(o + 3) \/ Here(o + 4) \/ pc \in FirstOf(o)..LastOf(o)
  BY DEF Around
<1>4. ASSUME pc \in FirstOf(o)..LastOf(o)
      PROVE  pc \in 1..9 /\ text[pc].of # ipc /\ ~Here(o + 1) /\ ~Here(o + 2) /\ ~Here(o + 3)
  <2>1. pc \in 1..9
    BY <1>4 DEF FirstOf, LastOf
  <2>2. text[pc].of = 0
    BY <2>1, RuntimePlace
  <2>3. ipc # 0
    BY <1>1
  <2>4. \A u \in Nat : pc # Pos[ipc] + u
    BY <1>2, <2>1
  <2>5. o + 1 \in Nat /\ o + 2 \in Nat /\ o + 3 \in Nat
    OBVIOUS
  <2> QED
    BY <2>1, <2>2, <2>3, <2>4, <2>5 DEF Here
<1> QED
  BY <1>2, <1>3, <1>4

(* The lines of a READ.                                                    *)
LEMMA ReadStep ==
    ASSUME Static, RunLine, NEW B, Sound(B), CurI.kind = "READ", Fresh(B) \/ Reading(B)
    PROVE  Faults \/ (Sound(B)' /\ (Fresh(B) \/ Reading(B))')
<1>1. ipc \in DOMAIN tac /\ CurI \in Inst /\ Pos[ipc] \in Nat
  BY CurFacts
<1>3. Lines(ipc) = <<Addi("sp", "sp", -4), Sw("ra", 0, "sp"), Jal("read"), Lw("ra", 0, "sp"),
                     Addi("sp", "sp", 4), Swl("v0", CurI.var.char_val)>>
  BY RoutineLines DEF CurI
<1>4. /\ Len(Lines(ipc)) = 6 /\ Lines(ipc)[0 + 1] = Addi("sp", "sp", -4) /\ Lines(ipc)[1 + 1] = Sw("ra", 0, "sp")
      /\ Lines(ipc)[2 + 1] = Jal("read") /\ Lines(ipc)[3 + 1] = Lw("ra", 0, "sp")
      /\ Lines(ipc)[4 + 1] = Addi("sp", "sp", 4) /\ Lines(ipc)[5 + 1] = Swl("v0", CurI.var.char_val)
  BY <1>3
<1>5. CASE Fresh(B)
  <2>1. Execute /\ UNCHANGED <<gvars, ivars>> /\ Ins = Addi("sp", "sp", -4)
    BY <1>1, <1>4, <1>5, Inside DEF Fresh
  <2>2. Sound(B)' /\ Around(B, 0)' /\ Unmoved /\ UNCHANGED printed
    BY <1>5, <2>1, LowerStep DEF Fresh
  <2>3. Reading(B)'
    BY <1>5, <2>2 DEF Reading, Fresh, Steady, Unmoved
  <2> QED
    BY <2>2, <2>3
<1>6. CASE Reading(B) /\ Around(B, 0) /\ ~Here(4)
  <2>0. /\ Pos[ipc] >= 10 /\ (Here(1) \/ Here(2) \/ Here(3) \/ pc \in FirstOf(0)..LastOf(0))
        /\ pc \in FirstOf(0)..LastOf(0) => pc \in 1..9 /\ text[pc].of # ipc /\ ~Here(1) /\ ~Here(2) /\ ~Here(3)
    BY <1>6, AroundPlaces
  <2>1. /\ Execute /\ UNCHANGED <<gvars, ivars>>
        /\ Here(1) => Ins = Sw("ra", 0, "sp")
        /\ Here(2) => Ins = Jal("read")
        /\ Here(3) => Ins = Lw("ra", 0, "sp")
    <3>1. CASE pc \in FirstOf(0)..LastOf(0)
      BY <2>0, <3>1, Aside
    <3>2. CASE Here(1)
      <4>1. Execute /\ UNCHANGED <<gvars, ivars>> /\ Ins = Lines(ipc)[1 + 1]
        BY <1>1, <1>4, <1>6, <3>2, Inside DEF Reading
      <4> QED
        BY <1>1, <1>4, <3>2, <4>1 DEF Here
    <3>3. CASE Here(2)
      <4>1. Execute /\ UNCHANGED <<gvars, ivars>> /\ Ins = Lines(ipc)[2 + 1]
        BY <1>1, <1>4, <1>6, <3>3, Inside DEF Reading
      <4> QED
        BY <1>1, <1>4, <3>3, <4>1 DEF Here
    <3>4. CASE Here(3)
      <4>1. Execute /\ UNCHANGED <<gvars, ivars>> /\ Ins = Lines(ipc)[3 + 1]
        BY <1>1, <1>4, <1>6, <3>4, Inside DEF Reading
      <4> QED
        BY <1>1, <1>4, <3>4, <4>1 DEF Here
    <3> QED
      BY <2>0, <3>1, <3>2, <3>3, <3>4
  <2>2. \/ Faults
        \/ /\ Sound(B)' /\ Around(B, 0)' /\ Unmoved
           /\ printed' = IF pc = 6 THEN Append(printed, reg["a0"]) ELSE printed
    BY <1>6, <2>1, AroundStep
  <2>3. pc # 6
    BY <1>1, <2>0 DEF Here, FirstOf, LastOf
  <2>4. ASSUME ~Faults PROVE Sound(B)' /\ Reading(B)'
    BY <1>6, <2>2, <2>3, <2>4 DEF Reading, Unmoved
  <2> QED
    BY <2>4
<1>7. CASE Reading(B) /\ Around(B, 0) /\ Here(4)
  <2>1. Execute /\ UNCHANGED <<gvars, ivars>> /\ Ins = Addi("sp", "sp", 4)
    BY <1>1, <1>4, <1>7, Inside DEF Reading
  <2>2. Sets("sp", Top(B)) /\ reg["ra"] = RaOf(0)
    BY <1>7, <2>1, RaiseStep
  <2>3. PICK r, v : r \in Reg \ {"zero"} /\ r = "sp" /\ v = Top(B) /\ Sets(r, v)
    BY <2>2 DEF Reg
  <2>4. r \in Reg \ {"zero"} /\ reg' = [reg EXCEPT ![r] = v] /\ UNCHANGED mem /\ Values
    BY <1>7, <2>3 DEF Sets, Around
  <2>5. /\ Sound(B)' /\ Values' /\ Top(B)' = Top(B) /\ RaOf(0)' = RaOf(0) /\ Unmoved
        /\ reg'[r] = v /\ \A q \in Reg : q # r => reg'[q] = reg[q]
    BY <2>1, <2>4, SetStep DEF Unmoved
  <2>6. pc' = pc + 1 /\ UNCHANGED printed
    BY <2>3 DEF Sets
  <2>7. Here(5)'
    BY <1>1, <1>7, <2>5, <2>6 DEF Here, Unmoved
  <2>8. Steady(B)'
    BY <1>7, <2>2, <2>3, <2>5, <2>6 DEF Steady, Unmoved, Reading, Reg
  <2>9. Reading(B)'
    BY <1>7, <2>5, <2>7, <2>8 DEF Reading, Unmoved, Steady
  <2> QED
    BY <2>5, <2>9
<1>8. CASE Reading(B) /\ Here(5) /\ Steady(B)
  <2>1. /\ Execute /\ UNCHANGED gvars /\ Ins = Swl("v0", CurI.var.char_val)
        /\ Faults \/ IR!Run(reg["v0"], reg["t0"])
        /\ ipc # 0 /\ pc + 1 = Pos[ipc + 1] /\ Listing
    BY <1>1, <1>4, <1>8, Ending DEF Reading
  <2>2. Faults \/ Stores(Address(CurI.var.char_val), reg["v0"])
    BY <2>1, SwlStep
  <2>3. Listed(CurI.var.char_val)
    BY <2>1 DEF Listing
  <2>4. ASSUME ~Faults PROVE Sound(B)' /\ Fresh(B)'
    <3>1. PICK v : v = reg["v0"]
      OBVIOUS
    <3>2. /\ env' = IR!With(env, CurI.var.char_val, v)
          /\ ipc' = ipc + 1 /\ UNCHANGED <<actuals, pending, frames, loc, wrote>>
      BY <1>8, <2>1, <2>4, <3>1, RunKinds2 DEF Reading
    <3>3. Stores(Address(CurI.var.char_val), v)
      BY <2>2, <2>4, <3>1
    <3> QED
      BY <1>8, <2>1, <2>3, <3>2, <3>3, Binding DEF Reading
  <2> QED
    BY <2>4
<1> QED
  BY <1>5, <1>6, <1>7, <1>8 DEF Reading

(* The lines of a WRITE.                                                   *)
LEMMA WriteStep ==
    ASSUME Static, RunLine, NEW B, Sound(B), CurI.kind = "WRITE", Fresh(B) \/ Writing(B)
    PROVE  Faults \/ (Sound(B)' /\ (Fresh(B) \/ Writing(B))')
<1>1. ipc \in DOMAIN tac /\ CurI \in Inst /\ Pos[ipc] \in Nat /\ Pos[ipc] >= 10
  <2>1. ipc \in DOMAIN tac /\ CurI \in Inst
    BY CurFacts
  <2>2. ipc \in 1..Len(tac) + 1
    BY <2>1, BuiltFacts DEF Static
  <2> QED
    BY <2>1, <2>2, PosFacts DEF Static
<1>2. PICK o \in Opd : o = CurI.var /\ o \in ScalarOpd
  <2>1. Supported(tac)
    BY BuiltFacts DEF Static
  <2>2. CurI.var \in ScalarOpd
    BY <1>1, <2>1 DEF Supported, CurI
  <2> QED
    BY <2>2 DEF Opd
<1>3. Lines(ipc) = <<IF o.kind = "OP_CONSTANT" THEN Li("a0", o.int_val) ELSE Lwl("a0", o.char_val),
                     Addi("sp", "sp", -4), Sw("ra", 0, "sp"), Jal("write"), Lw("ra", 0, "sp"), Addi("sp", "sp", 4)>>
  BY <1>2, RoutineLines DEF CurI
<1>4. /\ Len(Lines(ipc)) = 6
      /\ Lines(ipc)[0 + 1] = IF o.kind = "OP_CONSTANT" THEN Li("a0", o.int_val) ELSE Lwl("a0", o.char_val)
      /\ Lines(ipc)[1 + 1] = Addi("sp", "sp", -4) /\ Lines(ipc)[2 + 1] = Sw("ra", 0, "sp")
      /\ Lines(ipc)[3 + 1] = Jal("write") /\ Lines(ipc)[4 + 1] = Lw("ra", 0, "sp")
      /\ Lines(ipc)[5 + 1] = Addi("sp", "sp", 4)
  BY <1>3
<1>5. CASE Fresh(B)
  <2>1. /\ Execute /\ UNCHANGED <<gvars, ivars>>
        /\ Ins = IF o.kind = "OP_CONSTANT" THEN Li("a0", o.int_val) ELSE Lwl("a0", o.char_val)
    BY <1>1, <1>4, <1>5, Inside DEF Fresh
  <2>2. UNCHANGED <<env, loc>> /\ "a0" \in Reg \ {"zero"}
    BY <2>1 DEF ivars, Reg
  <2>3. Faults \/ \E v : Sets("a0", v) /\ Loaded(o, "a0")'
    BY <1>2, <1>5, <2>1, <2>2, OperandStep DEF Fresh, Steady
  <2>4. ASSUME NEW v, Sets("a0", v), Loaded(o, "a0")' PROVE Sound(B)' /\ Writing(B)'
    <3>1. Sound(B)' /\ Steady(B)' /\ CurI' = CurI /\ UNCHANGED ipc /\ Pos' = Pos /\ pc' = pc + 1
      BY <1>5, <2>1, <2>4, SetsStep DEF Fresh, Reg
    <3>2. Here(1)' /\ ~(pc' \in 7..9) /\ ~Here(4)' /\ ~Here(5)'
      BY <1>1, <1>5, <3>1 DEF Here, Fresh
    <3>3. (IR!Defined(CurI.var) => reg["a0"] = IR!Value(CurI.var))'
      BY <1>2, <2>4, <3>1 DEF Loaded
    <3>4. (IR!Defined(CurI.var) => Written)'
      BY <3>1, <3>2, <3>3 DEF Written, Steady
    <3> QED
      BY <3>1, <3>2, <3>4 DEF Writing
  <2> QED
    BY <2>3, <2>4
<1>6. CASE Writing(B) /\ Here(1) /\ Steady(B)
  <2>1. Execute /\ UNCHANGED <<gvars, ivars>> /\ Ins = Addi("sp", "sp", -4)
    BY <1>1, <1>4, <1>6, Inside DEF Writing
  <2>2. /\ Sound(B)' /\ Around(B, 1)' /\ Here(1 + 1)' /\ Unmoved /\ reg'["a0"] = reg["a0"] /\ UNCHANGED printed
        /\ IR!Value(o)' = IR!Value(o) /\ (IR!Defined(o)' <=> IR!Defined(o))
    BY <1>6, <2>1, LowerStep
  <2>3. ~(pc' \in 7..9) /\ ~Here(4)' /\ ~Here(5)' /\ ~(pc \in 7..9) /\ ~Here(4) /\ ~Here(5)
    BY <1>1, <1>6, <2>2 DEF Here, Unmoved
  <2>4. IR!Defined(o) => printed = wrote /\ reg["a0"] = IR!Value(o)
    BY <1>2, <1>6, <2>3 DEF Writing, Written
  <2>5. (IR!Defined(o) => printed = wrote /\ reg["a0"] = IR!Value(o))'
    BY <2>2, <2>4 DEF Unmoved
  <2>6. (IR!Defined(CurI.var) => Written)'
    BY <1>2, <2>2, <2>3, <2>5 DEF Written, Unmoved
  <2> QED
    BY <1>6, <2>2, <2>6 DEF Writing, Unmoved
<1>7. CASE Writing(B) /\ Around(B, 1) /\ ~Here(5)
  <2>0. /\ Here(2) \/ Here(3) \/ Here(4) \/ pc \in 5..9
        /\ pc \in 5..9 => text[pc].of # ipc
    BY <1>7, AroundPlaces DEF FirstOf, LastOf
  <2>1. /\ Execute /\ UNCHANGED <<gvars, ivars>>
        /\ Here(2) => Ins = Sw("ra", 0, "sp")
        /\ Here(3) => Ins = Jal("write")
        /\ Here(4) => Ins = Lw("ra", 0, "sp")
    <3>1. CASE pc \in 5..9
      <4>1. ~Here(2) /\ ~Here(3) /\ ~Here(4)
        BY <1>1, <3>1 DEF Here
      <4> QED
        BY <2>0, <3>1, <4>1, Aside
    <3>2. CASE Here(2)
      <4>1. Execute /\ UNCHANGED <<gvars, ivars>> /\ Ins = Lines(ipc)[2 + 1]
        BY <1>1, <1>4, <1>7, <3>2, Inside DEF Writing
      <4> QED
        BY <1>1, <1>4, <3>2, <4>1 DEF Here
    <3>3. CASE Here(3)
      <4>1. Execute /\ UNCHANGED <<gvars, ivars>> /\ Ins = Lines(ipc)[3 + 1]
        BY <1>1, <1>4, <1>7, <3>3, Inside DEF Writing
      <4> QED
        BY <1>1, <1>4, <3>3, <4>1 DEF Here
    <3>4. CASE Here(4)
      <4>1. Execute /\ UNCHANGED <<gvars, ivars>> /\ Ins = Lines(ipc)[4 + 1]
        BY <1>1, <1>4, <1>7, <3>4, Inside DEF Writing
      <4> QED
        BY <1>1, <1>4, <3>4, <4>1 DEF Here
    <3> QED
      BY <2>0, <3>1, <3>2, <3>3, <3>4
  <2>2. \/ Faults
        \/ /\ Sound(B)' /\ Around(B, 1)' /\ Unmoved /\ reg'["a0"] = reg["a0"]
           /\ printed' = IF pc = 6 THEN Append(printed, reg["a0"]) ELSE printed
           /\ pc' = IF Here(3) THEN 5 ELSE IF pc = 9 THEN Pos[ipc] + 1 + 3 ELSE pc + 1
           /\ IR!Value(o)' = IR!Value(o) /\ (IR!Defined(o)' <=> IR!Defined(o))
    <3>1. \/ Faults
          \/ /\ Sound(B)' /\ Around(B, 1)' /\ Unmoved /\ reg'["a0"] = reg["a0"]
             /\ printed' = IF pc = 6 THEN Append(printed, reg["a0"]) ELSE printed
             /\ pc' = IF Here(1 + 2) THEN FirstOf(1) ELSE IF pc = LastOf(1) THEN Pos[ipc] + 1 + 3 ELSE pc + 1
             /\ IR!Value(o)' = IR!Value(o) /\ (IR!Defined(o)' <=> IR!Defined(o))
      BY <1>7, <2>1, AroundStep
    <3> QED
      BY <3>1 DEF FirstOf, LastOf
  <2>3. ASSUME ~Faults PROVE Sound(B)' /\ Writing(B)'
    <3>1. PICK z \in Nat : z = Pos[ipc] /\ z >= 10
      BY <1>1
    <3>2. (pc' \in 7..9 \/ pc' = z + 4 \/ pc' = z + 5) <=> (pc \in 6..9 \/ pc = z + 4)
      <4>1. PICK h : h = pc /\ (Here(3) <=> h = z + 3)
        BY <3>1 DEF Here
      <4>2. h \in 5..9 \/ h = z + 1 \/ h = z + 2 \/ h = z + 3 \/ h = z + 4
        BY <2>0, <3>1, <4>1 DEF Here
      <4>3. pc' = IF h = z + 3 THEN 5 ELSE IF h = 9 THEN z + 4 ELSE h + 1
        <5>1. z + 1 + 3 = z + 4
          BY <3>1
        <5> QED
          BY <2>2, <2>3, <3>1, <4>1, <5>1
      <4> QED
        BY <3>1, <4>1, <4>2, <4>3
    <3>3. \A k \in Nat : Here(k)' <=> pc' = z + k
      BY <2>2, <2>3, <3>1 DEF Here, Unmoved
    <3>4. \A k \in Nat : Here(k) <=> pc = z + k
      BY <3>1 DEF Here
    <3>5. (IR!Defined(CurI.var) => Written)'
      <4>1. IR!Defined(o) => IF pc \in 7..9 \/ pc = z + 4 \/ pc = z + 5
                             THEN printed = Append(wrote, IR!Value(o))
                             ELSE printed = wrote /\ reg["a0"] = IR!Value(o)
        BY <1>2, <1>7, <3>4 DEF Writing, Written
      <4>2. IR!Defined(o) => IF pc' \in 7..9 \/ pc' = z + 4 \/ pc' = z + 5
                             THEN printed' = Append(wrote, IR!Value(o))
                             ELSE printed' = wrote /\ reg'["a0"] = IR!Value(o)
        <5>1. CASE pc = 6
          <6>1. pc # z + 4 /\ pc # z + 5 /\ ~(pc \in 7..9)
            BY <3>1, <5>1
          <6> QED
            BY <2>2, <2>3, <3>2, <4>1, <5>1, <6>1
        <5>2. CASE pc # 6
          <6>1. pc # z + 5
            BY <1>7, <3>4
          <6>2. (pc' \in 7..9 \/ pc' = z + 4 \/ pc' = z + 5) <=> (pc \in 7..9 \/ pc = z + 4 \/ pc = z + 5)
            BY <2>0, <3>1, <3>2, <5>2, <6>1 DEF Here
          <6> QED
            BY <2>2, <2>3, <4>1, <5>2, <6>2
        <5> QED
          BY <5>1, <5>2
      <4>3. IR!Defined(o)' => IF pc' \in 7..9 \/ Here(4)' \/ Here(5)'
                              THEN printed' = Append(wrote', IR!Value(o)')
                              ELSE printed' = wrote' /\ reg'["a0"] = IR!Value(o)'
        BY <2>2, <2>3, <3>3, <4>2 DEF Unmoved
      <4> QED
        BY <1>2, <2>2, <2>3, <4>3 DEF Written, Unmoved
    <3> QED
      BY <1>7, <2>2, <2>3, <3>5 DEF Writing, Unmoved
  <2> QED
    BY <2>3
<1>8. CASE Writing(B) /\ Around(B, 1) /\ Here(5)
  <2>1. /\ Execute /\ UNCHANGED gvars /\ Ins = Addi("sp", "sp", 4)
        /\ Faults \/ IR!Run(reg["v0"], reg["t0"])
        /\ ipc # 0 /\ pc + 1 = Pos[ipc + 1]
    BY <1>1, <1>4, <1>8, Ending DEF Writing
  <2>2. Sets("sp", Top(B)) /\ reg["ra"] = RaOf(0)
    BY <1>8, <2>1, RaiseStep
  <2>3. ASSUME ~Faults PROVE Sound(B)' /\ Fresh(B)'
    <3>1. /\ IR!Defined(CurI.var) /\ wrote' = Append(wrote, IR!Value(CurI.var))
          /\ ipc' = ipc + 1 /\ UNCHANGED <<env, actuals, pending, frames, loc>>
      BY <1>8, <2>1, <2>3, RunKinds2 DEF Writing
    <3>2. printed' = wrote'
      BY <1>8, <2>2, <3>1 DEF Writing, Written, Sets
    <3>3. PICK r, v : r \in Reg \ {"zero"} /\ r = "sp" /\ v = Top(B) /\ Sets(r, v)
      BY <2>2 DEF Reg
    <3>4. Machine' /\ reg'[r] = v /\ (\A q \in Reg : q # r => reg'[q] = reg[q]) /\ UNCHANGED mem /\ pc' = pc + 1
      <4>1. UNCHANGED mem /\ pc' = pc + 1 /\ Machine
        BY <3>3 DEF Sound, Sets
      <4>2. Machine' /\ reg'[r] = v /\ \A q \in Reg : q # r => reg'[q] = reg[q]
        BY <2>1, <3>3, <4>1, MachineKept
      <4> QED
        BY <4>1, <4>2
    <3>5. HighKept(Top(B)) /\ Values' /\ Placed(env, loc)'
      <4>1. Values' /\ HighKept(Top(B))
        BY <1>8, <2>1, <3>1, <3>4, ValuesKept, HighLemma DEF Around, Sound
      <4>2. PICK e, l : e = env /\ l = loc
        OBVIOUS
      <4>3. Placed(e, l)'
        BY <2>1, <4>2, PlacedKept DEF Sound
      <4> QED
        BY <3>1, <4>1, <4>2, <4>3
    <3>6. Sound(B)' /\ Top(B)' = Top(B) /\ RaOf(0)' = RaOf(0)
      BY <1>8, <2>1, <3>1, <3>4, <3>5, Advances DEF Writing
    <3>7. Steady(B)'
      BY <2>2, <3>2, <3>3, <3>4, <3>5, <3>6 DEF Steady, Reg
    <3>8. Here(0)'
      <4>1. ipc' \in DOMAIN tac /\ UNCHANGED tac
        BY <2>1, <3>6 DEF Sound, Live, gvars
      <4>2. ipc + 1 \in 1..Len(tac) + 1
        BY <3>1, <4>1, BuiltFacts DEF Static
      <4>3. Pos[ipc + 1] \in Nat /\ Pos' = Pos
        BY <2>1, <4>2, PosFacts, StaticKept DEF Static
      <4> QED
        BY <2>1, <3>1, <3>4, <4>3 DEF Here
    <3> QED
      BY <3>6, <3>7, <3>8 DEF Fresh
  <2> QED
    BY <2>3
<1> QED
  BY <1>5, <1>6, <1>7, <1>8 DEF Writing

-----------------------------------------------------------------------------
(* CALL, up to the jump.                                                   *)

(* The frame of the call is filled from below; the first m words are done. *)
Filled(B, m) ==
    /\ \A j \in 1..m : data[j] \in DOMAIN env => Word(Top(B) - Frame + 4 * (j - 1), env[data[j]])
    /\ m > 0 => StackLow <= Top(B) - Frame

Calling(B) ==
    /\ CurI.kind = "CALL" /\ printed = wrote /\ Values /\ reg["ra"] = RaOf(0) /\ reg["sp"] = Top(B) - Frame
    /\ \/ \E m \in 0..Size : Filled(B, m) /\ Here(1 + 2 * m)
       \/ \E m \in 0..Size - 1 : /\ Filled(B, m) /\ Here(2 + 2 * m)
                                 /\ data[m + 1] \in DOMAIN env => reg["t0"] = env[data[m + 1]]
       \/ /\ Filled(B, Size) /\ StackLow <= Top(B) - Frame /\ Word(Top(B) - Frame + 4 * Size, RaOf(0))
          /\ Here(2 * Size + 2)

(* The lines of a CALL, at their places in text.                           *)
LEMMA CallLinesAt ==
    ASSUME Static, NEW c \in DOMAIN tac, tac[c].kind = "CALL"
    PROVE  /\ Size \in Nat /\ Frame = 4 * Size + 4 /\ Len(Lines(c)) = 4 * Size + 6
           /\ Lines(c)[0 + 1] = Addi("sp", "sp", -Frame)
           /\ \A m \in 0..Size - 1 : /\ Lines(c)[(1 + 2 * m) + 1] = Lwl("t0", data[m + 1])
                                     /\ Lines(c)[(2 + 2 * m) + 1] = Sw("t0", 4 * m, "sp")
           /\ Lines(c)[(2 * Size + 1) + 1] = Sw("ra", 4 * Size, "sp")
           /\ Lines(c)[(2 * Size + 2) + 1] = Jal(tac[c].funcname)
           /\ \A m \in 0..Size - 1 : /\ Lines(c)[(2 * Size + 3 + 2 * m) + 1] = Lw("t0", 4 * m, "sp")
                                     /\ Lines(c)[(2 * Size + 4 + 2 * m) + 1] = Swl("t0", data[m + 1])
           /\ Lines(c)[(4 * Size + 3) + 1] = Lw("ra", 4 * Size, "sp")
           /\ Lines(c)[(4 * Size + 4) + 1] = Addi("sp", "sp", Frame + 4 * ArgsBefore[c])
           /\ Lines(c)[(4 * Size + 5) + 1] = Swl("v0", tac[c].ret.char_val)
<1>0. PICK n \in Nat : n = Len(all_variables) /\ all_variables_count = n
  BY BuiltFacts DEF Static, Size
<1>1. n = Size /\ all_variables = data
  BY <1>0, BuiltFacts DEF Static, Size
<1>2. PICK L : L = Lines(c)
  OBVIOUS
<1>6. /\ Len(L) = 4 * n + 6
      /\ L[1] = Addi("sp", "sp", -(4 * n + 4))
      /\ \A m \in 0..n - 1 : L[2 + 2 * m] = Lwl("t0", all_variables[m + 1]) /\ L[3 + 2 * m] = Sw("t0", 4 * m, "sp")
      /\ L[2 * n + 2] = Sw("ra", 4 * n, "sp")
      /\ L[2 * n + 3] = Jal(tac[c].funcname)
      /\ \A m \in 0..n - 1 : /\ L[2 * n + 4 + 2 * m] = Lw("t0", 4 * m, "sp")
                             /\ L[2 * n + 5 + 2 * m] = Swl("t0", all_variables[m + 1])
      /\ L[4 * n + 4] = Lw("ra", 4 * n, "sp")
      /\ L[4 * n + 5] = Addi("sp", "sp", 4 * n + 4 + 4 * ArgsBefore[c])
      /\ L[4 * n + 6] = Swl("v0", tac[c].ret.char_val)
  <2>1. PICK i : i = c /\ tac[i].kind = "CALL"
    OBVIOUS
  <2> QED
    BY <1>0, <1>2, <2>1, CallLines, ZenonT(60)
<1>3. /\ Len(L) = 4 * n + 6
      /\ L[1] = Addi("sp", "sp", -(4 * n + 4))
      /\ \A m \in 0..n - 1 : L[2 + 2 * m] = Lwl("t0", data[m + 1]) /\ L[3 + 2 * m] = Sw("t0", 4 * m, "sp")
      /\ L[2 * n + 2] = Sw("ra", 4 * n, "sp")
      /\ L[2 * n + 3] = Jal(tac[c].funcname)
      /\ \A m \in 0..n - 1 : L[2 * n + 4 + 2 * m] = Lw("t0", 4 * m, "sp") /\ L[2 * n + 5 + 2 * m] = Swl("t0", data[m + 1])
      /\ L[4 * n + 4] = Lw("ra", 4 * n, "sp")
      /\ L[4 * n + 5] = Addi("sp", "sp", 4 * n + 4 + 4 * ArgsBefore[c])
      /\ L[4 * n + 6] = Swl("v0", tac[c].ret.char_val)
  BY <1>1, <1>6
<1>4. /\ 0 + 1 = 1 /\ (2 * n + 1) + 1 = 2 * n + 2 /\ (2 * n + 2) + 1 = 2 * n + 3 /\ (4 * n + 3) + 1 = 4 * n + 4
      /\ (4 * n + 4) + 1 = 4 * n + 5 /\ (4 * n + 5) + 1 = 4 * n + 6
      /\ \A m \in 0..n - 1 : /\ (1 + 2 * m) + 1 = 2 + 2 * m /\ (2 + 2 * m) + 1 = 3 + 2 * m
                             /\ (2 * n + 3 + 2 * m) + 1 = 2 * n + 4 + 2 * m /\ (2 * n + 4 + 2 * m) + 1 = 2 * n + 5 + 2 * m
  OBVIOUS
<1>5. Frame = 4 * n + 4
  BY <1>1 DEF Frame
<1> QED
  BY <1>1, <1>2, <1>3, <1>4, <1>5

(* The lines of a CALL before its jump, and the jump.                      *)
LEMMA CallLine ==
    ASSUME Static, RunLine, ipc \in DOMAIN tac, CurI.kind = "CALL", NEW o \in Nat, Here(o), o < Len(Lines(ipc))
    PROVE  /\ Execute /\ UNCHANGED gvars /\ Ins = Lines(ipc)[o + 1] /\ Listing
           /\ Ins.op # "jal" => UNCHANGED ivars
           /\ Ins.op = "jal" => Faults \/ IR!Run(reg["v0"], reg["t0"])
<1>1. Execute
  BY DEF RunLine
<1>2. Listing
  BY <1>1, ExecuteStatus, NamesListed DEF Listing, Ins
<1>3. text[pc].ins = Lines(ipc)[o + 1] /\ text[pc].of = ipc
  BY LineAt DEF Static, Here
<1>4. Completes(pc) <=> Ins.op = "jal"
  BY <1>3 DEF Completes, CurI, Ins
<1>5. ipc # 0
  BY BuiltFacts DEF Static
<1> QED
  BY <1>1, <1>2, <1>3, <1>4, <1>5 DEF RunLine, Ins, Faults

-----------------------------------------------------------------------------
(* sp goes down by a frame.                                                *)
LEMMA CallFirst ==
    ASSUME Static, RunLine, NEW B, Sound(B), CurI.kind = "CALL", Fresh(B)
    PROVE  Sound(B)' /\ Calling(B)'
<1>1. ipc \in DOMAIN tac /\ Pos[ipc] \in Nat /\ tac[ipc].kind = "CALL"
  BY CurFacts DEF CurI
<1>2. Size \in Nat /\ Frame = 4 * Size + 4 /\ Len(Lines(ipc)) = 4 * Size + 6 /\ Lines(ipc)[0 + 1] = Addi("sp", "sp", -Frame)
  BY <1>1, CallLinesAt
<1>3. Execute /\ UNCHANGED <<gvars, ivars>> /\ Ins = Addi("sp", "sp", -Frame)
  <2>1. 0 < Len(Lines(ipc))
    BY <1>2
  <2> QED
    BY <1>1, <1>2, <2>1, CallLine DEF Fresh, Addi
<1>4. PICK r, v : r = "sp" /\ v = Top(B) - Frame /\ Sets(r, v)
  <2>1. PICK v : Sets("sp", v) /\ v = reg["sp"] + (-Frame)
    BY <1>3, AddiStep
  <2>2. v = Top(B) - Frame
    BY <1>2, <2>1, TopFacts DEF Fresh, Steady, Sound
  <2> QED
    BY <2>1, <2>2
<1>5. r \in Reg \ {"zero"} /\ reg' = [reg EXCEPT ![r] = v] /\ UNCHANGED mem /\ Values
  BY <1>4 DEF Sets, Fresh, Steady, Reg
<1>6. /\ Sound(B)' /\ Values' /\ Top(B)' = Top(B) /\ RaOf(0)' = RaOf(0) /\ Unmoved
      /\ reg'[r] = v /\ \A q \in Reg : q # r => reg'[q] = reg[q]
  BY <1>3, <1>5, SetStep DEF Unmoved
<1>7. pc' = pc + 1 /\ UNCHANGED printed /\ Frame' = Frame /\ Size' = Size
  BY <1>3, <1>4, StaticKept DEF Sets
<1>8. PICK m \in 0..Size : m = 0
  BY <1>2
<1>9. Filled(B, m)'
  BY <1>8 DEF Filled
<1>10. Here(1 + 2 * m)'
  BY <1>1, <1>6, <1>7, <1>8 DEF Here, Fresh, Unmoved
<1>11. reg'["ra"] = reg["ra"]
  BY <1>4, <1>6 DEF Reg
<1> QED
  BY <1>4, <1>6, <1>7, <1>8, <1>9, <1>10, <1>11 DEF Calling, Fresh, Steady, Unmoved

(* Saving one more word keeps those saved.                                 *)
LEMMA FilledKept ==
    ASSUME Static, UNCHANGED <<gvars, ivars>>, NEW B, Top(B) \in Int, Top(B)' = Top(B), NEW m \in Nat, Filled(B, m),
           \A a, v : Word(a, v) /\ a \in Int /\ a < Top(B) - Frame + 4 * m => Word(a, v)'
    PROVE  Filled(B, m)'
<1>1. UNCHANGED <<env, data>> /\ Frame' = Frame /\ StackLow' = StackLow /\ Frame \in Int
  <2>1. Size \in Nat
    BY BuiltFacts DEF Static
  <2> QED
    BY <2>1, StaticKept DEF gvars, ivars, StackLow, StackTop, Frame
<1>2. ASSUME NEW j \in 1..m, data[j] \in DOMAIN env
      PROVE  Word(Top(B) - Frame + 4 * (j - 1), env[data[j]])'
  <2>1. PICK a, v : a = Top(B) - Frame + 4 * (j - 1) /\ v = env[data[j]]
    OBVIOUS
  <2>2. Word(a, v)
    BY <1>2, <2>1 DEF Filled
  <2>4. a \in Int /\ a < Top(B) - Frame + 4 * m
    BY <1>1, <2>1
  <2>3. Word(a, v)'
    BY <2>2, <2>4
  <2> QED
    BY <1>1, <2>1, <2>3 DEF Word
<1> QED
  BY <1>1, <1>2 DEF Filled

(* The frame of a call is below the stack and above .data.                 *)
LEMMA FrameFacts ==
    ASSUME Static, NEW B, Sound(B)
    PROVE  /\ ipc \in DOMAIN tac /\ Pos[ipc] \in Nat /\ Machine /\ Size \in Nat /\ Frame = 4 * Size + 4
           /\ Top(B) \in Int /\ Top(B) - Frame > 4 * Size /\ StackLow \in Int
           /\ \A a \in Addresses : a \in Int /\ (a > 4 * Size => a >= StackLow)
<1>1. ipc \in DOMAIN tac /\ Pos[ipc] \in Nat /\ Machine /\ Stack(B)
  BY CurFacts
<1>2. Size \in Nat /\ Top(B) \in Int /\ 8 * Size + 4 < Top(B) /\ StackLow \in Int
  BY <1>1, TopFacts
<1>3. \A a \in Addresses : a \in Int /\ (a > 4 * Size => a >= StackLow)
  BY AddressFacts
<1> QED
  BY <1>1, <1>2, <1>3 DEF Frame

(* A variable goes to $t0.                                                 *)
LEMMA CallLoad ==
    ASSUME Static, RunLine, NEW B, Sound(B), Calling(B), NEW m \in 0..Size - 1, Filled(B, m), Here(1 + 2 * m)
    PROVE  Faults \/ (Sound(B)' /\ Calling(B)')
<1>1. /\ ipc \in DOMAIN tac /\ Pos[ipc] \in Nat /\ Machine /\ Size \in Nat /\ Frame = 4 * Size + 4 /\ Top(B) \in Int
      /\ tac[ipc].kind = "CALL" /\ m \in Nat /\ m < Size
  BY FrameFacts DEF Calling, CurI
<1>2. /\ Len(Lines(ipc)) = 4 * Size + 6 /\ Lines(ipc)[(1 + 2 * m) + 1] = Lwl("t0", data[m + 1])
  BY <1>1, CallLinesAt
<1>3. Execute /\ UNCHANGED <<gvars, ivars>> /\ Ins = Lwl("t0", data[m + 1])
  <2>1. PICK o \in Nat : o = 1 + 2 * m
    BY <1>1
  <2>2. Here(o) /\ o < Len(Lines(ipc)) /\ Lines(ipc)[o + 1] = Lwl("t0", data[m + 1])
    <3>1. PICK h \in Nat : h = Size /\ m < h
      BY <1>1
    <3>2. o < 4 * h + 6
      BY <1>1, <2>1, <3>1
    <3> QED
      BY <1>2, <2>1, <3>1, <3>2
  <2>3. Execute /\ UNCHANGED gvars /\ Ins = Lines(ipc)[o + 1] /\ (Ins.op # "jal" => UNCHANGED ivars)
    BY <1>1, <2>2, CallLine DEF CurI
  <2> QED
    BY <2>2, <2>3 DEF Lwl
<1>4. Fetches("t0", Address(data[m + 1])) \/ Faults
  BY <1>3, LwlStep
<1>5. ASSUME ~Faults PROVE Sound(B)' /\ Calling(B)'
  <2>1. PICK r, v : r = "t0" /\ v = mem[Address(data[m + 1])] /\ Sets(r, v)
    BY <1>4, <1>5 DEF Fetches
  <2>2. r \in Reg \ {"zero"} /\ reg' = [reg EXCEPT ![r] = v] /\ UNCHANGED mem /\ Values
    BY <2>1 DEF Sets, Reg, Calling
  <2>3. /\ Sound(B)' /\ Values' /\ Top(B)' = Top(B) /\ RaOf(0)' = RaOf(0) /\ Unmoved
        /\ reg'[r] = v /\ \A q \in Reg : q # r => reg'[q] = reg[q]
        /\ \A a, w : Word(a, w) => Word(a, w)'
    BY <1>3, <2>2, SetStep DEF Unmoved
  <2>4. pc' = pc + 1 /\ UNCHANGED printed /\ Frame' = Frame /\ Size' = Size /\ UNCHANGED <<data, env>>
    BY <1>3, <2>1, StaticKept DEF Sets, gvars, ivars
  <2>5. Filled(B, m)'
    BY <1>1, <1>3, <2>3, FilledKept
  <2>6. Here(2 + 2 * m)'
    <3>1. pc' = Pos[ipc] + (2 + 2 * m)
      BY <1>1, <2>4 DEF Here
    <3> QED
      BY <2>3, <3>1 DEF Here, Unmoved
  <2>7. (data[m + 1] \in DOMAIN env => reg["t0"] = env[data[m + 1]])'
    <3>1. data[m + 1] \in DOMAIN env => v = env[data[m + 1]]
      BY <2>1, <2>2 DEF Values, Word
    <3> QED
      BY <2>1, <2>3, <2>4, <3>1
  <2>8. reg'["ra"] = reg["ra"] /\ reg'["sp"] = reg["sp"]
    BY <2>1, <2>3 DEF Reg
  <2>9. m \in 0..Size' - 1
    BY <2>4
  <2> QED
    BY <2>3, <2>4, <2>5, <2>6, <2>7, <2>8, <2>9 DEF Calling, Unmoved
<1> QED
  BY <1>5

(* It goes on to its word of the frame.                                    *)
LEMMA CallStore ==
    ASSUME Static, RunLine, NEW B, Sound(B), Calling(B), NEW m \in 0..Size - 1, Filled(B, m), Here(2 + 2 * m),
           data[m + 1] \in DOMAIN env => reg["t0"] = env[data[m + 1]]
    PROVE  Faults \/ (Sound(B)' /\ Calling(B)')
<1>1. /\ ipc \in DOMAIN tac /\ Pos[ipc] \in Nat /\ Machine /\ Size \in Nat /\ Frame = 4 * Size + 4 /\ Top(B) \in Int
      /\ tac[ipc].kind = "CALL" /\ m \in Nat /\ m < Size /\ Top(B) - Frame > 4 * Size
  BY FrameFacts DEF Calling, CurI
<1>2. /\ Len(Lines(ipc)) = 4 * Size + 6 /\ Lines(ipc)[(2 + 2 * m) + 1] = Sw("t0", 4 * m, "sp")
  BY <1>1, CallLinesAt
<1>3. Execute /\ UNCHANGED <<gvars, ivars>> /\ Ins = Sw("t0", 4 * m, "sp")
  <2>1. PICK o \in Nat : o = 2 + 2 * m
    BY <1>1
  <2>2. Here(o) /\ o < Len(Lines(ipc)) /\ Lines(ipc)[o + 1] = Sw("t0", 4 * m, "sp")
    BY <1>1, <1>2, <2>1
  <2>3. Execute /\ UNCHANGED gvars /\ Ins = Lines(ipc)[o + 1] /\ (Ins.op # "jal" => UNCHANGED ivars)
    BY <1>1, <2>2, CallLine DEF CurI
  <2> QED
    BY <2>2, <2>3 DEF Sw
<1>4. Stores(reg["sp"] + 4 * m, reg["t0"]) \/ Faults
  BY <1>3, SwStep
<1>5. ASSUME ~Faults PROVE Sound(B)' /\ Calling(B)'
  <2>1. PICK a, v : a = Top(B) - Frame + 4 * m /\ v = reg["t0"] /\ Stores(a, v)
    BY <1>4, <1>5 DEF Calling
  <2>2. a \in Int /\ a > 4 * Size /\ ~(a >= Top(B)) /\ Values
    BY <1>1, <2>1 DEF Calling
  <2>3. /\ Sound(B)' /\ Values' /\ Top(B)' = Top(B) /\ RaOf(0)' = RaOf(0) /\ Unmoved /\ Word(a, v)'
    BY <1>3, <2>1, <2>2, StoreStep DEF Unmoved
  <2>4. /\ pc' = pc + 1 /\ UNCHANGED <<printed, reg>> /\ Frame' = Frame /\ Size' = Size /\ UNCHANGED <<data, env>>
        /\ StackLow' = StackLow
    BY <1>3, <2>1, StaticKept DEF Stores, gvars, ivars, StackLow, StackTop
  <2>5. Filled(B, m)'
    <3>1. \A b, w : Word(b, w) /\ b \in Int /\ b < Top(B) - Frame + 4 * m => Word(b, w)'
      BY <2>1 DEF Word, Stores
    <3> QED
      BY <1>1, <1>3, <2>3, <3>1, FilledKept
  <2>6. PICK n \in 1..Size : n = m + 1
    BY <1>1
  <2>7. StackLow <= Top(B) - Frame
    <3>1. CASE m = 0
      <4>1. a \in Addresses /\ a = Top(B) - Frame
        BY <1>1, <2>1, <3>1 DEF Stores, Machine
      <4> QED
        BY <2>2, <4>1, FrameFacts
    <3>2. CASE m > 0
      BY <3>2 DEF Filled
    <3> QED
      BY <1>1, <3>1, <3>2
  <2>8. Filled(B, n)'
    <3>1. ASSUME NEW j \in 1..n, data'[j] \in DOMAIN env'
          PROVE  Word(Top(B) - Frame + 4 * (j - 1), env[data[j]])'
      <4>1. CASE j \in 1..m
        BY <2>5, <3>1, <4>1 DEF Filled
      <4>2. CASE j = n
        <5>1. PICK x : x = data[m + 1] /\ x \in DOMAIN env /\ v = env[x]
          BY <2>1, <2>4, <2>6, <3>1, <4>2
        <5>2. a = (Top(B) - Frame + 4 * (j - 1))' /\ v = env'[data'[j]]
          <6>1. j - 1 = m
            BY <1>1, <2>6, <4>2
          <6>2. data'[j] = x
            BY <2>4, <2>6, <4>2, <5>1
          <6> QED
            BY <2>1, <2>3, <2>4, <5>1, <6>1, <6>2
        <5> QED
          BY <2>3, <5>2 DEF Word
      <4> QED
        BY <1>1, <2>6, <4>1, <4>2
    <3> QED
      BY <2>3, <2>4, <2>7, <3>1 DEF Filled
  <2>9. Here(1 + 2 * n)'
    <3>1. pc' = Pos[ipc] + (1 + 2 * n)
      BY <1>1, <2>4, <2>6 DEF Here
    <3> QED
      BY <2>3, <3>1 DEF Here, Unmoved
  <2>10. n \in 0..Size'
    BY <2>4
  <2> QED
    BY <2>3, <2>4, <2>8, <2>9, <2>10 DEF Calling, Unmoved
<1> QED
  BY <1>5

(* The return address goes above the variables.                            *)
LEMMA CallLink ==
    ASSUME Static, RunLine, NEW B, Sound(B), Calling(B), Filled(B, Size), Here(1 + 2 * Size)
    PROVE  Faults \/ (Sound(B)' /\ Calling(B)')
<1>1. /\ ipc \in DOMAIN tac /\ Pos[ipc] \in Nat /\ Machine /\ Size \in Nat /\ Frame = 4 * Size + 4 /\ Top(B) \in Int
      /\ tac[ipc].kind = "CALL" /\ Top(B) - Frame > 4 * Size
  BY FrameFacts DEF Calling, CurI
<1>2. /\ Len(Lines(ipc)) = 4 * Size + 6 /\ Lines(ipc)[(2 * Size + 1) + 1] = Sw("ra", 4 * Size, "sp")
  BY <1>1, CallLinesAt
<1>3. Execute /\ UNCHANGED <<gvars, ivars>> /\ Ins = Sw("ra", 4 * Size, "sp")
  <2>1. PICK o \in Nat : o = 2 * Size + 1
    BY <1>1
  <2>2. Here(o) /\ o < Len(Lines(ipc)) /\ Lines(ipc)[o + 1] = Sw("ra", 4 * Size, "sp")
    <3>1. 1 + 2 * Size = o
      BY <1>1, <2>1
    <3> QED
      BY <1>1, <1>2, <2>1, <3>1
  <2>3. Execute /\ UNCHANGED gvars /\ Ins = Lines(ipc)[o + 1] /\ (Ins.op # "jal" => UNCHANGED ivars)
    BY <1>1, <2>2, CallLine DEF CurI
  <2> QED
    BY <2>2, <2>3 DEF Sw
<1>4. Stores(reg["sp"] + 4 * Size, reg["ra"]) \/ Faults
  BY <1>3, SwStep
<1>5. ASSUME ~Faults PROVE Sound(B)' /\ Calling(B)'
  <2>1. PICK a, v : a = Top(B) - Frame + 4 * Size /\ v = RaOf(0) /\ Stores(a, v)
    BY <1>4, <1>5 DEF Calling
  <2>2. a \in Int /\ a > 4 * Size /\ ~(a >= Top(B)) /\ Values
    BY <1>1, <2>1 DEF Calling
  <2>3. /\ Sound(B)' /\ Values' /\ Top(B)' = Top(B) /\ RaOf(0)' = RaOf(0) /\ Unmoved /\ Word(a, v)'
    BY <1>3, <2>1, <2>2, StoreStep DEF Unmoved
  <2>4. /\ pc' = pc + 1 /\ UNCHANGED <<printed, reg>> /\ Frame' = Frame /\ Size' = Size
        /\ StackLow' = StackLow
    BY <1>3, <2>1, StaticKept DEF Stores, StackLow, StackTop
  <2>5. Filled(B, Size)'
    <3>0. PICK m \in Nat : m = Size
      BY <1>1
    <3>1. \A b, w : Word(b, w) /\ b \in Int /\ b < Top(B) - Frame + 4 * m => Word(b, w)'
      BY <2>1, <3>0 DEF Word, Stores
    <3>2. Filled(B, m)'
      BY <1>1, <1>3, <2>3, <3>0, <3>1, FilledKept
    <3> QED
      BY <2>4, <3>0, <3>2
  <2>7. StackLow <= Top(B) - Frame
    <3>1. CASE Size = 0
      <4>1. a \in Addresses /\ a = Top(B) - Frame
        BY <1>1, <2>1, <3>1 DEF Stores, Machine
      <4> QED
        BY <2>2, <4>1, FrameFacts
    <3>2. CASE Size > 0
      BY <3>2 DEF Filled
    <3> QED
      BY <1>1, <3>1, <3>2
  <2>8. Word(Top(B) - Frame + 4 * Size, RaOf(0))'
    BY <2>1, <2>3, <2>4 DEF Word
  <2>9. Here(2 * Size + 2)'
    <3>1. pc' = Pos[ipc] + (2 * Size + 2)
      BY <1>1, <2>4 DEF Here
    <3> QED
      BY <2>3, <2>4, <3>1 DEF Here, Unmoved
  <2> QED
    BY <2>3, <2>4, <2>5, <2>7, <2>8, <2>9 DEF Calling, Unmoved
<1> QED
  BY <1>5

(* The bases when an activation begins at b.                               *)
Above(B, b) == [k \in 0..Len(frames) + 1 |-> IF k = 0 THEN b ELSE B[k - 1]]

(* The bases with one more in front.                                       *)
LEMMA AboveFacts ==
    ASSUME Static, NEW B, Stack(B), NEW b \in Int
    PROVE  /\ Above(B, b) \in [0..Len(frames) + 1 -> Int] /\ Above(B, b)[0] = b
           /\ \A k \in 0..Len(frames) : k + 1 \in 0..Len(frames) + 1 /\ Above(B, b)[k + 1] = B[k]
           /\ \A k \in 1..Len(frames) + 1 : Above(B, b)[k] = B[k - 1]
<1>1. B \in [0..Len(frames) -> Int] /\ Len(frames) \in Nat
  BY TopFacts DEF Stack, Suspended
<1>2. PICK U : U = Above(B, b)
  OBVIOUS
<1>3. U = [k \in 0..Len(frames) + 1 |-> IF k = 0 THEN b ELSE B[k - 1]]
  BY <1>2 DEF Above
<1>4. \A k \in 1..Len(frames) + 1 : k \in 0..Len(frames) + 1 /\ k # 0 /\ k - 1 \in 0..Len(frames) /\ U[k] = B[k - 1]
  BY <1>1, <1>3
<1>5. U[0] = b
  BY <1>1, <1>3
<1>6. U \in [0..Len(frames) + 1 -> Int]
  BY <1>1, <1>3, <1>4
<1>7. ASSUME NEW k \in 0..Len(frames)
      PROVE  k + 1 \in 0..Len(frames) + 1 /\ U[k + 1] = B[k]
  <2>1. k + 1 \in 1..Len(frames) + 1 /\ (k + 1) - 1 = k
    BY <1>1
  <2> QED
    BY <1>4, <2>1
<1> QED
  BY <1>2, <1>4, <1>5, <1>6, <1>7

(* The saved activations with one more in front.                           *)
LEMMA FramesPushed ==
    ASSUME Static, UNCHANGED gvars, IsSeq(frames), NEW f, frames' = <<f>> \o frames, ipc \in Int, f.back = ipc + 1
    PROVE  /\ IsSeq(frames)' /\ Len(frames)' = Len(frames) + 1 /\ frames'[1] = f
           /\ \A k \in 1..Len(frames) : frames'[k + 1] = frames[k]
           /\ RaOf(0)' = RetPos(ipc)
           /\ \A k \in 1..Len(frames) + 1 : RaOf(k)' = RaOf(k - 1)
<1>1. PICK s : s = frames'
  OBVIOUS
<1>2. IsSeq(s) /\ Len(s) = Len(frames) + 1 /\ s[1] = f /\ \A k \in 1..Len(frames) : s[k + 1] = frames[k]
  BY <1>1, Prepended
<1>3. Len(frames) \in Nat
  BY IsSeqLemma
<1>4. \A c : RetPos(c)' = RetPos(c)
  BY StaticKept
<1>5. RaOf(0)' = RetPos(ipc)
  <2>1. ~(0 = Len(frames)')
    BY <1>1, <1>2, <1>3
  <2>2. RaOf(0)' = RetPos(frames[0 + 1].back - 1)'
    BY <2>1 DEF RaOf
  <2>3. frames'[0 + 1].back - 1 = ipc
    BY <1>1, <1>2
  <2>4. PICK c : c = frames'[0 + 1].back - 1
    OBVIOUS
  <2> QED
    BY <1>4, <2>2, <2>3, <2>4 DEF RetPos
<1>6. ASSUME NEW k \in 1..Len(frames) + 1
      PROVE  RaOf(k)' = RaOf(k - 1)
  <2>1. CASE k = Len(frames) + 1
    <3>1. k = Len(frames)' /\ k - 1 = Len(frames)
      BY <1>1, <1>2, <1>3, <2>1
    <3> QED
      BY <3>1 DEF RaOf
  <2>2. CASE k # Len(frames) + 1
    <3>1. k # Len(frames)' /\ k - 1 # Len(frames) /\ (k - 1) + 1 = k /\ k \in 1..Len(frames)
      BY <1>1, <1>2, <1>3, <2>2
    <3>2. PICK c : c = frames[k].back - 1
      OBVIOUS
    <3>3. frames'[k + 1].back - 1 = c
      BY <1>1, <1>2, <3>1, <3>2
    <3>4. RaOf(k - 1) = RetPos(c)
      BY <3>1, <3>2 DEF RaOf
    <3>5. RaOf(k)' = RetPos(c)'
      BY <3>1, <3>3 DEF RaOf, RetPos
    <3> QED
      BY <1>4, <3>4, <3>5
  <2> QED
    BY <2>1, <2>2
<1> QED
  BY <1>1, <1>2, <1>5, <1>6

(* The caller's frame, as the jump leaves it.                              *)
LEMMA FrameSaved ==
    ASSUME Static, UNCHANGED <<gvars, mem>>, NEW B, Sound(B), CurI.kind = "CALL", Filled(B, Size),
           Word(Top(B) - Frame + 4 * Size, RaOf(0)), NEW f,
           f = [ret |-> CurI.ret, back |-> ipc + 1, env |-> env, loc |-> loc, actuals |-> actuals],
           NEW b, NEW base, NEW ra, b = Top(B) - Frame, base = B[0], ra = RaOf(0)
    PROVE  Saved(f, base, b, ra)'
<1>1. /\ ipc \in DOMAIN tac /\ tac[ipc].kind = "CALL" /\ ~Sealed(tac, ipc) /\ RunOf("ARG", ipc, Len(pending))
      /\ Placed(env, loc) /\ IsSeq(actuals)
  BY DEF Sound, Live, CurI, Given
<1>2. DOMAIN tac = 1..Len(tac) /\ Len(tac) \in Nat /\ tac \in Seq(Inst) /\ Size \in Nat /\ DOMAIN data = 1..Size
  BY BuiltFacts DEF Static
<1>3. ArgsBefore[ipc] = Len(pending)
  <2>1. ipc \in 1..Len(tac) + 1
    BY <1>1, <1>2
  <2> QED
    BY <1>1, <1>2, <2>1, RunLength
<1>4. UNCHANGED <<tac, data>> /\ ArgsBefore' = ArgsBefore /\ Frame' = Frame /\ Size' = Size /\ Frame \in Int
  BY <1>2, StaticKept DEF gvars, Frame
<1>5. Top(B) \in Int /\ B[0] \in Int /\ Len(pending) \in Nat /\ Top(B) = B[0] - 4 * Len(pending)
  BY TopFacts DEF Sound, Top
<1>6. f.back = ipc + 1 /\ f.ret = CurI.ret /\ f.env = env /\ f.loc = loc /\ f.actuals = actuals /\ f.back - 1 = ipc
  BY <1>1, <1>2
<1>7. b = base - 4 * ArgsBefore[ipc] - Frame
  BY <1>3, <1>4, <1>5
<1>8. ASSUME NEW j \in DOMAIN data, data[j] \in DOMAIN env
      PROVE  Word(b + 4 * (j - 1), env[data[j]])
  BY <1>2, <1>8 DEF Filled
<1>9. Word(b + 4 * Size, ra)
  BY DEF Word
<1>10. Saved(f, base, b, ra)
  <2>1. /\ f.back - 1 \in DOMAIN tac /\ tac[f.back - 1].kind = "CALL" /\ f.ret = tac[f.back - 1].ret
        /\ ~Sealed(tac, f.back - 1) /\ ArgsBefore[f.back - 1] \in Nat
        /\ b = base - 4 * ArgsBefore[f.back - 1] - Frame
    BY <1>1, <1>3, <1>5, <1>6, <1>7 DEF CurI
  <2>2. f.back \in Int
    BY <1>1, <1>2, <1>6
  <2>3. \A j \in DOMAIN data : data[j] \in DOMAIN f.env => Word(b + 4 * (j - 1), f.env[data[j]])
    BY <1>6, <1>8
  <2>4. Placed(f.env, f.loc) /\ IsSeq(f.actuals)
    BY <1>1, <1>6
  <2> QED
    BY <1>9, <2>1, <2>2, <2>3, <2>4 DEF Saved
<1> QED
  <2>1. PICK t \in Int : t = b
    BY <1>4, <1>5
  <2>2. HighKept(t)
    BY HighLemma
  <2>3. b \in Int /\ t <= b
    BY <2>1
  <2> QED
    BY <1>10, <2>2, <2>3, SavedKept

(* The frame that has been filled suspends the caller.                     *)
LEMMA SuspendedPush ==
    ASSUME Static, UNCHANGED <<gvars, mem>>, NEW B, Sound(B), CurI.kind = "CALL", Filled(B, Size),
           Word(Top(B) - Frame + 4 * Size, RaOf(0)),
           frames' = <<[ret |-> CurI.ret, back |-> ipc + 1, env |-> env, loc |-> loc, actuals |-> actuals]>> \o frames,
           NEW b, b = Top(B) - Frame, NEW U, U = Above(B, b)
    PROVE  /\ Suspended(U)' /\ IsSeq(frames)' /\ RaOf(0)' = RetPos(ipc)
           /\ U[0] = b /\ b \in Int
<1>1. /\ Stack(B) /\ Len(frames) \in Nat /\ Len(pending) \in Nat /\ B[0] \in Int /\ Top(B) \in Int /\ Top(B) <= B[0]
      /\ b \in Int /\ b <= B[0] /\ IsSeq(frames)
  <2>1. Stack(B) /\ IsSeq(frames)
    <3>1. Stack(B)
      BY DEF Sound
    <3> QED
      BY <3>1 DEF Stack
  <2>2. PICK t, z \in Int : t = Top(B) /\ z = Size /\ t <= B[0] /\ z >= 0 /\ B[0] \in Int
    <3>1. Top(B) \in Int /\ Top(B) <= B[0] /\ B[0] \in Int /\ Size \in Nat
      BY <2>1, TopFacts
    <3>2. Size \in Int /\ Size >= 0
      BY <3>1
    <3> QED
      BY <3>1, <3>2
  <2>3. b = t - (4 * z + 4)
    BY <2>2 DEF Frame
  <2>4. b \in Int /\ b <= B[0]
    BY <2>2, <2>3
  <2> QED
    BY <2>1, <2>4, TopFacts
<1>2. /\ U \in [0..Len(frames) + 1 -> Int] /\ U[0] = b
      /\ \A k \in 0..Len(frames) : k + 1 \in 0..Len(frames) + 1 /\ U[k + 1] = B[k]
      /\ \A k \in 1..Len(frames) + 1 : U[k] = B[k - 1]
  BY <1>1, AboveFacts
<1>3. PICK f : f = [ret |-> CurI.ret, back |-> ipc + 1, env |-> env, loc |-> loc, actuals |-> actuals]
  OBVIOUS
<1>4. ipc \in Int /\ f.back = ipc + 1
  BY <1>3, BuiltFacts DEF Static, Sound, Live
<1>5. /\ IsSeq(frames)' /\ Len(frames)' = Len(frames) + 1 /\ frames'[1] = f
      /\ \A k \in 1..Len(frames) : frames'[k + 1] = frames[k]
      /\ RaOf(0)' = RetPos(ipc)
      /\ \A k \in 1..Len(frames) + 1 : RaOf(k)' = RaOf(k - 1)
  BY <1>1, <1>3, <1>4, FramesPushed
<1>6. U[Len(frames) + 1] = StackTop
  BY <1>1, <1>2 DEF Stack, Suspended
<1>7. \A j, k \in 0..Len(frames) : j <= k => B[j] <= B[k]
  BY <1>1 DEF Stack, Suspended
<1>8. ASSUME NEW j \in 0..Len(frames) + 1, NEW k \in 0..Len(frames) + 1, j <= k
      PROVE  U[j] <= U[k]
  <2>0. B \in [0..Len(frames) -> Int]
    BY <1>1 DEF Stack, Suspended
  <2>1. CASE j = 0 /\ k = 0
    BY <1>1, <1>2, <2>1
  <2>2. CASE j = 0 /\ k # 0
    <3>1. k \in 1..Len(frames) + 1 /\ k - 1 \in 0..Len(frames) /\ 0 \in 0..Len(frames) /\ 0 <= k - 1
      BY <1>1, <2>2
    <3>2. U[k] = B[k - 1] /\ B[0] <= B[k - 1] /\ B[k - 1] \in Int
      BY <1>2, <1>7, <2>0, <3>1
    <3> QED
      BY <1>1, <1>2, <2>2, <3>2
  <2>3. CASE j # 0
    <3>1. j \in 1..Len(frames) + 1 /\ k \in 1..Len(frames) + 1 /\ j - 1 \in 0..Len(frames) /\ k - 1 \in 0..Len(frames) /\ j - 1 <= k - 1
      BY <1>1, <1>8, <2>3
    <3> QED
      BY <1>2, <1>7, <3>1
  <2> QED
    BY <2>1, <2>2, <2>3
<1>9. ASSUME NEW k \in 1..Len(frames) + 1
      PROVE  Saved(frames[k], U[k], U[k - 1], RaOf(k))'
  <2>1. CASE k = 1
    <3>1. PICK base, ra : base = B[0] /\ ra = RaOf(0)
      OBVIOUS
    <3>2. Saved(f, base, b, ra)'
      BY <1>3, <3>1, FrameSaved
    <3>3. U[k] = base /\ U[k - 1] = b /\ RaOf(k)' = ra /\ frames'[k] = f
      BY <1>1, <1>2, <1>5, <2>1, <3>1
    <3> QED
      BY <3>2, <3>3
  <2>2. CASE k # 1
    <3>1. PICK j \in 1..Len(frames) : k = j + 1
      <4>1. k - 1 \in 1..Len(frames) /\ k = (k - 1) + 1
        BY <1>1, <2>2
      <4> QED
        BY <4>1
    <3>2. j \in 0..Len(frames) /\ j - 1 \in 0..Len(frames) /\ k - 1 = j /\ j \in 1..Len(frames) + 1
      BY <1>1, <3>1
    <3>3. Saved(frames[j], B[j], B[j - 1], RaOf(j))
      BY <1>1 DEF Stack, Suspended
    <3>4. PICK g, base, below, ra : g = frames[j] /\ base = B[j] /\ below = B[j - 1] /\ ra = RaOf(j)
      OBVIOUS
    <3>5. Saved(g, base, below, ra) /\ below \in Int
      BY <1>1, <3>2, <3>3, <3>4 DEF Stack, Suspended
    <3>6. Saved(g, base, below, ra)'
      <4>1. PICK t \in Int : t = below
        BY <3>5
      <4>2. HighKept(t) /\ t <= below
        BY <4>1, HighLemma
      <4> QED
        BY <3>5, <4>2, SavedKept
    <3>7. g = frames'[k]
      BY <1>5, <3>1, <3>4
    <3>8. base = U[k] /\ below = U[k - 1]
      BY <1>2, <3>1, <3>2, <3>4
    <3>9. ra = RaOf(k)'
      BY <1>5, <3>2, <3>4
    <3> QED
      BY <3>6, <3>7, <3>8, <3>9
  <2> QED
    BY <2>1, <2>2
<1>10. Suspended(U)'
  <2>1. StackTop' = StackTop
    BY DEF StackTop
  <2> QED
    BY <1>2, <1>5, <1>6, <1>8, <1>9, <2>1 DEF Suspended
<1> QED
  BY <1>1, <1>2, <1>5, <1>10

(* The jump: the callee begins with the base at the frame.                 *)
LEMMA CallEnter ==
    ASSUME Static, RunLine, NEW B, Sound(B), Calling(B), Filled(B, Size), StackLow <= Top(B) - Frame,
           Word(Top(B) - Frame + 4 * Size, RaOf(0)), Here(2 * Size + 2)
    PROVE  Faults \/ \E U : Sound(U)' /\ Fresh(U)'
<1>1. /\ ipc \in DOMAIN tac /\ Pos[ipc] \in Nat /\ Machine /\ Size \in Nat /\ Frame = 4 * Size + 4 /\ Top(B) \in Int
      /\ CurI.kind = "CALL" /\ tac[ipc].kind = "CALL" /\ Stack(B) /\ Placed(env, loc)
  BY FrameFacts DEF Calling, CurI, Sound
<1>2. /\ Len(Lines(ipc)) = 4 * Size + 6 /\ Lines(ipc)[(2 * Size + 2) + 1] = Jal(tac[ipc].funcname)
  BY <1>1, CallLinesAt
<1>3. /\ Execute /\ UNCHANGED gvars /\ Ins = Jal(CurI.funcname)
      /\ Faults \/ IR!Run(reg["v0"], reg["t0"])
  <2>1. PICK o \in Nat : o = 2 * Size + 2
    BY <1>1
  <2>2. Here(o) /\ o < Len(Lines(ipc)) /\ Lines(ipc)[o + 1] = Jal(CurI.funcname)
    BY <1>1, <1>2, <2>1 DEF CurI
  <2>3. /\ Execute /\ UNCHANGED gvars /\ Ins = Lines(ipc)[o + 1]
        /\ Ins.op = "jal" => Faults \/ IR!Run(reg["v0"], reg["t0"])
    BY <1>1, <2>2, CallLine
  <2> QED
    BY <2>2, <2>3 DEF Jal
<1>4. PICK f : f = CurI.funcname
  OBVIOUS
<1>5. pc' = Line(f) /\ reg' = [reg EXCEPT !["ra"] = pc + 1] /\ UNCHANGED <<mem, status, printed>>
  BY <1>3, <1>4, JumpStep
<1>6. PICK i \in DOMAIN tac : i = IR!FunctionAt(f) /\ tac[i].kind = "FUNCTION" /\ Line(f) = Pos[i]
  <2>1. \E j \in DOMAIN tac : tac[j] = Function(f)
    BY <1>1, <1>4, BuiltFacts DEF Static, Supported, CurI
  <2> QED
    BY <2>1, FunctionPlace
<1>7. ASSUME ~Faults PROVE \E U : Sound(U)' /\ Fresh(U)'
  <2>1. /\ frames' = <<[ret |-> CurI.ret, back |-> ipc + 1, env |-> env, loc |-> loc, actuals |-> actuals]>>
                     \o frames
        /\ ipc' = i /\ env' = <<>> /\ loc' = <<>> /\ actuals' = pending /\ pending' = <<>> /\ UNCHANGED wrote
    <3>1. ipc # 0
      BY <1>1, BuiltFacts DEF Static
    <3> QED
      BY <1>1, <1>3, <1>4, <1>6, <1>7, <3>1, RunKinds3
  <2>2. PICK b : b = Top(B) - Frame
    OBVIOUS
  <2>3. PICK U : U = Above(B, b)
    OBVIOUS
  <2>4. Suspended(U)' /\ IsSeq(frames)' /\ RaOf(0)' = RetPos(ipc) /\ U[0] = b /\ b \in Int
    BY <1>1, <1>3, <1>5, <2>1, <2>2, <2>3, SuspendedPush
  <2>5. /\ Pos' = Pos /\ Frame' = Frame /\ UNCHANGED <<tac, data>> /\ Addresses' = Addresses
        /\ StackLow' = StackLow
    BY <1>3, StaticKept DEF gvars, StackLow, StackTop
  <2>6. Len(pending') = 0 /\ IsSeq(pending)' /\ DOMAIN pending' = {} /\ DOMAIN env' = {} /\ DOMAIN loc' = {}
    <3>1. PICK s : s = <<>>
      OBVIOUS
    <3>2. s \in Seq({}) /\ Len(s) = 0 /\ DOMAIN s = {}
      BY <3>1
    <3>3. IsSeq(s)
      BY <3>2, SeqLemma
    <3> QED
      BY <2>1, <3>1, <3>2, <3>3 DEF IsSeq
  <2>7. Top(U)' = b
    BY <2>4, <2>6 DEF Top
  <2>8. Stack(U)'
    BY <1>1, <2>2, <2>4, <2>5, <2>6, <2>7 DEF Stack
  <2>9. Machine' /\ reg'["ra"] = pc + 1 /\ reg'["sp"] = reg["sp"]
    <3>1. PICK r, v : r = "ra" /\ v = pc + 1 /\ r \in Reg \ {"zero"} /\ reg' = [reg EXCEPT ![r] = v]
      BY <1>5 DEF Reg
    <3>2. reg'[r] = v /\ \A q \in Reg : q # r => reg'[q] = reg[q]
      BY <1>1, <3>1, RegSet
    <3>3. DOMAIN reg' = Reg /\ DOMAIN mem' = Addresses' /\ reg'["zero"] = 0
      BY <1>1, <1>5, <2>5, <3>1, <3>2 DEF Machine, Reg
    <3> QED
      BY <3>1, <3>2, <3>3 DEF Machine, Reg
  <2>10. Live'
    <3>1. RunOf("ARG", i, 0)
      BY <1>6, NoneWaiting
    <3> QED
      BY <1>6, <2>1, <2>5, <2>6, <3>1 DEF Live, RunOf, Sealed
  <2>11. Given(U)'
    <3>1. IsSeq(pending)
      BY <1>1 DEF Stack
    <3>2. RunOf("PARAM", i, 0)
      BY <1>6, Beginning
    <3>3. ASSUME NEW m \in DOMAIN actuals'
          PROVE  Word(U[0] + Frame + 4 * (0 + m - 1), actuals[m])'
      <4>1. m \in DOMAIN pending /\ m \in Nat
        BY <2>1, <3>1, <3>3, IsSeqLemma
      <4>2. Word(Top(B) + 4 * (m - 1), pending[m])
        BY <1>1, <4>1 DEF Stack
      <4>3. PICK a, v : a = Top(B) + 4 * (m - 1) /\ v = pending[m] /\ Word(a, v)
        BY <4>2
      <4>4. Word(a, v)'
        BY <1>5, <4>3 DEF Word
      <4>5. a = U[0] + Frame + 4 * (0 + m - 1) /\ v = actuals'[m]
        BY <1>1, <2>1, <2>2, <2>4, <4>1, <4>3
      <4> QED
        BY <2>5, <4>4, <4>5
    <3>4. IsSeq(actuals)'
      BY <2>1, <3>1 DEF IsSeq
    <3>5. RunOf("PARAM", ipc, 0)'
      BY <2>1, <2>5, <3>2 DEF RunOf
    <3> QED
      BY <3>3, <3>4, <3>5 DEF Given
  <2>12. Placed(env, loc)'
    BY <2>6 DEF Placed
  <2>13. Sound(U)'
    BY <2>8, <2>9, <2>10, <2>11, <2>12 DEF Sound
  <2>14. Steady(U)'
    <3>1. reg["sp"] = b /\ printed = wrote
      BY <2>2 DEF Calling
    <3>2. pc + 1 = RetPos(ipc)
      BY <1>1 DEF Here, RetPos
    <3>3. Values'
      BY <2>6 DEF Values
    <3> QED
      BY <1>5, <2>1, <2>4, <2>7, <2>9, <3>1, <3>2, <3>3 DEF Steady
  <2>15. Here(0)'
    <3>1. Pos[i] \in Nat
      <4>1. i \in 1..Len(tac) + 1
        BY BuiltFacts DEF Static
      <4> QED
        BY <4>1, PosFacts DEF Static
    <3> QED
      BY <1>5, <1>6, <2>1, <2>5, <3>1 DEF Here
  <2> QED
    BY <2>13, <2>14, <2>15 DEF Fresh
<1> QED
  BY <1>7

(* The lines of a CALL up to the jump.                                     *)
LEMMA CallStep ==
    ASSUME Static, RunLine, NEW B, Sound(B), CurI.kind = "CALL", Fresh(B) \/ Calling(B)
    PROVE  Faults \/ \E U : Sound(U)' /\ (Fresh(U) \/ Calling(U))'
<1>1. CASE Fresh(B)
  BY <1>1, CallFirst
<1>2. CASE Calling(B)
  <2>1. CASE \E m \in 0..Size : Filled(B, m) /\ Here(1 + 2 * m)
    <3>1. PICK m \in 0..Size : Filled(B, m) /\ Here(1 + 2 * m)
      BY <2>1
    <3>2. Size \in Nat
      BY FrameFacts
    <3>3. CASE m = Size
      BY <1>2, <3>1, <3>3, CallLink
    <3>4. CASE m # Size
      <4>1. m \in 0..Size - 1
        BY <3>2, <3>4
      <4> QED
        BY <1>2, <3>1, <4>1, CallLoad
    <3> QED
      BY <3>3, <3>4
  <2>2. CASE \E m \in 0..Size - 1 : /\ Filled(B, m) /\ Here(2 + 2 * m)
                                    /\ data[m + 1] \in DOMAIN env => reg["t0"] = env[data[m + 1]]
    BY <1>2, <2>2, CallStore
  <2>3. CASE /\ Filled(B, Size) /\ StackLow <= Top(B) - Frame /\ Word(Top(B) - Frame + 4 * Size, RaOf(0))
             /\ Here(2 * Size + 2)
    BY <1>2, <2>3, CallEnter
  <2> QED
    BY <1>2, <2>1, <2>2, <2>3 DEF Calling
<1> QED
  BY <1>1, <1>2

-----------------------------------------------------------------------------
(* RETURN.                                                                 *)

(* The bases when an activation has ended.                                 *)
Below(B) == [k \in 0..Len(frames) - 1 |-> B[k + 1]]

(* The saved activations without the first.                                *)
LEMMA FramesPopped ==
    ASSUME Static, UNCHANGED gvars, IsSeq(frames), frames # <<>>, frames' = Tail(frames)
    PROVE  /\ IsSeq(frames)' /\ Len(frames)' = Len(frames) - 1 /\ Len(frames) \in Nat /\ Len(frames) >= 1
           /\ \A k \in 1..Len(frames) - 1 : frames'[k] = frames[k + 1]
           /\ RaOf(0) = RetPos(frames[1].back - 1)
           /\ \A k \in 0..Len(frames) - 1 : RaOf(k)' = RaOf(k + 1)
<1>1. PICK s : s = frames'
  OBVIOUS
<1>2. /\ IsSeq(s) /\ Len(s) = Len(frames) - 1 /\ Len(frames) \in Nat /\ Len(frames) >= 1
      /\ \A k \in 1..Len(frames) - 1 : s[k] = frames[k + 1]
  BY <1>1, TailFacts
<1>4. \A c : RetPos(c)' = RetPos(c)
  BY StaticKept
<1>5. RaOf(0) = RetPos(frames[1].back - 1)
  <2>1. 0 # Len(frames) /\ 0 + 1 = 1
    BY <1>2
  <2> QED
    BY <2>1 DEF RaOf
<1>6. ASSUME NEW k \in 0..Len(frames) - 1
      PROVE  RaOf(k)' = RaOf(k + 1)
  <2>1. CASE k = Len(frames) - 1
    <3>1. k = Len(frames)' /\ k + 1 = Len(frames)
      BY <1>1, <1>2, <2>1
    <3> QED
      BY <3>1 DEF RaOf
  <2>2. CASE k # Len(frames) - 1
    <3>0. PICK n \in Nat : n = Len(frames) /\ Len(frames)' = n - 1
      BY <1>1, <1>2
    <3>6. k \in 0..n - 1 /\ k # n - 1
      BY <2>2, <3>0
    <3>7. k + 1 # n /\ k + 1 \in 1..n - 1
      BY <3>6
    <3>1. k # Len(frames)' /\ k + 1 # Len(frames) /\ k + 1 \in 1..Len(frames) - 1
      BY <3>0, <3>6, <3>7
    <3>2. PICK c : c = frames[(k + 1) + 1].back - 1
      OBVIOUS
    <3>3. frames'[k + 1].back - 1 = c
      BY <1>1, <1>2, <3>1, <3>2
    <3>4. RaOf(k + 1) = RetPos(c)
      BY <3>1, <3>2 DEF RaOf
    <3>5. RaOf(k)' = RetPos(c)'
      BY <3>1, <3>3 DEF RaOf, RetPos
    <3> QED
      BY <1>4, <3>4, <3>5
  <2> QED
    BY <2>1, <2>2
<1> QED
  BY <1>1, <1>2, <1>5, <1>6

(* The callers of the caller stay suspended.                               *)
LEMMA SuspendedPop ==
    ASSUME Static, UNCHANGED <<gvars, mem>>, NEW B, Stack(B), frames # <<>>, frames' = Tail(frames),
           NEW U, U = Below(B)
    PROVE  /\ Suspended(U)' /\ IsSeq(frames)' /\ U[0] = B[1] /\ B[1] \in Int /\ B[0] <= B[1]
           /\ RaOf(0)' = RaOf(1)
           /\ Saved(frames[1], B[1], B[0], RaOf(1)) /\ RaOf(0) = RetPos(frames[1].back - 1)
<1>1. IsSeq(frames) /\ B \in [0..Len(frames) -> Int] /\ B[Len(frames)] = StackTop
  BY DEF Stack, Suspended
<1>2. /\ IsSeq(frames)' /\ Len(frames)' = Len(frames) - 1 /\ Len(frames) \in Nat /\ Len(frames) >= 1
      /\ \A k \in 1..Len(frames) - 1 : frames'[k] = frames[k + 1]
      /\ RaOf(0) = RetPos(frames[1].back - 1)
      /\ \A k \in 0..Len(frames) - 1 : RaOf(k)' = RaOf(k + 1)
  BY <1>1, FramesPopped
<1>3. \A j, k \in 0..Len(frames) : j <= k => B[j] <= B[k]
  BY DEF Stack, Suspended
<1>4. \A k \in 1..Len(frames) : Saved(frames[k], B[k], B[k - 1], RaOf(k))
  BY DEF Stack, Suspended
<1>5. \A k \in 0..Len(frames) - 1 : k + 1 \in 0..Len(frames) /\ U[k] = B[k + 1]
  BY <1>2 DEF Below
<1>6. U \in [0..Len(frames) - 1 -> Int]
  BY <1>1, <1>5 DEF Below
<1>7. U[Len(frames) - 1] = StackTop
  <2>1. Len(frames) - 1 \in 0..Len(frames) - 1 /\ (Len(frames) - 1) + 1 = Len(frames)
    BY <1>2
  <2> QED
    BY <1>1, <1>5, <2>1
<1>8. ASSUME NEW j \in 0..Len(frames) - 1, NEW k \in 0..Len(frames) - 1, j <= k
      PROVE  U[j] <= U[k]
  <2>1. j + 1 <= k + 1
    BY <1>8
  <2> QED
    BY <1>3, <1>5, <2>1
<1>9. ASSUME NEW k \in 1..Len(frames) - 1
      PROVE  Saved(frames[k], U[k], U[k - 1], RaOf(k))'
  <2>1. PICK j : j = k + 1
    OBVIOUS
  <2>2. j \in 1..Len(frames) /\ j - 1 = k /\ k \in 0..Len(frames) - 1 /\ k - 1 \in 0..Len(frames) - 1 /\ (k - 1) + 1 = k
        /\ k \in 0..Len(frames)
    BY <1>2, <2>1
  <2>3. PICK g, base, below, ra : g = frames[j] /\ base = B[j] /\ below = B[j - 1] /\ ra = RaOf(j)
    OBVIOUS
  <2>4. Saved(g, base, below, ra) /\ below \in Int
    BY <1>1, <1>4, <2>2, <2>3
  <2>5. Saved(g, base, below, ra)'
    <3>1. PICK t \in Int : t = below
      BY <2>4
    <3>2. HighKept(t) /\ t <= below
      BY <3>1, HighLemma
    <3> QED
      BY <2>4, <3>2, SavedKept
  <2>6. g = frames'[k] /\ base = U[k] /\ below = U[k - 1] /\ ra = RaOf(k)'
    BY <1>2, <1>5, <2>1, <2>2, <2>3
  <2> QED
    BY <2>5, <2>6
<1>10. Suspended(U)'
  <2>1. StackTop' = StackTop
    BY DEF StackTop
  <2> QED
    BY <1>2, <1>6, <1>7, <1>8, <1>9, <2>1 DEF Suspended
<1>11. U[0] = B[1] /\ B[1] \in Int /\ B[0] <= B[1] /\ RaOf(0)' = RaOf(1)
  <2>1. 0 \in 0..Len(frames) - 1 /\ 0 + 1 = 1 /\ 0 \in 0..Len(frames) /\ 1 \in 0..Len(frames) /\ 0 <= 1
    BY <1>2
  <2> QED
    BY <1>1, <1>2, <1>3, <1>5, <2>1
<1>12. Saved(frames[1], B[1], B[0], RaOf(1))
  <2>1. 1 \in 1..Len(frames) /\ 1 - 1 = 0
    BY <1>2
  <2> QED
    BY <1>4, <2>1
<1> QED
  BY <1>2, <1>10, <1>11, <1>12

-----------------------------------------------------------------------------
(* What the lines of a CALL after its jump have to do: the words of the    *)
(* caller's variables have its values again, except for the result's.      *)
Home(B, c) == B[0] - 4 * ArgsBefore[c] - Frame

Returned(B, c) ==
    /\ c \in DOMAIN tac /\ tac[c].kind = "CALL" /\ c < ipc /\ Pos[ipc] = Pos[c + 1]
    /\ ArgsBefore[c] \in Nat /\ Len(pending) = 0 /\ printed = wrote
    /\ StackLow <= Home(B, c)
    /\ Listed(tac[c].ret.char_val) /\ tac[c].ret.char_val \in DOMAIN env

Kept(B, c) ==
    /\ \A j \in 1..Size : data[j] \in DOMAIN env /\ data[j] # tac[c].ret.char_val =>
                              Word(Home(B, c) + 4 * (j - 1), env[data[j]])
    /\ Word(Home(B, c) + 4 * Size, RaOf(0))

Restored(c, m) ==
    \A j \in 1..m : data[j] \in DOMAIN env /\ data[j] # tac[c].ret.char_val => Word(4 * j, env[data[j]])

Restoring(B, c) ==
    /\ reg["v0"] = env[tac[c].ret.char_val]
    /\ \/ /\ reg["sp"] = Home(B, c) /\ Kept(B, c)
          /\ \/ \E m \in 0..Size : Restored(c, m) /\ pc = Pos[c] + (2 * Size + 3 + 2 * m)
             \/ \E m \in 0..Size - 1 :
                   /\ Restored(c, m) /\ pc = Pos[c] + (2 * Size + 4 + 2 * m)
                   /\ data[m + 1] \in DOMAIN env /\ data[m + 1] # tac[c].ret.char_val => reg["t0"] = env[data[m + 1]]
       \/ /\ Restored(c, Size) /\ reg["ra"] = RaOf(0)
          /\ \/ reg["sp"] = Home(B, c) /\ pc = Pos[c] + (4 * Size + 4)
             \/ reg["sp"] = Top(B) /\ pc = Pos[c] + (4 * Size + 5)

Returning(B) == \E c \in DOMAIN tac : Returned(B, c) /\ Restoring(B, c)

(* The value of a RETURN is in $v0, and jr is next.                        *)
Answering(B) == CurI.kind = "RETURN" /\ Here(1) /\ Steady(B) /\ Loaded(CurI.var, "v0")

(* The program and the machine have stopped.                               *)
Stopping ==
    /\ Len(pending) = 0 /\ DOMAIN pending = {} /\ frames = <<>>
    /\ reg["sp"] = StackTop /\ printed = wrote

(* The lines of a RETURN.                                                  *)
LEMMA AnswerLines ==
    ASSUME Static, ipc \in DOMAIN tac, CurI.kind = "RETURN"
    PROVE  /\ CurI.var \in ScalarOpd /\ CurI.var \in Opd /\ Len(Lines(ipc)) = 2
           /\ Lines(ipc)[0 + 1] = IF CurI.var.kind = "OP_CONSTANT" THEN Li("v0", CurI.var.int_val)
                                  ELSE Lwl("v0", CurI.var.char_val)
           /\ Lines(ipc)[1 + 1] = Jr
<1>1. CurI.var \in ScalarOpd
  BY BuiltFacts DEF Static, Supported, CurI
<1>2. CurI.var \in Opd
  <2>1. CurI \in Inst
    BY BuiltFacts DEF Static, CurI
  <2> QED
    BY <2>1, InstFields
<1>3. PICK a : a = IF CurI.var.kind = "OP_CONSTANT" THEN Li("v0", CurI.var.int_val)
                   ELSE Lwl("v0", CurI.var.char_val)
  OBVIOUS
<1>4. Lines(ipc) = <<a, Jr>>
  BY <1>3, BranchLines DEF CurI
<1> QED
  BY <1>1, <1>2, <1>3, <1>4

(* The value goes to $v0.                                                  *)
LEMMA AnswerLoad ==
    ASSUME Static, RunLine, NEW B, Sound(B), CurI.kind = "RETURN", Fresh(B)
    PROVE  Faults \/ (Sound(B)' /\ Answering(B)')
<1>1. ipc \in DOMAIN tac /\ Pos[ipc] \in Nat
  BY CurFacts
<1>2. PICK o \in ScalarOpd : o = CurI.var /\ o \in Opd
  BY <1>1, AnswerLines
<1>3. /\ Len(Lines(ipc)) = 2
      /\ Lines(ipc)[0 + 1] = IF o.kind = "OP_CONSTANT" THEN Li("v0", o.int_val) ELSE Lwl("v0", o.char_val)
  BY <1>1, <1>2, AnswerLines
<1>4. /\ Execute /\ UNCHANGED <<gvars, ivars>>
      /\ Ins = IF o.kind = "OP_CONSTANT" THEN Li("v0", o.int_val) ELSE Lwl("v0", o.char_val)
  <2>1. 0 + 1 < Len(Lines(ipc)) /\ CurI.kind # "CALL"
    BY <1>3
  <2> QED
    BY <1>1, <1>3, <2>1, Inside DEF Fresh
<1>5. \/ Faults
      \/ /\ Sound(B)' /\ Steady(B)' /\ CurI' = CurI /\ Loaded(o, "v0")'
         /\ UNCHANGED ipc /\ Pos' = Pos /\ pc' = pc + 1
  BY <1>2, <1>4, LoadsOperand DEF Fresh
<1>6. ASSUME ~Faults PROVE Sound(B)' /\ Answering(B)'
  <2>1. Here(1)'
    BY <1>1, <1>5, <1>6 DEF Here, Fresh
  <2>2. Loaded(CurI.var, "v0")'
    BY <1>2, <1>5, <1>6
  <2> QED
    BY <1>5, <1>6, <2>1, <2>2 DEF Answering
<1> QED
  BY <1>6

(* jr $ra goes where $ra says.                                             *)
LEMMA AnswerJump ==
    ASSUME Static, RunLine, NEW B, Sound(B), Answering(B)
    PROVE  /\ UNCHANGED <<gvars, reg, mem, printed>> /\ pc' = RaOf(0) /\ Len(pending) = 0 /\ Top(B) = B[0]
           /\ Faults \/ IR!Run(reg["v0"], reg["t0"])
           /\ ipc # 0 /\ (pc' = 0 => status' = "halted")
<1>1. ipc \in DOMAIN tac /\ Pos[ipc] \in Nat /\ CurI.kind = "RETURN"
  BY CurFacts DEF Answering
<1>2. Len(Lines(ipc)) = 2 /\ Lines(ipc)[1 + 1] = Jr
  BY <1>1, AnswerLines
<1>3. Execute /\ UNCHANGED gvars /\ Ins = Jr /\ ipc # 0 /\ (Faults \/ IR!Run(reg["v0"], reg["t0"]))
  <2>1. 1 + 1 = Len(Lines(ipc)) /\ CurI.kind # "CALL"
    BY <1>1, <1>2
  <2> QED
    BY <1>1, <1>2, <2>1, Ending DEF Answering
<1>4. pc' = reg["ra"] /\ UNCHANGED <<reg, mem, printed>> /\ (pc' = 0 => status' = "halted")
  BY <1>3, JrStep
<1>5. Len(pending) = 0
  BY <1>1, NoneWaiting DEF Sound, Live, CurI
<1>6. Top(B) = B[0]
  BY <1>5, TopFacts DEF Top, Sound
<1> QED
  BY <1>3, <1>4, <1>5, <1>6 DEF Answering, Steady

(* From main it stops the machine,                                         *)
LEMMA AnswerLast ==
    ASSUME Static, RunLine, NEW B, Sound(B), Answering(B), frames = <<>>
    PROVE  Faults \/ (status' = "halted" /\ Stopping')
<1>1. /\ UNCHANGED <<gvars, reg, mem, printed>> /\ pc' = RaOf(0) /\ Len(pending) = 0 /\ Top(B) = B[0]
      /\ Faults \/ IR!Run(reg["v0"], reg["t0"])
      /\ ipc # 0 /\ (pc' = 0 => status' = "halted")
  BY AnswerJump
<1>2. Faults \/ (ipc' = 0 /\ UNCHANGED <<pending, wrote, frames>>)
  BY <1>1, RunKinds3 DEF Answering
<1>3. Len(frames) = 0
  OBVIOUS
<1>4. RaOf(0) = 0
  BY <1>3 DEF RaOf
<1>5. B[0] = StackTop
  BY <1>3 DEF Sound, Stack, Suspended
<1>6. DOMAIN pending = {}
  BY <1>1, IsSeqLemma DEF Sound, Stack
<1>7. StackTop' = StackTop
  BY DEF StackTop
<1> QED
  BY <1>1, <1>2, <1>4, <1>5, <1>6, <1>7 DEF Stopping, Answering, Steady

(* from any other activation it goes to the line after the call.           *)
LEMMA AnswerBack ==
    ASSUME Static, RunLine, NEW B, Sound(B), Answering(B), frames # <<>>
    PROVE  Faults \/ \E U : Sound(U)' /\ Returning(U)'
<1>1. /\ UNCHANGED <<gvars, reg, mem, printed>> /\ pc' = RaOf(0) /\ Len(pending) = 0 /\ Top(B) = B[0]
      /\ Faults \/ IR!Run(reg["v0"], reg["t0"])
      /\ ipc # 0
  BY AnswerJump
<1>2. PICK f : f = frames[1]
  OBVIOUS
<1>3. ASSUME ~Faults PROVE \E U : Sound(U)' /\ Returning(U)'
  <2>1. /\ IR!Defined(CurI.var) /\ UNCHANGED <<pending, wrote>>
        /\ env' = IR!With(f.env, f.ret.char_val, IR!Value(CurI.var))
        /\ loc' = f.loc /\ actuals' = f.actuals
        /\ ipc' = f.back /\ frames' = Tail(frames)
    BY <1>1, <1>2, <1>3, RunKinds3 DEF Answering
  <2>2. PICK U : U = Below(B)
    OBVIOUS
  <2>3. /\ Stack(B) /\ Machine /\ Size \in Nat /\ Frame = 4 * Size + 4 /\ StackLow \in Int /\ DOMAIN data = 1..Size
        /\ StackLow <= B[0]
    <3>1. Stack(B) /\ Size \in Nat /\ DOMAIN data = 1..Size
      BY BuiltFacts DEF Static, Sound
    <3> QED
      BY <1>1, <3>1, TopFacts DEF Sound, Frame
  <2>4. /\ Suspended(U)' /\ IsSeq(frames)' /\ U[0] = B[1] /\ B[1] \in Int /\ B[0] <= B[1]
        /\ RaOf(0)' = RaOf(1) /\ Saved(f, B[1], B[0], RaOf(1)) /\ RaOf(0) = RetPos(f.back - 1)
    BY <1>1, <1>2, <2>1, <2>2, <2>3, SuspendedPop
  <2>5. PICK c \in DOMAIN tac : c = f.back - 1
    BY <2>4 DEF Saved
  <2>6. /\ tac[c].kind = "CALL" /\ f.ret = tac[c].ret /\ ~Sealed(tac, c) /\ f.back = c + 1 /\ ArgsBefore[c] \in Nat
        /\ B[0] = B[1] - 4 * ArgsBefore[c] - Frame
        /\ \A j \in DOMAIN data : data[j] \in DOMAIN f.env => Word(B[0] + 4 * (j - 1), f.env[data[j]])
        /\ Word(B[0] + 4 * Size, RaOf(1))
        /\ Placed(f.env, f.loc) /\ IsSeq(f.actuals)
    BY <2>4, <2>5 DEF Saved
  <2>7. /\ Pos' = Pos /\ Frame' = Frame /\ Size' = Size /\ UNCHANGED <<tac, data>> /\ Addresses' = Addresses
        /\ StackLow' = StackLow /\ ArgsBefore' = ArgsBefore
        /\ \A x : Listed(x)' <=> Listed(x)
    BY <1>1, StaticKept DEF gvars, StackLow, StackTop
  <2>8. PICK x : x = tac[c].ret.char_val
    OBVIOUS
  <2>9. Listed(x)
    <3>1. /\ Len(Lines(c)) = 4 * Size + 6 /\ Lines(c)[(4 * Size + 5) + 1] = Swl("v0", x)
      BY <2>6, <2>8, CallLinesAt
    <3>2. PICK o \in Nat : o = 4 * Size + 5
      BY <2>3
    <3>3. o < Len(Lines(c)) /\ Lines(c)[o + 1] = Swl("v0", x)
      BY <2>3, <3>1, <3>2
    <3>4. Pos[c] + o \in DOMAIN text /\ text[Pos[c] + o].ins = Swl("v0", x)
      BY <3>3, LineAt DEF Static
    <3> QED
      BY <3>4, NamesListed
  <2>10. PICK v : v = IR!Value(CurI.var) /\ v = reg["v0"]
    BY <2>1 DEF Answering, Loaded
  <2>11. /\ DOMAIN env' = DOMAIN f.env \cup {x} /\ env'[x] = v
         /\ \A y \in DOMAIN f.env : y # x => env'[y] = f.env[y]
    <3>1. PICK e : e = f.env
      OBVIOUS
    <3>2. env' = IR!With(e, x, v)
      BY <2>1, <2>6, <2>8, <2>10, <3>1
    <3>3. PICK w : w = IR!With(e, x, v)
      OBVIOUS
    <3>4. DOMAIN w = DOMAIN e \cup {x} /\ w[x] = v /\ \A y \in DOMAIN e : y # x => w[y] = e[y]
      BY <3>3 DEF IR!With
    <3> QED
      BY <3>1, <3>2, <3>3, <3>4
  <2>12. /\ c + 1 \in DOMAIN tac /\ ~Sealed(tac, c + 1) /\ tac[c + 1].kind \notin {"FUNCTION", "PARAM"}
         /\ RunOf("ARG", c + 1, 0) /\ c \in 1..Len(tac) /\ Len(tac) \in Nat
    <3>1. c + 1 \in DOMAIN tac /\ ~Sealed(tac, c + 1) /\ tac[c + 1].kind # "FUNCTION" /\ tac[c + 1].kind # "PARAM"
      BY <2>6, Follows
    <3>2. c \in 1..Len(tac) /\ Len(tac) \in Nat
      BY BuiltFacts DEF Static
    <3>3. RunOf("ARG", c + 1, 0)
      BY <2>6, <3>2 DEF RunOf
    <3> QED
      BY <3>1, <3>2, <3>3
  <2>13. Top(U)' = B[1]
    BY <1>1, <2>1, <2>4 DEF Top
  <2>14. Stack(U)'
    <3>1. IsSeq(pending) /\ DOMAIN pending = {}
      BY <1>1, <2>3, IsSeqLemma DEF Stack
    <3>2. IsSeq(pending)' /\ DOMAIN pending' = {}
      BY <2>1, <3>1 DEF IsSeq
    <3> QED
      BY <2>3, <2>4, <2>6, <2>7, <2>13, <3>2 DEF Stack
  <2>15. Live'
    BY <1>1, <2>1, <2>6, <2>7, <2>12 DEF Live, RunOf, Sealed
  <2>16. Given(U)'
    <3>1. IsSeq(actuals)'
      BY <2>1, <2>6 DEF IsSeq
    <3> QED
      BY <2>1, <2>6, <2>7, <2>12, <3>1 DEF Given
  <2>17. Placed(env, loc)'
    <3>1. PICK e, l : e = f.env /\ l = f.loc /\ Placed(e, l)
      BY <2>6
    <3>2. Placed(e, l)'
      BY <1>1, <3>1, PlacedKept
    <3>3. Listed(x)'
      BY <2>7, <2>9
    <3> QED
      BY <2>1, <2>11, <3>1, <3>2, <3>3 DEF Placed
  <2>18. Machine'
    BY <1>1, <2>3, <2>7 DEF Machine
  <2>19. Sound(U)'
    BY <2>14, <2>15, <2>16, <2>17, <2>18 DEF Sound
  <2>20. Home(U, c)' = B[0]
    BY <2>3, <2>4, <2>6, <2>7 DEF Home
  <2>21. Returned(U, c)'
    <3>1. c < c + 1
      BY <2>12
    <3>2. (tac[c].ret.char_val)' = x
      BY <2>7, <2>8
    <3> QED
      BY <1>1, <2>1, <2>3, <2>6, <2>7, <2>8, <2>9, <2>11, <2>20, <3>1, <3>2 DEF Returned, Answering, Steady
  <2>22. Kept(U, c)'
    <3>1. ASSUME NEW j \in 1..Size, data'[j] \in DOMAIN env', data'[j] # x
          PROVE  Word(B[0] + 4 * (j - 1), env[data[j]])'
      <4>1. data[j] \in DOMAIN f.env /\ env'[data'[j]] = f.env[data[j]]
        BY <2>7, <2>11, <3>1
      <4>2. PICK a, w : a = B[0] + 4 * (j - 1) /\ w = f.env[data[j]] /\ Word(a, w)
        BY <2>3, <2>6, <4>1
      <4>3. Word(a, w)'
        BY <1>1, <4>2 DEF Word
      <4>4. w = env'[data'[j]]
        BY <4>1, <4>2
      <4> QED
        BY <4>2, <4>3, <4>4
    <3>2. PICK a, w : a = B[0] + 4 * Size /\ w = RaOf(1) /\ Word(a, w)
      BY <2>6
    <3>3. Word(a, w)'
      BY <1>1, <3>2 DEF Word
    <3>4. Word(Home(U, c) + 4 * Size, RaOf(0))'
      BY <2>4, <2>7, <2>20, <3>2, <3>3
    <3>5. ASSUME NEW j \in 1..Size', data'[j] \in DOMAIN env', data'[j] # (tac[c].ret.char_val)'
          PROVE  Word(Home(U, c) + 4 * (j - 1), env[data[j]])'
      <4>1. (tac[c].ret.char_val)' = x /\ j \in 1..Size
        BY <2>7, <2>8
      <4>2. Word(B[0] + 4 * (j - 1), env[data[j]])'
        BY <3>1, <3>5, <4>1
      <4> QED
        BY <2>20, <4>2
    <3> QED
      BY <3>4, <3>5 DEF Kept
  <2>23. Restoring(U, c)'
    <3>1. PICK m \in 0..Size : m = 0
      BY <2>3
    <3>2. Restored(c, m)'
      BY <3>1 DEF Restored
    <3>3. pc' = Pos[c] + (2 * Size + 3 + 2 * m)
      <4>1. Pos[c] \in Nat
        <5>1. c \in 1..Len(tac) + 1
          BY <2>12
        <5> QED
          BY <5>1, PosFacts DEF Static
      <4> QED
        BY <1>1, <2>3, <2>4, <2>5, <3>1, <4>1 DEF RetPos
    <3>4. reg'["sp"] = Home(U, c)'
      BY <1>1, <2>20 DEF Answering, Steady
    <3>5. reg'["v0"] = env'[(tac[c].ret.char_val)']
      BY <1>1, <2>7, <2>8, <2>10, <2>11
    <3> QED
      BY <2>7, <2>22, <3>2, <3>3, <3>4, <3>5 DEF Restoring
  <2> QED
    BY <2>7, <2>19, <2>21, <2>23 DEF Returning
<1> QED
  BY <1>3

(* The lines of a RETURN, together.                                        *)
LEMMA ReturnStep ==
    ASSUME Static, RunLine, NEW B, Sound(B), CurI.kind = "RETURN", Fresh(B) \/ Answering(B)
    PROVE  \/ Faults
           \/ status' = "halted" /\ Stopping'
           \/ \E U : Sound(U)' /\ (Answering(U) \/ Returning(U))'
BY AnswerLoad, AnswerLast, AnswerBack

-----------------------------------------------------------------------------
(* CALL, after the jump back.                                              *)

(* Where the machine is after the jump back.                               *)
LEMMA ReturnedFacts ==
    ASSUME Static, NEW B, Sound(B), NEW c, Returned(B, c)
    PROVE  /\ c \in DOMAIN tac /\ tac[c].kind = "CALL" /\ c # ipc /\ Pos[c] \in Nat /\ ArgsBefore[c] \in Nat
           /\ Pos[ipc] = Pos[c] + (4 * Size + 6)
           /\ Size \in Nat /\ Frame = 4 * Size + 4 /\ DOMAIN data = 1..Size
           /\ Top(B) = B[0] /\ B[0] \in Int /\ Home(B, c) \in Int /\ Home(B, c) >= StackLow /\ StackLow \in Int
           /\ Home(B, c) > 8 * Size + 4
           /\ Home(B, c) + (Frame + 4 * ArgsBefore[c]) = Top(B)
           /\ Machine /\ Placed(env, loc)
<1>1. /\ c \in DOMAIN tac /\ tac[c].kind = "CALL" /\ c # ipc /\ ArgsBefore[c] \in Nat /\ Len(pending) = 0
      /\ StackLow <= Home(B, c) /\ Pos[ipc] = Pos[c + 1]
  BY BuiltFacts DEF Returned, Static
<1>2. Size \in Nat /\ Frame = 4 * Size + 4 /\ DOMAIN data = 1..Size
  BY BuiltFacts DEF Static, Frame
<1>3. Pos[c] \in Nat
  <2>1. c \in 1..Len(tac) + 1
    BY <1>1, BuiltFacts DEF Static
  <2> QED
    BY <2>1, PosFacts DEF Static
<1>4. Pos[c + 1] = Pos[c] + (4 * Size + 6)
  <2>1. Len(Lines(c)) = 4 * Size + 6
    BY <1>1, CallLinesAt
  <2>2. Pos[c + 1] = Pos[c] + Len(Lines(c))
    BY <1>1, PosFacts DEF Static
  <2> QED
    BY <2>1, <2>2
<1>5. Top(B) = B[0] /\ B[0] \in Int
  BY <1>1, TopFacts DEF Top, Sound
<1>6. Home(B, c) = B[0] - 4 * ArgsBefore[c] - Frame
  BY DEF Home
<1>7. Home(B, c) \in Int /\ Home(B, c) + (Frame + 4 * ArgsBefore[c]) = Top(B)
  BY <1>1, <1>2, <1>5, <1>6
<1>8. StackLow \in Int /\ StackLow > 8 * Size + 4
  BY <1>2, AddressFacts
<1>9. Home(B, c) > 8 * Size + 4
  BY <1>1, <1>2, <1>7, <1>8
<1> QED
  BY <1>1, <1>2, <1>3, <1>4, <1>5, <1>7, <1>8, <1>9 DEF Sound

(* A line of a call that is being answered: the program has gone on.       *)
LEMMA BackLine ==
    ASSUME Static, RunLine, NEW B, Sound(B), NEW c, Returned(B, c), NEW o \in Nat, o < 4 * Size + 6, pc = Pos[c] + o
    PROVE  Execute /\ UNCHANGED <<gvars, ivars>> /\ Ins = Lines(c)[o + 1] /\ pc \in Nat /\ Listing
<1>1. c \in DOMAIN tac /\ tac[c].kind = "CALL" /\ c # ipc /\ Pos[c] \in Nat
  BY ReturnedFacts
<1>2. o < Len(Lines(c))
  BY <1>1, CallLinesAt
<1>3. pc \in DOMAIN text /\ text[pc].of = c /\ text[pc].ins = Lines(c)[o + 1]
  BY <1>1, <1>2, LineAt DEF Static
<1>4. Execute /\ UNCHANGED <<gvars, ivars>>
  BY <1>1, <1>3, Aside
<1>5. Listing
  BY <1>3, NamesListed DEF Listing, Ins
<1> QED
  BY <1>1, <1>3, <1>4, <1>5 DEF Ins

(* The rest of the invariant, when the machine sets a register or a word.  *)
LEMMA ReturnedKept ==
    ASSUME Static, UNCHANGED <<gvars, ivars, printed>>, NEW B, Sound(B), NEW c, Returned(B, c), HighKept(Top(B)), Machine'
    PROVE  /\ Sound(B)' /\ Returned(B, c)' /\ Top(B)' = Top(B) /\ RaOf(0)' = RaOf(0) /\ Home(B, c)' = Home(B, c)
           /\ Size' = Size /\ Frame' = Frame /\ Pos' = Pos /\ UNCHANGED <<data, tac, env, wrote, ipc, loc>>
           /\ ArgsBefore' = ArgsBefore
<1>1. Sound(B)' /\ Top(B)' = Top(B) /\ RaOf(0)' = RaOf(0)
  BY Stays
<1>2. /\ Size' = Size /\ Frame' = Frame /\ Pos' = Pos /\ ArgsBefore' = ArgsBefore /\ StackLow' = StackLow
      /\ UNCHANGED <<data, tac, env, wrote, ipc, pending, loc>> /\ \A x : Listed(x)' <=> Listed(x)
  BY StaticKept DEF gvars, ivars, StackLow, StackTop
<1>3. Home(B, c)' = Home(B, c)
  BY <1>2 DEF Home
<1>4. Returned(B, c)'
  BY <1>2, <1>3 DEF Returned
<1> QED
  BY <1>1, <1>2, <1>3, <1>4

(* The frame of the caller is kept while its words are restored.           *)
LEMMA KeptKept ==
    ASSUME Static, UNCHANGED <<gvars, ivars>>, NEW B, Sound(B), NEW c, Returned(B, c), Home(B, c)' = Home(B, c), RaOf(0)' = RaOf(0),
           Kept(B, c), \A a, v : Word(a, v) /\ a \in Int /\ a >= Home(B, c) => Word(a, v)'
    PROVE  Kept(B, c)'
<1>1. /\ Size \in Nat /\ Size' = Size /\ UNCHANGED <<data, tac, env>> /\ Home(B, c) \in Int
  BY ReturnedFacts, StaticKept DEF gvars, ivars
<1>2. ASSUME NEW j \in 1..Size, data[j] \in DOMAIN env, data[j] # tac[c].ret.char_val
      PROVE  Word(Home(B, c) + 4 * (j - 1), env[data[j]])'
  <2>1. PICK a, v : a = Home(B, c) + 4 * (j - 1) /\ v = env[data[j]] /\ Word(a, v)
    BY <1>2 DEF Kept
  <2>2. a \in Int /\ a >= Home(B, c)
    BY <1>1, <2>1
  <2>3. Word(a, v)'
    BY <2>1, <2>2
  <2> QED
    BY <1>1, <2>1, <2>3
<1>3. Word(Home(B, c) + 4 * Size, RaOf(0))'
  <2>1. PICK a, v : a = Home(B, c) + 4 * Size /\ v = RaOf(0) /\ Word(a, v)
    BY DEF Kept
  <2>2. a \in Int /\ a >= Home(B, c)
    BY <1>1, <2>1
  <2>3. Word(a, v)'
    BY <2>1, <2>2
  <2> QED
    BY <1>1, <2>1, <2>3
<1> QED
  BY <1>1, <1>2, <1>3 DEF Kept

(* A line that changes a register keeps the rest.                          *)
LEMMA RestoreSets ==
    ASSUME Static, UNCHANGED <<gvars, ivars>>, NEW B, Sound(B), NEW c, Returned(B, c),
           NEW r \in Reg \ {"zero"}, NEW v, Sets(r, v)
    PROVE  /\ Sound(B)' /\ Returned(B, c)' /\ Top(B)' = Top(B) /\ RaOf(0)' = RaOf(0) /\ Home(B, c)' = Home(B, c)
           /\ Size' = Size /\ Pos' = Pos /\ UNCHANGED <<data, tac, env>>
           /\ reg'[r] = v /\ \A q \in Reg : q # r => reg'[q] = reg[q]
           /\ Kept(B, c) => Kept(B, c)'
           /\ \A m : Restored(c, m) => Restored(c, m)'
           /\ pc' = pc + 1
<1>1. UNCHANGED <<mem, printed>> /\ pc' = pc + 1
  BY DEF Sets
<1>2. Machine' /\ reg'[r] = v /\ \A q \in Reg : q # r => reg'[q] = reg[q]
  BY MachineKept DEF Sound
<1>3. HighKept(Top(B))
  BY <1>1, HighLemma
<1>4. /\ Sound(B)' /\ Returned(B, c)' /\ Top(B)' = Top(B) /\ RaOf(0)' = RaOf(0) /\ Home(B, c)' = Home(B, c)
      /\ Size' = Size /\ Pos' = Pos /\ UNCHANGED <<data, tac, env>>
  BY <1>1, <1>2, <1>3, ReturnedKept
<1>5. \A a, w : Word(a, w) => Word(a, w)'
  BY <1>1 DEF Word
<1>6. Kept(B, c) => Kept(B, c)'
  BY <1>4, <1>5, KeptKept
<1>7. \A m : Restored(c, m) => Restored(c, m)'
  BY <1>1, <1>4 DEF Restored, Word
<1> QED
  BY <1>1, <1>2, <1>4, <1>6, <1>7

(* A line that restores a word keeps the rest.                             *)
LEMMA RestoreStores ==
    ASSUME Static, UNCHANGED <<gvars, ivars>>, NEW B, Sound(B), NEW c, Returned(B, c), NEW a, NEW v, Stores(a, v),
           a \in Int, a <= 4 * Size
    PROVE  /\ Sound(B)' /\ Returned(B, c)' /\ Top(B)' = Top(B) /\ RaOf(0)' = RaOf(0) /\ Home(B, c)' = Home(B, c)
           /\ Size' = Size /\ Pos' = Pos /\ UNCHANGED <<data, tac, env, reg>>
           /\ Word(a, v)' /\ \A b, w : Word(b, w) /\ b # a => Word(b, w)'
           /\ Kept(B, c) => Kept(B, c)'
           /\ pc' = pc + 1
<1>1. UNCHANGED <<reg, printed>> /\ pc' = pc + 1
  BY DEF Stores
<1>0. Size \in Nat /\ Home(B, c) \in Int /\ Home(B, c) > 8 * Size + 4 /\ Top(B) \in Int /\ Top(B) >= Home(B, c)
  <2>1. /\ Size \in Nat /\ Home(B, c) \in Int /\ Home(B, c) > 8 * Size + 4 /\ Top(B) = B[0] /\ B[0] \in Int
        /\ Home(B, c) + (Frame + 4 * ArgsBefore[c]) = Top(B) /\ Frame = 4 * Size + 4 /\ ArgsBefore[c] \in Nat
    BY ReturnedFacts
  <2>2. Frame + 4 * ArgsBefore[c] \in Nat
    BY <2>1
  <2> QED
    BY <2>1, <2>2
<1>2. Machine' /\ mem'[a] = v
  BY MachineKept DEF Sound
<1>3. HighKept(Top(B))
  <2>1. ~(a >= Top(B)) /\ mem' = [mem EXCEPT ![a] = v]
    BY <1>0 DEF Stores
  <2> QED
    BY <2>1, HighLemma
<1>4. /\ Sound(B)' /\ Returned(B, c)' /\ Top(B)' = Top(B) /\ RaOf(0)' = RaOf(0) /\ Home(B, c)' = Home(B, c)
      /\ Size' = Size /\ Pos' = Pos /\ UNCHANGED <<data, tac, env>>
  BY <1>1, <1>2, <1>3, ReturnedKept
<1>5. Word(a, v)' /\ \A b, w : Word(b, w) /\ b # a => Word(b, w)'
  BY <1>2 DEF Word, Stores
<1>6. Kept(B, c) => Kept(B, c)'
  <2>1. \A b, w : Word(b, w) /\ b \in Int /\ b >= Home(B, c) => Word(b, w)'
    <3>1. \A b \in Int : b >= Home(B, c) => b # a
      BY <1>0
    <3> QED
      BY <1>5, <3>1
  <2> QED
    BY <1>4, <2>1, KeptKept
<1> QED
  BY <1>1, <1>4, <1>5, <1>6

(* A word of the caller's frame goes to $t0.                               *)
LEMMA BackLoad ==
    ASSUME Static, RunLine, NEW B, Sound(B), NEW c, Returned(B, c), reg["v0"] = env[tac[c].ret.char_val],
           reg["sp"] = Home(B, c), Kept(B, c), NEW m \in 0..Size - 1, Restored(c, m), pc = Pos[c] + (2 * Size + 3 + 2 * m)
    PROVE  Faults \/ (Sound(B)' /\ Returning(B)')
<1>1. /\ c \in DOMAIN tac /\ tac[c].kind = "CALL" /\ Pos[c] \in Nat /\ Size \in Nat /\ Home(B, c) \in Int
      /\ m \in Nat /\ m < Size
  BY ReturnedFacts
<1>2. Execute /\ UNCHANGED <<gvars, ivars>> /\ Ins = Lw("t0", 4 * m, "sp")
  <2>1. PICK o \in Nat : o = 2 * Size + 3 + 2 * m
    BY <1>1
  <2>2. o < 4 * Size + 6 /\ pc = Pos[c] + o
    BY <1>1, <2>1
  <2>3. Lines(c)[o + 1] = Lw("t0", 4 * m, "sp")
    BY <1>1, <2>1, CallLinesAt
  <2> QED
    BY <2>2, <2>3, BackLine
<1>3. Fetches("t0", reg["sp"] + 4 * m) \/ Faults
  BY <1>2, LwStep
<1>4. ASSUME ~Faults PROVE Sound(B)' /\ Returning(B)'
  <2>1. PICK r, v, a : r = "t0" /\ a = Home(B, c) + 4 * m /\ v = mem[a] /\ Sets(r, v)
    BY <1>3, <1>4 DEF Fetches
  <2>2. r \in Reg \ {"zero"} /\ Sets(r, v)
    BY <2>1 DEF Reg
  <2>3. /\ Sound(B)' /\ Returned(B, c)' /\ RaOf(0)' = RaOf(0) /\ Home(B, c)' = Home(B, c)
        /\ Size' = Size /\ Pos' = Pos /\ UNCHANGED <<data, tac, env>>
        /\ reg'[r] = v /\ \A q \in Reg : q # r => reg'[q] = reg[q]
        /\ Kept(B, c)' /\ Restored(c, m)' /\ pc' = pc + 1
    BY <1>2, <2>2, RestoreSets
  <2>4. data[m + 1] \in DOMAIN env /\ data[m + 1] # tac[c].ret.char_val => v = env[data[m + 1]]
    <3>1. PICK j \in 1..Size : j = m + 1
      BY <1>1
    <3>2. Home(B, c) + 4 * (j - 1) = a
      BY <1>1, <2>1, <3>1
    <3> QED
      BY <2>1, <3>1, <3>2 DEF Kept, Word
  <2>5. reg'["v0"] = reg["v0"] /\ reg'["sp"] = reg["sp"]
    BY <2>1, <2>3 DEF Reg
  <2>6. pc' = Pos[c] + (2 * Size + 4 + 2 * m)
    BY <1>1, <2>3
  <2>7. Restoring(B, c)'
    BY <2>1, <2>3, <2>4, <2>5, <2>6 DEF Restoring
  <2> QED
    BY <1>1, <2>3, <2>7 DEF Returning
<1> QED
  BY <1>4

(* It goes on to the variable's word.                                      *)
LEMMA BackStore ==
    ASSUME Static, RunLine, NEW B, Sound(B), NEW c, Returned(B, c), reg["v0"] = env[tac[c].ret.char_val],
           reg["sp"] = Home(B, c), Kept(B, c), NEW m \in 0..Size - 1, Restored(c, m), pc = Pos[c] + (2 * Size + 4 + 2 * m),
           data[m + 1] \in DOMAIN env /\ data[m + 1] # tac[c].ret.char_val => reg["t0"] = env[data[m + 1]]
    PROVE  Faults \/ (Sound(B)' /\ Returning(B)')
<1>1. /\ c \in DOMAIN tac /\ tac[c].kind = "CALL" /\ Pos[c] \in Nat /\ Size \in Nat
      /\ m \in Nat /\ m < Size
  BY ReturnedFacts
<1>2. Execute /\ UNCHANGED <<gvars, ivars>> /\ Ins = Swl("t0", data[m + 1])
  <2>1. PICK o \in Nat : o = 2 * Size + 4 + 2 * m
    BY <1>1
  <2>2. o < 4 * Size + 6 /\ pc = Pos[c] + o
    BY <1>1, <2>1
  <2>3. Lines(c)[o + 1] = Swl("t0", data[m + 1])
    BY <1>1, <2>1, CallLinesAt
  <2> QED
    BY <2>2, <2>3, BackLine
<1>3. Stores(Address(data[m + 1]), reg["t0"]) \/ Faults
  BY <1>2, SwlStep
<1>4. ASSUME ~Faults PROVE Sound(B)' /\ Returning(B)'
  <2>1. PICK n \in 1..Size : n = m + 1
    BY <1>1
  <2>2. Address(data[n]) = 4 * n
    BY <2>1, AddressFacts
  <2>3. PICK a, v : a = 4 * n /\ v = reg["t0"] /\ Stores(a, v)
    BY <1>3, <1>4, <2>1, <2>2
  <2>4. a \in Int /\ a <= 4 * Size
    BY <1>1, <2>1, <2>3
  <2>5. /\ Sound(B)' /\ Returned(B, c)' /\ RaOf(0)' = RaOf(0) /\ Home(B, c)' = Home(B, c)
        /\ Size' = Size /\ Pos' = Pos /\ UNCHANGED <<data, tac, env, reg>>
        /\ Word(a, v)' /\ \A b, w : Word(b, w) /\ b # a => Word(b, w)'
        /\ Kept(B, c)' /\ pc' = pc + 1
    BY <1>2, <2>3, <2>4, RestoreStores
  <2>6. Restored(c, n)'
    <3>1. ASSUME NEW j \in 1..n, data[j] \in DOMAIN env, data[j] # tac[c].ret.char_val
          PROVE  Word(4 * j, env[data[j]])'
      <4>1. CASE j = n
        <5>1. v = env[data[j]] /\ 4 * j = a
          BY <2>1, <2>3, <3>1, <4>1
        <5> QED
          BY <2>5, <5>1 DEF Word
      <4>2. CASE j # n
        <5>1. j \in 1..m /\ 4 * j # a
          BY <1>1, <2>1, <2>3, <4>2
        <5>2. PICK b, w : b = 4 * j /\ w = env[data[j]] /\ Word(b, w)
          BY <3>1, <5>1 DEF Restored
        <5>3. Word(b, w)'
          BY <2>5, <5>1, <5>2
        <5> QED
          BY <2>5, <5>2, <5>3
      <4> QED
        BY <4>1, <4>2
    <3> QED
      BY <2>5, <3>1 DEF Restored
  <2>7. pc' = Pos[c] + (2 * Size + 3 + 2 * n)
    BY <1>1, <2>1, <2>5
  <2>8. Restoring(B, c)'
    <3>1. n \in 0..Size'
      BY <2>5
    <3> QED
      BY <2>5, <2>6, <2>7, <3>1 DEF Restoring
  <2> QED
    BY <1>1, <2>5, <2>8 DEF Returning
<1> QED
  BY <1>4

(* The caller's return address.                                            *)
LEMMA BackLink ==
    ASSUME Static, RunLine, NEW B, Sound(B), NEW c, Returned(B, c), reg["v0"] = env[tac[c].ret.char_val],
           reg["sp"] = Home(B, c), Kept(B, c), Restored(c, Size), pc = Pos[c] + (2 * Size + 3 + 2 * Size)
    PROVE  Faults \/ (Sound(B)' /\ Returning(B)')
<1>1. c \in DOMAIN tac /\ tac[c].kind = "CALL" /\ Pos[c] \in Nat /\ Size \in Nat /\ Home(B, c) \in Int
  BY ReturnedFacts
<1>2. Execute /\ UNCHANGED <<gvars, ivars>> /\ Ins = Lw("ra", 4 * Size, "sp")
  <2>1. PICK o \in Nat : o = 4 * Size + 3
    BY <1>1
  <2>2. o < 4 * Size + 6 /\ pc = Pos[c] + o
    BY <1>1, <2>1
  <2>3. Lines(c)[o + 1] = Lw("ra", 4 * Size, "sp")
    BY <1>1, <2>1, CallLinesAt
  <2> QED
    BY <2>2, <2>3, BackLine
<1>3. Fetches("ra", reg["sp"] + 4 * Size) \/ Faults
  BY <1>2, LwStep
<1>4. ASSUME ~Faults PROVE Sound(B)' /\ Returning(B)'
  <2>1. PICK r, v : r = "ra" /\ v = RaOf(0) /\ Sets(r, v)
    BY <1>3, <1>4 DEF Fetches, Kept, Word
  <2>2. r \in Reg \ {"zero"} /\ Sets(r, v)
    BY <2>1 DEF Reg
  <2>3. /\ Sound(B)' /\ Returned(B, c)' /\ RaOf(0)' = RaOf(0) /\ Home(B, c)' = Home(B, c)
        /\ Size' = Size /\ Pos' = Pos /\ UNCHANGED <<data, tac, env>>
        /\ reg'[r] = v /\ \A q \in Reg : q # r => reg'[q] = reg[q]
        /\ Restored(c, Size)' /\ pc' = pc + 1
    <3>1. PICK m : m = Size
      OBVIOUS
    <3> QED
      BY <1>2, <2>2, <3>1, RestoreSets
  <2>5. reg'["v0"] = reg["v0"] /\ reg'["sp"] = reg["sp"]
    BY <2>1, <2>3 DEF Reg
  <2>6. pc' = Pos[c] + (4 * Size + 4)
    BY <1>1, <2>3
  <2>7. Restoring(B, c)'
    BY <2>1, <2>3, <2>5, <2>6 DEF Restoring
  <2> QED
    BY <1>1, <2>3, <2>7 DEF Returning
<1> QED
  BY <1>4

(* The frame and the arguments are given back.                             *)
LEMMA BackPop ==
    ASSUME Static, RunLine, NEW B, Sound(B), NEW c, Returned(B, c), reg["v0"] = env[tac[c].ret.char_val],
           reg["sp"] = Home(B, c), reg["ra"] = RaOf(0), Restored(c, Size), pc = Pos[c] + (4 * Size + 4)
    PROVE  Sound(B)' /\ Returning(B)'
<1>1. /\ c \in DOMAIN tac /\ tac[c].kind = "CALL" /\ Pos[c] \in Nat /\ Size \in Nat
      /\ Home(B, c) + (Frame + 4 * ArgsBefore[c]) = Top(B)
  BY ReturnedFacts
<1>2. Execute /\ UNCHANGED <<gvars, ivars>> /\ Ins = Addi("sp", "sp", Frame + 4 * ArgsBefore[c])
  <2>1. PICK o \in Nat : o = 4 * Size + 4
    BY <1>1
  <2>2. o < 4 * Size + 6 /\ pc = Pos[c] + o
    BY <1>1, <2>1
  <2>3. Lines(c)[o + 1] = Addi("sp", "sp", Frame + 4 * ArgsBefore[c])
    BY <1>1, <2>1, CallLinesAt
  <2> QED
    BY <2>2, <2>3, BackLine
<1>3. Sets("sp", reg["sp"] + (Frame + 4 * ArgsBefore[c]))
  BY <1>2, AddiStep
<1>4. PICK r, v : r = "sp" /\ v = Top(B) /\ Sets(r, v)
  BY <1>1, <1>3
<1>5. r \in Reg \ {"zero"} /\ Sets(r, v)
  BY <1>4 DEF Reg
<1>6. /\ Sound(B)' /\ Returned(B, c)' /\ RaOf(0)' = RaOf(0) /\ Top(B)' = Top(B)
      /\ Size' = Size /\ Pos' = Pos /\ UNCHANGED <<data, tac, env>>
      /\ reg'[r] = v /\ \A q \in Reg : q # r => reg'[q] = reg[q]
      /\ Restored(c, Size)' /\ pc' = pc + 1
  <2>1. PICK m : m = Size
    OBVIOUS
  <2> QED
    BY <1>2, <1>5, <2>1, RestoreSets
<1>7. reg'["v0"] = reg["v0"] /\ reg'["ra"] = reg["ra"]
  BY <1>4, <1>6 DEF Reg
<1>8. pc' = Pos[c] + (4 * Size + 5)
  BY <1>1, <1>6
<1>9. Restoring(B, c)'
  BY <1>4, <1>6, <1>7, <1>8 DEF Restoring
<1> QED
  BY <1>1, <1>6, <1>9 DEF Returning

(* The result goes to its variable.                                        *)
LEMMA BackResult ==
    ASSUME Static, RunLine, NEW B, Sound(B), NEW c, Returned(B, c), reg["v0"] = env[tac[c].ret.char_val],
           reg["sp"] = Top(B), reg["ra"] = RaOf(0), Restored(c, Size), pc = Pos[c] + (4 * Size + 5)
    PROVE  Faults \/ (Sound(B)' /\ Fresh(B)')
<1>1. /\ c \in DOMAIN tac /\ tac[c].kind = "CALL" /\ Pos[c] \in Nat /\ Size \in Nat
      /\ Pos[ipc] = Pos[c] + (4 * Size + 6) /\ DOMAIN data = 1..Size /\ Placed(env, loc)
  BY ReturnedFacts
<1>2. PICK x : x = tac[c].ret.char_val
  OBVIOUS
<1>3. Execute /\ UNCHANGED <<gvars, ivars>> /\ Ins = Swl("v0", x)
  <2>1. PICK o \in Nat : o = 4 * Size + 5
    BY <1>1
  <2>2. o < 4 * Size + 6 /\ pc = Pos[c] + o
    BY <1>1, <2>1
  <2>3. Lines(c)[o + 1] = Swl("v0", x)
    BY <1>1, <1>2, <2>1, CallLinesAt
  <2> QED
    BY <2>2, <2>3, BackLine
<1>4. Stores(Address(x), reg["v0"]) \/ Faults
  BY <1>3, SwlStep
<1>5. ASSUME ~Faults PROVE Sound(B)' /\ Fresh(B)'
  <2>1. PICK a, v : a = Address(x) /\ v = env[x] /\ Stores(a, v)
    BY <1>2, <1>4, <1>5
  <2>2. Listed(x) /\ a \in Int /\ a <= 4 * Size
    BY <1>2, <2>1, AddressFacts DEF Returned
  <2>3. /\ Sound(B)' /\ Returned(B, c)' /\ RaOf(0)' = RaOf(0) /\ Top(B)' = Top(B)
        /\ Size' = Size /\ Pos' = Pos /\ UNCHANGED <<data, tac, env, reg>>
        /\ Word(a, v)' /\ \A b, w : Word(b, w) /\ b # a => Word(b, w)'
        /\ pc' = pc + 1
    BY <1>3, <2>1, <2>2, RestoreStores
  <2>4. \A y : Address(y)' = Address(y)
    BY <1>3, StaticKept
  <2>5. Values'
    <3>1. ASSUME NEW y \in DOMAIN env
          PROVE  Word(Address(y), env[y])'
      <4>1. PICK b, w : b = Address(y) /\ w = env[y]
        OBVIOUS
      <4>2. CASE y = x
        BY <2>1, <2>3, <2>4, <4>1, <4>2 DEF Word
      <4>3. CASE y # x
        <5>1. PICK j \in 1..Size : data[j] = y
          BY <1>1, <3>1 DEF Placed, Listed
        <5>2. b = 4 * j /\ b # a
          BY <2>1, <2>2, <4>1, <4>3, <5>1, AddressFacts
        <5>3. Word(b, w)
          BY <1>2, <3>1, <4>1, <4>3, <5>1, <5>2 DEF Restored
        <5>4. Word(b, w)'
          BY <2>3, <5>2, <5>3
        <5> QED
          BY <2>3, <2>4, <4>1, <5>4 DEF Word
      <4> QED
        BY <4>2, <4>3
    <3> QED
      BY <2>3, <3>1 DEF Values
  <2>6. Here(0)'
    <3>1. ipc' = ipc
      BY <1>3 DEF ivars
    <3>2. pc' = Pos[ipc] + 0
      BY <1>1, <2>3
    <3> QED
      BY <2>3, <3>1, <3>2 DEF Here
  <2>7. (printed = wrote)'
    BY <2>3 DEF Returned
  <2> QED
    BY <2>3, <2>5, <2>6, <2>7 DEF Fresh, Steady
<1> QED
  BY <1>5

(* The lines of a CALL after the jump back, together.                      *)
LEMMA BackStep ==
    ASSUME Static, RunLine, NEW B, Sound(B), Returning(B)
    PROVE  Faults \/ (Sound(B)' /\ (Fresh(B) \/ Returning(B))')
<1>1. PICK c \in DOMAIN tac : Returned(B, c) /\ Restoring(B, c)
  BY DEF Returning
<1>2. reg["v0"] = env[tac[c].ret.char_val] /\ Size \in Nat
  BY <1>1, ReturnedFacts DEF Restoring
<1>3. CASE /\ reg["sp"] = Home(B, c) /\ Kept(B, c)
           /\ \E m \in 0..Size : Restored(c, m) /\ pc = Pos[c] + (2 * Size + 3 + 2 * m)
  <2>1. PICK m \in 0..Size : Restored(c, m) /\ pc = Pos[c] + (2 * Size + 3 + 2 * m)
    BY <1>3
  <2>2. CASE m = Size
    BY <1>1, <1>2, <1>3, <2>1, <2>2, BackLink
  <2>3. CASE m # Size
    <3>1. m \in 0..Size - 1
      BY <1>2, <2>3
    <3> QED
      BY <1>1, <1>2, <1>3, <2>1, <3>1, BackLoad
  <2> QED
    BY <2>2, <2>3
<1>4. CASE /\ reg["sp"] = Home(B, c) /\ Kept(B, c)
           /\ \E m \in 0..Size - 1 :
                 /\ Restored(c, m) /\ pc = Pos[c] + (2 * Size + 4 + 2 * m)
                 /\ data[m + 1] \in DOMAIN env /\ data[m + 1] # tac[c].ret.char_val => reg["t0"] = env[data[m + 1]]
  BY <1>1, <1>2, <1>4, BackStore
<1>5. CASE Restored(c, Size) /\ reg["ra"] = RaOf(0) /\ reg["sp"] = Home(B, c) /\ pc = Pos[c] + (4 * Size + 4)
  BY <1>1, <1>2, <1>5, BackPop
<1>6. CASE Restored(c, Size) /\ reg["ra"] = RaOf(0) /\ reg["sp"] = Top(B) /\ pc = Pos[c] + (4 * Size + 5)
  BY <1>1, <1>2, <1>6, BackResult
<1> QED
  BY <1>1, <1>3, <1>4, <1>5, <1>6 DEF Restoring

-----------------------------------------------------------------------------
(* All phases together.                                                    *)

(* Within the lines of each kind of instruction.                           *)
Phase(B) ==
    \/ Fresh(B) \/ Copying(B) \/ Working(B) \/ Pointing(B) \/ Following(B) \/ Comparing(B) \/ Taking(B) \/ Pushing(B)
    \/ Reading(B) \/ Writing(B) \/ Answering(B) \/ Calling(B) \/ Returning(B)

AllKinds == {"LABEL", "GOTO", "FUNCTION", "ASSIGN", "ADDR", "FETCH", "DEREF", "RETURN", "ARG", "WRITE",
             "PARAM", "READ", "DEC", "CALL", "NONE"} \cup ArithKinds \cup IfKinds

(* Every instruction is of one of the kinds.                               *)
LEMMA InstKinds ==
    ASSUME NEW i \in Inst
    PROVE  i.kind \in AllKinds
BY DEF Inst, AllKinds

(* How many lines each kind has.                                           *)
LEMMA LineCounts ==
    ASSUME Static, NEW i \in DOMAIN tac
    PROVE  /\ tac[i].kind \in {"LABEL", "FUNCTION", "GOTO"} => Len(Lines(i)) = 1
           /\ tac[i].kind \in {"ASSIGN", "ADDR", "PARAM", "RETURN"} => Len(Lines(i)) = 2
           /\ tac[i].kind \in {"FETCH", "ARG"} \cup IfKinds => Len(Lines(i)) = 3
           /\ tac[i].kind \in {"ADD", "SUB", "MUL"} => Len(Lines(i)) = 4
           /\ tac[i].kind = "DIV" => Len(Lines(i)) = 5
           /\ tac[i].kind \in {"READ", "WRITE"} => Len(Lines(i)) = 6
           /\ tac[i].kind = "CALL" => Len(Lines(i)) = 4 * Size + 6
           /\ tac[i].kind \in NoLines => Len(Lines(i)) = 0
<1>1. tac[i].kind \in {"LABEL", "FUNCTION", "GOTO"} => Len(Lines(i)) = 1
  BY MarkLines
<1>2. tac[i].kind \in {"ASSIGN", "ADDR", "PARAM"} => Len(Lines(i)) = 2
  BY MoveLines
<1>3. tac[i].kind = "RETURN" => Len(Lines(i)) = 2
  BY BranchLines
<1>4. tac[i].kind \in {"FETCH", "ARG"} => Len(Lines(i)) = 3
  BY MoveLines
<1>5. tac[i].kind \in IfKinds => Len(Lines(i)) = 3
  BY BranchLines
<1>6. tac[i].kind \in {"ADD", "SUB", "MUL"} => Len(Lines(i)) = 4
  BY ArithLines
<1>7. tac[i].kind = "DIV" => Len(Lines(i)) = 5
  BY ArithLines
<1>8. tac[i].kind \in {"READ", "WRITE"} => Len(Lines(i)) = 6
  BY RoutineLines
<1>9. tac[i].kind = "CALL" => Len(Lines(i)) = 4 * Size + 6
  BY CallLinesAt
<1>10. tac[i].kind \in NoLines => Len(Lines(i)) = 0
  BY MarkLines
<1> QED
  BY <1>1, <1>2, <1>3, <1>4, <1>5, <1>6, <1>7, <1>8, <1>9, <1>10

(* A line that is not the first of its instruction.                        *)
LEMMA InnerPlace ==
    ASSUME Static, NEW i \in DOMAIN tac, NEW o \in Nat, o >= 1, o < Len(Lines(i)), pc = Pos[i] + o
    PROVE  ~Starting /\ pc # 0 /\ text[pc].of = i
<1>1. Pos[i] \in Nat /\ Pos[i] >= 10
  <2>1. i \in 1..Len(tac) + 1
    BY BuiltFacts DEF Static
  <2> QED
    BY <2>1, PosFacts DEF Static
<1>2. text[Pos[i] + o].of = i
  BY LineAt DEF Static
<1>3. PICK n \in Nat : n = o - 1
  OBVIOUS
<1>4. n < Len(Lines(i))
  <2>1. Len(Lines(i)) \in Nat
    BY PosFacts DEF Static
  <2> QED
    BY <1>3, <2>1
<1>5. text[Pos[i] + n].of = i
  BY <1>4, LineAt DEF Static
<1>6. Pos[i] + n = pc - 1
  BY <1>1, <1>3
<1> QED
  BY <1>1, <1>2, <1>5, <1>6 DEF Starting

(* Where the machine is in each phase.                                     *)
LEMMA AroundPlace ==
    ASSUME Static, NEW B, Sound(B), NEW o \in {0, 1}, Around(B, o), CurI.kind \in {"READ", "WRITE"}
    PROVE  ~Starting /\ pc # 0
<1>1. /\ ipc \in DOMAIN tac /\ tac[ipc].kind \in {"READ", "WRITE"}
  BY CurFacts DEF CurI
<1>2. Len(Lines(ipc)) = 6
  BY <1>1, LineCounts
<1>3. Here(o + 1) \/ Here(o + 2) \/ Here(o + 3) \/ Here(o + 4) \/ (pc \in FirstOf(o)..LastOf(o) /\ pc \in 1..9)
  BY AroundPlaces
<1>4. ASSUME NEW p \in {o + 1, o + 2, o + 3, o + 4}, Here(p)
      PROVE  ~Starting /\ pc # 0
  <2>1. p \in Nat /\ p >= 1 /\ p < Len(Lines(ipc))
    BY <1>2
  <2> QED
    BY <1>1, <1>4, <2>1, InnerPlace DEF Here
<1>5. CASE pc \in 1..9
  BY <1>5, RuntimePlace DEF Starting
<1> QED
  BY <1>3, <1>4, <1>5

(* At the first line of an instruction, it is the one the program is at    *)
(* and nothing of it is done.                                              *)
LEMMA PhasePlace ==
    ASSUME Static, NEW B, Sound(B), Phase(B)
    PROVE  pc # 0 /\ (Starting => Fresh(B))
<1>1. /\ ipc \in DOMAIN tac /\ Pos[ipc] \in Nat /\ CurI = tac[ipc] /\ Size \in Nat
  BY CurFacts, BuiltFacts DEF CurI, Static
<1>2. Pos[ipc] >= 10
  <2>1. ipc \in 1..Len(tac) + 1
    BY <1>1, BuiltFacts DEF Static
  <2> QED
    BY <2>1, PosFacts DEF Static
<1>3. ASSUME NEW o \in Nat, o >= 1, o < Len(Lines(ipc)), Here(o)
      PROVE  ~Starting /\ pc # 0
  BY <1>1, <1>3, InnerPlace DEF Here
<1>4. CASE Fresh(B)
  BY <1>1, <1>2, <1>4 DEF Fresh, Here
<1>5. CASE Copying(B) \/ Pointing(B) \/ Taking(B) \/ Answering(B)
  <2>1. Here(1) /\ CurI.kind \in {"ASSIGN", "ADDR", "PARAM", "RETURN"}
    BY <1>5 DEF Copying, Pointing, Taking, Answering
  <2>3. tac[ipc].kind \in {"ASSIGN", "ADDR", "PARAM", "RETURN"}
    BY <1>1, <2>1
  <2>4. Len(Lines(ipc)) = 2
    BY <1>1, <2>3, LineCounts
  <2>2. 1 < Len(Lines(ipc))
    BY <2>4
  <2> QED
    BY <1>3, <2>1, <2>2
<1>6. CASE Following(B) \/ Comparing(B) \/ Pushing(B)
  <2>1. Here(1) \/ Here(2)
    BY <1>6 DEF Following, Comparing, Pushing
  <2>2. CurI.kind \in {"FETCH", "ARG"} \cup IfKinds
    BY <1>6 DEF Following, Comparing, Pushing
  <2>4. tac[ipc].kind \in {"FETCH", "ARG"} \cup IfKinds
    BY <1>1, <2>2
  <2>5. Len(Lines(ipc)) = 3
    BY <1>1, <2>4, LineCounts
  <2>3. 1 < Len(Lines(ipc)) /\ 2 < Len(Lines(ipc))
    BY <2>5
  <2> QED
    BY <1>3, <2>1, <2>3
<1>7. CASE Working(B)
  <2>1. CurI.kind \in ArithKinds
    BY <1>7 DEF Working
  <2>2. CASE CurI.kind = "DIV"
    <3>1. Here(1) \/ Here(2) \/ Here(3) \/ Here(4)
      BY <1>7, <2>2 DEF Working
    <3>2. Len(Lines(ipc)) = 5
      BY <1>1, <2>2, LineCounts
    <3> QED
      BY <1>3, <3>1, <3>2
  <2>3. CASE CurI.kind # "DIV"
    <3>1. Here(1) \/ Here(2) \/ Here(3)
      BY <1>7, <2>3 DEF Working
    <3>2. Len(Lines(ipc)) = 4
      BY <1>1, <2>1, <2>3, LineCounts DEF ArithKinds
    <3> QED
      BY <1>3, <3>1, <3>2
  <2> QED
    BY <2>2, <2>3
<1>8. CASE Reading(B) \/ Writing(B)
  <2>1. CurI.kind \in {"READ", "WRITE"} /\ (Around(B, 0) \/ Around(B, 1) \/ Here(5) \/ Here(1))
    BY <1>8 DEF Reading, Writing
  <2>2. Len(Lines(ipc)) = 6
    BY <1>1, <2>1, LineCounts
  <2>3. CASE Here(5) \/ Here(1)
    BY <1>3, <2>2, <2>3
  <2> QED
    BY <2>1, <2>3, AroundPlace
<1>9. CASE Calling(B)
  <2>1. PICK o \in Nat : Here(o) /\ o >= 1 /\ o <= 2 * Size + 2
    <3>1. CASE \E m \in 0..Size : Here(1 + 2 * m)
      <4>1. PICK m \in 0..Size : Here(1 + 2 * m)
        BY <3>1
      <4>2. 1 + 2 * m \in Nat /\ 1 + 2 * m >= 1 /\ 1 + 2 * m <= 2 * Size + 2
        BY <1>1
      <4> QED
        BY <4>1, <4>2
    <3>2. CASE \E m \in 0..Size - 1 : Here(2 + 2 * m)
      <4>1. PICK m \in 0..Size - 1 : Here(2 + 2 * m)
        BY <3>2
      <4>2. 2 + 2 * m \in Nat /\ 2 + 2 * m >= 1 /\ 2 + 2 * m <= 2 * Size + 2
        BY <1>1
      <4> QED
        BY <4>1, <4>2
    <3>3. CASE Here(2 * Size + 2)
      <4>1. 2 * Size + 2 \in Nat /\ 2 * Size + 2 >= 1
        BY <1>1
      <4> QED
        BY <1>1, <3>3, <4>1
    <3> QED
      BY <1>9, <3>1, <3>2, <3>3 DEF Calling
  <2>2. Len(Lines(ipc)) = 4 * Size + 6
    BY <1>1, <1>9, LineCounts DEF Calling
  <2>3. o < Len(Lines(ipc))
    BY <1>1, <2>1, <2>2
  <2> QED
    BY <1>3, <2>1, <2>3
<1>10. CASE Returning(B)
  <2>1. PICK c \in DOMAIN tac : Returned(B, c) /\ Restoring(B, c)
    BY <1>10 DEF Returning
  <2>2. Len(Lines(c)) = 4 * Size + 6
    BY <2>1, LineCounts DEF Returned
  <2>3. PICK o \in Nat : o >= 1 /\ o < 4 * Size + 6 /\ pc = Pos[c] + o
    <3>1. CASE \E m \in 0..Size : pc = Pos[c] + (2 * Size + 3 + 2 * m)
      <4>1. PICK m \in 0..Size : pc = Pos[c] + (2 * Size + 3 + 2 * m)
        BY <3>1
      <4>2. PICK o : o = 2 * Size + 3 + 2 * m
        OBVIOUS
      <4>3. o \in Nat /\ o >= 1 /\ o < 4 * Size + 6 /\ pc = Pos[c] + o
        BY <1>1, <4>1, <4>2
      <4> QED
        BY <4>3
    <3>2. CASE \E m \in 0..Size - 1 : pc = Pos[c] + (2 * Size + 4 + 2 * m)
      <4>1. PICK m \in 0..Size - 1 : pc = Pos[c] + (2 * Size + 4 + 2 * m)
        BY <3>2
      <4>2. PICK o : o = 2 * Size + 4 + 2 * m
        OBVIOUS
      <4>3. o \in Nat /\ o >= 1 /\ o < 4 * Size + 6 /\ pc = Pos[c] + o
        BY <1>1, <4>1, <4>2
      <4> QED
        BY <4>3
    <3>3. CASE pc = Pos[c] + (4 * Size + 4) \/ pc = Pos[c] + (4 * Size + 5)
      <4>1. PICK o : o \in {4 * Size + 4, 4 * Size + 5} /\ pc = Pos[c] + o
        BY <3>3
      <4>2. o \in Nat /\ o >= 1 /\ o < 4 * Size + 6
        BY <1>1, <4>1
      <4> QED
        BY <4>1, <4>2
    <3> QED
      BY <2>1, <3>1, <3>2, <3>3 DEF Restoring
  <2> QED
    BY <2>2, <2>3, InnerPlace
<1> QED
  BY <1>4, <1>5, <1>6, <1>7, <1>8, <1>9, <1>10 DEF Phase

(* A line of the assembly.                                                 *)
LEMMA RunStep ==
    ASSUME Static, RunLine, NEW B, Sound(B), Phase(B)
    PROVE  \/ Faults
           \/ status' = "halted" /\ Stopping'
           \/ \E U : Sound(U)' /\ Phase(U)'
<1>1. ipc \in DOMAIN tac /\ CurI \in Inst /\ CurI = tac[ipc]
  BY CurFacts DEF CurI
<1>2. CurI.kind \notin NoLines
  <2>1. ipc # 0
    BY <1>1, BuiltFacts DEF Static
  <2> QED
    BY <2>1, IsKinds DEF RunLine, Silent, NoLines
<1>3. CurI.kind # "DEREF"
  BY <1>1, BuiltFacts DEF Static, Supported
<1>4. /\ Fresh(B)' => Phase(B)'
      /\ Copying(B)' => Phase(B)'
      /\ Working(B)' => Phase(B)'
      /\ Pointing(B)' => Phase(B)'
      /\ Following(B)' => Phase(B)'
      /\ Comparing(B)' => Phase(B)'
      /\ Taking(B)' => Phase(B)'
      /\ Pushing(B)' => Phase(B)'
      /\ Reading(B)' => Phase(B)'
      /\ Writing(B)' => Phase(B)'
      /\ Returning(B)' => Phase(B)'
  BY DEF Phase
<1>5. \A U : (Fresh(U) \/ Calling(U) \/ Answering(U) \/ Returning(U))' => Phase(U)'
  BY DEF Phase
<1>6. CASE CurI.kind = "ASSIGN" /\ (Fresh(B) \/ Copying(B))
  BY <1>4, <1>6, AssignStep
<1>7. CASE CurI.kind \in ArithKinds /\ (Fresh(B) \/ Working(B))
  BY <1>4, <1>7, ArithStep
<1>8. CASE CurI.kind = "ADDR" /\ (Fresh(B) \/ Pointing(B))
  BY <1>4, <1>8, AddrStep
<1>9. CASE CurI.kind = "FETCH" /\ (Fresh(B) \/ Following(B))
  BY <1>4, <1>9, FetchStep
<1>10. CASE CurI.kind \in IfKinds /\ (Fresh(B) \/ Comparing(B))
  BY <1>4, <1>10, IfStep
<1>11. CASE CurI.kind = "PARAM" /\ (Fresh(B) \/ Taking(B))
  BY <1>4, <1>11, TakeStep
<1>12. CASE CurI.kind = "ARG" /\ (Fresh(B) \/ Pushing(B))
  BY <1>4, <1>12, PushStep
<1>13. CASE CurI.kind = "READ" /\ (Fresh(B) \/ Reading(B))
  BY <1>4, <1>13, ReadStep
<1>14. CASE CurI.kind = "WRITE" /\ (Fresh(B) \/ Writing(B))
  BY <1>4, <1>14, WriteStep
<1>15. CASE CurI.kind = "CALL" /\ (Fresh(B) \/ Calling(B))
  BY <1>5, <1>15, CallStep
<1>16. CASE CurI.kind = "RETURN" /\ (Fresh(B) \/ Answering(B))
  BY <1>5, <1>16, ReturnStep
<1>17. CASE CurI.kind = "GOTO" /\ Fresh(B)
  BY <1>4, <1>17, GotoStep
<1>18. CASE CurI.kind \in {"LABEL", "FUNCTION"} /\ Fresh(B)
  BY <1>4, <1>18, MarkedStep
<1>19. CASE Returning(B)
  BY <1>4, <1>19, BackStep
<1>20. CurI.kind \in AllKinds
  BY <1>1, InstKinds
<1>21. CASE Fresh(B)
  BY <1>2, <1>3, <1>20, <1>21, <1>6, <1>7, <1>8, <1>9, <1>10, <1>11, <1>12, <1>13, <1>14, <1>15, <1>16, <1>17, <1>18
     DEF AllKinds, NoLines
<1>22. /\ Copying(B) => CurI.kind = "ASSIGN"
       /\ Working(B) => CurI.kind \in ArithKinds
       /\ Pointing(B) => CurI.kind = "ADDR"
       /\ Following(B) => CurI.kind = "FETCH"
       /\ Comparing(B) => CurI.kind \in IfKinds
       /\ Taking(B) => CurI.kind = "PARAM"
       /\ Pushing(B) => CurI.kind = "ARG"
       /\ Reading(B) => CurI.kind = "READ"
       /\ Writing(B) => CurI.kind = "WRITE"
       /\ Answering(B) => CurI.kind = "RETURN"
       /\ Calling(B) => CurI.kind = "CALL"
  BY DEF Copying, Working, Pointing, Following, Comparing, Taking, Pushing, Reading, Writing, Answering, Calling
<1> QED
  BY <1>6, <1>7, <1>8, <1>9, <1>10, <1>11, <1>12, <1>13, <1>14, <1>15, <1>16, <1>19, <1>21, <1>22 DEF Phase

(* A NONE or a DEC.                                                        *)
LEMMA PastStep ==
    ASSUME Static, GoPast, NEW B, Sound(B), Phase(B)
    PROVE  Sound(B)' /\ Phase(B)'
<1>1. /\ ipc \in DOMAIN tac /\ CurI = tac[ipc] /\ Machine /\ Placed(env, loc) /\ ipc # 0 /\ ipc \in Nat
      /\ Len(tac) \in Nat /\ DOMAIN tac = 1..Len(tac)
  BY CurFacts, BuiltFacts DEF CurI, Static
<1>2. CurI.kind \in NoLines
  BY <1>1, IsKinds DEF GoPast, Silent, NoLines
<1>3. /\ UNCHANGED <<gvars, pc, reg, mem, printed, env, actuals, pending, frames, loc, wrote>> /\ ipc' = ipc + 1
  <2>1. UNCHANGED <<gvars, pc, reg, mem, printed>> /\ IR!Run(0, 0)
    BY DEF GoPast, svars
  <2> QED
    BY <1>1, <1>2, <2>1, RunKinds DEF NoLines
<1>4. Machine' /\ HighKept(Top(B)) /\ Placed(env, loc)'
  <2>1. Machine'
    BY <1>1, <1>3, MachineKept
  <2>2. PICK e, l : e = env /\ l = loc
    OBVIOUS
  <2>3. Placed(e, l)'
    BY <1>1, <1>3, <2>2, PlacedKept
  <2> QED
    BY <1>3, <2>1, <2>2, <2>3, HighLemma
<1>5. Sound(B)' /\ Top(B)' = Top(B) /\ RaOf(0)' = RaOf(0)
  BY <1>2, <1>3, <1>4, Advances DEF NoLines
<1>6. /\ Pos' = Pos /\ Size' = Size /\ Frame' = Frame /\ ArgsBefore' = ArgsBefore /\ StackLow' = StackLow
      /\ UNCHANGED <<tac, data>> /\ \A x : Listed(x)' <=> Listed(x)
  BY <1>3, StaticKept DEF gvars, StackLow, StackTop
<1>7. Pos[ipc + 1] = Pos[ipc]
  <2>1. Len(Lines(ipc)) = 0
    BY <1>1, <1>2, LineCounts
  <2>2. Pos[ipc + 1] = Pos[ipc] + Len(Lines(ipc)) /\ Pos[ipc] \in Nat
    <3>1. ipc \in 1..Len(tac) + 1
      BY <1>1
    <3> QED
      BY <1>1, <3>1, PosFacts DEF Static
  <2> QED
    BY <2>1, <2>2
<1>8. CASE Fresh(B)
  <2>1. Here(0)'
    BY <1>3, <1>6, <1>7, <1>8 DEF Fresh, Here
  <2>2. Values'
    BY <1>1, <1>3, <1>8, ValuesKept DEF Fresh, Steady
  <2> QED
    BY <1>3, <1>5, <1>8, <2>1, <2>2 DEF Fresh, Steady, Phase
<1>9. CASE Returning(B)
  <2>1. PICK c \in DOMAIN tac : Returned(B, c) /\ Restoring(B, c)
    BY <1>9 DEF Returning
  <2>2. Home(B, c)' = Home(B, c)
    BY <1>6 DEF Home
  <2>3. Returned(B, c)'
    <3>1. c < ipc + 1
      BY <1>1, <2>1 DEF Returned
    <3> QED
      BY <1>3, <1>6, <1>7, <2>1, <2>2, <3>1 DEF Returned
  <2>4. Kept(B, c) => Kept(B, c)'
    BY <1>3, <1>5, <1>6, <2>2 DEF Kept, Word
  <2>5. \A m : Restored(c, m) => Restored(c, m)'
    BY <1>3, <1>6 DEF Restored, Word
  <2>6. Restoring(B, c)'
    BY <1>3, <1>5, <1>6, <2>1, <2>2, <2>4, <2>5 DEF Restoring
  <2> QED
    BY <1>5, <1>6, <2>3, <2>6 DEF Returning, Phase
<1>10. Fresh(B) \/ Returning(B)
  <2>1. /\ CurI.kind # "ASSIGN" /\ CurI.kind \notin ArithKinds /\ CurI.kind # "ADDR" /\ CurI.kind # "FETCH"
        /\ CurI.kind \notin IfKinds /\ CurI.kind \notin {"PARAM", "ARG", "READ", "WRITE", "RETURN", "CALL"}
    BY <1>2 DEF NoLines, ArithKinds, IfKinds
  <2> QED
    BY <2>1 DEF Phase, Copying, Working, Pointing, Following, Comparing, Taking, Pushing, Reading, Writing, Answering, Calling
<1> QED
  BY <1>8, <1>9, <1>10

(* Nothing happens.                                                        *)
LEMMA StillStep ==
    ASSUME Static, UNCHANGED vars, NEW B, Sound(B), Phase(B)
    PROVE  Sound(B)' /\ Phase(B)'
<1>1. UNCHANGED <<gvars, ivars, pc, reg, mem, printed, ipc, env, actuals, pending, frames, loc, wrote>>
  BY DEF vars, svars, ivars
<1>2. Machine
  BY DEF Sound
<1>3. Sound(B)' /\ Top(B)' = Top(B) /\ RaOf(0)' = RaOf(0) /\ CurI' = CurI
  <2>1. Machine' /\ HighKept(Top(B))
    BY <1>1, <1>2, MachineKept, HighLemma
  <2> QED
    BY <1>1, <2>1, Stays
<1>s. SUFFICES Phase(B)'
  BY <1>3
<1>4. /\ Pos' = Pos /\ Size' = Size /\ Frame' = Frame /\ ArgsBefore' = ArgsBefore /\ StackLow' = StackLow
      /\ UNCHANGED <<tac, data>> /\ \A x : Address(x)' = Address(x) /\ (Listed(x)' <=> Listed(x))
  BY <1>1, StaticKept DEF gvars, StackLow, StackTop
<1>5. \A o : Here(o) => Here(o)'
  BY <1>1, <1>4 DEF Here
<1>6. \A a, v : Word(a, v) => Word(a, v)'
  BY <1>1 DEF Word
<1>7. Values => Values'
  BY <1>1, <1>4, <1>6 DEF Values, Word
<1>8. Steady(B) => Steady(B)'
  BY <1>1, <1>3, <1>7 DEF Steady
<1>9. \A o : IR!Value(o)' = IR!Value(o) /\ (IR!Defined(o)' <=> IR!Defined(o))
  BY <1>1, ValueSame
<1>10. \A o, r : Loaded(o, r) => Loaded(o, r)'
  BY <1>1, LoadedKept
<1>11. PICK i : i = CurI /\ CurI' = i
  BY <1>3
<1>12. CASE Fresh(B)
  BY <1>5, <1>8, <1>12 DEF Fresh, Phase
<1>13. CASE Copying(B)
  BY <1>5, <1>8, <1>10, <1>11, <1>13 DEF Copying, Phase
<1>14. CASE Working(B)
  <2>1. Result' = Result
    BY <1>1, <1>11 DEF Result, IR!Value
  <2>2. (IR!Defined(CurI.r1) /\ IR!Defined(CurI.r2))' <=> (IR!Defined(CurI.r1) /\ IR!Defined(CurI.r2))
    BY <1>9, <1>11
  <2>3. /\ Loaded(CurI.r1, "t0") => Loaded(CurI.r1, "t0")'
        /\ Loaded(CurI.r2, "t1") => Loaded(CurI.r2, "t1")'
    BY <1>10, <1>11
  <2>4. Here(IF CurI.kind = "DIV" THEN 4 ELSE 3) => Here(IF CurI.kind = "DIV" THEN 4 ELSE 3)'
    BY <1>5, <1>11
  <2>5. (Here(1) => Here(1)') /\ (Here(2) => Here(2)') /\ (Here(3) => Here(3)')
    BY <1>5
  <2>6. CurI' = CurI
    BY <1>3
  <2> QED
    BY <1>1, <1>8, <1>14, <2>1, <2>2, <2>3, <2>4, <2>5, <2>6 DEF Working, Phase
<1>15. CASE Pointing(B)
  BY <1>1, <1>4, <1>5, <1>8, <1>11, <1>15 DEF Pointing, Phase
<1>16. CASE Following(B)
  <2>1. \A x : IR!Points(CurI.raddr, x)' <=> IR!Points(CurI.raddr, x)
    BY <1>1, <1>9, <1>11 DEF IR!Points
  <2>2. Loaded(CurI.raddr, "t0") => Loaded(CurI.raddr, "t0")'
    BY <1>10, <1>11
  <2>3. (Here(1) => Here(1)') /\ (Here(2) => Here(2)') /\ CurI' = CurI
    BY <1>3, <1>5
  <2> QED
    BY <1>1, <1>8, <1>16, <2>1, <2>2, <2>3 DEF Following, Phase
<1>17. CASE Comparing(B)
  <2>1. /\ Loaded(CurI.c1, "t0") => Loaded(CurI.c1, "t0")'
        /\ Loaded(CurI.c2, "t1") => Loaded(CurI.c2, "t1")'
    BY <1>10, <1>11
  <2>2. (Here(1) => Here(1)') /\ (Here(2) => Here(2)') /\ CurI' = CurI
    BY <1>3, <1>5
  <2> QED
    BY <1>8, <1>17, <2>1, <2>2 DEF Comparing, Phase
<1>18. CASE Taking(B)
  BY <1>1, <1>5, <1>8, <1>11, <1>18 DEF Taking, Phase
<1>19. CASE Pushing(B)
  BY <1>1, <1>3, <1>5, <1>7, <1>10, <1>11, <1>19 DEF Pushing, Phase
<1>20. Around(B, 0) \/ Around(B, 1) => \A o \in {0, 1} : Around(B, o) => Around(B, o)'
  <2>1. ASSUME NEW o \in {0, 1}, Around(B, o) PROVE Around(B, o)'
    <3>1. Word(Top(B) - 4, RaOf(0)) => Word(Top(B) - 4, RaOf(0))'
      BY <1>3, <1>6
    <3>2. /\ Here(o + 1) => Here(o + 1)'
          /\ Here(o + 2) => Here(o + 2)'
          /\ Here(o + 3) => Here(o + 3)'
          /\ Here(o + 4) => Here(o + 4)'
      BY <1>5
    <3> QED
      BY <1>1, <1>3, <1>4, <1>7, <2>1, <3>1, <3>2 DEF Around
  <2> QED
    BY <2>1
<1>21. CASE Reading(B)
  BY <1>1, <1>5, <1>8, <1>11, <1>20, <1>21 DEF Reading, Phase
<1>22. CASE Writing(B)
  <2>1. Written => Written'
    <3>1. IR!Value(CurI.var)' = IR!Value(CurI.var)
      BY <1>9, <1>11
    <3>2. (Here(4)' <=> Here(4)) /\ (Here(5)' <=> Here(5))
      BY <1>1, <1>4 DEF Here
    <3> QED
      BY <1>1, <3>1, <3>2 DEF Written
  <2>2. IR!Defined(CurI.var)' <=> IR!Defined(CurI.var)
    BY <1>9, <1>11
  <2> QED
    BY <1>5, <1>8, <1>11, <1>20, <1>22, <2>1, <2>2 DEF Writing, Phase
<1>23. CASE Answering(B)
  BY <1>5, <1>8, <1>10, <1>11, <1>23 DEF Answering, Phase
<1>24. CASE Calling(B)
  <2>1. ASSUME NEW m, Filled(B, m) PROVE Filled(B, m)'
    BY <1>1, <1>3, <1>4, <1>6, <2>1 DEF Filled, Word
  <2>2. Word(Top(B) - Frame + 4 * Size, RaOf(0)) => Word(Top(B) - Frame + 4 * Size, RaOf(0))'
    BY <1>3, <1>4, <1>6
  <2>3. CASE \E m \in 0..Size : Filled(B, m) /\ Here(1 + 2 * m)
    <3>1. PICK m \in 0..Size : Filled(B, m) /\ Here(1 + 2 * m)
      BY <2>3
    <3>2. m \in 0..Size' /\ Filled(B, m)' /\ Here(1 + 2 * m)'
      BY <1>4, <1>5, <2>1, <3>1
    <3> QED
      BY <1>1, <1>3, <1>4, <1>7, <1>24, <3>2 DEF Calling, Phase
  <2>4. CASE \E m \in 0..Size - 1 : /\ Filled(B, m) /\ Here(2 + 2 * m)
                                    /\ data[m + 1] \in DOMAIN env => reg["t0"] = env[data[m + 1]]
    <3>1. PICK m \in 0..Size - 1 : /\ Filled(B, m) /\ Here(2 + 2 * m)
                                   /\ data[m + 1] \in DOMAIN env => reg["t0"] = env[data[m + 1]]
      BY <2>4
    <3>2. m \in 0..Size' - 1 /\ Filled(B, m)' /\ Here(2 + 2 * m)'
          /\ (data[m + 1] \in DOMAIN env => reg["t0"] = env[data[m + 1]])'
      BY <1>1, <1>4, <1>5, <2>1, <3>1
    <3> QED
      BY <1>1, <1>3, <1>4, <1>7, <1>24, <3>2 DEF Calling, Phase
  <2>5. CASE /\ Filled(B, Size) /\ StackLow <= Top(B) - Frame /\ Word(Top(B) - Frame + 4 * Size, RaOf(0))
             /\ Here(2 * Size + 2)
    <3>1. PICK m : m = Size /\ Size' = m
      BY <1>4
    <3>2. Filled(B, m)' /\ Here(2 * m + 2)'
      BY <1>5, <2>1, <2>5, <3>1
    <3>3. Filled(B, Size)' /\ Here(2 * Size + 2)'
      BY <3>1, <3>2
    <3> QED
      BY <1>1, <1>3, <1>4, <1>7, <1>24, <2>2, <2>5, <3>3 DEF Calling, Phase
  <2> QED
    BY <1>24, <2>3, <2>4, <2>5 DEF Calling
<1>25. CASE Returning(B)
  <2>1. PICK c \in DOMAIN tac : Returned(B, c) /\ Restoring(B, c)
    BY <1>25 DEF Returning
  <2>2. Home(B, c)' = Home(B, c)
    BY <1>4 DEF Home
  <2>3. Returned(B, c)'
    BY <1>1, <1>4, <2>1, <2>2 DEF Returned
  <2>4. Kept(B, c) => Kept(B, c)'
    BY <1>1, <1>3, <1>4, <2>2 DEF Kept, Word
  <2>5. \A m : Restored(c, m) => Restored(c, m)'
    BY <1>1, <1>4 DEF Restored, Word
  <2>6. Restoring(B, c)'
    BY <1>1, <1>3, <1>4, <2>1, <2>2, <2>4, <2>5 DEF Restoring
  <2> QED
    BY <1>4, <2>1, <2>3, <2>6 DEF Returning, Phase
<1> QED
  BY <1>3, <1>12, <1>13, <1>14, <1>15, <1>16, <1>17, <1>18, <1>19, <1>21, <1>22, <1>23, <1>24, <1>25 DEF Phase

-----------------------------------------------------------------------------
(* The invariant.                                                          *)

PlaceFact == \A B : Static /\ Sound(B) /\ Phase(B) => pc # 0 /\ (Starting => Fresh(B))

(* The same of every choice of the bases, to be primed.                    *)
LEMMA PlaceLemma == PlaceFact
BY PhasePlace DEF PlaceFact

(* Nothing has run.                                                        *)
Waiting ==
    /\ pc = 0 /\ reg = [r \in Reg |-> 0] /\ mem = <<>> /\ printed = <<>>
    /\ env = <<>> /\ actuals = <<>> /\ pending = <<>> /\ frames = <<>> /\ loc = <<>> /\ wrote = <<>>

(* The inductive invariant.                                                *)
BackInv ==
    /\ LayInv
    /\ status = "assembling" => Waiting
    /\ status # "assembling" => gen = "done"
    /\ status \in {"running", "halted"} => Assembles
    /\ status = "running" => \E B : Sound(B) /\ Phase(B)
    /\ status = "halted" => Stopping

(* The first state.                                                        *)
LEMMA InitStep ==
    ASSUME BackInit, \A p \in Programs : Supported(p)
    PROVE  BackInv
<1>1. LayInv
  BY LayInit DEF BackInit
<1> QED
  BY <1>1 DEF BackInit, SpimInit, BackInv, Waiting

(* The program begins at main with the stack at its top.                   *)
LEMMA BeginStep ==
    ASSUME LayInv, Begin, Waiting, Assembles
    PROVE  \E U : Sound(U)' /\ Phase(U)'
<1>1. Static
  BY DEF Begin, Static, Built
<1>2. PICK i \in DOMAIN tac : i = IR!FunctionAt("main") /\ tac[i].kind = "FUNCTION" /\ Line("main") = Pos[i]
  BY <1>1, FunctionPlace, BuiltFacts DEF Static, Supported
<1>3. /\ UNCHANGED gvars /\ pc' = Pos[i] /\ ipc' = i
      /\ reg' = [reg EXCEPT !["sp"] = StackTop, !["ra"] = 0] /\ mem' = [a \in Addresses |-> 0]
      /\ printed' = <<>> /\ env' = <<>> /\ actuals' = <<>> /\ pending' = <<>> /\ frames' = <<>> /\ loc' = <<>> /\ wrote' = <<>>
  BY <1>2 DEF Begin, Assemble, Waiting
<1>4. /\ Pos' = Pos /\ UNCHANGED tac /\ Addresses' = Addresses /\ StackLow' = StackLow /\ StackTop' = StackTop
      /\ Frame' = Frame
  BY <1>1, <1>3, StaticKept DEF gvars, StackLow, StackTop
<1>5. PICK U : U = [k \in 0..0 |-> StackTop]
  OBVIOUS
<1>6. PICK s : s = <<>> /\ IsSeq(s) /\ Len(s) = 0 /\ DOMAIN s = {}
  <2>1. PICK s : s = <<>>
    OBVIOUS
  <2>2. s \in Seq({}) /\ Len(s) = 0 /\ DOMAIN s = {}
    BY <2>1
  <2> QED
    BY <2>1, <2>2, SeqLemma
<1>7. /\ IsSeq(pending)' /\ IsSeq(frames)' /\ IsSeq(actuals)' /\ Len(pending') = 0 /\ Len(frames') = 0 /\ DOMAIN actuals' = {}
      /\ DOMAIN pending' = {} /\ DOMAIN env' = {} /\ DOMAIN loc' = {}
  BY <1>3, <1>6 DEF IsSeq
<1>8. U[0] = StackTop /\ U \in [0..0 -> Int] /\ StackTop \in Int /\ 0..0 = {0} /\ 1..0 = {}
  BY <1>5 DEF StackTop
<1>9. Top(U)' = StackTop
  BY <1>7, <1>8 DEF Top
<1>10. Suspended(U)'
  <2>1. \A j, k \in 0..0 : j <= k => U[j] <= U[k]
    BY <1>8
  <2> QED
    BY <1>4, <1>7, <1>8, <2>1 DEF Suspended
<1>11. Stack(U)'
  <2>1. StackLow <= StackTop
    BY <1>1, AddressFacts
  <2> QED
    BY <1>4, <1>7, <1>9, <1>10, <2>1 DEF Stack
<1>12. reg'["sp"] = StackTop /\ reg'["ra"] = 0 /\ reg'["zero"] = 0 /\ DOMAIN reg' = Reg
  BY <1>3 DEF Waiting, Reg
<1>13. Machine'
  BY <1>3, <1>4, <1>12 DEF Machine
<1>14. Live'
  <2>1. RunOf("ARG", i, 0)
    BY <1>1, <1>2, NoneWaiting
  <2> QED
    BY <1>2, <1>3, <1>4, <1>7, <2>1 DEF Live, RunOf, Sealed
<1>15. Given(U)'
  <2>1. RunOf("PARAM", i, 0)
    BY <1>1, <1>2, Beginning
  <2>2. RunOf("PARAM", ipc, 0)'
    BY <1>3, <1>4, <2>1 DEF RunOf
  <2> QED
    BY <1>7, <2>2 DEF Given
<1>16. Sound(U)'
  BY <1>7, <1>11, <1>13, <1>14, <1>15 DEF Sound, Placed
<1>17. Here(0)'
  <2>1. Pos[i] \in Nat
    <3>1. i \in 1..Len(tac) + 1
      BY <1>1, BuiltFacts DEF Static
    <3> QED
      BY <1>1, <3>1, PosFacts DEF Static
  <2> QED
    BY <1>3, <1>4, <2>1 DEF Here
<1>18. RaOf(0)' = 0
  BY <1>7 DEF RaOf
<1>19. Fresh(U)'
  BY <1>3, <1>7, <1>9, <1>12, <1>17, <1>18 DEF Fresh, Steady, Values
<1> QED
  BY <1>16, <1>19 DEF Phase

(* jr at the end of main stops the machine, and nothing else does.         *)
LEMMA StatusStep ==
    ASSUME Execute
    PROVE  Faults \/ status' = "running" \/ (status' = "halted" /\ pc' = 0)
BY DEF Execute, ToRegister, LoadWord, StoreWord, Transfer, JumpBack, SystemCall, Do, Fault, Faults

(* A step of the generator.                                                *)
LEMMA CompileStep ==
    ASSUME BackInv, Compile
    PROVE  BackInv'
<1>1. GenNext /\ UNCHANGED <<svars, ivars>>
  BY DEF Compile
<1>2. gen # "done"
  BY <1>1 DEF GenNext, Collect, Prologue, EmitLabel, EmitFunction, EmitAssign, EmitArith, EmitAddr, EmitFetch, EmitDeref,
              EmitGoto, EmitIf, EmitReturn, EmitDec, EmitArg, EmitCall, EmitParam, EmitRead, EmitWrite, SkipNone, Finish, At
<1>3. status = "assembling" /\ Waiting
  BY <1>2 DEF BackInv
<1>4. status' = "assembling" /\ Waiting'
  BY <1>1, <1>3 DEF svars, ivars, Waiting
<1>5. LayInv'
  BY <1>1, LayStep DEF BackInv
<1> QED
  BY <1>4, <1>5 DEF BackInv

(* The assembler takes the output or rejects it.                           *)
LEMMA AssembledStep ==
    ASSUME BackInv, Begin
    PROVE  BackInv'
<1>1. LayInv /\ Waiting /\ UNCHANGED gvars /\ gen = "done" /\ status = "assembling"
  BY DEF BackInv, Begin, Assemble
<1>2. LayInv' /\ gen' = "done"
  BY <1>1, LayStep DEF gvars
<1>3. CASE Assembles
  <2>1. \E U : Sound(U)' /\ Phase(U)'
    BY <1>1, <1>3, BeginStep
  <2>2. status' = "running"
    BY <1>3 DEF Begin, Assemble
  <2>3. Assembles'
    BY <1>1, <1>3 DEF Assembles, Accepted, Marks, gvars
  <2> QED
    BY <1>2, <2>1, <2>2, <2>3 DEF BackInv
<1>4. CASE ~Assembles
  <2>1. status' = "rejected"
    BY <1>4 DEF Begin, Assemble
  <2> QED
    BY <1>2, <2>1 DEF BackInv
<1> QED
  BY <1>3, <1>4

(* The machine executes a line.                                            *)
LEMMA LineStep ==
    ASSUME BackInv, RunLine
    PROVE  BackInv'
<1>1. UNCHANGED gvars /\ Execute
  BY DEF RunLine
<1>2. status = "running"
  BY <1>1, ExecuteStatus
<1>3. Static
  BY <1>2 DEF BackInv, Static, Built
<1>4. PICK B : Sound(B) /\ Phase(B)
  BY <1>2 DEF BackInv
<1>5. Static' /\ LayInv' /\ gen' = "done" /\ Assembles'
  <2>1. Static'
    BY <1>1, <1>3, StaticKept
  <2> QED
    BY <2>1 DEF Static, Built
<1>6. CASE Faults
  BY <1>5, <1>6 DEF Faults, BackInv
<1>7. CASE status' = "halted" /\ Stopping'
  BY <1>5, <1>7 DEF BackInv
<1>8. CASE ~Faults /\ \E U : Sound(U)' /\ Phase(U)'
  <2>1. PICK U : Sound(U)' /\ Phase(U)'
    BY <1>8
  <2>2. PlaceFact'
    BY PlaceLemma, PTL
  <2>3. pc' # 0
    BY <1>5, <2>1, <2>2 DEF PlaceFact
  <2>4. status' = "running"
    BY <1>1, <1>8, <2>3, StatusStep
  <2> QED
    BY <1>5, <2>1, <2>4 DEF BackInv
<1> QED
  BY <1>3, <1>4, <1>6, <1>7, <1>8, RunStep

(* The program goes past a NONE or a DEC.                                  *)
LEMMA SilentStep ==
    ASSUME BackInv, GoPast
    PROVE  BackInv'
<1>1. UNCHANGED gvars /\ status = "running" /\ status' = "running"
  BY DEF GoPast, svars
<1>3. Static
  BY <1>1 DEF BackInv, Static, Built
<1>4. PICK B : Sound(B) /\ Phase(B)
  BY <1>1 DEF BackInv
<1>5. LayInv' /\ gen' = "done" /\ Assembles'
  <2>1. Static'
    BY <1>1, <1>3, StaticKept
  <2> QED
    BY <2>1 DEF Static, Built
<1>6. Sound(B)' /\ Phase(B)'
  BY <1>3, <1>4, PastStep
<1> QED
  BY <1>1, <1>5, <1>6 DEF BackInv

(* Nothing happens.                                                        *)
LEMMA NoStep ==
    ASSUME BackInv, UNCHANGED vars
    PROVE  BackInv'
<1>1. UNCHANGED <<gvars, svars, ivars, gen, status>>
  BY DEF vars, svars, gvars
<1>2. LayInv'
  BY <1>1, LayStep DEF BackInv
<1>3. Waiting => Waiting'
  BY <1>1 DEF Waiting, svars, ivars
<1>4. Assembles => Assembles'
  BY <1>1 DEF Assembles, Accepted, Marks, gvars
<1>5. Stopping => Stopping'
  BY <1>1 DEF Stopping, svars, ivars, StackTop
<1>6. CASE status = "running"
  <2>1. Static
    BY <1>6 DEF BackInv, Static, Built
  <2>2. PICK B : Sound(B) /\ Phase(B)
    BY <1>6 DEF BackInv
  <2>3. Sound(B)' /\ Phase(B)'
    BY <2>1, <2>2, StillStep
  <2> QED
    BY <1>1, <1>2, <1>4, <1>6, <2>3 DEF BackInv
<1> QED
  BY <1>1, <1>2, <1>3, <1>4, <1>5, <1>6 DEF BackInv

(* Every step keeps the invariant.                                         *)
LEMMA NextStep == BackInv /\ [Next]_vars => BackInv'
BY CompileStep, AssembledStep, LineStep, SilentStep, NoStep DEF Next, Stopped

-----------------------------------------------------------------------------
(* What the comparison sees: the first line of the program's instruction.  *)
LEMMA StartLemma ==
    ASSUME BackInv, Starting
    PROVE  Static /\ \E B : Sound(B) /\ Fresh(B)
<1>1. status = "running"
  BY DEF Starting
<1>2. Static
  BY <1>1 DEF BackInv, Static, Built
<1> QED
  BY <1>1, <1>2, PhasePlace DEF BackInv

(* The invariant says of the first line of an instruction what the         *)
(* comparison asks.                                                        *)
LEMMA AgreeLemma ==
    ASSUME BackInv
    PROVE  ControlAgrees /\ VariablesAgree /\ StackBalanced /\ OutputAgrees
<1>1. ASSUME Starting
      PROVE  /\ text[pc].of = ipc /\ printed = wrote
             /\ \A x \in DOMAIN env : mem[Address(x)] = env[x]
             /\ \A k \in DOMAIN pending : mem[reg["sp"] + 4 * (k - 1)] = pending[k]
             /\ frames = <<>> => reg["sp"] = StackTop - 4 * Len(pending)
  <2>1. Static
    BY <1>1, StartLemma
  <2>2. PICK B : Sound(B) /\ Fresh(B)
    BY <1>1, StartLemma
  <2>3. /\ ipc \in DOMAIN tac /\ CurI \in Inst /\ CurI = tac[ipc] /\ Pos[ipc] \in Nat /\ ipc # 0
    BY <2>1, <2>2, CurFacts, BuiltFacts DEF CurI, Static
  <2>4. CurI.kind \notin NoLines
    BY <1>1, <2>3, IsKinds DEF Starting, Silent, NoLines
  <2>5. Len(Lines(ipc)) > 0
    <3>1. PICK i \in DOMAIN tac : i = ipc /\ tac[i].kind \in AllKinds /\ tac[i].kind \notin NoLines
      BY <2>3, <2>4, InstKinds
    <3>2. tac[i].kind # "DEREF"
      BY <2>1, BuiltFacts DEF Static, Supported
    <3>3. \/ tac[i].kind \in {"LABEL", "FUNCTION", "GOTO"} \/ tac[i].kind \in {"ASSIGN", "ADDR", "PARAM", "RETURN"}
          \/ tac[i].kind \in {"FETCH", "ARG"} \cup IfKinds \/ tac[i].kind \in {"ADD", "SUB", "MUL"}
          \/ tac[i].kind = "DIV" \/ tac[i].kind \in {"READ", "WRITE"} \/ tac[i].kind = "CALL"
      BY <3>1, <3>2 DEF AllKinds, NoLines, ArithKinds
    <3>4. Size \in Nat
      BY <2>1, BuiltFacts DEF Static
    <3>5. Len(Lines(i)) \in {1, 2, 3, 4, 5, 6, 4 * Size + 6}
      BY <2>1, <3>3, LineCounts
    <3>6. PICK n : n = Len(Lines(i)) /\ n \in {1, 2, 3, 4, 5, 6, 4 * Size + 6}
      BY <3>5
    <3>7. PICK m \in Nat : m = Size
      BY <3>4
    <3>8. n > 0
      BY <3>6, <3>7
    <3> QED
      BY <3>1, <3>6, <3>8
  <2>6. text[pc].of = ipc
    <3>1. text[Pos[ipc] + 0].of = ipc
      BY <2>1, <2>3, <2>5, LineAt DEF Static
    <3> QED
      BY <2>2, <3>1 DEF Fresh, Here
  <2>7. /\ reg["sp"] = Top(B) /\ printed = wrote /\ Values /\ Stack(B)
    BY <2>2 DEF Fresh, Steady, Sound
  <2>8. frames = <<>> => reg["sp"] = StackTop - 4 * Len(pending)
    <3>1. ASSUME frames = <<>> PROVE B[0] = StackTop
      <4>1. Len(frames) = 0
        BY <3>1
      <4> QED
        BY <2>7, <4>1 DEF Stack, Suspended
    <3> QED
      BY <2>7, <3>1 DEF Top
  <2> QED
    BY <2>6, <2>7, <2>8 DEF Values, Word, Stack
<1>2. ASSUME status = "halted"
      PROVE  Stopping
  BY <1>2 DEF BackInv
<1>3. ControlAgrees
  BY <1>1 DEF ControlAgrees
<1>4. VariablesAgree
  BY <1>1 DEF VariablesAgree
<1>5. OutputAgrees
  BY <1>1, <1>2 DEF OutputAgrees, Stopping
<1>6. StackBalanced
  <2>1. status = "halted" => reg["sp"] = StackTop - 4 * Len(pending) /\ DOMAIN pending = {}
    BY <1>2 DEF Stopping, StackTop
  <2> QED
    BY <1>1, <2>1 DEF StackBalanced
<1> QED
  BY <1>3, <1>4, <1>5, <1>6

-----------------------------------------------------------------------------
(* Of every supported list the machine that runs its assembly keeps to the  *)
(* three-address program: between two instructions, and after each line of  *)
(* one, it is in the state that instruction has brought it to.              *)
THEOREM Simulation ==
    ASSUME \A p \in Programs : Supported(p)
    PROVE  Spec => []BackInv
<1>1. BackInit => BackInv
  BY InitStep
<1>2. BackInv /\ [Next]_vars => BackInv'
  BY NextStep
<1> QED
  BY <1>1, <1>2, PTL DEF Spec

(* Whenever the machine starts the lines of an instruction it is the one    *)
(* the program is at: emit_goto, emit_if_*, emit_call and emit_return jump  *)
(* to where their instruction goes, however deep the calls are nested.      *)
THEOREM Control ==
    ASSUME \A p \in Programs : Supported(p)
    PROVE  Spec => []ControlAgrees
<1>1. BackInv => ControlAgrees
  BY AgreeLemma
<1> QED
  BY <1>1, Simulation, PTL

(* The words of .data hold the values of the variables of the activation    *)
(* that runs, although all activations, recursive ones too, share them:     *)
(* what emit_call saves before the jump it restores after it.               *)
THEOREM Variables ==
    ASSUME \A p \in Programs : Supported(p)
    PROVE  Spec => []VariablesAgree
<1>1. BackInv => VariablesAgree
  BY AgreeLemma
<1> QED
  BY <1>1, Simulation, PTL

(* The arguments emit_arg pushes lie in order on top of the stack until the *)
(* CALL that takes them, and a CALL gives back all it and its ARGs took.    *)
THEOREM Balance ==
    ASSUME \A p \in Programs : Supported(p)
    PROVE  Spec => []StackBalanced
<1>1. BackInv => StackBalanced
  BY AgreeLemma
<1> QED
  BY <1>1, Simulation, PTL

(* The assembly prints what the program writes, in the same order, and has  *)
(* printed all of it when it halts.                                         *)
THEOREM Output ==
    ASSUME \A p \in Programs : Supported(p)
    PROVE  Spec => []OutputAgrees
<1>1. BackInv => OutputAgrees
  BY AgreeLemma
<1> QED
  BY <1>1, Simulation, PTL

-----------------------------------------------------------------------------
(* The output is assembly: what BackInv takes from Assembles when it runs. *)

(* The first pass lists every variable it looks at.                        *)
AllListed ==
    \A i \in DOMAIN tac : tac[i].kind \in LookedAt /\ (gen = "collect" => i < cur) =>
        \A o \in OperandsOf(tac[i]) : o.kind = "OP_VARIABLE" => Contains(all_variables, o.char_val)

(* The operands of an instruction are operands.                            *)
LEMMA OperandsLemma ==
    ASSUME NEW t \in Inst, NEW o \in OperandsOf(t)
    PROVE  o \in Opd /\ (o.kind # "OP_CONSTANT" => o.char_val \in Var)
<1>1. o \in Opd
  BY DEF Inst, OperandsOf, Opd, ScalarOpd, ArithKinds, IfKinds
<1> QED
  BY <1>1 DEF Opd, ScalarOpd, VarOpd, PointerOpd

(* A step of the first pass lists the variables of its instruction.        *)
LEMMA CollectsOperands ==
    ASSUME NEW list \in Seq(Var), NEW t \in Inst, t.kind \in LookedAt, NEW o \in OperandsOf(t), o.kind = "OP_VARIABLE"
    PROVE  Contains(Collected(list, t), o.char_val)
<1>1. o.char_val \in Var
  BY OperandsLemma
<1>2. CASE t.kind = "ASSIGN"
  <2>1. o \in {t.left, t.right}
    BY <1>2 DEF OperandsOf, ArithKinds
  <2> QED
    BY <1>2, <2>1, CollectedLemma
<1>3. CASE t.kind \in ArithKinds
  <2>1. o \in {t.left, t.r1, t.r2}
    BY <1>3 DEF OperandsOf
  <2>2. t.left \in Opd /\ t.r1 \in Opd /\ t.r2 \in Opd
    BY <1>3, InstLemma
  <2>3. PICK one : one = AddOperand(list, t.left)
    OBVIOUS
  <2>4. one \in Seq(Var) /\ (o = t.left => Contains(one, o.char_val))
    BY <2>2, <2>3, AddOperandLemma
  <2>5. PICK two : two = AddOperand(one, t.r1)
    OBVIOUS
  <2>6. two \in Seq(Var) /\ (o = t.left \/ o = t.r1 => Contains(two, o.char_val))
    BY <1>1, <2>2, <2>4, <2>5, AddOperandLemma
  <2>7. Contains(AddOperand(two, t.r2), o.char_val)
    BY <1>1, <2>1, <2>2, <2>6, AddOperandLemma
  <2>8. Collected(list, t) = AddOperand(two, t.r2)
    BY <1>3, <2>3, <2>5 DEF Collected, ArithKinds
  <2> QED
    BY <2>7, <2>8
<1>4. CASE t.kind \in {"READ", "WRITE"}
  <2>1. o = t.var /\ Collected(list, t) = AddOperand(list, t.var)
    BY <1>4 DEF OperandsOf, Collected, ArithKinds, IfKinds
  <2> QED
    BY <1>4, <2>1, InstLemma, AddOperandLemma
<1>5. CASE t.kind = "CALL"
  <2>1. o = t.ret /\ Collected(list, t) = AddOperand(list, t.ret)
    BY <1>5 DEF OperandsOf, Collected, ArithKinds, IfKinds
  <2> QED
    BY <1>5, <2>1, InstLemma, AddOperandLemma
<1> QED
  BY <1>2, <1>3, <1>4, <1>5 DEF LookedAt

LEMMA ListedInit == Init => AllListed
BY ProgramsAssumption DEF Init, AllListed

(* No later step takes a name out of the list.                             *)
LEMMA ListedStep ==
    ASSUME IInv, AllListed, [GenNext]_gvars
    PROVE  AllListed'
<1>1. CASE Collect
  <2>1. /\ tac \in Seq(Inst) /\ tac' = tac /\ cur \in 1..Len(tac) /\ cur' = cur + 1
        /\ gen = "collect" /\ gen' = gen
        /\ all_variables \in Seq(Var) /\ all_variables' = Collected(all_variables, tac[cur])
        /\ tac[cur] \in Inst
    BY <1>1 DEF Collect, IInv, GenTypeOK
  <2>2. SUFFICES ASSUME NEW i \in DOMAIN tac, tac[i].kind \in LookedAt, i < cur + 1,
                        NEW o \in OperandsOf(tac[i]), o.kind = "OP_VARIABLE"
                 PROVE  Contains(all_variables', o.char_val)
    BY <2>1 DEF AllListed
  <2>3. CASE i = cur
    BY <2>1, <2>2, <2>3, CollectsOperands
  <2>4. CASE i # cur
    <3>1. i < cur /\ tac[i] \in Inst
      BY <2>1, <2>2, <2>4
    <3>2. Contains(all_variables, o.char_val) /\ o.char_val \in Var
      BY <2>1, <2>2, <3>1, OperandsLemma DEF AllListed
    <3> QED
      BY <2>1, <3>2, CollectedLemma
  <2> QED
    BY <2>3, <2>4
<1>2. CASE Prologue
  <2>1. /\ all_variables' = all_variables /\ gen = "collect" /\ tac' = tac
        /\ \A i \in DOMAIN tac : i < cur
    BY <1>2 DEF Prologue, IInv, GenTypeOK
  <2> QED
    BY <2>1 DEF AllListed
<1>3. CASE GenNext /\ gen = "emit"
  <2>1. UNCHANGED all_variables
    BY <1>3, KeepsList
  <2>2. UNCHANGED tac
    BY <1>3 DEF GenNext, Collect, Prologue, EmitLabel, EmitFunction, EmitAssign, EmitArith, EmitAddr, EmitFetch, EmitDeref,
                EmitGoto, EmitIf, EmitReturn, EmitDec, EmitArg, EmitCall, EmitParam, EmitRead, EmitWrite, SkipNone, Finish, Out
  <2> QED
    BY <1>3, <2>1, <2>2 DEF AllListed
<1>4. CASE UNCHANGED gvars
  BY <1>4 DEF gvars, AllListed
<1>5. GenNext => Collect \/ Prologue \/ gen = "emit"
  BY DEF GenNext, EmitLabel, EmitFunction, EmitAssign, EmitArith, EmitAddr, EmitFetch, EmitDeref,
         EmitGoto, EmitIf, EmitReturn, EmitDec, EmitArg, EmitCall, EmitParam, EmitRead, EmitWrite, SkipNone, Finish, At
<1> QED
  BY <1>1, <1>2, <1>3, <1>4, <1>5

-----------------------------------------------------------------------------
(* What the assembler accepts.                                             *)
Marked(l) == \E k \in Marks : text[k].ins.lab = l
Plain(ins) == Accepted(ins) /\ ins.op # "label"

(* A line is accepted if the names in it are declared.                     *)
LEMMA AcceptedForms ==
    ASSUME NEW d, NEW s, NEW t, NEW n, NEW b, NEW x, NEW l
    PROVE  /\ Plain(Li(d, n)) /\ Plain(Move(d, s)) /\ Plain(Lw(d, n, b)) /\ Plain(Sw(s, n, b))
           /\ Plain(Addi(d, s, n)) /\ Plain(Jr) /\ Plain(Syscall(n)) /\ Accepted(Mark(l))
           /\ \A o \in AluOps : Plain(Alu(o, d, s, t))
           /\ Listed(x) => Plain(La(d, x)) /\ Plain(Lwl(d, x)) /\ Plain(Swl(s, x))
           /\ Marked(l) => Plain(J(l)) /\ Plain(Jal(l)) /\ \A o \in BranchOps : Plain(Branch(o, s, t, l))
<1>1. Plain(Li(d, n)) /\ Plain(Move(d, s)) /\ Plain(Lw(d, n, b)) /\ Plain(Sw(s, n, b))
  BY DEF Plain, Accepted, Li, Move, Lw, Sw, DataOps, CodeOps, BranchOps
<1>2. Plain(Addi(d, s, n)) /\ Plain(Jr) /\ Plain(Syscall(n)) /\ Accepted(Mark(l))
  BY DEF Plain, Accepted, Addi, Jr, Syscall, Mark, DataOps, CodeOps, BranchOps
<1>3. \A o \in AluOps : Plain(Alu(o, d, s, t))
  BY DEF Plain, Accepted, Alu, AluOps, DataOps, CodeOps, BranchOps
<1>4. Listed(x) => Plain(La(d, x)) /\ Plain(Lwl(d, x)) /\ Plain(Swl(s, x))
  BY DEF Plain, Accepted, Listed, La, Lwl, Swl, DataOps, CodeOps, BranchOps
<1>5. Marked(l) => Plain(J(l)) /\ Plain(Jal(l)) /\ \A o \in BranchOps : Plain(Branch(o, s, t, l))
  BY DEF Plain, Accepted, Marked, J, Jal, Branch, DataOps, CodeOps, BranchOps
<1> QED
  BY <1>1, <1>2, <1>3, <1>4, <1>5

(* So is the line that loads an operand.                                   *)
LEMMA AcceptedLoad ==
    ASSUME NEW o \in ScalarOpd, o.kind # "OP_CONSTANT" => Listed(o.char_val), NEW r
    PROVE  /\ Plain(Load(o, r))
           /\ Plain(IF o.kind = "OP_CONSTANT" THEN Li(r, o.int_val) ELSE Lwl(r, o.char_val))
<1>1. CASE o.kind = "OP_CONSTANT"
  <2>1. Load(o, r) \in {Move(r, "zero"), Li(r, o.int_val)}
    BY <1>1 DEF Load
  <2>2. Plain(Move(r, "zero")) /\ Plain(Li(r, o.int_val))
    BY AcceptedForms
  <2> QED
    BY <1>1, <2>1, <2>2
<1>2. CASE o.kind # "OP_CONSTANT"
  <2>1. o.kind = "OP_VARIABLE"
    BY <1>2 DEF ScalarOpd, VarOpd
  <2>2. Load(o, r) = Lwl(r, o.char_val)
    BY <2>1 DEF Load
  <2>3. Plain(Lwl(r, o.char_val))
    BY <1>2, AcceptedForms
  <2> QED
    BY <1>2, <2>2, <2>3
<1> QED
  BY <1>1, <1>2

(* The lines of short instructions, one by one.                            *)
LEMMA PlainTuples ==
    ASSUME NEW a, NEW b, NEW c, NEW d, NEW e, NEW f, NEW o \in Nat
    PROVE  /\ Plain(a) /\ o < Len(<<a>>) => Plain(<<a>>[o + 1])
           /\ Plain(a) /\ Plain(b) /\ o < Len(<<a, b>>) => Plain(<<a, b>>[o + 1])
           /\ Plain(a) /\ Plain(b) /\ Plain(c) /\ o < Len(<<a, b, c>>) => Plain(<<a, b, c>>[o + 1])
           /\ Plain(a) /\ Plain(b) /\ Plain(c) /\ Plain(d) /\ o < Len(<<a, b, c, d>>) => Plain(<<a, b, c, d>>[o + 1])
           /\ Plain(a) /\ Plain(b) /\ Plain(c) /\ Plain(d) /\ Plain(e) /\ o < Len(<<a, b, c, d, e>>) =>
                Plain(<<a, b, c, d, e>>[o + 1])
           /\ Plain(a) /\ Plain(b) /\ Plain(c) /\ Plain(d) /\ Plain(e) /\ Plain(f) /\ o < Len(<<a, b, c, d, e, f>>) =>
                Plain(<<a, b, c, d, e, f>>[o + 1])
<1>1. CASE o = 0
  BY <1>1
<1>2. CASE o = 1
  BY <1>2
<1>3. CASE o = 2
  BY <1>3
<1>4. CASE o = 3
  BY <1>4
<1>5. CASE o = 4
  BY <1>5
<1>6. CASE o = 5
  BY <1>6
<1>7. CASE o >= 6
  BY <1>7
<1> QED
  BY <1>1, <1>2, <1>3, <1>4, <1>5, <1>6, <1>7

(* A number below 2n is one of a pair.                                     *)
LEMMA Halves ==
    ASSUME NEW n \in Nat, NEW k \in Nat, k < 2 * n
    PROVE  \E m \in 0..n - 1 : k = 2 * m \/ k = 2 * m + 1
<1>1. k \div 2 \in 0..n - 1 /\ (k = 2 * (k \div 2) \/ k = 2 * (k \div 2) + 1)
  OBVIOUS
<1> QED
  BY <1>1

Settled == Built /\ AllListed /\ Declared(tac)

(* The operands in the lines are constants or have their words.            *)
LEMMA OperandListed ==
    ASSUME Settled, NEW i \in DOMAIN tac, NEW o \in OperandsOf(tac[i])
    PROVE  /\ o.kind # "OP_CONSTANT" => Listed(o.char_val)
           /\ o \in Opd /\ (tac[i].kind # "ADDR" => o \in ScalarOpd)
<1>1. tac[i] \in Inst /\ gen = "done" /\ all_variables = data
  BY BuiltFacts DEF Settled, Built
<1>2. o \in Opd
  BY <1>1, OperandsLemma
<1>3. tac[i].kind # "ADDR" => o \in ScalarOpd
  <2>1. tac[i].kind # "ADDR" => o.kind # "OP_POINTER"
    BY DEF Settled, Declared
  <2> QED
    BY <1>2, <2>1 DEF Opd, PointerOpd
<1>4. ASSUME o.kind # "OP_CONSTANT" PROVE Listed(o.char_val)
  <2>1. PICK j \in DOMAIN tac : tac[j].kind \in LookedAt /\ V(o.char_val) \in OperandsOf(tac[j])
    BY <1>4 DEF Settled, Declared
  <2>2. V(o.char_val).kind = "OP_VARIABLE" /\ V(o.char_val).char_val = o.char_val
    BY DEF V
  <2>3. Contains(data, o.char_val)
    BY <1>1, <2>1, <2>2 DEF Settled, AllListed
  <2> QED
    BY <2>3, BuiltFacts DEF Contains, Listed, Settled
<1> QED
  BY <1>2, <1>3, <1>4

(* Labels, functions and routines are declared at the first of their lines.*)
LEMMA DeclaredAt ==
    ASSUME Built, NEW i \in DOMAIN tac, tac[i].kind \in {"LABEL", "FUNCTION"}
    PROVE  /\ Pos[i] \in Marks /\ text[Pos[i]].ins = Mark(MarkOf(tac[i])) /\ Lines(i) = <<Mark(MarkOf(tac[i]))>>
           /\ Marked(MarkOf(tac[i]))
<1>1. Lines(i) = <<Mark(MarkOf(tac[i]))>>
  BY MarkLines DEF MarkOf
<1>2. Len(Lines(i)) = 1 /\ Lines(i)[1] = Mark(MarkOf(tac[i]))
  BY <1>1
<1>3. Pos[i] \in Nat
  <2>1. i \in 1..Len(tac) + 1
    BY BuiltFacts
  <2> QED
    BY <2>1, PosFacts
<1>4. Pos[i] + 0 \in DOMAIN text /\ text[Pos[i] + 0].ins = Lines(i)[0 + 1]
  <2>1. 0 < Len(Lines(i)) /\ 0 \in Nat
    BY <1>2
  <2> QED
    BY <2>1, LineAt
<1>5. Pos[i] \in DOMAIN text /\ text[Pos[i]].ins = Mark(MarkOf(tac[i]))
  BY <1>2, <1>3, <1>4
<1> QED
  BY <1>1, <1>5 DEF Marks, Marked, Mark

(* The routines of the runtime are marked, and no other of their lines is. *)
LEMMA RuntimeMarks ==
    ASSUME Built
    PROVE  /\ Marked("read") /\ Marked("write") /\ text[1].ins = Mark("read") /\ text[5].ins = Mark("write")
           /\ \A k \in 1..9 : Accepted(text[k].ins) /\ (text[k].ins.op = "label" => k \in {1, 5})
<1>1. /\ text[1].ins = Mark("read") /\ text[2].ins = Syscall(4) /\ text[3].ins = Syscall(5) /\ text[4].ins = Jr
      /\ text[5].ins = Mark("write") /\ text[6].ins = Syscall(1) /\ text[7].ins = Syscall(4)
      /\ text[8].ins = Move("v0", "zero") /\ text[9].ins = Jr
  <2>1. \A k \in {1, 2, 3, 4, 5, 6, 7, 8, 9} : text[k] = Runtime[k]
    BY PosFacts
  <2> QED
    BY <2>1, RuntimeLemma
<1>2. 1 \in DOMAIN text /\ 5 \in DOMAIN text
  BY PosFacts
<1>3. Marked("read") /\ Marked("write")
  BY <1>1, <1>2 DEF Marked, Marks, Mark
<1>4. \A k \in {1, 5} : Accepted(text[k].ins)
  BY <1>1, AcceptedForms
<1>5. \A k \in {2, 3, 4, 6, 7, 8, 9} : Plain(text[k].ins)
  BY <1>1, AcceptedForms
<1>6. \A k \in 1..9 : k \in {1, 5} \/ k \in {2, 3, 4, 6, 7, 8, 9}
  OBVIOUS
<1> QED
  BY <1>1, <1>3, <1>4, <1>5, <1>6 DEF Plain

(* The lines of a CALL.                                                    *)
LEMMA PlainCall ==
    ASSUME Settled, NEW i \in DOMAIN tac, tac[i].kind = "CALL", NEW o \in Nat, o < Len(Lines(i))
    PROVE  Plain(Lines(i)[o + 1])
<1>1. PICK n \in Nat : n = Len(all_variables) /\ all_variables_count = n /\ n = Size
  BY BuiltFacts DEF Settled, Size
<1>2. Listed(tac[i].ret.char_val)
  <2>1. tac[i].ret \in OperandsOf(tac[i])
    BY DEF OperandsOf, ArithKinds, IfKinds
  <2>2. tac[i] \in Inst
    BY BuiltFacts DEF Settled
  <2>3. tac[i].ret.kind = "OP_VARIABLE"
    BY <2>2 DEF Inst, VarOpd, ArithKinds, IfKinds
  <2> QED
    BY <2>1, <2>3, OperandListed
<1>3. Marked(tac[i].funcname)
  <2>1. PICK j \in DOMAIN tac : tac[j] = Function(tac[i].funcname)
    BY BuiltFacts DEF Settled, Supported
  <2>2. tac[j].kind = "FUNCTION" /\ MarkOf(tac[j]) = tac[i].funcname
    BY <2>1 DEF Function, MarkOf
  <2> QED
    BY <2>2, DeclaredAt DEF Settled
<1>4. \A m \in 0..n - 1 : Listed(all_variables[m + 1])
  <2>1. all_variables = data /\ DOMAIN data = 1..n
    BY <1>1, BuiltFacts DEF Settled
  <2>2. \A m \in 0..n - 1 : m + 1 \in 1..n
    OBVIOUS
  <2> QED
    BY <2>1, <2>2 DEF Listed
<1>5. Len(Lines(i)) = 4 * n + 6
  BY <1>1, CallLines
<1>6. CASE o = 0
  <2>1. Lines(i)[1] = Addi("sp", "sp", -(4 * n + 4))
    BY <1>1, CallLines
  <2> QED
    BY <1>6, <2>1, AcceptedForms
<1>7. CASE o \in 1..2 * n
  <2>1. PICK m \in 0..n - 1 : o - 1 = 2 * m \/ o - 1 = 2 * m + 1
    <3>1. o - 1 \in Nat /\ o - 1 < 2 * n
      BY <1>7
    <3> QED
      BY <3>1, Halves
  <2>2. Lines(i)[2 + 2 * m] = Lwl("t0", all_variables[m + 1]) /\ Lines(i)[3 + 2 * m] = Sw("t0", 4 * m, "sp")
    <3>1. \A h \in 0..n - 1 : /\ Lines(i)[2 + 2 * h] = Lwl("t0", all_variables[h + 1])
                             /\ Lines(i)[3 + 2 * h] = Sw("t0", 4 * h, "sp")
      BY <1>1, CallLines
    <3> QED
      BY <3>1
  <2>3. Plain(Lwl("t0", all_variables[m + 1])) /\ Plain(Sw("t0", 4 * m, "sp"))
    BY <1>4, AcceptedForms
  <2>4. o + 1 = 2 + 2 * m \/ o + 1 = 3 + 2 * m
    BY <1>7, <2>1
  <2> QED
    BY <2>2, <2>3, <2>4
<1>8. CASE o = 2 * n + 1
  <2>1. Lines(i)[2 * n + 2] = Sw("ra", 4 * n, "sp")
    BY <1>1, CallLines
  <2>2. o + 1 = 2 * n + 2
    BY <1>8
  <2> QED
    BY <2>1, <2>2, AcceptedForms
<1>9. CASE o = 2 * n + 2
  <2>1. Lines(i)[2 * n + 3] = Jal(tac[i].funcname)
    BY <1>1, CallLines
  <2>2. o + 1 = 2 * n + 3
    BY <1>9
  <2> QED
    BY <1>3, <2>1, <2>2, AcceptedForms
<1>10. CASE o \in 2 * n + 3..4 * n + 2
  <2>1. PICK m \in 0..n - 1 : o - (2 * n + 3) = 2 * m \/ o - (2 * n + 3) = 2 * m + 1
    <3>1. o - (2 * n + 3) \in Nat /\ o - (2 * n + 3) < 2 * n
      BY <1>10
    <3> QED
      BY <3>1, Halves
  <2>2. /\ Lines(i)[2 * n + 4 + 2 * m] = Lw("t0", 4 * m, "sp")
        /\ Lines(i)[2 * n + 5 + 2 * m] = Swl("t0", all_variables[m + 1])
    BY <1>1, CallLines
  <2>3. Plain(Lw("t0", 4 * m, "sp")) /\ Plain(Swl("t0", all_variables[m + 1]))
    BY <1>4, AcceptedForms
  <2>4. o + 1 = 2 * n + 4 + 2 * m \/ o + 1 = 2 * n + 5 + 2 * m
    BY <1>10, <2>1
  <2> QED
    BY <2>2, <2>3, <2>4
<1>11. CASE o \in {4 * n + 3, 4 * n + 4, 4 * n + 5}
  <2>1. /\ Lines(i)[4 * n + 4] = Lw("ra", 4 * n, "sp")
        /\ Lines(i)[4 * n + 5] = Addi("sp", "sp", 4 * n + 4 + 4 * ArgsBefore[i])
        /\ Lines(i)[4 * n + 6] = Swl("v0", tac[i].ret.char_val)
    BY <1>1, CallLines
  <2>2. Plain(Lw("ra", 4 * n, "sp")) /\ Plain(Addi("sp", "sp", 4 * n + 4 + 4 * ArgsBefore[i]))
    BY AcceptedForms
  <2>3. Plain(Swl("v0", tac[i].ret.char_val))
    BY <1>2, AcceptedForms
  <2>4. o + 1 = 4 * n + 4 \/ o + 1 = 4 * n + 5 \/ o + 1 = 4 * n + 6
    BY <1>11
  <2> QED
    BY <2>1, <2>2, <2>3, <2>4
<1>12. \/ o = 0 \/ o \in 1..2 * n \/ o = 2 * n + 1 \/ o = 2 * n + 2 \/ o \in 2 * n + 3..4 * n + 2
       \/ o \in {4 * n + 3, 4 * n + 4, 4 * n + 5}
  BY <1>5
<1> QED
  BY <1>6, <1>7, <1>8, <1>9, <1>10, <1>11, <1>12

(* The lines of an instruction that declares nothing.                      *)
LEMMA PlainLines ==
    ASSUME Settled, NEW i \in DOMAIN tac, tac[i].kind \notin {"LABEL", "FUNCTION"}, NEW o \in Nat, o < Len(Lines(i))
    PROVE  Plain(Lines(i)[o + 1])
<1> DEFINE t == tac[i]
<1>1. t \in Inst /\ t.kind \in AllKinds /\ Supported(tac)
  BY BuiltFacts, InstKinds DEF Settled
<1>2. \A p \in OperandsOf(t) : p.kind # "OP_CONSTANT" => Listed(p.char_val)
  BY OperandListed
<1>3. t.kind # "ADDR" => \A p \in OperandsOf(t) : p \in ScalarOpd
  BY OperandListed
<1>4. \A p \in VarOpd : p.kind # "OP_CONSTANT"
  BY DEF VarOpd
<1>5. \A r : \A p \in OperandsOf(t) : t.kind # "ADDR" =>
        /\ Plain(Load(p, r))
        /\ Plain(IF p.kind = "OP_CONSTANT" THEN Li(r, p.int_val) ELSE Lwl(r, p.char_val))
  BY <1>2, <1>3, AcceptedLoad
<1>6. CASE t.kind \in NoLines
  <2>1. Len(Lines(i)) = 0
    BY <1>6, MarkLines
  <2> QED
    BY <2>1
<1>7. CASE t.kind = "GOTO"
  <2>1. PICK j \in DOMAIN tac : tac[j] = Label(t.labelno)
    BY <1>1, <1>7 DEF Supported
  <2>2. tac[j].kind = "LABEL" /\ MarkOf(tac[j]) = t.labelno
    BY <2>1 DEF Label, MarkOf
  <2>3. Plain(J(t.labelno))
    BY <2>2, DeclaredAt, AcceptedForms DEF Settled
  <2>4. Lines(i) = <<J(t.labelno)>>
    BY <1>7, MarkLines
  <2> QED
    BY <2>3, <2>4, PlainTuples
<1>8. CASE t.kind \in {"ASSIGN", "ADDR", "FETCH"}
  <2>1. t.left \in OperandsOf(t) /\ t.left \in VarOpd
    BY <1>1, <1>8 DEF OperandsOf, Inst, ArithKinds, IfKinds
  <2>2. \A r : Plain(Swl(r, t.left.char_val))
    BY <1>2, <1>4, <2>1, AcceptedForms
  <2>3. CASE t.kind = "ASSIGN"
    <3>1. t.right \in OperandsOf(t)
      BY <2>3 DEF OperandsOf, ArithKinds
    <3>2. Plain(Load(t.right, "t0"))
      BY <1>5, <2>3, <3>1
    <3>3. Lines(i) = <<Load(t.right, "t0"), Swl("t0", t.left.char_val)>>
      BY <2>3, MoveLines
    <3> QED
      BY <2>2, <3>2, <3>3, PlainTuples
  <2>4. CASE t.kind = "ADDR"
    <3>1. t.right \in OperandsOf(t) /\ t.right.kind # "OP_CONSTANT"
      BY <1>1, <2>4 DEF OperandsOf, Inst, PointerOpd, ArithKinds, IfKinds
    <3>2. Plain(La("t0", t.right.char_val))
      BY <1>2, <3>1, AcceptedForms
    <3>3. Lines(i) = <<La("t0", t.right.char_val), Swl("t0", t.left.char_val)>>
      BY <2>4, MoveLines
    <3> QED
      BY <2>2, <3>2, <3>3, PlainTuples
  <2>5. CASE t.kind = "FETCH"
    <3>1. t.raddr \in OperandsOf(t) /\ t.raddr \in VarOpd
      BY <1>1, <2>5 DEF OperandsOf, Inst, ArithKinds, IfKinds
    <3>2. Plain(Lwl("t0", t.raddr.char_val)) /\ Plain(Lw("t1", 0, "t0"))
      BY <1>2, <1>4, <3>1, AcceptedForms
    <3>3. Lines(i) = <<Lwl("t0", t.raddr.char_val), Lw("t1", 0, "t0"), Swl("t1", t.left.char_val)>>
      BY <2>5, MoveLines
    <3> QED
      BY <2>2, <3>2, <3>3, PlainTuples
  <2> QED
    BY <1>8, <2>3, <2>4, <2>5
<1>9. CASE t.kind \in ArithKinds
  <2>1. OperandsOf(t) = {t.left, t.r1, t.r2} /\ t.left \in VarOpd
    BY <1>1, <1>9 DEF OperandsOf, Inst, ArithKinds, IfKinds
  <2>2. Plain(Swl("t2", t.left.char_val))
    BY <1>2, <1>4, <2>1, AcceptedForms
  <2>3. Plain(Load(t.r1, "t0")) /\ Plain(Load(t.r2, "t1"))
    BY <1>5, <1>9, <2>1 DEF ArithKinds
  <2>4. \A op \in {"add", "sub", "mul"} : Plain(Alu(op, "t2", "t0", "t1"))
    BY AcceptedForms DEF AluOps
  <2>5. Plain(Alu("div", "lo", "t0", "t1")) /\ Plain(Move("t2", "lo"))
    BY AcceptedForms DEF AluOps
  <2>6. CASE t.kind = "DIV"
    <3>1. Lines(i) = <<Load(t.r1, "t0"), Load(t.r2, "t1"), Alu("div", "lo", "t0", "t1"), Move("t2", "lo"),
                       Swl("t2", t.left.char_val)>>
      BY <2>6, ArithLines
    <3> QED
      BY <2>2, <2>3, <2>5, <3>1, PlainTuples
  <2>7. CASE t.kind # "DIV"
    <3>1. PICK op \in {"add", "sub", "mul"} :
            Lines(i) = <<Load(t.r1, "t0"), Load(t.r2, "t1"), Alu(op, "t2", "t0", "t1"), Swl("t2", t.left.char_val)>>
      BY <1>9, <2>7, ArithLines DEF ArithKinds
    <3> QED
      BY <2>2, <2>3, <2>4, <3>1, PlainTuples
  <2> QED
    BY <2>6, <2>7
<1>10. CASE t.kind \in IfKinds
  <2>1. OperandsOf(t) = {t.c1, t.c2}
    BY <1>10 DEF OperandsOf, ArithKinds, IfKinds
  <2>2. Plain(Load(t.c1, "t0")) /\ Plain(Load(t.c2, "t1"))
    BY <1>5, <1>10, <2>1 DEF IfKinds
  <2>3. PICK j \in DOMAIN tac : tac[j] = Label(t.labelno)
    BY <1>1, <1>10 DEF Supported
  <2>4. tac[j].kind = "LABEL" /\ MarkOf(tac[j]) = t.labelno
    BY <2>3 DEF Label, MarkOf
  <2>5. BranchOp[t.kind] \in BranchOps
    BY <1>10 DEF BranchOp, BranchOps, IfKinds
  <2>6. Plain(Branch(BranchOp[t.kind], "t0", "t1", t.labelno))
    BY <2>4, <2>5, DeclaredAt, AcceptedForms DEF Settled
  <2>7. Lines(i) = <<Load(t.c1, "t0"), Load(t.c2, "t1"), Branch(BranchOp[t.kind], "t0", "t1", t.labelno)>>
    BY <1>10, BranchLines
  <2> QED
    BY <2>2, <2>6, <2>7, PlainTuples
<1>11. CASE t.kind \in {"RETURN", "ARG", "PARAM", "READ", "WRITE"}
  <2>1. OperandsOf(t) = {t.var}
    BY <1>11 DEF OperandsOf, ArithKinds, IfKinds
  <2>2. \A r : /\ Plain(Load(t.var, r))
               /\ Plain(IF t.var.kind = "OP_CONSTANT" THEN Li(r, t.var.int_val) ELSE Lwl(r, t.var.char_val))
    BY <1>5, <1>11, <2>1
  <2>3. Plain(Jr) /\ Plain(Addi("sp", "sp", -4)) /\ Plain(Addi("sp", "sp", 4)) /\ Plain(Sw("t0", 0, "sp"))
    BY AcceptedForms
  <2>4. Plain(Sw("ra", 0, "sp")) /\ Plain(Lw("ra", 0, "sp"))
    BY AcceptedForms
  <2>5. Plain(Jal("read")) /\ Plain(Jal("write"))
    BY RuntimeMarks, AcceptedForms DEF Settled
  <2>6. t.kind \in {"PARAM", "READ"} => \A r : Plain(Swl(r, t.var.char_val))
    <3>1. t.kind \in {"PARAM", "READ"} => t.var \in VarOpd
      BY <1>1 DEF Inst, ArithKinds, IfKinds
    <3> QED
      BY <1>2, <1>4, <2>1, <3>1, AcceptedForms
  <2>7. CASE t.kind = "RETURN"
    <3>1. Lines(i) = <<IF t.var.kind = "OP_CONSTANT" THEN Li("v0", t.var.int_val) ELSE Lwl("v0", t.var.char_val), Jr>>
      BY <2>7, BranchLines
    <3> QED
      BY <2>2, <2>3, <3>1, PlainTuples
  <2>8. CASE t.kind = "ARG"
    <3>1. Lines(i) = <<Load(t.var, "t0"), Addi("sp", "sp", -4), Sw("t0", 0, "sp")>>
      BY <2>8, MoveLines
    <3> QED
      BY <2>2, <2>3, <3>1, PlainTuples
  <2>9. CASE t.kind = "PARAM"
    <3>1. Lines(i) = <<Lw("t0", 4 * ParamsBefore[i] + FrameSize, "sp"), Swl("t0", t.var.char_val)>>
      BY <2>9, MoveLines
    <3>2. Plain(Lw("t0", 4 * ParamsBefore[i] + FrameSize, "sp"))
      BY AcceptedForms
    <3> QED
      BY <2>6, <2>9, <3>1, <3>2, PlainTuples
  <2>10. CASE t.kind = "READ"
    <3>1. Lines(i) = <<Addi("sp", "sp", -4), Sw("ra", 0, "sp"), Jal("read"), Lw("ra", 0, "sp"), Addi("sp", "sp", 4),
                       Swl("v0", t.var.char_val)>>
      BY <2>10, RoutineLines
    <3> QED
      BY <2>3, <2>4, <2>5, <2>6, <2>10, <3>1, PlainTuples
  <2>11. CASE t.kind = "WRITE"
    <3>1. Lines(i) = <<IF t.var.kind = "OP_CONSTANT" THEN Li("a0", t.var.int_val) ELSE Lwl("a0", t.var.char_val),
                       Addi("sp", "sp", -4), Sw("ra", 0, "sp"), Jal("write"), Lw("ra", 0, "sp"), Addi("sp", "sp", 4)>>
      BY <2>11, RoutineLines
    <3> QED
      BY <2>2, <2>3, <2>4, <2>5, <3>1, PlainTuples
  <2> QED
    BY <1>11, <2>7, <2>8, <2>9, <2>10, <2>11
<1>12. CASE t.kind = "CALL"
  BY <1>12, PlainCall
<1>13. t.kind # "DEREF"
  BY <1>1 DEF Supported
<1> QED
  BY <1>1, <1>6, <1>7, <1>8, <1>9, <1>10, <1>11, <1>12, <1>13 DEF AllKinds, NoLines

(* A line is accepted, and if it is a mark it is where its name is declared.*)
LEMMA EveryLine ==
    ASSUME Settled, NEW k \in DOMAIN text
    PROVE  /\ Accepted(text[k].ins)
           /\ text[k].ins.op = "label" =>
                \/ k \in {1, 5}
                \/ \E i \in DOMAIN tac : tac[i].kind \in {"LABEL", "FUNCTION"} /\ k = Pos[i]
<1>1. k \in Nat /\ k >= 1
  <2>1. DOMAIN text = 1..Len(text) /\ Len(text) \in Nat
    BY BuiltFacts DEF Settled
  <2> QED
    BY <2>1
<1>2. CASE k <= 9
  <2>1. k \in 1..9
    BY <1>1, <1>2
  <2> QED
    BY <2>1, RuntimeMarks DEF Settled
<1>3. CASE k > 9
  <2>1. PICK i \in DOMAIN tac : i = text[k].of /\ Pos[i] <= k /\ k < Pos[i + 1]
    BY <1>3, PosFacts DEF Settled
  <2>2. Pos[i] \in Nat /\ Len(Lines(i)) \in Nat /\ Pos[i + 1] = Pos[i] + Len(Lines(i))
    <3>1. i \in 1..Len(tac) + 1
      BY BuiltFacts DEF Settled
    <3> QED
      BY <3>1, PosFacts DEF Settled
  <2>3. PICK o \in Nat : k = Pos[i] + o /\ o < Len(Lines(i))
    <3>1. k - Pos[i] \in Nat /\ k = Pos[i] + (k - Pos[i]) /\ k - Pos[i] < Len(Lines(i))
      BY <1>1, <2>1, <2>2
    <3> QED
      BY <3>1
  <2>4. text[k].ins = Lines(i)[o + 1]
    BY <2>3, LineAt DEF Settled
  <2>5. CASE tac[i].kind \in {"LABEL", "FUNCTION"}
    <3>1. Lines(i) = <<Mark(MarkOf(tac[i]))>>
      BY <2>5, DeclaredAt DEF Settled
    <3>2. o = 0 /\ Lines(i)[1] = Mark(MarkOf(tac[i]))
      BY <2>3, <3>1
    <3>3. Accepted(text[k].ins)
      BY <2>4, <3>2, AcceptedForms
    <3>4. k = Pos[i]
      BY <2>2, <2>3, <3>2
    <3> QED
      BY <2>5, <3>3, <3>4
  <2>6. CASE tac[i].kind \notin {"LABEL", "FUNCTION"}
    BY <2>3, <2>4, <2>6, PlainLines DEF Plain
  <2> QED
    BY <2>5, <2>6
<1> QED
  BY <1>1, <1>2, <1>3

(* The assembler takes the text.                                           *)
LEMMA BuiltAssembles ==
    ASSUME Settled
    PROVE  Assembles
<1>1. \A k \in DOMAIN text : Accepted(text[k].ins)
  BY EveryLine
<1>2. \A j, k \in DOMAIN data : data[j] = data[k] => j = k
  BY BuiltFacts DEF Settled
<1>3. ASSUME NEW j \in Marks, NEW k \in Marks, text[j].ins.lab = text[k].ins.lab
      PROVE  j = k
  <2>1. \A i \in DOMAIN tac : tac[i].kind \in {"LABEL", "FUNCTION"} => text[Pos[i]].ins.lab = MarkOf(tac[i])
    <3>1. \A i \in DOMAIN tac : tac[i].kind \in {"LABEL", "FUNCTION"} => text[Pos[i]].ins = Mark(MarkOf(tac[i]))
      BY DeclaredAt DEF Settled
    <3>2. \A l : Mark(l).lab = l
      BY DEF Mark
    <3> QED
      BY <3>1, <3>2
  <2>2. text[1].ins.lab = "read" /\ text[5].ins.lab = "write"
    BY RuntimeMarks DEF Settled, Mark
  <2>3. \A i \in DOMAIN tac : tac[i].kind \in {"LABEL", "FUNCTION"} =>
          /\ MarkOf(tac[i]) # "read" /\ MarkOf(tac[i]) # "write"
          /\ \A h \in DOMAIN tac :
                tac[h].kind \in {"LABEL", "FUNCTION"} /\ MarkOf(tac[h]) = MarkOf(tac[i]) => h = i
    BY DEF Settled, Declared
  <2>4. \/ j = 1 \/ j = 5
        \/ \E i \in DOMAIN tac : tac[i].kind \in {"LABEL", "FUNCTION"} /\ j = Pos[i]
    BY EveryLine DEF Marks
  <2>5. \/ k = 1 \/ k = 5
        \/ \E i \in DOMAIN tac : tac[i].kind \in {"LABEL", "FUNCTION"} /\ k = Pos[i]
    BY EveryLine DEF Marks
  <2> QED
    BY <1>3, <2>1, <2>2, <2>3, <2>4, <2>5
<1>4. \E k \in Marks : text[k].ins.lab = "main"
  <2>1. PICK i \in DOMAIN tac : tac[i] = Function("main")
    BY BuiltFacts DEF Settled, Supported
  <2>2. tac[i].kind = "FUNCTION" /\ MarkOf(tac[i]) = "main"
    BY <2>1 DEF Function, MarkOf
  <2> QED
    BY <2>2, DeclaredAt DEF Settled, Marked
<1> QED
  BY <1>1, <1>2, <1>3, <1>4 DEF Assembles

AsmInv == LayInv /\ AllListed /\ Declared(tac) /\ AlwaysAssembles

LEMMA AsmInit ==
    ASSUME BackInit, \A p \in Programs : Supported(p) /\ Declared(p)
    PROVE  AsmInv
<1>1. LayInv /\ AllListed
  BY LayInit, ListedInit DEF BackInit
<1>2. Declared(tac)
  BY DEF BackInit, Init
<1> QED
  BY <1>1, <1>2 DEF AsmInv, AlwaysAssembles, BackInit, SpimInit

(* Only the assembler rejects, and it has no reason to.                    *)
LEMMA AsmStep == AsmInv /\ [Next]_vars => AsmInv'
<1> SUFFICES ASSUME AsmInv, [Next]_vars PROVE AsmInv'
  OBVIOUS
<1>1. [GenNext]_gvars
  BY DEF Next, Compile, Begin, GoPast, RunLine, Stopped, vars
<1>2. LayInv' /\ AllListed'
  BY <1>1, LayStep, ListedStep DEF AsmInv, LayInv
<1>3. Declared(tac)'
  <2>1. UNCHANGED tac
    BY <1>1 DEF gvars, GenNext, Collect, Prologue, EmitLabel, EmitFunction, EmitAssign, EmitArith, EmitAddr, EmitFetch,
                EmitDeref, EmitGoto, EmitIf, EmitReturn, EmitDec, EmitArg, EmitCall, EmitParam, EmitRead, EmitWrite,
                SkipNone, Finish, Out
  <2>2. \A p, q : q = p /\ Declared(p) => Declared(q)
    OBVIOUS
  <2> QED
    BY <2>1, <2>2 DEF AsmInv
<1>4. AlwaysAssembles'
  <2>1. CASE Begin
    <3>1. Settled
      BY <2>1 DEF Settled, Built, Begin, AsmInv
    <3> QED
      BY <2>1, <3>1, BuiltAssembles DEF Begin, Assemble, AlwaysAssembles
  <2>2. CASE RunLine
    BY <2>2, StatusStep DEF RunLine, Faults, AlwaysAssembles
  <2>3. CASE UNCHANGED status
    BY <2>3 DEF AsmInv, AlwaysAssembles
  <2> QED
    BY <2>1, <2>2, <2>3 DEF Next, Compile, GoPast, Stopped, vars, svars
<1> QED
  BY <1>2, <1>3, <1>4 DEF AsmInv

(* What the generator emits for a list that declares each label and each    *)
(* function once, and mentions each of its variables where                  *)
(* collect_variables looks, is taken by the assembler: emit_call, emit_goto *)
(* and emit_if_* name no label that is not there, and no line a variable    *)
(* without a word in .data.                                                 *)
THEOREM Assembly ==
    ASSUME \A p \in Programs : Supported(p) /\ Declared(p)
    PROVE  Spec => []AlwaysAssembles
<1>1. BackInit => AsmInv
  BY AsmInit
<1>2. AsmInv => AlwaysAssembles
  BY DEF AsmInv
<1> QED
  BY <1>1, <1>2, AsmStep, PTL DEF Spec
=============================================================================
