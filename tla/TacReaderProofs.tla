-------------------------- MODULE TacReaderProofs --------------------------
(***************************************************************************)
(* For every file: what is printed is read back, and the list that is made *)
(* of a file is the file, linked both ways, at every moment.               *)
(*                                                                         *)
(* ListIsFile is about the whole list; a step sees one node.  What makes   *)
(* it inductive is that lnbuf holds the beginning of the line (BufferOK),  *)
(* that the node to be appended is the newest and that the walk is still   *)
(* in the list (WalkOK), and where each node's prev points (PrevOK).       *)
(***************************************************************************)
EXTENDS TacReader, TLAPS

(* An operand is read as what was printed.                                 *)
LEMMA OperandLemma ==
    ASSUME NEW o \in Opd
    PROVE  OpdFrom(OpdWord(o)) = o
<1>1. CASE o \in VarOpd
  BY <1>1 DEF VarOpd, OpdFrom, OpdWord, V
<1>2. CASE o \in PointerOpd
  BY <1>2 DEF PointerOpd, OpdFrom, OpdWord, P
<1>3. CASE o \in [kind: {"OP_CONSTANT"}, char_val: {NoName}, int_val: Int]
  BY <1>3 DEF OpdFrom, OpdWord, C, NoName
<1> QED
  BY <1>1, <1>2, <1>3 DEF Opd, ScalarOpd

(* A variable without the star it was printed with.                        *)
LEMMA StarLemma ==
    ASSUME NEW o \in VarOpd
    PROVE  OpdFrom(WithoutStar(Marked("*", o.char_val))) = o
BY DEF VarOpd, OpdFrom, WithoutStar, Marked, V

LEMMA LabelLemma ==
    ASSUME NEW l \in Lbl
    PROVE  OpdFrom(LabelWord(l)).char_val = l
BY DEF OpdFrom, LabelWord, Marked

(* The sign of an operator tells which one it is.                          *)
LEMMA SignLemma ==
    /\ \A k \in ArithKinds : ArithOf(OpSign[k]) = k
    /\ \A k \in IfKinds : IfOf(IfSign[k]) = k
<1>1. \A j, k \in ArithKinds : OpSign[j] = OpSign[k] => j = k
  BY DEF ArithKinds, OpSign
<1>2. \A j, k \in IfKinds : IfSign[j] = IfSign[k] => j = k
  BY DEF IfKinds, IfSign
<1> QED
  BY <1>1, <1>2 DEF ArithOf, IfOf

LEMMA WordLemma ==
    \A t : Word(t).mark = "" /\ Word(t).text = t /\ Word(t).n = 0
BY DEF Word

(* No variable is named like an instruction.                               *)
LEMMA VariableLemma ==
    ASSUME NEW o \in VarOpd
    PROVE  /\ OpdWord(o).text \notin Keywords /\ OpdWord(o).mark = ""
           /\ Marked("*", o.char_val).text \notin Keywords
           /\ Marked("*", o.char_val).mark = "*"
BY ReaderAssumption DEF VarOpd, OpdWord, Marked

(* What becomes of a line of so many words.                                *)
LEMMA TwoLemma == \A a, b : FromLine(<<a, b>>) = TwoWords(a, b)
BY DEF FromLine

LEMMA ThreeLemma == \A a, b, c : FromLine(<<a, b, c>>) = ThreeWords(a, b, c)
BY DEF FromLine

LEMMA FourLemma ==
    \A a, b, c, d :
        FromLine(<<a, b, c, d>>) = [kind |-> "CALL", ret |-> OpdFrom(a), funcname |-> d.text]
BY DEF FromLine

LEMMA FiveLemma ==
    \A a, b, c, d, e :
        FromLine(<<a, b, c, d, e>>) =
            [kind |-> ArithOf(d.text), left |-> OpdFrom(a), r1 |-> OpdFrom(c), r2 |-> OpdFrom(e)]
BY DEF FromLine

LEMMA SixLemma ==
    \A a, b, c, d, e, f :
        FromLine(<<a, b, c, d, e, f>>) =
            [kind |-> IfOf(c.text), c1 |-> OpdFrom(b), c2 |-> OpdFrom(d), labelno |-> OpdFrom(f).char_val]
BY DEF FromLine

(* What tac_print writes _tac_from_line reads: for every instruction, the  *)
(* line read back is the instruction.                                      *)
THEOREM RoundTrip ==
    \A i \in Inst : FromLine(tac_print(i)) = i
<1> SUFFICES ASSUME NEW i \in Inst PROVE FromLine(tac_print(i)) = i
  OBVIOUS
<1> VarOpd \subseteq Opd /\ ScalarOpd \subseteq Opd /\ PointerOpd \subseteq Opd
  BY DEF Opd, ScalarOpd
<1>1. CASE i \in [kind: {"LABEL"}, labelno: Lbl]
  <2>1. tac_print(i) = <<Word("LABEL"), LabelWord(i.labelno), Colon>>
    BY <1>1 DEF tac_print, ArithKinds, IfKinds
  <2>2. FromLine(tac_print(i)) = ThreeWords(Word("LABEL"), LabelWord(i.labelno), Colon)
    BY <2>1, ThreeLemma
  <2>3. ThreeWords(Word("LABEL"), LabelWord(i.labelno), Colon) =
        Jump("LABEL", LabelWord(i.labelno))
    BY WordLemma DEF ThreeWords
  <2> QED
    BY <1>1, <2>2, <2>3, LabelLemma DEF Jump
<1>2. CASE i \in [kind: {"GOTO"}, labelno: Lbl]
  <2>1. tac_print(i) = <<Word("GOTO"), LabelWord(i.labelno)>>
    BY <1>2 DEF tac_print, ArithKinds, IfKinds
  <2>2. FromLine(tac_print(i)) = TwoWords(Word("GOTO"), LabelWord(i.labelno))
    BY <2>1, TwoLemma
  <2>3. TwoWords(Word("GOTO"), LabelWord(i.labelno)) =
        Jump("GOTO", LabelWord(i.labelno))
    BY WordLemma DEF TwoWords
  <2> QED
    BY <1>2, <2>2, <2>3, LabelLemma DEF Jump
<1>3. CASE i \in [kind: {"FUNCTION"}, funcname: Func]
  <2>1. tac_print(i) = <<Word("FUNCTION"), Word(i.funcname), Colon>>
    BY <1>3 DEF tac_print, ArithKinds, IfKinds
  <2>2. FromLine(tac_print(i)) = ThreeWords(Word("FUNCTION"), Word(i.funcname), Colon)
    BY <2>1, ThreeLemma
  <2>3. ThreeWords(Word("FUNCTION"), Word(i.funcname), Colon) =
        Function(i.funcname)
    BY WordLemma DEF ThreeWords
  <2> QED
    BY <1>3, <2>2, <2>3 DEF Function
<1>4. CASE i \in [kind: {"ASSIGN"}, left: VarOpd, right: ScalarOpd]
  <2>1. tac_print(i) = <<OpdWord(i.left), Assigned, OpdWord(i.right)>>
    BY <1>4 DEF tac_print, ArithKinds, IfKinds
  <2>2. OpdWord(i.right).mark \in {"", "#"}
    BY <1>4 DEF ScalarOpd, VarOpd, OpdWord
  <2>3. FromLine(tac_print(i)) = ThreeWords(OpdWord(i.left), Assigned, OpdWord(i.right))
    BY <2>1, ThreeLemma
  <2>4. ThreeWords(OpdWord(i.left), Assigned, OpdWord(i.right)) =
        [kind |-> "ASSIGN", left |-> OpdFrom(OpdWord(i.left)), right |-> OpdFrom(OpdWord(i.right))]
    BY <1>4, <2>2, VariableLemma DEF ThreeWords, Keywords
  <2> QED
    BY <1>4, <2>3, <2>4, OperandLemma
<1>5. CASE i \in [kind: ArithKinds, left: VarOpd, r1: Opd, r2: Opd]
  <2>1. tac_print(i) = <<OpdWord(i.left), Assigned, OpdWord(i.r1), Word(OpSign[i.kind]), OpdWord(i.r2)>>
    BY <1>5 DEF tac_print, ArithKinds, IfKinds
  <2>2. FromLine(tac_print(i)) =
        [kind |-> ArithOf(Word(OpSign[i.kind]).text), left |-> OpdFrom(OpdWord(i.left)),
         r1 |-> OpdFrom(OpdWord(i.r1)), r2 |-> OpdFrom(OpdWord(i.r2))]
    BY <2>1, FiveLemma
  <2> QED
    BY <1>5, <2>2, WordLemma, OperandLemma, SignLemma
<1>6. CASE i \in [kind: {"ADDR"}, left: VarOpd, right: PointerOpd]
  <2>1. tac_print(i) = <<OpdWord(i.left), Assigned, OpdWord(i.right)>>
    BY <1>6 DEF tac_print, ArithKinds, IfKinds
  <2>2. OpdWord(i.right).mark = "&"
    BY <1>6 DEF PointerOpd, OpdWord
  <2>3. FromLine(tac_print(i)) = ThreeWords(OpdWord(i.left), Assigned, OpdWord(i.right))
    BY <2>1, ThreeLemma
  <2>4. ThreeWords(OpdWord(i.left), Assigned, OpdWord(i.right)) =
        [kind |-> "ADDR", left |-> OpdFrom(OpdWord(i.left)), right |-> OpdFrom(OpdWord(i.right))]
    BY <1>6, <2>2, VariableLemma DEF ThreeWords, Keywords
  <2> QED
    BY <1>6, <2>3, <2>4, OperandLemma
<1>7. CASE i \in [kind: {"FETCH"}, left: VarOpd, raddr: VarOpd]
  <2>1. tac_print(i) = <<OpdWord(i.left), Assigned, Marked("*", i.raddr.char_val)>>
    BY <1>7 DEF tac_print, ArithKinds, IfKinds
  <2>2. FromLine(tac_print(i)) = ThreeWords(OpdWord(i.left), Assigned, Marked("*", i.raddr.char_val))
    BY <2>1, ThreeLemma
  <2>3. ThreeWords(OpdWord(i.left), Assigned, Marked("*", i.raddr.char_val)) =
        [kind |-> "FETCH", left |-> OpdFrom(OpdWord(i.left)),
         raddr |-> OpdFrom(WithoutStar(Marked("*", i.raddr.char_val)))]
    BY <1>7, VariableLemma DEF ThreeWords, Keywords
  <2> QED
    BY <1>7, <2>2, <2>3, OperandLemma, StarLemma
<1>8. CASE i \in [kind: {"DEREF"}, laddr: VarOpd, right: Opd]
  <2>1. tac_print(i) = <<Marked("*", i.laddr.char_val), Assigned, OpdWord(i.right)>>
    BY <1>8 DEF tac_print, ArithKinds, IfKinds
  <2>2. FromLine(tac_print(i)) = ThreeWords(Marked("*", i.laddr.char_val), Assigned, OpdWord(i.right))
    BY <2>1, ThreeLemma
  <2>3. ThreeWords(Marked("*", i.laddr.char_val), Assigned, OpdWord(i.right)) =
        [kind |-> "DEREF", laddr |-> OpdFrom(WithoutStar(Marked("*", i.laddr.char_val))),
         right |-> OpdFrom(OpdWord(i.right))]
    BY <1>8, VariableLemma DEF ThreeWords, Keywords
  <2> QED
    BY <1>8, <2>2, <2>3, OperandLemma, StarLemma
<1>9. CASE i \in [kind: IfKinds, c1: Opd, c2: Opd, labelno: Lbl]
  <2>1. tac_print(i) = <<Word("IF"), OpdWord(i.c1), Word(IfSign[i.kind]), OpdWord(i.c2),
                       Word("GOTO"), LabelWord(i.labelno)>>
    BY <1>9 DEF tac_print, ArithKinds, IfKinds
  <2>2. FromLine(tac_print(i)) =
        [kind |-> IfOf(Word(IfSign[i.kind]).text), c1 |-> OpdFrom(OpdWord(i.c1)), c2 |-> OpdFrom(OpdWord(i.c2)),
         labelno |-> OpdFrom(LabelWord(i.labelno)).char_val]
    BY <2>1, SixLemma
  <2> QED
    BY <1>9, <2>2, WordLemma, OperandLemma, SignLemma, LabelLemma
<1>10. CASE i \in [kind: {"RETURN", "ARG", "WRITE"}, var: Opd] \cup [kind: {"PARAM", "READ"}, var: VarOpd]
  <2>1. tac_print(i) = <<Word(i.kind), OpdWord(i.var)>>
    BY <1>10 DEF tac_print, ArithKinds, IfKinds
  <2>2. FromLine(tac_print(i)) = TwoWords(Word(i.kind), OpdWord(i.var))
    BY <2>1, TwoLemma
  <2>3. TwoWords(Word(i.kind), OpdWord(i.var)) =
        [kind |-> i.kind, var |-> OpdFrom(OpdWord(i.var))]
    BY <1>10, WordLemma DEF TwoWords
  <2> QED
    BY <1>10, <2>2, <2>3, OperandLemma
<1>11. CASE i \in [kind: {"DEC"}, var: PointerOpd, size: Nat]
  <2>1. tac_print(i) = <<Word("DEC"), Word(i.var.char_val), NumberWord(i.size)>>
    BY <1>11 DEF tac_print, ArithKinds, IfKinds
  <2>2. NumberWord(i.size).n = i.size
    BY DEF NumberWord
  <2>3. P(i.var.char_val) = i.var
    BY <1>11 DEF PointerOpd, P
  <2>4. FromLine(tac_print(i)) = ThreeWords(Word("DEC"), Word(i.var.char_val), NumberWord(i.size))
    BY <2>1, ThreeLemma
  <2>5. ThreeWords(Word("DEC"), Word(i.var.char_val), NumberWord(i.size)) =
        Dec(i.var.char_val, i.size)
    BY <2>2, WordLemma DEF ThreeWords
  <2> QED
    BY <1>11, <2>4, <2>5, <2>3 DEF Dec
<1>12. CASE i \in [kind: {"CALL"}, ret: VarOpd, funcname: Func]
  <2>1. tac_print(i) = <<OpdWord(i.ret), Assigned, Word("CALL"), Word(i.funcname)>>
    BY <1>12 DEF tac_print, ArithKinds, IfKinds
  <2>2. FromLine(tac_print(i)) =
        [kind |-> "CALL", ret |-> OpdFrom(OpdWord(i.ret)), funcname |-> Word(i.funcname).text]
    BY <2>1, FourLemma
  <2> QED
    BY <1>12, <2>2, WordLemma, OperandLemma
<1>13. CASE i \in [kind: {"NONE"}]
  <2>1. tac_print(i) = <<>>
    BY <1>13 DEF tac_print, ArithKinds, IfKinds
  <2> QED
    BY <1>13, <2>1 DEF FromLine, None
<1> QED
  BY <1>1, <1>2, <1>3, <1>4, <1>5, <1>6, <1>7, <1>8, <1>9, <1>10, <1>11, <1>12, <1>13 DEF Inst

(* The line of an instruction is a sequence.                               *)
LEMMA PrintLemma ==
    ASSUME NEW i \in Inst
    PROVE  \E S : tac_print(i) \in Seq(S)
<1>2. \A a, b : <<a, b>> \in Seq({a, b})
  OBVIOUS
<1>3. \A a, b, c : <<a, b, c>> \in Seq({a, b, c})
  OBVIOUS
<1>4. \A a, b, c, d : <<a, b, c, d>> \in Seq({a, b, c, d})
  OBVIOUS
<1>5. \A a, b, c, d, e : <<a, b, c, d, e>> \in Seq({a, b, c, d, e})
  OBVIOUS
<1>6. \A a, b, c, d, e, f : <<a, b, c, d, e, f>> \in Seq({a, b, c, d, e, f})
  OBVIOUS
<1>7. CASE i.kind \in {"GOTO", "RETURN", "ARG", "PARAM", "READ", "WRITE"}
  BY <1>7, <1>2 DEF tac_print, ArithKinds, IfKinds
<1>8. CASE i.kind \in {"LABEL", "FUNCTION", "ASSIGN", "ADDR", "FETCH", "DEREF", "DEC"}
  BY <1>8, <1>3 DEF tac_print, ArithKinds, IfKinds
<1>9. CASE i.kind = "CALL"
  BY <1>9, <1>4 DEF tac_print, ArithKinds, IfKinds
<1>10. CASE i.kind \in ArithKinds
  BY <1>10, <1>5 DEF tac_print, ArithKinds, IfKinds
<1>11. CASE i.kind \in IfKinds
  BY <1>11, <1>6 DEF tac_print, ArithKinds, IfKinds
<1>12. CASE i.kind = "NONE"
  <2>1. tac_print(i) = <<>>
    BY <1>12 DEF tac_print, ArithKinds, IfKinds
  <2>2. <<>> \in Seq({})
    OBVIOUS
  <2> QED
    BY <2>1, <2>2
<1> QED
  BY <1>7, <1>8, <1>9, <1>10, <1>11, <1>12 DEF Inst, ArithKinds, IfKinds

LEMMA SeqLemma ==
    ASSUME NEW S, NEW s \in Seq(S), NEW T, \A k \in 1..Len(s) : s[k] \in T
    PROVE  s \in Seq(T)
OBVIOUS

(* The beginnings of a line.                                               *)
LEMMA PrefixLemma ==
    ASSUME NEW S, NEW s \in Seq(S), NEW n \in 0..Len(s)
    PROVE  /\ Len(SubSeq(s, 1, n)) = n
           /\ n < Len(s) => Append(SubSeq(s, 1, n), s[n + 1]) = SubSeq(s, 1, n + 1)
           /\ SubSeq(s, 1, Len(s)) = s
           /\ SubSeq(s, 1, 0) = <<>>
<1>1. Len(SubSeq(s, 1, n)) = n
  OBVIOUS
<1>2. ASSUME n < Len(s)
      PROVE  Append(SubSeq(s, 1, n), s[n + 1]) = SubSeq(s, 1, n + 1)
  BY <1>2
<1>3. SubSeq(s, 1, Len(s)) = s
  OBVIOUS
<1>4. SubSeq(s, 1, 0) = <<>>
  OBVIOUS
<1> QED
  BY <1>1, <1>2, <1>3, <1>4

-----------------------------------------------------------------------------
(* lnbuf holds the beginning of the line that is read.                     *)
BufferOK ==
    at \in DOMAIN written =>
        \E n \in 0..Len(tac_print(written[at])) : lnbuf = SubSeq(tac_print(written[at]), 1, n)

(* The node to be appended is the newest, and the walk is in the list.     *)
WalkOK ==
    inst # NULL =>
        /\ inst = Len(code) /\ p \in 1..Len(code) - 1
        /\ next[inst] = NULL

PrevOK == \A k \in Nodes : prev[k] = IF k = inst THEN NULL ELSE k - 1

IInv == ReaderTypeOK /\ BufferOK /\ WalkOK /\ ListIsFile /\ PrevOK

LEMMA InitIInv == ReaderInit => IInv
<1> SUFFICES ASSUME ReaderInit PROVE IInv
  OBVIOUS
<1> USE DEF ReaderInit
<1>1. written \in Seq(Inst)
  BY ReaderAssumption
<1>2. ReaderTypeOK
  BY <1>1 DEF ReaderTypeOK, Nodes, NULL, None, Inst
<1>3. BufferOK
  <2> SUFFICES ASSUME at \in DOMAIN written
               PROVE  \E n \in 0..Len(tac_print(written[at])) : lnbuf = SubSeq(tac_print(written[at]), 1, n)
    BY DEF BufferOK
  <2>1. PICK S : tac_print(written[at]) \in Seq(S)
    BY <1>1, PrintLemma
  <2> QED
    BY <2>1, PrefixLemma
<1>4. WalkOK /\ ListIsFile /\ PrevOK
  BY DEF WalkOK, ListIsFile, PrevOK, Nodes, Listed, NULL, head
<1> QED
  BY <1>2, <1>3, <1>4 DEF IInv

LEMMA NextIInv == IInv /\ [ReaderNext]_rvars => IInv'
<1> SUFFICES ASSUME IInv, [ReaderNext]_rvars PROVE IInv'
  OBVIOUS
<1>0. written \in Seq(Inst)
  BY ReaderAssumption DEF IInv, ReaderTypeOK
<1>1. CASE CopyWord
  <2> USE <1>1 DEF CopyWord
  <2> DEFINE line == tac_print(written[at])
  <2>1. PICK S : line \in Seq(S)
    BY <1>0, PrintLemma
  <2>2. PICK n \in 0..Len(line) : lnbuf = SubSeq(line, 1, n)
    BY DEF IInv, BufferOK
  <2>3. n < Len(line) /\ lnbuf' = SubSeq(line, 1, n + 1)
    BY <2>1, <2>2, PrefixLemma
  <2>4. BufferOK'
    BY <2>3 DEF BufferOK
  <2>5. (ReaderTypeOK /\ WalkOK /\ ListIsFile /\ PrevOK)'
    BY DEF IInv, ReaderTypeOK, WalkOK, ListIsFile, PrevOK, Nodes, Listed
  <2> QED
    BY <2>4, <2>5 DEF IInv
<1>2. CASE EndOfLine
  <2> USE <1>2 DEF EndOfLine
  <2> DEFINE line == tac_print(written[at])
  <2>1. FromLine(lnbuf) = written[at] /\ written[at] \in Inst
    <3>1. PICK S : line \in Seq(S)
      BY <1>0, PrintLemma
    <3>2. PICK n \in 0..Len(line) : lnbuf = SubSeq(line, 1, n)
      BY DEF IInv, BufferOK
    <3>3. lnbuf = line
      BY <3>1, <3>2, PrefixLemma
    <3> QED
      BY <1>0, <3>3, RoundTrip
  <2>2. BufferOK'
    <3> SUFFICES ASSUME at' \in DOMAIN written
                 PROVE  \E n \in 0..Len(tac_print(written[at'])) : lnbuf' = SubSeq(tac_print(written[at']), 1, n)
      BY DEF BufferOK
    <3>1. PICK S : tac_print(written[at']) \in Seq(S)
      BY <1>0, PrintLemma
    <3> QED
      BY <3>1, PrefixLemma
  <2>3. /\ code \in Seq(Inst) /\ code' = Append(code, written[at])
        /\ next \in Seq(Nodes \cup {NULL}) /\ Len(next) = Len(code)
        /\ prev \in Seq(Nodes \cup {NULL}) /\ Len(prev) = Len(code)
        /\ Len(code) = at /\ at \in 1..Len(written) /\ at' = at + 1
        /\ inst' = at + 1 /\ Nodes = 1..at /\ inst = NULL
    BY <1>0, <2>1 DEF IInv, ReaderTypeOK, ListIsFile, Nodes
  <2>4. /\ Len(code') = at + 1 /\ Nodes' = 1..at + 1
        /\ code' \in Seq(Inst) /\ next' \in Seq(Nat) /\ prev' \in Seq(Nat)
        /\ Len(next') = at + 1 /\ Len(prev') = at + 1
        /\ \A k \in 1..at : code'[k] = code[k] /\ next'[k] = next[k] /\ prev'[k] = prev[k]
        /\ code'[at + 1] = written[at] /\ next'[at + 1] = NULL /\ prev'[at + 1] = NULL
    BY <2>1, <2>3 DEF Nodes, NULL
  <2>5. \A k \in 1..at : next[k] \in 0..at /\ prev[k] \in 0..at
    BY <2>3 DEF NULL
  <2>6. ReaderTypeOK'
    <3>1. \A k \in 1..at + 1 : next'[k] \in 0..at + 1 /\ prev'[k] \in 0..at + 1
      BY <2>3, <2>4, <2>5 DEF NULL
    <3>2. next' \in Seq(0..at + 1) /\ prev' \in Seq(0..at + 1)
      BY <2>4, <3>1, SeqLemma
    <3> QED
      BY <2>3, <2>4, <3>2 DEF IInv, ReaderTypeOK, head, NULL
  <2>7. WalkOK'
    BY <2>3, <2>4 DEF WalkOK, head
  <2>8. ListIsFile'
    <3>1. \A k \in 1..at : code'[k + 1] = written[k]
      <4> SUFFICES ASSUME NEW k \in 1..at PROVE code'[k + 1] = written[k]
        OBVIOUS
      <4>1. CASE k = at
        BY <2>4, <4>1
      <4>2. CASE k < at
        <5>1. k + 1 \in 1..at /\ k \in 1..at - 1
          BY <2>3, <4>2
        <5> QED
          BY <2>4, <5>1 DEF IInv, ListIsFile
      <4> QED
        BY <2>3, <4>1, <4>2
    <3>2. Listed' = 1..at /\ Listed = 1..at
      BY <2>3, <2>4 DEF Listed, NULL
    <3>3. \A k \in 1..at : next'[k] = IF k + 1 \in 1..at THEN k + 1 ELSE NULL
      BY <2>4, <3>2 DEF IInv, ListIsFile
    <3>4. at' - 1 = at /\ Len(code') = at'
      BY <2>3, <2>4
    <3> QED
      BY <3>1, <3>2, <3>3, <3>4 DEF ListIsFile
  <2>9. PrevOK'
    BY <2>3, <2>4 DEF IInv, PrevOK, NULL
  <2> QED
    BY <2>2, <2>6, <2>7, <2>8, <2>9 DEF IInv
<1>3. CASE NextNode
  <2> USE <1>3 DEF NextNode
  <2>1. p' \in Nodes /\ p' \in 1..Len(code) - 1
    BY DEF IInv, ReaderTypeOK, WalkOK, ListIsFile, Nodes, Listed, NULL
  <2> QED
    BY <2>1 DEF IInv, ReaderTypeOK, BufferOK, WalkOK, ListIsFile, PrevOK, Nodes, Listed
<1>4. CASE Insert
  <2> USE <1>4 DEF Insert
  <2>1. /\ inst = Len(code) /\ Nodes = 1..Len(code) /\ Len(code) \in Nat
        /\ p \in 1..Len(code) - 1 /\ p = Len(code) - 1
    <3>1. /\ inst = Len(code) /\ Nodes = 1..Len(code) /\ Len(code) \in Nat
          /\ p \in 1..Len(code) - 1
      BY DEF IInv, ReaderTypeOK, WalkOK, Nodes
    <3>2. Listed = 1..Len(code) - 1
      BY <3>1 DEF Listed
    <3>3. next[p] = IF p + 1 \in Listed THEN p + 1 ELSE NULL
      BY <3>1, <3>2 DEF IInv, ListIsFile
    <3>4. p + 1 \notin Listed
      BY <3>1, <3>3 DEF NULL
    <3> QED
      BY <3>1, <3>2, <3>4
  <2>2. /\ Len(next') = Len(code) /\ Len(prev') = Len(code)
        /\ next' \in Seq(Nodes \cup {NULL}) /\ prev' \in Seq(Nodes \cup {NULL})
        /\ \A k \in Nodes : next'[k] = IF k = p THEN inst ELSE IF k = inst THEN NULL ELSE next[k]
        /\ \A k \in Nodes : prev'[k] = IF k = inst THEN p ELSE prev[k]
    BY <2>1 DEF IInv, ReaderTypeOK, Nodes
  <2>3. ReaderTypeOK'
    BY <2>1, <2>2 DEF IInv, ReaderTypeOK, Nodes
  <2>4. BufferOK' /\ WalkOK'
    BY DEF IInv, BufferOK, WalkOK, NULL
  <2>5. ListIsFile'
    <3>1. Listed' = 1..Len(code) /\ Listed = 1..Len(code) - 1
      BY <2>1 DEF Listed, Nodes, NULL
    <3> QED
      BY <2>1, <2>2, <3>1 DEF IInv, ListIsFile
  <2>6. PrevOK'
    BY <2>1, <2>2 DEF IInv, PrevOK, Nodes, NULL
  <2> QED
    BY <2>3, <2>4, <2>5, <2>6 DEF IInv
<1>5. CASE UNCHANGED rvars
  BY <1>5 DEF rvars, IInv, ReaderTypeOK, BufferOK, WalkOK, ListIsFile, PrevOK, Nodes, Listed
<1> QED
  BY <1>1, <1>2, <1>3, <1>4, <1>5 DEF ReaderNext, Reads, Returned

(* At every moment the list is walked the same way in both directions.     *)
LEMMA IInvLinked == IInv => DoublyLinked
<1> SUFFICES ASSUME IInv PROVE DoublyLinked
  OBVIOUS
<1>1. /\ Nodes = 1..Len(code) /\ Len(code) \in Nat /\ Len(code) >= 1
      /\ inst \in Nodes \cup {NULL}
      /\ inst # NULL => inst = Len(code) /\ Len(code) > 1
      /\ Len(code) = at
  BY DEF IInv, ReaderTypeOK, WalkOK, ListIsFile, Nodes
<1>2. /\ \A k \in Nodes : k # inst => next[k] = IF k + 1 \in Listed THEN k + 1 ELSE NULL
      /\ inst # NULL => next[inst] = NULL
      /\ \A k \in Nodes : prev[k] = IF k = inst THEN NULL ELSE k - 1
  BY DEF IInv, ListIsFile, Listed, WalkOK, PrevOK
<1>3. ASSUME NEW a \in Nodes, NEW b \in Nodes
      PROVE  next[a] = b <=> prev[b] = a
  <2>1. CASE a = inst \/ b = inst
    BY <1>1, <1>2, <2>1 DEF Listed, NULL
  <2>2. CASE a # inst /\ b # inst
    <3>1. next[a] = (IF a + 1 \in Listed THEN a + 1 ELSE NULL) /\ prev[b] = b - 1
      BY <1>2, <2>2
    <3>2. b \in Listed
      BY <2>2 DEF Listed
    <3> QED
      BY <1>1, <3>1, <3>2 DEF NULL
  <2> QED
    BY <2>1, <2>2
<1>4. prev[head] = NULL
  BY <1>1, <1>2 DEF head, NULL
<1>5. inst # NULL => next[inst] = NULL /\ prev[inst] = NULL
  <2>1. inst # NULL => inst \in Nodes
    BY <1>1
  <2> QED
    BY <1>2, <2>1
<1> QED
  BY <1>3, <1>4, <1>5 DEF DoublyLinked

(* For every file the list that is made of it is the file: each complete   *)
(* line once, in order, and the types are right.                           *)
THEOREM ReaderSafe == ReaderSpec => [](ReaderTypeOK /\ ListIsFile)
<1>1. IInv => ReaderTypeOK /\ ListIsFile
  BY DEF IInv
<1> QED
  BY <1>1, InitIInv, NextIInv, PTL DEF ReaderSpec

(* The pointers point to nodes there are, and the position in the file     *)
(* stays within it.                                                        *)
THEOREM ReaderTypeCorrect == ReaderSpec => []ReaderTypeOK
<1>1. IInv => ReaderTypeOK
  BY DEF IInv
<1> QED
  BY <1>1, InitIInv, NextIInv, PTL DEF ReaderSpec

(* The list can be walked back as it is walked forward.                    *)
THEOREM ReaderLinked == ReaderSpec => []DoublyLinked
BY InitIInv, NextIInv, IInvLinked, PTL DEF ReaderSpec
=============================================================================
