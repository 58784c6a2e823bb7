----------------------------- MODULE TacReader -----------------------------
(***************************************************************************)
(* The reader of the back end: main.c copies a file to a buffer, and       *)
(* tac_from_buffer makes a doubly linked list of it, one instruction per   *)
(* line.  tac_print is the writer that belongs to it.                      *)
(*                                                                         *)
(* A file is a sequence of lines, a line the sequence of its words: what   *)
(* is copied to lnbuf character by character is copied word by word here.  *)
(* The words of a line are separated by one blank and fit lnbuf.  ended    *)
(* says whether the last line has its '\n'.                                *)
(*                                                                         *)
(* Nodes are numbered in the order of malloc; node 1 is the head.          *)
(*                                                                         *)
(* Operators with a suffix after an underscore are wrong versions of the   *)
(* one that follows.                                                       *)
(***************************************************************************)
EXTENDS Tac

CONSTANT Files        \* sequences of instructions

Keywords == {"LABEL", "FUNCTION", "DEC", "GOTO", "RETURN", "ARG", "PARAM", "READ", "WRITE"}

(* Variables are named v0, v1, ..., t0, t1, ...: never like an instruction. *)
ASSUME ReaderAssumption == Files \subseteq Seq(Inst) /\ Var \cap Keywords = {}

NULL == 0
None == [kind |-> "NONE"]

-----------------------------------------------------------------------------
(* Words: a mark, which is what a word is told by, a text and a number.    *)

Word(text) == [mark |-> "", text |-> text, n |-> 0]
Marked(mark, text) == [mark |-> mark, text |-> text, n |-> 0]

NumberWord(n) == [mark |-> "", text |-> NoName, n |-> n]

(* tac_opd_print.                                                          *)
OpdWord(o) ==
    [mark |-> IF o.kind = "OP_CONSTANT" THEN "#" ELSE IF o.kind = "OP_POINTER" THEN "&" ELSE "",
     text |-> o.char_val, n |-> o.int_val]

LabelWord(l) == Marked("label", l)

Assigned == Word(":=")
Colon == Word(":")

OpSign == [ADD |-> "+", SUB |-> "-", MUL |-> "*", DIV |-> "/"]
IfSign == [IFLT |-> "<", IFLE |-> "<=", IFGT |-> ">", IFGE |-> ">=", IFNE |-> "!=", IFEQ |-> "=="]

(* The line tac_print writes; for NONE none, where a file has an empty one. *)
tac_print(i) ==
    CASE i.kind = "LABEL" -> <<Word("LABEL"), LabelWord(i.labelno), Colon>>
      [] i.kind = "FUNCTION" -> <<Word("FUNCTION"), Word(i.funcname), Colon>>
      [] i.kind = "ASSIGN" -> <<OpdWord(i.left), Assigned, OpdWord(i.right)>>
      [] i.kind \in ArithKinds ->
            <<OpdWord(i.left), Assigned, OpdWord(i.r1), Word(OpSign[i.kind]), OpdWord(i.r2)>>
      [] i.kind = "ADDR" -> <<OpdWord(i.left), Assigned, OpdWord(i.right)>>
      [] i.kind = "FETCH" -> <<OpdWord(i.left), Assigned, Marked("*", i.raddr.char_val)>>
      [] i.kind = "DEREF" -> <<Marked("*", i.laddr.char_val), Assigned, OpdWord(i.right)>>
      [] i.kind = "GOTO" -> <<Word("GOTO"), LabelWord(i.labelno)>>
      [] i.kind \in IfKinds ->
            <<Word("IF"), OpdWord(i.c1), Word(IfSign[i.kind]), OpdWord(i.c2), Word("GOTO"), LabelWord(i.labelno)>>
      [] i.kind \in {"RETURN", "ARG", "PARAM", "READ", "WRITE"} -> <<Word(i.kind), OpdWord(i.var)>>
      [] i.kind = "DEC" -> <<Word("DEC"), Word(i.var.char_val), NumberWord(i.size)>>
      [] i.kind = "CALL" -> <<OpdWord(i.ret), Assigned, Word("CALL"), Word(i.funcname)>>
      [] i.kind = "NONE" -> <<>>

-----------------------------------------------------------------------------
(* _tac_opd_from_str, and what is left of a word without its first         *)
(* character.                                                              *)
OpdFrom(w) ==
    CASE w.mark = "#" -> C(w.n)
      [] w.mark = "&" -> P(w.text)
      [] w.mark = "label" -> [kind |-> "OP_LABEL", char_val |-> w.text, int_val |-> 0]
      [] w.mark \in {"", "*"} -> V(w.text)

WithoutStar(w) == [w EXCEPT !.mark = ""]

ArithOf(sign) == CHOOSE k \in ArithKinds : OpSign[k] = sign

(* A comparison is told by its length and its first character.             *)
IfOf(sign) == CHOOSE k \in IfKinds : IfSign[k] = sign

Jump(kind, w) == [kind |-> kind, labelno |-> OpdFrom(w).char_val]

TwoWords(a, b) ==
    IF a.text = "GOTO" THEN Jump("GOTO", b) ELSE [kind |-> a.text, var |-> OpdFrom(b)]

ThreeWords_AddrFirst(a, b, c) ==
    IF a.text = "LABEL" THEN Jump("LABEL", b)
    ELSE IF a.text = "FUNCTION" THEN Function(b.text)
    ELSE IF a.text = "DEC" THEN Dec(b.text, c.n)
    ELSE IF c.mark = "&" THEN [kind |-> "ADDR", left |-> OpdFrom(a), right |-> OpdFrom(c)]
    ELSE IF a.mark = "*" THEN [kind |-> "DEREF", laddr |-> OpdFrom(WithoutStar(a)), right |-> OpdFrom(c)]
    ELSE IF c.mark = "*" THEN [kind |-> "FETCH", left |-> OpdFrom(a), raddr |-> OpdFrom(WithoutStar(c))]
    ELSE [kind |-> "ASSIGN", left |-> OpdFrom(a), right |-> OpdFrom(c)]

(* The order of the tests matters: *x := &y is a DEREF.                    *)
ThreeWords(a, b, c) ==
    IF a.text = "LABEL" THEN Jump("LABEL", b)
    ELSE IF a.text = "FUNCTION" THEN Function(b.text)
    ELSE IF a.text = "DEC" THEN Dec(b.text, c.n)
    ELSE IF a.mark = "*" THEN [kind |-> "DEREF", laddr |-> OpdFrom(WithoutStar(a)), right |-> OpdFrom(c)]
    ELSE IF c.mark = "*" THEN [kind |-> "FETCH", left |-> OpdFrom(a), raddr |-> OpdFrom(WithoutStar(c))]
    ELSE IF c.mark = "&" THEN [kind |-> "ADDR", left |-> OpdFrom(a), right |-> OpdFrom(c)]
    ELSE [kind |-> "ASSIGN", left |-> OpdFrom(a), right |-> OpdFrom(c)]

(* _tac_from_line.  A line is told by the number of its words, and only    *)
(* then by what they are.                                                  *)
FromLine(ln) ==
    IF Len(ln) = 0 THEN None
    ELSE IF Len(ln) = 2 THEN TwoWords(ln[1], ln[2])
    ELSE IF Len(ln) = 3 THEN ThreeWords(ln[1], ln[2], ln[3])
    ELSE IF Len(ln) = 4 THEN [kind |-> "CALL", ret |-> OpdFrom(ln[1]), funcname |-> ln[4].text]
    ELSE IF Len(ln) = 5
         THEN [kind |-> ArithOf(ln[4].text), left |-> OpdFrom(ln[1]), r1 |-> OpdFrom(ln[3]), r2 |-> OpdFrom(ln[5])]
    ELSE [kind |-> IfOf(ln[3].text), c1 |-> OpdFrom(ln[2]), c2 |-> OpdFrom(ln[4]),
          labelno |-> OpdFrom(ln[6]).char_val]

-----------------------------------------------------------------------------
VARIABLES
    written, ended,       \* the file: the instructions that were printed
    at,                   \* the line that is read
    lnbuf,                \* the words of it that have been copied
    code, next, prev,     \* the nodes of the list
    inst, p               \* the node to be appended, and the node tac_append looks at

rvars == <<written, ended, at, lnbuf, code, next, prev, inst, p>>

head == 1

ReaderInit ==
    /\ written \in Files /\ ended \in BOOLEAN
    /\ at = 1 /\ lnbuf = <<>>
    /\ code = <<None>> /\ next = <<NULL>> /\ prev = <<NULL>>
    /\ inst = NULL /\ p = NULL

(* The next word, up to the '\n' or to the '\x7f' that main.c has put      *)
(* after the last character.                                               *)
CopyWord ==
    /\ inst = NULL /\ at \in DOMAIN written
    /\ Len(lnbuf) < Len(tac_print(written[at]))
    /\ lnbuf' = Append(lnbuf, tac_print(written[at])[Len(lnbuf) + 1])
    /\ UNCHANGED <<written, ended, at, code, next, prev, inst, p>>

HasNewline(k) == k < Len(written) \/ ended

EndOfLine_KeepsBuffer ==
    /\ inst = NULL /\ at \in DOMAIN written
    /\ Len(lnbuf) >= Len(tac_print(written[at])) /\ HasNewline(at)
    /\ code' = Append(code, FromLine(lnbuf))
    /\ next' = Append(next, NULL) /\ prev' = Append(prev, NULL)
    /\ inst' = Len(code) + 1 /\ p' = head
    /\ at' = at + 1
    /\ UNCHANGED <<written, ended, lnbuf>>

(* At a '\n' the line is complete and becomes a node.                      *)
EndOfLine ==
    /\ inst = NULL /\ at \in DOMAIN written
    /\ Len(lnbuf) = Len(tac_print(written[at])) /\ HasNewline(at)
    /\ code' = Append(code, FromLine(lnbuf))
    /\ next' = Append(next, NULL) /\ prev' = Append(prev, NULL)
    /\ inst' = Len(code) + 1 /\ p' = head
    /\ at' = at + 1 /\ lnbuf' = <<>>
    /\ UNCHANGED <<written, ended>>

(* tac_append looks for the last node ...                                  *)
NextNode ==
    /\ inst # NULL /\ next[p] # NULL
    /\ p' = next[p]
    /\ UNCHANGED <<written, ended, at, lnbuf, code, next, prev, inst>>

Insert_NoPrev ==
    /\ inst # NULL /\ next[p] = NULL
    /\ next' = [next EXCEPT ![p] = inst, ![inst] = next[p]]
    /\ inst' = NULL /\ p' = NULL
    /\ UNCHANGED <<written, ended, at, lnbuf, code, prev>>

Insert_Swapped ==
    /\ inst # NULL /\ next[p] = NULL
    /\ next' = [next EXCEPT ![inst] = p, ![p] = inst]
    /\ prev' = [prev EXCEPT ![inst] = p]
    /\ inst' = NULL /\ p' = NULL
    /\ UNCHANGED <<written, ended, at, lnbuf, code>>

(* ... and tac_insert puts the node behind it: the segment inserted has    *)
(* one node, and there is nothing after the last.                          *)
Insert ==
    /\ inst # NULL /\ next[p] = NULL
    /\ next' = [next EXCEPT ![p] = inst, ![inst] = next[p]]
    /\ prev' = [prev EXCEPT ![inst] = p]
    /\ inst' = NULL /\ p' = NULL
    /\ UNCHANGED <<written, ended, at, lnbuf, code>>

Reads == CopyWord \/ EndOfLine \/ NextNode \/ Insert

(* The '\x7f': tac_from_buffer returns, whatever is in lnbuf.              *)
AtEnd ==
    /\ inst = NULL
    /\ at \in DOMAIN written =>
         /\ Len(lnbuf) = Len(tac_print(written[at])) /\ ~HasNewline(at)

Returned == AtEnd /\ UNCHANGED rvars

ReaderNext == Reads \/ Returned

ReaderSpec == ReaderInit /\ [][ReaderNext]_rvars /\ WF_rvars(Reads)

-----------------------------------------------------------------------------
Nodes == DOMAIN code
Listed == Nodes \ {inst}       \* the nodes that are in the list

(* Types.                                                                  *)
ReaderTypeOK ==
    /\ written \in Files /\ ended \in BOOLEAN
    /\ at \in 1..Len(written) + 1
    /\ code \in Seq(Inst)
    /\ next \in Seq(Nodes \cup {NULL}) /\ Len(next) = Len(code)
    /\ prev \in Seq(Nodes \cup {NULL}) /\ Len(prev) = Len(code)
    /\ {inst, p} \subseteq Nodes \cup {NULL}

(* The list can be walked both ways, at every moment: a node is behind      *)
(* another exactly when that one is before it, the head is behind none, and *)
(* the node that is not in the list yet has no neighbour.                   *)
DoublyLinked ==
    /\ \A a, b \in Nodes : next[a] = b <=> prev[b] = a
    /\ prev[head] = NULL
    /\ inst # NULL => next[inst] = NULL /\ prev[inst] = NULL

(* The list is the file: node after node, the instructions that were        *)
(* printed, each complete line exactly once, in the order of the lines,     *)
(* empty lines included.                                                    *)
ListIsFile ==
    /\ Len(code) = at
    /\ \A k \in 1..at - 1 : code[k + 1] = written[k]
    /\ \A k \in Listed : next[k] = IF k + 1 \in Listed THEN k + 1 ELSE NULL

(* tacReader.h asks for a '\n' after each instruction, the last one too;    *)
(* main.c passes on the file as it is.                                      *)
EveryLineRead == AtEnd => \A k \in at..Len(written) : written[k] = None

(* Reading ends.                                                           *)
Ends == <>AtEnd
=============================================================================
