------------------------------ MODULE Optimize ------------------------------
(***************************************************************************)
(* optimize.c: one pass over the lines of a file of three-address code,    *)
(* which copies each line, deletes it, or writes a GOTO for it.            *)
(*                                                                         *)
(* A line is an instruction of Tac, an empty line is NONE.  A copied line  *)
(* remembers which it was.  labels is the list labelHead; varHead is left  *)
(* out: parseLhsExp returns before it gives a variable a value, so none is *)
(* ever constant, and nothing else is read from it.                        *)
(*                                                                         *)
(* Operators with a suffix after an underscore are wrong versions of the   *)
(* one that follows.                                                       *)
(***************************************************************************)
EXTENDS Tac

CONSTANT Programs

ASSUME OptimizeAssumption == Programs \subseteq Seq(Inst)

VARIABLES
    tac,              \* the lines of the file
    at,               \* the line read next
    isUnreachable,
    labels,           \* the labels read so far
    out               \* the lines written

ovars == <<tac, at, isUnreachable, labels, out>>

OptInit ==
    /\ tac \in Programs /\ at = 1
    /\ isUnreachable = FALSE /\ labels = {} /\ out = <<>>

Reading(kinds) == at \in DOMAIN tac /\ tac[at].kind \in kinds

PrintLine(ins) == out' = Append(out, [of |-> at, ins |-> ins])

NextLine == at' = at + 1 /\ UNCHANGED tac

(* A line that changes neither the flag nor the labels.                    *)
Plain == ArithKinds \cup
    {"NONE", "READ", "WRITE", "PARAM", "RETURN", "ARG", "CALL", "ASSIGN", "ADDR", "FETCH", "DEREF", "DEC"}

Folds_NoCompare(i) == i.kind \in IfKinds /\ i.c1.kind = "OP_CONSTANT" /\ i.c2.kind = "OP_CONSTANT"

(* processIF looks for a comparison of two characters, and takes >= for >   *)
(* and <= for <.  Only literals are constant.                              *)
Folds(i) ==
    /\ i.kind \in {"IFEQ", "IFNE", "IFGE", "IFLE"}
    /\ i.c1.kind = "OP_CONSTANT" /\ i.c2.kind = "OP_CONSTANT"
    /\ LET a == i.c1.int_val
           b == i.c2.int_val
       IN  \/ i.kind = "IFEQ" /\ a = b
           \/ i.kind = "IFNE" /\ a # b
           \/ i.kind = "IFGE" /\ a > b
           \/ i.kind = "IFLE" /\ a < b

CopyFunction ==
    /\ Reading({"FUNCTION"})
    /\ PrintLine(tac[at]) /\ NextLine
    /\ UNCHANGED <<isUnreachable, labels>>

Reachable_Never == isUnreachable

(* isUnreachable after a label.                                            *)
Reachable == FALSE

CopyLabel ==
    /\ Reading({"LABEL"})
    /\ isUnreachable' = Reachable
    /\ labels' = labels \cup {tac[at].labelno}
    /\ PrintLine(tac[at]) /\ NextLine

Delete_Labels ==
    /\ isUnreachable /\ Reading(Plain \cup IfKinds \cup {"GOTO", "LABEL"})
    /\ NextLine
    /\ UNCHANGED <<isUnreachable, labels, out>>

(* Everything but a line that ends with a colon is deleted.                *)
Delete ==
    /\ isUnreachable /\ Reading(Plain \cup IfKinds \cup {"GOTO"})
    /\ NextLine
    /\ UNCHANGED <<isUnreachable, labels, out>>

(* For the last character of an empty line, what stands before the buffer  *)
(* is read: it may be a colon.                                             *)
CopyEmpty ==
    /\ isUnreachable /\ Reading({"NONE"})
    /\ PrintLine(tac[at]) /\ NextLine
    /\ UNCHANGED <<isUnreachable, labels>>

CopyPlain ==
    /\ ~isUnreachable /\ Reading(Plain)
    /\ PrintLine(tac[at]) /\ NextLine
    /\ UNCHANGED <<isUnreachable, labels>>

CopyGoto ==
    /\ ~isUnreachable /\ Reading({"GOTO"})
    /\ isUnreachable' = TRUE
    /\ PrintLine(tac[at]) /\ NextLine
    /\ UNCHANGED labels

CopyIf ==
    /\ ~isUnreachable /\ Reading(IfKinds) /\ ~Folds(tac[at])
    /\ PrintLine(tac[at]) /\ NextLine
    /\ UNCHANGED <<isUnreachable, labels>>

FoldIf_Also ==
    /\ ~isUnreachable /\ Reading(IfKinds) /\ Folds(tac[at])
    /\ out' = out \o <<[of |-> at, ins |-> Goto(tac[at].labelno)], [of |-> at, ins |-> tac[at]]>>
    /\ NextLine
    /\ isUnreachable' = (tac[at].labelno \notin labels)
    /\ UNCHANGED labels

(* What follows is deleted if the label is still to come.                  *)
FoldIf ==
    /\ ~isUnreachable /\ Reading(IfKinds) /\ Folds(tac[at])
    /\ PrintLine(Goto(tac[at].labelno)) /\ NextLine
    /\ isUnreachable' = (tac[at].labelno \notin labels)
    /\ UNCHANGED labels

Optimizing == CopyFunction \/ CopyLabel \/ Delete \/ CopyEmpty \/ CopyPlain \/ CopyGoto \/ CopyIf \/ FoldIf

OptSpec == OptInit /\ [][Optimizing]_ovars

-----------------------------------------------------------------------------
Kept(i) == \E p \in DOMAIN out : out[p].of = i

(* The lines of the output are lines of the input, in their order.          *)
OptTypeOK ==
    /\ tac \in Seq(Inst) /\ at \in 1..Len(tac) + 1
    /\ isUnreachable \in BOOLEAN /\ labels \subseteq Lbl
    /\ out \in Seq([of: Nat, ins: Inst])
    /\ \A p \in DOMAIN out : out[p].of \in 1..at - 1
    /\ \A p, q \in DOMAIN out : p < q => out[p].of < out[q].of

\* What follows such a line can only be reached through a label.
AlwaysJumps(i) == i.kind = "GOTO" \/ Folds(i)

(* What the files the translator prints have in common: main is there, a    *)
(* function or a label is there once, what is jumped to or called is there,  *)
(* and a function begins behind no line that always jumps: what follows its  *)
(* FUNCTION line would be deleted.                                          *)
WellFormed(file) ==
    /\ \E i \in DOMAIN file : file[i] = Function("main")
    /\ \A i, j \in DOMAIN file : file[i].kind \in {"LABEL", "FUNCTION"} /\ file[i] = file[j] => i = j
    /\ \A i \in DOMAIN file : file[i].kind \in IfKinds \cup {"GOTO"} =>
           \E j \in DOMAIN file : file[j] = Label(file[i].labelno)
    /\ \A i \in DOMAIN file : file[i].kind = "CALL" =>
           \E j \in DOMAIN file : file[j] = Function(file[i].funcname)
    /\ \A i \in DOMAIN file : file[i].kind = "FUNCTION" =>
           \A j \in 1..i - 1 : AlwaysJumps(file[j]) => \E k \in j + 1..i - 1 : file[k].kind = "LABEL"

BehindJump(i) ==
    \E j \in 1..i - 1 : AlwaysJumps(tac[j]) /\ \A k \in j + 1..i - 1 : tac[k].kind # "LABEL"

(* A deleted line comes after a line that always jumps, and no label        *)
(* stands between the two: falling through does not lead to it.  Nor is it  *)
(* one that a jump or a call looks for.                                     *)
DeletedBehindJump ==
    \A i \in 1..at - 1 : ~Kept(i) => BehindJump(i) /\ tac[i].kind \notin {"LABEL", "FUNCTION"}

(* A line is changed only if it is an IF between constants that holds, and  *)
(* then into the jump it always makes.                                      *)
ChangesHold ==
    \A p \in DOMAIN out : out[p].ins # tac[out[p].of] =>
        LET i == tac[out[p].of] IN
        /\ i.kind \in IfKinds /\ Holds(i.kind, i.c1.int_val, i.c2.int_val)
        /\ {i.c1.kind, i.c2.kind} = {"OP_CONSTANT"}
        /\ out[p].ins = Goto(i.labelno)
=============================================================================
