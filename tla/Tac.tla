-------------------------------- MODULE Tac --------------------------------
(***************************************************************************)
(* Three-address code as the back end sees it: the operands and the        *)
(* instructions of tacReader.h, built by the tac_opd_* and tac_init_*      *)
(* constructors of tacReader.c.  A program is the sequence of instructions *)
(* of the doubly linked list, without its NONE head.                       *)
(***************************************************************************)
EXTENDS Integers, Sequences

CONSTANTS
    Var,      \* variable names: v0, v1, ..., t0, t1, ...
    Func,     \* function names
    Lbl       \* labels: "label0", "label1", ...

NoName == ""

(* struct tac_opd keeps its two payloads in a union: a kind reads one.     *)
VarOpd == [kind: {"OP_VARIABLE"}, char_val: Var, int_val: {0}]
PointerOpd == [kind: {"OP_POINTER"}, char_val: Var, int_val: {0}]
ScalarOpd == VarOpd \cup [kind: {"OP_CONSTANT"}, char_val: {NoName}, int_val: Int]
Opd == ScalarOpd \cup PointerOpd

V(x) == [kind |-> "OP_VARIABLE", char_val |-> x, int_val |-> 0]
P(x) == [kind |-> "OP_POINTER", char_val |-> x, int_val |-> 0]
C(n) == [kind |-> "OP_CONSTANT", char_val |-> NoName, int_val |-> n]

ArithKinds == {"ADD", "SUB", "MUL", "DIV"}
IfKinds == {"IFLT", "IFLE", "IFGT", "IFGE", "IFNE", "IFEQ"}

(* One set of records per alternative of the union in struct _tac_inst.    *)
(* _tac_from_line makes an ADDR, never an ASSIGN, of x := &y.              *)
Inst ==
    [kind: {"LABEL", "GOTO"}, labelno: Lbl]
      \cup [kind: {"FUNCTION"}, funcname: Func]
      \cup [kind: {"ASSIGN"}, left: VarOpd, right: ScalarOpd]
      \cup [kind: ArithKinds, left: VarOpd, r1: Opd, r2: Opd]
      \cup [kind: {"ADDR"}, left: VarOpd, right: PointerOpd]
      \cup [kind: {"FETCH"}, left: VarOpd, raddr: VarOpd]
      \cup [kind: {"DEREF"}, laddr: VarOpd, right: Opd]
      \cup [kind: IfKinds, c1: Opd, c2: Opd, labelno: Lbl]
      \cup [kind: {"RETURN", "ARG", "WRITE"}, var: Opd]
      \cup [kind: {"PARAM", "READ"}, var: VarOpd]
      \cup [kind: {"DEC"}, var: PointerOpd, size: Nat]
      \cup [kind: {"CALL"}, ret: VarOpd, funcname: Func]
      \cup [kind: {"NONE"}]

(* The constructors, named after the instruction they build.               *)
Label(l) == [kind |-> "LABEL", labelno |-> l]
Function(f) == [kind |-> "FUNCTION", funcname |-> f]
Assign(x, o) == [kind |-> "ASSIGN", left |-> V(x), right |-> o]
Arith(k, x, a, b) == [kind |-> k, left |-> V(x), r1 |-> a, r2 |-> b]
Addr(x, y) == [kind |-> "ADDR", left |-> V(x), right |-> P(y)]
Fetch(x, y) == [kind |-> "FETCH", left |-> V(x), raddr |-> V(y)]
Deref(x, o) == [kind |-> "DEREF", laddr |-> V(x), right |-> o]
Goto(l) == [kind |-> "GOTO", labelno |-> l]
If(k, a, b, l) == [kind |-> k, c1 |-> a, c2 |-> b, labelno |-> l]
Return(o) == [kind |-> "RETURN", var |-> o]
Dec(x, n) == [kind |-> "DEC", var |-> P(x), size |-> n]
Arg(o) == [kind |-> "ARG", var |-> o]
Call(x, f) == [kind |-> "CALL", ret |-> V(x), funcname |-> f]
Param(x) == [kind |-> "PARAM", var |-> V(x)]
Read(x) == [kind |-> "READ", var |-> V(x)]
Write(o) == [kind |-> "WRITE", var |-> o]

(* What an operator or a comparison computes; division truncates.          *)
TruncDiv(a, b) ==
    LET mag(n) == IF n < 0 THEN -n ELSE n
        q == mag(a) \div mag(b)
    IN  IF (a < 0) = (b < 0) THEN q ELSE -q

Apply(k, a, b) ==
    CASE k = "ADD" -> a + b
      [] k = "SUB" -> a - b
      [] k = "MUL" -> a * b
      [] k = "DIV" -> TruncDiv(a, b)

Holds(k, a, b) ==
    CASE k = "IFLT" -> a < b
      [] k = "IFLE" -> a <= b
      [] k = "IFGT" -> a > b
      [] k = "IFGE" -> a >= b
      [] k = "IFNE" -> a # b
      [] k = "IFEQ" -> a = b
=============================================================================
