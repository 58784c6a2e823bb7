----------------------------- MODULE MCBackEnd -----------------------------
(***************************************************************************)
(* Programs for BackEnd.  Factorial, Fibonacci, IsPrime, Gcd and Hanoi are *)
(* test-ex/test_{a,b,c,d}.ir and test/phase4/test/test_4_r01.ir (with a    *)
(* smaller tower); the others are small variations on one construct.       *)
(***************************************************************************)
EXTENDS BackEnd

N(k) == C(k)      \* #k

Factorial == <<
    Function("factorial"), Param("v0"),
    If("IFNE", V("v0"), N(0), "label0"), Return(N(1)), Label("label0"),
    Arith("SUB", "t0", V("v0"), N(1)), Arg(V("t0")), Call("t1", "factorial"),
    Arith("MUL", "t2", V("v0"), V("t1")), Return(V("t2")),
    [kind |-> "NONE"],
    Function("main"), Read("v1"), Arg(V("v1")), Call("t4", "factorial"),
    Write(V("t4")), Return(N(0)) >>

Fibonacci == <<
    Function("fibonacci"), Param("v0"),
    If("IFNE", V("v0"), N(0), "label0"), Return(N(0)), Label("label0"),
    If("IFNE", V("v0"), N(1), "label3"), Return(N(1)), Label("label3"),
    Arith("SUB", "t0", V("v0"), N(1)), Arg(V("t0")), Call("t1", "fibonacci"),
    Arith("SUB", "t2", V("v0"), N(2)), Arg(V("t2")), Call("t3", "fibonacci"),
    Arith("ADD", "t4", V("t1"), V("t3")), Return(V("t4")),
    [kind |-> "NONE"],
    Function("main"), Read("v1"), Arg(V("v1")), Call("t6", "fibonacci"),
    Write(V("t6")), Return(N(0)) >>

IsPrime == <<
    Function("isPrime"), Param("v0"), Assign("v1", N(2)),
    If("IFGT", V("v0"), N(1), "label0"), Return(N(0)), Label("label0"),
    Label("label2"), Arith("MUL", "t0", V("v1"), V("v1")),
    If("IFLE", V("t0"), V("v0"), "label3"), Goto("label4"), Label("label3"),
    Arith("DIV", "t1", V("v0"), V("v1")), Arith("MUL", "t2", V("t1"), V("v1")),
    Arith("SUB", "t3", V("v0"), V("t2")),
    If("IFNE", V("t3"), N(0), "label5"), Return(N(0)), Label("label5"),
    Arith("ADD", "v1", V("v1"), N(1)), Goto("label2"),
    Label("label4"), Return(N(1)),
    [kind |-> "NONE"],
    Function("main"), Read("v2"), Arg(V("v2")), Call("t6", "isPrime"),
    If("IFNE", V("t6"), N(1), "label7"), Write(N(1)), Goto("label9"),
    Label("label7"), Write(N(0)), Label("label9"), Return(N(0)) >>

Gcd == <<
    Function("gcd"), Param("v0"), Param("v1"), Label("label0"),
    If("IFNE", V("v1"), N(0), "label1"), Goto("label2"), Label("label1"),
    Assign("v2", V("v0")), Assign("v0", V("v1")),
    Arith("DIV", "t0", V("v2"), V("v1")), Arith("MUL", "t1", V("t0"), V("v1")),
    Arith("SUB", "v1", V("v2"), V("t1")), Goto("label0"),
    Label("label2"), Return(V("v0")),
    [kind |-> "NONE"],
    Function("main"), Assign("v3", N(48)), Assign("v4", N(18)),
    Arg(V("v4")), Arg(V("v3")), Call("t3", "gcd"), Write(V("t3")), Return(N(0)) >>

Hanoi == <<
    Function("hanoi"), Param("v0"), Param("v1"), Param("v2"), Param("v3"),
    Assign("v4", V("v0")), Assign("v5", N(1)),
    If("IFEQ", V("v4"), V("v5"), "label0"), Goto("label1"), Label("label0"),
    Assign("v9", V("v1")), Assign("v10", N(10)), Arith("MUL", "v8", V("v9"), V("v10")),
    Assign("v11", V("v3")), Arith("ADD", "v7", V("v8"), V("v11")), Write(V("v7")),
    Goto("label2"), Label("label1"),
    Assign("v14", V("v0")), Assign("v15", N(1)), Arith("SUB", "v13", V("v14"), V("v15")),
    Assign("v16", V("v1")), Assign("v17", V("v3")), Assign("v18", V("v2")),
    Arg(V("v18")), Arg(V("v17")), Arg(V("v16")), Arg(V("v13")), Call("v12", "hanoi"),
    Assign("v22", V("v1")), Assign("v23", N(10)), Arith("MUL", "v21", V("v22"), V("v23")),
    Assign("v24", V("v3")), Arith("ADD", "v20", V("v21"), V("v24")), Write(V("v20")),
    Assign("v27", V("v0")), Assign("v28", N(1)), Arith("SUB", "v26", V("v27"), V("v28")),
    Assign("v29", V("v2")), Assign("v30", V("v1")), Assign("v31", V("v3")),
    Arg(V("v31")), Arg(V("v30")), Arg(V("v29")), Arg(V("v26")), Call("v25", "hanoi"),
    Label("label2"), Assign("v32", N(0)), Return(V("v32")),
    Function("main"), Assign("v34", N(2)), Assign("v33", V("v34")),
    Assign("v36", V("v33")), Assign("v37", N(1)), Assign("v38", N(2)), Assign("v39", N(3)),
    Arg(V("v39")), Arg(V("v38")), Arg(V("v37")), Arg(V("v36")), Call("v35", "hanoi"),
    Assign("v40", N(0)), Return(V("v40")) >>

(* A comparison of each kind, between what is read and a constant.         *)
Compare(k) == <<
    Function("main"), Read("v0"), If(k, V("v0"), N(1), "label0"),
    Write(N(0)), Goto("label1"), Label("label0"), Write(N(1)),
    Label("label1"), Return(N(0)) >>

(* An operation of each kind, a negative operand included, around a call   *)
(* of a function that has variables of its own and an array nobody uses.   *)
Operate(k) == <<
    Function("f"), Param("v1"), Dec("v9", 8), Arith("SUB", "t1", N(0), V("v1")),
    Return(V("t1")),
    Function("main"), Read("v0"), Arg(V("v0")), Call("t2", "f"),
    Arith(k, "t3", V("t2"), N(2)), Arith(k, "t1", V("v0"), V("t3")),
    Write(V("t1")), Return(N(0)) >>

(* An address taken and read through.                                      *)
Pointer == <<
    Function("main"), Read("v0"), Assign("v1", V("v0")), Addr("t0", "v1"),
    Fetch("t1", "t0"), Assign("t0", V("t1")), Write(V("t0")), Return(N(0)) >>

(* Two functions with parameters: isEven's call comes between them.        *)
EvenOdd == <<
    Function("isEven"), Param("v0"), If("IFNE", V("v0"), N(0), "label0"), Return(N(1)),
    Label("label0"), Arith("SUB", "t0", V("v0"), N(1)), Arg(V("t0")), Call("t1", "isOdd"),
    Return(V("t1")),
    Function("isOdd"), Param("v1"), If("IFNE", V("v1"), N(0), "label1"), Return(N(0)),
    Label("label1"), Arith("SUB", "t2", V("v1"), N(1)), Arg(V("t2")), Call("t3", "isEven"),
    Return(V("t3")),
    Function("main"), Read("v2"), Arg(V("v2")), Call("t4", "isEven"), Write(V("t4")),
    Return(N(0)) >>

(* sub(sub(n, 1), sub(n, 2)): arguments that are results of calls.         *)
Nested == <<
    Function("sub"), Param("v0"), Param("v1"), Arith("SUB", "t0", V("v0"), V("v1")),
    Return(V("t0")),
    Function("main"), Read("v2"), Arg(N(1)), Arg(V("v2")), Call("t1", "sub"),
    Arg(N(2)), Arg(V("v2")), Call("t2", "sub"),
    Arg(V("t2")), Arg(V("t1")), Call("t3", "sub"), Write(V("t3")), Return(N(0)) >>

Corpus ==
    {Factorial, Fibonacci, IsPrime, Gcd, Hanoi, Pointer, EvenOdd, Nested}
      \cup {Compare(k) : k \in IfKinds}
      \cup {Operate(k) : k \in {"ADD", "SUB", "MUL"}}

(* The hypotheses of the theorems of BackEndProofs.                        *)
ASSUME CorpusSupported == \A p \in Corpus : Supported(p) /\ Declared(p)

-----------------------------------------------------------------------------
(* Programs outside what the back end translates faithfully.               *)

(* Two functions with two parameters each and no call between them, like   *)
(* add and test in the example of doc/Phase3.md.                           *)
AddAndTest == {<<
    Function("add"), Param("v0"), Param("v1"), Arith("ADD", "t0", V("v0"), V("v1")),
    Return(V("t0")),
    Function("test"), Param("v2"), Param("v3"), Arith("ADD", "t6", V("v3"), N(1)),
    Arith("MUL", "t4", V("v2"), V("v2")), Arg(V("t6")), Arg(V("t4")), Call("t3", "add"), Return(V("t3")),
    Function("main"), Read("v4"), Arg(N(2)), Arg(V("v4")), Call("t8", "test"), Write(V("t8")),
    Return(N(0)) >>}

MCVar == {"v0", "v1", "v2", "v3", "v4", "v5", "v7", "v8", "v9", "v10", "v11", "v12", "v13",
          "v14", "v15", "v16", "v17", "v18", "v20", "v21", "v22", "v23", "v24", "v25", "v26",
          "v27", "v28", "v29", "v30", "v31", "v32", "v33", "v34", "v35", "v36", "v37", "v38",
          "v39", "v40", "t0", "t1", "t2", "t3", "t4", "t6", "t8", "t9"}
MCFunc == {"main", "f", "add", "test", "sub", "isEven", "isOdd", "factorial", "fibonacci", "isPrime", "gcd", "hanoi"}
MCLbl == {"label0", "label1", "label2", "label3", "label4", "label5", "label7", "label9"}
MCInputs == 0..4
=============================================================================
