---------------------------- MODULE MCTacReader ----------------------------
(***************************************************************************)
(* Every pair of instructions of each form, and longer files in which the  *)
(* list is long enough for the walk to its end to have steps.              *)
(***************************************************************************)
EXTENDS TacReader

MCVar == {"v0", "t0"}
MCFunc == {"main"}
MCLbl == {"label0"}

Few == {Label("label0"), Deref("t0", P("v0")), None}

Menu ==
    {Function("main"), Goto("label0"), Addr("t0", "v0"), Fetch("t0", "v0"), Assign("v0", V("t0")),
     Assign("t0", C(-3)), Deref("t0", V("v0")), Dec("v0", 8), Param("v0"), Read("t0"), Call("t0", "main"),
     Return(V("v0")), Return(C(0)), Arg(P("v0")), Arg(C(1)), Write(V("t0"))}
      \cup {Arith(k, "t0", o, C(2)) : k \in ArithKinds, o \in {V("v0"), P("v0")}}
      \cup {If(k, V("v0"), C(0), "label0") : k \in IfKinds}
      \cup Few

MCFiles == UNION {[1..n -> Menu] : n \in 0..2} \cup [1..5 -> Few]
=============================================================================
