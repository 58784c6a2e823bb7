----------------------------- MODULE MCMipsGen -----------------------------
(***************************************************************************)
(* Every list of at most two instructions over two variables, and every    *)
(* pair with a CALL between, whether or not it makes a program.            *)
(***************************************************************************)
EXTENDS MipsGen

MCVar == {"v0", "t0"}
MCFunc == {"main"}
MCLbl == {"label0"}

Operands == {V("v0"), V("t0"), C(0), C(3)}

Menu ==
    {Label("label0"), Function("main"), Goto("label0"), Addr("t0", "v0"), Fetch("t0", "v0"),
     Dec("v0", 8), Param("v0"), Param("t0"), Read("t0"), Call("t0", "main"), [kind |-> "NONE"]}
      \cup {Assign(x, o) : x \in MCVar, o \in Operands}
      \cup {Arith(k, "t0", V("v0"), o) : k \in ArithKinds, o \in {C(3), P("v0")}}
      \cup {If(k, V("v0"), C(0), "label0") : k \in {"IFLT", "IFEQ"}}
      \cup {Deref("t0", o) : o \in {V("v0"), C(3)}}
      \cup {Return(V("v0")), Return(C(0)), Arg(V("v0")), Arg(P("v0")), Write(V("t0")), Write(C(3))}

Lists == UNION {[1..n -> Menu] : n \in 0..2}
           \cup {<<i, Call("t0", "main"), j>> : i, j \in Menu}
=============================================================================
