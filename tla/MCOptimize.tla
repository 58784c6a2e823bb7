----------------------------- MODULE MCOptimize -----------------------------
(***************************************************************************)
(* Files for Optimized: every short body of main made of the lines below   *)
(* in which a label that is jumped to is there once, bodies of a function  *)
(* that main calls, and the example of doc/Phase3.md.  A function begins   *)
(* where the line before it does not always jump, as in every file the     *)
(* translator prints: its functions end with a RETURN or a LABEL.          *)
(***************************************************************************)
EXTENDS Optimized

N(n) == C(n)
Empty == [kind |-> "NONE"]

Jumps == {
    Goto("label0"), Goto("label1"),
    If("IFEQ", N(1), N(1), "label0"), If("IFNE", N(1), N(1), "label0"),
    If("IFNE", N(0), N(1), "label1"), If("IFGE", N(2), N(1), "label1"),
    If("IFLE", N(1), N(1), "label0"), If("IFLE", N(0), N(1), "label0"),
    If("IFGT", N(2), N(1), "label1"), If("IFLT", N(1), N(2), "label0"),
    If("IFGE", V("v0"), N(1), "label0"), If("IFEQ", N(1), V("v0"), "label1") }

Others == {Write(V("v0")), Arith("SUB", "v0", N(1), V("v0")), Empty}

Labels == {Label("label0"), Label("label1")}

Target(i) == {k \in {"label0", "label1"} : i.kind \in IfKinds \cup {"GOTO"} /\ i.labelno = k}

(* Labels are placed once and jumps have a target.                         *)
Complete(body) ==
    /\ \A j, k \in DOMAIN body : body[j].kind = "LABEL" /\ body[j] = body[k] => j = k
    /\ \A j \in DOMAIN body : \A l \in Target(body[j]) : \E k \in DOMAIN body : body[k] = Label(l)

Bodies(n) == {body \in [1..n -> Jumps \cup Others \cup Labels] : Complete(body)}

Mains ==
    {<<Function("main"), Read("v0")>> \o body \o <<Write(V("v0")), Return(N(0))>> :
        body \in Bodies(2) \cup Bodies(3)
                   \cup {<<j, o>> \o body : j \in Jumps, o \in Others, body \in Bodies(2)} }

(* The function ends where it can be reached: with a RETURN after a LABEL.  *)
Calls ==
    {<<Function("f"), Param("v0")>> \o body \o <<Return(V("v0")), Empty,
       Function("main"), Read("v1"), Arg(V("v1")), Call("t0", "f"), Write(V("t0")), Return(N(0))>> :
        body \in Bodies(3)}

(* A loop around a fold whose label is behind it, and addresses.           *)
Addresses ==
    {<<Function("main"), Dec("v1", 8), Read("v0"), Addr("t0", "v1"), Deref("t0", V("v0")), j,
       Goto("label1"), Deref("t0", N(7)), Label("label0"), Fetch("t1", "t0"), Write(V("t1")),
       Label("label1"), Assign("v0", N(2)), Write(V("v0")), Return(N(0))>> :
        j \in {i \in Jumps : Target(i) = {"label0"}}}

(* if (1>2) {int a=0; a=1+a; write(a);} else {write(- 1);}                 *)
Phase3 == <<
    Function("main"), If("IFLE", N(1), N(2), "label0"),
    Assign("v0", N(0)), Arith("ADD", "v0", N(1), V("v0")), Write(V("v0")),
    Goto("label2"), Label("label0"), Arith("SUB", "t1", N(0), N(1)), Write(V("t1")),
    Label("label2"), Return(N(0)) >>

MCPrograms == {file \in Mains \cup Calls \cup Addresses \cup {Phase3} : WellFormed(file)}

MCVar == {"v0", "v1", "t0", "t1"}
MCFunc == {"main", "f"}
MCLbl == {"label0", "label1", "label2"}
MCInputs == {0, 1}
MCPlaces == {100}
=============================================================================
