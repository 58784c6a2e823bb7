----------------------------- MODULE TacMachine -----------------------------
(***************************************************************************)
(* What a three-address program promises, whatever compiles it: every      *)
(* activation of a function has variables of its own, CALL hands the       *)
(* pending ARGs over (the last one first) and comes back to the caller     *)
(* with the caller's variables as they were, except for the one that takes *)
(* the result.  Reading a variable that has no value is not defined, and   *)
(* no step is.                                                             *)
(***************************************************************************)
EXTENDS Tac

VARIABLES
    prog,      \* the program
    ipc,       \* index of the next instruction; 0 when main has returned
    env,       \* the current activation's variables: a partial function
    actuals,   \* its arguments that no PARAM has taken yet
    pending,   \* ARGs waiting for a CALL, the last one first
    frames,    \* suspended activations, the newest first
    loc,       \* its variables that ADDR has been applied to, and their addresses
    wrote      \* what WRITE has printed

ivars == <<prog, ipc, env, actuals, pending, frames, loc, wrote>>

Next1 == ipc' = ipc + 1
Cur == prog[ipc]
Is(kinds) == ipc # 0 /\ Cur.kind \in kinds

Defined(o) ==
    \/ o.kind = "OP_CONSTANT"
    \/ o.kind = "OP_VARIABLE" /\ o.char_val \in DOMAIN env
    \/ o.kind = "OP_POINTER" /\ o.char_val \in DOMAIN loc

Value(o) ==
    CASE o.kind = "OP_CONSTANT" -> o.int_val
      [] o.kind = "OP_VARIABLE" -> env[o.char_val]
      [] o.kind = "OP_POINTER" -> loc[o.char_val]

(* f, but n at x.                                                          *)
With(f, x, n) == [y \in DOMAIN f \cup {x} |-> IF y = x THEN n ELSE f[y]]

Bind(o, n) == env' = With(env, o.char_val, n)

LabelAt(l) == CHOOSE i \in DOMAIN prog : prog[i].kind = "LABEL" /\ prog[i].labelno = l
FunctionAt(f) == CHOOSE i \in DOMAIN prog : prog[i].kind = "FUNCTION" /\ prog[i].funcname = f

Pass ==
    /\ Is({"LABEL", "FUNCTION", "DEC", "NONE"})
    /\ Next1
    /\ UNCHANGED <<env, actuals, pending, frames, loc, wrote>>

Compute ==
    /\ \/ Is({"ASSIGN"}) /\ Defined(Cur.right) /\ Bind(Cur.left, Value(Cur.right))
       \/ /\ Is(ArithKinds) /\ Defined(Cur.r1) /\ Defined(Cur.r2)
          /\ Cur.kind = "DIV" => Value(Cur.r2) # 0
          /\ Bind(Cur.left, Apply(Cur.kind, Value(Cur.r1), Value(Cur.r2)))
    /\ Next1
    /\ UNCHANGED <<actuals, pending, frames, loc, wrote>>

(* The place of a variable is chosen once, and differs from the others.    *)
TakeAddress(a) ==
    /\ Is({"ADDR"})
    /\ LET x == Cur.right.char_val IN
         /\ IF x \in DOMAIN loc THEN loc[x] = a ELSE \A y \in DOMAIN loc : loc[y] # a
         /\ loc' = With(loc, x, a)
    /\ Bind(Cur.left, a)
    /\ Next1
    /\ UNCHANGED <<actuals, pending, frames, wrote>>

Points(o, x) == Defined(o) /\ x \in DOMAIN loc /\ loc[x] = Value(o)

ThroughAddress ==
    /\ \E x \in DOMAIN loc :
         \/ Is({"FETCH"}) /\ Points(Cur.raddr, x) /\ x \in DOMAIN env /\ Bind(Cur.left, env[x])
         \/ Is({"DEREF"}) /\ Points(Cur.laddr, x) /\ Defined(Cur.right) /\ Bind(V(x), Value(Cur.right))
    /\ Next1
    /\ UNCHANGED <<actuals, pending, frames, loc, wrote>>

Jump ==
    /\ \/ Is({"GOTO"}) /\ ipc' = LabelAt(Cur.labelno)
       \/ /\ Is(IfKinds) /\ Defined(Cur.c1) /\ Defined(Cur.c2)
          /\ IF Holds(Cur.kind, Value(Cur.c1), Value(Cur.c2))
             THEN ipc' = LabelAt(Cur.labelno)
             ELSE Next1
    /\ UNCHANGED <<env, actuals, pending, frames, loc, wrote>>

PushArg ==
    /\ Is({"ARG"}) /\ Defined(Cur.var)
    /\ pending' = <<Value(Cur.var)>> \o pending
    /\ Next1
    /\ UNCHANGED <<env, actuals, frames, loc, wrote>>

TakeParam ==
    /\ Is({"PARAM"}) /\ actuals # <<>>
    /\ Bind(Cur.var, Head(actuals))
    /\ actuals' = Tail(actuals)
    /\ Next1
    /\ UNCHANGED <<pending, frames, loc, wrote>>

Enter ==
    /\ Is({"CALL"})
    /\ frames' = <<[ret |-> Cur.ret, back |-> ipc + 1, env |-> env, loc |-> loc, actuals |-> actuals]>>
                   \o frames
    /\ ipc' = FunctionAt(Cur.funcname)
    /\ env' = <<>> /\ loc' = <<>> /\ actuals' = pending /\ pending' = <<>>
    /\ UNCHANGED wrote

Leave ==
    /\ Is({"RETURN"}) /\ Defined(Cur.var)
    /\ IF frames = <<>>
       THEN ipc' = 0 /\ UNCHANGED <<env, loc, actuals, frames>>
       ELSE LET f == Head(frames) IN
              /\ env' = With(f.env, f.ret.char_val, Value(Cur.var))
              /\ loc' = f.loc /\ actuals' = f.actuals
              /\ ipc' = f.back
              /\ frames' = Tail(frames)
    /\ UNCHANGED <<pending, wrote>>

Input(n) ==
    /\ Is({"READ"}) /\ Bind(Cur.var, n) /\ Next1
    /\ UNCHANGED <<actuals, pending, frames, loc, wrote>>

Output ==
    /\ Is({"WRITE"}) /\ Defined(Cur.var)
    /\ wrote' = Append(wrote, Value(Cur.var))
    /\ Next1
    /\ UNCHANGED <<env, actuals, pending, frames, loc>>

Start ==
    /\ ipc = FunctionAt("main") /\ env = <<>> /\ actuals = <<>>
    /\ pending = <<>> /\ frames = <<>> /\ loc = <<>> /\ wrote = <<>>

(* n: the number a READ receives; a: the place an ADDR is given.           *)
Run(n, a) ==
    /\ \/ Pass \/ Compute \/ TakeAddress(a) \/ ThroughAddress \/ Jump
       \/ PushArg \/ TakeParam \/ Enter \/ Leave \/ Input(n) \/ Output
    /\ UNCHANGED prog
=============================================================================
