----------------------------- MODULE Optimized -----------------------------
(***************************************************************************)
(* Optimize reads a file, and TacMachine runs the lines it has written.    *)
(* Under a map of each line written to the line it was copied from, what   *)
(* is run is a run of the file that was read.                              *)
(***************************************************************************)
EXTENDS Optimize

CONSTANTS
    Inputs,           \* the numbers a READ may receive
    Places,           \* the addresses an ADDR may be given
    MaxWrote          \* bound on the numbers written

ASSUME OptimizedAssumption == \A file \in Programs : WellFormed(file)

VARIABLES prog, ipc, env, actuals, pending, frames, loc, wrote

mvars == <<prog, ipc, env, actuals, pending, frames, loc, wrote>>
vars == <<ovars, mvars>>

New == INSTANCE TacMachine

Load ==
    /\ at > Len(tac) /\ prog = <<>>
    /\ prog' = [p \in DOMAIN out |-> out[p].ins]
    /\ ipc' = CHOOSE p \in DOMAIN out : out[p].ins = Function("main")
    /\ UNCHANGED <<ovars, env, actuals, pending, frames, loc, wrote>>

RunNew ==
    /\ prog # <<>> /\ ipc \in 1..Len(prog) /\ Len(wrote) < MaxWrote
    /\ \E n \in Inputs, a \in Places : New!Run(n, a)
    /\ UNCHANGED ovars

(* main has returned, the bound is reached, or the program has no step: it  *)
(* ran off its end or reads a variable that has no value.                   *)
Stopped == prog # <<>> /\ UNCHANGED vars

Init ==
    /\ OptInit
    /\ prog = <<>> /\ ipc = 0 /\ env = <<>> /\ actuals = <<>>
    /\ pending = <<>> /\ frames = <<>> /\ loc = <<>> /\ wrote = <<>>

Next == (Optimizing /\ UNCHANGED mvars) \/ Load \/ RunNew \/ Stopped

Spec == Init /\ [][Next]_vars

-----------------------------------------------------------------------------
(* The line of the file that line p of the output stands for.              *)
Line(p) ==
    CASE p = 0 -> 0
      [] p \in DOMAIN out -> out[p].of
      [] p = Len(out) + 1 -> Len(tac) + 1

Old == INSTANCE TacMachine WITH
    prog <- tac,
    ipc <- IF prog = <<>> THEN CHOOSE i \in DOMAIN tac : tac[i] = Function("main") ELSE Line(ipc),
    frames <- [k \in DOMAIN frames |-> [frames[k] EXCEPT !.back = Line(@)]]

(* Every run of the optimized file is a run of the original: it takes the   *)
(* same branches, computes the same values and writes the same numbers.     *)
OldSteps == \E n \in Inputs, a \in Places : Old!Run(n, a)

RunsOriginal == Old!Start /\ [][OldSteps]_(Old!ivars)
=============================================================================
