------------------------------- MODULE BackEnd -------------------------------
(***************************************************************************)
(* The back end and what it is for: the assembly of a program runs, and    *)
(* beside it the three-address program it comes from.  The program takes a *)
(* step each time the machine completes the lines of the instruction it is *)
(* at (for a CALL, when it jumps), and the two are compared whenever the   *)
(* machine is about to start the lines of an instruction.                  *)
(***************************************************************************)
EXTENDS MipsGen, FiniteSets

CONSTANTS
    StackWords,        \* the words of stack a run may use
    Inputs             \* the numbers READ may receive

(* The words of .data are far below the stack, by a frame or more.         *)
ASSUME BackEndAssumption ==
    /\ StackWords \in Nat /\ Inputs \subseteq Int
    /\ IsFiniteSet(Var) /\ 2 * Cardinality(Var) + 1 + StackWords < 1000

VARIABLES
    pc, reg, mem, status, printed,                        \* the machine
    ipc, env, actuals, pending, frames, loc, wrote        \* the program

INSTANCE Spim
IR == INSTANCE TacMachine WITH prog <- tac
svars == <<pc, reg, mem, status, printed>>
ivars == <<ipc, env, actuals, pending, frames, loc, wrote>>
vars == <<gvars, svars, ivars>>

BackInit ==
    /\ Init /\ SpimInit
    /\ ipc = 0 /\ env = <<>> /\ actuals = <<>> /\ pending = <<>>
    /\ frames = <<>> /\ loc = <<>> /\ wrote = <<>>

Compile == GenNext /\ UNCHANGED <<svars, ivars>>

Begin ==
    /\ gen = "done" /\ Assemble
    /\ ipc' = IF Assembles THEN IR!FunctionAt("main") ELSE 0
    /\ UNCHANGED gvars /\ UNCHANGED <<env, actuals, pending, frames, loc, wrote>>

(* NONE and DEC have no lines: the program goes past them on its own.      *)
Silent == ipc # 0 /\ IR!Is({"NONE", "DEC"})

GoPast ==
    /\ status = "running" /\ Silent
    /\ IR!Run(0, 0)
    /\ UNCHANGED <<gvars, svars>>

Completes(k) ==
    LET i == text[k].of IN
    IF tac[i].kind = "CALL"
    THEN text[k].ins.op = "jal"
    ELSE k = Len(text) \/ text[k + 1].of # i

RunLine ==
    /\ ~Silent /\ Execute
    /\ IF ipc # 0 /\ text[pc].of = ipc /\ Completes(pc) /\ status' # "fault"
       THEN IR!Run(reg["v0"], reg["t0"])
       ELSE UNCHANGED ivars
    /\ UNCHANGED gvars

Stopped ==
    /\ \/ status \in {"halted", "rejected", "fault"}
       \/ status = "running" /\ pc \notin DOMAIN text
    /\ UNCHANGED vars

Next == Compile \/ Begin \/ GoPast \/ RunLine \/ Stopped

Spec == BackInit /\ [][Next]_vars /\ WF_vars(Next)

-----------------------------------------------------------------------------
TypeOK ==
    /\ GenTypeOK
    /\ status \in {"assembling", "rejected", "running", "halted", "fault"}
    /\ pc \in Nat /\ ipc \in 0..Len(tac)
    /\ DOMAIN reg = Reg /\ \A r \in Reg : reg[r] \in Int

(* Starting: the next line is the first one of some instruction.            *)
Starting ==
    /\ status = "running" /\ pc \in DOMAIN text /\ ~Silent
    /\ text[pc].of # 0 /\ text[pc - 1].of # text[pc].of

(* The machine is where the program is: jumps reach the label's lines, and  *)
(* jr $ra finds in $ra the address of the call that is being answered,      *)
(* whatever calls the function made itself.                                 *)
ControlAgrees == Starting => text[pc].of = ipc

(* Every variable with a value is in its word of .data with that value,     *)
(* although all activations share the words: emit_call saves them before    *)
(* the jump and restores them after it.                                     *)
VariablesAgree ==
    Starting => \A x \in DOMAIN env : mem[Address(x)] = env[x]

(* The stack holds the pending arguments, and nothing else once main is the *)
(* only activation: each call gives back its frame and its arguments.       *)
StackBalanced ==
    Starting \/ status = "halted" =>
        /\ \A k \in DOMAIN pending : mem[reg["sp"] + 4 * (k - 1)] = pending[k]
        /\ frames = <<>> => reg["sp"] = StackTop - 4 * Len(pending)

(* What has been printed is what the program writes.                        *)
OutputAgrees == Starting \/ status = "halted" => printed = wrote

(* No access outside .data and the stack, no jump out of the text and no    *)
(* running off its end.                                                     *)
NeverFaults == status # "fault" /\ (status = "running" => pc \in DOMAIN text)

(* The assembler takes the output: every label it refers to is declared.    *)
AlwaysAssembles == status # "rejected"

(* The machine stops when the program does: the programs checked with this  *)
(* property return from main.                                               *)
Terminates == <>(status = "halted" /\ ipc = 0)
=============================================================================
