------------------------------ MODULE FrontEnd ------------------------------
(***************************************************************************)
(* The front program, and what it is for: Translate produces three-address *)
(* code from a program, printTacs writes it to a file, Optimize copies the *)
(* file, TacMemory runs the copy on some input, and what that writes is    *)
(* compared with what the program means (Spl).                             *)
(***************************************************************************)
EXTENDS Translate

CONSTANT Inputs        \* sequences of numbers to read

VARIABLES
    tac, at, isUnreachable, labels, out,                      \* Optimize
    prog, ipc, env, actuals, pending, frames, loc, wrote, words,   \* TacMemory
    given, input,                                             \* its input; what is still to be read
    means                                                     \* for each input, what should be written

Var == {generateV(n) : n \in Nat} \cup {generateT(n) : n \in Nat}
Lbl == {generateLabel(n) : n \in Nat}

IR == INSTANCE TacMemory WITH Func <- STRING
Opt == INSTANCE Optimize WITH Func <- STRING, Programs <- {}

ovars == <<tac, at, isUnreachable, labels, out>>
mvars == <<prog, ipc, env, actuals, pending, frames, loc, wrote, words, given, input, means>>
vars == <<tvars, ovars, mvars>>

(* The line printTacs writes for each instruction, as its readers see it.  *)
Operand(tag) ==
    CASE tag.sort = "#" -> IR!C(tag.n)
      [] tag.sort = "#-" -> IR!C(0)
      [] tag.sort = "&v" -> IR!P(generateV(tag.n))
      [] tag.sort \in {"v", "t"} -> IR!V(tag)

TacOps == [PLUS |-> "ADD", MINUS |-> "SUB", MUL |-> "MUL", DIV |-> "DIV"]

Line(t) ==
    CASE t.title = "FUNC" -> IR!Function(t.target.f.sort)
      [] t.title = "READ" -> IR!Read(t.target)
      [] t.title = "WRITE" -> IR!Write(Operand(t.target))
      [] t.title = "LABEL" -> IR!Label(t.target)
      [] t.title = "GOTO" -> IR!Goto(t.target)
      [] t.title = "IF" -> IR!If("IF" \o t.arg1.op, Operand(t.arg1.l), Operand(t.arg1.r), t.target)
      [] t.title = "ASS" /\ t.target.sort = "*" ->
            [kind |-> "DEREF", laddr |-> Operand(t.target.of), right |-> Operand(t.arg1)]
      [] t.title = "ASS" /\ t.arg1.sort = "*" ->
            [kind |-> "FETCH", left |-> IR!V(t.target), raddr |-> Operand(t.arg1.of)]
      [] t.title = "ASS" /\ t.arg1.sort = "call" -> IR!Call(t.target, t.arg1.f.sort)
      [] t.title = "ASS" /\ "*" # t.target.sort /\ t.arg1.sort \notin {"*", "call"} ->
            IR!Assign(t.target, Operand(t.arg1))
      [] t.title = "OPER" -> IR!Arith(TacOps[t.op], t.target, Operand(t.arg1), Operand(t.arg2))
      [] t.title = "RETURN" -> IR!Return(Operand(t.target))
      [] t.title = "PARAM" -> IR!Param(t.target)
      [] t.title = "ARG" -> IR!Arg(Operand(t.target))
      [] t.title = "DEC" -> IR!Dec(t.arg1, t.arg2.n)

(* A function after the first has an empty line before it.                 *)
printTacs(list) ==
    FlattenSeq([k \in DOMAIN list |->
        IF k \in Unprinted(list) THEN <<>>
        ELSE IF list[k].title = "FUNC" /\ k > 1 THEN <<[kind |-> "NONE"], Line(list[k])>>
        ELSE <<Line(list[k])>>])

Meant == INSTANCE Spl

FrontInit ==
    /\ TransInit
    /\ tac = <<>> /\ at = 1 /\ isUnreachable = FALSE /\ labels = {} /\ out = <<>>
    /\ prog = <<>> /\ ipc = 1 /\ env = <<>> /\ actuals = <<>> /\ pending = <<>>
    /\ frames = <<>> /\ loc = <<>> /\ wrote = <<>> /\ words = <<>> /\ given = <<>> /\ input = <<>>
    /\ means = [in \in Inputs |-> Meant!Meaning(source, in)]

Translated == agenda = <<>>

Walk == Parse /\ UNCHANGED <<ovars, mvars>>

WriteFile ==
    /\ Translated /\ tac = <<>>
    /\ tac' = printTacs(tacs)
    /\ UNCHANGED <<tvars, at, isUnreachable, labels, out, mvars>>

Rewrite == Opt!Optimizing /\ UNCHANGED <<tvars, mvars>>

Rewritten == tac # <<>> /\ at > Len(tac)

Load ==
    /\ Rewritten /\ prog = <<>>
    /\ prog' = [p \in DOMAIN out |-> out[p].ins]
    /\ ipc' = CHOOSE p \in DOMAIN prog' : prog'[p] = IR!Function("main")
    /\ given' \in Inputs /\ input' = given'
    /\ UNCHANGED <<tvars, ovars, means, env, actuals, pending, frames, loc, wrote, words>>

(* Places are given one after the other.                                   *)
RunTac ==
    /\ prog # <<>> /\ ipc # 0
    /\ IF IR!Is({"READ"})
       THEN IR!RunMemory(Head(input), 0) /\ input' = Tail(input)
       ELSE IR!RunMemory(0, 4 * Cardinality(DOMAIN words)) /\ UNCHANGED input
    /\ UNCHANGED <<tvars, ovars, given, means>>

Returned == ipc = 0 /\ UNCHANGED vars

FrontNext == Walk \/ WriteFile \/ Rewrite \/ Load \/ RunTac \/ Returned

FrontSpec == FrontInit /\ [][FrontNext]_vars /\ WF_vars(FrontNext)

-----------------------------------------------------------------------------
Functions == {k \in DOMAIN source : source[k].kind = "fun"}

(* The file is one that Optimized takes, if the program defines no function *)
(* twice: a label is placed once and what is jumped to is placed, a called   *)
(* function and main are there once, and none begins behind a jump, where    *)
(* the optimizer would delete what follows its FUNCTION line.               *)
FileWellFormed ==
    Rewritten /\ prog = <<>> /\ (\A i, j \in Functions : source[i].f = source[j].f => i = j)
        => Opt!WellFormed(tac)

(* The code of a program writes what the program means: never anything      *)
(* else, and all of it before main returns.                                 *)
OutputAgrees ==
    prog # <<>> =>
        /\ Len(wrote) <= Len(means[given]) /\ wrote = SubSeq(means[given], 1, Len(wrote))
        /\ ipc = 0 => wrote = means[given]

(* The code is never stuck - it reads no variable that has no value, jumps  *)
(* only to labels that are there, finds a function and its arguments - and  *)
(* main returns, for programs that do.                                      *)
Terminates == <>(ipc = 0)
=============================================================================
