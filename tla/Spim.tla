-------------------------------- MODULE Spim --------------------------------
(***************************************************************************)
(* The MIPS32 simulator the assembly is written for, as far as the emitted *)
(* lines use it: seven registers, a .data word per label and a stack that  *)
(* grows down.  It is not part of the repository.                          *)
(***************************************************************************)
EXTENDS Integers, Sequences

CONSTANTS
    StackWords,          \* the words of stack a run may use
    Inputs               \* the numbers syscall 5 may read

VARIABLES
    data, text,          \* the assembled program
    pc,                  \* index into text; 0 is the exit $ra starts with
    reg,
    mem,                 \* address -> word
    status,              \* assembling, rejected, running, halted or fault
    printed              \* what syscall 1 has printed

Reg == {"zero", "v0", "a0", "t0", "t1", "t2", "lo", "sp", "ra"}
StackTop == 4000
Address(x) == 4 * (CHOOSE k \in DOMAIN data : data[k] = x)

(* The words above the top of the stack are those of argc and argv.        *)
ArgvWords == 4
Addresses ==
    {4 * k : k \in DOMAIN data} \cup {StackTop - 4 * k : k \in (1 - ArgvWords)..StackWords}

Ins == text[pc].ins
Line(l) == CHOOSE k \in DOMAIN text : text[k].ins = [op |-> "label", lab |-> l]
Marks == {k \in DOMAIN text : text[k].ins.op = "label"}

BranchOps == {"blt", "ble", "bgt", "bge", "bne", "beq"}
AluOps == {"add", "sub", "mul", "div"}
DataOps == {"la", "lwl", "swl"}
CodeOps == BranchOps \cup {"j", "jal"}

(* A line is accepted when the names it refers to are declared.            *)
Accepted(ins) ==
    /\ ins.op # "garbage"
    /\ ins.op \in DataOps => \E k \in DOMAIN data : data[k] = ins.lab
    /\ ins.op \in CodeOps => \E k \in Marks : text[k].ins.lab = ins.lab

(* Every name is declared once and main is there to be called.             *)
Assembles ==
    /\ \A k \in DOMAIN text : Accepted(text[k].ins)
    /\ \A j, k \in DOMAIN data : data[j] = data[k] => j = k
    /\ \A j, k \in Marks : text[j].ins.lab = text[k].ins.lab => j = k
    /\ \E k \in Marks : text[k].ins.lab = "main"

SpimInit ==
    /\ pc = 0 /\ status = "assembling" /\ printed = <<>>
    /\ reg = [r \in Reg |-> 0] /\ mem = <<>>

Assemble ==
    /\ status = "assembling"
    /\ IF Assembles
       THEN /\ status' = "running" /\ pc' = Line("main")
            /\ reg' = [reg EXCEPT !["sp"] = StackTop, !["ra"] = 0]
            /\ mem' = [a \in Addresses |-> 0]
       ELSE status' = "rejected" /\ UNCHANGED <<pc, reg, mem>>
    /\ UNCHANGED printed

-----------------------------------------------------------------------------
Do(ops) == status = "running" /\ pc \in DOMAIN text /\ Ins.op \in ops

Trunc(a, b) ==
    LET mag(n) == IF n < 0 THEN -n ELSE n
        q == mag(a) \div mag(b)
    IN  IF (a < 0) = (b < 0) THEN q ELSE -q

Computed(i) ==
    CASE i.op = "add" -> reg[i.s] + reg[i.t]
      [] i.op = "sub" -> reg[i.s] - reg[i.t]
      [] i.op = "mul" -> reg[i.s] * reg[i.t]
      [] i.op = "div" -> Trunc(reg[i.s], reg[i.t])
      [] i.op = "li" -> i.imm
      [] i.op = "move" -> reg[i.s]
      [] i.op = "addi" -> reg[i.s] + i.imm
      [] i.op = "la" -> Address(i.lab)

Taken(i) ==
    LET a == reg[i.s]  b == reg[i.t] IN
    CASE i.op = "blt" -> a < b [] i.op = "ble" -> a <= b [] i.op = "bgt" -> a > b
      [] i.op = "bge" -> a >= b [] i.op = "bne" -> a # b [] i.op = "beq" -> a = b

Place(i) == IF i.op \in {"lwl", "swl"} THEN Address(i.lab) ELSE reg[i.b] + i.off

Fault == status' = "fault" /\ UNCHANGED <<pc, reg, mem, printed>>

ToRegister ==
    /\ Do(AluOps \cup {"li", "move", "addi", "la"})
    /\ reg' = [reg EXCEPT ![Ins.d] = Computed(Ins)]
    /\ pc' = pc + 1
    /\ UNCHANGED <<mem, status, printed>>

LoadWord ==
    /\ Do({"lw", "lwl"})
    /\ IF Place(Ins) \in DOMAIN mem
       THEN /\ reg' = [reg EXCEPT ![Ins.d] = mem[Place(Ins)]]
            /\ pc' = pc + 1 /\ UNCHANGED <<mem, status, printed>>
       ELSE Fault

StoreWord ==
    /\ Do({"sw", "swl"})
    /\ IF Place(Ins) \in DOMAIN mem
       THEN /\ mem' = [mem EXCEPT ![Place(Ins)] = reg[Ins.s]]
            /\ pc' = pc + 1 /\ UNCHANGED <<reg, status, printed>>
       ELSE Fault

Transfer ==
    /\ Do({"label"} \cup CodeOps)
    /\ pc' = IF Ins.op = "label" \/ (Ins.op \in BranchOps /\ ~Taken(Ins))
             THEN pc + 1 ELSE Line(Ins.lab)
    /\ reg' = IF Ins.op = "jal" THEN [reg EXCEPT !["ra"] = pc + 1] ELSE reg
    /\ UNCHANGED <<mem, status, printed>>

JumpBack ==
    /\ Do({"jr"})
    /\ pc' = reg["ra"]
    /\ status' = IF pc' = 0 THEN "halted"
                 ELSE IF pc' \in DOMAIN text THEN "running" ELSE "fault"
    /\ UNCHANGED <<reg, mem, printed>>

SystemCall ==
    /\ Do({"syscall"})
    /\ \E n \in IF Ins.n = 5 THEN Inputs ELSE {Ins.n} : reg' = [reg EXCEPT !["v0"] = n]
    /\ printed' = IF Ins.n = 1 THEN Append(printed, reg["a0"]) ELSE printed
    /\ pc' = pc + 1
    /\ UNCHANGED <<mem, status>>

Execute == ToRegister \/ LoadWord \/ StoreWord \/ Transfer \/ JumpBack \/ SystemCall
=============================================================================
