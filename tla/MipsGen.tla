------------------------------ MODULE MipsGen ------------------------------
(***************************************************************************)
(* mips32.c: the walk that turns a TAC list into MIPS32 assembly.          *)
(*                                                                         *)
(* The generator keeps four globals.  all_variables, the linked list that  *)
(* becomes the .data section and that every CALL saves and restores, is    *)
(* built by a first pass over the list; all_variables_count is its length  *)
(* as counted before any code is emitted; arg_count counts the ARGs since  *)
(* the last CALL and param_count the PARAMs since the last CALL.  The last *)
(* three are baked into the offsets of the code that is emitted.           *)
(*                                                                         *)
(* A line of assembly is a record; `of' is the instruction it comes from,  *)
(* 0 for the two routines of the runtime.                                  *)
(*                                                                         *)
(* The operators whose name has a suffix after an underscore are wrong     *)
(* versions of the one that follows; the runs are repeated with each of    *)
(* them to see that a property notices.                                    *)
(***************************************************************************)
EXTENDS Tac, SequencesExt

CONSTANT Programs         \* the lists tac_from_buffer may return

ASSUME ProgramsAssumption == Programs \subseteq Seq(Inst)

VARIABLES
    tac,                  \* the list being compiled
    gen,                  \* where emit_code is: collect, prologue, emit, done
    cur,                  \* current_tac and then tac_code, as an index
    all_variables,        \* names, the newest node first
    all_variables_count,
    arg_count,
    param_count,
    data,                 \* the labels of the .data section, in order
    text                  \* the assembly emitted so far

gvars == <<tac, gen, cur, all_variables, all_variables_count,
           arg_count, param_count, data, text>>

-----------------------------------------------------------------------------
(* Assembly.  lwl/swl name a .data label, lw/sw an offset from a register. *)

Li(d, n) == [op |-> "li", d |-> d, imm |-> n]
Move(d, s) == [op |-> "move", d |-> d, s |-> s]
La(d, x) == [op |-> "la", d |-> d, lab |-> x]
Lwl(d, x) == [op |-> "lwl", d |-> d, lab |-> x]
Swl(s, x) == [op |-> "swl", s |-> s, lab |-> x]
Lw(d, off, b) == [op |-> "lw", d |-> d, off |-> off, b |-> b]
Sw(s, off, b) == [op |-> "sw", s |-> s, off |-> off, b |-> b]
Addi(d, s, n) == [op |-> "addi", d |-> d, s |-> s, imm |-> n]
Alu(o, d, s, t) == [op |-> o, d |-> d, s |-> s, t |-> t]
Branch(o, s, t, l) == [op |-> o, s |-> s, t |-> t, lab |-> l]
J(l) == [op |-> "j", lab |-> l]
Jal(f) == [op |-> "jal", lab |-> f]
Jr == [op |-> "jr"]
Syscall(n) == [op |-> "syscall", n |-> n]     \* li $v0, n before it
Mark(l) == [op |-> "label", lab |-> l]
Garbage == [op |-> "garbage"]                 \* printf("%s", NULL)

(* loadVar2Reg: a constant, a variable, or no instruction at all.          *)
Load(o, r) ==
    CASE o.kind = "OP_CONSTANT" /\ o.int_val = 0 -> Move(r, "zero")
      [] o.kind = "OP_CONSTANT" /\ o.int_val # 0 -> Li(r, o.int_val)
      [] o.kind = "OP_VARIABLE" -> Lwl(r, o.char_val)
      [] OTHER -> Garbage

-----------------------------------------------------------------------------
AddVariable_NoCheck(list, x) == <<x>> \o list

(* add_variable prepends a name that is not in the list.                   *)
AddVariable(list, x) == IF Contains(list, x) THEN list ELSE <<x>> \o list

AddOperand(list, o) == IF o.kind = "OP_VARIABLE" THEN AddVariable(list, o.char_val) ELSE list

Collected_LeftOnly(list, i) ==
    IF i.kind = "ASSIGN" THEN AddOperand(list, i.left)
    ELSE IF i.kind \in ArithKinds THEN AddOperand(list, i.left)
    ELSE IF i.kind \in {"READ", "WRITE"} THEN AddOperand(list, i.var)
    ELSE IF i.kind = "CALL" THEN AddOperand(list, i.ret)
    ELSE list

(* The operands of i that collect_variables looks at: those of a PARAM, an *)
(* ARG, a RETURN, a comparison or an address are not among them.           *)
Collected(list, i) ==
    IF i.kind = "ASSIGN" THEN AddOperand(AddOperand(list, i.left), i.right)
    ELSE IF i.kind \in ArithKinds
         THEN AddOperand(AddOperand(AddOperand(list, i.left), i.r1), i.r2)
    ELSE IF i.kind \in {"READ", "WRITE"} THEN AddOperand(list, i.var)
    ELSE IF i.kind = "CALL" THEN AddOperand(list, i.ret)
    ELSE list

Init ==
    /\ tac \in Programs
    /\ gen = "collect" /\ cur = 1
    /\ all_variables = <<>> /\ all_variables_count = 0
    /\ arg_count = 0 /\ param_count = 0
    /\ data = <<>> /\ text = <<>>

(* collect_variables, one instruction of the list.                         *)
Collect ==
    /\ gen = "collect" /\ cur <= Len(tac)
    /\ all_variables' = Collected(all_variables, tac[cur])
    /\ cur' = cur + 1
    /\ UNCHANGED <<tac, gen, all_variables_count, arg_count, param_count, data, text>>

Runtime ==
    LET read == <<Mark("read"), Syscall(4), Syscall(5), Jr>>
        write == <<Mark("write"), Syscall(1), Syscall(4), Move("v0", "zero"), Jr>>
    IN  [k \in 1..Len(read \o write) |-> [of |-> 0, ins |-> (read \o write)[k]]]

(* count_variables, emit_data_section, emit_preamble and the two routines. *)
Prologue ==
    /\ gen = "collect" /\ cur > Len(tac)
    /\ all_variables_count' = all_variables_count + Len(all_variables)
    /\ data' = all_variables
    /\ text' = Runtime
    /\ gen' = "emit" /\ cur' = 1
    /\ UNCHANGED <<tac, all_variables, arg_count, param_count>>

-----------------------------------------------------------------------------
(* The emitters.  Each appends its lines and moves on to the next node.    *)

At(kinds) == gen = "emit" /\ cur <= Len(tac) /\ tac[cur].kind \in kinds

Out_SkipsNode(lines) ==
    /\ text' = text \o [k \in 1..Len(lines) |-> [of |-> cur, ins |-> lines[k]]]
    /\ cur' = cur + 2
    /\ UNCHANGED <<tac, gen, all_variables_count, data>>

Out(lines) ==
    /\ text' = text \o [k \in 1..Len(lines) |-> [of |-> cur, ins |-> lines[k]]]
    /\ cur' = cur + 1
    /\ UNCHANGED <<tac, gen, all_variables_count, data>>

Counters == <<all_variables, arg_count, param_count>>

EmitLabel == At({"LABEL"}) /\ Out(<<Mark(tac[cur].labelno)>>) /\ UNCHANGED Counters

EmitFunction == At({"FUNCTION"}) /\ Out(<<Mark(tac[cur].funcname)>>) /\ UNCHANGED Counters

(* emit_assign registers its operands again, after the variables have been *)
(* counted and the .data section has been written.                         *)
EmitAssign ==
    /\ At({"ASSIGN"})
    /\ LET i == tac[cur]
           withLeft == AddVariable(all_variables, i.left.char_val)
       IN  /\ all_variables' = IF i.right.kind # "OP_CONSTANT"
                               THEN AddVariable(withLeft, i.right.char_val)
                               ELSE withLeft
           /\ Out(<<Load(i.right, "t0"), Swl("t0", i.left.char_val)>>)
    /\ UNCHANGED <<arg_count, param_count>>

ArithOp == [k \in ArithKinds |->
              CASE k = "ADD" -> <<Alu("add", "t2", "t0", "t1")>>
                [] k = "SUB" -> <<Alu("sub", "t2", "t0", "t1")>>
                [] k = "MUL" -> <<Alu("mul", "t2", "t0", "t1")>>
                [] k = "DIV" -> <<Alu("div", "lo", "t0", "t1"), Move("t2", "lo")>>]

EmitArith ==
    /\ At(ArithKinds)
    /\ LET i == tac[cur] IN
         Out(<<Load(i.r1, "t0"), Load(i.r2, "t1")>> \o ArithOp[i.kind]
               \o <<Swl("t2", i.left.char_val)>>)
    /\ UNCHANGED Counters

EmitAddr ==
    /\ At({"ADDR"})
    /\ LET i == tac[cur] IN Out(<<La("t0", i.right.char_val), Swl("t0", i.left.char_val)>>)
    /\ UNCHANGED Counters

EmitFetch ==
    /\ At({"FETCH"})
    /\ LET i == tac[cur] IN
         Out(<<Lwl("t0", i.raddr.char_val), Lw("t1", 0, "t0"), Swl("t1", i.left.char_val)>>)
    /\ UNCHANGED Counters

(* The address goes to $t1 and the value to $t0.                           *)
EmitDeref ==
    /\ At({"DEREF"})
    /\ LET i == tac[cur] IN
         Out(<<Lwl("t0", i.right.char_val), Lwl("t1", i.laddr.char_val), Sw("t1", 0, "t0")>>)
    /\ UNCHANGED Counters

EmitGoto == At({"GOTO"}) /\ Out(<<J(tac[cur].labelno)>>) /\ UNCHANGED Counters

BranchOp_StrictLe == [k \in IfKinds |->
               CASE k = "IFLT" -> "blt" [] k = "IFLE" -> "blt" [] k = "IFGT" -> "bgt"
                 [] k = "IFGE" -> "bge" [] k = "IFNE" -> "bne" [] k = "IFEQ" -> "beq"]

BranchOp == [k \in IfKinds |->
               CASE k = "IFLT" -> "blt" [] k = "IFLE" -> "ble" [] k = "IFGT" -> "bgt"
                 [] k = "IFGE" -> "bge" [] k = "IFNE" -> "bne" [] k = "IFEQ" -> "beq"]

EmitIf ==
    /\ At(IfKinds)
    /\ LET i == tac[cur] IN
         Out(<<Load(i.c1, "t0"), Load(i.c2, "t1"),
               Branch(BranchOp[i.kind], "t0", "t1", i.labelno)>>)
    /\ UNCHANGED Counters

EmitReturn ==
    /\ At({"RETURN"})
    /\ LET o == tac[cur].var IN
         Out(<<IF o.kind = "OP_CONSTANT" THEN Li("v0", o.int_val) ELSE Lwl("v0", o.char_val), Jr>>)
    /\ UNCHANGED Counters

(* emit_dec records an offset that no other emitter reads.                 *)
EmitDec == At({"DEC"}) /\ Out(<<>>) /\ UNCHANGED Counters

EmitArg_Up ==
    /\ At({"ARG"})
    /\ Out(<<Load(tac[cur].var, "t0"), Addi("sp", "sp", 4), Sw("t0", 0, "sp")>>)
    /\ arg_count' = arg_count + 1
    /\ UNCHANGED <<all_variables, param_count>>

EmitArg ==
    /\ At({"ARG"})
    /\ Out(<<Load(tac[cur].var, "t0"), Addi("sp", "sp", -4), Sw("t0", 0, "sp")>>)
    /\ arg_count' = arg_count + 1
    /\ UNCHANGED <<all_variables, param_count>>

(* Words are saved upward from $sp in the order of the list, $ra above.    *)
SaveAll ==
    [k \in 1..(2 * Len(all_variables)) |->
        LET n == (k - 1) \div 2 IN
        IF k % 2 = 1 THEN Lwl("t0", all_variables[n + 1]) ELSE Sw("t0", 4 * n, "sp")]
RestoreAll ==
    [k \in 1..(2 * Len(all_variables)) |->
        LET n == (k - 1) \div 2 IN
        IF k % 2 = 1 THEN Lw("t0", 4 * n, "sp") ELSE Swl("t0", all_variables[n + 1])]

RaOffset_Last == 4 * Len(all_variables) - 4
Popped_KeepsArgs == 4 * all_variables_count + 4

(* The frame is sized by the counter, what fills it is the list.           *)
FrameSize == 4 * all_variables_count + 4
RaOffset == 4 * Len(all_variables)
Popped == FrameSize + 4 * arg_count

EmitCall ==
    /\ At({"CALL"})
    /\ LET i == tac[cur] IN
         Out(<<Addi("sp", "sp", -FrameSize)>> \o SaveAll
               \o <<Sw("ra", RaOffset, "sp"), Jal(i.funcname)>>
               \o RestoreAll
               \o <<Lw("ra", RaOffset, "sp"), Addi("sp", "sp", Popped),
                    Swl("v0", i.ret.char_val)>>)
    /\ param_count' = 0
    /\ arg_count' = 0
    /\ UNCHANGED all_variables

EmitParam ==
    /\ At({"PARAM"})
    /\ Out(<<Lw("t0", 4 * param_count + FrameSize, "sp"),
             Swl("t0", tac[cur].var.char_val)>>)
    /\ param_count' = param_count + 1
    /\ UNCHANGED <<all_variables, arg_count>>

AroundCall_NoRa(f) == <<Jal(f)>>

AroundCall(f) ==
    <<Addi("sp", "sp", -4), Sw("ra", 0, "sp"), Jal(f), Lw("ra", 0, "sp"), Addi("sp", "sp", 4)>>

EmitRead ==
    /\ At({"READ"})
    /\ Out(AroundCall("read") \o <<Swl("v0", tac[cur].var.char_val)>>)
    /\ UNCHANGED Counters

EmitWrite_OtherRegister ==
    /\ At({"WRITE"})
    /\ LET o == tac[cur].var IN
         Out(<<IF o.kind = "OP_CONSTANT" THEN Li("v0", o.int_val) ELSE Lwl("v0", o.char_val)>>
               \o AroundCall("write"))
    /\ UNCHANGED Counters

EmitWrite ==
    /\ At({"WRITE"})
    /\ LET o == tac[cur].var IN
         Out(<<IF o.kind = "OP_CONSTANT" THEN Li("a0", o.int_val) ELSE Lwl("a0", o.char_val)>>
               \o AroundCall("write"))
    /\ UNCHANGED Counters

SkipNone ==
    /\ At({"NONE"})
    /\ cur' = cur + 1
    /\ UNCHANGED <<tac, gen, all_variables_count, data, text>> /\ UNCHANGED Counters

Finish ==
    /\ gen = "emit" /\ cur > Len(tac)
    /\ gen' = "done"
    /\ UNCHANGED <<tac, cur, all_variables, all_variables_count, arg_count, param_count, data, text>>

GenNext ==
    \/ Collect \/ Prologue
    \/ EmitLabel \/ EmitFunction \/ EmitAssign \/ EmitArith \/ EmitAddr \/ EmitFetch
    \/ EmitDeref \/ EmitGoto \/ EmitIf \/ EmitReturn \/ EmitDec \/ EmitArg \/ EmitCall
    \/ EmitParam \/ EmitRead \/ EmitWrite \/ SkipNone \/ Finish

GenSpec == Init /\ [][GenNext]_gvars

-----------------------------------------------------------------------------
(* What the emitters take for granted of a list and do not look at.        *)

NoLines == {"NONE", "DEC"}

(* arg_count is the number of arguments of a CALL, and the words they are   *)
(* pushed to are next to its frame, if the ARGs stand directly before it.   *)
ArgsBeforeCall(p) ==
    \A i \in DOMAIN p : p[i].kind = "ARG" => i < Len(p) /\ p[i + 1].kind \in {"ARG", "CALL"}

(* param_count is the number of a PARAM in its function if the PARAMs stand *)
(* at its beginning and there is a CALL between those of two functions.     *)
ParamsFirst(p) ==
    /\ \A i \in DOMAIN p : p[i].kind = "PARAM" => i > 1 /\ p[i - 1].kind \in {"FUNCTION", "PARAM"}
    /\ \A i, j \in DOMAIN p :
          i < j /\ p[i].kind = "PARAM" /\ p[j].kind = "PARAM" /\ p[j - 1].kind = "FUNCTION" =>
              \E k \in i..j : p[k].kind = "CALL"

(* Nothing runs into what begins at i.                                      *)
Sealed(p, i) ==
    \E j \in 1..i - 1 : p[j].kind \in {"RETURN", "GOTO"} /\ \A k \in j + 1..i - 1 : p[k].kind \in NoLines

Supported(p) ==
    /\ \E i \in DOMAIN p : p[i] = Function("main")
    /\ \A i \in DOMAIN p : p[i].kind = "CALL" => \E j \in DOMAIN p : p[j] = Function(p[i].funcname)
    /\ \A i \in DOMAIN p : p[i].kind \in IfKinds \cup {"GOTO"} =>
           \E j \in DOMAIN p : p[j] = Label(p[i].labelno)
    /\ \A i \in DOMAIN p : p[i].kind = "FUNCTION" /\ i > 1 => Sealed(p, i)
    /\ Sealed(p, Len(p) + 1)
    /\ ArgsBeforeCall(p) /\ ParamsFirst(p)
    /\ \A i \in DOMAIN p : p[i].kind # "DEREF"
    /\ \A i \in DOMAIN p : p[i].kind \in {"RETURN", "WRITE"} => p[i].var \in ScalarOpd

(* The operands in the lines of an instruction, and the instructions whose  *)
(* operands collect_variables looks at.                                     *)
OperandsOf(t) ==
    IF t.kind \in ArithKinds THEN {t.left, t.r1, t.r2}
    ELSE IF t.kind \in {"ASSIGN", "ADDR"} THEN {t.left, t.right}
    ELSE IF t.kind = "FETCH" THEN {t.left, t.raddr}
    ELSE IF t.kind \in IfKinds THEN {t.c1, t.c2}
    ELSE IF t.kind \in {"RETURN", "ARG", "PARAM", "READ", "WRITE"} THEN {t.var}
    ELSE IF t.kind = "CALL" THEN {t.ret}
    ELSE {}
LookedAt == {"ASSIGN", "READ", "WRITE", "CALL"} \cup ArithKinds

MarkOf(t) == IF t.kind = "LABEL" THEN t.labelno ELSE t.funcname

(* The assembler needs one declaration of each name: a variable has its     *)
(* word if some instruction that is looked at has it, and labels, functions *)
(* and the two routines share one space of names.                           *)
Declared(p) ==
    /\ \A i \in DOMAIN p : \A o \in OperandsOf(p[i]) :
          /\ o.kind # "OP_CONSTANT" =>
                \E j \in DOMAIN p : p[j].kind \in LookedAt /\ V(o.char_val) \in OperandsOf(p[j])
          /\ o.kind = "OP_POINTER" => p[i].kind = "ADDR"
    /\ \A i \in DOMAIN p : p[i].kind \in {"LABEL", "FUNCTION"} =>
          /\ MarkOf(p[i]) \notin {"read", "write"}
          /\ \A j \in DOMAIN p :
                p[j].kind \in {"LABEL", "FUNCTION"} /\ MarkOf(p[j]) = MarkOf(p[i]) => j = i

-----------------------------------------------------------------------------
GenTypeOK ==
    /\ tac \in Seq(Inst)
    /\ gen \in {"collect", "emit", "done"} /\ cur \in 1..(Len(tac) + 1)
    /\ all_variables \in Seq(Var) /\ data \in Seq(Var)
    /\ all_variables_count \in Nat /\ arg_count \in Nat /\ param_count \in Nat

(* The list that CALL saves is the list that was counted and given storage: *)
(* emit_assign calls add_variable after count_variables and the .data       *)
(* section are done, and a name it added then would shift $ra out of the    *)
(* frame and have no word.                                                  *)
FrameFits ==
    gen # "collect" =>
        /\ all_variables_count = Len(all_variables)
        /\ data = all_variables

(* No variable is listed twice: a second node would be a second label of    *)
(* the same name in .data.                                                  *)
OneLabelEach ==
    \A j, k \in DOMAIN all_variables : all_variables[j] = all_variables[k] => j = k

(* The first pass has put in the list both operands of every ASSIGN it went *)
(* over, and the list never loses one: emit_assign finds them there.        *)
AssignsCollected ==
    \A i \in DOMAIN tac :
        tac[i].kind = "ASSIGN" /\ (gen = "collect" => i < cur) =>
            /\ Contains(all_variables, tac[i].left.char_val)
            /\ tac[i].right.kind = "OP_VARIABLE" => Contains(all_variables, tac[i].right.char_val)
=============================================================================
