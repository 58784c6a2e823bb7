# A verification of the SPL compiler

TLA+ modules that model this repository, the TLC runs that check them, and the theorems TLAPS proves about them.

## The system

The repository compiles SPL, a C-like teaching language, to MIPS32 assembly. It was written in four phases, and what
it holds are three programs that share nothing but files: an analyser, a translator to three-address code ("IR",
"TAC") and a code generator.

* **Front program** (`lexical.l`, `syntax.y`, `APT.c`, `translate.c`, `symbolTable.c`, `hashmap.c`, `type.c`,
  `tac.c`, `optimize.c`): builds the tree, walks it once and appends three-address instructions to a list, prints
  the list, and rewrites the printed file line by line.
* **Analyser** (`semantic.c`, with the same tree, `symbolTable.c` and `type.c`): a walk of the tree that declares
  names and reports errors of type 1 to 15 instead of emitting code.
* **Back program** (`main.c`, `tacReader.c`, `mips32.c`, built by the Makefile): reads the file into a doubly linked
  list and emits assembly in two passes over it.

Everything is sequential. What is hard is state that outlives the step that set it: file-scope counters, caches
and flags that one handler sets and another one reads many steps later, and names that are resolved by walking a
structure other handlers have been pushing to and popping from.

| component | state it keeps | operations | what makes it correct |
|---|---|---|---|
| scopes (`symbolTable.c`) | `scopeStack`, a list of hash tables | push, pop, insert, find | a name means its innermost declaration, and leaving a block restores what was visible |
| declarations and checks (`semantic.c`) | the scopes; the errors reported | one per kind of definition, statement and expression | an error is reported for the definitions and uses the language forbids, and for no others |
| types (`semantic.c`, `type.c`) | none | `typeCmp`, `deepcopyType`, field and parameter lists | equivalent types are accepted, others are not |
| translator (`translate.c`, `hashmap.c`, `tac.c`) | the list and its tail `curTac`, counters of variables, temporaries and labels, the end label, the map from names to tags | one per statement and expression | the code computes what the program means; each label is defined once and each jump has a target |
| optimizer (`optimize.c`) | the unreachable flag, the table of variables, the table of labels | one per kind of line | the rewritten file computes the same |
| reader (`tacReader.c`) | the buffer position, the line buffer, the list | line, token, append | every line becomes its instruction, in order |
| generator (`mips32.c`) | `all_variables`, its count, `arg_count`, `param_count` | two passes, one emitter per instruction | the assembly does what the list means |
| generated program (SPIM) | registers, `.data`, stack | the emitted lines | calls preserve the caller's variables, the stack is balanced, the machine stops |

Lexer, parser and tree construction are generated from or driven by `lexical.l`/`syntax.y` and are not modelled;
the modules start from trees, lines or lists those can produce. `include/hash` is the third-party uthash.

## Modules

| module | models | its state |
|---|---|---|
| `Tac` | operands and instructions of `tacReader.h` with their constructors | none |
| `TacReader` | `tacReader.c` and the copying of the file in `main.c`: `tac_print`, the splitting of lines, the dispatch on their words, the list | the file, the position in it, the line buffer, the nodes with both pointers |
| `TacReaderProofs` | the theorems about `TacReader` | |
| `MipsGen` | `mips32.c`, both passes | the C globals under their own names, the position in the list, the assembly |
| `MipsGenProofs` | the theorems about `MipsGen` | |
| `TacMachine` | what a three-address program promises: one activation per call, with variables of its own | program counter, environment, suspended activations, arguments, output |
| `TacMemory` | words of arrays, for `TacMachine` | one memory, per activation the places of its arrays |
| `Spim` | the part of the simulator the emitted lines use (external) | registers, memory, program counter |
| `BackEnd` | `MipsGen`, then `Spim` on its output in lockstep with `TacMachine` on its input | all of the above |
| `BackEndProofs` | the theorems about `BackEnd` | |
| `Scopes` | what the scopes promise: a stack of meanings | one function from names to declarations per open block |
| `SymbolTable` | `symbolTable.c` and the hash tables it uses | `scopeStack` |
| `SymbolTableProofs` | the theorems about `SymbolTable` | |
| `Semantic` | `semantic.c` and the types of `type.c`; extends `SymbolTable` | the walk, the types it holds, the reports, whether it has died |
| `SplRules` | which programs are legal, by the documents | none |
| `Analyser` | `Semantic` against `SplRules` and against the recorded test outputs | `Semantic`'s |
| `SemanticProofs` | the theorem about the scopes of `Semantic` | |
| `Translate` | `translate.c`, `hashmap.c`, `tac.c` for programs over int and arrays of int; extends `SymbolTable` | the list, the counters, the tags, the map, the walk |
| `TranslateProofs` | the theorems about the scopes, the labels, the temporaries and the operands of `Translate` | |
| `Agendas` | lemmas about lists of tasks that enter and leave scopes, for both walks | |
| `Optimize` | `optimize.c` | the flag, the labels, the position in the file, the output |
| `OptimizeProofs` | the theorems about `Optimize` | |
| `Optimized` | `Optimize`, then `TacMachine` on its output; the machine on its input is the abstract specification | `Optimize`'s and the machine's |
| `Spl` | what an SPL program means: a big-step interpreter of the source | none |
| `FrontEnd` | the front program: `Translate`, `printTacs`, `Optimize`, then `TacMachine` and `TacMemory` on the file, against `Spl` | all of theirs |
| `MCMipsGen`, `MCBackEnd`, `MCSymbolTable`, `MCOptimize`, `MCFrontEnd`, `MCTacReader`, `MCAnalyser` | programs, lists, files and bounds for TLC | |

An operator whose name ends in an underscore and a word (`Folds_NoCompare`) is a wrong version of the operator after
it, as a plausible slip in the code would make it. No specification uses one; putting one in the place of the right
version shows that the property it belongs to can be violated.

### The back end

`TacReader` has a file as a sequence of lines and a line as a sequence of words; a word keeps the mark the code tells
it by (`#`, `*`, `&`, the first letters of "label"). `tac_print` is the writer, and the reader has one action per
step of `tac_from_buffer`: a line is taken word by word (`CopyWord`), a complete one is made an instruction by the
number of its words and by their marks, in the order of the tests of `_tac_from_line` (`EndOfLine`, `FromLine`), and
its node is hung behind the last one, which is found by walking the list (`NextNode`, `Insert`). `EveryLineRead` says
what the header promises of a last line without a newline.

`MipsGen` has one action per emitter. A line of assembly is a record and remembers the instruction it comes from.
For test-ex/test_{a,b,c,d}.ir the lines the model emits are, line by line, those the compiled generator writes.

`BackEnd` runs the emitted lines one at a time. `TacMachine` takes a step when the machine completes the lines of
the instruction it is at, and the invariants compare the two each time the machine is about to start the lines of
another instruction: they are at the same instruction (`ControlAgrees`), each variable that has a value is in its
word with that value although all activations share the words (`VariablesAgree`), pending arguments are on top of
the stack and nothing else is left there when main is alone (`StackBalanced`), and what was printed is what was
written (`OutputAgrees`).

### The scopes

`SymbolTable` has the three operations of `symbolTable.c` that change its list, and `findSymbol` as an operator. A
table keeps every symbol inserted under a name, and a look-up takes the newest, so a table may hold older symbols
that no look-up returns; `ImplementsScopes` says that under the meanings `findSymbol` gives, this is `Scopes`.

### The analyser

`Semantic` is one recursive walk in the code. In the module the calls that are still to be made are a sequence,
`agenda`, and the types and fields that callers still hold are another, `vals`: together they are the call stack. A
handler that calls others in the middle is several actions, which read the symbol table at the point where the code
does. Where the code dereferences a null pointer the model sets `fault` and stops. Types are the C structs; `NoType`
is the null pointer, and a type that was allocated and not filled in reads as int.

`SplRules` knows nothing of the walk: it states which programs are legal, from doc/requirements.txt (the error types
1 to 15) and doc/semanticAssumptions.txt, with name equivalence of structures, and returns the set of violations with
their lines. `FirstReportIsRight` compares the two up to the first report; what an analyser reports behind an error it
has found is its own affair. `ReportsAsRecorded` is about all reports, for the programs of test/phase2/test_result_v,
whose recorded outputs also contain the consequences of earlier errors. Known deviations are kept by the model and
left out of the judged programs:

* parameters are declared in the scope around the function and stay there (`semantic.c:70`);
* a middle declarator or field of a longer list is lost (225);
* an array initialiser is compared with the element's type, and structures are compared by shape, not by name;
* a call of an undefined function is reported as type 1, not 2;
* operands of an arithmetic operator that are no numbers, when they are of one type or the first is not int or float,
  and non-integer operands of `&&` and `||`, are not reported (type 7);
* what a condition that is not an integer controls is not walked (676);
* a use of an undefined structure kills the process before its report is printed (151).

Two more contradict the repository's own report and tests, and are findings (below).

### The front program

`Translate` has `agenda` and `vals` as `Semantic` has: `If` and `EndThen`, `While`, `WhileBody` and `EndWhile` read and
write the file-scope variables at the point where the code does. The strings the code builds and takes apart
(`"v3 <= #1"`, whose characters 3 and 4 are rewritten to negate it) are records, and the operators that rewrite them
(`Negated`, `Exchanged`, `Literal`, `IsScaled`) do what the rewriting does, also where it does not do what was meant.

Where a handler takes the length of an operand's tag, the operand must have one: an && or ||, and a call that makes no
code, have the tag NULL, and the process dies (`translate.c:364`, 457, 500, 709, 734, 792). `Tagged` and `Testable` are
the guards of these handlers, so the walk stops there, and `OperandsFit` says that it does not come to it. A definition
outside the functions (`ExtDecList`) declares its variables in the scope around them.

An array is declared with DEC and held by the address of its first word. An index that is a variable or a literal is
multiplied with the size of an element and added to the address; the element is fetched into a temporary, and
`hashmap` remembers where the temporary came from, so that an assignment to it becomes a store. `TacMemory` gives the
addresses meaning: a DEC takes words no other live activation has, and a word is found again by its address only.

`FrontEnd` runs the walk, writes the file (`printTacs`, `Line`), lets `Optimize` rewrite it, loads what that wrote
into `TacMachine` and runs it on some input. `means` is what `Spl` says the program should write. The instructions the
model puts in the list have been compared with those the compiled translator prints, line by line, for 290 programs
without arrays and for two with them.

`Optimize` has one action per kind of line. The table of variables is left out: `parseLhsExp` returns before it
gives a variable a value, so that no variable is constant, and nothing else of the table is read. An empty line has
no last character, and the code reads the byte before the buffer instead; both answers are allowed. For all 1849
files of `MCOptimize` one of the outputs of the model is the output of the compiled `optimize.c`.

Memory that `malloc` returns and the translator or the analyser reads before writing it is taken to be zero.

## Runs

| run | what it asks | bounds |
|---|---|---|
| `tac_reader` | the list read is the list written, in order and linked both ways; reading ends | every file of at most two instructions over each form of instruction and operand, and every file of five over a label, a store and an empty line; each with and without a final newline |
| `tac_reader_end` | a finding about the reader | the same |
| `mips_gen` | the generator alone: types, that the frame a call reserves has room for the variables it saves, that a variable is listed once, that the first pass lists what the second pass may add | every list of at most two instructions, and every pair with a call between |
| `back_end` | the generated assembly does what the list means, never loads a word that is not there, and stops | the repository's five IR programs (factorial, fibonacci, primes, gcd, towers) and variations on one construct each; two inputs; 160 words of stack, more than the deepest call needs |
| `back_end_params` | a finding about the generator | one program |
| `symbol_table` | the list of tables implements block structure; an insertion is what is found from then on | two names, two declarations, three scopes, two symbols in a table: a name can be shadowed twice and redeclared in its table |
| `analyser` | the analyser: its scopes are paired, its comparison of types is an equivalence, its first report is right, it reports nothing for a legal program, its reports are the recorded ones, and it dies only of an error. The rules judge the families; of the fifteen recorded programs two (R02, R04) begin with reports the rules do not have, an undefined function as type 1 and a parameter's name taken | the fifteen programs of test/phase2 with recorded output; each operator over operands of each type, in an initial value, a result, and the condition of an if and of a while; definitions, nested scopes and structures; programs that kill it |
| `analyser_legal` | two findings about the analyser | one program |
| `front_end` | the front program: labels placed once, names visible as what they were declared (`NamesKnown`), operands of the kind each handler expects, jumps in their function, the walk pops what it pushes, an instruction once emitted is not touched again, the file is well-formed as the optimizer needs it, the code writes what the program means and stops | 378 programs: four of test/phase3 (the one with || is `front_end_either`) and families over expressions, assignments that share temporaries, conditions in seven contexts, loops, elements of arrays of one and two dimensions assigned, moved, passed and filled, and one with variables outside the functions; nine inputs each |
| `front_end_negation`, `front_end_either` | two findings about the translator | one program each |
| `optimized` | the optimizer: nothing that a jump needs is deleted, nothing reachable is deleted, only an IF that holds is changed; a run of the output is a run of the input | every body of up to three lines over fifteen kinds of line and two labels in which a label is there once and each jump has one, longer bodies that begin with a jump, such bodies in a called function, addresses, and the example of doc/Phase3.md; three numbers written |

The bounds are enough for what they are there for: a defect of a walk or of the generator shows in the combination
of two or three constructs, and the families combine each with each; the optimizer's state between two lines is a
flag and a set of labels, and three lines reach every combination of flag, label before, label after and kind of
line; the reader keeps nothing between two lines but the end of the list. `CHECK_DEADLOCK FALSE` stands only in
`MipsGen.cfg`: the generator returns at the end of the list. The other specifications stutter explicitly where the
program has stopped.

`MaxScopes`, `BktCapacity` (a table is kept below the size at which uthash splits a bucket and reverses its order),
the stack of `Spim` and the number of words of `TacMemory` are the bounds on what grows; none is reached in a passing
run other than `symbol_table`, which is about reaching them.

The programs of `MCFrontEnd` leave out what the translator is known to get wrong: an operand of || or && other than
the first, more than ten variables or temporaries or a literal of two digits on the left of a comparison in an IF,
`-x` used again after x has changed, a statement after an if-else within an else, `!` of an order comparison, a negative
literal, an else that ends in a RETURN while its if does not, a call without arguments used as a value, an
assignment of a variable to another one that was just assigned, two functions with equally named parameters, and of
arrays: an index in a temporary (`a[i+1]`, taken as 0), an index that is itself an element in an assignment's target
(`a[b[0]] = …`, never fetched), a chained assignment to an element (it uses a temporary that is never computed), and an
assignment directly after a DEC (the process dies comparing its missing target); and an && or || as the operand of
anything but a condition (the process dies of its missing tag). Each was found by running `FrontEnd`
on it; the model does in each case what the code does. Two of them contradict a test or a document of the repository,
and those are runs of their own.

What `MCBackEnd` and `MCOptimize` leave out: variables that occur in PARAM, ARG, RETURN or IF only and must survive a
call (they have no word, `mips32.c:535`), stores through a pointer (`emit_deref` stores the address at the value, 294)
and structures or arrays (DEC reserves nothing, 399), so that arrays end at the three-address code; an IF that holds
and jumps to a label defined above it is rewritten as well (`optimize.c:308`), which is harmless.

### Fairness

`BackEnd` and `FrontEnd` assume weak fairness of the whole next-step relation, and `TacReader` of its step (`Reads`):
one processor runs one sequential program, and nothing else can hold it up. `Semantic` assumes none: its walk goes
down a finite tree, and that no handler of it is left without a step is TLC's check for deadlock.
`Terminates` in the first two says that the machine reaches the end of main: the generated code is never stuck, by
reading a variable that has no value, jumping where there is no label or taking an argument that is not there. The
programs of the corpora are ones that stop. `Ends` says that the reader's own loop ends.

### Findings

| run | property | in short |
|---|---|---|
| `back_end_params` | `VariablesAgree` | `param_count` is not reset when a function begins |
| `front_end_negation` | `IfNegated` | the negation of an IF's condition depends on the width of its left operand |
| `front_end_either` | `OutputAgrees` | the second operand of a logical "and" or "or" is never tested |
| `tac_reader_end` | `EveryLineRead` | a last line without a newline is dropped, so of test_4_fact.ir the RETURN of main |
| `analyser_legal` | `FirstReportIsRight` | a name may not shadow one of an outer scope, against the report and the message itself |
| `analyser_legal` | `FirstReportIsRight` | every call with arguments is reported as type 9: the parameters are never stored |

## Proofs

TLAPS proves the following for every value of the constants.

* `TacReaderProofs`, for every set of files of well-formed instructions: `RoundTrip`, that reading what `tac_print`
  writes of an instruction gives the instruction back; `ReaderSafe`, that the list at every moment holds the
  instructions of the lines completed so far, in order (`ListIsFile`); `ReaderTypeCorrect`, that pointers point
  to nodes and the position stays in the file (`ReaderTypeOK`); `ReaderLinked`, that the back pointers mirror the
  forward ones (`DoublyLinked`). The invariant says also what the line buffer holds of the current line, and that
  nodes are linked in the order of their allocation, so that the walk to the end finds the newest. `RoundTrip` rests
  on variables not being named like instructions, which is assumed (`ReaderAssumption`).
* `MipsGenProofs`, for every list of instructions: `GenTypeOK`, `FrameFits`, `OneLabelEach`, `AssignsCollected`. The
  frame of a call is sized from `all_variables_count` before any code is emitted, and filled from `all_variables`,
  which `emit_assign` may extend while code is emitted: `FrameFits` is not inductive. The invariant `IInv` adds
  `AssignsCollected`, that the first pass has listed whatever an ASSIGN could add, and that nothing is counted before
  the second pass. `TextIsLaidOut`, for every supported list, says what the assembly is: `CountersFit`, that
  `arg_count` and `param_count` are the numbers of ARGs and PARAMs directly before the current instruction, and
  `LaidOut`, that the text is the runtime followed by the lines `Lines(i)` of each instruction `i` in order. There is
  a lemma per emitter that its lines are `Lines(i)` (`EmitsLines`), and `KeepsList` says that the second pass leaves
  `all_variables` alone, so that `Lines(i)` does not change under the lines already written.
* `BackEndProofs`, for every supported list, every number of stack words and every input: `ControlAgrees`,
  `VariablesAgree`, `StackBalanced`, `OutputAgrees`, that is, that the assembly does what the list means until it
  halts or faults. These compare the two machines only at the first line of an instruction and none is inductive:
  within its lines the assembly has done part of what the instruction does. `Simulation` is the invariant they follow
  from, `BackInv`: the text is laid out; each activation has a base on the stack, and in the frame below that of a
  suspended one lie the values of its variables and its return address (`Saved`); arguments that are pending or were
  given and not yet taken are where CALL and PARAM look for them (`Stack`, `Given`); the ARGs directly before the
  current instruction are exactly those pending (`Live`); and `Phase` says, for every kind of instruction and every
  line in it, which registers and words hold what by then. For CALL, whose lines grow with the
  number of variables, the phase is a loop invariant, one for the part that saves and one for the part that restores.
  `RunStep` goes through the lines of every kind of instruction, `PastStep` through the runtime. `Assembly` states
  `AlwaysAssembles`, with `AllListed`: once the first pass is over, every variable of a line has been listed.
* `SymbolTableProofs`, for every set of names and declarations and every depth: `TypeOK`, `ImplementsScopes`,
  `InsertDeclares`. The refinement is proved action by action: the meaning of a name after `insertSymbol` is the new
  symbol or what it was, after `pushScope` what it was, after `popScope` what the scopes below give.
* `TranslateProofs`, for every program over the trees of `TranslateAssumption` and every depth: `ScopesMatchWalk`, that
  no path through `translate.c` forgets a `popScope` or makes one too many. `popScope` on an empty list does nothing,
  so the count alone is not inductive: `SInv` says that the agenda, read from any point to its end, leaves at least
  as many scopes as it enters (`Balanced`), which no handler can undo, and that each task has the trees its handler
  takes apart. `FitConcat`, `FitScope` and `FitEach` say it of what handlers add; then there is one lemma per action.
  `TranslateTypeCorrect` and `NothingPlacedTwice` are `TransTypeOK` and `PlacedOnce`. Labels are handed on in two ways:
  the locals of the recursive handlers, here in the tasks, and the globals `endTag`, `onetag` and `zerotag`. `TInv` says
  which of them may still be placed: those that a task holds, `endTag` while `is_EndTag_defined` is set, and the two of
  the && or || whose code comes last (`Judged`: the list ends with a GOTO). They are pairwise different and none is
  placed. `onetag` and `zerotag` say nothing by themselves, as they are never reset: a condition that is neither a
  comparison nor an && or || (a call without arguments, say) would place them again. Hence the hypothesis `OperandsFit`:
  what the handlers take for granted of their operands.
  `TypedProgramsFit` discharges it for the programs that `Typing` describes, provided that names resolve
  (`NamesResolve`). `Typing` says of each expression whether it gives a value, an array of so many dimensions, the code
  of an && or ||, or nothing, and that this is what stands where it stands: where a handler reads the tag of an operand
  (`Readers`), the operand gives a value or an array, which have one. No handler looks at what it takes from
  `vals`, so the invariant, `KInv`, relates the two stacks of the walk: there are kinds `a` for what is in `vals` such
  that the agenda runs with them (`Runs`), each task finding the kinds it takes on top and leaving the kind it gives
  (`Takes`), and each value is of its kind (`Fits`). A kind is forgotten when something else is evaluated on top of it
  (`Drop`): the code of an && or || is last only until more code comes, and only the operation directly behind it may
  count on it. `Silent` says of the tasks of a statement that they give back what they find, `OperandsRun` that the
  operands of an expression and then its operation leave the one kind it has, and `ValuedNext` that a handler that
  replaces the first task by others with the same effect keeps the invariant. `HKeys` says that a temporary stands for
  a word in the map of tags and a variable for itself, `ScopesKnown` that the types in the tables have numbers that
  were given out, which `FoundIsKnown` takes to what `findSymbol` finds, and `InitsFit` that the name of a declaration
  keeps its tag while its value is evaluated.
* `SemanticProofs`, for every program over the trees of `SemanticAssumption` and every depth: `ScopesOpen`, the same
  of `semantic.c`, where bodies of redefined functions and branches with bad conditions are passed over and a null
  pointer ends the walk anywhere. The invariant has the same form; the lemmas both need (how `Balanced` behaves under
  concatenation and when the first task is taken, and what `pushScope`, `popScope` and `insertSymbol` do to the number
  of scopes) are in `Agendas`.
* `OptimizeProofs`, for every file of well-formed lines: `OptTypeOK`, `DeletedBehindJump`, `ChangesHold`, and
  `TargetsKept`, what the last two say together of the lines that jumps and calls look for. The invariant `OInv` adds
  `FlagBehindJump`, what the flag stands for: while it is set, the line that is read next is behind a line that always
  jumps, with no label between. `StepShape` says once, with a step per action, what any action does to the output and to
  the flag, and `StepOInv` has a step per conjunct.
  `OptimizerKeepsRuns` is the refinement `RunsOriginal`: for every well-formed file (`WellFormed`), a run of the output
  is a run of the input. `CopiedOnce` says that each line that can be reached (`Live`) is in the output, once and, but for an IF that
  holds, as it was; `LabelLemma` and `FunctionLemma` that a jump and a call therefore arrive at the same line in both.
  The invariant `RInv` relates the two machines: the counters of both, and of both lists of suspended activations, are
  at the same lines, each of which stands in the output. There is a lemma per kind of instruction. Without the
  hypothesis it does not hold: a function that begins behind a GOTO is kept and the lines after it are deleted
  (`optimize.c:347`), which is why `front_end` checks that the translator writes well-formed files
  (`FileWellFormed`) where the source defines no function twice.

Assumed: `Programs` is a set of sequences of instructions (`OptimizeAssumption` and its like in `MipsGen`), for
`Optimized` of well-formed ones (`OptimizedAssumption`), the trees have the shape `syntax.y` gives them (`TranslateAssumption`, `SemanticAssumption`), names and bounds are what they are declared to be. TLC
evaluates these assumptions in the passing runs. `BackEndAssumption` says that a program has finitely many variables
and that the words of .data and of the stack do not overlap where `Spim` has them. The theorems of `BackEndProofs`
and `TextIsLaidOut` have hypotheses on the lists, which TLC checks of every list of `back_end` (`CorpusSupported`):

* `Supported`, that there is a main; that what is called or jumped to is there; that control does not fall into a
  function or off the end of the list (`Sealed`); that ARGs stand directly before their CALL, since `arg_count` counts
  them there; that PARAMs stand at the beginning of their function, and that a CALL is between those of two functions,
  since only `emit_call` resets `param_count`: without it `VariablesAgree` is false, which is the finding
  `back_end_params`; that there is no DEREF, which stores the address at the value (`mips32.c:294`); that RETURN and
  WRITE have a variable or a literal, as their emitters take any other operand for a variable.
* `Declared`, for `Assembly` only: each variable is mentioned where `collect_variables` looks (`mips32.c:535`), only
  ADDR has an address as an operand, and labels and functions have names of their own, other than read and write.

`TypedProgramsFit` has two hypotheses. `Typing`, with kinds for the expressions, is evaluated by TLC for every program of
`front_end` (`CorpusTyped`). `NamesResolve` is about the walk: that the name evaluated is found and has the type of its
declaration, and that a variable declared with a value was not visible before. `front_end` checks it (`NamesKnown`).
That it follows from the program text, when every name is declared before it is used and none twice, is not proved.

Only model-checked: liveness (TLAPS does not prove it); `NamesKnown`; the equivalence of source and three-address code, on the
corpora above (`Spl` and `SplRules` are recursive, and nothing can be proved of them by induction over programs
here); that the assembly never faults, which depends on the depth of the stack and on the addresses a program
computes; `TypeOK` of `BackEnd` (a division by zero may leave any value in `$lo`); `JumpsStayInFunction`, which is
false of programs with an else branch that ends with a RETURN behind a then branch that does not (`translate.c:1010`);
the other invariants of `Semantic`.

## Not modelled

* Lexer, parser and tree: generated from `lexical.l` and `syntax.y`, or driven by them; the trees of `MCFrontEnd` and
  `MCAnalyser` are of the shape `syntax.y` builds. The debug variants of both are copies with prints.
* The loop over the arguments of a call in `semantic.c` (577-599), and the report of a call without arguments (605).
  Both are for functions whose list of parameters is not empty. `funDecSemaParser` drops the list (397) and leaves
  `next` as `malloc` returned it, which is zero as long as nothing was freed before; nothing is, in the parser or in
  `semantic.c`, and the recorded outputs agree (all calls with arguments are reported as type 9).
* What variables outside the functions mean when several functions use them, and arrays outside the functions, in the
  three-address code: it has no variables that outlive an activation, and a DEC before the first FUNCTION is never
  executed. `Translate` translates both; the corpus runs programs whose outer variables only main uses.
* Structures, chars and floats in `translate.c` (278-288, 615-695): the tag of a field is made from a text that is
  read past its end or after it was freed, and what is printed for a structure is whatever memory holds. The reports
  of ill-typed programs in `translate.c` repeat those of `semantic.c` and are modelled there.
* `deepcopyType`: types are values in `Semantic`, and the code changes none after it is made.
* `main.c`: opening files and the name of the output.
* The register allocator of `mips32.c` (`get_register`, `spill_register` and what they call): never called.
* `include/hash`: third-party uthash, taken as a list of symbols where the newest is found first.
* Widths: a C int is an integer here. Overflow would need literals the corpora do not have. Line buffers
  (`lnbuf`, `MAX_LINE_LENGTH` 100) and the `char[10]` of the generated names are taken to be long enough.

## Plan

Done, in this order, the most important behaviour first: `Tac`, `TacMachine`, `MipsGen`, `Spim`, `BackEnd`;
`Scopes`, `SymbolTable`; `Translate`, `Spl`, `FrontEnd`; `Optimize`, `Optimized`; the proofs about `MipsGen`,
`SymbolTable` and `Optimize`; `TacReader` and its proofs; `Semantic`, `SplRules`, `Analyser`; arrays in `Translate`,
`TacMemory`; the proofs about the scopes of `Translate` and `Semantic`; the refinement proved for `Optimize`; the simulation proved
for `BackEnd`; the proofs about the labels, the temporaries and the operands of `Translate`.

Next:

1. Proofs: `NamesResolve` for every program whose names are declared once and before they are used. The invariant
   that is needed says which names the tasks of `agenda` evaluate before the scope that declares them is left.
2. Composition of `FrontEnd` with `TacReader` and `BackEnd`, from source to assembly, for the int programs both corpora
   share.
