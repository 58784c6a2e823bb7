---------------------------- MODULE SymbolTable ----------------------------
(***************************************************************************)
(* symbolTable.c: a stack of hash tables.                                  *)
(*                                                                         *)
(* scopeStack is the linked list, its head last; a table is the list of    *)
(* the symbols inserted in it, the newest last.  insertSymbol does not     *)
(* look whether the name is there already: uthash then finds the newest,   *)
(* as long as no bucket has reached HASH_BKT_CAPACITY_THRESH entries and   *)
(* been split (a split turns the order of a bucket around).  BktCapacity   *)
(* is that limit, MaxScopes bounds the nesting.                            *)
(***************************************************************************)
EXTENDS Integers, Sequences

CONSTANTS Name, Decl, NoDecl, MaxScopes, BktCapacity

ASSUME SymbolTableAssumption ==
    /\ NoDecl \notin Decl
    /\ MaxScopes \in Nat /\ BktCapacity \in Nat

VARIABLE scopeStack

Symbol == [name: Name, type: Decl]

pushScope ==
    /\ Len(scopeStack) < MaxScopes
    /\ scopeStack' = Append(scopeStack, <<>>)

popScope_Clears ==
    scopeStack' = IF scopeStack = <<>> THEN scopeStack
                  ELSE [scopeStack EXCEPT ![Len(scopeStack)] = <<>>]

(* On an empty stack popScope prints an error and does nothing else.       *)
popScope ==
    scopeStack' = IF scopeStack = <<>> THEN scopeStack
                  ELSE SubSeq(scopeStack, 1, Len(scopeStack) - 1)

insertSymbol_NameOnly(s) ==
    IF scopeStack = <<>> THEN UNCHANGED scopeStack
    ELSE LET top == Len(scopeStack) IN
           /\ Len(scopeStack[top]) < BktCapacity
           /\ scopeStack' = [scopeStack EXCEPT ![top] = Append(@, s.name)]

(* Without a scope there is nowhere to insert and the symbol is dropped.   *)
insertSymbol(s) ==
    IF scopeStack = <<>> THEN UNCHANGED scopeStack
    ELSE LET top == Len(scopeStack) IN
           /\ Len(scopeStack[top]) < BktCapacity
           /\ scopeStack' = [scopeStack EXCEPT ![top] = Append(@, s)]

(* Where findSymbol can meet a name, starting at depth d; it goes from the *)
(* innermost table outward, and in a table from the newest symbol back.    *)
Met(d, n) ==
    {e \in [scope: 1..d, at: 1..BktCapacity, type: Decl] :
        /\ e.at \in DOMAIN scopeStack[e.scope]
        /\ scopeStack[e.scope][e.at] = [name |-> n, type |-> e.type]}

Before_Oldest(e, f) == e.scope > f.scope \/ (e.scope = f.scope /\ e.at <= f.at)

Before(e, f) == e.scope > f.scope \/ (e.scope = f.scope /\ e.at >= f.at)

First(met) == CHOOSE e \in met : \A f \in met : Before(e, f)

FindAt(d, n) == IF Met(d, n) = {} THEN NoDecl ELSE First(Met(d, n)).type

findSymbol(n) == FindAt(Len(scopeStack), n)

Init == scopeStack = <<>>

Next == pushScope \/ popScope \/ \E s \in Symbol : insertSymbol(s)

Spec == Init /\ [][Next]_scopeStack

-----------------------------------------------------------------------------
(* The stack is a stack of tables of symbols, within the bounds.           *)
TypeOK ==
    /\ scopeStack \in Seq(Seq(Symbol))
    /\ Len(scopeStack) <= MaxScopes
    /\ \A d \in DOMAIN scopeStack : Len(scopeStack[d]) <= BktCapacity

(* What findSymbol would give for each name, per open scope.               *)
Meanings == [d \in 1..Len(scopeStack) |-> [n \in Name |-> FindAt(d, n)]]

(* The tables, searched as findSymbol does, are a block-structured          *)
(* environment: at every depth findSymbol would give what the scope of that *)
(* depth means by the name, so that popScope restores what was visible      *)
(* before the matching pushScope whatever was inserted in between.          *)
Block == INSTANCE Scopes WITH env <- Meanings

ImplementsScopes == Block!Spec

(* An insertion takes effect at once: it gives the name the meaning that is *)
(* inserted, in the innermost scope, and changes no other meaning, although *)
(* the older symbols of that name stay in their tables.                     *)
InsertDeclares ==
    [][\A s \in Symbol : insertSymbol(s) => Block!Declare(s.name, s.type)]_scopeStack
=============================================================================
