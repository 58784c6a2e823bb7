------------------------- MODULE SymbolTableProofs -------------------------
(***************************************************************************)
(* For any names and declarations and whatever the bounds: the stack of    *)
(* tables, searched as findSymbol does, implements block structure.        *)
(*                                                                         *)
(* The argument is about what findSymbol can meet.  A call that leaves     *)
(* Met(d, n) alone leaves the meaning of n at depth d alone; insertSymbol  *)
(* adds one entry, to one of these sets, and is the first of that set.     *)
(***************************************************************************)
EXTENDS SymbolTable, TLAPS

(* The stack keeps its shape under every call of the interface.            *)
THEOREM SymbolTableTypeCorrect == Spec => []TypeOK
<1> USE SymbolTableAssumption
<1>1. Init => TypeOK
  BY DEF Init, TypeOK
<1>2. TypeOK /\ [Next]_scopeStack => TypeOK'
  <2> SUFFICES ASSUME TypeOK, [Next]_scopeStack PROVE TypeOK'
    OBVIOUS
  <2>1. CASE pushScope
    BY <2>1 DEF TypeOK, pushScope
  <2>2. CASE popScope
    BY <2>2 DEF TypeOK, popScope
  <2>3. ASSUME NEW s \in Symbol, insertSymbol(s)
        PROVE  TypeOK'
    <3>1. CASE scopeStack = <<>>
      BY <2>3, <3>1 DEF TypeOK, insertSymbol
    <3>2. CASE scopeStack # <<>>
      <4> DEFINE top == Len(scopeStack)
                 table == Append(scopeStack[top], s)
      <4>1. /\ top \in DOMAIN scopeStack
            /\ scopeStack[top] \in Seq(Symbol)
            /\ Len(scopeStack[top]) < BktCapacity
            /\ scopeStack' = [scopeStack EXCEPT ![top] = table]
        BY <2>3, <3>2 DEF TypeOK, insertSymbol
      <4>2. /\ table \in Seq(Symbol)
            /\ Len(table) <= BktCapacity
        BY <4>1
      <4> HIDE DEF table
      <4>3. /\ scopeStack' \in Seq(Seq(Symbol))
            /\ Len(scopeStack') = Len(scopeStack)
            /\ DOMAIN scopeStack' = DOMAIN scopeStack
            /\ \A d \in DOMAIN scopeStack :
                   scopeStack'[d] = IF d = top THEN table ELSE scopeStack[d]
        BY <4>1, <4>2 DEF TypeOK
      <4> QED
        BY <4>2, <4>3 DEF TypeOK
    <3> QED
      BY <3>1, <3>2
  <2>4. CASE UNCHANGED scopeStack
    BY <2>4 DEF TypeOK
  <2> QED
    BY <2>1, <2>2, <2>3, <2>4 DEF Next
<1> QED
  BY <1>1, <1>2, PTL DEF Spec
-----------------------------------------------------------------------------
(* What findSymbol finds depends on the entries it can meet and on nothing *)
(* else.                                                                   *)
LEMMA SameMetSameMeaning ==
    ASSUME NEW d, NEW n, Met(d, n)' = Met(d, n)
    PROVE  FindAt(d, n)' = FindAt(d, n)
BY DEF FindAt

(* An entry that is met before all others is the one that is found.        *)
LEMMA FirstIsFound ==
    ASSUME NEW met \in SUBSET [scope: Nat, at: Nat, type: Decl],
           NEW e \in met, \A f \in met : f = e \/ ~Before(f, e),
           \A f \in met : Before(e, f)
    PROVE  First(met) = e
BY DEF First

(* A table that is not touched and not removed is searched as before.      *)
LEMMA UntouchedDepth ==
    ASSUME TypeOK, NEW d \in 1..Len(scopeStack), NEW n \in Name,
           \A c \in 1..d : scopeStack'[c] = scopeStack[c]
    PROVE  FindAt(d, n)' = FindAt(d, n)
<1>1. Met(d, n)' = Met(d, n)
  BY DEF Met, TypeOK
<1> QED
  BY <1>1, SameMetSameMeaning

(* The environment is a sequence, one function from names per scope.       *)
LEMMA MeaningsShape ==
    ASSUME Len(scopeStack) \in Nat
    PROVE  /\ Meanings \in Seq({Meanings[d] : d \in 1..Len(scopeStack)})
           /\ Len(Meanings) = Len(scopeStack)
BY DEF Meanings

(* Append, as a function.                                                  *)
LEMMA AppendShape ==
    ASSUME NEW S, NEW s \in Seq(S), NEW e
    PROVE  Append(s, e) =
               [d \in 1..(Len(s) + 1) |-> IF d = Len(s) + 1 THEN e ELSE s[d]]
<1>1. s \in Seq(S \cup {e})
  OBVIOUS
<1> DEFINE T == S \cup {e}
           a == Append(s, e)
<1>2. /\ a \in Seq(T)
      /\ Len(a) = Len(s) + 1
      /\ a[Len(s) + 1] = e
      /\ \A d \in 1..Len(s) : a[d] = s[d]
  BY <1>1
<1> HIDE DEF a
<1>3. a = [d \in 1..Len(a) |-> a[d]]
  BY <1>2
<1> QED
  BY <1>2, <1>3 DEF a

LEMMA PushOpens ==
    ASSUME TypeOK, pushScope
    PROVE  Block!Open
<1>0. PICK L \in Nat : L = Len(scopeStack)
  BY DEF TypeOK
<1>1. /\ L = Len(scopeStack)
      /\ Len(scopeStack') = L + 1
      /\ scopeStack'[L + 1] = <<>>
      /\ \A c \in 1..L : scopeStack'[c] = scopeStack[c]
  BY <1>0 DEF TypeOK, pushScope
<1>2. \A d \in 1..L, n \in Name : FindAt(d, n)' = FindAt(d, n)
  BY <1>1, UntouchedDepth
<1>3. ASSUME NEW n \in Name
      PROVE  FindAt(L + 1, n)' = Block!Current[n]
  <2>1. CASE L = 0
    <3>1. ASSUME NEW e \in Met(L + 1, n)'
          PROVE  FALSE
      <4>1. e.scope \in 1..(L + 1) /\ e.at \in DOMAIN scopeStack'[e.scope]
        BY DEF Met
      <4>2. e.scope = L + 1
        BY <1>1, <2>1, <4>1
      <4> QED
        BY <1>1, <4>1, <4>2
    <3>2. FindAt(L + 1, n)' = NoDecl
      BY <3>1 DEF FindAt, Met
    <3>3. Meanings = <<>>
      BY <1>1, <2>1, MeaningsShape
    <3> QED
      BY <3>2, <3>3 DEF Block!Current, Block!Nothing
  <2>2. CASE L # 0
    <3>0. L \in 1..(L + 1)
      BY <1>1, <2>2
    <3>1. Met(L + 1, n)' = Met(L, n)
      <4>1. ASSUME NEW e \in Met(L + 1, n)'
            PROVE  e \in Met(L, n)
        <5>1. e.scope # L + 1
          BY <1>1 DEF Met
        <5>2. e.scope \in 1..(L + 1)
          BY DEF Met
        <5>3. e.scope \in 1..L
          BY <1>1, <5>1, <5>2
        <5> QED
          BY <1>1, <5>3 DEF Met
      <4>2. ASSUME NEW e \in Met(L, n)
            PROVE  e \in Met(L + 1, n)'
        BY <1>1 DEF Met
      <4> QED
        BY <4>1, <4>2
    <3>2. FindAt(L + 1, n)' = FindAt(L, n)
      BY <3>1 DEF FindAt
    <3>3. /\ Meanings # <<>>
          /\ Len(Meanings) = L
          /\ Meanings[L][n] = FindAt(L, n)
      BY <1>1, <2>2, MeaningsShape DEF Meanings
    <3> QED
      BY <3>2, <3>3 DEF Block!Current
  <2> QED
    BY <2>1, <2>2
<1>4. Block!Current = [n \in Name |-> Block!Current[n]]
  <2>1. CASE Meanings = <<>>
    BY <2>1 DEF Block!Current, Block!Nothing
  <2>2. CASE Meanings # <<>>
    <3>1. L \in 1..L
      BY <1>1, <2>2 DEF Meanings
    <3>2. Meanings[L] = [n \in Name |-> FindAt(L, n)]
      BY <1>1, <3>1 DEF Meanings
    <3>3. Block!Current = Meanings[L]
      BY <1>1, <2>2, MeaningsShape DEF Block!Current
    <3> QED
      BY <3>2, <3>3
  <2> QED
    BY <2>1, <2>2
<1>5. Meanings' = [d \in 1..(L + 1) |-> [n \in Name |-> FindAt(d, n)']]
  BY <1>1 DEF Meanings
<1>6. \A d \in 1..(L + 1) :
          [n \in Name |-> FindAt(d, n)'] =
              IF d = L + 1 THEN Block!Current ELSE Meanings[d]
  <2>1. ASSUME NEW d \in 1..L
        PROVE  [n \in Name |-> FindAt(d, n)'] = Meanings[d]
    <3>1. Meanings[d] = [n \in Name |-> FindAt(d, n)]
      BY <1>1 DEF Meanings
    <3> QED
      BY <1>2, <3>1
  <2>2. [n \in Name |-> FindAt(L + 1, n)'] = Block!Current
    BY <1>3, <1>4
  <2> QED
    BY <2>1, <2>2
<1>7. Append(Meanings, Block!Current) =
          [d \in 1..(L + 1) |-> IF d = L + 1 THEN Block!Current ELSE Meanings[d]]
  <2> DEFINE S == {Meanings[d] : d \in 1..L}
  <2>1. Meanings \in Seq(S) /\ Len(Meanings) = L
    BY <1>1, MeaningsShape
  <2> HIDE DEF S
  <2>2. \A e : Append(Meanings, e) =
            [d \in 1..(Len(Meanings) + 1) |->
                IF d = Len(Meanings) + 1 THEN e ELSE Meanings[d]]
    BY ONLY <2>1, AppendShape
  <2> QED
    BY <2>1, <2>2
<1>8. Meanings' = Append(Meanings, Block!Current)
  BY <1>5, <1>6, <1>7
<1> QED
  BY <1>8 DEF Block!Open

LEMMA PopCloses ==
    ASSUME TypeOK, popScope, scopeStack # <<>>
    PROVE  Block!Close
<1>0. PICK L \in Nat : L = Len(scopeStack)
  BY DEF TypeOK
<1>1. /\ L = Len(scopeStack)
      /\ L # 0
      /\ Len(scopeStack') = L - 1
      /\ \A c \in 1..(L - 1) : scopeStack'[c] = scopeStack[c]
  BY <1>0 DEF TypeOK, popScope
<1>2. \A d \in 1..(L - 1), n \in Name : FindAt(d, n)' = FindAt(d, n)
  BY <1>1, UntouchedDepth
<1>3. Meanings' = [d \in 1..(L - 1) |-> [n \in Name |-> FindAt(d, n)']]
  BY <1>1 DEF Meanings
<1>4. \A d \in 1..(L - 1) : [n \in Name |-> FindAt(d, n)'] = Meanings[d]
  <2>1. ASSUME NEW d \in 1..(L - 1)
        PROVE  [n \in Name |-> FindAt(d, n)'] = Meanings[d]
    <3>1. Meanings[d] = [n \in Name |-> FindAt(d, n)]
      BY <1>1 DEF Meanings
    <3> QED
      BY <1>2, <3>1
  <2> QED
    BY <2>1
<1>5. SubSeq(Meanings, 1, L - 1) = [d \in 1..(L - 1) |-> Meanings[d]]
  BY <1>1, MeaningsShape
<1>6. Meanings' = SubSeq(Meanings, 1, L - 1)
  BY <1>3, <1>4, <1>5
<1>7. Meanings # <<>> /\ Len(Meanings) = L
  BY <1>1, MeaningsShape
<1> QED
  BY <1>1, <1>6, <1>7 DEF Block!Close

LEMMA InsertDeclaresLemma ==
    ASSUME TypeOK, NEW s \in Symbol, insertSymbol(s), scopeStack # <<>>
    PROVE  Block!Declare(s.name, s.type)
<1>0. PICK L \in Nat : L = Len(scopeStack)
  BY DEF TypeOK
<1>1. PICK k \in Nat : k = Len(scopeStack[L]) + 1
  BY <1>0 DEF TypeOK
<1>2. /\ L = Len(scopeStack)
      /\ L \in 1..L
      /\ Len(scopeStack') = L
      /\ \A c \in 1..(L - 1) : scopeStack'[c] = scopeStack[c]
  <2>1. /\ L # 0
        /\ scopeStack' = [scopeStack EXCEPT ![L] = Append(scopeStack[L], s)]
    BY <1>0 DEF TypeOK, insertSymbol
  <2> QED
    BY <1>0, <2>1 DEF TypeOK
<1>3. /\ DOMAIN scopeStack[L] = 1..(k - 1)
      /\ DOMAIN scopeStack'[L] = 1..k
      /\ k \in 1..BktCapacity
      /\ scopeStack'[L][k] = s
      /\ \A j \in 1..(k - 1) : scopeStack'[L][j] = scopeStack[L][j]
  <2>1. /\ scopeStack[L] \in Seq(Symbol)
        /\ scopeStack'[L] = Append(scopeStack[L], s)
        /\ Len(scopeStack[L]) < BktCapacity
    BY <1>2 DEF TypeOK, insertSymbol
  <2> QED
    BY <1>1, <2>1, SymbolTableAssumption
<1>4. s = [name |-> s.name, type |-> s.type] /\ s.name \in Name /\ s.type \in Decl
  BY DEF Symbol
<1> DEFINE new == [scope |-> L, at |-> k, type |-> s.type]
(* The names that are not inserted are met where they were.                *)
<1>5. ASSUME NEW n \in Name, n # s.name
      PROVE  FindAt(L, n)' = FindAt(L, n)
  <2>1. Met(L, n)' = Met(L, n)
    <3>1. ASSUME NEW e \in [scope: 1..L, at: 1..BktCapacity, type: Decl]
          PROVE  /\ e.at \in DOMAIN scopeStack'[e.scope]
                 /\ scopeStack'[e.scope][e.at] = [name |-> n, type |-> e.type]
                 <=>
                 /\ e.at \in DOMAIN scopeStack[e.scope]
                 /\ scopeStack[e.scope][e.at] = [name |-> n, type |-> e.type]
      <4>1. CASE e.scope \in 1..(L - 1)
        BY <1>2, <4>1
      <4>2. CASE e.scope = L /\ e.at \in 1..(k - 1)
        BY <1>1, <1>3, <4>2
      <4>3. CASE e.scope = L /\ e.at = k
        BY <1>1, <1>3, <1>4, <1>5, <4>3
      <4>4. CASE e.scope = L /\ e.at \notin 1..k
        BY <1>1, <1>3, <4>4
      <4>5. e.scope \in 1..L /\ e.at \in 1..BktCapacity
        OBVIOUS
      <4> QED
        BY <1>1, <1>2, <4>1, <4>2, <4>3, <4>4, <4>5
    <3> QED
      BY <3>1 DEF Met
  <2> QED
    BY <2>1, SameMetSameMeaning
(* The one that is inserted is met first where it was inserted.            *)
<1>6. FindAt(L, s.name)' = s.type
  <2>1. new \in Met(L, s.name)'
    BY <1>2, <1>3, <1>4 DEF Met
  <2>2. ASSUME NEW f \in Met(L, s.name)'
        PROVE  Before(new, f) /\ (f = new \/ ~Before(f, new))
    <3>1. /\ f \in [scope: 1..L, at: 1..BktCapacity, type: Decl]
          /\ f.at \in DOMAIN scopeStack'[f.scope]
          /\ scopeStack'[f.scope][f.at] = [name |-> s.name, type |-> f.type]
      BY DEF Met
    <3>2. f.scope \in 1..L /\ f.at \in 1..BktCapacity
      BY <3>1
    <3>3. f.scope = L => f.at \in 1..k
      BY <1>3, <3>1
    <3>4. f.scope = L /\ f.at = k => f.type = s.type
      BY <1>3, <1>4, <3>1
    <3>5. f.scope = L /\ f.at = k => f = new
      BY <3>1, <3>4
    <3> QED
      BY <1>1, <1>2, <3>2, <3>3, <3>5 DEF Before
  <2>3. Met(L, s.name)' \in SUBSET [scope: Nat, at: Nat, type: Decl]
    BY SymbolTableAssumption DEF Met
  <2>4. PICK met \in SUBSET [scope: Nat, at: Nat, type: Decl] : met = Met(L, s.name)'
    BY <2>3
  <2>5. First(met) = new
    BY <2>1, <2>2, <2>4, FirstIsFound
  <2>6. FindAt(L, s.name)' = First(met).type
    BY <2>1, <2>4 DEF FindAt
  <2> QED
    BY <2>5, <2>6
<1> DEFINE before == [n \in Name |-> FindAt(L, n)]
<1>7. Meanings' = [d \in 1..L |-> [n \in Name |-> FindAt(d, n)']]
  BY <1>2 DEF Meanings
<1>8. \A d \in 1..L :
          [n \in Name |-> FindAt(d, n)'] =
              IF d = L THEN [before EXCEPT ![s.name] = s.type] ELSE Meanings[d]
  <2>1. ASSUME NEW d \in 1..(L - 1)
        PROVE  [n \in Name |-> FindAt(d, n)'] = Meanings[d]
    <3>1. Meanings[d] = [n \in Name |-> FindAt(d, n)]
      BY <1>2 DEF Meanings
    <3>2. \A n \in Name : FindAt(d, n)' = FindAt(d, n)
      BY <1>2, UntouchedDepth
    <3> QED
      BY <3>1, <3>2
  <2>2. [n \in Name |-> FindAt(L, n)'] = [before EXCEPT ![s.name] = s.type]
    BY <1>4, <1>5, <1>6
  <2>3. \A d \in 1..L : d = L \/ d \in 1..(L - 1)
    OBVIOUS
  <2> HIDE DEF before
  <2> QED
    BY <2>1, <2>2, <2>3, Zenon
<1>9. /\ Meanings # <<>>
      /\ Len(Meanings) = L
      /\ Meanings = [d \in 1..L |-> Meanings[d]]
      /\ Meanings[L] = before
  BY <1>2, MeaningsShape DEF Meanings
<1> HIDE DEF before
<1>10. Meanings' = [Meanings EXCEPT ![L] = [before EXCEPT ![s.name] = s.type]]
  BY <1>7, <1>8, <1>9
<1> QED
  BY <1>9, <1>10 DEF Block!Declare

-----------------------------------------------------------------------------
(* Every behaviour of the stack of tables is one of block structure:       *)
(* findSymbol returns the innermost declaration of a name, the newest if   *)
(* one scope has several, and popScope brings back what was visible before *)
(* the matching pushScope.                                                 *)
THEOREM SymbolTableImplementsScopes == Spec => ImplementsScopes
<1>1. Init => Block!Init
  BY DEF Init, Block!Init, Meanings
<1>2. TypeOK /\ [Next]_scopeStack => [Block!Next]_Meanings
  <2> SUFFICES ASSUME TypeOK, [Next]_scopeStack
               PROVE  [Block!Next]_Meanings
    OBVIOUS
  <2>1. CASE pushScope
    BY <2>1, PushOpens DEF Block!Next
  <2>2. CASE popScope /\ scopeStack # <<>>
    BY <2>2, PopCloses DEF Block!Next
  <2>3. ASSUME NEW s \in Symbol, insertSymbol(s), scopeStack # <<>>
        PROVE  Block!Next
    <3>1. s.name \in Name /\ s.type \in Decl
      BY DEF Symbol
    <3> QED
      BY <2>3, <3>1, InsertDeclaresLemma DEF Block!Next
  <2>4. CASE UNCHANGED scopeStack
    BY <2>4 DEF Meanings, FindAt, Met
  <2>5. scopeStack = <<>> /\ (popScope \/ \E s \in Symbol : insertSymbol(s))
            => UNCHANGED scopeStack
    BY DEF popScope, insertSymbol
  <2> QED
    BY <2>1, <2>2, <2>3, <2>4, <2>5 DEF Next
<1> QED
  BY <1>1, <1>2, SymbolTableTypeCorrect, PTL DEF Spec, ImplementsScopes, Block!Spec

(* insertSymbol changes the meaning of the name it inserts in the innermost *)
(* scope, at once, and no other meaning.                                    *)
THEOREM InsertionsTakeEffect == Spec => InsertDeclares
<1>1. TypeOK /\ [Next]_scopeStack
        => [\A s \in Symbol : insertSymbol(s) => Block!Declare(s.name, s.type)]_scopeStack
  <2> SUFFICES ASSUME TypeOK, scopeStack' # scopeStack, NEW s \in Symbol, insertSymbol(s)
               PROVE  Block!Declare(s.name, s.type)
    OBVIOUS
  <2>1. scopeStack # <<>>
    BY DEF insertSymbol
  <2> QED
    BY <2>1, InsertDeclaresLemma
<1> QED
  BY <1>1, SymbolTableTypeCorrect, PTL DEF Spec, InsertDeclares
=============================================================================
