------------------------------ MODULE Agendas ------------------------------
(***************************************************************************)
(* Sequences of tasks of which some enter a scope and some leave one, and  *)
(* what putting them together does to the count of scopes.  Lemmas for the *)
(* walks of translate.c and semantic.c, which call pushScope and popScope  *)
(* by hand.                                                                *)
(***************************************************************************)
EXTENDS SymbolTable, FiniteSetTheorems, SequenceTheorems, TLAPS

(* Where in a sequence of tasks there is one of this kind.                 *)
At(kind, s) == {k \in DOMAIN s : s[k].do = kind}
IsSequence(s) == s = [k \in 1..Len(s) |-> s[k]] /\ Len(s) \in Nat

LEMMA SequenceLemma ==
    ASSUME NEW S, NEW s \in Seq(S)
    PROVE  IsSequence(s)
BY DEF IsSequence

LEMMA RangeLemma ==
    ASSUME NEW s, IsSequence(s)
    PROVE  s \in Seq({s[k] : k \in 1..Len(s)})
<1> DEFINE S == {s[k] : k \in 1..Len(s)}
<1>1. s \in [1..Len(s) -> S]
  BY DEF IsSequence
<1>2. Len(s) \in Nat
  BY DEF IsSequence
<1> QED
  <2>1. s \in UNION {[1..n -> S] : n \in Nat}
    BY <1>1, <1>2
  <2> QED
    BY <2>1, SeqDef

LEMMA ConcatLemma ==
    ASSUME NEW s, IsSequence(s), NEW t, IsSequence(t)
    PROVE  /\ IsSequence(s \o t)
           /\ Len(s \o t) = Len(s) + Len(t)
           /\ \A k \in 1..Len(s) : (s \o t)[k] = s[k]
           /\ \A k \in 1..Len(t) : (s \o t)[Len(s) + k] = t[k]
<1> DEFINE S == {s[k] : k \in 1..Len(s)} \cup {t[k] : k \in 1..Len(t)}
<1>1. ASSUME NEW A, NEW B, NEW x \in Seq(A) PROVE x \in Seq(A \cup B) /\ x \in Seq(B \cup A)
  BY <1>1
<1>2. s \in Seq(S) /\ t \in Seq(S)
  BY <1>1, RangeLemma
<1> HIDE DEF S
<1>3. s \o t \in Seq(S)
  BY <1>2, ConcatProperties
<1>4. /\ Len(s \o t) = Len(s) + Len(t)
      /\ \A i \in 1..Len(s) + Len(t) : (s \o t)[i] = IF i <= Len(s) THEN s[i] ELSE t[i - Len(s)]
  BY <1>2, ConcatProperties
<1>5. Len(s) \in Nat /\ Len(t) \in Nat
  BY DEF IsSequence
<1>6. ASSUME NEW k \in 1..Len(t) PROVE (s \o t)[Len(s) + k] = t[k]
  <2>1. Len(s) + k \in 1..Len(s) + Len(t) /\ ~(Len(s) + k <= Len(s)) /\ Len(s) + k - Len(s) = k
    BY <1>5
  <2> QED
    BY <1>4, <2>1
<1>7. ASSUME NEW k \in 1..Len(s) PROVE (s \o t)[k] = s[k]
  <2>1. k \in 1..Len(s) + Len(t) /\ k <= Len(s)
    BY <1>5
  <2> QED
    BY <1>4, <2>1
<1> QED
  BY <1>3, <1>4, <1>6, <1>7, SequenceLemma

LEMMA ConcatSequences ==
    \A s, t : IsSequence(s) /\ IsSequence(t) =>
        /\ IsSequence(s \o t)
        /\ Len(s \o t) = Len(s) + Len(t)
        /\ \A k \in 1..Len(s) : (s \o t)[k] = s[k]
        /\ \A k \in 1..Len(t) : (s \o t)[Len(s) + k] = t[k]
BY ConcatLemma

LEMMA AtFinite ==
    ASSUME NEW s, IsSequence(s), NEW kind
    PROVE  IsFiniteSet(At(kind, s)) /\ Cardinality(At(kind, s)) \in Nat
<1>1. DOMAIN s = 1..Len(s) /\ Len(s) \in Nat
  BY DEF IsSequence
<1>2. IsFiniteSet(1..Len(s))
  BY <1>1, FS_Interval
<1>3. At(kind, s) \in SUBSET (1..Len(s))
  BY <1>1 DEF At
<1> HIDE DEF At
<1>4. IsFiniteSet(At(kind, s))
  BY <1>2, <1>3, FS_Subset
<1> QED
  BY <1>4, FS_CardinalityType

LEMMA AtConcat ==
    ASSUME NEW s, IsSequence(s), NEW t, IsSequence(t), NEW kind
    PROVE  Cardinality(At(kind, s \o t)) = Cardinality(At(kind, s)) + Cardinality(At(kind, t))
<1> DEFINE n == Len(s)
           A == At(kind, s)
           B == At(kind, t)
           T == {n + k : k \in B}
           f == [k \in B |-> n + k]
<1>1. /\ n \in Nat /\ Len(t) \in Nat /\ DOMAIN s = 1..n /\ DOMAIN t = 1..Len(t)
      /\ DOMAIN (s \o t) = 1..n + Len(t)
  BY ConcatLemma DEF IsSequence
<1>2. A \subseteq 1..n /\ B \subseteq 1..Len(t)
  BY <1>1 DEF At
<1>3. At(kind, s \o t) = A \cup T
  <2>1. ASSUME NEW k \in At(kind, s \o t) PROVE k \in A \cup T
    <3>1. k \in 1..n + Len(t) /\ (s \o t)[k].do = kind
      BY <1>1, <2>1 DEF At
    <3>2. CASE k \in 1..n
      BY <1>1, <3>1, <3>2, ConcatLemma DEF At
    <3>3. CASE k \notin 1..n
      <4>1. k - n \in 1..Len(t) /\ n + (k - n) = k
        BY <1>1, <3>1, <3>3
      <4>2. (s \o t)[k] = t[k - n]
        BY <4>1, ConcatLemma
      <4>3. k - n \in B
        BY <1>1, <3>1, <4>1, <4>2 DEF At
      <4> QED
        BY <4>1, <4>3
    <3> QED
      BY <3>2, <3>3
  <2>2. ASSUME NEW k \in A PROVE k \in At(kind, s \o t)
    <3>1. k \in 1..n /\ s[k].do = kind
      BY <1>1, <2>2 DEF At
    <3> QED
      BY <1>1, <3>1, ConcatLemma DEF At
  <2>3. ASSUME NEW k \in B PROVE n + k \in At(kind, s \o t)
    <3>1. k \in 1..Len(t) /\ t[k].do = kind
      BY <1>1, <2>3 DEF At
    <3> QED
      BY <1>1, <3>1, ConcatLemma DEF At
  <2> QED
    BY <2>1, <2>2, <2>3
<1>4. IsFiniteSet(A) /\ IsFiniteSet(B) /\ Cardinality(A) \in Nat /\ Cardinality(B) \in Nat
  BY AtFinite
<1> HIDE DEF A, B
<1>5. f \in Bijection(B, T)
  <2>1. f \in [B -> T]
    OBVIOUS
  <2>2. \A j, k \in B : f[j] = f[k] => j = k
    BY <1>1, <1>2
  <2>3. IsInjective(f)
    BY <2>2 DEF IsInjective
  <2>4. \A k \in T : \E j \in B : f[j] = k
    OBVIOUS
  <2> QED
    BY <2>1, <2>3, <2>4 DEF Bijection, Injection, Surjection
<1>6. IsFiniteSet(T) /\ Cardinality(T) = Cardinality(B)
  BY <1>4, <1>5, FS_Bijection DEF ExistsBijection
<1>7. A \cap T = {}
  BY <1>1, <1>2
<1>8. Cardinality(A \cup T) = Cardinality(A) + Cardinality(T) - Cardinality({})
  BY <1>4, <1>6, <1>7, FS_Union
<1>9. Cardinality(A \cup T) = Cardinality(A) + Cardinality(B)
  BY <1>4, <1>6, <1>8, FS_EmptySet
<1> QED
  BY <1>3, <1>9 DEF A, B

-----------------------------------------------------------------------------
(* What a sequence of tasks leaves of the scopes.                          *)

Bal(s) == Cardinality(At("popScope", s)) - Cardinality(At("pushScope", s))
After(s, n) == [k \in 1..Len(s) - n |-> s[n + k]]

(* Wherever one begins in it, not more is entered than is left.            *)
Balanced(s) == \A n \in 0..Len(s) : Bal(After(s, n)) >= 0

LEMMA FunctionLemma ==
    ASSUME NEW n \in Nat, NEW s, s = [k \in 1..n |-> s[k]]
    PROVE  IsSequence(s) /\ Len(s) = n
BY DEF IsSequence

LEMMA BalType ==
    ASSUME NEW s, IsSequence(s)
    PROVE  Bal(s) \in Int
BY AtFinite DEF Bal

LEMMA BalConcat ==
    ASSUME NEW s, IsSequence(s), NEW t, IsSequence(t)
    PROVE  Bal(s \o t) = Bal(s) + Bal(t)
<1>1. \A kind : Cardinality(At(kind, s \o t)) = Cardinality(At(kind, s)) + Cardinality(At(kind, t))
  BY AtConcat
<1>2. \A kind : Cardinality(At(kind, s)) \in Nat /\ Cardinality(At(kind, t)) \in Nat
  BY AtFinite
<1> QED
  BY <1>1, <1>2 DEF Bal

LEMMA AfterSequence ==
    ASSUME NEW s, IsSequence(s), NEW n \in 0..Len(s)
    PROVE  /\ IsSequence(After(s, n)) /\ Len(After(s, n)) = Len(s) - n
           /\ n = 0 => After(s, n) = s
<1>1. Len(s) \in Nat /\ Len(s) - n \in Nat /\ s = [k \in 1..Len(s) |-> s[k]]
  BY DEF IsSequence
<1>2. IsSequence(After(s, n)) /\ Len(After(s, n)) = Len(s) - n
  BY <1>1, FunctionLemma DEF After
<1>3. ASSUME n = 0 PROVE After(s, n) = s
  BY <1>1, <1>3 DEF After
<1> QED
  BY <1>2, <1>3

LEMMA AfterConcat ==
    ASSUME NEW s, IsSequence(s), NEW t, IsSequence(t), NEW n \in 0..Len(s \o t)
    PROVE  /\ n <= Len(s) => After(s \o t, n) = After(s, n) \o t
           /\ n > Len(s) => After(s \o t, n) = After(t, n - Len(s))
<1> DEFINE st == s \o t
<1>1. Len(s) \in Nat /\ Len(t) \in Nat
  BY DEF IsSequence
<1>2. /\ IsSequence(st) /\ Len(st) = Len(s) + Len(t)
      /\ \A k \in 1..Len(s) : st[k] = s[k]
      /\ \A k \in 1..Len(t) : st[Len(s) + k] = t[k]
  BY ConcatLemma
<1> HIDE DEF st
<1>3. ASSUME n <= Len(s) PROVE After(st, n) = After(s, n) \o t
  <2> DEFINE a == After(s, n)
  <2>1. n \in 0..Len(s) /\ Len(s) - n \in Nat
    BY <1>1, <1>2, <1>3 DEF st
  <2>2. IsSequence(a) /\ Len(a) = Len(s) - n
    BY <2>1, AfterSequence
  <2>3. \A k \in 1..Len(a) : a[k] = s[n + k]
    BY <2>2 DEF After
  <2> HIDE DEF a
  <2>4. /\ IsSequence(a \o t) /\ Len(a \o t) = Len(a) + Len(t)
        /\ \A k \in 1..Len(a) : (a \o t)[k] = a[k]
        /\ \A k \in 1..Len(t) : (a \o t)[Len(a) + k] = t[k]
    BY <2>2, ConcatSequences
  <2>5. ASSUME NEW k \in 1..Len(st) - n PROVE (a \o t)[k] = st[n + k]
    <3>1. CASE k <= Len(a)
      <4>1. k \in 1..Len(a) /\ n + k \in 1..Len(s)
        BY <1>1, <2>1, <2>2, <2>5, <3>1
      <4> QED
        BY <1>2, <2>4, <2>3, <4>1
    <3>2. CASE k > Len(a)
      <4>1. k - Len(a) \in 1..Len(t) /\ Len(a) + (k - Len(a)) = k /\ Len(s) + (k - Len(a)) = n + k
        BY <1>1, <1>2, <2>1, <2>2, <2>5, <3>2
      <4> QED
        BY <1>2, <2>4, <4>1
    <3> QED
      BY <1>1, <1>2, <2>1, <2>2, <2>5, <3>1, <3>2
  <2>6. Len(a \o t) = Len(st) - n
    BY <1>1, <1>2, <2>1, <2>2, <2>4
  <2>7. a \o t = [k \in 1..Len(st) - n |-> (a \o t)[k]]
    BY <2>4, <2>6 DEF IsSequence
  <2>8. After(st, n) = [k \in 1..Len(st) - n |-> (a \o t)[k]]
    BY <2>5 DEF After
  <2> QED
    BY <2>7, <2>8 DEF a
<1>4. ASSUME n > Len(s) PROVE After(st, n) = After(t, n - Len(s))
  <2>0. n \in Int /\ Len(st) = Len(s) + Len(t)
    BY <1>1, <1>2 DEF st
  <2>1. /\ Len(st) - n = Len(t) - (n - Len(s))
        /\ \A k \in 1..Len(st) - n : n - Len(s) + k \in 1..Len(t) /\ Len(s) + (n - Len(s) + k) = n + k
    BY <1>1, <2>0, <1>4
  <2>2. \A k \in 1..Len(st) - n : st[n + k] = t[n - Len(s) + k]
    BY <1>2, <2>1
  <2> QED
    BY <2>1, <2>2 DEF After
<1> QED
  BY <1>3, <1>4 DEF st

LEMMA BalancedConcat ==
    ASSUME NEW s, IsSequence(s), Balanced(s), NEW t, IsSequence(t), Balanced(t)
    PROVE  Balanced(s \o t)
<1>1. Len(s) \in Nat /\ Len(t) \in Nat /\ Len(s \o t) = Len(s) + Len(t)
  BY ConcatLemma DEF IsSequence
<1>2. Bal(t) \in Int /\ Bal(t) >= 0
  <2>1. After(t, 0) = t /\ 0 \in 0..Len(t)
    BY <1>1, AfterSequence
  <2> QED
    BY <2>1, BalType DEF Balanced
<1>3. ASSUME NEW n \in 0..Len(s \o t) PROVE Bal(After(s \o t, n)) >= 0
  <2>1. CASE n <= Len(s)
    <3>1. n \in 0..Len(s)
      BY <1>1, <1>3, <2>1
    <3> DEFINE a == After(s, n)
    <3>2. IsSequence(a) /\ Bal(a) >= 0
      BY <3>1, AfterSequence DEF Balanced
    <3>3. After(s \o t, n) = a \o t
      BY <2>1, AfterConcat
    <3> HIDE DEF a
    <3>4. Bal(a \o t) = Bal(a) + Bal(t) /\ Bal(a) \in Int
      BY <3>2, BalConcat, BalType
    <3> QED
      BY <1>2, <3>2, <3>3, <3>4
  <2>2. CASE n > Len(s)
    <3>1. n - Len(s) \in 0..Len(t)
      BY <1>1, <1>3, <2>2
    <3>2. After(s \o t, n) = After(t, n - Len(s))
      BY <1>3, <2>2, AfterConcat
    <3>3. Bal(After(t, n - Len(s))) >= 0
      BY <3>1 DEF Balanced
    <3> QED
      BY <3>2, <3>3
  <2> QED
    BY <1>1, <1>3, <2>1, <2>2
<1> QED
  BY <1>3 DEF Balanced

(* Tasks that neither enter nor leave a scope.                             *)
Plain(s) == \A k \in 1..Len(s) : s[k].do \notin {"pushScope", "popScope"}

LEMMA BalancedPlain ==
    ASSUME NEW s, IsSequence(s), Plain(s)
    PROVE  Balanced(s) /\ Bal(s) = 0
<1>1. ASSUME NEW u, IsSequence(u), Plain(u)
      PROVE  Bal(u) = 0
  <2>1. At("popScope", u) = {} /\ At("pushScope", u) = {}
    BY <1>1 DEF At, IsSequence, Plain
  <2> QED
    BY <2>1, FS_EmptySet DEF Bal
<1>2. ASSUME NEW n \in 0..Len(s) PROVE Bal(After(s, n)) >= 0
  <2> DEFINE a == After(s, n)
  <2>1. IsSequence(a) /\ Len(a) = Len(s) - n
    BY <1>2, AfterSequence
  <2>2. ASSUME NEW k \in 1..Len(a) PROVE a[k].do \notin {"pushScope", "popScope"}
    <3>1. a[k] = s[n + k] /\ n + k \in 1..Len(s)
      BY <1>2, <2>1, <2>2 DEF After, IsSequence
    <3> QED
      BY <3>1 DEF Plain
  <2> HIDE DEF a
  <2>3. Bal(a) = 0
    BY <1>1, <2>1, <2>2 DEF Plain
  <2> QED
    BY <2>3 DEF a
<1>3. Bal(s) = 0
  BY <1>1
<1> QED
  BY <1>2, <1>3 DEF Balanced

LEMMA BalancedNone == IsSequence(<<>>) /\ Len(<<>>) = 0 /\ Balanced(<<>>) /\ Bal(<<>>) = 0
<1>1. IsSequence(<<>>) /\ Len(<<>>) = 0
  BY DEF IsSequence
<1>2. Plain(<<>>)
  BY <1>1 DEF Plain
<1> QED
  BY <1>1, <1>2, BalancedPlain

LEMMA BalOne ==
    ASSUME NEW x
    PROVE  /\ IsSequence(<<x>>) /\ Len(<<x>>) = 1 /\ <<x>>[1] = x
           /\ Bal(<<x>>) = IF x.do = "popScope" THEN 1 ELSE IF x.do = "pushScope" THEN -1 ELSE 0
<1> DEFINE s == <<x>>
<1>1. IsSequence(s) /\ Len(s) = 1 /\ s[1] = x /\ DOMAIN s = {1}
  BY DEF IsSequence
<1> HIDE DEF s
<1>2. ASSUME NEW kind PROVE Cardinality(At(kind, s)) = IF x.do = kind THEN 1 ELSE 0
  <2>1. CASE x.do = kind
    <3>1. At(kind, s) = {1}
      BY <1>1, <2>1 DEF At
    <3> QED
      BY <2>1, <3>1, FS_Singleton
  <2>2. CASE x.do # kind
    <3>1. At(kind, s) = {}
      BY <1>1, <2>2 DEF At
    <3> QED
      BY <2>2, <3>1, FS_EmptySet
  <2> QED
    BY <2>1, <2>2
<1>3. /\ Cardinality(At("popScope", s)) = IF x.do = "popScope" THEN 1 ELSE 0
      /\ Cardinality(At("pushScope", s)) = IF x.do = "pushScope" THEN 1 ELSE 0
  BY <1>2
<1>4. Bal(s) = IF x.do = "popScope" THEN 1 ELSE IF x.do = "pushScope" THEN -1 ELSE 0
  BY <1>3 DEF Bal
<1> QED
  BY <1>1, <1>4 DEF s

(* A first task in front of others.                                        *)
IsOne(s) == IsSequence(s) /\ Len(s) = 1

LEMMA BalancedCons ==
    ASSUME NEW s, IsOne(s),
           NEW t, IsSequence(t), Balanced(t), Bal(s) + Bal(t) >= 0
    PROVE  Balanced(s \o t)
<1>1. IsSequence(t) /\ Len(t) \in Nat /\ IsSequence(s)
  BY DEF IsOne, IsSequence
<1>2. IsSequence(s \o t) /\ Len(s \o t) = Len(s) + Len(t)
  BY <1>1, ConcatSequences
<1>3. Bal(s \o t) = Bal(s) + Bal(t)
  BY <1>1, BalConcat
<1>4. Len(s) = 1
  BY DEF IsOne
<1>5. ASSUME NEW n \in 0..Len(s \o t) PROVE Bal(After(s \o t, n)) >= 0
  <2>1. CASE n = 0
    <3>1. After(s \o t, n) = s \o t
      BY <1>2, <1>5, <2>1, AfterSequence
    <3> QED
      BY <1>3, <3>1
  <2>2. CASE n = 1
    <3>1. /\ 1 \in 0..Len(s) /\ After(s \o t, n) = After(s, 1) \o t
          /\ 1 \in 0..Len(s \o t)
      BY <1>1, <1>4, <1>2, <1>5, <2>2, AfterConcat
    <3>2. PICK a : a = After(s, 1)
      OBVIOUS
    <3>3. IsSequence(After(s, 1)) /\ Len(After(s, 1)) = Len(s) - 1
      BY <1>1, <3>1, AfterSequence
    <3>4. IsSequence(a) /\ Len(a) = 0
      BY <1>4, <3>2, <3>3
    <3>5. Bal(a) = 0
      BY <3>4, BalancedPlain DEF Plain
    <3>6. Bal(a \o t) = Bal(a) + Bal(t)
      BY <1>1, <3>4, BalConcat
    <3>7. After(t, 0) = t /\ 0 \in 0..Len(t)
      BY <1>1, AfterSequence
    <3>8. Bal(t) \in Int /\ Bal(t) >= 0
      BY <1>1, <3>7, BalType DEF Balanced
    <3>9. After(s \o t, n) = a \o t
      BY <3>2, <3>1
    <3>10. Bal(a \o t) >= 0
      BY <3>5, <3>6, <3>8
    <3> QED
      BY <3>9, <3>10
  <2>3. CASE n > 1
    <3>1. n - Len(s) \in 0..Len(t) /\ n > Len(s)
      BY <1>1, <1>4, <1>2, <1>5, <2>3
    <3>2. After(s \o t, n) = After(t, n - Len(s))
      BY <1>1, <1>4, <1>5, <3>1, AfterConcat
    <3> QED
      BY <3>1, <3>2 DEF Balanced
  <2>4. n \in Nat
    BY <1>1, <1>4, <1>2, <1>5
  <2> QED
    BY <2>1, <2>2, <2>3, <2>4
<1> QED
  BY <1>5 DEF Balanced

(* What is left when the first task is taken away.                         *)
LEMMA RestLemma ==
    ASSUME NEW s, IsSequence(s), Balanced(s), s # <<>>
    PROVE  /\ Head(s) = s[1] /\ 1 \in 1..Len(s)
           /\ IsSequence(Tail(s)) /\ Len(Tail(s)) = Len(s) - 1
           /\ \A k \in 1..Len(Tail(s)) : k + 1 \in 1..Len(s) /\ Tail(s)[k] = s[k + 1]
           /\ Balanced(Tail(s))
           /\ Bal(s) = Bal(<<Head(s)>>) + Bal(Tail(s))
<1>1. IsSequence(s) /\ Len(s) \in Nat /\ s \in Seq({s[k] : k \in 1..Len(s)})
  BY RangeLemma DEF IsSequence
<1>2. Len(s) # 0
  <2>1. ASSUME Len(s) = 0 PROVE FALSE
    BY <1>1, <2>1 DEF IsSequence
  <2> QED
    BY <2>1
<1>3. PICK t : t = Tail(s)
  OBVIOUS
<1>4. /\ t \in Seq({s[k] : k \in 1..Len(s)}) /\ Len(t) = Len(s) - 1
      /\ \A k \in 1..Len(t) : t[k] = s[k + 1]
  BY <1>3, <1>1, HeadTailProperties
<1>5. IsSequence(t) /\ Len(t) = Len(s) - 1
  BY <1>4, SequenceLemma
<1>6. Head(s) = s[1] /\ 1 \in 1..Len(s)
  BY <1>1, <1>2
<1>7. PICK u : u = <<s[1]>>
  OBVIOUS
<1>8. IsSequence(u)
  BY <1>7, BalOne
<1>9. Len(u) = 1 /\ u[1] = s[1]
  BY <1>7, BalOne
<1>10. s = u \o t
  <2>1. /\ IsSequence(u \o t)
        /\ Len(u \o t) = Len(u) + Len(t)
        /\ \A k \in 1..Len(u) : (u \o t)[k] = u[k]
        /\ \A k \in 1..Len(t) : (u \o t)[Len(u) + k] = t[k]
    BY <1>5, <1>8, ConcatSequences
  <2>2. Len(u \o t) = Len(s)
    BY <1>1, <1>5, <1>9, <2>1
  <2>3. ASSUME NEW k \in 1..Len(s) PROVE (u \o t)[k] = s[k]
    <3>1. CASE k = 1
      BY <1>9, <2>1, <3>1
    <3>2. CASE k # 1
      <4>1. k - 1 \in 1..Len(t) /\ Len(u) + (k - 1) = k /\ k - 1 + 1 = k
        BY <1>1, <1>5, <1>9, <2>3, <3>2
      <4> QED
        BY <1>4, <2>1, <4>1
    <3> QED
      BY <3>1, <3>2
  <2>4. u \o t = [k \in 1..Len(s) |-> (u \o t)[k]]
    BY <2>1, <2>2 DEF IsSequence
  <2>5. s = [k \in 1..Len(s) |-> (u \o t)[k]]
    BY <1>1, <2>3 DEF IsSequence
  <2> QED
    BY <2>4, <2>5
<1>11. Bal(s) = Bal(u) + Bal(t)
  BY <1>5, <1>8, <1>10, BalConcat
<1>12. ASSUME NEW n \in 0..Len(t) PROVE Bal(After(t, n)) >= 0
  <2>1. n + 1 \in 0..Len(s) /\ Len(s) - (n + 1) = Len(t) - n
    BY <1>1, <1>2, <1>5, <1>12
  <2>2. \A k \in 1..Len(t) - n : t[n + k] = s[n + 1 + k]
    <3>1. \A k \in 1..Len(t) - n : n + k \in 1..Len(t) /\ n + k + 1 = n + 1 + k
      BY <1>1, <1>5, <1>12
    <3> QED
      BY <1>4, <3>1
  <2>3. After(t, n) = After(s, n + 1)
    BY <2>1, <2>2 DEF After
  <2> QED
    BY <2>1, <2>3 DEF Balanced
<1>13. \A k \in 1..Len(t) : k + 1 \in 1..Len(s)
  BY <1>1, <1>5
<1>14. Balanced(t)
  BY <1>12 DEF Balanced
<1> QED
  BY <1>3, <1>4, <1>5, <1>6, <1>7, <1>11, <1>13, <1>14

(* Every task of a concatenation is one of the parts.                      *)
LEMMA ConcatElements ==
    ASSUME NEW s, IsSequence(s), NEW t, IsSequence(t), NEW k \in 1..Len(s \o t)
    PROVE  \/ \E j \in 1..Len(s) : (s \o t)[k] = s[j]
           \/ \E j \in 1..Len(t) : (s \o t)[k] = t[j]
<1>1. /\ Len(s) \in Nat /\ Len(t) \in Nat /\ Len(s \o t) = Len(s) + Len(t)
      /\ \A i \in 1..Len(s) : (s \o t)[i] = s[i]
      /\ \A i \in 1..Len(t) : (s \o t)[Len(s) + i] = t[i]
  BY ConcatSequences DEF IsSequence
<1>2. CASE k <= Len(s)
  BY <1>1, <1>2
<1>3. CASE k > Len(s)
  <2>1. k - Len(s) \in 1..Len(t) /\ Len(s) + (k - Len(s)) = k
    BY <1>1, <1>3
  <2> QED
    BY <1>1, <2>1
<1> QED
  BY <1>1, <1>2, <1>3

LEMMA PairLemma ==
    ASSUME NEW x, NEW y
    PROVE  <<x>> \o <<y>> = <<x, y>>
<1>1. <<x>> \in Seq({x, y}) /\ <<y>> \in Seq({x, y}) /\ Len(<<x>>) = 1 /\ Len(<<y>>) = 1
  OBVIOUS
<1>2. PICK s : s = <<x>> \o <<y>>
  OBVIOUS
<1>3. s \in Seq({x, y}) /\ Len(s) = 2 /\ s[1] = <<x>>[1] /\ s[2] = <<y>>[1]
  BY <1>1, <1>2, ConcatProperties
<1>4. s = [k \in 1..2 |-> IF k = 1 THEN x ELSE y]
  BY <1>3
<1>5. <<x, y>> = [k \in 1..2 |-> IF k = 1 THEN x ELSE y]
  OBVIOUS
<1> QED
  BY <1>2, <1>4, <1>5

LEMMA Associative ==
    ASSUME NEW s, IsSequence(s), NEW t, IsSequence(t), NEW u, IsSequence(u)
    PROVE  (s \o t) \o u = s \o (t \o u)
<1> DEFINE A == {s[k] : k \in 1..Len(s)}
           B == {t[k] : k \in 1..Len(t)}
           C == {u[k] : k \in 1..Len(u)}
<1>1. s \in Seq(A) /\ t \in Seq(B) /\ u \in Seq(C)
  BY RangeLemma
<1> HIDE DEF A, B, C
<1>2. ASSUME NEW X, NEW Y, NEW x \in Seq(X) PROVE x \in Seq(X \cup Y) /\ x \in Seq(Y \cup X)
  BY <1>2
<1>3. s \in Seq(A \cup (B \cup C)) /\ t \in Seq(A \cup (B \cup C)) /\ u \in Seq(A \cup (B \cup C))
  BY <1>1, <1>2
<1> QED
  BY <1>3, ConcatAssociative

LEMMA NothingBefore ==
    ASSUME NEW s, IsSequence(s)
    PROVE  <<>> \o s = s
<1>1. s \in Seq({s[k] : k \in 1..Len(s)})
  BY RangeLemma
<1> QED
  BY <1>1, ConcatEmptySeq

LEMMA BalancedEnd ==
    ASSUME NEW s, IsSequence(s), Balanced(s)
    PROVE  Bal(s) \in Int /\ Bal(s) >= 0
<1>1. Len(s) \in Nat
  BY DEF IsSequence
<1>2. After(s, 0) = s /\ 0 \in 0..Len(s)
  BY <1>1, AfterSequence
<1> QED
  BY <1>2, BalType DEF Balanced

-----------------------------------------------------------------------------
(* What the calls of symbolTable.c do to the number of scopes.             *)

LEMMA InsertKeeps ==
    ASSUME IsSequence(scopeStack), NEW s, insertSymbol(s)
    PROVE  IsSequence(scopeStack') /\ Len(scopeStack') = Len(scopeStack)
<1>1. CASE scopeStack = <<>>
  BY <1>1 DEF insertSymbol
<1>2. CASE scopeStack # <<>>
  <2>1. PICK n \in Nat : n = Len(scopeStack) /\ scopeStack = [k \in 1..n |-> scopeStack[k]]
    BY DEF IsSequence
  <2>2. PICK x : scopeStack' = [scopeStack EXCEPT ![n] = x]
    BY <1>2, <2>1 DEF insertSymbol
  <2>3. scopeStack' = [k \in 1..n |-> scopeStack'[k]]
    BY <2>1, <2>2
  <2> QED
    BY <2>1, <2>3, FunctionLemma
<1> QED
  BY <1>1, <1>2

LEMMA PushesOne ==
    ASSUME IsSequence(scopeStack), pushScope
    PROVE  IsSequence(scopeStack') /\ Len(scopeStack') = Len(scopeStack) + 1
<1>1. scopeStack \in Seq({scopeStack[k] : k \in 1..Len(scopeStack)})
  BY RangeLemma
<1>2. scopeStack \in Seq({scopeStack[k] : k \in 1..Len(scopeStack)} \cup {<<>>})
  BY <1>1, SeqDef
<1>3. /\ scopeStack' \in Seq({scopeStack[k] : k \in 1..Len(scopeStack)} \cup {<<>>})
      /\ Len(scopeStack') = Len(scopeStack) + 1
  BY <1>2, AppendProperties DEF pushScope
<1> QED
  BY <1>3, SequenceLemma

LEMMA PopsOne ==
    ASSUME IsSequence(scopeStack), Len(scopeStack) >= 1, popScope
    PROVE  IsSequence(scopeStack') /\ Len(scopeStack') = Len(scopeStack) - 1
<1>1. PICK n \in Nat : n = Len(scopeStack)
  BY DEF IsSequence
<1>2. scopeStack # <<>>
  BY <1>1, BalancedNone
<1>3. scopeStack' = SubSeq(scopeStack, 1, n - 1)
  BY <1>1, <1>2 DEF popScope
<1>4. n - 1 \in Nat /\ scopeStack' = [k \in 1..n - 1 |-> scopeStack'[k]]
  BY <1>1, <1>3
<1> QED
  BY <1>1, <1>4, FunctionLemma
=============================================================================
