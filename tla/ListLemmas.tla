----------------------------- MODULE ListLemmas -----------------------------
(***************************************************************************)
(* Facts about sequences and finite sets of numbers that the proofs about  *)
(* the page cache share: the LRU list as a sequence without repetitions.   *)
(***************************************************************************)
EXTENDS Naturals, Sequences, SequencesExt, FiniteSets, FiniteSetsExt,
        FiniteSetTheorems, SequenceTheorems, TLAPS

\* No element occurs twice.
Once(s) == \A i, j \in 1..Len(s) : s[i] = s[j] => i = j

\* The elements of a sequence.
LEMMA ToSetFacts ==
    ASSUME NEW S, NEW s \in Seq(S)
    PROVE  /\ ToSet(s) \in SUBSET S
           /\ \A x : x \in ToSet(s) <=> \E i \in 1..Len(s) : x = s[i]
BY DEF ToSet

\* A new element at the front.
LEMMA PushFacts ==
    ASSUME NEW S, NEW s \in Seq(S), NEW p \in S, Once(s), p \notin ToSet(s)
    PROVE  /\ <<p>> \o s \in Seq(S)
           /\ Len(<<p>> \o s) = Len(s) + 1
           /\ ToSet(<<p>> \o s) = ToSet(s) \cup {p}
           /\ Once(<<p>> \o s)
<1> DEFINE t == <<p>> \o s
<1>1. /\ t \in Seq(S) /\ Len(t) = Len(s) + 1 /\ Len(s) \in Nat
      /\ t[1] = p /\ \A i \in 2..Len(t) : t[i] = s[i - 1]
  OBVIOUS
<1> HIDE DEF t
<1>2. ToSet(t) = ToSet(s) \cup {p}
  <2>1. ASSUME NEW x \in ToSet(t) PROVE x \in ToSet(s) \cup {p}
    <3>1. PICK i \in 1..Len(t) : x = t[i]
      BY <1>1, <2>1, ToSetFacts
    <3>2. i = 1 \/ (i \in 2..Len(t) /\ i - 1 \in 1..Len(s))
      BY <1>1
    <3> QED BY <1>1, <3>1, <3>2, ToSetFacts
  <2>2. ASSUME NEW x \in ToSet(s) PROVE x \in ToSet(t)
    <3>1. PICK i \in 1..Len(s) : x = s[i]
      BY <2>2, ToSetFacts
    <3>2. i + 1 \in 2..Len(t) /\ t[i + 1] = s[(i + 1) - 1] /\ (i + 1) - 1 = i
      BY <1>1
    <3>3. x = t[i + 1] /\ i + 1 \in 1..Len(t)
      BY <3>1, <3>2, <1>1
    <3> QED BY <3>3, <1>1, ToSetFacts
  <2>3. p \in ToSet(t)
    BY <1>1, ToSetFacts
  <2> QED BY <2>1, <2>2, <2>3
<1>3. Once(t)
  <2> SUFFICES ASSUME NEW i \in 1..Len(t), NEW j \in 1..Len(t), t[i] = t[j]
               PROVE  i = j
    BY DEF Once
  <2>1. \A k \in 1..Len(s) : s[k] # p
    BY ToSetFacts
  <2>2. \A k \in 2..Len(t) : k - 1 \in 1..Len(s) /\ t[k] # p
    BY <1>1, <2>1
  <2>3. CASE i = 1 \/ j = 1
    BY <1>1, <2>2, <2>3
  <2>4. CASE i \in 2..Len(t) /\ j \in 2..Len(t)
    BY <1>1, <2>2, <2>4 DEF Once
  <2> QED BY <1>1, <2>3, <2>4
<1> QED BY <1>1, <1>2, <1>3 DEF t

\* What RemoveAt is.
LEMMA RemoveAtFacts ==
    ASSUME NEW S, NEW s \in Seq(S), NEW i \in 1..Len(s)
    PROVE  /\ RemoveAt(s, i) \in Seq(S) /\ Len(RemoveAt(s, i)) = Len(s) - 1
           /\ \A k \in 1..Len(s) - 1 :
                RemoveAt(s, i)[k] = IF k < i THEN s[k] ELSE s[k + 1]
<1> DEFINE a == SubSeq(s, 1, i - 1)
           b == SubSeq(s, i + 1, Len(s))
<1>1. Len(s) \in Nat /\ i \in Nat /\ 1 <= i /\ i <= Len(s)
  OBVIOUS
<1>2. a \in Seq(S) /\ Len(a) = i - 1 /\ \A k \in 1..i - 1 : a[k] = s[k]
  <2>1. \A k \in 1..i - 1 : s[k] \in S
    BY <1>1
  <2>2. /\ a \in Seq(S) /\ Len(a) = IF 1 <= i - 1 THEN (i - 1) - 1 + 1 ELSE 0
        /\ \A k \in 1..(i - 1) - 1 + 1 : a[k] = s[1 + k - 1]
    BY <1>1, <2>1, SubSeqProperties
  <2> QED BY <1>1, <2>2
<1>3. b \in Seq(S) /\ Len(b) = Len(s) - i /\ \A k \in 1..Len(s) - i : b[k] = s[i + k]
  <2>1. \A k \in i + 1..Len(s) : s[k] \in S
    BY <1>1
  <2>2. /\ b \in Seq(S) /\ Len(b) = IF i + 1 <= Len(s) THEN Len(s) - (i + 1) + 1 ELSE 0
        /\ \A k \in 1..Len(s) - (i + 1) + 1 : b[k] = s[(i + 1) + k - 1]
    BY <1>1, <2>1, SubSeqProperties
  <2> QED BY <1>1, <2>2
<1>4. RemoveAt(s, i) = a \o b
  BY DEF RemoveAt
<1> HIDE DEF a, b
<1>5. /\ a \o b \in Seq(S) /\ Len(a \o b) = Len(a) + Len(b)
      /\ \A k \in 1..Len(a) + Len(b) : (a \o b)[k] = IF k <= Len(a) THEN a[k] ELSE b[k - Len(a)]
  BY <1>2, <1>3, ConcatProperties
<1>6. ASSUME NEW k \in 1..Len(s) - 1
      PROVE  (a \o b)[k] = IF k < i THEN s[k] ELSE s[k + 1]
  <2>1. CASE k < i
    BY <1>1, <1>2, <1>3, <1>5, <2>1
  <2>2. CASE ~(k < i)
    <3>1. k - Len(a) \in 1..Len(s) - i /\ ~(k <= Len(a)) /\ i + (k - Len(a)) = k + 1
      BY <1>1, <1>2, <2>2
    <3>2. b[k - Len(a)] = s[k + 1]
      BY <1>3, <3>1
    <3>3. k \in 1..Len(a) + Len(b)
      BY <1>1, <1>2, <1>3
    <3>4. (a \o b)[k] = b[k - Len(a)]
      BY <1>5, <3>1, <3>3
    <3> QED BY <2>2, <3>2, <3>4
  <2> QED BY <2>1, <2>2
<1> QED BY <1>1, <1>2, <1>3, <1>4, <1>5, <1>6

\* A sequence without one of its elements.
LEMMA RemoveFacts ==
    ASSUME NEW S, NEW s \in Seq(S), Once(s), NEW i \in 1..Len(s)
    PROVE  /\ RemoveAt(s, i) \in Seq(S)
           /\ Len(RemoveAt(s, i)) = Len(s) - 1
           /\ ToSet(RemoveAt(s, i)) = ToSet(s) \ {s[i]}
           /\ Once(RemoveAt(s, i))
<1> DEFINE t == RemoveAt(s, i)
<1>1. /\ t \in Seq(S) /\ Len(t) = Len(s) - 1 /\ Len(s) \in Nat
      /\ \A k \in 1..Len(t) : t[k] = IF k < i THEN s[k] ELSE s[k + 1]
  <2>1. Len(s) \in Nat
    OBVIOUS
  <2>2. /\ t \in Seq(S) /\ Len(t) = Len(s) - 1
        /\ \A k \in 1..Len(s) - 1 : t[k] = IF k < i THEN s[k] ELSE s[k + 1]
    BY RemoveAtFacts
  <2> HIDE DEF t
  <2> QED BY <2>1, <2>2
<1> HIDE DEF t
<1>2. ToSet(t) = ToSet(s) \ {s[i]}
  <2>1. ASSUME NEW x \in ToSet(t) PROVE x \in ToSet(s) \ {s[i]}
    <3>1. PICK k \in 1..Len(t) : x = t[k]
      BY <1>1, <2>1, ToSetFacts
    <3>2. \E m \in 1..Len(s) : x = s[m] /\ m # i
      BY <1>1, <3>1
    <3> QED BY <3>2, ToSetFacts DEF Once
  <2>2. ASSUME NEW x \in ToSet(s), x # s[i] PROVE x \in ToSet(t)
    <3>1. PICK m \in 1..Len(s) : x = s[m]
      BY <2>2, ToSetFacts
    <3>2. \E k \in 1..Len(t) : x = t[k]
      <4>1. CASE m < i
        <5>1. m \in 1..Len(t) /\ t[m] = s[m]
          BY <1>1, <4>1
        <5> QED BY <5>1, <3>1
      <4>2. CASE m > i
        <5>1. m - 1 \in 1..Len(t) /\ ~(m - 1 < i) /\ (m - 1) + 1 = m
          BY <1>1, <4>2
        <5>2. t[m - 1] = s[m]
          BY <1>1, <5>1
        <5> QED BY <5>1, <5>2, <3>1
      <4>3. m # i
        BY <2>2, <3>1
      <4> QED BY <4>1, <4>2, <4>3
    <3> QED BY <1>1, <3>2, ToSetFacts
  <2> QED BY <2>1, <2>2
<1>3. Once(t)
  BY <1>1 DEF Once
<1> QED BY <1>1, <1>2, <1>3 DEF t

\* A sequence without its last element.
LEMMA FrontFacts ==
    ASSUME NEW S, NEW s \in Seq(S), Once(s), Len(s) > 0
    PROVE  /\ Front(s) \in Seq(S)
           /\ Len(Front(s)) = Len(s) - 1
           /\ ToSet(Front(s)) = ToSet(s) \ {Last(s)}
           /\ Once(Front(s))
           /\ Last(s) \in ToSet(s)
<1>1. Len(s) \in Nat /\ Len(s) \in 1..Len(s)
  OBVIOUS
<1>2. Front(s) = RemoveAt(s, Len(s))
  <2>1. /\ Front(s) \in Seq(S) /\ Len(Front(s)) = Len(s) - 1
        /\ \A k \in 1..Len(s) - 1 : Front(s)[k] = s[k]
    <3>1. \A k \in 1..Len(s) - 1 : s[k] \in S
      OBVIOUS
    <3>2. Len(s) - 1 \in Int /\ 1 \in Int
      BY <1>1
    <3> DEFINE f == SubSeq(s, 1, Len(s) - 1)
    <3>3. /\ f \in Seq(S) /\ Len(f) = IF 1 <= Len(s) - 1 THEN (Len(s) - 1) - 1 + 1 ELSE 0
          /\ \A k \in 1..(Len(s) - 1) - 1 + 1 : f[k] = s[1 + k - 1]
      BY <1>1, <3>1, <3>2, SubSeqProperties
    <3>4. Front(s) = f
      BY DEF Front
    <3> HIDE DEF f
    <3> QED BY <1>1, <3>3, <3>4
  <2>2. /\ RemoveAt(s, Len(s)) \in Seq(S) /\ Len(RemoveAt(s, Len(s))) = Len(s) - 1
        /\ \A k \in 1..Len(s) - 1 : RemoveAt(s, Len(s))[k] = s[k]
    BY <1>1, RemoveAtFacts
  <2> QED BY <2>1, <2>2, SeqEqual
<1>3. Last(s) \in ToSet(s)
  BY <1>1, ToSetFacts DEF Last
<1> QED BY <1>1, <1>2, <1>3, RemoveFacts DEF Last

\* A sequence without repetitions has as many elements as places.
LEMMA OnceCardinality ==
    ASSUME NEW S, NEW s \in Seq(S), Once(s)
    PROVE  IsFiniteSet(ToSet(s)) /\ Cardinality(ToSet(s)) = Len(s)
<1>1. Len(s) \in Nat /\ DOMAIN s = 1..Len(s) /\ s \in [1..Len(s) -> ToSet(s)]
  BY ToSetFacts
<1>2. s \in Bijection(1..Len(s), ToSet(s))
  <2>1. \A x \in ToSet(s) : \E i \in 1..Len(s) : s[i] = x
    BY ToSetFacts
  <2> QED BY <1>1, <2>1 DEF Bijection, Injection, Surjection, IsInjective, Once
<1>3. ExistsBijection(1..Len(s), ToSet(s))
  BY <1>2 DEF ExistsBijection
<1>4. IsFiniteSet(1..Len(s)) /\ Cardinality(1..Len(s)) = Len(s)
  BY <1>1, FS_Interval
<1> QED BY <1>3, <1>4, FS_Bijection

\* The least element of a set of numbers.
LEMMA MinFacts ==
    ASSUME NEW T \in SUBSET Nat, T # {}
    PROVE  Min(T) \in T /\ \A y \in T : Min(T) <= y
<1>1. \E x \in T : \A y \in T : x <= y
  <2>1. PICK x \in T : \A y \in T : ~(<<y, x>> \in OpToRel(<, Nat))
    BY NatLessThanWellFounded, WFMin
  <2>2. ASSUME NEW y \in T PROVE x <= y
    <3>1. <<y, x>> \in Nat \X Nat /\ x \in Nat /\ y \in Nat
      OBVIOUS
    <3>2. ~(y < x)
      BY <2>1, <3>1 DEF OpToRel
    <3> QED BY <3>1, <3>2
  <2> QED BY <2>2
<1> QED BY <1>1 DEF Min

\* The greatest element of a non-empty interval that starts at 0.
LEMMA MaxFacts ==
    ASSUME NEW n \in Nat, n > 0
    PROVE  Max(0..n - 1) = n - 1
<1>1. n - 1 \in 0..n - 1 /\ \A y \in 0..n - 1 : n - 1 >= y
  OBVIOUS
<1>2. Max(0..n - 1) \in 0..n - 1 /\ \A y \in 0..n - 1 : Max(0..n - 1) >= y
  BY <1>1 DEF Max
<1> QED BY <1>1, <1>2

\* The first element of a sequence that is x, as SelectInSeq finds it.
LEMMA RemoveFirstFacts ==
    ASSUME NEW S, NEW s \in Seq(S), Once(s), NEW x \in ToSet(s)
    PROVE  /\ RemoveFirst(s, x) \in Seq(S)
           /\ ToSet(RemoveFirst(s, x)) = ToSet(s) \ {x}
           /\ Once(RemoveFirst(s, x))
<1> DEFINE I == {i \in 1..Len(s) : s[i] = x}
<1>1. PICK i \in 1..Len(s) : x = s[i]
  BY ToSetFacts
<1>2. I \in SUBSET Nat /\ I # {}
  BY <1>1
<1>3. Min(I) \in I
  BY <1>2, MinFacts
<1>4. RemoveFirst(s, x) = RemoveAt(s, Min(I))
  BY <1>1, <1>2 DEF RemoveFirst, SelectInSeq
<1> DEFINE m == Min(I)
<1>5. m \in 1..Len(s) /\ s[m] = x /\ RemoveFirst(s, x) = RemoveAt(s, m)
  BY <1>3, <1>4
<1> HIDE DEF m
<1>6. /\ RemoveAt(s, m) \in Seq(S) /\ ToSet(RemoveAt(s, m)) = ToSet(s) \ {s[m]}
      /\ Once(RemoveAt(s, m))
  BY <1>5, RemoveFacts, Zenon
<1> QED BY <1>5, <1>6, Zenon

\* FlattenSeq is a function that satisfies its recursion, if there is one.
LEMMA FlattenStep ==
    ASSUME NEW s, Len(s) # 0,
           NEW g, g = [i \in 1..Len(s) |-> IF i = 1 THEN s[i] ELSE g[i - 1] \o s[i]]
    PROVE  \E f : /\ f = [i \in 1..Len(s) |-> IF i = 1 THEN s[i] ELSE f[i - 1] \o s[i]]
                  /\ FlattenSeq(s) = f[Len(s)]
<1> DEFINE f == CHOOSE h : h = [i \in 1..Len(s) |-> IF i = 1 THEN s[i] ELSE h[i - 1] \o s[i]]
<1>1. f = [i \in 1..Len(s) |-> IF i = 1 THEN s[i] ELSE f[i - 1] \o s[i]]
  OBVIOUS
<1>2. FlattenSeq(s) = f[Len(s)]
  BY DEF FlattenSeq
<1> HIDE DEF f
<1> QED BY <1>1, <1>2

\* Induction over the members of a set of numbers.
LEMMA SetInduction ==
    ASSUME NEW T \in SUBSET Nat, 0 \in T, \A m \in T : m + 1 \in T
    PROVE  \A m \in Nat : m \in T
<1> SUFFICES ASSUME NEW k \in Nat, k \notin T PROVE FALSE
  OBVIOUS
<1> DEFINE U == Nat \ T
<1>1. U \in SUBSET Nat /\ U # {}
  OBVIOUS
<1>2. Min(U) \in U /\ \A y \in U : Min(U) <= y
  BY <1>1, MinFacts
<1> DEFINE m == Min(U)
<1>3. m \in Nat /\ m \notin T /\ \A y \in Nat : y \notin T => m <= y
  BY <1>2
<1> HIDE DEF m, U
<1>4. m # 0
  BY <1>3
<1>5. m - 1 \in Nat /\ ~(m <= m - 1) /\ (m - 1) + 1 = m
  BY <1>3, <1>4
<1>6. m - 1 \in T
  BY <1>3, <1>5
<1> QED BY <1>3, <1>5, <1>6

\* Two sequences, one behind the other.
LEMMA ConcatOnce ==
    ASSUME NEW S, NEW a \in Seq(S), NEW b \in Seq(S)
    PROVE  /\ a \o b \in Seq(S)
           /\ \A x : x \in ToSet(a \o b) <=> x \in ToSet(a) \/ x \in ToSet(b)
           /\ Once(a) /\ Once(b) /\ ToSet(a) \cap ToSet(b) = {} => Once(a \o b)
<1> DEFINE c == a \o b
<1>1. /\ c \in Seq(S) /\ Len(c) = Len(a) + Len(b) /\ Len(a) \in Nat /\ Len(b) \in Nat
      /\ \A i \in 1..Len(c) : c[i] = IF i <= Len(a) THEN a[i] ELSE b[i - Len(a)]
  BY ConcatProperties
<1>2. c = a \o b
  OBVIOUS
<1> HIDE DEF c
<1>3. ASSUME NEW i \in 1..Len(c)
      PROVE  \/ i \in 1..Len(a) /\ c[i] = a[i]
             \/ i - Len(a) \in 1..Len(b) /\ c[i] = b[i - Len(a)] /\ i > Len(a)
  BY <1>1
<1>4. ASSUME NEW x, x \in ToSet(c) PROVE x \in ToSet(a) \/ x \in ToSet(b)
  <2>1. PICK i \in 1..Len(c) : x = c[i]
    BY <1>1, <1>4, ToSetFacts
  <2> QED BY <1>3, <2>1, ToSetFacts
<1>5. ASSUME NEW x, x \in ToSet(a) PROVE x \in ToSet(c)
  <2>1. PICK i \in 1..Len(a) : x = a[i]
    BY <1>5, ToSetFacts
  <2>2. i \in 1..Len(c) /\ c[i] = a[i]
    BY <1>1
  <2> QED BY <1>1, <2>1, <2>2, ToSetFacts
<1>6. ASSUME NEW x, x \in ToSet(b) PROVE x \in ToSet(c)
  <2>1. PICK i \in 1..Len(b) : x = b[i]
    BY <1>6, ToSetFacts
  <2> DEFINE j == Len(a) + i
  <2>2. j \in 1..Len(c) /\ ~(j <= Len(a)) /\ j - Len(a) = i
    BY <1>1
  <2> HIDE DEF j
  <2>3. c[j] = b[i]
    BY <1>1, <2>2
  <2> QED BY <1>1, <2>1, <2>2, <2>3, ToSetFacts
<1>7. ASSUME Once(a), Once(b), ToSet(a) \cap ToSet(b) = {} PROVE Once(c)
  <2> SUFFICES ASSUME NEW i \in 1..Len(c), NEW j \in 1..Len(c), c[i] = c[j] PROVE i = j
    BY DEF Once
  <2>1. \A k \in 1..Len(a), m \in 1..Len(b) : a[k] # b[m]
    BY <1>7, ToSetFacts
  <2>2. CASE i \in 1..Len(a) /\ c[i] = a[i]
    <3>1. CASE j \in 1..Len(a) /\ c[j] = a[j]
      BY <1>7, <2>2, <3>1 DEF Once
    <3>2. CASE j - Len(a) \in 1..Len(b) /\ c[j] = b[j - Len(a)]
      BY <2>1, <2>2, <3>2
    <3> QED BY <1>3, <3>1, <3>2
  <2>3. CASE i - Len(a) \in 1..Len(b) /\ c[i] = b[i - Len(a)] /\ i > Len(a)
    <3>1. CASE j \in 1..Len(a) /\ c[j] = a[j]
      BY <2>1, <2>3, <3>1
    <3>2. CASE j - Len(a) \in 1..Len(b) /\ c[j] = b[j - Len(a)]
      <4>1. i - Len(a) = j - Len(a)
        BY <1>7, <2>3, <3>2 DEF Once
      <4> QED BY <1>1, <4>1
    <3> QED BY <1>3, <3>1, <3>2
  <2> QED BY <1>3, <2>2, <2>3
<1>8. /\ c \in Seq(S)
      /\ \A x : x \in ToSet(c) <=> x \in ToSet(a) \/ x \in ToSet(b)
      /\ Once(a) /\ Once(b) /\ ToSet(a) \cap ToSet(b) = {} => Once(c)
  BY <1>1, <1>4, <1>5, <1>6, <1>7
<1> QED BY <1>2, <1>8

\* The recursion of FlattenSeq defines a function.
LEMMA FlattenExists ==
    ASSUME NEW n \in Nat, NEW s
    PROVE  \E g : g = [i \in 1..n |-> IF i = 1 THEN s[i] ELSE g[i - 1] \o s[i]]
<1> DEFINE T == {m \in Nat : \E g : g = [i \in 1..m |-> IF i = 1 THEN s[i] ELSE g[i - 1] \o s[i]]}
<1>1. 0 \in T
  <2> DEFINE g == [i \in 1..0 |-> s[i]]
  <2>1. g = [i \in 1..0 |-> IF i = 1 THEN s[i] ELSE g[i - 1] \o s[i]]
    <3>1. \A i \in 1..0 : FALSE
      OBVIOUS
    <3> QED BY <3>1
  <2> HIDE DEF g
  <2> QED BY <2>1
<1>2. ASSUME NEW m \in T PROVE m + 1 \in T
  <2>1. PICK g : g = [i \in 1..m |-> IF i = 1 THEN s[i] ELSE g[i - 1] \o s[i]]
    OBVIOUS
  <2>2. m \in Nat /\ \A i \in 1..m : g[i] = IF i = 1 THEN s[i] ELSE g[i - 1] \o s[i]
    BY <2>1
  <2> DEFINE h == [i \in 1..m + 1 |-> IF i \in 1..m THEN g[i] ELSE IF i = 1 THEN s[i] ELSE g[i - 1] \o s[i]]
  <2>3. \A i \in 1..m : h[i] = g[i]
    BY <2>2
  <2>4. ASSUME NEW i \in 1..m + 1
        PROVE  h[i] = IF i = 1 THEN s[i] ELSE h[i - 1] \o s[i]
    <3>1. i # 1 => i - 1 \in 1..m
      BY <2>2
    <3>2. h[i] = IF i \in 1..m THEN g[i] ELSE IF i = 1 THEN s[i] ELSE g[i - 1] \o s[i]
      OBVIOUS
    <3>3. i # 1 => h[i - 1] = g[i - 1]
      BY <2>3, <3>1
    <3> HIDE DEF h
    <3> QED BY <2>2, <3>2, <3>3
  <2>5. h = [i \in 1..m + 1 |-> h[i]]
    OBVIOUS
  <2> HIDE DEF h
  <2>6. h = [i \in 1..m + 1 |-> IF i = 1 THEN s[i] ELSE h[i - 1] \o s[i]]
    BY <2>4, <2>5, Zenon
  <2>7. m + 1 \in Nat
    BY <2>2
  <2> QED BY <2>6, <2>7, Zenon
<1>3. T \in SUBSET Nat
  OBVIOUS
<1> HIDE DEF T
<1>4. n \in T
  BY <1>1, <1>2, <1>3, SetInduction
<1> QED BY <1>4 DEF T

\* The elements of the sequences, and no element twice if they have none in common.
LEMMA FlattenOnce ==
    ASSUME NEW S, NEW n \in Nat, NEW s \in [1..n -> Seq(S)]
    PROVE  /\ FlattenSeq(s) \in Seq(S)
           /\ \A x : x \in ToSet(FlattenSeq(s)) <=> \E i \in 1..n : x \in ToSet(s[i])
           /\ /\ \A i \in 1..n : Once(s[i])
              /\ \A i, j \in 1..n : i # j => ToSet(s[i]) \cap ToSet(s[j]) = {}
              => Once(FlattenSeq(s))
<1>1. s \in Seq(Seq(S)) /\ Len(s) = n
  OBVIOUS
<1>2. CASE n = 0
  <2>1. FlattenSeq(s) = s
    BY <1>1, <1>2 DEF FlattenSeq
  <2>2. s \in Seq(S)
    BY <1>1, <1>2
  <2>3. 1..n = {} /\ 1..Len(s) = {}
    BY <1>1, <1>2
  <2> QED BY <2>1, <2>2, <2>3, ToSetFacts DEF Once
<1>3. CASE n # 0
  <2>1. PICK f : /\ f = [i \in 1..n |-> IF i = 1 THEN s[i] ELSE f[i - 1] \o s[i]]
                 /\ FlattenSeq(s) = f[n]
    <3>1. PICK g : g = [i \in 1..Len(s) |-> IF i = 1 THEN s[i] ELSE g[i - 1] \o s[i]]
      BY <1>1, FlattenExists
    <3>2. Len(s) # 0
      BY <1>1, <1>3
    <3>3. \E f : /\ f = [i \in 1..Len(s) |-> IF i = 1 THEN s[i] ELSE f[i - 1] \o s[i]]
                 /\ FlattenSeq(s) = f[Len(s)]
      BY <3>1, <3>2, FlattenStep, Zenon
    <3> QED BY <1>1, <3>3
  <2>2. \A i \in 1..n : f[i] = IF i = 1 THEN s[i] ELSE f[i - 1] \o s[i]
    BY <2>1
  <2> DEFINE Apart == /\ \A i \in 1..n : Once(s[i])
                      /\ \A i, j \in 1..n : i # j => ToSet(s[i]) \cap ToSet(s[j]) = {}
             Good(m) == /\ f[m] \in Seq(S)
                        /\ \A x : x \in ToSet(f[m]) <=> \E i \in 1..m : x \in ToSet(s[i])
                        /\ Apart => Once(f[m])
             T == {m \in Nat : m + 1 <= n => Good(m + 1)}
  <2>3. Good(1)
    <3>1. f[1] = s[1] /\ 1 \in 1..n
      BY <1>3, <2>2
    <3>2. f[1] \in Seq(S)
      BY <3>1
    <3>3. \A i \in 1..1 : i = 1
      OBVIOUS
    <3>4. 1 \in 1..1
      OBVIOUS
    <3> QED BY <3>1, <3>2, <3>3, <3>4
  <2> HIDE DEF Good
  <2>4. 0 \in T
    <3>1. 0 + 1 = 1
      OBVIOUS
    <3> QED BY <2>3, <3>1
  <2>5. ASSUME NEW m \in T PROVE m + 1 \in T
    <3> SUFFICES ASSUME m + 1 + 1 <= n PROVE Good(m + 1 + 1)
      OBVIOUS
    <3>0. m \in Nat /\ m + 1 <= n
      OBVIOUS
    <3>1. m \in Nat /\ Good(m + 1)
      BY <3>0
    <3> DEFINE k == m + 1
    <3>2. k \in Nat /\ k > 0 /\ k + 1 \in 1..n /\ k + 1 # 1 /\ (k + 1) - 1 = k
      BY <3>1
    <3>3. Good(k)
      BY <3>1
    <3>4. k + 1 = m + 1 + 1
      BY <3>1
    <3> HIDE DEF k
    <3>5. f[k + 1] = f[k] \o s[k + 1]
      BY <2>2, <3>2
    <3>6. f[k] \in Seq(S) /\ s[k + 1] \in Seq(S)
      BY <3>2, <3>3 DEF Good
    <3>7. /\ f[k + 1] \in Seq(S)
          /\ \A x : x \in ToSet(f[k + 1]) <=> x \in ToSet(f[k]) \/ x \in ToSet(s[k + 1])
          /\ Once(f[k]) /\ Once(s[k + 1]) /\ ToSet(f[k]) \cap ToSet(s[k + 1]) = {} => Once(f[k + 1])
      BY <3>5, <3>6, ConcatOnce
    <3>8. \A i \in 1..k + 1 : i \in 1..k \/ i = k + 1
      BY <3>2
    <3>9. \A i \in 1..k : i \in 1..k + 1 /\ i \in 1..n /\ i # k + 1
      BY <3>2
    <3>10. \A x : x \in ToSet(f[k + 1]) <=> \E i \in 1..k + 1 : x \in ToSet(s[i])
      <4>1. k + 1 \in 1..k + 1
        BY <3>2
      <4>2. \A x : x \in ToSet(f[k]) <=> \E i \in 1..k : x \in ToSet(s[i])
        BY <3>3 DEF Good
      <4> QED BY <3>7, <3>8, <3>9, <4>1, <4>2
    <3>11. ASSUME Apart PROVE Once(f[k + 1])
      <4>1. Once(f[k]) /\ Once(s[k + 1])
        BY <3>2, <3>3, <3>11 DEF Good
      <4>2. ASSUME NEW x \in ToSet(f[k]), x \in ToSet(s[k + 1]) PROVE FALSE
        <5>1. PICK i \in 1..k : x \in ToSet(s[i])
          BY <3>3 DEF Good
        <5>2. ToSet(s[i]) \cap ToSet(s[k + 1]) = {}
          BY <3>2, <3>9, <3>11
        <5> QED BY <4>2, <5>1, <5>2
      <4> QED BY <3>7, <4>1, <4>2
    <3>12. Good(k + 1)
      BY <3>7, <3>10, <3>11 DEF Good
    <3> QED BY <3>4, <3>12
  <2>6. T \in SUBSET Nat
    OBVIOUS
  <2> HIDE DEF T
  <2>7. n - 1 \in T
    <3>1. n - 1 \in Nat
      BY <1>3
    <3> QED BY <2>4, <2>5, <2>6, <3>1, SetInduction
  <2>8. Good(n)
    <3>1. (n - 1) + 1 = n /\ n <= n
      OBVIOUS
    <3> QED BY <2>7, <3>1 DEF T
  <2> QED BY <2>1, <2>8 DEF Good
<1> QED BY <1>2, <1>3
=============================================================================
