-------------------------- MODULE FilteringProofs ---------------------------
(***************************************************************************)
(* What the sequences that loops build contain: the result of a filtering  *)
(* loop, for every sequence and every condition, and that of appending.    *)
(* The induction over the places of a sequence rests on a least-number     *)
(* principle said of sets, from the well-foundedness of strict inclusion.  *)
(***************************************************************************)
EXTENDS Filtering, FiniteSetTheorems, SequenceTheorems, TLAPS

(* A set of naturals that is not empty has a smallest member. *)
LEMMA Smallest ==
  ASSUME NEW B \in SUBSET Nat, B # {}
  PROVE  \E m \in B : \A k \in B : m <= k
<1> DEFINE T == {0..k : k \in B}
<1>1. T \subseteq FiniteSubsetsOf(Nat) /\ T # {}
  <2>1. \A k \in Nat : 0..k \in SUBSET Nat
    OBVIOUS
  <2>2. \A k \in Nat : IsFiniteSet(0..k)
    BY FS_Interval
  <2>3. \A k \in Nat : 0..k \in FiniteSubsetsOf(Nat)
    BY <2>1, <2>2 DEF FiniteSubsetsOf
  <2> QED
    BY <2>3
<1>2. IsWellFoundedOn(StrictSubsetOrdering(Nat), FiniteSubsetsOf(Nat))
  BY FS_StrictSubsetOrderingWellFounded
<1>3. PICK x \in T : \A y \in T : <<y, x>> \notin StrictSubsetOrdering(Nat)
  <2> HIDE DEF T
  <2> QED
    BY <1>1, <1>2, WFMin
<1>4. PICK m \in B : x = 0..m
  OBVIOUS
<1>5. ASSUME NEW k \in B PROVE m <= k
  <2> SUFFICES ASSUME k < m PROVE FALSE
    OBVIOUS
  <2>1. 0..k \subseteq 0..m /\ m \in 0..m /\ m \notin 0..k
    OBVIOUS
  <2>2. <<0..k, 0..m>> \in StrictSubsetOrdering(Nat)
    BY <2>1 DEF StrictSubsetOrdering
  <2> QED
    BY <2>2, <1>3, <1>4
<1> QED
  BY <1>5

(* Induction over the naturals, said of a set. *)
LEMMA Inductively ==
  ASSUME NEW B, 0 \in B, \A n \in Nat : n \in B => n + 1 \in B
  PROVE  Nat \subseteq B
<1> SUFFICES ASSUME Nat \ B # {} PROVE FALSE
  OBVIOUS
<1>1. PICK m \in Nat \ B : \A k \in Nat \ B : m <= k
  <2> DEFINE C == Nat \ B
  <2>1. C \in SUBSET Nat /\ C # {}
    OBVIOUS
  <2> HIDE DEF C
  <2>2. \E m \in C : \A k \in C : m <= k
    BY <2>1, Smallest
  <2> QED
    BY <2>2 DEF C
<1>2. m # 0 /\ m - 1 \in Nat /\ m - 1 \in B
  BY <1>1
<1>3. m - 1 + 1 = m
  OBVIOUS
<1> QED
  BY <1>1, <1>2, <1>3

-----------------------------------------------------------------------------
(* What the loop has collected after k elements. *)
Collected(s, K, f, n) ==
  f = [k \in 0..n |-> IF k = 0 THEN << >>
                      ELSE IF k \in K THEN Append(f[k - 1], s[k]) ELSE f[k - 1]]

LEMMA CollectedExists ==
  ASSUME NEW s, NEW K
  PROVE  \A n \in Nat : \E f : Collected(s, K, f, n)
<1> DEFINE B == {n \in Nat : \E f : Collected(s, K, f, n)}
<1>1. 0 \in B
  <2>1. Collected(s, K, [k \in 0..0 |-> << >>], 0)
    BY DEF Collected
  <2> QED
    BY <2>1
<1>2. ASSUME NEW n \in Nat, n \in B PROVE n + 1 \in B
  <2>1. PICK f : Collected(s, K, f, n)
    BY <1>2
  <2> DEFINE last == IF n + 1 \in K THEN Append(f[n], s[n + 1]) ELSE f[n]
             g == [k \in 0..(n + 1) |-> IF k = n + 1 THEN last ELSE f[k]]
             h == [k \in 0..(n + 1) |-> IF k = 0 THEN << >>
                      ELSE IF k \in K THEN Append(g[k - 1], s[k]) ELSE g[k - 1]]
  <2>2. ASSUME NEW k \in 0..(n + 1) PROVE g[k] = h[k]
    <3>1. CASE k = n + 1
      <4>1. k - 1 \in 0..(n + 1) /\ k - 1 = n /\ k # 0 /\ n # n + 1
        BY <3>1
      <4>2. g[k - 1] = f[n] /\ g[k] = last
        BY <3>1, <4>1
      <4>3. h[k] = IF k \in K THEN Append(g[k - 1], s[k]) ELSE g[k - 1]
        BY <4>1
      <4> HIDE DEF g, h
      <4> QED
        BY <3>1, <4>2, <4>3
    <3>2. CASE k = 0
      <4>1. g[k] = f[0] /\ h[k] = << >> /\ 0 \in 0..n
        BY <3>2
      <4>2. f[0] = << >>
        BY <2>1, <4>1 DEF Collected
      <4> QED
        BY <4>1, <4>2
    <3>3. CASE k # n + 1 /\ k # 0
      <4>1. k \in 0..n /\ k - 1 \in 0..n /\ k - 1 \in 0..(n + 1) /\ k - 1 # n + 1
        BY <3>3
      <4>2. g[k - 1] = f[k - 1] /\ g[k] = f[k]
        BY <3>3, <4>1
      <4>3. h[k] = IF k \in K THEN Append(g[k - 1], s[k]) ELSE g[k - 1]
        BY <3>3
      <4>4. f[k] = IF k \in K THEN Append(f[k - 1], s[k]) ELSE f[k - 1]
        BY <2>1, <3>3, <4>1 DEF Collected
      <4> HIDE DEF g, h
      <4> QED
        BY <4>2, <4>3, <4>4
    <3> QED
      BY <3>1, <3>2, <3>3
  <2>3. g = h
    BY <2>2
  <2>4. Collected(s, K, g, n + 1)
    <3> HIDE DEF last
    <3> QED
      BY <2>3 DEF Collected
  <2> QED
    BY <2>4
<1>3. Nat \subseteq B
  <2> HIDE DEF B
  <2> QED
    BY <1>1, <1>2, Inductively
<1> QED
  BY <1>3

LEMMA EmptySequence == \A T : << >> \in Seq(T) /\ Range(<< >>) = {} /\ IsInjective(<< >>)
  BY DEF Range, IsInjective

LEMMA AppendRange ==
  ASSUME NEW T, NEW q \in Seq(T), NEW x \in T
  PROVE  /\ Append(q, x) \in Seq(T)
         /\ Range(Append(q, x)) = Range(q) \cup {x}
<1>1. /\ Append(q, x) \in Seq(T) /\ DOMAIN Append(q, x) = 1..(Len(q) + 1)
      /\ \A j \in 1..Len(q) : Append(q, x)[j] = q[j]
      /\ Append(q, x)[Len(q) + 1] = x
  OBVIOUS
<1>2. Len(q) \in Nat /\ DOMAIN q = 1..Len(q)
  OBVIOUS
<1>3. ASSUME NEW y \in Range(Append(q, x)) PROVE y \in Range(q) \cup {x}
  <2>1. PICK j \in 1..(Len(q) + 1) : y = Append(q, x)[j]
    BY <1>1 DEF Range
  <2>2. j \in 1..Len(q) \/ j = Len(q) + 1
    BY <1>2
  <2> QED
    BY <1>1, <1>2, <2>1, <2>2 DEF Range
<1>4. ASSUME NEW y \in Range(q) \cup {x} PROVE y \in Range(Append(q, x))
  <2>1. 1..Len(q) \subseteq 1..(Len(q) + 1) /\ Len(q) + 1 \in 1..(Len(q) + 1)
    BY <1>2
  <2> QED
    BY <1>1, <1>2, <2>1 DEF Range
<1> QED
  BY <1>1, <1>3, <1>4

(* A sequence is injective if no element occurs in it twice. *)
LEMMA AppendDistinct ==
  ASSUME NEW T, NEW q \in Seq(T), NEW x \in T, IsInjective(q), x \notin Range(q)
  PROVE  IsInjective(Append(q, x))
<1>1. /\ DOMAIN Append(q, x) = 1..(Len(q) + 1)
      /\ \A j \in 1..Len(q) : Append(q, x)[j] = q[j]
      /\ Append(q, x)[Len(q) + 1] = x
  OBVIOUS
<1>2. Len(q) \in Nat /\ DOMAIN q = 1..Len(q)
  OBVIOUS
<1>3. \A j \in 1..Len(q) : Append(q, x)[j] # x
  BY <1>1, <1>2 DEF Range
<1>4. \A j \in 1..(Len(q) + 1) : j \in 1..Len(q) \/ j = Len(q) + 1
  BY <1>2
<1> QED
  BY <1>1, <1>2, <1>3, <1>4 DEF IsInjective

(* The loop keeps the elements at the chosen places and no other, and repeats
   none that the sequence does not. *)
LEMMA SubsequenceMembers ==
  ASSUME NEW T, NEW s \in Seq(T), NEW K
  PROVE  /\ Subsequence(s, K) \in Seq(T)
         /\ Range(Subsequence(s, K)) = {s[k] : k \in K \cap DOMAIN s}
         /\ IsInjective(s) => IsInjective(Subsequence(s, K))
<1> DEFINE f == CHOOSE g : Collected(s, K, g, Len(s))
           Chosen(n) == {s[j] : j \in K \cap 1..n}
           Taken(n) == /\ f[n] \in Seq(T) /\ Range(f[n]) = Chosen(n)
                       /\ IsInjective(s) => IsInjective(f[n])
           B == {n \in Nat : n <= Len(s) => Taken(n)}
<1>1. Len(s) \in Nat /\ DOMAIN s = 1..Len(s)
  OBVIOUS
<1>2. Collected(s, K, f, Len(s))
  <2>1. \E g : Collected(s, K, g, Len(s))
    BY <1>1, CollectedExists
  <2> QED
    BY <2>1
<1>3. Subsequence(s, K) = f[Len(s)]
  BY DEF Subsequence, Collected
<1> HIDE DEF f
<1>4. 0 \in B
  <2>1. f[0] = << >>
    BY <1>1, <1>2 DEF Collected
  <2>2. << >> \in Seq(T) /\ Range(<< >>) = {} /\ IsInjective(<< >>)
    BY EmptySequence
  <2>3. Chosen(0) = {}
    OBVIOUS
  <2> QED
    BY <2>1, <2>2, <2>3
<1>5. ASSUME NEW n \in Nat, n \in B PROVE n + 1 \in B
  <2> SUFFICES ASSUME n + 1 <= Len(s) PROVE Taken(n + 1)
    OBVIOUS
  <2>1. Taken(n)
    BY <1>1, <1>5
  <2>2. n + 1 \in 0..Len(s) /\ n + 1 # 0 /\ (n + 1) - 1 = n /\ n + 1 \in DOMAIN s
    BY <1>1
  <2>3. f[n + 1] = IF n + 1 \in K THEN Append(f[n], s[n + 1]) ELSE f[n]
    BY <1>2, <2>2 DEF Collected
  <2>4. 1..(n + 1) = 1..n \cup {n + 1}
    OBVIOUS
  <2>5. CASE n + 1 \in K
    <3>1. s[n + 1] \in T
      BY <2>2
    <3>2. /\ Append(f[n], s[n + 1]) \in Seq(T)
          /\ Range(Append(f[n], s[n + 1])) = Range(f[n]) \cup {s[n + 1]}
      BY <2>1, <3>1, AppendRange
    <3>3. Chosen(n + 1) = Chosen(n) \cup {s[n + 1]}
      BY <2>4, <2>5
    <3>4. ASSUME IsInjective(s) PROVE IsInjective(Append(f[n], s[n + 1]))
      <4>1. s[n + 1] \notin Chosen(n)
        BY <1>1, <2>2, <3>4 DEF IsInjective
      <4> QED
        BY <2>1, <3>1, <3>4, <4>1, AppendDistinct
    <3> QED
      BY <2>1, <2>3, <2>5, <3>2, <3>3, <3>4
  <2>6. CASE n + 1 \notin K
    <3>1. Chosen(n + 1) = Chosen(n)
      BY <2>4, <2>6
    <3> QED
      BY <2>1, <2>3, <2>6, <3>1
  <2> QED
    BY <2>5, <2>6
<1>6. Len(s) \in B
  <2> HIDE DEF B
  <2> QED
    BY <1>1, <1>4, <1>5, Inductively
<1> QED
  BY <1>1, <1>3, <1>6

-----------------------------------------------------------------------------
LEMMA ConcatRange ==
  ASSUME NEW T, NEW q \in Seq(T), NEW r \in Seq(T)
  PROVE  /\ q \o r \in Seq(T)
         /\ Range(q \o r) = Range(q) \cup Range(r)
<1>1. /\ q \o r \in Seq(T) /\ DOMAIN (q \o r) = 1..(Len(q) + Len(r))
      /\ \A j \in 1..Len(q) : (q \o r)[j] = q[j]
      /\ \A j \in 1..Len(r) : (q \o r)[Len(q) + j] = r[j]
  BY ConcatProperties
<1>2. Len(q) \in Nat /\ DOMAIN q = 1..Len(q) /\ Len(r) \in Nat /\ DOMAIN r = 1..Len(r)
  OBVIOUS
<1>3. ASSUME NEW y \in Range(q \o r) PROVE y \in Range(q) \cup Range(r)
  <2>1. PICK j \in 1..(Len(q) + Len(r)) : y = (q \o r)[j]
    BY <1>1 DEF Range
  <2>2. CASE j \in 1..Len(q)
    BY <1>1, <1>2, <2>1, <2>2 DEF Range
  <2>3. CASE j \notin 1..Len(q)
    <3>1. j - Len(q) \in 1..Len(r) /\ Len(q) + (j - Len(q)) = j
      BY <1>2, <2>3
    <3> QED
      BY <1>1, <1>2, <2>1, <3>1 DEF Range
  <2> QED
    BY <2>2, <2>3
<1>4. ASSUME NEW y \in Range(q) \cup Range(r) PROVE y \in Range(q \o r)
  <2>1. CASE y \in Range(q)
    <3>1. PICK j \in 1..Len(q) : y = q[j]
      BY <1>2, <2>1 DEF Range
    <3>2. j \in 1..(Len(q) + Len(r))
      BY <1>2
    <3> QED
      BY <1>1, <3>1, <3>2 DEF Range
  <2>2. CASE y \in Range(r)
    <3>1. PICK j \in 1..Len(r) : y = r[j]
      BY <1>2, <2>2 DEF Range
    <3>2. Len(q) + j \in 1..(Len(q) + Len(r))
      BY <1>2
    <3> QED
      BY <1>1, <3>1, <3>2 DEF Range
  <2> QED
    BY <2>1, <2>2
<1> QED
  BY <1>1, <1>3, <1>4

LEMMA ConcatDistinct ==
  ASSUME NEW T, NEW q \in Seq(T), NEW r \in Seq(T), IsInjective(q), IsInjective(r),
         Range(q) \cap Range(r) = {}
  PROVE  IsInjective(q \o r)
<1>1. /\ DOMAIN (q \o r) = 1..(Len(q) + Len(r))
      /\ \A j \in 1..Len(q) : (q \o r)[j] = q[j]
      /\ \A j \in 1..Len(r) : (q \o r)[Len(q) + j] = r[j]
  BY ConcatProperties
<1>2. Len(q) \in Nat /\ DOMAIN q = 1..Len(q) /\ Len(r) \in Nat /\ DOMAIN r = 1..Len(r)
  OBVIOUS
<1>3. \A i \in 1..Len(q), j \in 1..Len(r) : q[i] # r[j]
  BY <1>2 DEF Range
<1>4. \A j \in 1..(Len(q) + Len(r)) :
        j \in 1..Len(q) \/ (j - Len(q) \in 1..Len(r) /\ Len(q) + (j - Len(q)) = j)
  BY <1>2
<1>5. ASSUME NEW i \in 1..(Len(q) + Len(r)), NEW j \in 1..(Len(q) + Len(r)),
             (q \o r)[i] = (q \o r)[j]
      PROVE  i = j
  <2>1. CASE i \in 1..Len(q) /\ j \in 1..Len(q)
    BY <1>1, <1>2, <1>5, <2>1 DEF IsInjective
  <2>2. CASE i \notin 1..Len(q) /\ j \notin 1..Len(q)
    <3>1. r[i - Len(q)] = r[j - Len(q)] /\ i - Len(q) \in 1..Len(r) /\ j - Len(q) \in 1..Len(r)
      BY <1>1, <1>4, <1>5, <2>2
    <3>2. i - Len(q) = j - Len(q)
      BY <1>2, <3>1 DEF IsInjective
    <3> QED
      BY <1>2, <3>2
  <2>3. CASE i \in 1..Len(q) /\ j \notin 1..Len(q)
    <3>1. j - Len(q) \in 1..Len(r) /\ (q \o r)[j] = r[j - Len(q)] /\ (q \o r)[i] = q[i]
      BY <1>1, <1>4, <2>3
    <3> QED
      BY <1>3, <1>5, <2>3, <3>1
  <2>4. CASE i \notin 1..Len(q) /\ j \in 1..Len(q)
    <3>1. i - Len(q) \in 1..Len(r) /\ (q \o r)[i] = r[i - Len(q)] /\ (q \o r)[j] = q[j]
      BY <1>1, <1>4, <2>4
    <3> QED
      BY <1>3, <1>5, <2>4, <3>1
  <2> QED
    BY <2>1, <2>2, <2>3, <2>4
<1> QED
  BY <1>1, <1>5 DEF IsInjective

(* Such a sequence is as long as it has elements. *)
LEMMA DistinctCount ==
  ASSUME NEW T, NEW q \in Seq(T), IsInjective(q)
  PROVE  IsFiniteSet(Range(q)) /\ Cardinality(Range(q)) = Len(q)
<1>1. Len(q) \in Nat /\ DOMAIN q = 1..Len(q)
  OBVIOUS
<1>2. q \in Bijection(1..Len(q), Range(q))
  BY <1>1 DEF Bijection, Injection, Surjection, Range
<1>3. IsFiniteSet(1..Len(q)) /\ Cardinality(1..Len(q)) = Len(q)
  BY <1>1, FS_Interval
<1> QED
  BY <1>2, <1>3, FS_Bijection DEF ExistsBijection
=============================================================================
