----------------------------- MODULE RecordProofs -----------------------------
(***************************************************************************)
(* Proofs about the record operators of a Worker, for records with any     *)
(* fields and values.  Recursive functions are reasoned about by their     *)
(* least counterexample.                                                   *)
(***************************************************************************)
EXTENDS Records, FiniteSetTheorems, SequenceTheorems, WellFoundedInduction, TLAPS

\* A set of numbers has a least element.
LEMMA Least ==
  ASSUME NEW S \in SUBSET Nat, S # {}
  PROVE  \E m \in S : \A k \in S : m <= k
<1> DEFINE below == {ss \in Nat \X Nat : ss[1] < ss[2]}
<1>1. IsWellFoundedOn(below, Nat)
  BY NatLessThanWellFounded DEF OpToRel
<1>2. IsWellFoundedOn(below, S)
  BY <1>1, IsWellFoundedOnSubset
<1>3. PICK m \in S : \A k \in S : ~(<<k, m>> \in below)
  <2> HIDE DEF below
  <2> QED
    BY <1>2, WFMin
<1>4. ASSUME NEW k \in S PROVE m <= k
  <2>1. k \in Nat /\ m \in Nat /\ <<k, m>> \notin below
    BY <1>3
  <2>2. ~(k < m)
    BY <2>1
  <2> QED
    BY <2>1, <2>2
<1> QED
  BY <1>4

\* A value can be changed step by step: f has what it is after each step.
Changes(V, N) == [1..N -> [V -> V]]
Path(f, V, v, N, change) ==
  f \in [0..N -> V] /\ f[0] = v /\ \A n \in 1..N : f[n] = change[n][f[n - 1]]

LEMMA Iterated ==
  ASSUME NEW V, NEW v \in V, NEW N \in Nat, NEW change \in Changes(V, N)
  PROVE  \E f : Path(f, V, v, N, change)
<1> DEFINE Upto(f, n) == Path(f, V, v, n, change)
           never == {n \in 0..N : ~\E f : Upto(f, n)}
<1>1. SUFFICES ASSUME never # {} PROVE FALSE
  <2>1. N \in 0..N
    OBVIOUS
  <2>2. ASSUME never = {} PROVE \E f : Upto(f, N)
    BY <2>1, <2>2
  <2> QED
    BY <2>2
<1>2. PICK n \in never : \A k \in never : n <= k
  <2>1. never \in SUBSET Nat
    OBVIOUS
  <2> HIDE DEF never
  <2> QED
    BY <1>1, <2>1, Least
<1>3. n # 0
  <2> DEFINE f == [k \in 0..0 |-> v]
  <2>1. Upto(f, 0)
    BY DEF Path
  <2> HIDE DEF Upto
  <2> QED
    BY <1>2, <2>1
<1>4. n - 1 \in 0..N /\ n - 1 \notin never /\ n \in 1..N
  <2>1. never \in SUBSET (0..N)
    OBVIOUS
  <2> HIDE DEF never
  <2>2. n \in 0..N
    BY <1>2, <2>1
  <2>3. n - 1 \in 0..N /\ n \in 1..N /\ ~(n <= n - 1)
    BY <1>3, <2>2
  <2> QED
    BY <1>2, <2>3
<1>5. PICK g : Upto(g, n - 1)
  <2> HIDE DEF Upto
  <2> QED
    BY <1>4
<1> DEFINE f == [k \in 0..n |-> IF k = n THEN change[n][g[n - 1]] ELSE g[k]]
<1>6. Upto(f, n)
  <2> USE DEF Path
  <2>1. g[n - 1] \in V /\ change[n] \in [V -> V]
    BY <1>4, <1>5 DEF Changes
  <2>2. \A k \in 0..n : k # n => k \in 0..(n - 1)
    BY <1>4
  <2>3. f \in [0..n -> V]
    BY <1>5, <2>1, <2>2
  <2>4. f[0] = v
    BY <1>4, <1>5
  <2>5. ASSUME NEW k \in 1..n PROVE f[k] = change[k][f[k - 1]]
    <3>1. k - 1 \in 0..n /\ k - 1 # n /\ k \in 0..n
      BY <1>4
    <3>2. f[k - 1] = g[k - 1]
      BY <3>1
    <3>3. CASE k = n
      BY <3>1, <3>2, <3>3
    <3>4. CASE k # n
      <4>1. k \in 1..(n - 1)
        BY <1>4, <3>4
      <4>2. g[k] = change[k][g[k - 1]]
        BY <1>5, <4>1
      <4> QED
        BY <3>1, <3>2, <3>4, <4>2
    <3> QED
      BY <3>3, <3>4
  <2> QED
    BY <2>3, <2>4, <2>5
<1> HIDE DEF Upto, f
<1> QED
  BY <1>2, <1>6

\* What holds at first and after each step holds always: P has the steps where it does.
LEMMA Stepwise ==
  ASSUME NEW N \in Nat, NEW P, 0 \in P, \A n \in 1..N : n - 1 \in P => n \in P
  PROVE  \A n \in 0..N : n \in P
<1> DEFINE out == {n \in 0..N : n \notin P}
<1>1. SUFFICES ASSUME out # {} PROVE FALSE
  OBVIOUS
<1>2. out \in SUBSET Nat /\ out \in SUBSET (0..N)
  OBVIOUS
<1>3. PICK n \in out : \A k \in out : n <= k
  <2> HIDE DEF out
  <2> QED
    BY <1>1, <1>2, Least
<1>4. n \in 1..N /\ n - 1 \in 0..N /\ ~(n <= n - 1)
  <2>1. n \in 0..N /\ n # 0
    BY <1>2, <1>3
  <2> QED
    BY <2>1
<1>5. n - 1 \notin out
  <2> HIDE DEF out
  <2> QED
    BY <1>3, <1>4
<1> QED
  BY <1>3, <1>4, <1>5
-----------------------------------------------------------------------------
(* The elements of a sequence at some of its indices: the n-th of them is  *)
(* at the index that n of the indices do not exceed.                       *)
Rank(at, i) == Cardinality({j \in at : j <= i})

LEMMA RankOnto ==
  ASSUME NEW at \in SUBSET Nat, IsFiniteSet(at)
  PROVE  /\ Cardinality(at) \in Nat
         /\ \A i \in at : Rank(at, i) \in 1..Cardinality(at)
         /\ \A i, j \in at : Rank(at, i) = Rank(at, j) => i = j
         /\ \A n \in 1..Cardinality(at) : \E i \in at : Rank(at, i) = n
<1> DEFINE upto(i) == {j \in at : j <= i}
<1>1. Cardinality(at) \in Nat
  BY FS_CardinalityType
<1>2. ASSUME NEW i \in at
      PROVE  IsFiniteSet(upto(i)) /\ Rank(at, i) \in 1..Cardinality(at)
  <2>1. upto(i) \in SUBSET at /\ i \in upto(i)
    OBVIOUS
  <2>2. /\ IsFiniteSet(upto(i)) /\ Cardinality(upto(i)) <= Cardinality(at)
        /\ Cardinality(upto(i)) \in Nat
    BY <2>1, FS_Subset, FS_CardinalityType
  <2>3. Cardinality(upto(i)) # 0
    BY <2>1, <2>2, FS_EmptySet
  <2> QED
    BY <1>1, <2>2, <2>3 DEF Rank
<1>3. ASSUME NEW i \in at, NEW j \in at, Rank(at, i) = Rank(at, j), i < j
      PROVE  FALSE
  <2>1. upto(i) \in SUBSET upto(j) /\ j \in upto(j) /\ j \notin upto(i)
    <3>1. i \in Nat /\ j \in Nat /\ i < j /\ \A k \in at : k \in Nat
      BY <1>3
    <3>2. \A k \in at : k <= i => k <= j
      BY <3>1
    <3>3. j \in upto(j) /\ j \notin upto(i)
      BY <3>1
    <3>4. \A k \in upto(i) : k \in upto(j)
      BY <3>2
    <3> QED
      BY <3>3, <3>4
  <2>2. IsFiniteSet(upto(j)) /\ Cardinality(upto(j)) = Cardinality(upto(i))
    BY <1>2, <1>3 DEF Rank
  <2> HIDE DEF upto
  <2>3. upto(j) = upto(i)
    BY <2>1, <2>2, FS_Subset
  <2> QED
    BY <2>1, <2>3
<1>4. \A i, j \in at : Rank(at, i) = Rank(at, j) => i = j
  BY <1>3
<1>5. \A n \in 1..Cardinality(at) : \E i \in at : Rank(at, i) = n
  <2> DEFINE rank == [i \in at |-> Rank(at, i)]
  <2>1. rank \in [at -> 1..Cardinality(at)]
    BY <1>2
  <2>2. rank \in Injection(at, 1..Cardinality(at))
    BY <1>4, <2>1 DEF Injection, IsInjective
  <2>3. /\ IsFiniteSet(1..Cardinality(at))
        /\ Cardinality(1..Cardinality(at)) = Cardinality(at)
    BY <1>1, FS_Interval
  <2>4. rank \in Surjection(at, 1..Cardinality(at))
    BY <2>2, <2>3, FS_Injection
  <2> QED
    BY <2>4 DEF Surjection
<1> QED
  BY <1>1, <1>2, <1>4, <1>5

LEMMA ThoseAre ==
  ASSUME NEW S, NEW seq \in Seq(S), NEW at \in SUBSET DOMAIN seq
  PROVE  /\ Those(seq, at) \in Seq(S)
         /\ \A n \in DOMAIN Those(seq, at) : \E i \in at : Those(seq, at)[n] = seq[i]
         /\ \A i \in at : \E n \in DOMAIN Those(seq, at) : Those(seq, at)[n] = seq[i]
         /\ IsInjective(seq) => IsInjective(Those(seq, at))
         /\ at = {} <=> Those(seq, at) = <<>>
<1> DEFINE place(n) == CHOOSE i \in at : Cardinality({j \in at : j <= i}) = n
<1>1. IsFiniteSet(at) /\ at \in SUBSET Nat /\ DOMAIN seq = 1..Len(seq) /\ Len(seq) \in Nat
  <2>1. DOMAIN seq = 1..Len(seq) /\ Len(seq) \in Nat
    OBVIOUS
  <2>2. IsFiniteSet(DOMAIN seq)
    BY <2>1, FS_Interval
  <2> QED
    BY <2>1, <2>2, FS_Subset
<1>2. /\ Cardinality(at) \in Nat
      /\ \A i \in at : Rank(at, i) \in 1..Cardinality(at)
      /\ \A i, j \in at : Rank(at, i) = Rank(at, j) => i = j
      /\ \A n \in 1..Cardinality(at) : \E i \in at : Rank(at, i) = n
  BY <1>1, RankOnto
<1>3. \A n \in 1..Cardinality(at) : place(n) \in at /\ Rank(at, place(n)) = n
  BY <1>2 DEF Rank
<1>4. Those(seq, at) = [n \in 1..Cardinality(at) |-> seq[place(n)]]
  BY DEF Those
<1> HIDE DEF place
<1>5. \A i \in at : seq[i] \in S
  OBVIOUS
<1>6. Those(seq, at) \in Seq(S) /\ DOMAIN Those(seq, at) = 1..Cardinality(at)
  BY <1>2, <1>3, <1>4, <1>5
<1>7. \A n \in DOMAIN Those(seq, at) : \E i \in at : Those(seq, at)[n] = seq[i]
  BY <1>3, <1>4
<1>8. \A i \in at : \E n \in DOMAIN Those(seq, at) : Those(seq, at)[n] = seq[i]
  <2> SUFFICES ASSUME NEW i \in at
               PROVE  \E n \in DOMAIN Those(seq, at) : Those(seq, at)[n] = seq[i]
    OBVIOUS
  <2>1. Rank(at, i) \in 1..Cardinality(at) /\ place(Rank(at, i)) = i
    BY <1>2, <1>3
  <2> QED
    BY <1>4, <2>1
<1>9. IsInjective(seq) => IsInjective(Those(seq, at))
  <2> SUFFICES ASSUME IsInjective(seq), NEW n \in 1..Cardinality(at), NEW k \in 1..Cardinality(at),
                      seq[place(n)] = seq[place(k)]
               PROVE  n = k
    BY <1>4 DEF IsInjective
  <2>1. place(n) = place(k)
    BY <1>3 DEF IsInjective
  <2> QED
    BY <1>3, <2>1
<1>10. at = {} <=> Those(seq, at) = <<>>
  <2>1. at = {} <=> Cardinality(at) = 0
    BY <1>1, FS_EmptySet
  <2>2. Len(Those(seq, at)) = Cardinality(at)
    BY <1>2, <1>6
  <2>3. Those(seq, at) = <<>> <=> Len(Those(seq, at)) = 0
    BY <1>6
  <2> QED
    BY <2>1, <2>2, <2>3
<1> QED
  BY <1>6, <1>7, <1>8, <1>9, <1>10

\* They are the elements at those indices, each index taken once.
LEMMA ThosePlaces ==
  ASSUME NEW seq, NEW at \in SUBSET Nat, IsFiniteSet(at)
  PROVE  \E place \in Bijection(1..Cardinality(at), at) :
            Those(seq, at) = [n \in 1..Cardinality(at) |-> seq[place[n]]]
<1> DEFINE place == [n \in 1..Cardinality(at) |->
                       CHOOSE i \in at : Cardinality({j \in at : j <= i}) = n]
<1>1. /\ Cardinality(at) \in Nat
      /\ \A i \in at : Rank(at, i) \in 1..Cardinality(at)
      /\ \A i, j \in at : Rank(at, i) = Rank(at, j) => i = j
      /\ \A n \in 1..Cardinality(at) : \E i \in at : Rank(at, i) = n
  BY RankOnto
<1>2. \A n \in 1..Cardinality(at) : place[n] \in at /\ Rank(at, place[n]) = n
  BY <1>1 DEF Rank
<1>3. Those(seq, at) = [n \in 1..Cardinality(at) |-> seq[place[n]]]
  BY DEF Those
<1>4. place \in [1..Cardinality(at) -> at]
  BY <1>2
<1> HIDE DEF place
<1>5. place \in Bijection(1..Cardinality(at), at)
  <2>1. ASSUME NEW i \in at PROVE place[Rank(at, i)] = i
    <3>1. Rank(at, i) \in 1..Cardinality(at)
      BY <1>1
    <3>2. place[Rank(at, i)] \in at /\ Rank(at, place[Rank(at, i)]) = Rank(at, i)
      BY <1>2, <3>1
    <3> QED
      BY <1>1, <3>2
  <2>2. place \in Injection(1..Cardinality(at), at)
    BY <1>2, <1>4 DEF Injection, IsInjective
  <2>3. place \in Surjection(1..Cardinality(at), at)
    BY <1>1, <1>4, <2>1 DEF Surjection
  <2> QED
    BY <2>2, <2>3 DEF Bijection
<1> QED
  BY <1>3, <1>5

\* A strict total order on a finite set: `before` holds its pairs.
Orders(before, S) ==
  /\ \A x \in S : <<x, x>> \notin before
  /\ \A x, y \in S : x # y => <<x, y>> \in before \/ <<y, x>> \in before
  /\ \A x, y, z \in S : <<x, y>> \in before /\ <<y, z>> \in before => <<x, z>> \in before

\* The n-th of a sorted set is the one that n - 1 others precede; each is listed once.
LEMMA SortedPlaces ==
  ASSUME NEW S, IsFiniteSet(S), NEW before, Orders(before, S)
  PROVE  /\ Cardinality(S) \in Nat
         /\ Sorted(S, before) \in Bijection(1..Cardinality(S), S)
         /\ \A n \in 1..Cardinality(S) :
               Cardinality({y \in S : <<y, Sorted(S, before)[n]>> \in before}) = n - 1
<1> DEFINE N == Cardinality(S)
           first(x) == {y \in S : <<y, x>> \in before}
           place == [x \in S |-> Cardinality(first(x)) + 1]
<1>1. N \in Nat
  BY FS_CardinalityType
<1>2. ASSUME NEW x \in S
      PROVE  IsFiniteSet(first(x)) /\ Cardinality(first(x)) \in Nat /\ place[x] \in 1..N
  <2>1. first(x) \in SUBSET S /\ x \notin first(x)
    BY DEF Orders
  <2>2. /\ IsFiniteSet(first(x)) /\ Cardinality(first(x)) <= N
        /\ Cardinality(first(x)) \in Nat
    BY <2>1, FS_Subset, FS_CardinalityType
  <2>3. Cardinality(first(x)) # N
    BY <2>1, FS_Subset
  <2> QED
    BY <1>1, <2>2, <2>3
<1>3. ASSUME NEW x \in S, NEW z \in S, <<x, z>> \in before
      PROVE  place[x] # place[z]
  <2>1. first(x) \in SUBSET first(z) /\ x \in first(z) /\ x \notin first(x)
    BY <1>3 DEF Orders
  <2>2. IsFiniteSet(first(z)) /\ first(x) # first(z)
    BY <1>2, <2>1
  <2>3. Cardinality(first(x)) # Cardinality(first(z))
    BY <2>1, <2>2, FS_Subset
  <2>4. Cardinality(first(x)) \in Nat /\ Cardinality(first(z)) \in Nat
    BY <1>2
  <2> HIDE DEF first
  <2> QED
    BY <2>3, <2>4
<1>4. place \in [S -> 1..N]
  BY <1>2
<1>5. place \in Injection(S, 1..N)
  <2> HIDE DEF place
  <2> QED
    BY <1>3, <1>4 DEF Injection, IsInjective, Orders
<1>6. place \in Surjection(S, 1..N)
  <2>1. IsFiniteSet(1..N) /\ Cardinality(1..N) = N
    BY <1>1, FS_Interval
  <2> HIDE DEF place
  <2> QED
    BY <1>5, <2>1, FS_Injection
<1> DEFINE sorted == [n \in 1..N |-> CHOOSE x \in S : Cardinality(first(x)) = n - 1]
<1>7. sorted = Sorted(S, before)
  BY DEF Sorted
<1>8. ASSUME NEW n \in 1..N
      PROVE  /\ sorted[n] \in S /\ Cardinality(first(sorted[n])) = n - 1
             /\ place[sorted[n]] = n
  <2>1. PICK x \in S : place[x] = n
    BY <1>6 DEF Surjection
  <2>2. Cardinality(first(x)) = n - 1
    <3>1. Cardinality(first(x)) \in Nat /\ Cardinality(first(x)) + 1 = n
      BY <1>2, <2>1
    <3> HIDE DEF first
    <3> QED
      BY <3>1
  <2>3. sorted[n] \in S /\ Cardinality(first(sorted[n])) = n - 1
    <3> HIDE DEF first
    <3> QED
      BY <2>2
  <2> QED
    BY <2>3
<1>9. sorted \in Bijection(1..N, S)
  <2>1. sorted \in [1..N -> S]
    BY <1>8
  <2>2. \A x \in S : place[x] \in 1..N /\ sorted[place[x]] = x
    <3> HIDE DEF place, sorted
    <3> QED
      BY <1>4, <1>5, <1>8 DEF Injection, IsInjective
  <2> HIDE DEF place, sorted
  <2>3. sorted \in Injection(1..N, S)
    <3>1. \A m, n \in 1..N : sorted[m] = sorted[n] => m = n
      BY <1>8
    <3> QED
      BY <2>1, <3>1 DEF Injection, IsInjective
  <2>4. sorted \in Surjection(1..N, S)
    BY <2>1, <2>2 DEF Surjection
  <2> QED
    BY <2>3, <2>4 DEF Bijection
<1> QED
  BY <1>1, <1>7, <1>8, <1>9
-----------------------------------------------------------------------------
(* Texts.  Their order is that of the first character that differs; a text *)
(* precedes its extensions.                                                *)

\* No text precedes another one that precedes it.
LEMMA TextsApart ==
  ASSUME NEW s \in Seq(Int), NEW t \in Seq(Int), TextLess(s, t), TextLess(t, s)
  PROVE  FALSE
<1>1. PICK n \in 0..Len(s) :
        /\ n < Len(t) /\ \A i \in 1..n : s[i] = t[i]
        /\ n = Len(s) \/ s[n + 1] < t[n + 1]
  BY DEF TextLess
<1>2. PICK m \in 0..Len(t) :
        /\ m < Len(s) /\ \A i \in 1..m : t[i] = s[i]
        /\ m = Len(t) \/ t[m + 1] < s[m + 1]
  BY DEF TextLess
<1>3. n \in Nat /\ m \in Nat /\ Len(s) \in Nat /\ Len(t) \in Nat
  OBVIOUS
<1>4. \A i \in 1..Len(s) : s[i] \in Int
  OBVIOUS
<1>5. \A i \in 1..Len(t) : t[i] \in Int
  OBVIOUS
<1>6. CASE n < m
  <2>1. n + 1 \in 1..m /\ n # Len(s)
    BY <1>2, <1>3, <1>6
  <2> QED
    BY <1>1, <1>2, <1>3, <1>4, <1>5, <1>6, <2>1
<1>7. CASE m < n
  <2>1. m + 1 \in 1..n /\ m # Len(t)
    BY <1>1, <1>3, <1>7
  <2> QED
    BY <1>1, <1>2, <1>3, <1>4, <1>5, <1>7, <2>1
<1>8. CASE n = m
  <2>1. n + 1 \in 1..Len(s) /\ n + 1 \in 1..Len(t) /\ s[n + 1] < t[n + 1] /\ t[n + 1] < s[n + 1]
    BY <1>1, <1>2, <1>3, <1>8
  <2>2. s[n + 1] \in Int /\ t[n + 1] \in Int
    BY <1>4, <1>5, <2>1
  <2> QED
    BY <2>1, <2>2
<1> QED
  BY <1>3, <1>6, <1>7, <1>8

\* Of two different texts one precedes the other.
LEMMA TextsOrdered ==
  ASSUME NEW s \in Seq(Int), NEW t \in Seq(Int), ~TextLess(s, t), ~TextLess(t, s)
  PROVE  s = t
<1> DEFINE differ == {i \in Nat : i \in DOMAIN s /\ i \in DOMAIN t /\ s[i] # t[i]}
<1>0. /\ DOMAIN s = 1..Len(s) /\ Len(s) \in Nat /\ \A i \in 1..Len(s) : s[i] \in Int
      /\ DOMAIN t = 1..Len(t) /\ Len(t) \in Nat /\ \A i \in 1..Len(t) : t[i] \in Int
  OBVIOUS
<1>1. CASE differ = {}
  <2>1. \A i \in 1..Len(s) : i <= Len(t) => s[i] = t[i]
    BY <1>0, <1>1
  <2>2. CASE Len(s) < Len(t)
    <3>1. Len(s) \in 0..Len(s) /\ \A i \in 1..Len(s) : s[i] = t[i]
      BY <1>0, <2>1, <2>2
    <3>2. TextLess(s, t)
      BY <2>2, <3>1 DEF TextLess
    <3> QED
      BY <3>2
  <2>3. CASE Len(t) < Len(s)
    <3>1. Len(t) \in 0..Len(t) /\ \A i \in 1..Len(t) : t[i] = s[i]
      BY <1>0, <2>1, <2>3
    <3>2. TextLess(t, s)
      BY <2>3, <3>1 DEF TextLess
    <3> QED
      BY <3>2
  <2>4. CASE Len(t) = Len(s)
    <3>1. \A i \in 1..Len(s) : s[i] = t[i]
      BY <1>0, <2>1, <2>4
    <3> QED
      BY <2>4, <3>1, SeqEqual
  <2>5. Len(s) \in Nat /\ Len(t) \in Nat
    OBVIOUS
  <2> QED
    BY <2>2, <2>3, <2>4, <2>5
<1>2. CASE differ # {}
  <2>1. PICK m \in differ : \A k \in differ : m <= k
    <3>1. differ \in SUBSET Nat
      OBVIOUS
    <3> HIDE DEF differ
    <3> QED
      BY <1>2, <3>1, Least
  <2>2. /\ m \in Nat /\ 1 <= m /\ m <= Len(s) /\ m <= Len(t) /\ s[m] # t[m]
        /\ \A i \in 1..(m - 1) : s[i] = t[i] /\ t[i] = s[i]
    BY <1>0, <2>1
  <2> DEFINE n == m - 1
  <2>3. n \in 0..Len(s) /\ n < Len(t) /\ n \in 0..Len(t) /\ n < Len(s) /\ n + 1 = m
    BY <1>0, <2>2
  <2>4. s[m] < t[m] \/ t[m] < s[m]
    BY <1>0, <2>2
  <2> HIDE DEF n
  <2>5. \A i \in 1..n : s[i] = t[i] /\ t[i] = s[i]
    BY <2>2 DEF n
  <2>6. TextLess(s, t) \/ TextLess(t, s)
    BY <2>3, <2>4, <2>5 DEF TextLess
  <2> QED
    BY <2>6
<1> QED
  BY <1>1, <1>2

\* What precedes a text that precedes another one precedes that one.
LEMMA TextsInTurn ==
  ASSUME NEW s \in Seq(Int), NEW t \in Seq(Int), NEW u \in Seq(Int),
         TextLess(s, t), TextLess(t, u)
  PROVE  TextLess(s, u)
<1>1. PICK n \in 0..Len(s) :
        /\ n < Len(t) /\ \A i \in 1..n : s[i] = t[i]
        /\ n = Len(s) \/ s[n + 1] < t[n + 1]
  BY DEF TextLess
<1>2. PICK m \in 0..Len(t) :
        /\ m < Len(u) /\ \A i \in 1..m : t[i] = u[i]
        /\ m = Len(t) \/ t[m + 1] < u[m + 1]
  BY DEF TextLess
<1>3. /\ n \in Nat /\ m \in Nat /\ Len(s) \in Nat /\ Len(t) \in Nat /\ Len(u) \in Nat
      /\ n <= Len(s) /\ m <= Len(t)
  OBVIOUS
<1>4. /\ \A i \in 1..Len(s) : s[i] \in Int
      /\ \A i \in 1..Len(t) : t[i] \in Int
      /\ \A i \in 1..Len(u) : u[i] \in Int
  OBVIOUS
<1>5. CASE m < n
  <2>1. m + 1 \in 1..n /\ m # Len(t) /\ m \in 0..Len(s) /\ m + 1 \in 1..Len(s)
    BY <1>1, <1>3, <1>5
  <2>2. s[m + 1] < u[m + 1]
    BY <1>1, <1>2, <2>1
  <2>3. \A i \in 1..m : s[i] = u[i]
    BY <1>1, <1>2, <1>3, <1>5
  <2> QED
    BY <1>2, <2>1, <2>2, <2>3 DEF TextLess
<1>6. CASE n < m
  <2>1. n + 1 \in 1..m /\ n < Len(u)
    BY <1>2, <1>3, <1>6
  <2>2. n = Len(s) \/ s[n + 1] < u[n + 1]
    BY <1>1, <1>2, <2>1
  <2>3. \A i \in 1..n : s[i] = u[i]
    BY <1>1, <1>2, <1>3, <1>6
  <2> QED
    BY <2>1, <2>2, <2>3 DEF TextLess
<1>7. CASE n = m
  <2>1. n + 1 \in 1..Len(t) /\ n + 1 \in 1..Len(u) /\ t[n + 1] < u[n + 1]
    BY <1>1, <1>2, <1>3, <1>7
  <2>2. n = Len(s) \/ s[n + 1] < u[n + 1]
    <3> SUFFICES ASSUME n # Len(s) PROVE s[n + 1] < u[n + 1]
      OBVIOUS
    <3>1. n + 1 \in 1..Len(s) /\ s[n + 1] < t[n + 1]
      BY <1>1, <1>3
    <3>2. s[n + 1] \in Int /\ t[n + 1] \in Int /\ u[n + 1] \in Int
      BY <1>4, <2>1, <3>1
    <3>3. \A a, b, c \in Int : a < b /\ b < c => a < c
      OBVIOUS
    <3>4. s[n + 1] < t[n + 1] /\ t[n + 1] < u[n + 1]
      BY <2>1, <3>1
    <3> QED
      BY <3>2, <3>3, <3>4, Zenon
  <2>3. \A i \in 1..n : s[i] = u[i]
    BY <1>1, <1>2, <1>7
  <2> QED
    BY <1>2, <1>7, <2>2, <2>3 DEF TextLess
<1> QED
  BY <1>3, <1>5, <1>6, <1>7

\* The comparison of texts is that of a total order.
LEMMA TextsCompared ==
  ASSUME NEW s \in Seq(Int), NEW t \in Seq(Int)
  PROVE  /\ CompareTexts(s, t) \in {-1, 0, 1}
         /\ CompareTexts(t, s) = -CompareTexts(s, t)
         /\ CompareTexts(s, t) = 0 <=> s = t
         /\ \A u \in Seq(Int) : CompareTexts(s, t) <= 0 /\ CompareTexts(t, u) <= 0 =>
               CompareTexts(s, u) <= 0
<1>1. /\ ~(TextLess(s, t) /\ TextLess(t, s))
      /\ ~TextLess(s, s)
      /\ ~TextLess(s, t) /\ ~TextLess(t, s) => s = t
  BY TextsApart, TextsOrdered
<1>2. ASSUME NEW u \in Seq(Int), CompareTexts(s, t) <= 0, CompareTexts(t, u) <= 0
      PROVE  CompareTexts(s, u) <= 0
  <2>1. TextLess(s, t) \/ s = t
    BY <1>1, <1>2 DEF CompareTexts, Sgn
  <2>2. TextLess(t, u) \/ t = u
    BY <1>2, TextsApart, TextsOrdered DEF CompareTexts, Sgn
  <2>3. TextLess(s, u) \/ s = u
    BY <2>1, <2>2, TextsInTurn
  <2>4. ~TextLess(u, s) \/ TextLess(s, u)
    BY <2>3, TextsApart
  <2> QED
    BY <2>4 DEF CompareTexts, Sgn
<1> QED
  BY <1>1, <1>2 DEF CompareTexts, Sgn
-----------------------------------------------------------------------------
(* The digits of a number. *)

\* The digits of n, when f has those of smaller numbers.
Spelt(f, n) == IF n < 10 THEN <<48 + n>> ELSE f[n \div 10] \o <<48 + (n % 10)>>
SpeltUpto(f, n) == f = [m \in 0..n |-> Spelt(f, m)]

LEMMA Shorter == \A n \in Nat : n >= 10 => n \div 10 \in Nat /\ n \div 10 < n
  OBVIOUS

\* The numbers up to any one can be spelt.
LEMMA SpellingExists == \A n \in Nat : \E f : SpeltUpto(f, n)
<1> DEFINE none == {n \in Nat : ~\E f : SpeltUpto(f, n)}
<1>1. SUFFICES ASSUME none # {} PROVE FALSE
  OBVIOUS
<1>2. PICK n \in none : \A k \in none : n <= k
  <2>1. none \in SUBSET Nat
    OBVIOUS
  <2> HIDE DEF none
  <2> QED
    BY <1>1, <2>1, Least
<1>3. \E g : \A m \in Nat : m < n => g[m] = Spelt(g, m)
  <2>1. CASE n = 0
    BY <2>1
  <2>2. CASE n # 0
    <3>1. n - 1 \in Nat /\ n - 1 \notin none
      BY <1>2, <2>2
    <3>2. PICK g : SpeltUpto(g, n - 1)
      BY <3>1
    <3>3. \A m \in Nat : m < n => m \in 0..(n - 1)
      BY <1>2
    <3>4. \A m \in 0..(n - 1) : g[m] = Spelt(g, m)
      BY <3>2, Zenon DEF SpeltUpto
    <3> QED
      BY <3>3, <3>4
  <2> QED
    BY <2>1, <2>2
<1>4. PICK g : \A m \in Nat : m < n => g[m] = Spelt(g, m)
  BY <1>3
<1> DEFINE f == [m \in 0..n |-> IF m < n THEN g[m] ELSE Spelt(g, m)]
<1>5. ASSUME NEW m \in 0..n PROVE f[m] = Spelt(f, m)
  <2>1. m \in Nat /\ n \in Nat /\ m <= n
    BY <1>2
  <2>2. f[m] = Spelt(g, m)
    BY <1>4, <2>1
  <2>3. Spelt(f, m) = Spelt(g, m)
    <3>1. CASE m < 10
      BY <3>1 DEF Spelt
    <3>2. CASE ~(m < 10)
      <4>1. m \div 10 \in Nat /\ m \div 10 < m
        BY <2>1, <3>2, Shorter
      <4>2. m \div 10 \in 0..n /\ m \div 10 < n
        BY <2>1, <4>1
      <4>3. f[m \div 10] = g[m \div 10]
        BY <4>2
      <4> HIDE DEF f
      <4> QED
        BY <3>2, <4>3 DEF Spelt
    <3> QED
      BY <3>1, <3>2
  <2> QED
    BY <2>2, <2>3
<1>6. f = [m \in 0..n |-> Spelt(f, m)]
  <2>1. f = [m \in 0..n |-> f[m]]
    OBVIOUS
  <2> HIDE DEF f
  <2>2. [m \in 0..n |-> f[m]] = [m \in 0..n |-> Spelt(f, m)]
    BY <1>5
  <2> QED
    BY <2>1, <2>2, Zenon
<1> HIDE DEF f
<1> QED
  BY <1>2, <1>6 DEF SpeltUpto

\* All spellings agree.
LEMMA SpellingAgrees ==
  ASSUME NEW i \in Nat, NEW j \in Nat, NEW f, NEW g, SpeltUpto(f, i), SpeltUpto(g, j),
         NEW n \in Nat, n <= i, n <= j
  PROVE  f[n] = g[n]
<1> DEFINE differ == {m \in Nat : m <= i /\ m <= j /\ f[m] # g[m]}
<1>1. SUFFICES ASSUME differ # {} PROVE FALSE
  OBVIOUS
<1>2. PICK m \in differ : \A k \in differ : m <= k
  <2>1. differ \in SUBSET Nat
    OBVIOUS
  <2> HIDE DEF differ
  <2> QED
    BY <1>1, <2>1, Least
<1>3. m \in 0..i /\ m \in 0..j /\ m \in Nat
  BY <1>2
<1>4. f[m] = Spelt(f, m)
  BY <1>3, Zenon DEF SpeltUpto
<1>5. g[m] = Spelt(g, m)
  BY <1>3, Zenon DEF SpeltUpto
<1>6. Spelt(f, m) = Spelt(g, m)
  <2>1. CASE m < 10
    BY <2>1 DEF Spelt
  <2>2. CASE ~(m < 10)
    <3>1. m \div 10 \in Nat /\ m \div 10 < m
      BY <1>3, <2>2, Shorter
    <3>2. m \div 10 \notin differ /\ m \div 10 <= i /\ m \div 10 <= j
      BY <1>2, <1>3, <3>1
    <3>3. f[m \div 10] = g[m \div 10]
      BY <3>1, <3>2
    <3> QED
      BY <2>2, <3>3 DEF Spelt
  <2> QED
    BY <2>1, <2>2
<1> QED
  BY <1>2, <1>4, <1>5, <1>6

\* Digits is the function its definition asks for.
LEMMA DigitsDefined ==
  \A n \in Nat :
     Digits[n] = IF n < 10 THEN <<48 + n>> ELSE Digits[n \div 10] \o <<48 + (n % 10)>>
<1> DEFINE upto(n) == CHOOSE f : SpeltUpto(f, n)
           d == [n \in Nat |-> upto(n)[n]]
<1>1. \A n \in Nat : SpeltUpto(upto(n), n)
  BY SpellingExists, Zenon
<1>2. ASSUME NEW n \in Nat PROVE d[n] = Spelt(d, n)
  <2>1. n \in 0..n
    OBVIOUS
  <2>2. d[n] = Spelt(upto(n), n)
    <3>1. upto(n)[n] = Spelt(upto(n), n)
      <4> HIDE DEF upto
      <4> QED
        BY <1>1, <2>1, Zenon DEF SpeltUpto
    <3> QED
      BY <3>1
  <2>3. Spelt(d, n) = Spelt(upto(n), n)
    <3>1. CASE n < 10
      BY <3>1 DEF Spelt
    <3>2. CASE ~(n < 10)
      <4>1. n \div 10 \in Nat /\ n \div 10 < n
        BY <3>2, Shorter
      <4>2. upto(n \div 10)[n \div 10] = upto(n)[n \div 10]
        <5> HIDE DEF upto
        <5>1. n \div 10 <= n /\ n \div 10 <= n \div 10
          BY <4>1
        <5> QED
          BY <1>1, <4>1, <5>1, SpellingAgrees
      <4>3. d[n \div 10] = upto(n)[n \div 10]
        BY <4>1, <4>2
      <4> HIDE DEF d, upto
      <4> QED
        BY <3>2, <4>3 DEF Spelt
    <3> QED
      BY <3>1, <3>2
  <2> QED
    BY <2>2, <2>3
<1>3. d = [n \in Nat |-> Spelt(d, n)]
  <2>1. d = [n \in Nat |-> d[n]]
    OBVIOUS
  <2> HIDE DEF d
  <2>2. [n \in Nat |-> d[n]] = [n \in Nat |-> Spelt(d, n)]
    BY <1>2
  <2> QED
    BY <2>1, <2>2, Zenon
<1> HIDE DEF d
<1>4. \E f : f = [n \in Nat |-> IF n < 10 THEN <<48 + n>> ELSE f[n \div 10] \o <<48 + (n % 10)>>]
  BY <1>3, Zenon DEF Spelt
<1>5. Digits = [n \in Nat |-> IF n < 10 THEN <<48 + n>>
                              ELSE Digits[n \div 10] \o <<48 + (n % 10)>>]
  BY <1>4, Zenon DEF Digits
<1> QED
  BY <1>5, Zenon

LEMMA DigitsType ==
  \A n \in Nat : Digits[n] \in Seq(48..57) /\ Len(Digits[n]) >= 1
<1> DEFINE wrong == {n \in Nat : ~(Digits[n] \in Seq(48..57) /\ Len(Digits[n]) >= 1)}
<1>1. SUFFICES ASSUME wrong # {} PROVE FALSE
  OBVIOUS
<1>2. PICK n \in wrong : \A k \in wrong : n <= k
  <2>1. wrong \in SUBSET Nat
    OBVIOUS
  <2> HIDE DEF wrong
  <2> QED
    BY <1>1, <2>1, Least
<1>3. n \in Nat
  BY <1>2
<1>4. CASE n < 10
  <2>1. Digits[n] = <<48 + n>>
    BY <1>3, <1>4, DigitsDefined
  <2>2. 48 + n \in 48..57
    BY <1>3, <1>4
  <2>3. <<48 + n>> \in Seq(48..57) /\ Len(<<48 + n>>) = 1
    BY <2>2
  <2>4. Digits[n] \in Seq(48..57) /\ Len(Digits[n]) >= 1
    BY <2>1, <2>3
  <2> QED
    BY <1>2, <2>4
<1>5. CASE ~(n < 10)
  <2> DEFINE q == n \div 10
             r == n % 10
  <2>1. q \in Nat /\ q < n /\ r \in 0..9
    BY <1>3, <1>5, Shorter
  <2>2. Digits[n] = Digits[q] \o <<48 + r>>
    BY <1>3, <1>5, DigitsDefined
  <2> HIDE DEF q, r
  <2>3. q \notin wrong
    BY <1>2, <1>3, <2>1
  <2>4. Digits[q] \in Seq(48..57) /\ Len(Digits[q]) >= 1
    BY <2>1, <2>3
  <2>5. <<48 + r>> \in Seq(48..57) /\ Len(<<48 + r>>) = 1
    BY <2>1
  <2>6. Digits[n] \in Seq(48..57) /\ Len(Digits[n]) = Len(Digits[q]) + 1
    BY <2>2, <2>4, <2>5, ConcatProperties
  <2>7. Len(Digits[q]) \in Nat
    BY <2>4, LenProperties
  <2> QED
    BY <1>2, <2>4, <2>6, <2>7
<1> QED
  BY <1>4, <1>5

\* What a character is added to, and the character, can be told from the text.
LEMMA EndsApart ==
  ASSUME NEW S, NEW s \in Seq(S), NEW t \in Seq(S), NEW a \in S, NEW b \in S,
         s \o <<a>> = t \o <<b>>
  PROVE  s = t /\ a = b
<1>1. <<a>> \in Seq(S) /\ <<b>> \in Seq(S) /\ Len(<<a>>) = 1 /\ Len(<<b>>) = 1
  OBVIOUS
<1>2. Len(s) \in Nat /\ Len(t) \in Nat
  OBVIOUS
<1>3. /\ Len(s \o <<a>>) = Len(s) + 1
      /\ \A i \in 1..(Len(s) + 1) : (s \o <<a>>)[i] = IF i <= Len(s) THEN s[i] ELSE <<a>>[i - Len(s)]
  BY <1>1, ConcatProperties
<1>4. /\ Len(t \o <<b>>) = Len(t) + 1
      /\ \A i \in 1..(Len(t) + 1) : (t \o <<b>>)[i] = IF i <= Len(t) THEN t[i] ELSE <<b>>[i - Len(t)]
  BY <1>1, ConcatProperties
<1>5. PICK w : w = s \o <<a>>
  OBVIOUS
<1>6. Len(s) = Len(t)
  BY <1>2, <1>3, <1>4
<1>7. \A i \in 1..Len(s) : w[i] = s[i] /\ w[i] = t[i]
  BY <1>2, <1>3, <1>4, <1>5, <1>6
<1>8. w[Len(s) + 1] = a /\ w[Len(s) + 1] = b
  BY <1>2, <1>3, <1>4, <1>5, <1>6
<1>9. s = t
  BY <1>6, <1>7, SeqEqual
<1> QED
  BY <1>8, <1>9

\* Different numbers have different digits.
LEMMA DigitsApart ==
  ASSUME NEW i \in Nat, NEW j \in Nat, Digits[i] = Digits[j]
  PROVE  i = j
<1> DEFINE alike == {m \in Nat : \E n \in Nat : n # m /\ Digits[n] = Digits[m]}
<1>1. SUFFICES ASSUME alike # {} PROVE FALSE
  OBVIOUS
<1>2. PICK m \in alike : \A k \in alike : m <= k
  <2>1. alike \in SUBSET Nat
    OBVIOUS
  <2> HIDE DEF alike
  <2> QED
    BY <1>1, <2>1, Least
<1>3. m \in Nat
  BY <1>2
<1>4. PICK n \in Nat : n # m /\ Digits[n] = Digits[m]
  BY <1>2
<1>5. ASSUME NEW k \in Nat, k < 10
      PROVE  Digits[k] = <<48 + k>> /\ Len(Digits[k]) = 1
  <2>1. Digits[k] = <<48 + k>>
    BY <1>5, DigitsDefined
  <2>2. Len(<<48 + k>>) = 1
    OBVIOUS
  <2> QED
    BY <2>1, <2>2
<1>6. ASSUME NEW k \in Nat, ~(k < 10)
      PROVE  /\ k \div 10 \in Nat /\ k \div 10 < k /\ 48 + (k % 10) \in 48..57
             /\ Digits[k] = Digits[k \div 10] \o <<48 + (k % 10)>>
             /\ Digits[k \div 10] \in Seq(48..57) /\ Len(Digits[k]) # 1
  <2> DEFINE q == k \div 10
             r == 48 + (k % 10)
  <2>1. q \in Nat /\ q < k /\ r \in 48..57
    BY <1>6, Shorter
  <2>2. Digits[k] = Digits[q] \o <<r>>
    BY <1>6, DigitsDefined
  <2> HIDE DEF q, r
  <2>3. Digits[q] \in Seq(48..57) /\ Len(Digits[q]) >= 1 /\ Len(Digits[q]) \in Nat
    BY <2>1, DigitsType, LenProperties
  <2>4. <<r>> \in Seq(48..57) /\ Len(<<r>>) = 1
    BY <2>1
  <2>5. Len(Digits[k]) = Len(Digits[q]) + 1
    BY <2>2, <2>3, <2>4, ConcatProperties
  <2>6. Len(Digits[k]) # 1
    BY <2>3, <2>5
  <2> QED
    BY <2>1, <2>2, <2>3, <2>6 DEF q, r
<1>7. CASE m < 10 /\ n < 10
  <2>1. <<48 + m>> = <<48 + n>>
    BY <1>3, <1>4, <1>5, <1>7
  <2>2. 48 + m = 48 + n
    BY <2>1
  <2> QED
    BY <1>3, <1>4, <2>2
<1>8. CASE (m < 10) # (n < 10)
  <2>1. CASE m < 10
    <3>1. Len(Digits[m]) = 1
      BY <1>3, <1>5, <2>1
    <3>2. Len(Digits[n]) # 1
      BY <1>4, <1>6, <1>8, <2>1
    <3> QED
      BY <1>4, <3>1, <3>2
  <2>2. CASE ~(m < 10)
    <3>1. Len(Digits[m]) # 1
      BY <1>3, <1>6, <2>2
    <3>2. Len(Digits[n]) = 1
      BY <1>4, <1>5, <1>8, <2>2
    <3> QED
      BY <1>4, <3>1, <3>2
  <2> QED
    BY <2>1, <2>2
<1>9. CASE ~(m < 10) /\ ~(n < 10)
  <2>1. /\ m \div 10 \in Nat /\ m \div 10 < m /\ 48 + (m % 10) \in 48..57
        /\ Digits[m] = Digits[m \div 10] \o <<48 + (m % 10)>>
        /\ Digits[m \div 10] \in Seq(48..57)
    BY <1>3, <1>6, <1>9
  <2>2. /\ n \div 10 \in Nat /\ 48 + (n % 10) \in 48..57
        /\ Digits[n] = Digits[n \div 10] \o <<48 + (n % 10)>>
        /\ Digits[n \div 10] \in Seq(48..57)
    BY <1>4, <1>6, <1>9
  <2>3. Digits[m \div 10] = Digits[n \div 10] /\ 48 + (m % 10) = 48 + (n % 10)
    <3>1. Digits[m \div 10] \o <<48 + (m % 10)>> = Digits[n \div 10] \o <<48 + (n % 10)>>
      BY <1>4, <2>1, <2>2, Zenon
    <3>2. PICK s \in Seq(48..57), t \in Seq(48..57), a \in 48..57, b \in 48..57 :
            /\ s = Digits[m \div 10] /\ t = Digits[n \div 10]
            /\ a = 48 + (m % 10) /\ b = 48 + (n % 10)
      BY <2>1, <2>2, Zenon
    <3>3. s \o <<a>> = t \o <<b>>
      BY <3>1, <3>2, Zenon
    <3>4. s = t /\ a = b
      BY <3>3, EndsApart
    <3> QED
      BY <3>2, <3>4, Zenon
  <2>4. m \div 10 \notin alike
    BY <1>2, <1>3, <2>1
  <2>5. m \div 10 = n \div 10
    BY <2>1, <2>2, <2>3, <2>4
  <2>6. m % 10 = n % 10
    BY <1>3, <1>4, <2>3
  <2>7. m = n
    BY <1>3, <1>4, <2>5, <2>6
  <2> QED
    BY <1>4, <2>7
<1> QED
  BY <1>7, <1>8, <1>9
-----------------------------------------------------------------------------
(* JSON texts.  The first character of a value's text tells its kind, but  *)
(* for the kinds of numbers.                                               *)

LEMMA Joined ==
  ASSUME NEW s \in Seq(Nat), NEW t \in Seq(Nat), Len(s) >= 1
  PROVE  s \o t \in Seq(Nat) /\ Len(s \o t) >= 1 /\ (s \o t)[1] = s[1]
<1>1. Len(s) \in Nat /\ Len(t) \in Nat
  OBVIOUS
<1>2. /\ s \o t \in Seq(Nat) /\ Len(s \o t) = Len(s) + Len(t)
      /\ \A i \in 1..(Len(s) + Len(t)) : (s \o t)[i] = IF i <= Len(s) THEN s[i] ELSE t[i - Len(s)]
  BY ConcatProperties
<1>3. 1 \in 1..(Len(s) + Len(t)) /\ 1 <= Len(s)
  BY <1>1
<1>4. (s \o t)[1] = s[1]
  BY <1>2, <1>3
<1> QED
  BY <1>1, <1>2, <1>4

LEMMA DigitText ==
  ASSUME NEW n \in Nat
  PROVE  Digits[n] \in Seq(Nat) /\ Len(Digits[n]) >= 1 /\ Digits[n][1] \in 48..57
<1>1. Digits[n] \in Seq(48..57) /\ Len(Digits[n]) >= 1
  BY DigitsType
<1>2. PICK d \in Seq(48..57) : d = Digits[n] /\ Len(d) >= 1
  BY <1>1
<1>3. d \in Seq(Nat) /\ d[1] \in 48..57
  BY <1>2
<1> QED
  BY <1>2, <1>3

\* The text of a number before its decimals.
LEMMA WholeText ==
  ASSUME NEW n \in Int, NEW m \in Nat
  PROVE  /\ Sign(n) \o Digits[m] \in Seq(Nat) /\ Len(Sign(n) \o Digits[m]) >= 1
         /\ (Sign(n) \o Digits[m])[1] \in {45} \cup 48..57
<1>1. PICK d \in Seq(Nat) : d = Digits[m] /\ Len(d) >= 1 /\ d[1] \in 48..57
  BY DigitText
<1>2. CASE n < 0
  <2>1. Sign(n) = <<45>>
    BY <1>2 DEF Sign
  <2>2. <<45>> \in Seq(Nat) /\ Len(<<45>>) >= 1 /\ <<45>>[1] = 45
    OBVIOUS
  <2>3. <<45>> \o d \in Seq(Nat) /\ Len(<<45>> \o d) >= 1 /\ (<<45>> \o d)[1] = 45
    BY <2>2, Joined
  <2> QED
    BY <1>1, <2>1, <2>3
<1>3. CASE ~(n < 0)
  <2>1. Sign(n) = <<>>
    BY <1>3 DEF Sign
  <2>2. <<>> \o d = d
    BY ConcatEmptySeq
  <2> QED
    BY <1>1, <2>1, <2>2
<1> QED
  BY <1>2, <1>3

LEMMA MagnitudeType == \A n \in Int : Magnitude(n) \in Nat /\ Magnitude(n) \div 10 \in Nat
  BY DEF Magnitude

LEMMA ValueKinds ==
  ASSUME NEW x \in Values
  PROVE  \/ x = Null
         \/ x.kind = "bool" /\ (x = Bool(TRUE) \/ x = Bool(FALSE))
         \/ x.kind \in {"int", "float"} /\ x.v[1] \in Int /\ x = Value(x.kind, <<x.v[1]>>)
         \/ x.kind \in {"text", "list"} /\ x.v \in Seq(Nat) /\ x.v \in Seq(Int)
              /\ x = Value(x.kind, x.v)
<1>1. CASE x \in [kind : {"null"}, v : {<<>>}]
  BY <1>1 DEF Null, Value
<1>2. CASE x \in [kind : {"bool"}, v : {<<0>>, <<1>>}]
  BY <1>2 DEF Bool, Value
<1>3. CASE x \in [kind : {"int", "float"}, v : [1..1 -> Int]]
  <2>1. x.kind \in {"int", "float"} /\ x.v \in [1..1 -> Int] /\ x = [kind |-> x.kind, v |-> x.v]
    BY <1>3
  <2>2. x.v = <<x.v[1]>> /\ x.v[1] \in Int
    BY <2>1
  <2> QED
    BY <2>1, <2>2 DEF Value
<1>4. CASE x \in [kind : {"text", "list"}, v : Seq(Nat)]
  <2>1. x.kind \in {"text", "list"} /\ x.v \in Seq(Nat) /\ x = [kind |-> x.kind, v |-> x.v]
    BY <1>4
  <2>2. x.v \in Seq(Int)
    BY <2>1
  <2> QED
    BY <2>1, <2>2 DEF Value
<1> QED
  BY <1>1, <1>2, <1>3, <1>4 DEF Values

LEMMA JsonStart ==
  ASSUME NEW x \in Values
  PROVE  /\ JsonValue(x) \in Seq(Nat) /\ JsonValue(x) \in Seq(Int) /\ Len(JsonValue(x)) >= 1
         /\ x.kind = "null" => JsonValue(x)[1] = 110
         /\ x.kind = "bool" => JsonValue(x)[1] \in {102, 116}
         /\ x.kind \in {"int", "float"} => JsonValue(x)[1] \in {45} \cup 48..57
         /\ x.kind = "text" => JsonValue(x)[1] = 34
         /\ x.kind = "list" => JsonValue(x)[1] = 91
<1>1. CASE x = Null
  <2>1. JsonValue(x) = <<110>> /\ x.kind = "null"
    BY <1>1 DEF JsonValue, Null, Value
  <2> QED
    BY <2>1
<1>2. CASE x.kind = "bool" /\ (x = Bool(TRUE) \/ x = Bool(FALSE))
  <2>1. JsonValue(x) = <<IF x = Bool(TRUE) THEN 116 ELSE 102>>
    BY <1>2 DEF JsonValue
  <2>2. PICK c \in {102, 116} : JsonValue(x) = <<c>>
    BY <2>1
  <2>3. <<c>> \in Seq(Nat) /\ <<c>> \in Seq(Int) /\ Len(<<c>>) >= 1 /\ <<c>>[1] = c
    OBVIOUS
  <2>4. x.kind = "bool" /\ x.kind # "null" /\ x.kind # "text" /\ x.kind # "list"
    BY <1>2
  <2> QED
    BY <2>2, <2>3, <2>4
<1>3. CASE x.kind = "int" /\ x.v[1] \in Int
  <2>1. JsonValue(x) = Sign(x.v[1]) \o Digits[Magnitude(x.v[1])]
    BY <1>3 DEF JsonValue
  <2>2. PICK s \in Seq(Nat) : s = JsonValue(x) /\ Len(s) >= 1 /\ s[1] \in {45} \cup 48..57
    BY <1>3, <2>1, WholeText, MagnitudeType
  <2>3. s \in Seq(Int)
    OBVIOUS
  <2> QED
    BY <1>3, <2>2, <2>3
<1>4. CASE x.kind = "float" /\ x.v[1] \in Int
  <2> DEFINE whole == Sign(x.v[1]) \o Digits[Magnitude(x.v[1]) \div 10]
             tail == <<46, 48 + (Magnitude(x.v[1]) % 10)>>
  <2>1. JsonValue(x) = whole \o tail
    BY <1>4 DEF JsonValue
  <2>2. whole \in Seq(Nat) /\ Len(whole) >= 1 /\ whole[1] \in {45} \cup 48..57
    BY <1>4, WholeText, MagnitudeType
  <2>3. tail \in Seq(Nat)
    BY <1>4, MagnitudeType
  <2> HIDE DEF whole, tail
  <2>4. whole \o tail \in Seq(Nat) /\ Len(whole \o tail) >= 1 /\ (whole \o tail)[1] = whole[1]
    BY <2>2, <2>3, Joined
  <2> QED
    BY <1>4, <2>1, <2>2, <2>4
<1>5. ASSUME NEW a \in Nat, NEW b \in Nat, NEW t \in Seq(Nat)
      PROVE  /\ <<a>> \o t \o <<b>> \in Seq(Nat) /\ Len(<<a>> \o t \o <<b>>) >= 1
             /\ (<<a>> \o t \o <<b>>)[1] = a
  <2>1. <<a>> \in Seq(Nat) /\ <<b>> \in Seq(Nat) /\ Len(<<a>>) >= 1 /\ <<a>>[1] = a
    OBVIOUS
  <2>2. PICK u : u = <<a>> \o t
    OBVIOUS
  <2>3. u \in Seq(Nat) /\ Len(u) >= 1 /\ u[1] = a
    BY <2>1, <2>2, Joined
  <2>4. u \o <<b>> \in Seq(Nat) /\ Len(u \o <<b>>) >= 1 /\ (u \o <<b>>)[1] = u[1]
    BY <2>1, <2>3, Joined
  <2> QED
    BY <2>2, <2>3, <2>4
<1>6. CASE x.kind = "text" /\ x.v \in Seq(Nat)
  <2>1. JsonValue(x) = <<34>> \o x.v \o <<34>>
    BY <1>6 DEF JsonValue
  <2> QED
    BY <1>5, <1>6, <2>1
<1>7. CASE x.kind = "list" /\ x.v \in Seq(Nat)
  <2>1. JsonValue(x) = <<91>> \o x.v \o <<93>>
    BY <1>7 DEF JsonValue
  <2> QED
    BY <1>5, <1>7, <2>1
<1>8. JsonValue(x) \in Seq(Nat) => JsonValue(x) \in Seq(Int)
  OBVIOUS
<1> QED
  BY <1>1, <1>2, <1>3, <1>4, <1>6, <1>7, <1>8, ValueKinds
-----------------------------------------------------------------------------
(* The order of values.  The first characters of their texts keep the      *)
(* kinds apart, so that values of one kind can be compared in their own    *)
(* way: texts come first, then numbers, lists and booleans.                *)

Class(x) == IF x.kind = "text" THEN 1 ELSE IF IsNumber(x) THEN 2
            ELSE IF x.kind = "list" THEN 3 ELSE 4

Present == {x \in Values : x.kind # "null"}

LEMMA Classes ==
  ASSUME NEW x \in Present
  PROVE  /\ Class(x) \in 1..4 /\ x \in Values /\ ~IsAbsent(x)
         /\ Class(x) = 1 => x.kind = "text" /\ x.v \in Seq(Int)
         /\ Class(x) = 2 => x.kind \in {"int", "float"} /\ Quantity(x) \in Int
         /\ Class(x) = 3 => x.kind = "list"
         /\ Class(x) = 4 => x.kind = "bool" /\ Quantity(x) \in Int
<1>1. x \in Values /\ x.kind # "null"
  BY DEF Present
<1>2. x # Null
  BY <1>1 DEF Null, Value
<1>3. CASE x.kind = "bool" /\ (x = Bool(TRUE) \/ x = Bool(FALSE))
  <2>1. x.v[1] \in Int
    BY <1>3 DEF Bool, Value
  <2> QED
    BY <1>1, <1>3, <2>1 DEF Class, IsNumber, Quantity, IsAbsent
<1>4. CASE x.kind \in {"int", "float"} /\ x.v[1] \in Int
  BY <1>1, <1>4 DEF Class, IsNumber, Quantity, IsAbsent
<1>5. CASE x.kind \in {"text", "list"} /\ x.v \in Seq(Int)
  BY <1>1, <1>5 DEF Class, IsNumber, IsAbsent
<1> QED
  BY <1>1, <1>2, <1>3, <1>4, <1>5, ValueKinds

\* The comparison of numbers is that of a total order.
LEMMA NumbersCompared ==
  ASSUME NEW a \in Int, NEW b \in Int
  PROVE  /\ Sgn(a < b, b < a) \in {-1, 0, 1}
         /\ Sgn(b < a, a < b) = -Sgn(a < b, b < a)
         /\ \A c \in Int : Sgn(a < b, b < a) <= 0 /\ Sgn(b < c, c < b) <= 0 =>
               Sgn(a < c, c < a) <= 0
<1>1. \A d, e \in Int : Sgn(d < e, e < d) <= 0 <=> d <= e
  BY DEF Sgn
<1>2. Sgn(a < b, b < a) \in {-1, 0, 1} /\ Sgn(b < a, a < b) = -Sgn(a < b, b < a)
  <2>1. CASE a < b
    <3>1. Sgn(a < b, b < a) = -1
      BY <2>1 DEF Sgn
    <3>2. ~(b < a)
      BY <2>1
    <3>3. Sgn(b < a, a < b) = 1
      BY <2>1, <3>2 DEF Sgn
    <3> QED
      BY <3>1, <3>3
  <2>2. CASE b < a
    <3>1. Sgn(b < a, a < b) = -1
      BY <2>2 DEF Sgn
    <3>2. ~(a < b)
      BY <2>2
    <3>3. Sgn(a < b, b < a) = 1
      BY <2>2, <3>2 DEF Sgn
    <3> QED
      BY <3>1, <3>3
  <2>3. CASE ~(a < b) /\ ~(b < a)
    <3>1. Sgn(a < b, b < a) = 0 /\ Sgn(b < a, a < b) = 0
      BY <2>3 DEF Sgn
    <3> QED
      BY <3>1
  <2> QED
    BY <2>1, <2>2, <2>3
<1>3. ASSUME NEW c \in Int, Sgn(a < b, b < a) <= 0, Sgn(b < c, c < b) <= 0
      PROVE  Sgn(a < c, c < a) <= 0
  <2>1. a <= b /\ b <= c
    BY <1>1, <1>3
  <2>2. a <= c
    BY <2>1
  <2> QED
    BY <1>1, <2>2
<1> QED
  BY <1>2, <1>3

\* Values of one kind: texts, numbers, lists and booleans.
LEMMA WithinClass ==
  ASSUME NEW x \in Present, NEW y \in Present, Class(x) = Class(y)
  PROVE  /\ Class(x) = 1 => CompareKinds(x, y) = CompareTexts(x.v, y.v)
         /\ Class(x) = 3 => CompareKinds(x, y) = CompareTexts(JsonValue(x), JsonValue(y))
         /\ Class(x) \in {2, 4} =>
              CompareKinds(x, y) = Sgn(Quantity(x) < Quantity(y), Quantity(y) < Quantity(x))
<1>1. /\ Class(x) \in 1..4
      /\ Class(x) = 1 => x.kind = "text" /\ y.kind = "text"
      /\ Class(x) = 2 => x.kind \in {"int", "float"} /\ y.kind \in {"int", "float"}
      /\ Class(x) = 3 => x.kind = "list" /\ y.kind = "list"
      /\ Class(x) = 4 => x.kind = "bool" /\ y.kind = "bool"
  BY Classes
<1>2. CASE Class(x) = 1
  BY <1>1, <1>2 DEF CompareKinds, CompareTexts, Less, IsNumber
<1>3. CASE Class(x) = 2
  BY <1>1, <1>3 DEF CompareKinds, Less, IsNumber
<1>4. CASE Class(x) = 3
  BY <1>1, <1>4 DEF CompareKinds, IsNumber
<1>5. CASE Class(x) = 4
  BY <1>1, <1>5 DEF CompareKinds, Less, IsNumber
<1> QED
  BY <1>1, <1>2, <1>3, <1>4, <1>5

LEMMA AcrossClasses ==
  ASSUME NEW x \in Present, NEW y \in Present, Class(x) < Class(y)
  PROVE  CompareKinds(x, y) = -1 /\ CompareKinds(y, x) = 1
<1>1. /\ Class(x) \in 1..4 /\ Class(y) \in 1..4 /\ x \in Values /\ y \in Values
      /\ Class(x) = 1 => x.kind = "text"
      /\ Class(x) = 2 => x.kind \in {"int", "float"}
      /\ Class(x) = 3 => x.kind = "list"
      /\ Class(x) = 4 => x.kind = "bool"
      /\ Class(y) = 1 => y.kind = "text"
      /\ Class(y) = 2 => y.kind \in {"int", "float"}
      /\ Class(y) = 3 => y.kind = "list"
      /\ Class(y) = 4 => y.kind = "bool"
  BY Classes
<1>2. PICK s \in Seq(Int) : s = JsonValue(x) /\ Len(s) >= 1
  BY <1>1, JsonStart
<1>3. PICK t \in Seq(Int) : t = JsonValue(y) /\ Len(t) >= 1
  BY <1>1, JsonStart
<1>4. /\ Class(x) = 1 => s[1] = 34
      /\ Class(x) = 2 => s[1] \in {45} \cup 48..57
      /\ Class(x) = 3 => s[1] = 91
  BY <1>1, <1>2, JsonStart
<1>5. /\ Class(y) = 2 => t[1] \in {45} \cup 48..57
      /\ Class(y) = 3 => t[1] = 91
      /\ Class(y) = 4 => t[1] \in {102, 116}
  BY <1>1, <1>3, JsonStart
<1>6. s[1] < t[1]
  <2>1. PICK a, b : a = s[1] /\ b = t[1]
    OBVIOUS
  <2>2. \/ Class(x) = 1 /\ Class(y) \in {2, 3, 4}
        \/ Class(x) = 2 /\ Class(y) \in {3, 4}
        \/ Class(x) = 3 /\ Class(y) = 4
    <3> USE <1>1
    <3> QED
      OBVIOUS
  <2>3. /\ Class(x) = 1 => a = 34
        /\ Class(x) = 2 => a \in {45} \cup 48..57
        /\ Class(x) = 3 => a = 91
        /\ Class(y) = 2 => b \in {45} \cup 48..57
        /\ Class(y) = 3 => b = 91
        /\ Class(y) = 4 => b \in {102, 116}
    BY <1>4, <1>5, <2>1
  <2>4. a < b
    <3>1. b \in {45} \cup 48..57 => b \in Int /\ 34 < b /\ b < 91
      OBVIOUS
    <3>2. a \in {45} \cup 48..57 => a \in Int /\ a < 91 /\ a < 102 /\ a < 116
      OBVIOUS
    <3>3. CASE Class(x) = 1
      BY <2>2, <2>3, <3>1, <3>3
    <3>4. CASE Class(x) = 2
      BY <2>2, <2>3, <3>2, <3>4
    <3>5. CASE Class(x) = 3
      BY <2>2, <2>3, <3>5
    <3> QED
      BY <2>2, <3>3, <3>4, <3>5
  <2> QED
    BY <2>1, <2>4
<1>7. TextLess(s, t)
  <2>1. 0 \in 0..Len(s) /\ 0 < Len(t) /\ s[0 + 1] < t[0 + 1]
    BY <1>2, <1>3, <1>6
  <2>2. \A i \in 1..0 : s[i] = t[i]
    OBVIOUS
  <2> QED
    BY <2>1, <2>2 DEF TextLess
<1>8. ~TextLess(t, s)
  BY <1>7, TextsApart
<1>9. /\ ~((IsNumber(x) /\ IsNumber(y)) \/ (x.kind = y.kind /\ x.kind \in {"text", "bool"}))
      /\ ~((IsNumber(y) /\ IsNumber(x)) \/ (y.kind = x.kind /\ y.kind \in {"text", "bool"}))
  <2>1. Class(x) # Class(y)
    BY <1>1
  <2> QED
    BY <2>1 DEF Class, IsNumber
<1> QED
  BY <1>2, <1>3, <1>7, <1>8, <1>9 DEF CompareKinds, CompareTexts, Sgn

\* The comparison of present values is that of a total order.
LEMMA KindsCompared ==
  ASSUME NEW x \in Present, NEW y \in Present
  PROVE  /\ CompareKinds(x, y) \in {-1, 0, 1}
         /\ CompareKinds(y, x) = -CompareKinds(x, y)
         /\ CompareKinds(x, y) <= 0 => Class(x) <= Class(y)
<1>1. Class(x) \in 1..4 /\ Class(y) \in 1..4
  BY Classes
<1>2. CASE Class(x) < Class(y)
  BY <1>1, <1>2, AcrossClasses
<1>3. CASE Class(y) < Class(x)
  BY <1>1, <1>3, AcrossClasses
<1>4. CASE Class(x) = Class(y)
  <2>1. CASE Class(x) = 1
    <3>1. x.v \in Seq(Int) /\ y.v \in Seq(Int)
      BY <1>4, <2>1, Classes
    <3>2. CompareKinds(x, y) = CompareTexts(x.v, y.v) /\ CompareKinds(y, x) = CompareTexts(y.v, x.v)
      BY <1>4, <2>1, WithinClass
    <3> QED
      BY <1>1, <1>4, <3>1, <3>2, TextsCompared
  <2>2. CASE Class(x) = 3
    <3>1. JsonValue(x) \in Seq(Int) /\ JsonValue(y) \in Seq(Int)
      BY Classes, JsonStart
    <3>2. /\ CompareKinds(x, y) = CompareTexts(JsonValue(x), JsonValue(y))
          /\ CompareKinds(y, x) = CompareTexts(JsonValue(y), JsonValue(x))
      BY <1>4, <2>2, WithinClass
    <3> QED
      BY <1>1, <1>4, <3>1, <3>2, TextsCompared
  <2>3. CASE Class(x) \in {2, 4}
    <3>1. Quantity(x) \in Int /\ Quantity(y) \in Int
      BY <1>4, <2>3, Classes
    <3>2. /\ CompareKinds(x, y) = Sgn(Quantity(x) < Quantity(y), Quantity(y) < Quantity(x))
          /\ CompareKinds(y, x) = Sgn(Quantity(y) < Quantity(x), Quantity(x) < Quantity(y))
      BY <1>4, <2>3, WithinClass
    <3> QED
      BY <1>1, <1>4, <3>1, <3>2, NumbersCompared
  <2> QED
    BY <1>1, <2>1, <2>2, <2>3
<1> QED
  BY <1>1, <1>2, <1>3, <1>4

LEMMA KindsInTurn ==
  ASSUME NEW x \in Present, NEW y \in Present, NEW z \in Present,
         CompareKinds(x, y) <= 0, CompareKinds(y, z) <= 0
  PROVE  CompareKinds(x, z) <= 0
<1>1. Class(x) \in 1..4 /\ Class(y) \in 1..4 /\ Class(z) \in 1..4
  BY Classes
<1>2. Class(x) <= Class(y) /\ Class(y) <= Class(z)
  BY KindsCompared
<1>3. CASE Class(x) < Class(z)
  BY <1>3, AcrossClasses
<1>4. CASE ~(Class(x) < Class(z))
  <2>1. Class(x) = Class(y) /\ Class(y) = Class(z) /\ Class(x) = Class(z)
    BY <1>1, <1>2, <1>4
  <2>2. CASE Class(x) = 1
    <3>1. x.v \in Seq(Int) /\ y.v \in Seq(Int) /\ z.v \in Seq(Int)
      BY <2>1, <2>2, Classes
    <3>2. /\ CompareKinds(x, y) = CompareTexts(x.v, y.v) /\ CompareKinds(y, z) = CompareTexts(y.v, z.v)
          /\ CompareKinds(x, z) = CompareTexts(x.v, z.v)
      BY <2>1, <2>2, WithinClass
    <3> QED
      BY <3>1, <3>2, TextsCompared
  <2>3. CASE Class(x) = 3
    <3>1. JsonValue(x) \in Seq(Int) /\ JsonValue(y) \in Seq(Int) /\ JsonValue(z) \in Seq(Int)
      BY Classes, JsonStart
    <3>2. /\ CompareKinds(x, y) = CompareTexts(JsonValue(x), JsonValue(y))
          /\ CompareKinds(y, z) = CompareTexts(JsonValue(y), JsonValue(z))
          /\ CompareKinds(x, z) = CompareTexts(JsonValue(x), JsonValue(z))
      BY <2>1, <2>3, WithinClass
    <3> QED
      BY <3>1, <3>2, TextsCompared
  <2>4. CASE Class(x) \in {2, 4}
    <3>1. Quantity(x) \in Int /\ Quantity(y) \in Int /\ Quantity(z) \in Int
      BY <2>1, <2>4, Classes
    <3>2. /\ CompareKinds(x, y) = Sgn(Quantity(x) < Quantity(y), Quantity(y) < Quantity(x))
          /\ CompareKinds(y, z) = Sgn(Quantity(y) < Quantity(z), Quantity(z) < Quantity(y))
          /\ CompareKinds(x, z) = Sgn(Quantity(x) < Quantity(z), Quantity(z) < Quantity(x))
      BY <2>1, <2>4, WithinClass
    <3> QED
      BY <3>1, <3>2, NumbersCompared
  <2> QED
    BY <1>1, <2>2, <2>3, <2>4
<1> QED
  BY <1>3, <1>4
-----------------------------------------------------------------------------
(* Sequences of sequences, put together. *)

Blocks(seqs) == UNION {{<<i, k>> : k \in 1..Len(seqs[i])} : i \in DOMAIN seqs}

LEMMA BlocksAre ==
  ASSUME NEW seqs
  PROVE  /\ \A x \in Blocks(seqs) : x = <<x[1], x[2]>> /\ x[1] \in DOMAIN seqs /\ x[2] \in 1..Len(seqs[x[1]])
         /\ \A i \in DOMAIN seqs : \A k \in 1..Len(seqs[i]) : <<i, k>> \in Blocks(seqs)
<1>1. ASSUME NEW x \in Blocks(seqs)
      PROVE  x = <<x[1], x[2]>> /\ x[1] \in DOMAIN seqs /\ x[2] \in 1..Len(seqs[x[1]])
  <2>1. PICK i \in DOMAIN seqs : \E k \in 1..Len(seqs[i]) : x = <<i, k>>
    BY DEF Blocks
  <2>2. PICK k \in 1..Len(seqs[i]) : x = <<i, k>>
    BY <2>1
  <2> QED
    BY <2>2
<1>2. ASSUME NEW i \in DOMAIN seqs, NEW k \in 1..Len(seqs[i]) PROVE <<i, k>> \in Blocks(seqs)
  BY DEF Blocks
<1> QED
  BY <1>1, <1>2

\* The function that FlattenSeq's definition asks for exists.
LEMMA FlattenedUpto ==
  ASSUME NEW S, NEW seqs \in Seq(Seq(S))
  PROVE  \E f \in [0..Len(seqs) -> Seq(S)] :
            /\ f[0] = <<>> /\ \A n \in 1..Len(seqs) : f[n] = f[n - 1] \o seqs[n]
            /\ FlattenSeq(seqs) = f[Len(seqs)]
<1> DEFINE N == Len(seqs)
           change == [n \in 1..N |-> [s \in Seq(S) |-> s \o seqs[n]]]
<1>1. N \in Nat /\ \A n \in 1..N : seqs[n] \in Seq(S)
  OBVIOUS
<1>2. <<>> \in Seq(S)
  OBVIOUS
<1>3. change \in [1..N -> [Seq(S) -> Seq(S)]]
  <2>1. \A n \in 1..N : \A s \in Seq(S) : s \o seqs[n] \in Seq(S)
    BY <1>1, ConcatProperties
  <2> QED
    BY <2>1
<1>4. PICK f \in [0..N -> Seq(S)] : f[0] = <<>> /\ \A n \in 1..N : f[n] = change[n][f[n - 1]]
  <2>1. change \in Changes(Seq(S), N)
    BY <1>3 DEF Changes
  <2> HIDE DEF change, N
  <2>2. \E f : Path(f, Seq(S), <<>>, N, change)
    BY <1>1, <1>2, <2>1, Iterated
  <2> QED
    BY <2>2 DEF Path
<1>5. ASSUME NEW n \in 1..N PROVE f[n - 1] \in Seq(S) /\ f[n] = f[n - 1] \o seqs[n]
  <2>1. n - 1 \in 0..N
    BY <1>1
  <2>2. f[n - 1] \in Seq(S)
    BY <2>1
  <2> QED
    BY <1>4, <2>2
<1>6. CASE N = 0
  <2>1. FlattenSeq(seqs) = seqs /\ seqs = <<>>
    BY <1>6 DEF FlattenSeq
  <2> QED
    BY <1>4, <1>6, <2>1
<1>7. CASE N # 0
  <2> DEFINE g == [i \in 1..N |-> f[i]]
  <2>1. ASSUME NEW i \in 1..N PROVE g[i] = IF i = 1 THEN seqs[i] ELSE g[i - 1] \o seqs[i]
    <3>1. CASE i = 1
      <4>1. f[1] = <<>> \o seqs[1]
        <5>1. 1 \in 1..N /\ 1 - 1 = 0
          BY <3>1
        <5>2. f[1] = f[1 - 1] \o seqs[1]
          BY <1>5, <5>1
        <5> QED
          BY <1>4, <5>1, <5>2
      <4>2. <<>> \o seqs[1] = seqs[1]
        BY <1>1, <3>1, ConcatEmptySeq
      <4> QED
        BY <3>1, <4>1, <4>2
    <3>2. CASE i # 1
      <4>1. i - 1 \in 1..N
        BY <1>1, <3>2
      <4>2. g[i - 1] = f[i - 1]
        BY <4>1
      <4>3. g[i] = f[i - 1] \o seqs[i]
        BY <1>5
      <4> HIDE DEF g
      <4> QED
        BY <3>2, <4>2, <4>3
    <3> QED
      BY <3>1, <3>2
  <2>2. g = [i \in 1..N |-> IF i = 1 THEN seqs[i] ELSE g[i - 1] \o seqs[i]]
    <3>1. g = [i \in 1..N |-> g[i]]
      OBVIOUS
    <3> HIDE DEF g
    <3>2. [i \in 1..N |-> g[i]] = [i \in 1..N |-> IF i = 1 THEN seqs[i] ELSE g[i - 1] \o seqs[i]]
      BY <2>1
    <3> QED
      BY <3>1, <3>2, Zenon
  <2>3. PICK h : /\ h = [i \in 1..N |-> IF i = 1 THEN seqs[i] ELSE h[i - 1] \o seqs[i]]
                 /\ FlattenSeq(seqs) = h[N]
    <3> HIDE DEF g
    <3>1. \E h : h = [i \in 1..N |-> IF i = 1 THEN seqs[i] ELSE h[i - 1] \o seqs[i]]
      BY <2>2, Zenon
    <3>2. FlattenSeq(seqs) =
             (CHOOSE h : h = [i \in 1..N |-> IF i = 1 THEN seqs[i] ELSE h[i - 1] \o seqs[i]])[N]
      BY <1>7, Zenon DEF FlattenSeq
    <3> QED
      BY <3>1, <3>2, Zenon
  <2>4. \A i \in 1..N : h[i] = IF i = 1 THEN seqs[i] ELSE h[i - 1] \o seqs[i]
    BY <2>3, Zenon
  <2> DEFINE same == {n \in 0..N : n = 0 \/ h[n] = f[n]}
  <2>5. \A n \in 0..N : n \in same
    <3>1. 0 \in same
      BY <1>1
    <3>2. ASSUME NEW n \in 1..N, n - 1 \in same PROVE n \in same
      <4>1. CASE n = 1
        <5>1. 1 \in 1..N
          BY <4>1
        <5>2. h[1] = seqs[1]
          BY <2>4, <5>1
        <5>3. g[1] = seqs[1] /\ g[1] = f[1]
          BY <2>1, <5>1
        <5>4. n \in 0..N /\ h[n] = f[n]
          BY <4>1, <5>2, <5>3
        <5> QED
          BY <5>4
      <4>2. CASE n # 1
        <5>1. n - 1 # 0 /\ n - 1 \in 0..N /\ n - 1 \in 1..N
          BY <1>1, <4>2
        <5>2. h[n - 1] = f[n - 1]
          BY <3>2, <5>1
        <5>3. h[n] = h[n - 1] \o seqs[n]
          BY <2>4, <4>2
        <5>4. f[n] = f[n - 1] \o seqs[n]
          BY <1>5
        <5>5. n \in 0..N /\ h[n] = f[n]
          BY <5>2, <5>3, <5>4
        <5> QED
          BY <5>5
      <4> QED
        BY <4>1, <4>2
    <3> HIDE DEF same
    <3> QED
      BY <1>1, <3>1, <3>2, Stepwise
  <2>6. h[N] = f[N]
    <3>1. N \in 0..N
      BY <1>1
    <3>2. N \in same
      BY <2>5, <3>1
    <3> QED
      BY <1>7, <3>2
  <2> QED
    BY <1>4, <1>5, <2>3, <2>6
<1> QED
  BY <1>6, <1>7

\* The first blocks of seqs, and s as what they hold, each of their elements once.
FirstBlocks(seqs, n) == {x \in Blocks(seqs) : x[1] <= n}
Holds(s, seqs, blocks) ==
  \E place \in Bijection(1..Len(s), blocks) :
     \A j \in 1..Len(s) : s[j] = seqs[place[j][1]][place[j][2]]

LEMMA OneBlockMore ==
  ASSUME NEW S, NEW seqs \in Seq(Seq(S)), NEW n \in 1..Len(seqs), NEW s \in Seq(S),
         Holds(s, seqs, FirstBlocks(seqs, n - 1))
  PROVE  Holds(s \o seqs[n], seqs, FirstBlocks(seqs, n))
<1> DEFINE old == FirstBlocks(seqs, n - 1)
           new == FirstBlocks(seqs, n)
           L == Len(s)
           M == Len(seqs[n])
<1>1. PICK place \in Bijection(1..L, old) :
         \A j \in 1..L : s[j] = seqs[place[j][1]][place[j][2]]
  BY DEF Holds
<1>2. /\ place \in [1..L -> old]
      /\ \A i, j \in 1..L : place[i] = place[j] => i = j
      /\ \A x \in old : \E j \in 1..L : place[j] = x
  BY <1>1 DEF Bijection, Injection, Surjection, IsInjective
<1>3. /\ L \in Nat /\ n \in Nat /\ seqs[n] \in Seq(S) /\ DOMAIN seqs = 1..Len(seqs)
      /\ \A i \in DOMAIN seqs : i \in Nat
  BY LenProperties
<1>4. M \in Nat
  BY <1>3
<1>5. PICK t : t = s \o seqs[n]
  OBVIOUS
<1>6. /\ Len(t) = L + M
      /\ \A j \in 1..(L + M) : t[j] = IF j <= L THEN s[j] ELSE seqs[n][j - L]
  BY <1>3, <1>5, ConcatProperties
<1> DEFINE grown == [j \in 1..(L + M) |-> IF j <= L THEN place[j] ELSE <<n, j - L>>]
<1> HIDE DEF L, M
<1>7. \A x \in new : x \in old \/ \E k \in 1..M : x = <<n, k>>
  <2> SUFFICES ASSUME NEW x \in new, x \notin old PROVE \E k \in 1..M : x = <<n, k>>
    OBVIOUS
  <2>1. x \in Blocks(seqs) /\ x[1] <= n /\ ~(x[1] <= n - 1)
    BY DEF FirstBlocks
  <2>2. x = <<x[1], x[2]>> /\ x[1] \in Nat /\ x[2] \in 1..Len(seqs[x[1]])
    BY <1>3, <2>1, BlocksAre
  <2>3. x[1] = n
    BY <1>3, <2>1, <2>2
  <2>4. x[2] \in 1..M /\ x = <<n, x[2]>>
    BY <2>2, <2>3 DEF M
  <2> QED
    BY <2>4
<1>8. \A x \in old : x \in new /\ x[1] # n
  <2> SUFFICES ASSUME NEW x \in old PROVE x \in new /\ x[1] # n
    OBVIOUS
  <2>1. x \in Blocks(seqs) /\ x[1] <= n - 1
    BY DEF FirstBlocks
  <2>2. x[1] \in Nat
    BY <1>3, <2>1, BlocksAre
  <2>3. x[1] <= n /\ x[1] # n
    BY <1>3, <2>1, <2>2
  <2> QED
    BY <2>1, <2>3 DEF FirstBlocks
<1>9. \A k \in 1..M : <<n, k>> \in new
  <2> SUFFICES ASSUME NEW k \in 1..M PROVE <<n, k>> \in new
    OBVIOUS
  <2>1. <<n, k>> \in Blocks(seqs)
    BY <1>3, BlocksAre DEF M
  <2>2. <<n, k>>[1] <= n
    BY <1>3
  <2> QED
    BY <2>1, <2>2 DEF FirstBlocks
<1> HIDE DEF old, new
<1>10. ASSUME NEW j \in 1..(L + M)
       PROVE  /\ j <= L => j \in 1..L /\ grown[j] = place[j] /\ grown[j] \in old
              /\ ~(j <= L) => j - L \in 1..M /\ grown[j] = <<n, j - L>>
              /\ grown[j] \in new
              /\ t[j] = seqs[grown[j][1]][grown[j][2]]
  <2>1. CASE j <= L
    <3>1. j \in 1..L
      BY <1>3, <1>4, <2>1
    <3>2. grown[j] = place[j] /\ place[j] \in old
      BY <1>2, <2>1, <3>1
    <3>3. t[j] = s[j]
      BY <1>6, <2>1
    <3>4. t[j] = seqs[grown[j][1]][grown[j][2]]
      BY <1>1, <3>1, <3>2, <3>3 DEF L
    <3> HIDE DEF grown
    <3> QED
      BY <1>8, <2>1, <3>1, <3>2, <3>4
  <2>2. CASE ~(j <= L)
    <3>1. j - L \in 1..M
      BY <1>3, <1>4, <2>2
    <3>2. grown[j] = <<n, j - L>>
      BY <2>2
    <3>3. t[j] = seqs[n][j - L]
      BY <1>6, <2>2
    <3> HIDE DEF grown
    <3> QED
      BY <1>9, <2>2, <3>1, <3>2, <3>3
  <2> QED
    BY <2>1, <2>2
<1>11. grown \in [1..(L + M) -> new]
  BY <1>10
<1> HIDE DEF grown
<1>12. ASSUME NEW i \in 1..(L + M), NEW j \in 1..(L + M), grown[i] = grown[j]
       PROVE  i = j
  <2>1. CASE i <= L /\ j <= L
    <3>1. i \in 1..L /\ j \in 1..L
      BY <1>3, <1>4, <2>1
    <3>2. grown[i] = place[i] /\ grown[j] = place[j]
      BY <1>10, <2>1
    <3>3. place[i] = place[j]
      BY <1>12, <3>2
    <3> QED
      BY <1>2, <3>1, <3>3
  <2>2. CASE i <= L /\ ~(j <= L)
    <3>1. grown[i] \in old /\ grown[j] = <<n, j - L>>
      BY <1>10, <2>2
    <3>2. grown[j][1] = n
      BY <3>1
    <3> QED
      BY <1>8, <1>12, <3>1, <3>2
  <2>3. CASE ~(i <= L) /\ j <= L
    <3>1. grown[j] \in old /\ grown[i] = <<n, i - L>>
      BY <1>10, <2>3
    <3>2. grown[i][1] = n
      BY <3>1
    <3> QED
      BY <1>8, <1>12, <3>1, <3>2
  <2>4. CASE ~(i <= L) /\ ~(j <= L)
    <3>1. grown[i] = <<n, i - L>> /\ grown[j] = <<n, j - L>>
      BY <1>10, <2>4
    <3>2. grown[i][2] = i - L /\ grown[j][2] = j - L
      BY <3>1
    <3>3. i - L = j - L
      BY <1>12, <3>2
    <3> QED
      BY <1>3, <1>4, <3>3
  <2> QED
    BY <2>1, <2>2, <2>3, <2>4
<1>13. ASSUME NEW x \in new PROVE \E j \in 1..(L + M) : grown[j] = x
  <2>1. CASE x \in old
    <3>1. PICK j \in 1..L : place[j] = x
      BY <1>2, <2>1
    <3>2. j \in 1..(L + M) /\ j <= L
      BY <1>3, <1>4, <3>1
    <3> QED
      BY <1>10, <3>1, <3>2
  <2>2. CASE x \notin old
    <3>1. PICK k \in 1..M : x = <<n, k>>
      BY <1>7, <2>2
    <3>2. L + k \in 1..(L + M) /\ ~(L + k <= L) /\ (L + k) - L = k
      BY <1>3, <1>4
    <3>3. grown[L + k] = x
      BY <1>10, <3>1, <3>2
    <3> QED
      BY <3>2, <3>3
  <2> QED
    BY <2>1, <2>2
<1>14. grown \in Bijection(1..Len(t), new)
  BY <1>6, <1>11, <1>12, <1>13 DEF Bijection, Injection, Surjection, IsInjective
<1>15. Holds(t, seqs, new)
  BY <1>6, <1>10, <1>14 DEF Holds
<1> QED
  BY <1>5, <1>15 DEF new

\* Flattening keeps each element of each sequence once.
LEMMA FlattenPlaces ==
  ASSUME NEW S, NEW seqs \in Seq(Seq(S))
  PROVE  FlattenSeq(seqs) \in Seq(S) /\ Holds(FlattenSeq(seqs), seqs, Blocks(seqs))
<1>1. PICK f \in [0..Len(seqs) -> Seq(S)] :
         /\ f[0] = <<>> /\ \A n \in 1..Len(seqs) : f[n] = f[n - 1] \o seqs[n]
         /\ FlattenSeq(seqs) = f[Len(seqs)]
  BY FlattenedUpto
<1>2. Len(seqs) \in Nat /\ DOMAIN seqs = 1..Len(seqs)
  BY LenProperties
<1> DEFINE held == {n \in 0..Len(seqs) : Holds(f[n], seqs, FirstBlocks(seqs, n))}
<1>3. 0 \in held
  <2>1. FirstBlocks(seqs, 0) = {}
    <3> SUFFICES ASSUME NEW x \in FirstBlocks(seqs, 0) PROVE FALSE
      OBVIOUS
    <3>1. x[1] <= 0 /\ x[1] \in 1..Len(seqs)
      BY <1>2, BlocksAre DEF FirstBlocks
    <3> QED
      BY <1>2, <3>1
  <2>2. f[0] = <<>> /\ Len(<<>>) = 0 /\ 1..0 = {}
    BY <1>1
  <2>3. [j \in {} |-> 0] \in Bijection({}, {})
    BY DEF Bijection, Injection, Surjection, IsInjective
  <2>4. Holds(f[0], seqs, FirstBlocks(seqs, 0))
    BY <2>1, <2>2, <2>3 DEF Holds
  <2> QED
    BY <1>2, <2>4
<1>4. ASSUME NEW n \in 1..Len(seqs), n - 1 \in held PROVE n \in held
  <2>1. n - 1 \in 0..Len(seqs) /\ n \in 0..Len(seqs) /\ Holds(f[n - 1], seqs, FirstBlocks(seqs, n - 1))
    BY <1>2, <1>4
  <2>2. f[n - 1] \in Seq(S) /\ f[n] = f[n - 1] \o seqs[n]
    BY <1>1, <2>1
  <2>3. Holds(f[n], seqs, FirstBlocks(seqs, n))
    BY <2>1, <2>2, OneBlockMore
  <2> QED
    BY <2>1, <2>3
<1>5. \A n \in 0..Len(seqs) : n \in held
  <2> HIDE DEF held
  <2> QED
    BY <1>2, <1>3, <1>4, Stepwise
<1>6. Len(seqs) \in 0..Len(seqs)
  BY <1>2
<1>7. Holds(f[Len(seqs)], seqs, FirstBlocks(seqs, Len(seqs))) /\ f[Len(seqs)] \in Seq(S)
  BY <1>5, <1>6
<1>8. FirstBlocks(seqs, Len(seqs)) = Blocks(seqs)
  <2>1. \A x \in Blocks(seqs) : x[1] <= Len(seqs)
    BY <1>2, BlocksAre
  <2> QED
    BY <2>1 DEF FirstBlocks
<1> QED
  BY <1>1, <1>7, <1>8
-----------------------------------------------------------------------------
(* The order of records. *)

Known == Values \cup {MISSING}

LEMMA FieldsKnown ==
  ASSUME NEW r, IsRecord(r), NEW f
  PROVE  FieldValue(r, f) \in Known
BY DEF IsRecord, FieldValue, Known

LEMMA RecordText ==
  ASSUME NEW r, IsRecord(r)
  PROVE  JsonRecord(r) \in Seq(Nat) /\ JsonRecord(r) \in Seq(Int)
<1> DEFINE all == [i \in DOMAIN Alphabet |-> i]
           at == {i \in DOMAIN Alphabet : Alphabet[i] \in DOMAIN r}
           fields == Those(all, at)
           Entry(i) == (IF i = 1 THEN <<>> ELSE <<44>>) \o <<fields[i], 58>>
                       \o JsonValue(r[Alphabet[fields[i]]])
           entries == [i \in DOMAIN fields |-> Entry(i)]
<1>1. DOMAIN Alphabet = 1..Len(Alphabet) /\ Len(Alphabet) \in Nat
  BY AlphabetAssumption, LenProperties
<1>2. all \in Seq(Nat) /\ at \in SUBSET DOMAIN all
  BY <1>1
<1>3. \A i \in at : all[i] = i /\ i \in Nat /\ r[Alphabet[i]] \in Values
  BY <1>1 DEF IsRecord
<1>4. /\ fields \in Seq(Nat)
      /\ \A n \in DOMAIN fields : \E i \in at : fields[n] = all[i]
  <2> HIDE DEF all, at
  <2> QED
    BY <1>2, ThoseAre
<1> HIDE DEF all, at, fields
<1>5. ASSUME NEW n \in DOMAIN fields PROVE Entry(n) \in Seq(Nat)
  <2>1. PICK i \in at : fields[n] = i
    BY <1>3, <1>4
  <2>2. fields[n] \in Nat /\ JsonValue(r[Alphabet[fields[n]]]) \in Seq(Nat)
    BY <1>3, <2>1, JsonStart
  <2>3. PICK comma \in Seq(Nat) : comma = IF n = 1 THEN <<>> ELSE <<44>>
    <3>1. <<>> \in Seq(Nat) /\ <<44>> \in Seq(Nat)
      OBVIOUS
    <3> QED
      BY <3>1, Zenon
  <2>4. PICK name \in Seq(Nat) : name = <<fields[n], 58>>
    <3>1. \A c \in Nat : <<c, 58>> \in Seq(Nat)
      OBVIOUS
    <3> QED
      BY <2>2, <3>1, Zenon
  <2>5. comma \o name \in Seq(Nat)
    BY ConcatProperties
  <2>6. comma \o name \o JsonValue(r[Alphabet[fields[n]]]) \in Seq(Nat)
    BY <2>2, <2>5, ConcatProperties
  <2> QED
    BY <2>3, <2>4, <2>6
<1>6. entries \in Seq(Seq(Nat))
  <2>1. DOMAIN fields = 1..Len(fields) /\ Len(fields) \in Nat
    BY <1>4
  <2> QED
    BY <1>5, <2>1
<1>7. FlattenSeq(entries) \in Seq(Nat)
  <2> HIDE DEF entries
  <2> QED
    BY <1>6, FlattenPlaces
<1>8. JsonRecord(r) = <<123>> \o FlattenSeq(entries) \o <<125>>
  BY DEF JsonRecord, all, at, fields
<1>9. <<123>> \in Seq(Nat) /\ <<125>> \in Seq(Nat)
  OBVIOUS
<1> HIDE DEF entries
<1>10. <<123>> \o FlattenSeq(entries) \in Seq(Nat)
  BY <1>7, <1>9, ConcatProperties
<1>11. <<123>> \o FlattenSeq(entries) \o <<125>> \in Seq(Nat)
  BY <1>9, <1>10, ConcatProperties
<1>12. \A s \in Seq(Nat) : s \in Seq(Int)
  OBVIOUS
<1> QED
  BY <1>8, <1>11, <1>12

\* The comparison of two fields, absent ones included, is that of a total order.
LEMMA KnownValues ==
  ASSUME NEW x \in Known, ~IsAbsent(x)
  PROVE  x \in Present
BY DEF Known, Present, IsAbsent, MISSING, Value

LEMMA AbsentValues ==
  ASSUME NEW x, NEW y, NEW sort
  PROVE  /\ IsAbsent(x) /\ IsAbsent(y) => CompareValues(x, y, sort) = 0
         /\ IsAbsent(x) /\ ~IsAbsent(y) =>
              CompareValues(x, y, sort) = IF sort.nulls = "first" THEN -1 ELSE 1
         /\ ~IsAbsent(x) /\ IsAbsent(y) =>
              CompareValues(x, y, sort) = IF sort.nulls = "first" THEN 1 ELSE -1
<1>1. IsAbsent(x) \in BOOLEAN
  BY DEF IsAbsent
<1>2. CASE IsAbsent(x)
  <2>1. IsAbsent(x) = TRUE
    BY <1>1, <1>2
  <2> QED
    BY <1>2, <2>1 DEF CompareValues
<1>3. CASE ~IsAbsent(x)
  <2>1. IsAbsent(x) = FALSE
    BY <1>1, <1>3
  <2>2. CASE sort.nulls = "first"
    BY <1>3, <2>1, <2>2 DEF CompareValues
  <2>3. CASE sort.nulls # "first"
    BY <1>3, <2>1, <2>3 DEF CompareValues
  <2> QED
    BY <2>2, <2>3
<1> QED
  BY <1>2, <1>3

LEMMA ValuesCompared ==
  ASSUME NEW x \in Known, NEW y \in Known, NEW sort
  PROVE  /\ CompareValues(x, y, sort) \in {-1, 0, 1}
         /\ CompareValues(y, x, sort) = -CompareValues(x, y, sort)
<1>1. CASE IsAbsent(x) \/ IsAbsent(y)
  <2>1. CASE IsAbsent(x) /\ IsAbsent(y)
    <3>1. CompareValues(x, y, sort) = 0 /\ CompareValues(y, x, sort) = 0
      BY <2>1, AbsentValues
    <3>2. \A c, d \in Int : c + d = 0 => d = -c
      OBVIOUS
    <3>3. 0 \in Int /\ 0 + 0 = 0 /\ 0 \in {-1, 0, 1}
      OBVIOUS
    <3>4. 0 = -0
      BY <3>2, <3>3, Zenon
    <3> QED
      BY <3>1, <3>3, <3>4, Zenon
  <2>2. CASE IsAbsent(x) /\ ~IsAbsent(y)
    <3>1. /\ CompareValues(x, y, sort) = IF sort.nulls = "first" THEN -1 ELSE 1
          /\ CompareValues(y, x, sort) = IF sort.nulls = "first" THEN 1 ELSE -1
      BY <2>2, AbsentValues
    <3> QED
      BY <3>1
  <2>3. CASE ~IsAbsent(x) /\ IsAbsent(y)
    <3>1. /\ CompareValues(x, y, sort) = IF sort.nulls = "first" THEN 1 ELSE -1
          /\ CompareValues(y, x, sort) = IF sort.nulls = "first" THEN -1 ELSE 1
      BY <2>3, AbsentValues
    <3> QED
      BY <3>1
  <2> QED
    BY <1>1, <2>1, <2>2, <2>3
<1>2. CASE ~IsAbsent(x) /\ ~IsAbsent(y)
  <2>1. x \in Present /\ y \in Present
    BY <1>2, KnownValues
  <2>2. PICK c, d : c = CompareKinds(x, y) /\ d = CompareKinds(y, x)
    OBVIOUS
  <2>3. c \in {-1, 0, 1} /\ d = -c
    BY <2>1, <2>2, KindsCompared
  <2>4. /\ CompareValues(x, y, sort) = IF sort.direction = "ascending" THEN c ELSE -c
        /\ CompareValues(y, x, sort) = IF sort.direction = "ascending" THEN d ELSE -d
    BY <1>2, <2>2 DEF CompareValues
  <2> QED
    BY <2>3, <2>4
<1> QED
  BY <1>1, <1>2

LEMMA ValuesInTurn ==
  ASSUME NEW x \in Known, NEW y \in Known, NEW z \in Known, NEW sort,
         CompareValues(x, y, sort) <= 0, CompareValues(y, z, sort) <= 0
  PROVE  CompareValues(x, z, sort) <= 0
<1>1. CASE ~IsAbsent(x) /\ ~IsAbsent(y) /\ ~IsAbsent(z)
  <2>1. x \in Present /\ y \in Present /\ z \in Present
    BY <1>1, KnownValues
  <2>2. PICK a, b, c : a = CompareKinds(x, y) /\ b = CompareKinds(y, z) /\ c = CompareKinds(x, z)
    OBVIOUS
  <2>3. a \in {-1, 0, 1} /\ b \in {-1, 0, 1} /\ c \in {-1, 0, 1}
    BY <2>1, <2>2, KindsCompared
  <2>4. /\ CompareKinds(y, x) = -a /\ CompareKinds(z, y) = -b /\ CompareKinds(z, x) = -c
    BY <2>1, <2>2, KindsCompared
  <2>5. a <= 0 /\ b <= 0 => c <= 0
    BY <2>1, <2>2, KindsInTurn
  <2>6. -b <= 0 /\ -a <= 0 => -c <= 0
    BY <2>1, <2>4, KindsInTurn
  <2>7. /\ CompareValues(x, y, sort) = IF sort.direction = "ascending" THEN a ELSE -a
        /\ CompareValues(y, z, sort) = IF sort.direction = "ascending" THEN b ELSE -b
        /\ CompareValues(x, z, sort) = IF sort.direction = "ascending" THEN c ELSE -c
    BY <1>1, <2>2 DEF CompareValues
  <2> QED
    BY <2>3, <2>5, <2>6, <2>7
<1>2. CASE IsAbsent(x) \/ IsAbsent(y) \/ IsAbsent(z)
  <2>1. CASE IsAbsent(x) /\ IsAbsent(z)
    <3>1. CompareValues(x, z, sort) = 0
      BY <2>1, AbsentValues
    <3> QED
      BY <3>1
  <2>2. CASE IsAbsent(x) /\ ~IsAbsent(z)
    <3>1. CASE sort.nulls = "first"
      <4>1. CompareValues(x, z, sort) = -1
        BY <2>2, <3>1, AbsentValues
      <4> QED
        BY <4>1
    <3>2. CASE sort.nulls # "first"
      <4>1. IsAbsent(y) => CompareValues(y, z, sort) = 1
        BY <2>2, <3>2, AbsentValues
      <4>2. ~IsAbsent(y) => CompareValues(x, y, sort) = 1
        BY <2>2, <3>2, AbsentValues
      <4> QED
        BY <4>1, <4>2
    <3> QED
      BY <3>1, <3>2
  <2>3. CASE ~IsAbsent(x) /\ IsAbsent(z)
    <3>1. CASE sort.nulls # "first"
      <4>1. CompareValues(x, z, sort) = -1
        BY <2>3, <3>1, AbsentValues
      <4> QED
        BY <4>1
    <3>2. CASE sort.nulls = "first"
      <4>1. IsAbsent(y) => CompareValues(x, y, sort) = 1
        BY <2>3, <3>2, AbsentValues
      <4>2. ~IsAbsent(y) => CompareValues(y, z, sort) = 1
        BY <2>3, <3>2, AbsentValues
      <4> QED
        BY <4>1, <4>2
    <3> QED
      BY <3>1, <3>2
  <2>4. CASE ~IsAbsent(x) /\ ~IsAbsent(z)
    <3>1. CASE sort.nulls = "first"
      <4>1. CompareValues(x, y, sort) = 1
        BY <1>2, <2>4, <3>1, AbsentValues
      <4> QED
        BY <4>1
    <3>2. CASE sort.nulls # "first"
      <4>1. CompareValues(y, z, sort) = 1
        BY <1>2, <2>4, <3>2, AbsentValues
      <4> QED
        BY <4>1
    <3> QED
      BY <3>1, <3>2
  <2> QED
    BY <2>1, <2>2, <2>3, <2>4
<1> QED
  BY <1>1, <1>2

\* The comparison of two records by one criterion; the first that tells them apart decides.
Criterion(r, s, order, i) ==
  CompareValues(FieldValue(r, order[i].field), FieldValue(s, order[i].field), order[i])
Alike(r, s, order) == \A i \in DOMAIN order : Criterion(r, s, order, i) = 0
FirstApart(r, s, order, m) ==
  /\ m \in DOMAIN order /\ Criterion(r, s, order, m) # 0
  /\ \A k \in DOMAIN order : k < m => Criterion(r, s, order, k) = 0

LEMMA Decision ==
  ASSUME NEW r, NEW s, NEW T, NEW order \in Seq(T)
  PROVE  /\ Alike(r, s, order) =>
              CompareRecords(r, s, order) = CompareTexts(JsonRecord(r), JsonRecord(s))
         /\ \A m : FirstApart(r, s, order, m) =>
              CompareRecords(r, s, order) = Criterion(r, s, order, m)
<1> DEFINE deciding == {i \in DOMAIN order : Criterion(r, s, order, i) # 0}
<1>1. CompareRecords(r, s, order) =
        IF deciding # {} THEN Criterion(r, s, order, Min(deciding))
        ELSE CompareTexts(JsonRecord(r), JsonRecord(s))
  BY DEF CompareRecords, Criterion
<1>2. CASE Alike(r, s, order)
  <2>1. deciding = {}
    BY <1>2 DEF Alike
  <2>2. ~\E m : FirstApart(r, s, order, m)
    BY <1>2 DEF Alike, FirstApart
  <2> QED
    BY <1>1, <2>1, <2>2
<1>3. ASSUME NEW m, FirstApart(r, s, order, m)
      PROVE  CompareRecords(r, s, order) = Criterion(r, s, order, m)
  <2>1. m \in deciding /\ \A k \in deciding : ~(k < m)
    BY <1>3 DEF FirstApart
  <2>2. \A k \in deciding : k \in Nat
    <3>1. DOMAIN order = 1..Len(order)
      OBVIOUS
    <3> QED
      BY <3>1
  <2> HIDE DEF deciding
  <2>3. \A k \in deciding : m <= k
    BY <2>1, <2>2
  <2>4. Min(deciding) = m
    <3>1. \E x \in deciding : \A k \in deciding : x <= k
      BY <2>1, <2>3
    <3>2. Min(deciding) \in deciding /\ \A k \in deciding : Min(deciding) <= k
      BY <3>1, Zenon DEF Min
    <3>3. Min(deciding) <= m /\ m <= Min(deciding) /\ Min(deciding) \in Nat /\ m \in Nat
      BY <2>1, <2>2, <2>3, <3>2
    <3> QED
      BY <3>3
  <2> QED
    BY <1>1, <2>1, <2>4
<1>4. Alike(r, s, order) => ~\E m : FirstApart(r, s, order, m)
  BY DEF Alike, FirstApart
<1> QED
  BY <1>2, <1>3

LEMMA CriteriaCompared ==
  ASSUME NEW r, NEW s, IsRecord(r), IsRecord(s), NEW order, NEW i
  PROVE  /\ Criterion(r, s, order, i) \in {-1, 0, 1}
         /\ Criterion(s, r, order, i) = -Criterion(r, s, order, i)
BY FieldsKnown, ValuesCompared DEF Criterion

LEMMA CriteriaInTurn ==
  ASSUME NEW r, NEW s, NEW t, IsRecord(r), IsRecord(s), IsRecord(t), NEW order, NEW i,
         Criterion(r, s, order, i) <= 0, Criterion(s, t, order, i) <= 0
  PROVE  /\ Criterion(r, t, order, i) <= 0
         /\ Criterion(r, t, order, i) = 0 =>
              Criterion(r, s, order, i) = 0 /\ Criterion(s, t, order, i) = 0
<1>1. \A x, y, z \in {r, s, t} :
         Criterion(x, y, order, i) <= 0 /\ Criterion(y, z, order, i) <= 0 =>
           Criterion(x, z, order, i) <= 0
  BY FieldsKnown, ValuesInTurn DEF Criterion
<1>2. \A x, y \in {r, s, t} :
         /\ Criterion(x, y, order, i) \in {-1, 0, 1}
         /\ Criterion(y, x, order, i) = -Criterion(x, y, order, i)
  BY CriteriaCompared
<1>3. ASSUME NEW c \in {-1, 0, 1} PROVE c <= 0 /\ -c <= 0 => c = 0
  OBVIOUS
<1>4. Criterion(r, t, order, i) <= 0
  BY <1>1
<1>5. ASSUME Criterion(r, t, order, i) = 0
      PROVE  Criterion(r, s, order, i) = 0 /\ Criterion(s, t, order, i) = 0
  <2>1. Criterion(t, r, order, i) <= 0
    <3>1. PICK c \in Int : c = Criterion(r, t, order, i) /\ c = 0
      BY <1>5
    <3>2. -c <= 0
      BY <3>1
    <3> QED
      BY <1>2, <3>1, <3>2
  <2>2. Criterion(t, s, order, i) <= 0 /\ Criterion(s, r, order, i) <= 0
    BY <1>1, <2>1
  <2>3. Criterion(t, s, order, i) = -Criterion(s, t, order, i)
    BY <1>2
  <2>4. Criterion(s, r, order, i) = -Criterion(r, s, order, i)
    BY <1>2
  <2> QED
    BY <1>2, <1>3, <2>2, <2>3, <2>4
<1> QED
  BY <1>4, <1>5

LEMMA SomeApart ==
  ASSUME NEW r, NEW s, NEW T, NEW order \in Seq(T), ~Alike(r, s, order)
  PROVE  \E m : FirstApart(r, s, order, m)
<1> DEFINE deciding == {i \in DOMAIN order : Criterion(r, s, order, i) # 0}
<1>1. deciding # {} /\ deciding \in SUBSET Nat
  <2>1. DOMAIN order \in SUBSET Nat
    OBVIOUS
  <2> QED
    BY <2>1 DEF Alike
<1>2. PICK m \in deciding : \A k \in deciding : m <= k
  <2> HIDE DEF deciding
  <2> QED
    BY <1>1, Least
<1>3. \A k \in DOMAIN order : k < m => k \notin deciding
  <2> SUFFICES ASSUME NEW k \in DOMAIN order, k < m, k \in deciding PROVE FALSE
    OBVIOUS
  <2>1. k \in Nat /\ m \in Nat /\ m <= k
    BY <1>1, <1>2
  <2> QED
    BY <2>1
<1> QED
  BY <1>2, <1>3 DEF FirstApart

\* The comparison of records is that of a total order of their criteria and their texts.
LEMMA RecordsCompared ==
  ASSUME NEW r, NEW s, IsRecord(r), IsRecord(s), NEW T, NEW order \in Seq(T)
  PROVE  /\ CompareRecords(r, s, order) \in {-1, 0, 1}
         /\ CompareRecords(s, r, order) = -CompareRecords(r, s, order)
         /\ CompareRecords(r, s, order) = 0 =>
              JsonRecord(r) = JsonRecord(s) /\ Alike(r, s, order)
<1>1. /\ \A i : Criterion(r, s, order, i) \in {-1, 0, 1}
      /\ \A i : Criterion(s, r, order, i) = -Criterion(r, s, order, i)
  BY CriteriaCompared
<1>2. \A i : Criterion(r, s, order, i) = 0 <=> Criterion(s, r, order, i) = 0
  <2> SUFFICES ASSUME NEW i PROVE Criterion(r, s, order, i) = 0 <=> Criterion(s, r, order, i) = 0
    OBVIOUS
  <2>1. PICK c, d : c = Criterion(r, s, order, i) /\ d = Criterion(s, r, order, i)
    OBVIOUS
  <2>2. c \in {-1, 0, 1} /\ d = -c
    BY <1>1, <2>1
  <2>3. c = 0 <=> d = 0
    BY <2>2
  <2> QED
    BY <2>1, <2>3
<1>3. CASE Alike(r, s, order)
  <2>1. Alike(s, r, order)
    BY <1>2, <1>3 DEF Alike
  <2>2. /\ CompareRecords(r, s, order) = CompareTexts(JsonRecord(r), JsonRecord(s))
        /\ CompareRecords(s, r, order) = CompareTexts(JsonRecord(s), JsonRecord(r))
    BY <1>3, <2>1, Decision
  <2>3. JsonRecord(r) \in Seq(Int) /\ JsonRecord(s) \in Seq(Int)
    BY RecordText
  <2> QED
    BY <1>3, <2>2, <2>3, TextsCompared
<1>4. CASE ~Alike(r, s, order)
  <2>1. PICK m : FirstApart(r, s, order, m)
    BY <1>4, SomeApart
  <2>2. FirstApart(s, r, order, m)
    BY <1>2, <2>1 DEF FirstApart
  <2>3. /\ CompareRecords(r, s, order) = Criterion(r, s, order, m)
        /\ CompareRecords(s, r, order) = Criterion(s, r, order, m)
    BY <2>1, <2>2, Decision
  <2> QED
    BY <1>1, <2>1, <2>3 DEF FirstApart
<1> QED
  BY <1>3, <1>4

LEMMA RecordsInTurn ==
  ASSUME NEW r, NEW s, NEW t, IsRecord(r), IsRecord(s), IsRecord(t), NEW T, NEW order \in Seq(T),
         CompareRecords(r, s, order) <= 0, CompareRecords(s, t, order) <= 0
  PROVE  CompareRecords(r, t, order) <= 0
<1> DEFINE apart == {i \in DOMAIN order : Criterion(r, s, order, i) # 0 \/ Criterion(s, t, order, i) # 0}
<1>1. CASE apart = {}
  <2>1. \A i \in DOMAIN order : Criterion(r, s, order, i) = 0 /\ Criterion(s, t, order, i) = 0
    BY <1>1
  <2>2. Alike(r, s, order) /\ Alike(s, t, order)
    BY <2>1 DEF Alike
  <2>3. Alike(r, t, order)
    <3> SUFFICES ASSUME NEW i \in DOMAIN order PROVE Criterion(r, t, order, i) = 0
      BY DEF Alike
    <3>1. Criterion(r, s, order, i) <= 0 /\ Criterion(s, t, order, i) <= 0
      BY <2>1
    <3>2. Criterion(t, s, order, i) <= 0 /\ Criterion(s, r, order, i) <= 0
      <4>1. \A c \in Int : c = 0 => -c <= 0
        OBVIOUS
      <4>2. /\ Criterion(t, s, order, i) = -Criterion(s, t, order, i)
            /\ Criterion(s, r, order, i) = -Criterion(r, s, order, i)
        BY CriteriaCompared
      <4>3. 0 \in Int
        OBVIOUS
      <4> QED
        BY <2>1, <4>1, <4>2, <4>3, Zenon
    <3>3. Criterion(r, t, order, i) <= 0 /\ Criterion(t, r, order, i) <= 0
      BY <3>1, <3>2, CriteriaInTurn
    <3>4. /\ Criterion(r, t, order, i) \in {-1, 0, 1}
          /\ Criterion(t, r, order, i) = -Criterion(r, t, order, i)
      BY CriteriaCompared
    <3> QED
      BY <3>3, <3>4
  <2>4. /\ CompareRecords(r, s, order) = CompareTexts(JsonRecord(r), JsonRecord(s))
        /\ CompareRecords(s, t, order) = CompareTexts(JsonRecord(s), JsonRecord(t))
        /\ CompareRecords(r, t, order) = CompareTexts(JsonRecord(r), JsonRecord(t))
    BY <2>2, <2>3, Decision
  <2>5. JsonRecord(r) \in Seq(Int) /\ JsonRecord(s) \in Seq(Int) /\ JsonRecord(t) \in Seq(Int)
    BY RecordText
  <2>6. /\ CompareTexts(JsonRecord(r), JsonRecord(s)) <= 0
        /\ CompareTexts(JsonRecord(s), JsonRecord(t)) <= 0
    BY <2>4
  <2>7. CompareTexts(JsonRecord(r), JsonRecord(t)) <= 0
    BY <2>5, <2>6, TextsCompared
  <2>8. PICK c : c = CompareRecords(r, t, order) /\ c = CompareTexts(JsonRecord(r), JsonRecord(t))
    BY <2>4
  <2>9. c <= 0
    BY <2>7, <2>8
  <2> QED
    BY <2>8, <2>9
<1>2. CASE apart # {}
  <2>1. PICK m \in apart : \A k \in apart : m <= k
    <3>1. apart \in SUBSET Nat
      <4>1. DOMAIN order \in SUBSET Nat
        OBVIOUS
      <4> QED
        BY <4>1
    <3> HIDE DEF apart
    <3> QED
      BY <1>2, <3>1, Least
  <2>2. \A k \in DOMAIN order : k < m => k \notin apart
    <3> SUFFICES ASSUME NEW k \in DOMAIN order, k < m, k \in apart PROVE FALSE
      OBVIOUS
    <3>1. DOMAIN order \in SUBSET Nat /\ m \in DOMAIN order
      OBVIOUS
    <3>2. k \in Nat /\ m \in Nat /\ m <= k
      BY <2>1, <3>1
    <3> QED
      BY <3>2
  <2>3. \A k \in DOMAIN order : k < m =>
          Criterion(r, s, order, k) = 0 /\ Criterion(s, t, order, k) = 0
    BY <2>2
  <2>4. m \in DOMAIN order /\ (Criterion(r, s, order, m) # 0 \/ Criterion(s, t, order, m) # 0)
    OBVIOUS
  <2> HIDE DEF apart
  <2>5. Criterion(r, s, order, m) <= 0
    <3>1. CASE Criterion(r, s, order, m) # 0
      <4>1. FirstApart(r, s, order, m)
        BY <2>3, <2>4, <3>1 DEF FirstApart
      <4> QED
        BY <4>1, Decision
    <3> QED
      BY <3>1
  <2>6. Criterion(s, t, order, m) <= 0
    <3>1. CASE Criterion(s, t, order, m) # 0
      <4>1. FirstApart(s, t, order, m)
        BY <2>3, <2>4, <3>1 DEF FirstApart
      <4> QED
        BY <4>1, Decision
    <3> QED
      BY <3>1
  <2>7. Criterion(r, t, order, m) <= 0 /\ Criterion(r, t, order, m) # 0
    BY <2>4, <2>5, <2>6, CriteriaInTurn
  <2>8. ASSUME NEW k \in DOMAIN order, k < m PROVE Criterion(r, t, order, k) = 0
    <3>1. Criterion(r, s, order, k) = 0 /\ Criterion(s, t, order, k) = 0
      BY <2>3, <2>8
    <3>2. \A c \in Int : c = 0 => c <= 0 /\ -c <= 0
      OBVIOUS
    <3>3. /\ Criterion(t, s, order, k) = -Criterion(s, t, order, k)
          /\ Criterion(s, r, order, k) = -Criterion(r, s, order, k)
      BY CriteriaCompared
    <3>4. 0 \in Int
      OBVIOUS
    <3>5. /\ Criterion(r, s, order, k) <= 0 /\ Criterion(s, t, order, k) <= 0
          /\ Criterion(t, s, order, k) <= 0 /\ Criterion(s, r, order, k) <= 0
      BY <3>1, <3>2, <3>3, <3>4, Zenon
    <3>6. Criterion(r, t, order, k) <= 0 /\ Criterion(t, r, order, k) <= 0
      BY <3>5, CriteriaInTurn
    <3>7. /\ Criterion(r, t, order, k) \in {-1, 0, 1}
          /\ Criterion(t, r, order, k) = -Criterion(r, t, order, k)
      BY CriteriaCompared
    <3> QED
      BY <3>6, <3>7
  <2>9. FirstApart(r, t, order, m)
    BY <2>4, <2>7, <2>8 DEF FirstApart
  <2>10. PICK c : c = CompareRecords(r, t, order) /\ c = Criterion(r, t, order, m)
    BY <2>9, Decision
  <2>11. c <= 0
    BY <2>7, <2>10
  <2> QED
    BY <2>10, <2>11
<1> QED
  BY <1>1, <1>2

\* What a record precedes, strictly or not.
LEMMA RecordsStrict ==
  ASSUME NEW r, NEW s, NEW t, IsRecord(r), IsRecord(s), IsRecord(t), NEW T, NEW order \in Seq(T),
         CompareRecords(r, s, order) <= 0, CompareRecords(s, t, order) <= 0
  PROVE  CompareRecords(r, t, order) = 0 =>
           CompareRecords(r, s, order) = 0 /\ CompareRecords(s, t, order) = 0
<1> SUFFICES ASSUME CompareRecords(r, t, order) = 0
             PROVE  CompareRecords(r, s, order) = 0 /\ CompareRecords(s, t, order) = 0
  OBVIOUS
<1>1. \A x, y \in {r, s, t} :
         /\ CompareRecords(x, y, order) \in {-1, 0, 1}
         /\ CompareRecords(y, x, order) = -CompareRecords(x, y, order)
  BY RecordsCompared
<1>2. CompareRecords(t, r, order) <= 0
  <2>1. \A c \in Int : c = 0 => -c <= 0
    OBVIOUS
  <2>2. CompareRecords(t, r, order) = -CompareRecords(r, t, order)
    BY <1>1
  <2>3. 0 \in Int
    OBVIOUS
  <2> QED
    BY <2>1, <2>2, <2>3, Zenon
<1>3. CompareRecords(t, s, order) <= 0 /\ CompareRecords(s, r, order) <= 0
  BY <1>2, RecordsInTurn
<1>4. ASSUME NEW c \in {-1, 0, 1} PROVE c <= 0 /\ -c <= 0 => c = 0
  OBVIOUS
<1>5. /\ CompareRecords(t, s, order) = -CompareRecords(s, t, order)
      /\ CompareRecords(s, r, order) = -CompareRecords(r, s, order)
  BY <1>1
<1> QED
  BY <1>1, <1>3, <1>4, <1>5

\* The order in which top_k_records lists its records.
LEMMA PrecedencePairs ==
  ASSUME NEW records, NEW order, NEW i \in DOMAIN records, NEW j \in DOMAIN records
  PROVE  <<i, j>> \in Precedence(records, order) <=> Precedes(records, order, i, j)
<1>1. \A S : \A x, y \in S : <<x, y>> \in S \X S
  OBVIOUS
<1>2. <<i, j>> \in (DOMAIN records) \X (DOMAIN records)
  BY <1>1
<1>3. <<i, j>>[1] = i /\ <<i, j>>[2] = j
  OBVIOUS
<1>4. PICK p \in (DOMAIN records) \X (DOMAIN records) : p = <<i, j>> /\ p[1] = i /\ p[2] = j
  BY <1>2, <1>3, Zenon
<1>5. p \in Precedence(records, order) <=> Precedes(records, order, p[1], p[2])
  BY Zenon DEF Precedence
<1> QED
  BY <1>4, <1>5

LEMMA PrecedenceOrders ==
  ASSUME NEW S, NEW records \in Seq(S), \A i \in DOMAIN records : IsRecord(records[i]),
         NEW T, NEW order \in Seq(T)
  PROVE  Orders(Precedence(records, order), DOMAIN records)
<1> DEFINE C(i, j) == CompareRecords(records[i], records[j], order)
<1>1. \A i \in DOMAIN records : i \in Nat
  <2>1. DOMAIN records = 1..Len(records)
    OBVIOUS
  <2> QED
    BY <2>1
<1>2. \A i, j \in DOMAIN records : C(i, j) \in {-1, 0, 1} /\ C(j, i) = -C(i, j)
  BY RecordsCompared
<1>3. \A i, j, k \in DOMAIN records :
         C(i, j) <= 0 /\ C(j, k) <= 0 =>
           C(i, k) <= 0 /\ (C(i, k) = 0 => C(i, j) = 0 /\ C(j, k) = 0)
  BY RecordsInTurn, RecordsStrict
<1>4. \A i, j \in DOMAIN records :
         <<i, j>> \in Precedence(records, order) <=> C(i, j) < 0 \/ (C(i, j) = 0 /\ i < j)
  BY PrecedencePairs DEF Precedes
<1> HIDE DEF C
<1>5. ASSUME NEW i \in DOMAIN records PROVE <<i, i>> \notin Precedence(records, order)
  <2>1. C(i, i) \in {-1, 0, 1} /\ C(i, i) = -C(i, i)
    BY <1>2
  <2>2. C(i, i) = 0 /\ ~(i < i)
    BY <1>1, <2>1
  <2>3. ~(C(i, i) < 0)
    BY <2>2
  <2> QED
    BY <1>4, <2>2, <2>3
<1>6. ASSUME NEW i \in DOMAIN records, NEW j \in DOMAIN records, i # j
      PROVE  <<i, j>> \in Precedence(records, order) \/ <<j, i>> \in Precedence(records, order)
  <2>1. PICK c, d : c = C(i, j) /\ d = C(j, i)
    OBVIOUS
  <2>2. c \in {-1, 0, 1} /\ d = -c
    BY <1>2, <2>1
  <2>3. i < j \/ j < i
    BY <1>1, <1>6
  <2>4. c < 0 \/ d < 0 \/ (c = 0 /\ d = 0)
    BY <2>2
  <2> QED
    BY <1>4, <2>1, <2>3, <2>4
<1>7. ASSUME NEW i \in DOMAIN records, NEW j \in DOMAIN records, NEW k \in DOMAIN records,
             <<i, j>> \in Precedence(records, order), <<j, k>> \in Precedence(records, order)
      PROVE  <<i, k>> \in Precedence(records, order)
  <2>1. C(i, j) \in {-1, 0, 1} /\ C(j, k) \in {-1, 0, 1} /\ C(i, k) \in {-1, 0, 1}
    BY <1>2
  <2>2. /\ C(i, j) < 0 \/ (C(i, j) = 0 /\ i < j)
        /\ C(j, k) < 0 \/ (C(j, k) = 0 /\ j < k)
    BY <1>4, <1>7
  <2>3. C(i, j) <= 0 /\ C(j, k) <= 0
    BY <2>1, <2>2
  <2>4. C(i, k) <= 0 /\ (C(i, k) = 0 => C(i, j) = 0 /\ C(j, k) = 0)
    BY <1>3, <2>3
  <2>5. C(i, k) = 0 => i < k
    BY <1>1, <2>2, <2>4
  <2> QED
    BY <1>4, <2>1, <2>4, <2>5
<1> QED
  BY <1>5, <1>6, <1>7 DEF Orders

\* The rows of top_k_records: the first `limit` in the order of precedence.
LEMMA TopKAre ==
  ASSUME NEW S, NEW records \in Seq(S), \A i \in DOMAIN records : IsRecord(records[i]),
         NEW T, NEW order \in Seq(T), NEW limit \in Nat
  PROVE  \E place \in Bijection(DOMAIN records, DOMAIN records) :
           /\ \A n \in DOMAIN records :
                Cardinality({i \in DOMAIN records :
                               <<i, place[n]>> \in Precedence(records, order)}) = n - 1
           /\ TopK(records, order, limit) =
                [n \in 1..(IF limit < Len(records) THEN limit ELSE Len(records)) |->
                   records[place[n]]]
<1> DEFINE at == DOMAIN records
           place == Sorted(at, Precedence(records, order))
<1>1. at = 1..Len(records) /\ Len(records) \in Nat
  OBVIOUS
<1>2. IsFiniteSet(at) /\ Cardinality(at) = Len(records)
  <2>1. \A n \in Nat : IsFiniteSet(1..n) /\ Cardinality(1..n) = n
    BY FS_Interval
  <2> QED
    BY <1>1, <2>1, Zenon
<1>3. Orders(Precedence(records, order), at)
  BY PrecedenceOrders
<1> HIDE DEF at
<1>4. /\ place \in Bijection(1..Cardinality(at), at)
      /\ \A n \in 1..Cardinality(at) :
           Cardinality({i \in at : <<i, place[n]>> \in Precedence(records, order)}) = n - 1
  BY <1>2, <1>3, SortedPlaces
<1>5. 1..Cardinality(at) = at
  BY <1>1, <1>2
<1>6. TopK(records, order, limit) =
        [n \in 1..(IF limit < Len(records) THEN limit ELSE Len(records)) |-> records[place[n]]]
  BY Zenon DEF TopK, at
<1> HIDE DEF place
<1> QED
  BY <1>4, <1>5, <1>6 DEF at

\* Rows are records, and each record that fewer than `limit` others precede is
\* among them, as JSON text.
HoldsTheBest(top, records, order, limit) ==
  /\ \A n \in DOMAIN top : \E i \in DOMAIN records : top[n] = records[i]
  /\ \A j \in DOMAIN records :
       Cardinality({i \in DOMAIN records : CompareRecords(records[i], records[j], order) < 0}) < limit =>
         \E n \in DOMAIN top : JsonRecord(top[n]) = JsonRecord(records[j])

\* The rows of top_k_records hold the best of its records, whatever their kinds of
\* values, their order in the files and the criteria.
THEOREM TopKKeepsTheBest ==
  ASSUME NEW S, NEW records \in Seq(S), \A i \in DOMAIN records : IsRecord(records[i]),
         NEW T, NEW order \in Seq(T), NEW limit \in Nat
  PROVE  TopK(records, order, limit) \in Seq(S)
         /\ HoldsTheBest(TopK(records, order, limit), records, order, limit)
<1> DEFINE top == TopK(records, order, limit)
           size == IF limit < Len(records) THEN limit ELSE Len(records)
           C(i, j) == CompareRecords(records[i], records[j], order)
<1>1. PICK place \in Bijection(DOMAIN records, DOMAIN records) :
         /\ \A n \in DOMAIN records :
              Cardinality({i \in DOMAIN records :
                             <<i, place[n]>> \in Precedence(records, order)}) = n - 1
         /\ top = [n \in 1..size |-> records[place[n]]]
  BY TopKAre
<1>2. DOMAIN records = 1..Len(records) /\ Len(records) \in Nat /\ size \in Nat
  OBVIOUS
<1>3. /\ \A n \in DOMAIN records : place[n] \in DOMAIN records
      /\ \A i \in DOMAIN records : \E n \in DOMAIN records : place[n] = i
  BY <1>1 DEF Bijection, Injection, Surjection
<1>4. \A n \in 1..size : n \in DOMAIN records
  BY <1>2
<1>5. \A i \in DOMAIN records : records[i] \in S
  BY <1>2
<1> HIDE DEF top
<1>6. top \in Seq(S) /\ DOMAIN top = 1..size
  <2>1. \A n \in 1..size : records[place[n]] \in S
    BY <1>3, <1>4, <1>5
  <2> HIDE DEF size
  <2> QED
    BY <1>1, <1>2, <2>1
<1>7. \A n \in DOMAIN top : \E i \in DOMAIN records : top[n] = records[i]
  <2> HIDE DEF size
  <2> QED
    BY <1>1, <1>3, <1>4, <1>6
<1>8. ASSUME NEW j \in DOMAIN records,
             Cardinality({i \in DOMAIN records : C(i, j) < 0}) < limit
      PROVE  \E n \in DOMAIN top : JsonRecord(top[n]) = JsonRecord(records[j])
  <2> DEFINE ahead == {i \in DOMAIN records : C(i, j) < 0}
             equal == {i \in DOMAIN records : C(i, j) = 0}
             before(e) == {i \in DOMAIN records : <<i, e>> \in Precedence(records, order)}
  <2>1. \A i, k \in DOMAIN records : C(i, k) \in {-1, 0, 1} /\ C(k, i) = -C(i, k)
    BY RecordsCompared
  <2>2. \A i, k, m \in DOMAIN records :
           C(i, k) <= 0 /\ C(k, m) <= 0 =>
             C(i, m) <= 0 /\ (C(i, m) = 0 => C(i, k) = 0 /\ C(k, m) = 0)
    BY RecordsInTurn, RecordsStrict
  <2>3. \A i \in DOMAIN records : C(i, j) = 0 => JsonRecord(records[i]) = JsonRecord(records[j])
    BY RecordsCompared
  <2> HIDE DEF C
  <2>4. j \in equal /\ equal \in SUBSET Nat
    <3>1. C(j, j) \in {-1, 0, 1} /\ C(j, j) = -C(j, j)
      BY <2>1
    <3>2. C(j, j) = 0
      BY <3>1
    <3> QED
      BY <1>2, <3>2
  <2>5. PICK e \in equal : \A k \in equal : e <= k
    <3> HIDE DEF equal
    <3> QED
      BY <2>4, Least
  <2>6. e \in DOMAIN records /\ C(e, j) = 0
    OBVIOUS
  <2>7. before(e) \in SUBSET ahead
    <3> SUFFICES ASSUME NEW i \in before(e) PROVE i \in DOMAIN records /\ C(i, j) < 0
      OBVIOUS
    <3>1. i \in DOMAIN records /\ (C(i, e) < 0 \/ (C(i, e) = 0 /\ i < e))
      BY <2>6, PrecedencePairs DEF Precedes, C
    <3>2. C(i, e) \in {-1, 0, 1} /\ C(i, j) \in {-1, 0, 1}
      BY <2>1, <2>6, <3>1
    <3>3. C(i, e) <= 0 /\ C(e, j) <= 0
      BY <2>6, <3>1, <3>2
    <3>4. C(i, j) <= 0 /\ (C(i, j) = 0 => C(i, e) = 0)
      BY <2>2, <2>6, <3>1, <3>3
    <3>5. C(i, j) # 0
      <4> SUFFICES ASSUME C(i, j) = 0 PROVE FALSE
        OBVIOUS
      <4>1. C(i, e) = 0 /\ i < e
        <5>1. \A c \in {-1, 0, 1} : c = 0 => ~(c < 0)
          OBVIOUS
        <5> QED
          BY <3>1, <3>2, <3>4, <5>1
      <4>2. i \in equal
        BY <3>1
      <4>3. e <= i /\ e \in Nat /\ i \in Nat
        BY <2>4, <2>5, <4>2
      <4> QED
        BY <4>1, <4>3
    <3> QED
      BY <3>1, <3>2, <3>4, <3>5
  <2>8. PICK n \in DOMAIN records : place[n] = e
    BY <1>3, <2>6
  <2>9. Cardinality(before(e)) = n - 1
    BY <1>1, <2>8
  <2>10. IsFiniteSet(ahead)
    <3>1. IsFiniteSet(DOMAIN records) /\ ahead \in SUBSET DOMAIN records
      BY <1>2, FS_Interval
    <3> QED
      BY <3>1, FS_Subset
  <2>11. Cardinality(before(e)) <= Cardinality(ahead) /\ Cardinality(ahead) \in Nat
    <3> HIDE DEF before, ahead
    <3> QED
      BY <2>7, <2>10, FS_Subset, FS_CardinalityType
  <2>12. Cardinality(ahead) < limit
    BY <1>8
  <2> HIDE DEF before, ahead, equal
  <2>13. n \in 1..size
    <3>1. n \in Nat /\ 1 <= n /\ n <= Len(records)
      BY <1>2
    <3>2. n <= limit
      BY <2>9, <2>11, <2>12, <3>1
    <3> QED
      BY <1>2, <3>1, <3>2
  <2>14. top[n] = records[e]
    <3> HIDE DEF size
    <3> QED
      BY <1>1, <2>8, <2>13
  <2> QED
    BY <1>6, <2>3, <2>6, <2>13, <2>14
<1> QED
  BY <1>6, <1>7, <1>8 DEF top, HoldsTheBest
-----------------------------------------------------------------------------
(* Derived fields. *)

Outcomes == Values \cup {FAILED}
IsComputed(record) == record \in [DOMAIN record -> Outcomes]

LEMMA NumbersAreValues ==
  ASSUME NEW n \in Int
  PROVE  Number(n) \in Outcomes /\ Tenths(n) \in Outcomes
<1>1. <<n>> \in [1..1 -> Int]
  OBVIOUS
<1> QED
  BY <1>1 DEF Number, Tenths, Value, Outcomes, Values

LEMMA NumbersAreWhole ==
  ASSUME NEW x \in Known \cup {FAILED}, IsNumber(x)
  PROVE  x.v[1] \in Int /\ Quantity(x) \in Int
<1>1. x \in Values
  BY DEF Known, IsNumber, FAILED, MISSING, Value
<1>2. x # Null /\ ~(x.kind = "bool") /\ ~(x.kind \in {"text", "list"})
  BY DEF IsNumber, Null, Value
<1>3. x.v[1] \in Int
  BY <1>1, <1>2, ValueKinds
<1> QED
  BY <1>3 DEF Quantity

LEMMA ComputedValue ==
  ASSUME NEW x \in Known \cup {FAILED}, NEW y \in Known \cup {FAILED}, NEW op \in Arithmetic
  PROVE  Compute(op, x, y) \in Outcomes
<1>1. FAILED \in Outcomes
  BY DEF Outcomes
<1>2. CASE ~IsNumber(x) \/ ~IsNumber(y) \/ (op = "divide" /\ Quantity(y) = 0)
  BY <1>1, <1>2 DEF Compute
<1>3. CASE ~(~IsNumber(x) \/ ~IsNumber(y) \/ (op = "divide" /\ Quantity(y) = 0))
  <2>1. x.v[1] \in Int /\ Quantity(x) \in Int /\ y.v[1] \in Int /\ Quantity(y) \in Int
    BY <1>3, NumbersAreWhole
  <2>2. PICK a, b, c, d : a = x.v[1] /\ b = y.v[1] /\ c = Quantity(x) /\ d = Quantity(y)
    OBVIOUS
  <2>3. a + b \in Int /\ a - b \in Int /\ a * b \in Int /\ c + d \in Int /\ c - d \in Int
    BY <2>1, <2>2
  <2>4. (c * d) \div 10 \in Int
    <3>1. PICK e \in Int : e = c * d
      BY <2>1, <2>2
    <3>2. e \div 10 \in Int
      OBVIOUS
    <3> QED
      BY <3>1, <3>2
  <2>5. Add(x, y) \in Outcomes
    BY <2>2, <2>3, NumbersAreValues DEF Add
  <2>6. Subtract(x, y) \in Outcomes
    BY <2>2, <2>3, NumbersAreValues DEF Subtract
  <2>7. Multiply(x, y) \in Outcomes
    BY <2>2, <2>3, <2>4, NumbersAreValues DEF Multiply
  <2>8. op = "divide" => Divide(x, y) \in Outcomes
    <3> SUFFICES ASSUME op = "divide" PROVE Divide(x, y) \in Outcomes
      OBVIOUS
    <3>1. d # 0
      BY <1>3, <2>2
    <3>2. PICK m, n : m = Magnitude(c) /\ n = Magnitude(d)
      OBVIOUS
    <3>3. m \in Nat /\ n \in Nat /\ n # 0
      BY <2>1, <2>2, <3>1, <3>2 DEF Magnitude
    <3>4. PICK q : q = (10 * m) \div n
      OBVIOUS
    <3>5. q \in Int /\ -q \in Int
      BY <3>3, <3>4
    <3>6. Divide(x, y) = Tenths(IF (c < 0) = (d < 0) THEN q ELSE -q)
      BY <2>2, <3>2, <3>4 DEF Divide
    <3> QED
      BY <3>5, <3>6, NumbersAreValues
  <2>9. CASE op = "add"
    BY <1>3, <2>5, <2>9 DEF Compute
  <2>10. CASE op = "subtract"
    BY <1>3, <2>6, <2>10 DEF Compute
  <2>11. CASE op = "multiply"
    BY <1>3, <2>7, <2>11 DEF Compute
  <2>12. CASE op = "divide"
    BY <1>3, <2>8, <2>12 DEF Compute
  <2> QED
    BY <2>9, <2>10, <2>11, <2>12 DEF Arithmetic
<1> QED
  BY <1>2, <1>3

\* One derivation keeps the fields and adds its own.
LEMMA DerivedOnce ==
  ASSUME NEW D, NEW r \in [D -> Outcomes], NEW d, d.op \in Arithmetic
  PROVE  DeriveOne(r, d) \in [D \cup {d.output} -> Outcomes]
<1>1. \A f : FieldValue(r, f) \in Known \cup {FAILED}
  BY DEF FieldValue, Known, Outcomes
<1>2. PICK v : v = Compute(d.op, FieldValue(r, d.left), FieldValue(r, d.right))
  OBVIOUS
<1>3. v \in Outcomes
  BY <1>1, <1>2, ComputedValue
<1>4. DOMAIN r = D
  OBVIOUS
<1>5. DeriveOne(r, d) = [f \in D \cup {d.output} |-> IF f = d.output THEN v ELSE r[f]]
  BY <1>2, <1>4 DEF DeriveOne
<1> QED
  BY <1>3, <1>5

\* The derivations are computed one after the other: f[n] is the record after the n-th.
LEMMA DerivedUpto ==
  ASSUME NEW r, IsComputed(r), NEW T, NEW derivations \in Seq(T),
         \A n \in 1..Len(derivations) : derivations[n].op \in Arithmetic
  PROVE  /\ IsComputed(DeriveAll(r, derivations))
         /\ derivations = <<>> => DeriveAll(r, derivations) = r
<1> DEFINE N == Len(derivations)
           F == DOMAIN r \cup {derivations[n].output : n \in 1..N}
           V == UNION {[D -> Outcomes] : D \in SUBSET F}
           change == [n \in 1..N |-> [s \in V |-> DeriveOne(s, derivations[n])]]
<1>1. N \in Nat
  OBVIOUS
<1>2. r \in V
  BY DEF IsComputed
<1>3. ASSUME NEW n \in 1..N, NEW s \in V PROVE DeriveOne(s, derivations[n]) \in V
  <2>1. PICK D \in SUBSET F : s \in [D -> Outcomes]
    BY <1>3
  <2>2. DeriveOne(s, derivations[n]) \in [D \cup {derivations[n].output} -> Outcomes]
    BY <2>1, DerivedOnce
  <2>3. D \cup {derivations[n].output} \in SUBSET F
    OBVIOUS
  <2> HIDE DEF F
  <2> QED
    BY <2>2, <2>3
<1>4. change \in Changes(V, N)
  <2> HIDE DEF V
  <2> QED
    BY <1>3 DEF Changes
<1>5. \A s \in V : IsComputed(s)
  <2> SUFFICES ASSUME NEW s \in V PROVE IsComputed(s)
    OBVIOUS
  <2>1. PICK D \in SUBSET F : s \in [D -> Outcomes]
    OBVIOUS
  <2> QED
    BY <2>1 DEF IsComputed
<1> HIDE DEF V, N
<1>6. PICK f : f \in [0..N -> V] /\ f[0] = r /\ \A n \in 1..N : f[n] = change[n][f[n - 1]]
  <2> HIDE DEF change
  <2>1. \E f : Path(f, V, r, N, change)
    BY <1>1, <1>2, <1>4, Iterated
  <2> QED
    BY <2>1 DEF Path
<1>7. ASSUME NEW n \in 1..N
      PROVE  n - 1 \in 0..N /\ f[n - 1] \in V /\ f[n] = DeriveOne(f[n - 1], derivations[n])
  <2>1. n - 1 \in 0..N
    BY <1>1
  <2>2. f[n - 1] \in V
    BY <1>6, <2>1
  <2> QED
    BY <1>6, <2>1, <2>2
<1>8. f = [n \in 0..N |-> IF n = 0 THEN r ELSE DeriveOne(f[n - 1], derivations[n])]
  <2>1. \A n \in 0..N : f[n] = IF n = 0 THEN r ELSE DeriveOne(f[n - 1], derivations[n])
    <3> SUFFICES ASSUME NEW n \in 0..N
                 PROVE  f[n] = IF n = 0 THEN r ELSE DeriveOne(f[n - 1], derivations[n])
      OBVIOUS
    <3>1. n # 0 => n \in 1..N
      BY <1>1
    <3> QED
      BY <1>6, <1>7, <3>1
  <2>2. f = [n \in 0..N |-> f[n]]
    BY <1>6
  <2>3. [n \in 0..N |-> f[n]] =
          [n \in 0..N |-> IF n = 0 THEN r ELSE DeriveOne(f[n - 1], derivations[n])]
    BY <2>1
  <2> QED
    BY <2>2, <2>3, Zenon
<1>9. PICK h : /\ h = [n \in 0..N |-> IF n = 0 THEN r ELSE DeriveOne(h[n - 1], derivations[n])]
               /\ DeriveAll(r, derivations) = h[N]
  <2>1. \E h : h = [n \in 0..N |-> IF n = 0 THEN r ELSE DeriveOne(h[n - 1], derivations[n])]
    BY <1>8, Zenon
  <2> QED
    BY <2>1, Zenon DEF DeriveAll, N
<1>10. \A n \in 0..N : h[n] = IF n = 0 THEN r ELSE DeriveOne(h[n - 1], derivations[n])
  BY <1>9, Zenon
<1> DEFINE same == {n \in 0..N : h[n] = f[n]}
<1>11. \A n \in 0..N : n \in same
  <2>1. 0 \in same
    <3>1. 0 \in 0..N
      BY <1>1
    <3> QED
      BY <1>6, <1>10, <3>1
  <2>2. ASSUME NEW n \in 1..N, n - 1 \in same PROVE n \in same
    <3>1. n \in 0..N /\ n # 0 /\ h[n - 1] = f[n - 1]
      BY <1>1, <2>2
    <3>2. h[n] = DeriveOne(h[n - 1], derivations[n])
      BY <1>10, <3>1
    <3> QED
      BY <1>7, <3>1, <3>2
  <2> HIDE DEF same
  <2> QED
    BY <1>1, <2>1, <2>2, Stepwise
<1>12. N \in 0..N
  BY <1>1
<1>13. DeriveAll(r, derivations) = f[N] /\ f[N] \in V
  BY <1>6, <1>9, <1>11, <1>12
<1>14. derivations = <<>> => N = 0
  BY DEF N
<1> QED
  BY <1>5, <1>6, <1>13, <1>14

-----------------------------------------------------------------------------
(* Rows that list labelled records: each of the records of rec once, in    *)
(* some order.  The operators keep the labels.                             *)

Places(place, rows, rec) ==
  /\ \A n \in DOMAIN rows : place[n] \in DOMAIN rec /\ rows[n] = rec[place[n]]
  /\ \A m, n \in DOMAIN rows : place[m] = place[n] => m = n
  /\ \A x \in DOMAIN rec : \E n \in DOMAIN rows : place[n] = x
IsRows(rows) ==
  rows = [n \in DOMAIN rows |-> rows[n]] /\ \E N \in Nat : DOMAIN rows = 1..N
Lists(rows, rec) == IsRows(rows) /\ \E place : Places(place, rows, rec)

LEMMA SequenceRows ==
  ASSUME NEW S, NEW rows \in Seq(S)
  PROVE  IsRows(rows)
BY DEF IsRows

LEMMA RowsAre ==
  ASSUME NEW rows, IsRows(rows)
  PROVE  /\ DOMAIN rows = 1..Len(rows) /\ Len(rows) \in Nat
         /\ IsFiniteSet(DOMAIN rows) /\ DOMAIN rows \in SUBSET Nat
         /\ rows \in Seq({rows[n] : n \in DOMAIN rows})
<1>1. PICK N \in Nat : DOMAIN rows = 1..N
  BY DEF IsRows
<1>2. rows \in Seq({rows[n] : n \in DOMAIN rows})
  <2>1. PICK S : S = {rows[n] : n \in DOMAIN rows}
    OBVIOUS
  <2>2. \A n \in DOMAIN rows : rows[n] \in S
    BY <2>1
  <2>3. rows \in Seq(S)
    BY <1>1, <2>2 DEF IsRows
  <2> QED
    BY <2>1, <2>3
<1>3. DOMAIN rows = 1..Len(rows) /\ Len(rows) \in Nat
  <2>1. PICK S : rows \in Seq(S)
    BY <1>2
  <2> QED
    BY <2>1, LenProperties
<1>4. IsFiniteSet(DOMAIN rows) /\ DOMAIN rows \in SUBSET Nat
  BY <1>1, FS_Interval
<1> QED
  BY <1>2, <1>3, <1>4

\* Other labels for the same records.
LEMMA Relabelled ==
  ASSUME NEW rows, NEW rec, Lists(rows, rec), NEW other, NEW g, Places(g, rec, other)
  PROVE  Lists(rows, other)
<1>1. PICK place : Places(place, rows, rec)
  BY DEF Lists
<1>2. PICK new : new = [n \in DOMAIN rows |-> g[place[n]]]
  OBVIOUS
<1>3. ASSUME NEW n \in DOMAIN rows
      PROVE  place[n] \in DOMAIN rec /\ new[n] = g[place[n]]
             /\ new[n] \in DOMAIN other /\ rows[n] = other[new[n]]
  BY <1>1, <1>2 DEF Places
<1>4. ASSUME NEW m \in DOMAIN rows, NEW n \in DOMAIN rows, new[m] = new[n] PROVE m = n
  BY <1>1, <1>3, <1>4 DEF Places
<1>5. ASSUME NEW z \in DOMAIN other PROVE \E n \in DOMAIN rows : new[n] = z
  <2>1. PICK x \in DOMAIN rec : g[x] = z
    BY DEF Places
  <2>2. PICK n \in DOMAIN rows : place[n] = x
    BY <1>1 DEF Places
  <2> QED
    BY <1>3, <2>1, <2>2
<1>6. Places(new, rows, other)
  BY <1>3, <1>4, <1>5 DEF Places
<1> QED
  BY <1>6 DEF Lists

\* What changes each record by itself changes the records listed.
LEMMA MappedRows ==
  ASSUME NEW rows, NEW rec, Lists(rows, rec), NEW out, NEW other,
         DOMAIN out = DOMAIN rows, out = [n \in DOMAIN out |-> out[n]], DOMAIN other = DOMAIN rec,
         \A n \in DOMAIN rows : \A x \in DOMAIN rec : rows[n] = rec[x] => out[n] = other[x]
  PROVE  Lists(out, other)
<1>1. PICK place : Places(place, rows, rec)
  BY DEF Lists
<1>2. \A n \in DOMAIN out : place[n] \in DOMAIN other /\ out[n] = other[place[n]]
  BY <1>1 DEF Places
<1>3. /\ \A m, n \in DOMAIN out : place[m] = place[n] => m = n
      /\ \A x \in DOMAIN other : \E n \in DOMAIN out : place[n] = x
  BY <1>1 DEF Places
<1>4. Places(place, out, other)
  BY <1>2, <1>3 DEF Places
<1>5. IsRows(out)
  BY DEF Lists, IsRows
<1> QED
  BY <1>4, <1>5 DEF Lists

\* Rows at some indices list the records there.
LEMMA ChosenRows ==
  ASSUME NEW rows, NEW rec, Lists(rows, rec), NEW at \in SUBSET DOMAIN rows,
         NEW kept \in SUBSET DOMAIN rec,
         \A n \in DOMAIN rows : \A x \in DOMAIN rec : rows[n] = rec[x] => (n \in at <=> x \in kept)
  PROVE  Lists(Those(rows, at), [x \in kept |-> rec[x]])
<1>1. IsFiniteSet(DOMAIN rows) /\ DOMAIN rows \in SUBSET Nat
  BY RowsAre DEF Lists
<1>2. PICK place : Places(place, rows, rec)
  BY DEF Lists
<1>3. IsFiniteSet(at) /\ at \in SUBSET Nat /\ Cardinality(at) \in Nat
  BY <1>1, FS_Subset, FS_CardinalityType
<1>4. PICK where \in Bijection(1..Cardinality(at), at) :
         Those(rows, at) = [n \in 1..Cardinality(at) |-> rows[where[n]]]
  BY <1>3, ThosePlaces
<1>5. /\ \A n \in 1..Cardinality(at) : where[n] \in at
      /\ \A m, n \in 1..Cardinality(at) : where[m] = where[n] => m = n
      /\ \A i \in at : \E n \in 1..Cardinality(at) : where[n] = i
  BY <1>4 DEF Bijection, Injection, Surjection, IsInjective
<1>6. PICK out, N : out = Those(rows, at) /\ N = Cardinality(at)
  OBVIOUS
<1>7. /\ N \in Nat /\ DOMAIN out = 1..N /\ out = [n \in DOMAIN out |-> out[n]]
      /\ \A n \in DOMAIN out : out[n] = rows[where[n]]
  BY <1>3, <1>4, <1>6
<1>8. PICK other : other = [x \in kept |-> rec[x]]
  OBVIOUS
<1>9. DOMAIN other = kept /\ \A x \in kept : other[x] = rec[x]
  BY <1>8
<1>10. PICK new : new = [n \in 1..N |-> place[where[n]]]
  OBVIOUS
<1>11. ASSUME NEW n \in DOMAIN out PROVE new[n] \in DOMAIN other /\ out[n] = other[new[n]]
  <2>1. where[n] \in at /\ where[n] \in DOMAIN rows /\ new[n] = place[where[n]]
    BY <1>5, <1>6, <1>7, <1>10
  <2>2. new[n] \in DOMAIN rec /\ rows[where[n]] = rec[new[n]]
    BY <1>2, <2>1 DEF Places
  <2> QED
    BY <1>7, <1>9, <2>1, <2>2
<1>12. ASSUME NEW m \in DOMAIN out, NEW n \in DOMAIN out, new[m] = new[n] PROVE m = n
  <2>1. where[m] \in DOMAIN rows /\ where[n] \in DOMAIN rows /\ place[where[m]] = place[where[n]]
    BY <1>5, <1>6, <1>7, <1>10, <1>12
  <2>2. where[m] = where[n]
    BY <1>2, <2>1 DEF Places
  <2> QED
    BY <1>5, <1>6, <1>7, <2>2
<1>13. ASSUME NEW x \in DOMAIN other PROVE \E n \in DOMAIN out : new[n] = x
  <2>1. PICK i \in DOMAIN rows : place[i] = x
    BY <1>2, <1>9 DEF Places
  <2>2. i \in at
    BY <1>2, <1>9, <2>1 DEF Places
  <2>3. PICK n \in 1..N : where[n] = i
    BY <1>5, <1>6, <2>2
  <2> QED
    BY <1>7, <1>10, <2>1, <2>3
<1>14. Places(new, out, other) /\ IsRows(out)
  BY <1>7, <1>11, <1>12, <1>13 DEF Places, IsRows
<1>15. Lists(out, other)
  BY <1>14 DEF Lists
<1> QED
  BY <1>6, <1>8, <1>15

\* Each operator on rows that list records.
LEMMA FilterLists ==
  ASSUME NEW rows, NEW rec, Lists(rows, rec), NEW predicates, NEW match
  PROVE  Lists(Filter(rows, predicates, match),
               [x \in {x \in DOMAIN rec : Keeps(rec[x], predicates, match)} |-> rec[x]])
<1> DEFINE at == {n \in DOMAIN rows : Keeps(rows[n], predicates, match)}
           kept == {x \in DOMAIN rec : Keeps(rec[x], predicates, match)}
<1>1. at \in SUBSET DOMAIN rows /\ kept \in SUBSET DOMAIN rec
  OBVIOUS
<1>2. \A n \in DOMAIN rows : \A x \in DOMAIN rec : rows[n] = rec[x] => (n \in at <=> x \in kept)
  OBVIOUS
<1> HIDE DEF at, kept
<1>3. Lists(Those(rows, at), [x \in kept |-> rec[x]])
  BY <1>1, <1>2, ChosenRows
<1> QED
  BY <1>3 DEF Filter, at, kept

LEMMA SelectLists ==
  ASSUME NEW rows, NEW rec, Lists(rows, rec), NEW fields
  PROVE  Lists(Select(rows, fields), [x \in DOMAIN rec |-> Projected(rec[x], fields)])
<1>1. PICK out, other : /\ out = [i \in DOMAIN rows |-> Projected(rows[i], fields)]
                        /\ other = [x \in DOMAIN rec |-> Projected(rec[x], fields)]
  OBVIOUS
<1>2. DOMAIN out = DOMAIN rows /\ out = [n \in DOMAIN out |-> out[n]] /\ DOMAIN other = DOMAIN rec
  BY <1>1
<1>3. \A n \in DOMAIN rows : \A x \in DOMAIN rec : rows[n] = rec[x] => out[n] = other[x]
  BY <1>1
<1>4. Lists(out, other)
  BY <1>2, <1>3, MappedRows
<1> QED
  BY <1>1, <1>4 DEF Select

LEMMA DeriveLists ==
  ASSUME NEW rows, NEW rec, Lists(rows, rec), NEW derivations
  PROVE  Lists(Derive(rows, derivations), [x \in DOMAIN rec |-> DeriveAll(rec[x], derivations)])
<1>1. PICK out, other : /\ out = [i \in DOMAIN rows |-> DeriveAll(rows[i], derivations)]
                        /\ other = [x \in DOMAIN rec |-> DeriveAll(rec[x], derivations)]
  OBVIOUS
<1>2. DOMAIN out = DOMAIN rows /\ out = [n \in DOMAIN out |-> out[n]] /\ DOMAIN other = DOMAIN rec
  BY <1>1
<1>3. \A n \in DOMAIN rows : \A x \in DOMAIN rec : rows[n] = rec[x] => out[n] = other[x]
  BY <1>1
<1>4. Lists(out, other)
  BY <1>2, <1>3, MappedRows
<1> QED
  BY <1>1, <1>4 DEF Derive

\* What a file loads as: its records, which are records.
LEMMA LoadedRows ==
  ASSUME NEW f, IsFile(f), IsLoadable(f)
  PROVE  IsRows(Load(f)) /\ \A n \in DOMAIN Load(f) : IsRecord(Load(f)[n])
<1>1. f.rows \in Seq(ToSet(f.rows)) /\ \A r \in ToSet(f.rows) : IsRecord(r)
  BY DEF IsFile
<1>2. IsRows(f.rows) /\ \A n \in DOMAIN f.rows : IsRecord(f.rows[n])
  BY <1>1, SequenceRows DEF ToSet
<1>3. \A r : IsRows(<<r>>) /\ DOMAIN <<r>> = {1} /\ <<r>>[1] = r
  BY DEF IsRows
<1>4. CASE f.form = "records"
  BY <1>2, <1>4 DEF Load
<1>5. CASE f.form = "object"
  <2>1. 1 \in DOMAIN f.rows
    BY <1>1, <1>5 DEF IsFile
  <2>2. Load(f) = <<f.rows[1]>>
    BY <1>5 DEF Load
  <2> QED
    BY <1>2, <1>3, <2>1, <2>2
<1>6. CASE f.form = "groups"
  <2>1. PICK texts : texts = [i \in DOMAIN f.rows |-> JsonRecord(f.rows[i])]
    OBVIOUS
  <2>2. \A i \in DOMAIN f.rows : JsonRecord(f.rows[i]) \in Seq(Nat)
    BY <1>2, RecordText
  <2>3. DOMAIN f.rows = 1..Len(f.rows) /\ Len(f.rows) \in Nat
    BY <1>2, RowsAre
  <2>4. texts \in Seq(Seq(Nat))
    BY <2>1, <2>2, <2>3
  <2>5. FlattenSeq(texts) \in Seq(Nat)
    BY <2>4, FlattenPlaces
  <2>6. PICK v : v = Value("list", FlattenSeq(texts))
    OBVIOUS
  <2>7. v \in Values
    BY <2>5, <2>6 DEF Value, Values
  <2>8. PICK r : r = [g \in {"groups"} |-> v]
    OBVIOUS
  <2>9. IsRecord(r)
    BY <2>7, <2>8 DEF IsRecord
  <2>10. Load(f) = <<r>>
    BY <1>6, <2>1, <2>6, <2>8 DEF Load
  <2> QED
    BY <1>3, <2>9, <2>10
<1> QED
  BY <1>4, <1>5, <1>6 DEF IsFile, IsLoadable, Forms

\* What several files load as: the records of each.
LEMMA LoadedLists ==
  ASSUME NEW files, IsRows(files), \A i \in DOMAIN files : IsRows(Load(files[i]))
  PROVE  LET loads == [i \in DOMAIN files |-> Load(files[i])]
         IN Lists(LoadAll(files), [x \in Blocks(loads) |-> loads[x[1]][x[2]]])
<1> DEFINE loads == [i \in DOMAIN files |-> Load(files[i])]
           S == UNION {{loads[i][n] : n \in DOMAIN loads[i]} : i \in DOMAIN loads}
<1>1. DOMAIN loads = 1..Len(files) /\ Len(files) \in Nat /\ \A i \in DOMAIN loads : IsRows(loads[i])
  BY RowsAre
<1>2. LoadAll(files) = FlattenSeq(loads)
  BY DEF LoadAll
<1>3. loads = [i \in DOMAIN loads |-> loads[i]]
  OBVIOUS
<1>4. ASSUME NEW i \in DOMAIN loads, NEW n \in DOMAIN loads[i] PROVE loads[i][n] \in S
  OBVIOUS
<1> HIDE DEF S, loads
<1>5. \A i \in DOMAIN loads : loads[i] \in Seq(S)
  BY <1>1, <1>4 DEF IsRows
<1>6. loads \in Seq(Seq(S))
  BY <1>1, <1>3, <1>5
<1>7. PICK all : all = FlattenSeq(loads)
  OBVIOUS
<1>8. all \in Seq(S) /\ Holds(all, loads, Blocks(loads))
  BY <1>6, <1>7, FlattenPlaces
<1>9. DOMAIN all = 1..Len(all) /\ IsRows(all)
  BY <1>8, LenProperties, SequenceRows
<1>10. PICK place \in Bijection(1..Len(all), Blocks(loads)) :
          \A j \in 1..Len(all) : all[j] = loads[place[j][1]][place[j][2]]
  BY <1>8 DEF Holds
<1>11. PICK rec : rec = [x \in Blocks(loads) |-> loads[x[1]][x[2]]]
  OBVIOUS
<1>12. /\ \A n \in DOMAIN all : place[n] \in Blocks(loads)
       /\ \A m, n \in DOMAIN all : place[m] = place[n] => m = n
       /\ \A x \in Blocks(loads) : \E n \in DOMAIN all : place[n] = x
  BY <1>9, <1>10 DEF Bijection, Injection, Surjection, IsInjective
<1>13. Places(place, all, rec)
  BY <1>9, <1>10, <1>11, <1>12 DEF Places
<1>14. Lists(all, rec)
  BY <1>9, <1>13 DEF Lists
<1> QED
  BY <1>2, <1>7, <1>11, <1>14 DEF loads

\* One file with records in it.
LEMMA LoadedAlone ==
  ASSUME NEW f, f.form = "records", NEW S, f.rows \in Seq(S)
  PROVE  LoadAll(<<f>>) = f.rows
<1>1. PICK seqs : seqs = [i \in DOMAIN <<f>> |-> Load(<<f>>[i])]
  OBVIOUS
<1>2. DOMAIN <<f>> = {1} /\ <<f>>[1] = f /\ Load(f) = f.rows
  BY DEF Load
<1>3. seqs = [i \in {1} |-> f.rows]
  BY <1>1, <1>2
<1>4. seqs \in Seq(Seq(S)) /\ Len(seqs) = 1 /\ seqs[1] = f.rows
  <2>1. seqs = <<f.rows>>
    BY <1>3
  <2> QED
    BY <2>1
<1>5. PICK g : /\ g[0] = <<>> /\ \A n \in 1..Len(seqs) : g[n] = g[n - 1] \o seqs[n]
               /\ FlattenSeq(seqs) = g[Len(seqs)]
  BY <1>4, FlattenedUpto
<1>6. FlattenSeq(seqs) = <<>> \o f.rows
  <2>1. 1 \in 1..1 /\ 1 - 1 = 0
    OBVIOUS
  <2>2. g[1] = g[1 - 1] \o seqs[1]
    BY <1>4, <1>5, <2>1, Zenon
  <2>3. FlattenSeq(seqs) = g[1]
    BY <1>4, <1>5, Zenon
  <2> QED
    BY <1>4, <1>5, <2>1, <2>2, <2>3, Zenon
<1>7. <<>> \o f.rows = f.rows
  BY ConcatEmptySeq
<1> QED
  BY <1>1, <1>6, <1>7 DEF LoadAll

\* The best of the records that rows list.
LEMMA BestListed ==
  ASSUME NEW rows, NEW rec, Lists(rows, rec), \A x \in DOMAIN rec : IsRecord(rec[x]),
         NEW T, NEW order \in Seq(T), NEW limit \in Nat
  PROVE  /\ IsRows(TopK(rows, order, limit))
         /\ \A n \in DOMAIN TopK(rows, order, limit) :
              \E x \in DOMAIN rec : TopK(rows, order, limit)[n] = rec[x]
         /\ \A x \in DOMAIN rec : \A ahead :
              /\ IsFiniteSet(ahead) /\ Cardinality(ahead) < limit
              /\ {z \in DOMAIN rec : CompareRecords(rec[z], rec[x], order) < 0} \subseteq ahead
              => \E n \in DOMAIN TopK(rows, order, limit) :
                   JsonRecord(TopK(rows, order, limit)[n]) = JsonRecord(rec[x])
<1>1. PICK place : Places(place, rows, rec)
  BY DEF Lists
<1>2. PICK S : rows \in Seq(S)
  BY RowsAre DEF Lists
<1>3. IsFiniteSet(DOMAIN rows)
  BY RowsAre DEF Lists
<1>4. \A i \in DOMAIN rows : IsRecord(rows[i])
  BY <1>1 DEF Places
<1>5. /\ TopK(rows, order, limit) \in Seq(S)
      /\ HoldsTheBest(TopK(rows, order, limit), rows, order, limit)
  BY <1>2, <1>4, TopKKeepsTheBest
<1>6. PICK top : top = TopK(rows, order, limit)
  OBVIOUS
<1>7. IsRows(top)
  BY <1>5, <1>6, SequenceRows
<1>8. ASSUME NEW n \in DOMAIN top PROVE \E x \in DOMAIN rec : top[n] = rec[x]
  BY <1>1, <1>5, <1>6, <1>8 DEF Places, HoldsTheBest
<1>9. ASSUME NEW x \in DOMAIN rec, NEW ahead, IsFiniteSet(ahead), Cardinality(ahead) < limit,
             {z \in DOMAIN rec : CompareRecords(rec[z], rec[x], order) < 0} \subseteq ahead
      PROVE  \E n \in DOMAIN top : JsonRecord(top[n]) = JsonRecord(rec[x])
  <2>1. PICK j \in DOMAIN rows : place[j] = x /\ rows[j] = rec[x]
    BY <1>1 DEF Places
  <2>2. PICK before : before = {i \in DOMAIN rows : CompareRecords(rows[i], rows[j], order) < 0}
    OBVIOUS
  <2>3. PICK f : f = [i \in before |-> place[i]]
    OBVIOUS
  <2>4. ASSUME NEW i \in before PROVE i \in DOMAIN rows /\ f[i] \in ahead /\ f[i] = place[i]
    <3>1. i \in DOMAIN rows /\ CompareRecords(rows[i], rec[x], order) < 0
      BY <2>1, <2>2
    <3>2. place[i] \in DOMAIN rec /\ rows[i] = rec[place[i]]
      BY <1>1, <3>1 DEF Places
    <3> QED
      BY <1>9, <2>3, <3>1, <3>2
  <2>5. \A m, n \in before : f[m] = f[n] => m = n
    BY <1>1, <2>4 DEF Places
  <2>6. f \in Injection(before, ahead)
    <3>1. f \in [before -> ahead]
      BY <2>3, <2>4
    <3> QED
      BY <2>5, <3>1 DEF Injection, IsInjective
  <2>7. Cardinality(before) <= Cardinality(ahead) /\ IsFiniteSet(before)
    BY <1>9, <2>6, FS_Injection
  <2>8. Cardinality(before) \in Nat /\ Cardinality(ahead) \in Nat
    BY <1>9, <2>7, FS_CardinalityType
  <2>9. Cardinality(before) < limit
    BY <1>9, <2>7, <2>8
  <2> QED
    BY <1>5, <1>6, <2>1, <2>2, <2>9 DEF HoldsTheBest
<1> QED
  BY <1>6, <1>7, <1>8, <1>9
===============================================================================
