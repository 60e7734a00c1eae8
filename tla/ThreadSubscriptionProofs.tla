---------------------- MODULE ThreadSubscriptionProofs ----------------------
(***************************************************************************)
(* Proofs about one subscription, for any tool calls, any bounds on        *)
(* events, buffers, replays and chunks, and any number of lost sessions:   *)
(* the lists and chunks the model is made of, and the shape of its state.  *)
(*                                                                         *)
(* TypeOK is not inductive: a budget is kept only if a flush never adds to *)
(* what is retained, which needs the pending updates in order; and a chunk *)
(* is applied up to the cursor that was set half way through it. Shape     *)
(* adds where the client and its subscription may stand (Places), what was *)
(* read (Reads), what is buffered (Buffers) and what was sent (Chunks).    *)
(***************************************************************************)
EXTENDS ThreadSubscription, FiniteSetTheorems, TLAPS

-----------------------------------------------------------------------------
(* Finite sets of numbers in order, and what is selected by them.          *)
UpTo(S, n) == {m \in S : m <= n}

(* The rank of a number in a set: injective, between 1 and the size.       *)
LEMMA Ranks ==
    ASSUME NEW S \in SUBSET Nat, IsFiniteSet(S)
    PROVE  /\ Cardinality(S) \in Nat
           /\ \A n \in S : Cardinality(UpTo(S, n)) \in 1..Cardinality(S)
           /\ \A m, n \in S : m < n => Cardinality(UpTo(S, m)) < Cardinality(UpTo(S, n))
<1>0. Cardinality(S) \in Nat /\ \A n \in S : n \in Nat
  BY FS_CardinalityType
<1>1. ASSUME NEW n \in S
      PROVE  IsFiniteSet(UpTo(S, n)) /\ Cardinality(UpTo(S, n)) \in 1..Cardinality(S)
  <2>1. UpTo(S, n) \in SUBSET S /\ n \in UpTo(S, n)
    BY DEF UpTo
  <2>2. IsFiniteSet(UpTo(S, n)) /\ Cardinality(UpTo(S, n)) <= Cardinality(S)
    BY <2>1, FS_Subset
  <2>3. Cardinality(UpTo(S, n)) \in Nat /\ Cardinality(UpTo(S, n)) # 0
    BY <2>1, <2>2, FS_CardinalityType, FS_EmptySet
  <2> QED
    BY <2>2, <2>3, FS_CardinalityType
<1>2. ASSUME NEW m \in S, NEW n \in S, m < n
      PROVE  Cardinality(UpTo(S, m)) < Cardinality(UpTo(S, n))
  <2>1. UpTo(S, m) \in SUBSET (UpTo(S, n) \ {n}) /\ n \in UpTo(S, n)
    <3>1. ASSUME NEW k \in S, k <= m
          PROVE  k <= n /\ k # n
      BY <1>0, <1>2, <3>1
    <3>2. n <= n
      BY <1>0
    <3> QED
      BY <3>1, <3>2 DEF UpTo
  <2>2. /\ IsFiniteSet(UpTo(S, n) \ {n})
        /\ Cardinality(UpTo(S, n) \ {n}) = Cardinality(UpTo(S, n)) - 1
    BY <1>1, <2>1, FS_RemoveElement
  <2>3. Cardinality(UpTo(S, m)) <= Cardinality(UpTo(S, n) \ {n})
    BY <2>1, <2>2, FS_Subset
  <2>4. Cardinality(UpTo(S, m)) \in Nat /\ Cardinality(UpTo(S, n)) \in Nat
    BY <1>0, <1>1
  <2> QED
    BY <2>2, <2>3, <2>4
<1> QED
  BY <1>1, <1>2, FS_CardinalityType

LEMMA InverseOfRank ==
    ASSUME NEW S \in SUBSET Nat, NEW N \in Nat, NEW rank \in [S -> 1..N], NEW s \in [1..N -> S],
           \A m, n \in S : m < n => rank[m] < rank[n],
           \A k \in 1..N : rank[s[k]] = k
    PROVE  /\ s \in Seq(S)
           /\ Len(s) = N
           /\ \A k \in 1..Len(s) : s[k] \in S
           /\ \A k \in 1..Len(s) : \A j \in 1..(k - 1) : s[j] < s[k]
           /\ \A n \in S : \E k \in 1..Len(s) : s[k] = n
<1>1. s \in Seq(S) /\ Len(s) = N
  OBVIOUS
<1>2. ASSUME NEW k \in 1..N, NEW j \in 1..(k - 1)
      PROVE  s[j] < s[k]
  <2>1. j \in 1..N /\ j < k
    OBVIOUS
  <2>2. s[j] \in S /\ s[k] \in S /\ s[j] \in Nat /\ s[k] \in Nat
    BY <2>1
  <2>3. rank[s[j]] = j /\ rank[s[k]] = k
    BY <2>1
  <2>4. ~(s[k] < s[j]) /\ s[k] # s[j]
    BY <2>1, <2>2, <2>3
  <2> QED
    BY <2>2, <2>4
<1>3. ASSUME NEW n \in S
      PROVE  \E k \in 1..N : s[k] = n
  <2>1. rank[n] \in 1..N /\ n \in Nat
    OBVIOUS
  <2>2. PICK k \in 1..N : k = rank[n]
    BY <2>1
  <2>3. s[k] \in S /\ s[k] \in Nat /\ rank[s[k]] = k
    OBVIOUS
  <2>4. ~(s[k] < n) /\ ~(n < s[k])
    BY <2>1, <2>2, <2>3
  <2> QED
    BY <2>1, <2>3, <2>4
<1> QED
  BY <1>1, <1>2, <1>3

(* InOrder lists each element of a finite set once, in increasing order.   *)
LEMMA InOrderFacts ==
    ASSUME NEW S \in SUBSET Nat, IsFiniteSet(S)
    PROVE  /\ InOrder(S) \in Seq(S)
           /\ Len(InOrder(S)) = Cardinality(S)
           /\ \A k \in 1..Len(InOrder(S)) : InOrder(S)[k] \in S
           /\ \A k \in 1..Len(InOrder(S)) : \A j \in 1..(k - 1) : InOrder(S)[j] < InOrder(S)[k]
           /\ \A n \in S : \E k \in 1..Len(InOrder(S)) : InOrder(S)[k] = n
<1> DEFINE N == Cardinality(S)
           rank == [n \in S |-> Cardinality(UpTo(S, n))]
           s == InOrder(S)
<1>0. N \in Nat /\ \A n \in S : n \in Nat
  BY Ranks
<1>1. /\ rank \in [S -> 1..N]
      /\ \A n \in S : rank[n] \in Nat
      /\ \A m, n \in S : m < n => rank[m] < rank[n]
  BY <1>0, Ranks
<1>2. IsFiniteSet(1..N) /\ Cardinality(1..N) = N
  BY <1>0, FS_Interval
<1>3. rank \in Injection(S, 1..N)
  <2>1. ASSUME NEW m \in S, NEW n \in S, rank[m] = rank[n]
        PROVE  m = n
    <3> HIDE DEF rank
    <3>1. ~(m < n) /\ ~(n < m)
      BY <1>1, <2>1
    <3> QED
      BY <3>1
  <2> HIDE DEF rank, N
  <2> QED
    BY <1>1, <2>1 DEF Injection, IsInjective
<1>4. rank \in Surjection(S, 1..N)
  BY <1>2, <1>3, FS_Injection
<1>5. \A k \in 1..N : \E n \in S : rank[n] = k
  BY <1>4 DEF Surjection
<1>6. /\ s = [k \in 1..N |-> s[k]]
      /\ \A k \in 1..N : s[k] \in S /\ rank[s[k]] = k
  <2>1. ASSUME NEW k \in 1..N
        PROVE  s[k] \in S /\ rank[s[k]] = k
    <3>1. \A n \in S : rank[n] = Cardinality({m \in S : m <= n})
      BY DEF UpTo
    <3>2. \E n \in S : Cardinality({m \in S : m <= n}) = k
      BY <1>5, <3>1
    <3>3. s[k] = CHOOSE n \in S : Cardinality({m \in S : m <= n}) = k
      BY DEF InOrder
    <3>4. s[k] \in S /\ Cardinality({m \in S : m <= s[k]}) = k
      BY <3>2, <3>3, Zenon
    <3> HIDE DEF s, rank
    <3> QED
      BY <3>1, <3>4
  <2>2. s = [k \in 1..N |-> s[k]]
    BY DEF InOrder
  <2> HIDE DEF s, rank, N
  <2> QED
    BY <2>1, <2>2
<1> HIDE DEF s, rank, N
<1>7. s \in [1..N -> S]
  BY <1>6
<1> QED
  BY <1>0, <1>1, <1>6, <1>7, InverseOfRank, SMTT(30) DEF s, N
LEMMA IntervalSubset ==
    ASSUME NEW a \in Nat, NEW b \in Nat, NEW S, S \subseteq a..b
    PROVE  S \in SUBSET Nat /\ IsFiniteSet(S)
<1>1. IsFiniteSet(a..b)
  BY FS_Interval
<1>2. a..b \subseteq Nat
  OBVIOUS
<1> QED
  BY <1>1, <1>2, FS_Subset

LEMMA Interval ==
    ASSUME NEW N \in Nat
    PROVE  IsFiniteSet(1..N) /\ Cardinality(1..N) = N
BY FS_Interval

(* Selected takes the elements at the given positions once, in order.      *)
LEMMA SelectedFacts ==
    ASSUME NEW X, NEW s \in Seq(X), NEW P \in SUBSET (1..Len(s))
    PROVE  /\ Selected(s, P) \in Seq(X)
           /\ Len(Selected(s, P)) \in Nat /\ Len(Selected(s, P)) <= Len(s)
           /\ \A k \in 1..Len(Selected(s, P)) : \E i \in P : Selected(s, P)[k] = s[i]
           /\ \A i \in P : \E k \in 1..Len(Selected(s, P)) : Selected(s, P)[k] = s[i]
           /\ \A k \in 1..Len(Selected(s, P)) : \A j \in 1..(k - 1) :
                 \E i \in P : \E h \in P :
                    h < i /\ Selected(s, P)[k] = s[i] /\ Selected(s, P)[j] = s[h]
<1> DEFINE N == Cardinality(P)
           t == Selected(s, P)
           o == InOrder(P)
<1>0. Len(s) \in Nat /\ 1 \in Nat
  OBVIOUS
<1>1. P \in SUBSET Nat /\ IsFiniteSet(P)
  BY <1>0, IntervalSubset
<1>2. /\ Len(o) = N
      /\ \A k \in 1..Len(o) : o[k] \in P
      /\ \A k \in 1..Len(o) : \A j \in 1..(k - 1) : o[j] < o[k]
      /\ \A n \in P : \E k \in 1..Len(o) : o[k] = n
  BY <1>1, InOrderFacts
<1>3. N \in Nat /\ N <= Len(s)
  <2>1. IsFiniteSet(1..Len(s)) /\ Cardinality(1..Len(s)) = Len(s)
    BY <1>0, Interval
  <2>2. P \subseteq 1..Len(s)
    OBVIOUS
  <2> QED
    BY <1>1, <2>1, <2>2, FS_Subset, FS_CardinalityType
<1>4. t = [k \in 1..N |-> s[o[k]]]
  BY DEF Selected
<1> HIDE DEF t, o, N
<1>5. \A k \in 1..N : t[k] = s[o[k]] /\ o[k] \in P /\ t[k] \in X
  <2>1. ASSUME NEW k \in 1..N
        PROVE  t[k] = s[o[k]] /\ o[k] \in P
    BY <1>2, <1>4
  <2>2. \A i \in P : s[i] \in X
    BY <1>0
  <2> QED
    BY <2>1, <2>2
<1>6. t \in Seq(X) /\ Len(t) = N
  BY <1>3, <1>4, <1>5
<1>7. ASSUME NEW i \in P
      PROVE  \E k \in 1..N : t[k] = s[i]
  BY <1>2, <1>5
<1>8. ASSUME NEW k \in 1..N, NEW j \in 1..(k - 1)
      PROVE  \E i \in P : \E h \in P : h < i /\ t[k] = s[i] /\ t[j] = s[h]
  <2>1. j \in 1..N
    BY <1>3
  <2>2. o[j] < o[k] /\ o[j] \in P /\ o[k] \in P /\ t[k] = s[o[k]] /\ t[j] = s[o[j]]
    BY <1>2, <1>5, <2>1
  <2> QED
    BY <2>2
<1> QED
  BY <1>3, <1>5, <1>6, <1>7, <1>8 DEF t

-----------------------------------------------------------------------------
(***************************************************************************)
(* Sequences of event numbers.                                             *)
(***************************************************************************)
Elements(s) == {s[k] : k \in 1..Len(s)}

Increasing(s) == \A k \in 1..Len(s) : \A j \in 1..(k - 1) : s[j] < s[k]

LEMMA Widen ==
    ASSUME NEW X, NEW Y, X \subseteq Y, NEW s \in Seq(X)
    PROVE  s \in Seq(Y)
<1>1. Len(s) \in Nat /\ s \in [1..Len(s) -> X]
  OBVIOUS
<1>2. s \in [1..Len(s) -> Y]
  BY <1>1
<1> QED
  BY <1>1, <1>2

LEMMA ListFacts ==
    ASSUME NEW S \in SUBSET Nat, IsFiniteSet(S)
    PROVE  /\ InOrder(S) \in Seq(Nat)
           /\ Increasing(InOrder(S))
           /\ Elements(InOrder(S)) = S
<1> DEFINE s == InOrder(S)
<1>1. /\ s \in Seq(S)
      /\ \A k \in 1..Len(s) : s[k] \in S
      /\ \A k \in 1..Len(s) : \A j \in 1..(k - 1) : s[j] < s[k]
      /\ \A n \in S : \E k \in 1..Len(s) : s[k] = n
  BY InOrderFacts
<1> HIDE DEF s
<1>2. s \in Seq(Nat)
  BY <1>1, Widen
<1>3. Increasing(s)
  BY <1>1 DEF Increasing
<1>4. Elements(s) = S
  BY <1>1 DEF Elements
<1> QED
  BY <1>2, <1>3, <1>4 DEF s

(* A replay is what the client may see of its range, in order.             *)
LEMMA DetailsFacts ==
    ASSUME NEW from \in Nat, NEW to \in Nat
    PROVE  /\ Details(from, to) \in Seq(Nat)
           /\ Increasing(Details(from, to))
           /\ Elements(Details(from, to)) = {n \in (from + 1)..to : Detail(n)}
<1>1. {n \in (from + 1)..to : Detail(n)} \subseteq (from + 1)..to
  OBVIOUS
<1>2. from + 1 \in Nat
  OBVIOUS
<1> QED
  BY <1>1, <1>2, IntervalSubset, ListFacts DEF Details

(* A snapshot holds what the client may see of one incarnation, in order.  *)
LEMMA PrefixFacts ==
    ASSUME NEW n \in Nat
    PROVE  /\ Prefix(n).has /\ Prefix(n).seq = n
           /\ Prefix(n) \in Pairs
           /\ Increasing(Prefix(n).thread)
           /\ Elements(Prefix(n).thread) = {k \in Since(n) : Detail(k)}
<1>1. {k \in Since(n) : Detail(k)} \subseteq 1..n
  BY DEF Since
<1> QED
  BY <1>1, IntervalSubset, ListFacts DEF Prefix, Pairs

LEMMA SelectedIncreasing ==
    ASSUME NEW X \in SUBSET Nat, NEW s \in Seq(X), Increasing(s), NEW P \in SUBSET (1..Len(s))
    PROVE  /\ Selected(s, P) \in Seq(X)
           /\ Len(Selected(s, P)) \in Nat /\ Len(Selected(s, P)) <= Len(s)
           /\ Increasing(Selected(s, P))
           /\ Elements(Selected(s, P)) = {s[i] : i \in P}
<1> DEFINE t == Selected(s, P)
<1>1. /\ t \in Seq(X)
      /\ Len(t) \in Nat /\ Len(t) <= Len(s)
      /\ \A k \in 1..Len(t) : \E i \in P : t[k] = s[i]
      /\ \A i \in P : \E k \in 1..Len(t) : t[k] = s[i]
      /\ \A k \in 1..Len(t) : \A j \in 1..(k - 1) :
            \E i \in P : \E h \in P : h < i /\ t[k] = s[i] /\ t[j] = s[h]
  BY SelectedFacts
<1> HIDE DEF t
<1>2. ASSUME NEW k \in 1..Len(t), NEW j \in 1..(k - 1)
      PROVE  t[j] < t[k]
  <2>1. PICK i \in P, h \in P : h < i /\ t[k] = s[i] /\ t[j] = s[h]
    BY <1>1, <1>2
  <2>2. h \in 1..(i - 1) /\ i \in 1..Len(s)
    BY <2>1
  <2> QED
    BY <2>1, <2>2 DEF Increasing
<1>3. Increasing(t)
  BY <1>2 DEF Increasing
<1>4. Elements(t) = {s[i] : i \in P}
  <2>1. ASSUME NEW n \in Elements(t)
        PROVE  n \in {s[i] : i \in P}
    <3>1. PICK k \in 1..Len(t) : t[k] = n
      BY DEF Elements
    <3>2. PICK i \in P : t[k] = s[i]
      BY <1>1
    <3> QED
      BY <3>1, <3>2
  <2>2. ASSUME NEW i \in P
        PROVE  s[i] \in Elements(t)
    <3>1. PICK k \in 1..Len(t) : t[k] = s[i]
      BY <1>1
    <3> QED
      BY <3>1 DEF Elements
  <2> QED
    BY <2>1, <2>2
<1> QED
  BY <1>1, <1>3, <1>4 DEF t

(* An update is dropped only for a later one of the same call, and the     *)
(* last event stays.                                                       *)
LEMMA CoalesceFacts ==
    ASSUME NEW s \in Seq(Nat), Increasing(s)
    PROVE  /\ Coalesce(s) \in Seq(Nat)
           /\ Len(Coalesce(s)) \in Nat /\ Len(Coalesce(s)) <= Len(s)
           /\ Increasing(Coalesce(s))
           /\ Elements(Coalesce(s)) \subseteq Elements(s)
           /\ \A n \in Elements(s) \ Elements(Coalesce(s)) :
                 log[n] \in Calls /\ \E m \in Elements(s) : m > n /\ log[m] = log[n]
           /\ \A n \in Elements(s) : \E m \in Elements(Coalesce(s)) : m >= n
<1> DEFINE P == {i \in 1..Len(s) :
                    ~\E k \in 1..Len(s) : s[k] > s[i] /\ log[s[k]] = log[s[i]] /\ log[s[i]] \in Calls}
           t == Selected(s, P)
<1>0. Coalesce(s) = t
  BY DEF Coalesce
<1>1. P \in SUBSET (1..Len(s))
  OBVIOUS
<1> HIDE DEF P
<1>2. /\ t \in Seq(Nat)
      /\ Len(t) \in Nat /\ Len(t) <= Len(s)
      /\ Increasing(t)
      /\ Elements(t) = {s[i] : i \in P}
  BY <1>1, SelectedIncreasing
<1> HIDE DEF t
<1>4. \A i \in P : s[i] \in Elements(t)
  BY <1>2
<1>5. Elements(t) \subseteq Elements(s)
  BY <1>1, <1>2 DEF Elements
<1>6. ASSUME NEW n \in Elements(s) \ Elements(t)
      PROVE  log[n] \in Calls /\ \E m \in Elements(s) : m > n /\ log[m] = log[n]
  <2>1. PICK i \in 1..Len(s) : s[i] = n
    BY DEF Elements
  <2>2. i \notin P
    BY <1>4, <1>6, <2>1
  <2>3. PICK k \in 1..Len(s) : s[k] > s[i] /\ log[s[k]] = log[s[i]] /\ log[s[i]] \in Calls
    BY <2>1, <2>2 DEF P
  <2> QED
    BY <2>1, <2>3 DEF Elements
<1>7. ASSUME NEW n \in Elements(s)
      PROVE  \E m \in Elements(t) : m >= n
  <2>1. PICK i \in 1..Len(s) : s[i] = n
    BY DEF Elements
  <2>2. Len(s) \in Nat /\ Len(s) \in 1..Len(s) /\ s[Len(s)] \in Nat /\ n \in Nat
    BY <2>1
  <2>3. \A k \in 1..Len(s) : s[k] <= s[Len(s)]
    <3>1. ASSUME NEW k \in 1..Len(s) PROVE s[k] <= s[Len(s)]
      <4>1. CASE k = Len(s)
        BY <2>2, <4>1
      <4>2. CASE k \in 1..(Len(s) - 1)
        <5>1. s[k] < s[Len(s)] /\ s[k] \in Nat
          BY <2>2, <4>2, SMTT(30) DEF Increasing
        <5> QED
          BY <2>2, <5>1
      <4> QED
        BY <2>2, <4>1, <4>2
    <3> QED
      BY <3>1
  <2>4. Len(s) \in P
    <3>1. \A k \in 1..Len(s) : ~(s[k] > s[Len(s)])
      BY <2>2, <2>3
    <3> QED
      BY <2>2, <3>1 DEF P
  <2>5. s[Len(s)] \in Elements(t) /\ s[Len(s)] >= n
    BY <1>4, <2>1, <2>2, <2>3, <2>4
  <2> QED
    BY <2>5
<1> QED
  BY <1>0, <1>2, <1>5, <1>6, <1>7

(* The least and the greatest of a finite set.                             *)
LEMMA Extremes ==
    ASSUME NEW S \in SUBSET Nat, IsFiniteSet(S), S # {}
    PROVE  /\ \E m \in S : \A n \in S : n <= m
           /\ \E m \in S : \A n \in S : m <= n
<1> DEFINE s == InOrder(S)
<1>0. \A n \in S : n \in Nat
  OBVIOUS
<1>1. /\ s \in Seq(S)
      /\ \A k \in 1..Len(s) : s[k] \in S
      /\ \A k \in 1..Len(s) : \A j \in 1..(k - 1) : s[j] < s[k]
      /\ \A n \in S : \E k \in 1..Len(s) : s[k] = n
  BY InOrderFacts
<1> HIDE DEF s
<1>2. Len(s) \in Nat /\ 1 \in 1..Len(s) /\ Len(s) \in 1..Len(s)
  <2>1. PICK k \in 1..Len(s) : TRUE
    BY <1>1
  <2> QED
    BY <1>1, <2>1
<1>3. ASSUME NEW n \in S
      PROVE  s[1] <= n /\ n <= s[Len(s)]
  <2>1. PICK k \in 1..Len(s) : s[k] = n
    BY <1>1
  <2>2. s[1] \in Nat /\ s[Len(s)] \in Nat /\ n \in Nat
    BY <1>0, <1>1, <1>2
  <2>3. k # 1 => s[1] < n
    <3>1. k # 1 => 1 \in 1..(k - 1)
      OBVIOUS
    <3> QED
      BY <1>1, <2>1, <3>1
  <2>4. k # Len(s) => n < s[Len(s)]
    <3>1. k # Len(s) => k \in 1..(Len(s) - 1)
      BY <1>2
    <3> QED
      BY <1>1, <1>2, <2>1, <3>1
  <2> QED
    BY <2>1, <2>2, <2>3, <2>4
<1> QED
  BY <1>1, <1>2, <1>3

LEMMA FirstPosition ==
    ASSUME NEW N \in Nat, NEW P \in SUBSET (1..N), P # {}
    PROVE  \E m \in P : \A j \in 1..(m - 1) : j \notin P
<1>1. P \in SUBSET Nat /\ IsFiniteSet(P)
  BY IntervalSubset
<1>2. PICK m \in P : \A n \in P : m <= n
  BY <1>1, Extremes
<1>3. \A j \in 1..(m - 1) : j \notin P
  BY <1>1, <1>2
<1> QED
  BY <1>2, <1>3

-----------------------------------------------------------------------------
(***************************************************************************)
(* Chunks.                                                                 *)
(***************************************************************************)
Sorted(chunk) ==
    \A k \in 1..Len(chunk) : \A j \in 1..(k - 1) :
       chunk[j].is = "event" /\ chunk[k].is = "event" => chunk[j].seq < chunk[k].seq

Within(chunk, n) ==
    \A k \in 1..Len(chunk) :
       chunk[k].seq <= n /\ (chunk[k].is = "event" => chunk[k].seq >= 1)

Whole(chunk) == SnapshotOf(chunk) # {} => Len(chunk) = 1

(* The new events of a chunk are its events after n, once each.            *)
LEMMA NewEventsFacts ==
    ASSUME NEW chunk \in Seq(Items), NEW n \in Nat
    PROVE  /\ NewEvents(chunk, n) \in Seq(Nat)
           /\ \A k \in 1..Len(NewEvents(chunk, n)) :
                 \E i \in 1..Len(chunk) :
                    chunk[i].is = "event" /\ chunk[i].seq > n /\ chunk[i].seq = NewEvents(chunk, n)[k]
           /\ \A i \in 1..Len(chunk) :
                 chunk[i].is = "event" /\ chunk[i].seq > n
                    => chunk[i].seq \in Elements(NewEvents(chunk, n))
           /\ Sorted(chunk) => Increasing(NewEvents(chunk, n))
<1> DEFINE P == {i \in 1..Len(chunk) : chunk[i].is = "event" /\ chunk[i].seq > n}
           t == Selected(chunk, P)
           new == NewEvents(chunk, n)
<1>1. P \in SUBSET (1..Len(chunk))
  OBVIOUS
<1>2. \A i \in P : i \in 1..Len(chunk) /\ chunk[i].is = "event" /\ chunk[i].seq > n
  OBVIOUS
<1>3. new = [k \in 1..Len(t) |-> t[k].seq]
  BY DEF NewEvents
<1>4. \A i \in 1..Len(chunk) : chunk[i].is = "event" /\ chunk[i].seq > n => i \in P
  OBVIOUS
<1> HIDE DEF P
<1>5. /\ t \in Seq(Items)
      /\ Len(t) \in Nat
      /\ \A k \in 1..Len(t) : \E i \in P : t[k] = chunk[i]
      /\ \A i \in P : \E k \in 1..Len(t) : t[k] = chunk[i]
      /\ \A k \in 1..Len(t) : \A j \in 1..(k - 1) :
            \E i \in P : \E h \in P : h < i /\ t[k] = chunk[i] /\ t[j] = chunk[h]
  BY <1>1, SelectedFacts, ZenonT(30)
<1> HIDE DEF t, new
<1>6. \A k \in 1..Len(t) : t[k].seq \in Nat
  <2>1. \A k \in 1..Len(t) : t[k] \in Items
    BY <1>5
  <2>2. \A item \in Items : item.seq \in Nat
    BY DEF Items
  <2> QED
    BY <2>1, <2>2
<1>7. new \in Seq(Nat) /\ Len(new) = Len(t) /\ \A k \in 1..Len(t) : new[k] = t[k].seq
  BY <1>3, <1>5, <1>6
<1>8. ASSUME NEW k \in 1..Len(new)
      PROVE  \E i \in 1..Len(chunk) :
                chunk[i].is = "event" /\ chunk[i].seq > n /\ chunk[i].seq = new[k]
  <2>1. k \in 1..Len(t) /\ new[k] = t[k].seq
    BY <1>7
  <2>2. PICK i \in P : t[k] = chunk[i]
    BY <1>5, <2>1
  <2> QED
    BY <1>2, <2>1, <2>2
<1>9. ASSUME NEW i \in 1..Len(chunk), chunk[i].is = "event", chunk[i].seq > n
      PROVE  chunk[i].seq \in Elements(new)
  <2>1. PICK k \in 1..Len(t) : t[k] = chunk[i]
    BY <1>4, <1>5, <1>9
  <2>2. k \in 1..Len(new) /\ new[k] = chunk[i].seq
    BY <1>7, <2>1
  <2> QED
    BY <2>2 DEF Elements
<1>10. ASSUME Sorted(chunk), NEW k \in 1..Len(new), NEW j \in 1..(k - 1)
       PROVE  new[j] < new[k]
  <2>1. k \in 1..Len(t) /\ j \in 1..Len(t)
    BY <1>5, <1>7
  <2>2. PICK i \in P, h \in P : h < i /\ t[k] = chunk[i] /\ t[j] = chunk[h]
    BY <1>5, <2>1
  <2>3. h \in 1..(i - 1) /\ i \in 1..Len(chunk) /\ chunk[h].is = "event" /\ chunk[i].is = "event"
    BY <1>2, <2>2
  <2>4. chunk[h].seq < chunk[i].seq
    BY <1>10, <2>3 DEF Sorted
  <2> QED
    BY <1>7, <2>1, <2>2, <2>4
<1> QED
  BY <1>7, <1>8, <1>9, <1>10 DEF new, Increasing

Data(item) == item.is # "synchronized"

(* What a chunk moves the cursor to: its snapshot, or its last event if    *)
(* that is new.                                                            *)
LEMMA ReachedFacts ==
    ASSUME NEW chunk \in Seq(Items), NEW n \in Nat, Sorted(chunk), Whole(chunk)
    PROVE  /\ Reached(chunk, n) \in Nat
           /\ SnapshotOf(chunk) # {} =>
                 Len(chunk) = 1 /\ chunk[1].is = "snapshot" /\ Reached(chunk, n) = chunk[1].seq
           /\ SnapshotOf(chunk) = {} =>
                 /\ Reached(chunk, n) >= n
                 /\ \A i \in 1..Len(chunk) : chunk[i].is = "event" => chunk[i].seq <= Reached(chunk, n)
                 /\ IF NewEvents(chunk, n) = << >> THEN Reached(chunk, n) = n
                    ELSE Reached(chunk, n) = NewEvents(chunk, n)[Len(NewEvents(chunk, n))]
           /\ \/ Reached(chunk, n) = n
              \/ \E i \in 1..Len(chunk) : Data(chunk[i]) /\ chunk[i].seq = Reached(chunk, n)
<1> DEFINE new == NewEvents(chunk, n)
           r == Reached(chunk, n)
<1>1. /\ \A i \in 1..Len(chunk) : chunk[i].seq \in Nat
      /\ Len(chunk) \in Nat
  <2>1. \A item \in Items : item.seq \in Nat
    BY DEF Items
  <2>2. \A i \in 1..Len(chunk) : chunk[i] \in Items
    OBVIOUS
  <2> QED
    BY <2>1, <2>2
<1>2. /\ new \in Seq(Nat)
      /\ \A k \in 1..Len(new) :
            \E i \in 1..Len(chunk) :
               chunk[i].is = "event" /\ chunk[i].seq > n /\ chunk[i].seq = new[k]
      /\ \A i \in 1..Len(chunk) : chunk[i].is = "event" /\ chunk[i].seq > n => chunk[i].seq \in Elements(new)
      /\ Increasing(new)
  BY NewEventsFacts
<1>3. r = IF SnapshotOf(chunk) # {} THEN chunk[1].seq
          ELSE IF new = << >> THEN n ELSE new[Len(new)]
  BY DEF Reached
<1> HIDE DEF new, r
<1>4. CASE SnapshotOf(chunk) # {}
  <2>1. Len(chunk) = 1
    BY <1>4 DEF Whole
  <2>2. PICK i \in 1..Len(chunk) : chunk[i].is = "snapshot"
    BY <1>4 DEF SnapshotOf
  <2>3. i = 1 /\ r = chunk[1].seq /\ r \in Nat
    BY <1>1, <1>3, <1>4, <2>1, <2>2
  <2> QED
    BY <1>4, <2>1, <2>2, <2>3 DEF Data, r
<1>5. CASE SnapshotOf(chunk) = {} /\ new = << >>
  <2>1. r = n
    BY <1>3, <1>5
  <2>2. \A i \in 1..Len(chunk) : chunk[i].is = "event" => chunk[i].seq <= n
    <3>1. Elements(new) = {}
      BY <1>5 DEF Elements
    <3> QED
      BY <1>1, <1>2, <3>1
  <2> QED
    BY <1>5, <2>1, <2>2 DEF r, new
<1>6. CASE SnapshotOf(chunk) = {} /\ new # << >>
  <2>1. r = new[Len(new)] /\ Len(new) \in Nat /\ Len(new) \in 1..Len(new) /\ r \in Nat
    BY <1>2, <1>3, <1>6
  <2>2. PICK i \in 1..Len(chunk) : chunk[i].is = "event" /\ chunk[i].seq > n /\ chunk[i].seq = r
    BY <1>2, <2>1
  <2>3. ASSUME NEW j \in 1..Len(chunk), chunk[j].is = "event"
        PROVE  chunk[j].seq <= r
    <3>1. CASE chunk[j].seq > n
      <4>1. PICK k \in 1..Len(new) : new[k] = chunk[j].seq
        BY <1>2, <2>3, <3>1 DEF Elements
      <4>2. CASE k = Len(new)
        BY <1>1, <2>1, <4>1, <4>2
      <4>3. CASE k # Len(new)
        <5>1. k \in 1..(Len(new) - 1)
          BY <2>1, <4>3
        <5>2. new[k] < new[Len(new)]
          BY <1>2, <2>1, <5>1 DEF Increasing
        <5> QED
          BY <1>1, <2>1, <4>1, <5>2
      <4> QED
        BY <4>2, <4>3
    <3>2. CASE ~(chunk[j].seq > n)
      BY <1>1, <2>2, <3>2
    <3> QED
      BY <3>1, <3>2
  <2>4. r >= n /\ Data(chunk[i])
    BY <1>1, <2>1, <2>2 DEF Data
  <2> QED
    BY <1>6, <2>1, <2>2, <2>3, <2>4 DEF r, new
<1> QED
  BY <1>4, <1>5, <1>6

(* What is saved is what was cached, or one of the pairs offered.          *)
LEMMA SavedFacts ==
    ASSUME NEW pairs \in SUBSET Pairs, NEW b \in Nat, \A p \in pairs : p.seq <= b
    PROVE  Saved(pairs) = cache \/ (Saved(pairs) \in pairs /\ Saved(pairs).has)
<1> DEFINE settled == {p \in pairs : p.has /\ Settled(p)}
           S == {p.seq : p \in settled}
<1>1. CASE settled = {}
  BY <1>1 DEF Saved
<1>2. CASE settled # {}
  <2>1. \A p \in settled : p.seq \in Nat /\ p.seq \in 0..b
    BY DEF Pairs
  <2>2. S \subseteq 0..b
    BY <2>1
  <2>3. S \in SUBSET Nat /\ IsFiniteSet(S)
    BY <2>2, IntervalSubset
  <2>4. S # {}
    BY <1>2
  <2> HIDE DEF settled
  <2>5. PICK m \in S : \A n \in S : n <= m
    BY <2>3, <2>4, Extremes
  <2>6. PICK p \in settled : p.seq = m
    OBVIOUS
  <2>7. \A q \in settled : q.seq <= p.seq
    BY <2>5, <2>6
  <2>8. Saved(pairs) = CHOOSE x \in settled : \A q \in settled : q.seq <= x.seq
    BY <1>2 DEF Saved, settled
  <2>9. Saved(pairs) \in settled
    BY <2>7, <2>8, Zenon
  <2> QED
    BY <2>9 DEF settled
<1> QED
  BY <1>1, <1>2

-----------------------------------------------------------------------------
(***************************************************************************)
(* The live buffer of a subscription.                                      *)
(***************************************************************************)
Subs ==
    [pc : {"none", "reading", "snapshot", "catchUp", "live", "failed"},
     after : Nat \cup {NoCursor}, pulled : Nat, pending : Seq(Nat), output : Seq(Items),
     inFlight : Nat, full : BOOLEAN, rest : Seq(Nat), fallback : BOOLEAN, mark : Nat]

(* Pending events come after queued ones, both in order, and nothing is    *)
(* there that was not taken from the PubSub.                               *)
Buffered(s) ==
    /\ Increasing(s.pending)
    /\ \A k \in 1..Len(s.pending) : s.pending[k] \in 1..s.pulled
    /\ Sorted(s.output)
    /\ SnapshotOf(s.output) = {}
    /\ \A k \in 1..Len(s.output) :
          s.output[k].is = "event" =>
             /\ s.output[k].seq \in 1..s.pulled
             /\ \A j \in 1..Len(s.pending) : s.output[k].seq < s.pending[j]

LEMMA EventsFacts ==
    ASSUME NEW s \in Seq(Nat)
    PROVE  /\ Events(s) \in Seq(Items)
           /\ Len(Events(s)) = Len(s)
           /\ \A k \in 1..Len(s) : Events(s)[k] = Event(s[k])
           /\ \A k \in 1..Len(s) : Events(s)[k].is = "event" /\ Events(s)[k].seq = s[k]
           /\ SnapshotOf(Events(s)) = {} /\ MarkersOf(Events(s)) = {}
           /\ Increasing(s) => Sorted(Events(s))
<1> DEFINE e == Events(s)
<1>1. e = [k \in 1..Len(s) |-> Event(s[k])] /\ Len(s) \in Nat
  BY DEF Events
<1>2. \A k \in 1..Len(s) : Event(s[k]) \in Items /\ Event(s[k]).is = "event" /\ Event(s[k]).seq = s[k]
  <2>1. \A n \in Nat : Event(n) \in Items /\ Event(n).is = "event" /\ Event(n).seq = n
    BY DEF Event, Items
  <2> QED
    BY <2>1
<1> HIDE DEF e
<1>3. e \in Seq(Items) /\ Len(e) = Len(s)
  BY <1>1, <1>2
<1>4. \A k \in 1..Len(s) : e[k] = Event(s[k]) /\ e[k].is = "event" /\ e[k].seq = s[k]
  BY <1>1, <1>2
<1>5. SnapshotOf(e) = {} /\ MarkersOf(e) = {}
  BY <1>3, <1>4 DEF SnapshotOf, MarkersOf
<1>6. ASSUME Increasing(s)
      PROVE  Sorted(e)
  <2>1. ASSUME NEW k \in 1..Len(e), NEW j \in 1..(k - 1)
        PROVE  e[j].seq < e[k].seq
    <3>1. k \in 1..Len(s) /\ j \in 1..Len(s)
      BY <1>1, <1>3
    <3>2. s[j] < s[k]
      BY <1>6, <3>1 DEF Increasing
    <3> QED
      BY <1>4, <3>1, <3>2
  <2> QED
    BY <2>1 DEF Sorted
<1> QED
  BY <1>3, <1>4, <1>5, <1>6 DEF e

(* Queues behind one another.                                              *)
LEMMA JoinFacts ==
    ASSUME NEW a \in Seq(Items), NEW b \in Seq(Items), Sorted(a), Sorted(b),
           SnapshotOf(a) = {}, SnapshotOf(b) = {},
           \A k \in 1..Len(a) : \A j \in 1..Len(b) :
              a[k].is = "event" /\ b[j].is = "event" => a[k].seq < b[j].seq
    PROVE  /\ a \o b \in Seq(Items)
           /\ Len(a \o b) = Len(a) + Len(b)
           /\ \A k \in 1..Len(a) : (a \o b)[k] = a[k]
           /\ \A k \in 1..Len(b) : (a \o b)[Len(a) + k] = b[k]
           /\ \A k \in 1..Len(a \o b) :
                 k \in 1..Len(a) \/ \E j \in 1..Len(b) : k = Len(a) + j /\ (a \o b)[k] = b[j]
           /\ Sorted(a \o b)
           /\ SnapshotOf(a \o b) = {}
<1> DEFINE c == a \o b
<1>1. c \in Seq(Items) /\ Len(c) = Len(a) + Len(b) /\ Len(a) \in Nat /\ Len(b) \in Nat
  OBVIOUS
<1>2. \A k \in 1..Len(a) : c[k] = a[k]
  OBVIOUS
<1>3. \A k \in 1..Len(b) : c[Len(a) + k] = b[k]
  OBVIOUS
<1> HIDE DEF c
<1>4. ASSUME NEW k \in 1..Len(c)
      PROVE  k \in 1..Len(a) \/ \E j \in 1..Len(b) : k = Len(a) + j /\ c[k] = b[j]
  <2>1. k \notin 1..Len(a) => (k - Len(a)) \in 1..Len(b) /\ k = Len(a) + (k - Len(a))
    BY <1>1
  <2> QED
    BY <1>3, <2>1
<1>5. Sorted(c)
  <2>1. ASSUME NEW k \in 1..Len(c), NEW j \in 1..(k - 1),
               c[j].is = "event", c[k].is = "event"
        PROVE  c[j].seq < c[k].seq
    <3>0. j \in 1..Len(c) /\ j < k
      BY <1>1
    <3>1. CASE k \in 1..Len(a)
      <4>1. j \in 1..Len(a)
        BY <1>1, <3>1
      <4> QED
        BY <1>2, <2>1, <3>1, <4>1 DEF Sorted
    <3>2. CASE k \notin 1..Len(a)
      <4>1. PICK m \in 1..Len(b) : k = Len(a) + m /\ c[k] = b[m]
        BY <1>4, <3>2
      <4>2. CASE j \in 1..Len(a)
        BY <1>2, <2>1, <4>1, <4>2
      <4>3. CASE j \notin 1..Len(a)
        <5>1. PICK i \in 1..Len(b) : j = Len(a) + i /\ c[j] = b[i]
          BY <1>4, <3>0, <4>3
        <5>2. i \in 1..(m - 1)
          BY <1>1, <3>0, <4>1, <5>1
        <5> QED
          BY <2>1, <4>1, <5>1, <5>2 DEF Sorted
      <4> QED
        BY <4>2, <4>3
    <3> QED
      BY <3>1, <3>2
  <2> QED
    BY <2>1 DEF Sorted
<1>6. SnapshotOf(c) = {}
  <2>1. \A k \in 1..Len(a) : a[k].is # "snapshot"
    BY DEF SnapshotOf
  <2>2. \A k \in 1..Len(b) : b[k].is # "snapshot"
    BY DEF SnapshotOf
  <2>3. \A k \in 1..Len(c) : c[k].is # "snapshot"
    BY <1>2, <1>4, <2>1, <2>2
  <2> QED
    BY <2>3 DEF SnapshotOf
<1> QED
  BY <1>1, <1>2, <1>3, <1>4, <1>5, <1>6 DEF c

LEMMA EmptyFacts ==
    << >> \in Seq(Nat) /\ << >> \in Seq(Items) /\ Len(<< >>) = 0
OBVIOUS

(* The buffer as it is left by a flush, an offer or an overflow.           *)
Refilled(s, p, o) == [s EXCEPT !.pending = p, !.output = o]
Overrun(s, p, o) == [s EXCEPT !.full = TRUE, !.pulled = 0, !.pending = p, !.output = o]

LEMMA RefilledFacts ==
    ASSUME NEW s \in Subs, NEW p \in Seq(Nat), NEW o \in Seq(Items)
    PROVE  /\ Refilled(s, p, o) \in Subs
           /\ Refilled(s, p, o).pending = p /\ Refilled(s, p, o).output = o
           /\ Refilled(s, p, o).inFlight = s.inFlight /\ Refilled(s, p, o).pulled = s.pulled
           /\ Refilled(s, p, o).pc = s.pc /\ Refilled(s, p, o).after = s.after
           /\ Refilled(s, p, o).full = s.full /\ Refilled(s, p, o).rest = s.rest
           /\ Refilled(s, p, o).fallback = s.fallback /\ Refilled(s, p, o).mark = s.mark
BY DEF Subs, Refilled

LEMMA OverrunFacts ==
    ASSUME NEW s \in Subs, NEW p \in Seq(Nat), NEW o \in Seq(Items)
    PROVE  /\ Overrun(s, p, o) \in Subs
           /\ Overrun(s, p, o).pending = p /\ Overrun(s, p, o).output = o
           /\ Overrun(s, p, o).inFlight = s.inFlight /\ Overrun(s, p, o).pulled = 0
           /\ Overrun(s, p, o).pc = s.pc /\ Overrun(s, p, o).after = s.after
           /\ Overrun(s, p, o).full /\ Overrun(s, p, o).rest = s.rest
           /\ Overrun(s, p, o).fallback = s.fallback /\ Overrun(s, p, o).mark = s.mark
BY DEF Subs, Overrun

(* What a flush, an overflow and an offer leave alone.                     *)
SameReading(s, t) ==
    /\ t.pc = s.pc /\ t.after = s.after /\ t.rest = s.rest
    /\ t.fallback = s.fallback /\ t.mark = s.mark

Waiting(s) == Len(s.pending)
Queued(s) == Len(s.output)

LEMMA RetainedFacts ==
    ASSUME NEW s \in Subs
    PROVE  /\ Waiting(s) \in Nat /\ Queued(s) \in Nat /\ s.inFlight \in Nat
           /\ Retained(s) \in Nat
           /\ Retained(s) = Waiting(s) + Queued(s) + s.inFlight
<1>1. Waiting(s) \in Nat
  BY DEF Subs, Waiting
<1>2. Queued(s) \in Nat
  BY DEF Subs, Queued
<1>3. s.inFlight \in Nat
  BY DEF Subs
<1>4. Retained(s) = Waiting(s) + Queued(s) + s.inFlight
  BY Zenon DEF Retained, Waiting, Queued
<1> QED
  BY <1>1, <1>2, <1>3, <1>4

LEMMA FlushFacts ==
    ASSUME NEW s \in Subs, Buffered(s)
    PROVE  /\ Flush(s) \in Subs
           /\ Flush(s).pending = << >>
           /\ Flush(s).output = s.output \o Events(Coalesce(s.pending))
           /\ Flush(s).pulled = s.pulled /\ Flush(s).full = s.full
           /\ Flush(s).inFlight = s.inFlight
           /\ SameReading(s, Flush(s))
           /\ Buffered(Flush(s))
           /\ Retained(Flush(s)) <= Retained(s)
<1> DEFINE c == Coalesce(s.pending)
           e == Events(c)
           out == s.output \o e
           f == Flush(s)
<1>1. s.pending \in Seq(Nat) /\ s.output \in Seq(Items) /\ s.inFlight \in Nat /\ s.pulled \in Nat
  BY DEF Subs
<1>2. /\ c \in Seq(Nat)
      /\ Len(c) \in Nat /\ Len(c) <= Len(s.pending)
      /\ Increasing(c)
      /\ Elements(c) \subseteq Elements(s.pending)
  BY <1>1, CoalesceFacts DEF Buffered
<1>3. \A k \in 1..Len(c) : \E j \in 1..Len(s.pending) : c[k] = s.pending[j]
  BY <1>2 DEF Elements
<1> HIDE DEF c
<1>4. /\ e \in Seq(Items)
      /\ Len(e) = Len(c)
      /\ \A k \in 1..Len(c) : e[k].is = "event" /\ e[k].seq = c[k]
      /\ SnapshotOf(e) = {} /\ Sorted(e)
  BY <1>2, EventsFacts
<1>5. \A k \in 1..Len(s.output) : s.output[k].is = "event" =>
         /\ s.output[k].seq \in 1..s.pulled
         /\ \A j \in 1..Len(s.pending) : s.output[k].seq < s.pending[j]
  BY DEF Buffered
<1> HIDE DEF e
<1>6. \A k \in 1..Len(s.output) : \A j \in 1..Len(e) :
         s.output[k].is = "event" /\ e[j].is = "event" => s.output[k].seq < e[j].seq
  <2>1. ASSUME NEW k \in 1..Len(s.output), NEW j \in 1..Len(e), s.output[k].is = "event"
        PROVE  s.output[k].seq < e[j].seq
    <3>1. PICK i \in 1..Len(s.pending) : c[j] = s.pending[i]
      BY <1>3, <1>4
    <3> QED
      BY <1>4, <1>5, <2>1, <3>1
  <2> QED
    BY <2>1
<1>7. /\ out \in Seq(Items)
      /\ Len(out) = Len(s.output) + Len(e)
      /\ \A k \in 1..Len(s.output) : out[k] = s.output[k]
      /\ \A k \in 1..Len(out) :
            k \in 1..Len(s.output) \/ \E j \in 1..Len(e) : k = Len(s.output) + j /\ out[k] = e[j]
      /\ Sorted(out)
      /\ SnapshotOf(out) = {}
  BY <1>1, <1>4, <1>6, JoinFacts DEF Buffered
<1> HIDE DEF out
<1>8. /\ f \in Subs /\ f.pending = << >> /\ f.output = out
      /\ f.inFlight = s.inFlight /\ f.pulled = s.pulled /\ f.full = s.full
      /\ f.pc = s.pc /\ f.after = s.after /\ f.rest = s.rest
      /\ f.fallback = s.fallback /\ f.mark = s.mark
  <2>1. f = Refilled(s, << >>, out)
    BY DEF Flush, Refilled, out, e, c
  <2>2. out \in Seq(Items)
    BY <1>7
  <2> HIDE DEF f
  <2> QED
    BY <2>1, <2>2, EmptyFacts, RefilledFacts, ZenonT(30)
<1> HIDE DEF f
<1>10. ASSUME NEW k \in 1..Len(out), out[k].is = "event"
       PROVE  out[k].seq \in 1..s.pulled
  <2>1. CASE k \in 1..Len(s.output)
    BY <1>5, <1>7, <1>10, <2>1
  <2>2. CASE k \notin 1..Len(s.output)
    <3>1. PICK j \in 1..Len(e) : out[k] = e[j]
      BY <1>7, <2>2
    <3>2. PICK i \in 1..Len(s.pending) : c[j] = s.pending[i]
      BY <1>3, <1>4
    <3>3. s.pending[i] \in 1..s.pulled
      BY DEF Buffered
    <3> QED
      BY <1>4, <3>1, <3>2, <3>3
  <2> QED
    BY <2>1, <2>2
<1>11. Buffered(f)
  <2>1. Len(f.pending) = 0
    BY <1>8
  <2> QED
    BY <1>7, <1>8, <1>10, <2>1 DEF Buffered, Increasing
<1>12. Retained(f) <= Retained(s)
  <2> HIDE DEF f
  <2>1. Waiting(f) = 0
    BY <1>8 DEF Waiting
  <2>2. Queued(f) = Queued(s) + Len(c)
    BY <1>4, <1>7, <1>8 DEF Queued
  <2>3. Len(c) <= Waiting(s)
    BY <1>2 DEF Waiting
  <2>4. /\ Waiting(s) \in Nat /\ Queued(s) \in Nat /\ s.inFlight \in Nat
        /\ Retained(s) = Waiting(s) + Queued(s) + s.inFlight
    BY RetainedFacts
  <2>5. Retained(f) = Waiting(f) + Queued(f) + s.inFlight
    BY <1>8, RetainedFacts
  <2> QED
    BY <1>2, <2>1, <2>2, <2>3, <2>4, <2>5
<1>13. SameReading(s, f)
  BY <1>8 DEF SameReading
<1> QED
  BY <1>8, <1>11, <1>12, <1>13 DEF f, out, e, c

LEMMA OverflowFacts ==
    ASSUME NEW s \in Subs
    PROVE  /\ Overflow(s) \in Subs
           /\ Buffered(Overflow(s))
           /\ Overflow(s).pending = << >> /\ Overflow(s).output = << >> /\ Overflow(s).pulled = 0
           /\ Overflow(s).full
           /\ Overflow(s).inFlight = s.inFlight
           /\ SameReading(s, Overflow(s))
           /\ Retained(Overflow(s)) = s.inFlight
<1> DEFINE o == Overflow(s)
<1>1. /\ o \in Subs /\ o.pending = << >> /\ o.output = << >> /\ o.pulled = 0 /\ o.full
      /\ o.inFlight = s.inFlight
      /\ o.pc = s.pc /\ o.after = s.after /\ o.rest = s.rest
      /\ o.fallback = s.fallback /\ o.mark = s.mark
  <2>1. o = Overrun(s, << >>, << >>)
    BY DEF Overflow, Overrun
  <2> HIDE DEF o
  <2>2. PICK p \in Seq(Nat) : p = << >>
    BY EmptyFacts, Zenon
  <2>3. PICK q \in Seq(Items) : q = << >>
    BY EmptyFacts, Zenon
  <2>4. o = Overrun(s, p, q)
    BY <2>1, <2>2, <2>3, Zenon
  <2>5. o \in Subs /\ o.pending = p /\ o.output = q /\ o.pulled = 0 /\ o.full
    BY <2>4, OverrunFacts
  <2>6. /\ o.inFlight = s.inFlight
        /\ o.pc = s.pc /\ o.after = s.after /\ o.rest = s.rest
        /\ o.fallback = s.fallback /\ o.mark = s.mark
    BY <2>4, OverrunFacts
  <2> QED
    BY <2>2, <2>3, <2>5, <2>6, Zenon
<1>2. Len(o.pending) = 0 /\ Len(o.output) = 0 /\ s.inFlight \in Nat
  BY <1>1 DEF Subs
<1> HIDE DEF o
<1>3. Buffered(o)
  BY <1>1, <1>2 DEF Buffered, Increasing, Sorted, SnapshotOf
<1>4. Retained(o) = s.inFlight
  <2>1. Waiting(o) = 0 /\ Queued(o) = 0
    BY <1>2, Zenon DEF Waiting, Queued
  <2>2. o \in Subs /\ o.inFlight = s.inFlight
    BY <1>1
  <2> QED
    BY <2>1, <2>2, RetainedFacts
<1>5. SameReading(s, o)
  BY <1>1 DEF SameReading
<1> QED
  BY <1>1, <1>3, <1>4, <1>5 DEF o

(* Taking an event from the PubSub: the next one, which no pending or      *)
(* queued event reaches.                                                   *)
NextTaken(s, n) ==
    /\ n \in Nat /\ n = s.pulled /\ n >= 1
    /\ \A k \in 1..Len(s.pending) : s.pending[k] < n
    /\ \A k \in 1..Len(s.output) : s.output[k].is = "event" => s.output[k].seq < n

LEMMA AppendIncreasing ==
    ASSUME NEW s \in Seq(Nat), NEW n \in Nat, Increasing(s), \A k \in 1..Len(s) : s[k] < n
    PROVE  /\ Append(s, n) \in Seq(Nat)
           /\ Len(Append(s, n)) = Len(s) + 1
           /\ Increasing(Append(s, n))
           /\ \A k \in 1..Len(s) : Append(s, n)[k] = s[k]
           /\ Append(s, n)[Len(s) + 1] = n
           /\ Elements(Append(s, n)) = Elements(s) \cup {n}
<1> DEFINE a == Append(s, n)
<1>1. /\ a \in Seq(Nat) /\ Len(a) = Len(s) + 1 /\ Len(s) \in Nat
      /\ \A k \in 1..Len(s) : a[k] = s[k]
      /\ a[Len(s) + 1] = n
  OBVIOUS
<1> HIDE DEF a
<1>2. ASSUME NEW k \in 1..Len(a), NEW j \in 1..(k - 1)
      PROVE  a[j] < a[k]
  <2>1. j \in 1..Len(s)
    BY <1>1
  <2>2. CASE k \in 1..Len(s)
    BY <1>1, <2>1, <2>2 DEF Increasing
  <2>3. CASE k = Len(s) + 1
    BY <1>1, <2>1, <2>3
  <2> QED
    BY <1>1, <2>2, <2>3
<1>3. Elements(a) = Elements(s) \cup {n}
  <2>1. ASSUME NEW x \in Elements(a)
        PROVE  x \in Elements(s) \cup {n}
    <3>1. PICK k \in 1..Len(a) : a[k] = x
      BY DEF Elements
    <3>2. k \in 1..Len(s) \/ k = Len(s) + 1
      BY <1>1
    <3> QED
      BY <1>1, <3>1, <3>2 DEF Elements
  <2>2. n \in Elements(a)
    <3>1. Len(s) + 1 \in 1..Len(a)
      BY <1>1
    <3> QED
      BY <1>1, <3>1 DEF Elements
  <2>3. ASSUME NEW x \in Elements(s)
        PROVE  x \in Elements(a)
    <3>1. PICK k \in 1..Len(s) : s[k] = x
      BY DEF Elements
    <3>2. k \in 1..Len(a)
      BY <1>1
    <3> QED
      BY <1>1, <3>1, <3>2 DEF Elements
  <2> QED
    BY <2>1, <2>2, <2>3
<1> QED
  BY <1>1, <1>2, <1>3 DEF a, Increasing

(* What an offer does when it fits, before it may flush.                   *)
Kept(s, n) == [s EXCEPT !.pending = Append(@, n)]

LEMMA KeptFacts ==
    ASSUME NEW s \in Subs, NEW n, Buffered(s), NextTaken(s, n)
    PROVE  /\ Kept(s, n) \in Subs
           /\ Buffered(Kept(s, n))
           /\ Retained(Kept(s, n)) = Retained(s) + 1
           /\ Retained(s) \in Nat
           /\ Kept(s, n).pending = Append(s.pending, n)
           /\ Kept(s, n).pulled = n /\ Kept(s, n).full = s.full
           /\ Kept(s, n).inFlight = s.inFlight
           /\ Kept(s, n).output = s.output
           /\ SameReading(s, Kept(s, n))
<1> DEFINE k == Kept(s, n)
<1>1. /\ s.pending \in Seq(Nat) /\ s.output \in Seq(Items) /\ s.inFlight \in Nat
      /\ n \in Nat /\ n >= 1 /\ s.pulled = n
  BY DEF Subs, NextTaken
<1>2. /\ Append(s.pending, n) \in Seq(Nat)
      /\ Len(Append(s.pending, n)) = Len(s.pending) + 1
      /\ Increasing(Append(s.pending, n))
      /\ \A j \in 1..Len(s.pending) : Append(s.pending, n)[j] = s.pending[j]
      /\ Append(s.pending, n)[Len(s.pending) + 1] = n
  BY <1>1, AppendIncreasing DEF Buffered, NextTaken
<1>3. /\ k \in Subs /\ k.pending = Append(s.pending, n) /\ k.output = s.output
      /\ k.inFlight = s.inFlight /\ k.pulled = s.pulled /\ k.full = s.full
      /\ k.pc = s.pc /\ k.after = s.after /\ k.rest = s.rest
      /\ k.fallback = s.fallback /\ k.mark = s.mark
  <2>1. Append(s.pending, n) \in Seq(Nat) /\ s.output \in Seq(Items)
    BY <1>1, <1>2
  <2> QED
    BY <2>1 DEF Kept, Subs
<1>4. Len(s.pending) \in Nat /\ Len(s.output) \in Nat
  BY <1>1
<1>5. Retained(k) = Retained(s) + 1 /\ Retained(s) \in Nat
  <2>1. Waiting(k) = Waiting(s) + 1
    BY <1>2, <1>3 DEF Waiting
  <2>2. Queued(k) = Queued(s)
    BY <1>3 DEF Queued
  <2>3. /\ Waiting(s) \in Nat /\ Queued(s) \in Nat /\ s.inFlight \in Nat
        /\ Retained(s) = Waiting(s) + Queued(s) + s.inFlight
    BY RetainedFacts
  <2>4. Retained(k) = Waiting(k) + Queued(k) + s.inFlight
    BY <1>3, RetainedFacts
  <2> QED
    BY <2>1, <2>2, <2>3, <2>4
<1>6. ASSUME NEW j \in 1..Len(k.pending)
      PROVE  /\ k.pending[j] \in 1..n
             /\ \A i \in 1..Len(s.output) : s.output[i].is = "event" => s.output[i].seq < k.pending[j]
  <2>1. CASE j \in 1..Len(s.pending)
    BY <1>1, <1>2, <1>3, <2>1 DEF Buffered
  <2>2. CASE j = Len(s.pending) + 1
    BY <1>1, <1>2, <1>3, <2>2 DEF NextTaken
  <2> QED
    BY <1>2, <1>3, <1>4, <2>1, <2>2
<1>7. Buffered(k)
  <2>1. k.pending = Append(s.pending, n) /\ k.output = s.output /\ k.pulled = n
    BY <1>1, <1>3
  <2> QED
    BY <1>1, <1>2, <1>6, <2>1 DEF Buffered
<1>8. SameReading(s, k)
  BY <1>3 DEF SameReading
<1> QED
  BY <1>1, <1>3, <1>5, <1>7, <1>8 DEF k

LEMMA OfferFacts ==
    ASSUME NEW s \in Subs, NEW n, Buffered(s), NextTaken(s, n), Retained(s) <= MaxItems
    PROVE  /\ Offer(s, n) \in Subs
           /\ Buffered(Offer(s, n))
           /\ Retained(Offer(s, n)) <= MaxItems
           /\ SameReading(s, Offer(s, n))
           /\ Offer(s, n).inFlight = s.inFlight
           /\ Offer(s, n).pulled \in {0, n}
           /\ \/ Offer(s, n) = Overflow(s)
              \/ Offer(s, n) = Kept(s, n) /\ log[n] \in Calls
              \/ Offer(s, n) = Flush(Kept(s, n))
<1> DEFINE k == Kept(s, n)
           f == Flush(k)
           o == Overflow(s)
<1>1. /\ k \in Subs
      /\ Buffered(k)
      /\ Retained(k) = Retained(s) + 1
      /\ Retained(s) \in Nat
      /\ k.pulled = n
      /\ k.inFlight = s.inFlight
      /\ SameReading(s, k)
  BY KeptFacts
<1>2. /\ o \in Subs
      /\ Buffered(o)
      /\ o.pulled = 0
      /\ o.inFlight = s.inFlight
      /\ SameReading(s, o)
      /\ Retained(o) = s.inFlight
  BY OverflowFacts
<1>3. Offer(s, n) = IF Retained(s) >= MaxItems THEN o
                    ELSE IF log[n] \in Calls /\ Len(k.pending) < MaxPending THEN k ELSE f
  BY DEF Offer, Kept
<1> HIDE DEF k
<1>4. /\ f \in Subs
      /\ f.pulled = k.pulled
      /\ f.inFlight = k.inFlight
      /\ SameReading(k, f)
      /\ Buffered(f)
      /\ Retained(f) <= Retained(k)
      /\ Retained(f) \in Nat
  BY <1>1, FlushFacts, RetainedFacts
<1> HIDE DEF f, o
<1>5. CASE Retained(s) >= MaxItems
  <2>1. Offer(s, n) = o
    BY <1>3, <1>5
  <2>2. s.inFlight <= Retained(s)
    BY RetainedFacts
  <2>3. Retained(o) <= MaxItems
    BY <1>1, <1>2, <2>2, RetainedFacts, SizesAssumption
  <2> QED
    BY <1>2, <2>1, <2>3 DEF o
<1>6. CASE ~(Retained(s) >= MaxItems) /\ Offer(s, n) = k /\ log[n] \in Calls
  <2>1. Retained(k) <= MaxItems
    BY <1>1, <1>6, SizesAssumption
  <2> QED
    BY <1>1, <1>6, <2>1 DEF k
<1>7. CASE ~(Retained(s) >= MaxItems) /\ Offer(s, n) = f
  <2>1. Retained(f) <= MaxItems
    BY <1>1, <1>4, <1>7, SizesAssumption
  <2>2. SameReading(s, f)
    BY <1>1, <1>4 DEF SameReading
  <2> QED
    BY <1>1, <1>4, <1>7, <2>1, <2>2 DEF f, k
<1> QED
  BY <1>3, <1>5, <1>6, <1>7

-----------------------------------------------------------------------------
(***************************************************************************)
(* The invariants.                                                         *)
(***************************************************************************)

(* Nothing is created after n.                                             *)
Current(n) == \A m \in (n + 1)..Len(log) : log[m] # "created"

(* Where the actors are: a client that is away has no subscription and no  *)
(* chunks, only a subscribed client has a subscription, the cursor is that *)
(* of the pair or, half way through a chunk, what the chunk moves it to,   *)
(* and a client that shows the thread sees the last creation in the read   *)
(* model.                                                                  *)
Places ==
    /\ client.pc = "away" => sub = NoSub /\ inbox = << >> /\ ~client.applying
    /\ IF sub.pc = "none" THEN sub = NoSub ELSE client.pc = "subscribed"
    /\ client.applying => inbox # << >>
    /\ cursor = IF client.applying THEN Reached(Head(inbox), shown.seq) ELSE shown.seq
    /\ client.pc # "away" => Current(head)
    /\ shown.seq <= Len(log) /\ cache.seq <= Len(log)

(* The subscription has read and taken what the engine has published.      *)
Reads ==
    /\ Increasing(sub.rest)
    /\ \A k \in 1..Len(sub.rest) : sub.rest[k] \in 1..sub.mark
    /\ sub.mark <= Len(log)
    /\ sub.pulled <= published

(* The buffer of the subscription holds events of the log, in order.       *)
Buffers == Buffered(sub) /\ Within(sub.output, Len(log))

(* A chunk is in order and in the log; a snapshot is a chunk of its own,   *)
(* of the thread that exists.                                              *)
ChunkOK(chunk) ==
    /\ Sorted(chunk) /\ Whole(chunk) /\ Within(chunk, Len(log))
    /\ \A k \in SnapshotOf(chunk) : Current(chunk[k].seq)

Chunks == \A i \in 1..Len(inbox) : ChunkOK(inbox[i])

Shape == TypeOK /\ Places /\ Reads /\ Buffers /\ Chunks

LEMMA TypeFacts ==
    ASSUME TypeOK
    PROVE  /\ log \in Seq(Kinds) /\ Len(log) \in Nat
           /\ published \in Nat /\ head \in Nat /\ published <= head /\ head <= Len(log)
           /\ sub \in Subs /\ Retained(sub) <= MaxItems
           /\ inbox \in Seq(Seq(Items)) /\ Len(inbox) \in Nat
           /\ cursor \in Nat /\ shown \in Pairs /\ cache \in Pairs
           /\ upsets \in Nat
<1>1. log \in Seq(Kinds) /\ inbox \in Seq(Seq(Items))
  BY DEF TypeOK
<1>2. Len(log) \in Nat /\ Len(inbox) \in Nat
  BY <1>1
<1>3. published \in Nat /\ head \in Nat /\ published <= head /\ head <= Len(log)
  BY <1>2 DEF TypeOK
<1>4. upsets \in Nat
  BY DEF TypeOK
<1> QED
  BY <1>1, <1>2, <1>3, <1>4 DEF TypeOK, Subs

LEMMA PairFacts ==
    ASSUME NEW pair \in Pairs
    PROVE  pair.has \in BOOLEAN /\ pair.thread \in Seq(Nat) /\ pair.seq \in Nat
BY DEF Pairs

LEMMA ItemFacts ==
    ASSUME NEW chunk \in Seq(Items)
    PROVE  /\ Len(chunk) \in Nat
           /\ \A k \in 1..Len(chunk) : chunk[k] \in Items /\ chunk[k].seq \in Nat
<1>1. \A item \in Items : item.seq \in Nat
  BY DEF Items
<1>2. Len(chunk) \in Nat /\ \A k \in 1..Len(chunk) : chunk[k] \in Items
  OBVIOUS
<1> QED
  BY <1>1, <1>2

(* A pair after more events.                                               *)
Extended(pair, t, m) == [pair EXCEPT !.thread = @ \o t, !.seq = m]
Moved(pair, m) == [pair EXCEPT !.seq = m]

LEMMA ExtendedFacts ==
    ASSUME NEW pair \in Pairs, NEW t \in Seq(Nat), NEW m \in Nat
    PROVE  /\ Extended(pair, t, m) \in Pairs
           /\ Extended(pair, t, m).has = pair.has
           /\ Extended(pair, t, m).seq = m
           /\ Extended(pair, t, m).thread = pair.thread \o t
<1>1. pair.thread \in Seq(Nat)
  BY DEF Pairs
<1>2. pair.thread \o t \in Seq(Nat)
  BY <1>1
<1> QED
  BY <1>2 DEF Pairs, Extended

LEMMA MovedFacts ==
    ASSUME NEW pair \in Pairs, NEW m \in Nat
    PROVE  /\ Moved(pair, m) \in Pairs
           /\ Moved(pair, m).has = pair.has
           /\ Moved(pair, m).seq = m
           /\ Moved(pair, m).thread = pair.thread
BY DEF Pairs, Moved

(* What the client makes of a chunk.                                       *)
LEMMA AppliedFacts ==
    ASSUME NEW chunk \in Seq(Items), shown \in Pairs, NEW b \in Nat,
           Sorted(chunk), Whole(chunk), Within(chunk, b), shown.seq <= b,
           cursor = Reached(chunk, shown.seq)
    PROVE  /\ cursor \in Nat /\ cursor <= b
           /\ Applied(chunk, shown.seq) \in Pairs
           /\ Applied(chunk, shown.seq).seq = cursor
           /\ Passed(chunk, shown.seq) \in SUBSET Pairs
           /\ \A p \in Passed(chunk, shown.seq) : p.seq <= b
<1> DEFINE new == NewEvents(chunk, shown.seq)
<1>1. shown.seq \in Nat /\ shown.thread \in Seq(Nat) /\ shown.has \in BOOLEAN
  BY PairFacts
<1>2. /\ cursor \in Nat
      /\ SnapshotOf(chunk) # {} =>
            Len(chunk) = 1 /\ chunk[1].is = "snapshot" /\ cursor = chunk[1].seq
      /\ cursor = shown.seq \/ \E i \in 1..Len(chunk) : chunk[i].seq = cursor
  <2>1. /\ Reached(chunk, shown.seq) \in Nat
        /\ SnapshotOf(chunk) # {} =>
              Len(chunk) = 1 /\ chunk[1].is = "snapshot" /\ Reached(chunk, shown.seq) = chunk[1].seq
        /\ \/ Reached(chunk, shown.seq) = shown.seq
           \/ \E i \in 1..Len(chunk) : Data(chunk[i]) /\ chunk[i].seq = Reached(chunk, shown.seq)
    BY <1>1, ReachedFacts
  <2> QED
    BY <2>1
<1>3. \A i \in 1..Len(chunk) : chunk[i].seq \in Nat /\ chunk[i].seq <= b
  BY ItemFacts DEF Within
<1>4. cursor <= b
  BY <1>2, <1>3
<1>5. /\ new \in Seq(Nat)
      /\ \A k \in 1..Len(new) :
            \E i \in 1..Len(chunk) :
               chunk[i].is = "event" /\ chunk[i].seq > shown.seq /\ chunk[i].seq = new[k]
  BY <1>1, NewEventsFacts
<1>6. \A k \in 1..Len(new) : new[k] \in Nat /\ new[k] <= b
  BY <1>3, <1>5
<1>7. CASE SnapshotOf(chunk) # {}
  <2>1. Applied(chunk, shown.seq) = Prefix(cursor)
    BY <1>2, <1>7 DEF Applied
  <2>2. Passed(chunk, shown.seq) = {Prefix(cursor)}
    BY <1>7, <2>1 DEF Passed
  <2>3. Prefix(cursor) \in Pairs /\ Prefix(cursor).seq = cursor
    BY <1>2, PrefixFacts
  <2> QED
    BY <1>2, <1>4, <2>1, <2>2, <2>3
<1>8. CASE SnapshotOf(chunk) = {}
  <2> HIDE DEF new
  <2>1. Applied(chunk, shown.seq) =
           IF shown.has THEN Extended(shown, new, cursor) ELSE Moved(shown, cursor)
    BY <1>8 DEF Applied, new, Extended, Moved
  <2>3. Applied(chunk, shown.seq) \in Pairs /\ Applied(chunk, shown.seq).seq = cursor
    <3>1. Extended(shown, new, cursor) \in Pairs /\ Extended(shown, new, cursor).seq = cursor
      BY <1>2, <1>5, ExtendedFacts
    <3>2. Moved(shown, cursor) \in Pairs /\ Moved(shown, cursor).seq = cursor
      BY <1>2, MovedFacts
    <3> QED
      BY <1>1, <2>1, <3>1, <3>2
  <2>4. Passed(chunk, shown.seq) = {Extended(shown, SubSeq(new, 1, k), new[k]) : k \in 1..Len(new)}
    BY <1>8 DEF Passed, new, Extended
  <2>5. ASSUME NEW k \in 1..Len(new)
        PROVE  /\ Extended(shown, SubSeq(new, 1, k), new[k]) \in Pairs
               /\ Extended(shown, SubSeq(new, 1, k), new[k]).seq <= b
    <3>1. SubSeq(new, 1, k) \in Seq(Nat)
      BY <1>5
    <3> QED
      BY <1>6, <3>1, ExtendedFacts
  <2>6. Passed(chunk, shown.seq) \in SUBSET Pairs /\ \A p \in Passed(chunk, shown.seq) : p.seq <= b
    BY <2>4, <2>5
  <2> QED
    BY <1>2, <1>4, <2>3, <2>6
<1> QED
  BY <1>7, <1>8

-----------------------------------------------------------------------------
(***************************************************************************)
(* The shape of the state is kept.                                         *)
(***************************************************************************)
LEMMA NoSubFacts ==
    /\ NoSub \in Subs /\ NoSub.pc = "none"
    /\ \A after \in Nat \cup {NoCursor} :
          published \in Nat => /\ Attached(after) \in Subs
                               /\ Attached(after).pc = "reading"
                               /\ Attached(after).after = after
                               /\ Attached(after).pulled = published
                               /\ Attached(after).pending = << >> /\ Attached(after).output = << >>
                               /\ Attached(after).rest = << >> /\ Attached(after).mark = 0
                               /\ Attached(after).inFlight = 0 /\ Attached(after).full = FALSE
<1>1. NoSub \in Subs /\ NoSub.pc = "none"
  <2>1. << >> \in Seq(Nat) /\ << >> \in Seq(Items) /\ NoCursor \in Nat \cup {NoCursor}
    BY EmptyFacts
  <2> QED
    BY <2>1, Zenon DEF NoSub, Subs
<1> QED
  BY <1>1 DEF Attached, Subs, NoSub

(* The conditions on a new subscription state.                             *)
Sound(s) ==
    /\ s \in Subs
    /\ Retained(s) <= MaxItems
    /\ Buffered(s)
    /\ Within(s.output, Len(log))
    /\ Increasing(s.rest)
    /\ \A k \in 1..Len(s.rest) : s.rest[k] \in 1..s.mark
    /\ s.mark <= Len(log)
    /\ s.pulled <= published

LEMMA SoundNow == ASSUME Shape PROVE Sound(sub)
<1>1. sub \in Subs
  BY DEF Shape, TypeOK, Subs
<1> QED
  BY <1>1 DEF Shape, TypeOK, Reads, Buffers, Sound

LEMMA Empties ==
    ASSUME NEW s \in Subs, s.pending = << >>, s.output = << >>, s.rest = << >>, s.inFlight = 0,
           s.mark <= Len(log), s.pulled <= published
    PROVE  Sound(s)
<1>1. Len(s.pending) = 0 /\ Len(s.output) = 0 /\ Len(s.rest) = 0
  BY EmptyFacts, Zenon
<1>2. Waiting(s) = 0 /\ Queued(s) = 0
  BY <1>1 DEF Waiting, Queued
<1>3. Retained(s) <= MaxItems
  <2>1. Retained(s) = Waiting(s) + Queued(s) + s.inFlight
    BY RetainedFacts
  <2>2. Retained(s) = 0
    BY <1>2, <2>1
  <2> QED
    BY <2>2, SizesAssumption
<1>4. Buffered(s)
  BY <1>1 DEF Buffered, Increasing, Sorted, SnapshotOf
<1> QED
  BY <1>1, <1>3, <1>4 DEF Sound, Within, Increasing

LEMMA Unsubscribed ==
    ASSUME TypeOK
    PROVE  /\ Sound(NoSub)
           /\ \A after \in Nat \cup {NoCursor} : Sound(Attached(after))
<1>1. Len(log) \in Nat /\ published \in Nat
  BY TypeFacts
<1>2. Sound(NoSub)
  BY <1>1, NoSubFacts, Empties DEF NoSub
<1>3. ASSUME NEW after \in Nat \cup {NoCursor}
      PROVE  Sound(Attached(after))
  <2>1. /\ Attached(after) \in Subs
        /\ Attached(after).pulled = published
        /\ Attached(after).pending = << >> /\ Attached(after).output = << >>
        /\ Attached(after).rest = << >> /\ Attached(after).mark = 0
        /\ Attached(after).inFlight = 0
    BY <1>1, NoSubFacts
  <2> QED
    BY <1>1, <2>1, Empties
<1> QED
  BY <1>2, <1>3

(* A step of the subscription that sends nothing.                          *)
LEMMA SubStep ==
    ASSUME Shape, Sound(sub'), sub.pc # "none", sub'.pc # "none",
           UNCHANGED <<log, head, published, inbox, client, cursor, shown, cache>>,
           upsets' \in 0..MaxUpsets
    PROVE  Shape'
<1>1. TypeOK'
  BY DEF Shape, TypeOK, Sound, Subs
<1>2. Places'
  BY DEF Shape, Places, Current
<1>3. Reads' /\ Buffers'
  BY DEF Sound, Reads, Buffers
<1>4. Chunks'
  BY DEF Shape, Chunks, ChunkOK, Current
<1> QED
  BY <1>1, <1>2, <1>3, <1>4 DEF Shape

LEMMA AppendFacts ==
    ASSUME NEW S, NEW s \in Seq(S), NEW x \in S
    PROVE  /\ Append(s, x) \in Seq(S)
           /\ Len(Append(s, x)) = Len(s) + 1 /\ Len(s) \in Nat
           /\ \A i \in 1..Len(s) : Append(s, x)[i] = s[i]
           /\ Append(s, x)[Len(s) + 1] = x
           /\ Append(s, x) # << >>
           /\ s # << >> => Head(Append(s, x)) = Head(s)
           /\ s = << >> => Head(Append(s, x)) = x
<1> DEFINE a == Append(s, x)
<1>1. /\ a \in Seq(S) /\ Len(a) = Len(s) + 1 /\ Len(s) \in Nat
      /\ \A i \in 1..Len(s) : a[i] = s[i]
      /\ a[Len(s) + 1] = x
  OBVIOUS
<1>2. Head(a) = a[1]
  OBVIOUS
<1>3. s # << >> => 1 \in 1..Len(s) /\ Head(s) = s[1]
  OBVIOUS
<1>4. s = << >> => Len(s) = 0
  OBVIOUS
<1> HIDE DEF a
<1>5. a # << >>
  <2>1. Len(a) # 0
    BY <1>1
  <2> QED
    BY <2>1, EmptyFacts
<1> QED
  BY <1>1, <1>2, <1>3, <1>4, <1>5 DEF a

(* A step of the subscription that sends a chunk.                          *)
LEMMA SendStep ==
    ASSUME Shape, Sound(sub'), sub.pc # "none", sub'.pc # "none", NEW chunk \in Seq(Items), ChunkOK(chunk),
           inbox' = Append(inbox, chunk),
           UNCHANGED <<log, head, published, client, cursor, shown, cache, upsets>>
    PROVE  Shape'
<1>1. inbox \in Seq(Seq(Items)) /\ inbox' \in Seq(Seq(Items))
  <2>1. inbox \in Seq(Seq(Items))
    BY TypeFacts DEF Shape
  <2> QED
    BY <2>1, AppendFacts
<1>2. /\ Len(inbox') = Len(inbox) + 1 /\ Len(inbox) \in Nat
      /\ \A i \in 1..Len(inbox) : inbox'[i] = inbox[i]
      /\ inbox'[Len(inbox) + 1] = chunk
      /\ inbox' # << >>
      /\ inbox # << >> => Head(inbox') = Head(inbox)
  BY <1>1, AppendFacts
<1>3. TypeOK'
  BY <1>1 DEF Shape, TypeOK, Sound, Subs
<1>4. Places'
  BY <1>2 DEF Shape, Places, Current
<1>5. Reads' /\ Buffers'
  BY DEF Sound, Reads, Buffers
<1>6. Chunks'
  <2>1. ASSUME NEW i \in 1..Len(inbox')
        PROVE  ChunkOK(inbox'[i])
    <3>1. CASE i \in 1..Len(inbox)
      BY <1>2, <3>1 DEF Shape, Chunks
    <3>2. CASE i = Len(inbox) + 1
      BY <1>2, <3>2
    <3> QED
      BY <1>2, <3>1, <3>2
  <2> QED
    BY <2>1 DEF Chunks, ChunkOK, Current
<1> QED
  BY <1>3, <1>4, <1>5, <1>6 DEF Shape

(* A step of the client that takes up or drops a subscription.             *)
LEMMA ClientStep ==
    ASSUME Shape, client.pc # "away", client'.pc # "away", client'.applying = client.applying,
           Sound(sub'), IF sub'.pc = "none" THEN sub' = NoSub ELSE client'.pc = "subscribed",
           TypeOK',
           UNCHANGED <<log, head, published, inbox, cursor, shown, cache>>
    PROVE  Shape'
<1>1. Places'
  BY DEF Shape, Places, Current
<1>2. Reads' /\ Buffers'
  BY DEF Sound, Reads, Buffers
<1>3. Chunks'
  BY DEF Shape, Chunks, ChunkOK, Current
<1> QED
  BY <1>1, <1>2, <1>3 DEF Shape

-----------------------------------------------------------------------------
(***************************************************************************)
(* The buffer's steps.                                                     *)
(***************************************************************************)

(* What is queued by a flush is in the log, like what was queued before.   *)
LEMMA FlushWithin ==
    ASSUME NEW s \in Subs, Buffered(s), NEW b \in Nat, Within(s.output, b), s.pulled <= b
    PROVE  Within(Flush(s).output, b)
<1> DEFINE e == Events(Coalesce(s.pending))
           out == s.output \o e
           f == Flush(s)
<1>1. s.output \in Seq(Items) /\ s.pending \in Seq(Nat) /\ s.pulled \in Nat
  BY DEF Subs
<1>2. Coalesce(s.pending) \in Seq(Nat)
  BY <1>1, CoalesceFacts DEF Buffered
<1>3. /\ e \in Seq(Items)
      /\ \A k \in 1..Len(e) : e[k].is = "event"
  BY <1>2, EventsFacts
<1>4. f.output = out /\ f.pulled = s.pulled /\ Buffered(f)
  BY FlushFacts
<1> HIDE DEF e, f
<1>5. /\ Len(out) = Len(s.output) + Len(e) /\ Len(s.output) \in Nat /\ Len(e) \in Nat
      /\ \A k \in 1..Len(s.output) : out[k] = s.output[k]
      /\ \A k \in 1..Len(e) : out[Len(s.output) + k] = e[k]
  BY <1>1, <1>3
<1> HIDE DEF out
<1>6. ASSUME NEW k \in 1..Len(out)
      PROVE  out[k].seq <= b /\ (out[k].is = "event" => out[k].seq >= 1)
  <2>1. CASE k \in 1..Len(s.output)
    BY <1>5, <2>1 DEF Within
  <2>2. CASE k \notin 1..Len(s.output)
    <3>1. (k - Len(s.output)) \in 1..Len(e) /\ k = Len(s.output) + (k - Len(s.output))
      BY <1>5, <2>2
    <3>2. out[k].is = "event"
      BY <1>3, <1>5, <3>1
    <3>3. out[k].seq \in 1..s.pulled
      BY <1>4, <3>2 DEF Buffered
    <3> QED
      BY <1>1, <3>3
  <2> QED
    BY <2>1, <2>2
<1> QED
  BY <1>4, <1>6 DEF Within, f

LEMMA FlushSound ==
    ASSUME NEW s, Sound(s), TypeOK
    PROVE  Sound(Flush(s))
<1>1. s \in Subs /\ Buffered(s) /\ Len(log) \in Nat /\ published <= Len(log) /\ published \in Nat
      /\ s.pulled \in Nat /\ s.pulled <= published
  <2>1. s \in Subs /\ s.pulled <= published /\ Buffered(s)
    BY DEF Sound
  <2>2. s.pulled \in Nat
    BY <2>1 DEF Subs
  <2> QED
    BY <2>1, <2>2, TypeFacts
<1>2. /\ Flush(s) \in Subs /\ Flush(s).pulled = s.pulled
      /\ SameReading(s, Flush(s)) /\ Buffered(Flush(s)) /\ Retained(Flush(s)) <= Retained(s)
      /\ Retained(Flush(s)) \in Nat /\ Retained(s) \in Nat
  BY <1>1, FlushFacts, RetainedFacts
<1>3. Within(Flush(s).output, Len(log))
  <2>1. s.pulled <= Len(log)
    BY <1>1
  <2> QED
    BY <1>1, <2>1, FlushWithin DEF Sound
<1>4. Retained(Flush(s)) <= MaxItems
  <2>1. Retained(s) <= MaxItems /\ MaxItems \in Nat
    BY SizesAssumption DEF Sound
  <2> QED
    BY <1>2, <2>1
<1> QED
  BY <1>2, <1>3, <1>4 DEF Sound, SameReading

LEMMA OverflowSound ==
    ASSUME NEW s, Sound(s), TypeOK
    PROVE  Sound(Overflow(s))
<1>1. s \in Subs /\ s.inFlight \in Nat /\ Retained(s) <= MaxItems /\ published \in Nat
  BY TypeFacts DEF Sound, Subs
<1>2. /\ Overflow(s) \in Subs /\ Buffered(Overflow(s)) /\ Overflow(s).output = << >>
      /\ Overflow(s).pulled = 0 /\ SameReading(s, Overflow(s)) /\ Retained(Overflow(s)) = s.inFlight
  BY <1>1, OverflowFacts
<1>3. Retained(Overflow(s)) <= MaxItems
  <2>1. Retained(s) = Waiting(s) + Queued(s) + s.inFlight /\ Waiting(s) \in Nat /\ Queued(s) \in Nat
    BY <1>1, RetainedFacts
  <2>2. MaxItems \in Nat
    BY SizesAssumption
  <2> QED
    BY <1>1, <1>2, <2>1, <2>2
<1>4. Len(Overflow(s).output) = 0
  BY <1>2, EmptyFacts
<1> QED
  BY <1>1, <1>2, <1>3, <1>4 DEF Sound, SameReading, Within

PulledTo(s, n) == [s EXCEPT !.pulled = n]

Pulled(s) == PulledTo(s, s.pulled + 1)

LEMMA PulledToFacts ==
    ASSUME NEW s \in Subs, NEW n \in Nat
    PROVE  /\ PulledTo(s, n) \in Subs
           /\ PulledTo(s, n).pending = s.pending /\ PulledTo(s, n).output = s.output
           /\ PulledTo(s, n).inFlight = s.inFlight
           /\ PulledTo(s, n).pulled = n /\ PulledTo(s, n).full = s.full
           /\ PulledTo(s, n).pc = s.pc /\ PulledTo(s, n).after = s.after
           /\ PulledTo(s, n).rest = s.rest
           /\ PulledTo(s, n).fallback = s.fallback /\ PulledTo(s, n).mark = s.mark
BY DEF Subs, PulledTo

LEMMA PulledFacts ==
    ASSUME NEW s, Sound(s), TypeOK, s.pulled < published
    PROVE  /\ Sound(Pulled(s))
           /\ NextTaken(Pulled(s), s.pulled + 1)
           /\ SameReading(s, Pulled(s))
           /\ Pulled(s).pending = s.pending /\ Pulled(s).output = s.output
           /\ Pulled(s).inFlight = s.inFlight /\ Pulled(s).pulled = s.pulled + 1
           /\ Pulled(s).full = s.full
<1> DEFINE p == Pulled(s)
<1>1. s \in Subs /\ s.pulled \in Nat /\ published \in Nat
  BY TypeFacts DEF Sound, Subs
<1>2. /\ p \in Subs /\ p.pending = s.pending /\ p.output = s.output /\ p.inFlight = s.inFlight
      /\ p.pulled = s.pulled + 1 /\ p.full = s.full
      /\ p.pc = s.pc /\ p.after = s.after /\ p.rest = s.rest
      /\ p.fallback = s.fallback /\ p.mark = s.mark
  <2>1. s.pulled + 1 \in Nat
    BY <1>1
  <2> QED
    BY <1>1, <2>1, PulledToFacts DEF Pulled
<1> HIDE DEF p
<1>3. Retained(p) = Retained(s)
  BY <1>2, Zenon DEF Retained
<1>4. \A k \in 1..Len(s.pending) : s.pending[k] \in 1..s.pulled
  BY DEF Sound, Buffered
<1>5. \A k \in 1..Len(s.output) : s.output[k].is = "event" => s.output[k].seq \in 1..s.pulled
  BY DEF Sound, Buffered
<1>6. Buffered(p)
  <2>1. \A k \in 1..Len(p.pending) : p.pending[k] \in 1..p.pulled
    BY <1>1, <1>2, <1>4
  <2>2. \A k \in 1..Len(p.output) : p.output[k].is = "event" => p.output[k].seq \in 1..p.pulled
    BY <1>1, <1>2, <1>5
  <2>3. Buffered(s)
    BY DEF Sound
  <2> QED
    BY <1>2, <2>1, <2>2, <2>3 DEF Buffered
<1>7. NextTaken(p, s.pulled + 1)
  <2>1. \A k \in 1..Len(p.pending) : p.pending[k] < s.pulled + 1
    BY <1>1, <1>2, <1>4
  <2>2. \A k \in 1..Len(p.output) : p.output[k].is = "event" => p.output[k].seq < s.pulled + 1
    BY <1>1, <1>2, <1>5
  <2> QED
    BY <1>1, <1>2, <2>1, <2>2 DEF NextTaken
<1>8. SameReading(s, p)
  BY <1>2 DEF SameReading
<1>9. Sound(p)
  BY <1>1, <1>2, <1>3, <1>6 DEF Sound
<1> QED
  BY <1>2, <1>7, <1>8, <1>9 DEF p

LEMMA OfferSound ==
    ASSUME NEW s, NEW n, Sound(s), TypeOK, NextTaken(s, n)
    PROVE  Sound(Offer(s, n))
<1>1. /\ s \in Subs /\ Buffered(s) /\ Retained(s) <= MaxItems
      /\ n \in Nat /\ n = s.pulled /\ n <= published
      /\ published \in Nat /\ published <= Len(log) /\ Len(log) \in Nat
  BY TypeFacts DEF Sound, NextTaken
<1>2. /\ Offer(s, n) \in Subs
      /\ Buffered(Offer(s, n))
      /\ Retained(Offer(s, n)) <= MaxItems
      /\ SameReading(s, Offer(s, n))
      /\ Offer(s, n).pulled \in {0, n}
      /\ \/ Offer(s, n) = Overflow(s)
         \/ Offer(s, n) = Kept(s, n)
         \/ Offer(s, n) = Flush(Kept(s, n))
  BY <1>1, OfferFacts
<1>3. /\ Kept(s, n) \in Subs /\ Buffered(Kept(s, n))
      /\ Kept(s, n).pulled = n /\ Kept(s, n).output = s.output
  BY <1>1, KeptFacts
<1>4. Within(s.output, Len(log))
  BY DEF Sound
<1>5. Within(Offer(s, n).output, Len(log))
  <2>1. CASE Offer(s, n) = Overflow(s)
    BY <2>1, OverflowSound DEF Sound
  <2>2. CASE Offer(s, n) = Kept(s, n)
    BY <1>3, <1>4, <2>2
  <2>3. CASE Offer(s, n) = Flush(Kept(s, n))
    <3>1. Kept(s, n).pulled <= Len(log) /\ Within(Kept(s, n).output, Len(log))
      BY <1>1, <1>3, <1>4
    <3> QED
      BY <1>1, <1>3, <2>3, <3>1, FlushWithin
  <2> QED
    BY <1>2, <2>1, <2>2, <2>3
<1>6. Offer(s, n).pulled <= published
  BY <1>1, <1>2
<1> QED
  BY <1>2, <1>5, <1>6 DEF Sound, SameReading

-----------------------------------------------------------------------------
(***************************************************************************)
(* The subscription's steps.                                               *)
(***************************************************************************)

(* A step that leaves the buffer alone.                                    *)
SameBuffer(s, t) ==
    /\ t.pending = s.pending /\ t.output = s.output /\ t.inFlight = s.inFlight
    /\ t.pulled = s.pulled /\ t.full = s.full

LEMMA SameBufferSound ==
    ASSUME NEW s, Sound(s), NEW t \in Subs, SameBuffer(s, t),
           Increasing(t.rest), \A k \in 1..Len(t.rest) : t.rest[k] \in 1..t.mark,
           t.mark <= Len(log)
    PROVE  Sound(t)
<1>1. Retained(t) = Retained(s)
  BY Zenon DEF Retained, SameBuffer
<1>2. Buffered(t)
  BY DEF Sound, Buffered, SameBuffer
<1> QED
  BY <1>1, <1>2 DEF Sound, SameBuffer

Read(s, pc, after, rest, fallback, mark) ==
    [s EXCEPT !.pc = pc, !.after = after, !.rest = rest, !.fallback = fallback, !.mark = mark]
ReadAll(s, pc, rest, fallback, mark) ==
    [s EXCEPT !.pc = pc, !.rest = rest, !.fallback = fallback, !.mark = mark]
ReadNone(s, pc, fallback) == [s EXCEPT !.pc = pc, !.fallback = fallback]
Rested(s, rest) == [s EXCEPT !.rest = rest]
Ended(s) == [s EXCEPT !.pc = "failed"]

LEMMA RestedFacts ==
    ASSUME NEW s \in Subs, NEW rest \in Seq(Nat)
    PROVE  /\ Rested(s, rest) \in Subs
           /\ Rested(s, rest).pc = s.pc
           /\ Rested(s, rest).after = s.after
           /\ Rested(s, rest).rest = rest
           /\ Rested(s, rest).fallback = s.fallback
           /\ Rested(s, rest).mark = s.mark
           /\ SameBuffer(s, Rested(s, rest))
BY DEF Subs, Rested, SameBuffer

LEMMA EndedFacts ==
    ASSUME NEW s \in Subs
    PROVE  /\ Ended(s) \in Subs
           /\ Ended(s).pc = "failed"
           /\ Ended(s).after = s.after
           /\ Ended(s).rest = s.rest
           /\ Ended(s).fallback = s.fallback
           /\ Ended(s).mark = s.mark
           /\ SameBuffer(s, Ended(s))
BY DEF Subs, Ended, SameBuffer

LEMMA EndedSound ==
    ASSUME NEW s, Sound(s)
    PROVE  Sound(Ended(s))
<1>1. s \in Subs
  BY DEF Sound
<1>2. /\ Ended(s) \in Subs /\ Ended(s).rest = s.rest /\ Ended(s).mark = s.mark
      /\ SameBuffer(s, Ended(s))
  BY <1>1, EndedFacts
<1> QED
  BY <1>2, SameBufferSound DEF Sound

LEMMA IntakeShape == ASSUME Shape, Intake PROVE Shape'
<1> DEFINE n == sub.pulled + 1
           p == Pulled(sub)
<1>1. Sound(sub) /\ TypeOK
  BY SoundNow DEF Shape
<1>2. sub.pc # "none" /\ sub.pulled < published
  BY DEF Intake, Streaming
<1>3. Sound(p) /\ NextTaken(p, n)
  BY <1>1, <1>2, PulledFacts
<1>4. sub' = IF Detail(n) THEN Offer(p, n) ELSE p
  BY DEF Intake, Pulled, PulledTo
<1> HIDE DEF p
<1>5. Sound(Offer(p, n))
  BY <1>1, <1>3, OfferSound
<1>8. sub'.pc # "none"
  <2>1. p.pc = sub.pc
    BY <1>1, <1>2, PulledFacts DEF SameReading, p
  <2>2. Offer(p, n).pc = p.pc
    BY <1>3, OfferFacts DEF Sound, SameReading
  <2> QED
    BY <1>2, <1>4, <2>1, <2>2
<1>6. /\ UNCHANGED <<log, head, published, inbox, client, cursor, shown, cache>>
      /\ upsets' \in 0..MaxUpsets
  BY <1>1 DEF Intake, view, TypeOK
<1>7. Sound(sub')
  BY <1>3, <1>4, <1>5
<1> QED
  BY <1>2, <1>6, <1>7, <1>8, SubStep

LEMMA FlushShape == ASSUME Shape, FlushWindow PROVE Shape'
<1>1. Sound(sub) /\ TypeOK
  BY SoundNow DEF Shape
<1>2. sub.pc # "none" /\ sub' = Flush(sub)
  BY DEF FlushWindow, Streaming
<1>3. /\ UNCHANGED <<log, head, published, inbox, client, cursor, shown, cache>>
      /\ upsets' \in 0..MaxUpsets
  BY <1>1 DEF FlushWindow, view, TypeOK
<1>4. Sound(sub')
  BY <1>1, <1>2, FlushSound
<1>5. sub'.pc = sub.pc
  BY <1>1, <1>2, FlushFacts DEF Sound, SameReading
<1> QED
  BY <1>2, <1>3, <1>4, <1>5, SubStep

(* What the measured range asks for.                                       *)
LEMMA MeasureFacts ==
    ASSUME TypeOK, Measure
    PROVE  /\ sub.pc = "reading"
           /\ UNCHANGED <<log, head, published, inbox, client, cursor, shown, cache>>
           /\ upsets' \in 0..MaxUpsets
           /\ \E pc \in {"catchUp", "snapshot"}, rest \in Seq(Nat), fallback \in BOOLEAN :
                 /\ sub' = Read(sub, pc, NoCursor, rest, fallback, head)
                 /\ pc = "catchUp" \/ fallback =>
                       /\ sub.after \in Nat /\ sub.after <= head
                       /\ rest = Details(sub.after, head)
                 /\ ~(pc = "catchUp" \/ fallback) => rest = << >>
                 /\ pc = "catchUp" =>
                       /\ ~fallback
                       /\ \A n \in (sub.after + 1)..head : log[n] # "created"
<1> DEFINE counted == sub.after # NoCursor /\ sub.after <= head /\ head - sub.after <= MaxReplay
           recreated == \E n \in (sub.after + 1)..head : log[n] = "created"
           pc(fits) == IF fits /\ ~recreated THEN "catchUp" ELSE "snapshot"
           rest(fits) == IF fits THEN Details(sub.after, head) ELSE << >>
<1>1. sub \in Subs /\ sub.after \in Nat \cup {NoCursor} /\ head \in Nat
  BY TypeFacts DEF Subs
<1>2. upsets \in 0..MaxUpsets /\ MaxUpsets \in Nat
  BY SizesAssumption DEF TypeOK
<1>3. PICK fits \in BOOLEAN :
         /\ sub' = [sub EXCEPT !.pc = pc(fits), !.after = NoCursor, !.rest = rest(fits),
                               !.fallback = fits /\ recreated, !.mark = head]
         /\ fits => counted
         /\ upsets' = upsets \/ (upsets < MaxUpsets /\ upsets' = upsets + 1)
  <2>1. \/ /\ sub' = [sub EXCEPT !.pc = pc(counted), !.after = NoCursor, !.rest = rest(counted),
                               !.fallback = counted /\ recreated, !.mark = head]
           /\ upsets' = upsets
        \/ /\ sub' = [sub EXCEPT !.pc = pc(FALSE), !.after = NoCursor, !.rest = rest(FALSE),
                               !.fallback = FALSE /\ recreated, !.mark = head]
           /\ upsets < MaxUpsets /\ upsets' = upsets + 1
    BY DEF Measure, Upset
  <2>2. counted \in BOOLEAN
    OBVIOUS
  <2> QED
    BY <2>1, <2>2
<1>4. counted => sub.after \in Nat /\ sub.after <= head
  BY <1>1
<1>5. rest(fits) \in Seq(Nat)
  <2>1. CASE fits
    BY <1>1, <1>3, <1>4, <2>1, DetailsFacts
  <2>2. CASE ~fits
    BY <2>2, EmptyFacts
  <2> QED
    BY <2>1, <2>2
<1>6. sub' = Read(sub, pc(fits), NoCursor, rest(fits), fits /\ recreated, head)
  BY <1>3 DEF Read
<1>7. upsets' \in 0..MaxUpsets
  BY <1>2, <1>3
<1>8. /\ sub.pc = "reading"
      /\ UNCHANGED <<log, head, published, inbox, client, cursor, shown, cache>>
  BY DEF Measure, view
<1>9. /\ pc(fits) \in {"catchUp", "snapshot"}
      /\ (fits /\ recreated) \in BOOLEAN
      /\ pc(fits) = "catchUp" \/ (fits /\ recreated) =>
            /\ sub.after \in Nat /\ sub.after <= head
            /\ rest(fits) = Details(sub.after, head)
      /\ ~(pc(fits) = "catchUp" \/ (fits /\ recreated)) => rest(fits) = << >>
      /\ pc(fits) = "catchUp" =>
            /\ ~(fits /\ recreated)
            /\ \A n \in (sub.after + 1)..head : log[n] # "created"
  BY <1>3, <1>4
<1> HIDE DEF pc, rest, recreated, counted
<1> QED
  BY <1>5, <1>6, <1>7, <1>8, <1>9

LEMMA MeasureShape == ASSUME Shape, Measure PROVE Shape'
<1>1. Sound(sub) /\ TypeOK
  BY SoundNow DEF Shape
<1>2. /\ sub.pc = "reading"
      /\ UNCHANGED <<log, head, published, inbox, client, cursor, shown, cache>>
      /\ upsets' \in 0..MaxUpsets
  BY <1>1, MeasureFacts
<1>3. PICK pc \in {"catchUp", "snapshot"}, rest \in Seq(Nat), fallback \in BOOLEAN :
         /\ sub' = Read(sub, pc, NoCursor, rest, fallback, head)
         /\ pc = "catchUp" \/ fallback =>
               /\ sub.after \in Nat /\ sub.after <= head
               /\ rest = Details(sub.after, head)
         /\ ~(pc = "catchUp" \/ fallback) => rest = << >>
  BY <1>1, MeasureFacts
<1>4. sub \in Subs /\ head \in Nat /\ head <= Len(log) /\ Len(log) \in Nat
  BY <1>1, TypeFacts
<1>5. /\ sub' \in Subs /\ sub'.rest = rest /\ sub'.mark = head /\ SameBuffer(sub, sub')
      /\ sub'.pc = pc
  <2>1. pc \in {"none", "reading", "snapshot", "catchUp", "live", "failed"}
    OBVIOUS
  <2>2. NoCursor \in Nat \cup {NoCursor}
    OBVIOUS
  <2>3. /\ Read(sub, pc, NoCursor, rest, fallback, head) \in Subs
        /\ Read(sub, pc, NoCursor, rest, fallback, head).rest = rest
        /\ Read(sub, pc, NoCursor, rest, fallback, head).mark = head
        /\ Read(sub, pc, NoCursor, rest, fallback, head).pc = pc
        /\ SameBuffer(sub, Read(sub, pc, NoCursor, rest, fallback, head))
    BY <1>4, <2>1, <2>2 DEF Read, Subs, SameBuffer
  <2> QED
    BY <1>3, <2>3, Zenon
<1>6. Increasing(rest) /\ \A k \in 1..Len(rest) : rest[k] \in 1..head
  <2>1. CASE pc = "catchUp" \/ fallback
    <3>1. sub.after \in Nat /\ sub.after <= head /\ rest = Details(sub.after, head)
      BY <1>3, <2>1
    <3>2. /\ Increasing(rest)
          /\ Elements(rest) = {n \in (sub.after + 1)..head : Detail(n)}
      BY <1>4, <3>1, DetailsFacts
    <3>3. \A k \in 1..Len(rest) : rest[k] \in Elements(rest)
      BY DEF Elements
    <3> QED
      BY <1>4, <3>1, <3>2, <3>3
  <2>2. CASE ~(pc = "catchUp" \/ fallback)
    <3>1. Len(rest) = 0
      BY <1>3, <2>2, EmptyFacts
    <3> QED
      BY <3>1 DEF Increasing
  <2> QED
    BY <2>1, <2>2
<1>7. Sound(sub')
  BY <1>1, <1>4, <1>5, <1>6, SameBufferSound
<1> QED
  BY <1>2, <1>5, <1>7, SubStep

LEMMA SubSeqFacts ==
    ASSUME NEW s \in Seq(Nat), Increasing(s), NEW a \in 1..(Len(s) + 1), NEW b \in 0..Len(s), a <= b + 1
    PROVE  /\ SubSeq(s, a, b) \in Seq(Nat)
           /\ Len(SubSeq(s, a, b)) = b - a + 1
           /\ \A i \in 1..Len(SubSeq(s, a, b)) : SubSeq(s, a, b)[i] = s[a + i - 1] /\ a + i - 1 \in 1..Len(s)
           /\ Increasing(SubSeq(s, a, b))
<1> DEFINE t == SubSeq(s, a, b)
<1>1. Len(s) \in Nat
  OBVIOUS
<1>2. t = [i \in 1..(b - a + 1) |-> s[a + i - 1]] /\ b - a + 1 \in Nat
  BY <1>1
<1> HIDE DEF t
<1>3. \A i \in 1..(b - a + 1) : a + i - 1 \in 1..Len(s) /\ t[i] = s[a + i - 1] /\ t[i] \in Nat
  BY <1>1, <1>2
<1>4. t \in Seq(Nat) /\ Len(t) = b - a + 1
  BY <1>2, <1>3
<1>5. ASSUME NEW k \in 1..Len(t), NEW j \in 1..(k - 1)
      PROVE  t[j] < t[k]
  <2>1. k \in 1..(b - a + 1) /\ j \in 1..(b - a + 1)
    BY <1>2, <1>4
  <2>2. t[k] = s[a + k - 1] /\ t[j] = s[a + j - 1] /\ a + k - 1 \in 1..Len(s)
    BY <1>3, <2>1
  <2>3. a + j - 1 \in 1..((a + k - 1) - 1)
    BY <2>1
  <2> QED
    BY <2>2, <2>3 DEF Increasing
<1> QED
  BY <1>3, <1>4, <1>5 DEF t, Increasing

LEMMA SnapshotShape == ASSUME Shape, ReadSnapshot PROVE Shape'
<1> DEFINE chunk == <<Snapshot(Len(log))>>
<1>1. Sound(sub) /\ TypeOK
  BY SoundNow DEF Shape
<1>2. sub \in Subs /\ Len(log) \in Nat
  BY <1>1, TypeFacts
<1>3. /\ UNCHANGED <<log, head, published, client, cursor, shown, cache, upsets>>
      /\ inbox' = Append(inbox, chunk)
      /\ sub.pc = "snapshot"
      /\ sub' = ReadAll(sub, "catchUp", << >>, FALSE, Len(log))
  BY DEF ReadSnapshot, Send, ReadAll
<1>4. /\ chunk \in Seq(Items) /\ Len(chunk) = 1 /\ chunk[1].is = "snapshot" /\ chunk[1].seq = Len(log)
  <2>1. Snapshot(Len(log)) \in Items /\ Snapshot(Len(log)).is = "snapshot" /\ Snapshot(Len(log)).seq = Len(log)
    BY <1>2 DEF Snapshot, Items
  <2> QED
    BY <2>1
<1> HIDE DEF chunk
<1>5. ChunkOK(chunk)
  <2>1. \A k \in 1..Len(chunk) : k = 1
    BY <1>4
  <2>2. Current(Len(log))
    BY <1>2 DEF Current
  <2>3. SnapshotOf(chunk) \subseteq {1}
    BY <2>1 DEF SnapshotOf
  <2>4. Within(chunk, Len(log))
    BY <1>2, <1>4, <2>1 DEF Within
  <2>5. Sorted(chunk)
    BY <1>4, <2>1 DEF Sorted
  <2> QED
    BY <1>4, <2>2, <2>3, <2>4, <2>5 DEF ChunkOK, Whole
<1>6. Sound(sub') /\ sub'.pc = "catchUp"
  <2>1. PICK r \in Seq(Nat) : r = << >>
    BY EmptyFacts
  <2>2. sub' = ReadAll(sub, "catchUp", r, FALSE, Len(log))
    BY <1>3, <2>1
  <2>3. /\ sub' \in Subs /\ sub'.rest = r /\ sub'.mark = Len(log) /\ SameBuffer(sub, sub')
        /\ sub'.pc = "catchUp"
    BY <1>2, <2>2 DEF ReadAll, Subs, SameBuffer
  <2>4. Len(r) = 0
    BY <2>1, EmptyFacts
  <2> QED
    BY <1>1, <1>2, <2>3, <2>4, SameBufferSound DEF Increasing
<1> QED
  BY <1>3, <1>4, <1>5, <1>6, SendStep

LEMMA MissingShape == ASSUME Shape, SnapshotMissing PROVE Shape'
<1>1. Sound(sub) /\ TypeOK
  BY SoundNow DEF Shape
<1>2. /\ sub.pc = "snapshot"
      /\ UNCHANGED <<log, head, published, inbox, client, cursor, shown, cache, upsets>>
      /\ sub' = ReadNone(sub, IF sub.fallback THEN "catchUp" ELSE "failed", FALSE)
  BY DEF SnapshotMissing, view, ReadNone
<1>3. sub \in Subs
  BY <1>1, TypeFacts
<1>4. PICK pc \in {"catchUp", "failed"} : sub' = ReadNone(sub, pc, FALSE)
  BY <1>2
<1>5. /\ sub' \in Subs /\ sub'.rest = sub.rest /\ sub'.mark = sub.mark /\ SameBuffer(sub, sub')
      /\ sub'.pc = pc
  BY <1>3, <1>4 DEF ReadNone, Subs, SameBuffer
<1>6. Sound(sub')
  BY <1>1, <1>5, SameBufferSound DEF Sound
<1>7. upsets' \in 0..MaxUpsets
  BY <1>1, <1>2 DEF TypeOK
<1> QED
  BY <1>2, <1>4, <1>5, <1>6, <1>7, SubStep

(* What a part of the replay carries, and what it leaves.                  *)
LEMMA CatchUpFacts ==
    ASSUME Shape, CatchUp
    PROVE  \E k \in 1..Len(sub.rest) :
              LET chunk == Events(SubSeq(sub.rest, 1, k)) IN
              /\ sub.pc = "catchUp"
              /\ chunk \in Seq(Items) /\ Len(chunk) = k
              /\ \A i \in 1..k : chunk[i].is = "event" /\ chunk[i].seq = sub.rest[i]
              /\ SnapshotOf(chunk) = {} /\ Sorted(chunk)
              /\ inbox' = Append(inbox, chunk)
              /\ UNCHANGED <<log, head, published, client, cursor, shown, cache, upsets>>
              /\ sub' = Rested(sub, SubSeq(sub.rest, k + 1, Len(sub.rest)))
              /\ SubSeq(sub.rest, k + 1, Len(sub.rest)) \in Seq(Nat)
              /\ Len(SubSeq(sub.rest, k + 1, Len(sub.rest))) = Len(sub.rest) - k
              /\ \A i \in 1..(Len(sub.rest) - k) :
                    SubSeq(sub.rest, k + 1, Len(sub.rest))[i] = sub.rest[k + i]
              /\ Increasing(SubSeq(sub.rest, k + 1, Len(sub.rest)))
<1>1. Sound(sub) /\ TypeOK
  BY SoundNow DEF Shape
<1>2. sub \in Subs /\ sub.rest \in Seq(Nat) /\ Increasing(sub.rest) /\ Len(sub.rest) \in Nat
  BY <1>1 DEF Sound, Subs
<1>3. PICK k \in 1..Len(sub.rest) :
         /\ inbox' = Append(inbox, Events(SubSeq(sub.rest, 1, k)))
         /\ UNCHANGED <<client, cursor, shown, cache>>
         /\ sub' = Rested(sub, SubSeq(sub.rest, k + 1, Len(sub.rest)))
  BY DEF CatchUp, Send, Rested
<1>4. sub.pc = "catchUp" /\ UNCHANGED <<log, head, published, upsets>>
  BY DEF CatchUp
<1> DEFINE first == SubSeq(sub.rest, 1, k)
           last == SubSeq(sub.rest, k + 1, Len(sub.rest))
<1>5. /\ first \in Seq(Nat) /\ Len(first) = k
      /\ \A i \in 1..k : first[i] = sub.rest[i]
      /\ Increasing(first)
  <2>1. 1 \in 1..(Len(sub.rest) + 1) /\ k \in 0..Len(sub.rest) /\ 1 <= k + 1
    BY <1>2
  <2> QED
    BY <1>2, <2>1, SubSeqFacts, SMTT(30)
<1>6. /\ last \in Seq(Nat) /\ Len(last) = Len(sub.rest) - k
      /\ \A i \in 1..(Len(sub.rest) - k) : last[i] = sub.rest[k + i]
      /\ Increasing(last)
  <2>1. k + 1 \in 1..(Len(sub.rest) + 1) /\ Len(sub.rest) \in 0..Len(sub.rest) /\ k + 1 <= Len(sub.rest) + 1
    BY <1>2
  <2>2. /\ last \in Seq(Nat) /\ Len(last) = Len(sub.rest) - (k + 1) + 1
        /\ \A i \in 1..Len(last) : last[i] = sub.rest[(k + 1) + i - 1]
        /\ Increasing(last)
    BY <1>2, <2>1, SubSeqFacts
  <2> HIDE DEF last
  <2>3. Len(last) = Len(sub.rest) - k /\ \A i \in 1..Len(last) : (k + 1) + i - 1 = k + i
    BY <1>2, <2>2
  <2> QED
    BY <2>2, <2>3
<1> HIDE DEF first, last
<1>7. /\ Events(first) \in Seq(Items) /\ Len(Events(first)) = k
      /\ \A i \in 1..k : Events(first)[i].is = "event" /\ Events(first)[i].seq = sub.rest[i]
      /\ SnapshotOf(Events(first)) = {} /\ Sorted(Events(first))
  BY <1>5, EventsFacts
<1> QED
  BY <1>3, <1>4, <1>6, <1>7 DEF first, last

LEMMA CatchUpShape == ASSUME Shape, CatchUp PROVE Shape'
<1>1. Sound(sub) /\ TypeOK
  BY SoundNow DEF Shape
<1>2. PICK k \in 1..Len(sub.rest) :
         LET chunk == Events(SubSeq(sub.rest, 1, k)) IN
         /\ sub.pc = "catchUp"
         /\ chunk \in Seq(Items) /\ Len(chunk) = k
         /\ \A i \in 1..k : chunk[i].is = "event" /\ chunk[i].seq = sub.rest[i]
         /\ SnapshotOf(chunk) = {} /\ Sorted(chunk)
         /\ inbox' = Append(inbox, chunk)
         /\ UNCHANGED <<log, head, published, client, cursor, shown, cache, upsets>>
         /\ sub' = Rested(sub, SubSeq(sub.rest, k + 1, Len(sub.rest)))
         /\ SubSeq(sub.rest, k + 1, Len(sub.rest)) \in Seq(Nat)
         /\ Len(SubSeq(sub.rest, k + 1, Len(sub.rest))) = Len(sub.rest) - k
         /\ \A i \in 1..(Len(sub.rest) - k) :
               SubSeq(sub.rest, k + 1, Len(sub.rest))[i] = sub.rest[k + i]
         /\ Increasing(SubSeq(sub.rest, k + 1, Len(sub.rest)))
  BY CatchUpFacts
<1> DEFINE chunk == Events(SubSeq(sub.rest, 1, k))
           last == SubSeq(sub.rest, k + 1, Len(sub.rest))
<1>3. /\ sub.pc = "catchUp"
      /\ chunk \in Seq(Items) /\ Len(chunk) = k
      /\ \A i \in 1..k : chunk[i].is = "event" /\ chunk[i].seq = sub.rest[i]
      /\ SnapshotOf(chunk) = {} /\ Sorted(chunk)
      /\ inbox' = Append(inbox, chunk)
      /\ UNCHANGED <<log, head, published, client, cursor, shown, cache, upsets>>
      /\ sub' = Rested(sub, last)
      /\ last \in Seq(Nat)
      /\ Len(last) = Len(sub.rest) - k
      /\ \A i \in 1..(Len(sub.rest) - k) : last[i] = sub.rest[k + i]
      /\ Increasing(last)
  BY <1>2
<1> HIDE DEF chunk, last
<1>4. /\ \A i \in 1..Len(sub.rest) : sub.rest[i] \in 1..sub.mark
      /\ sub.mark <= Len(log) /\ sub.mark \in Nat /\ Len(log) \in Nat
      /\ sub \in Subs /\ Len(sub.rest) \in Nat
  BY <1>1, TypeFacts, SMTT(30) DEF Sound, Subs
<1>5. ChunkOK(chunk)
  <2>1. ASSUME NEW i \in 1..Len(chunk)
        PROVE  chunk[i].seq <= Len(log) /\ chunk[i].seq >= 1
    <3>1. i \in 1..k /\ i \in 1..Len(sub.rest)
      BY <1>3, <1>4
    <3>2. chunk[i].seq = sub.rest[i] /\ sub.rest[i] \in 1..sub.mark
      BY <1>3, <1>4, <3>1
    <3> QED
      BY <1>4, <3>2
  <2>2. Within(chunk, Len(log))
    BY <2>1 DEF Within
  <2> QED
    BY <1>3, <2>2 DEF ChunkOK, Whole
<1>6. Sound(sub') /\ sub'.pc = sub.pc
  <2>1. /\ sub' \in Subs /\ sub'.rest = last /\ sub'.mark = sub.mark /\ SameBuffer(sub, sub')
        /\ sub'.pc = sub.pc
    BY <1>3, <1>4, RestedFacts
  <2>2. ASSUME NEW i \in 1..Len(last)
        PROVE  last[i] \in 1..sub.mark
    <3>1. i \in 1..(Len(sub.rest) - k) /\ k + i \in 1..Len(sub.rest)
      BY <1>3, <1>4
    <3> QED
      BY <1>3, <1>4, <3>1
  <2> QED
    BY <1>1, <1>3, <1>4, <2>1, <2>2, SameBufferSound
<1>7. sub.pc # "none"
  BY <1>3
<1> QED
  BY <1>3, <1>5, <1>6, <1>7, SendStep

Marked(s, out) == [s EXCEPT !.pc = "live", !.mark = 0, !.output = out]

LEMMA MarkedFacts ==
    ASSUME NEW s \in Subs, NEW out \in Seq(Items)
    PROVE  /\ Marked(s, out) \in Subs
           /\ Marked(s, out).pc = "live" /\ Marked(s, out).mark = 0 /\ Marked(s, out).output = out
           /\ Marked(s, out).pending = s.pending /\ Marked(s, out).inFlight = s.inFlight
           /\ Marked(s, out).pulled = s.pulled /\ Marked(s, out).full = s.full
           /\ Marked(s, out).rest = s.rest
BY DEF Subs, Marked

(* What the marker does to the subscription.                               *)
LEMMA MarkerFacts ==
    ASSUME TypeOK, Sound(sub), OfferMarker
    PROVE  /\ sub.pc = "catchUp" /\ sub.rest = << >>
           /\ UNCHANGED <<log, head, published, inbox, client, cursor, shown, cache, upsets>>
           /\ Covered \in Nat /\ Covered <= Len(log)
           /\ Covered = sub.mark \/ Covered = sub.pulled
           /\ Marker(Covered) \in Items
           /\ Marker(Covered).is = "synchronized" /\ Marker(Covered).seq = Covered
           /\ \/ sub' = Ended(sub)
              \/ sub' = Ended(Overflow(Flush(sub)))
              \/ /\ sub' = Marked(Flush(sub), Append(Flush(sub).output, Marker(Covered)))
                 /\ Retained(Flush(sub)) < MaxItems
<1>1. sub \in Subs /\ sub.mark \in Nat /\ sub.pulled \in Nat /\ sub.mark <= Len(log)
      /\ sub.pulled <= published
  BY DEF Sound, Subs
<1>2. Len(log) \in Nat /\ published <= head /\ head <= Len(log) /\ published \in Nat /\ head \in Nat
  BY TypeFacts
<1>3. /\ Covered \in Nat /\ Covered <= Len(log)
      /\ Covered = sub.mark \/ Covered = sub.pulled
  BY <1>1, <1>2 DEF Covered
<1>4. Marker(Covered) \in Items /\ Marker(Covered).is = "synchronized" /\ Marker(Covered).seq = Covered
  BY <1>3 DEF Marker, Items
<1>5. /\ sub.pc = "catchUp" /\ sub.rest = << >>
      /\ UNCHANGED <<log, head, published, inbox, client, cursor, shown, cache, upsets>>
  BY DEF OfferMarker, view
<1>6. Buffered(sub) /\ MaxItems \in Nat
  BY SizesAssumption DEF Sound
<1>7. Flush(sub) \in Subs /\ Retained(Flush(sub)) \in Nat
  BY <1>1, <1>6, FlushFacts, RetainedFacts
<1>8. sub' = IF sub.full THEN Ended(sub)
             ELSE IF Retained(Flush(sub)) >= MaxItems THEN Ended(Overflow(Flush(sub)))
             ELSE Marked(Flush(sub), Append(Flush(sub).output, Marker(Covered)))
  BY DEF OfferMarker, Ended, Marked
<1>9. \/ sub' = Ended(sub)
      \/ sub' = Ended(Overflow(Flush(sub)))
      \/ /\ sub' = Marked(Flush(sub), Append(Flush(sub).output, Marker(Covered)))
         /\ Retained(Flush(sub)) < MaxItems
  BY <1>6, <1>7, <1>8
<1> QED
  BY <1>3, <1>4, <1>5, <1>9

(* A marker behind what is queued.                                         *)
LEMMA BehindFacts ==
    ASSUME NEW out \in Seq(Items), NEW item \in Items, item.is = "synchronized",
           Sorted(out), SnapshotOf(out) = {}, NEW b \in Nat, Within(out, b), item.seq <= b
    PROVE  /\ Append(out, item) \in Seq(Items)
           /\ Len(Append(out, item)) = Len(out) + 1 /\ Len(out) \in Nat
           /\ \A k \in 1..Len(out) : Append(out, item)[k] = out[k]
           /\ Append(out, item)[Len(out) + 1] = item
           /\ Sorted(Append(out, item))
           /\ SnapshotOf(Append(out, item)) = {}
           /\ Within(Append(out, item), b)
<1> DEFINE a == Append(out, item)
<1>1. /\ a \in Seq(Items)
      /\ Len(a) = Len(out) + 1 /\ Len(out) \in Nat
      /\ \A k \in 1..Len(out) : a[k] = out[k]
      /\ a[Len(out) + 1] = item
  BY AppendFacts
<1> HIDE DEF a
<1>2. \A k \in 1..Len(a) : k \in 1..Len(out) \/ (k = Len(out) + 1 /\ a[k] = item)
  BY <1>1
<1>3. Sorted(a)
  <2>1. ASSUME NEW k \in 1..Len(a), NEW j \in 1..(k - 1), a[j].is = "event", a[k].is = "event"
        PROVE  a[j].seq < a[k].seq
    <3>1. k \in 1..Len(out) /\ j \in 1..Len(out)
      BY <1>1, <1>2, <2>1
    <3> QED
      BY <1>1, <2>1, <3>1 DEF Sorted
  <2> QED
    BY <2>1 DEF Sorted
<1>4. SnapshotOf(a) = {}
  <2>1. \A k \in 1..Len(out) : out[k].is # "snapshot"
    BY DEF SnapshotOf
  <2>2. \A k \in 1..Len(a) : a[k].is # "snapshot"
    BY <1>1, <1>2, <2>1
  <2> QED
    BY <2>2 DEF SnapshotOf
<1>5. Within(a, b)
  BY <1>1, <1>2 DEF Within
<1> QED
  BY <1>1, <1>3, <1>4, <1>5 DEF a

LEMMA MarkerShape == ASSUME Shape, OfferMarker PROVE Shape'
<1> DEFINE f == Flush(sub)
           out == Append(f.output, Marker(Covered))
           m == Marked(f, out)
<1>1. Sound(sub) /\ TypeOK
  BY SoundNow DEF Shape
<1>2. /\ sub.pc = "catchUp"
      /\ UNCHANGED <<log, head, published, inbox, client, cursor, shown, cache, upsets>>
      /\ Covered \in Nat /\ Covered <= Len(log)
      /\ Marker(Covered) \in Items
      /\ Marker(Covered).is = "synchronized" /\ Marker(Covered).seq = Covered
      /\ \/ sub' = Ended(sub)
         \/ sub' = Ended(Overflow(f))
         \/ sub' = m /\ Retained(f) < MaxItems
  BY <1>1, MarkerFacts
<1>3. Sound(f) /\ Sound(Ended(sub)) /\ Sound(Ended(Overflow(f)))
  BY <1>1, FlushSound, OverflowSound, EndedSound
<1>4. /\ f \in Subs /\ f.output \in Seq(Items) /\ f.pending = << >> /\ Len(log) \in Nat
      /\ Sorted(f.output) /\ SnapshotOf(f.output) = {} /\ Within(f.output, Len(log))
      /\ f.pulled <= published /\ f.rest = sub.rest /\ sub.rest = << >>
  <2>1. sub \in Subs /\ Buffered(sub)
    BY <1>1 DEF Sound
  <2>2. f \in Subs /\ f.pending = << >> /\ SameReading(sub, f)
    BY <2>1, FlushFacts
  <2>3. f.output \in Seq(Items)
    BY <2>2 DEF Subs
  <2>4. sub.rest = << >>
    BY DEF OfferMarker
  <2> QED
    BY <1>1, <1>3, <2>2, <2>3, <2>4, TypeFacts DEF Sound, Buffered, SameReading
<1>5. /\ out \in Seq(Items)
      /\ Len(out) = Len(f.output) + 1
      /\ \A k \in 1..Len(f.output) : out[k] = f.output[k]
      /\ out[Len(f.output) + 1] = Marker(Covered)
      /\ Sorted(out) /\ SnapshotOf(out) = {} /\ Within(out, Len(log))
      /\ Len(f.output) \in Nat
  BY <1>2, <1>4, BehindFacts
<1> HIDE DEF f, out
<1>6. /\ m \in Subs /\ m.output = out /\ m.pending = f.pending /\ m.inFlight = f.inFlight
      /\ m.pulled = f.pulled /\ m.rest = f.rest /\ m.mark = 0
  BY <1>4, <1>5, MarkedFacts
<1> HIDE DEF m
<1>7. ASSUME Retained(f) < MaxItems
      PROVE  Sound(m)
  <2>1. Retained(m) <= MaxItems
    <3>1. Waiting(m) = Waiting(f)
      BY <1>6 DEF Waiting
    <3>2. Queued(m) = Queued(f) + 1
      BY <1>5, <1>6 DEF Queued
    <3>3. /\ Retained(f) = Waiting(f) + Queued(f) + f.inFlight
          /\ Waiting(f) \in Nat /\ Queued(f) \in Nat /\ f.inFlight \in Nat
      BY <1>4, RetainedFacts
    <3>4. Retained(m) = Waiting(m) + Queued(m) + m.inFlight
      BY <1>6, RetainedFacts
    <3>5. Retained(m) = Retained(f) + 1
      BY <1>6, <3>1, <3>2, <3>3, <3>4
    <3>6. MaxItems \in Nat /\ Retained(f) \in Nat
      BY <1>4, RetainedFacts, SizesAssumption
    <3> QED
      BY <1>7, <3>5, <3>6
  <2>2. ASSUME NEW k \in 1..Len(out), out[k].is = "event"
        PROVE  out[k].seq \in 1..f.pulled
    <3>1. k \in 1..Len(f.output)
      BY <1>2, <1>5, <2>2
    <3> QED
      BY <1>3, <1>5, <2>2, <3>1 DEF Sound, Buffered
  <2>3. Len(m.pending) = 0 /\ Len(m.rest) = 0
    BY <1>4, <1>6, EmptyFacts
  <2>4. Buffered(m)
    BY <1>5, <1>6, <2>2, <2>3 DEF Buffered, Increasing
  <2> QED
    BY <1>4, <1>5, <1>6, <2>1, <2>3, <2>4 DEF Sound, Increasing
<1>8. Sound(sub')
  BY <1>2, <1>3, <1>7
<1>9. upsets' \in 0..MaxUpsets /\ sub.pc # "none"
  BY <1>1, <1>2 DEF TypeOK
<1>10. sub'.pc # "none"
  <2>1. m.pc = "live"
    BY <1>4, <1>5, MarkedFacts DEF m
  <2>2. Ended(sub).pc = "failed" /\ Ended(Overflow(f)).pc = "failed"
    BY <1>1, <1>4, EndedFacts, OverflowFacts DEF Sound
  <2> QED
    BY <1>2, <2>1, <2>2
<1> QED
  BY <1>2, <1>8, <1>9, <1>10, SubStep

Sent(s, out, n) == [s EXCEPT !.output = out, !.inFlight = n]

LEMMA SentFacts ==
    ASSUME NEW s \in Subs, NEW out \in Seq(Items), NEW n \in Nat
    PROVE  /\ Sent(s, out, n) \in Subs
           /\ Sent(s, out, n).output = out /\ Sent(s, out, n).inFlight = n
           /\ Sent(s, out, n).pending = s.pending
           /\ Sent(s, out, n).pulled = s.pulled /\ Sent(s, out, n).full = s.full
           /\ SameReading(s, Sent(s, out, n))
BY DEF Subs, Sent, SameReading

LEMMA DeliverFacts ==
    ASSUME TypeOK, Sound(sub), Deliver
    PROVE  /\ sub.pc = "live" /\ sub.inFlight = 0
           /\ inbox' = Append(inbox, sub.output)
           /\ UNCHANGED <<log, head, published, client, cursor, shown, cache, upsets>>
           /\ sub.output \in Seq(Items)
           /\ sub' \in Subs /\ sub'.output = << >> /\ sub'.inFlight = Len(sub.output)
           /\ sub'.pending = sub.pending /\ sub'.pulled = sub.pulled /\ sub'.full = sub.full
           /\ SameReading(sub, sub')
<1>1. sub \in Subs /\ sub.output \in Seq(Items) /\ Len(sub.output) \in Nat
  BY DEF Sound, Subs
<1>2. /\ sub.pc = "live" /\ sub.inFlight = 0
      /\ inbox' = Append(inbox, sub.output)
      /\ UNCHANGED <<log, head, published, client, cursor, shown, cache, upsets>>
      /\ sub' = Sent(sub, << >>, Len(sub.output))
  BY DEF Deliver, Send, Sent
<1>3. PICK o \in Seq(Items) : o = << >>
  BY EmptyFacts
<1>4. sub' = Sent(sub, o, Len(sub.output))
  BY <1>2, <1>3
<1>5. /\ sub' \in Subs /\ sub'.output = o /\ sub'.inFlight = Len(sub.output)
      /\ sub'.pending = sub.pending /\ sub'.pulled = sub.pulled /\ sub'.full = sub.full
      /\ SameReading(sub, sub')
  BY <1>1, <1>4, SentFacts, ZenonT(30)
<1> QED
  BY <1>1, <1>2, <1>3, <1>5

LEMMA DeliverShape == ASSUME Shape, Deliver PROVE Shape'
<1>1. Sound(sub) /\ TypeOK
  BY SoundNow DEF Shape
<1>2. /\ sub.pc = "live" /\ sub.inFlight = 0
      /\ inbox' = Append(inbox, sub.output)
      /\ UNCHANGED <<log, head, published, client, cursor, shown, cache, upsets>>
      /\ sub.output \in Seq(Items)
      /\ sub' \in Subs /\ sub'.output = << >> /\ sub'.inFlight = Len(sub.output)
      /\ sub'.pending = sub.pending /\ sub'.pulled = sub.pulled
      /\ SameReading(sub, sub')
  BY <1>1, DeliverFacts
<1>3. ChunkOK(sub.output)
  BY <1>1 DEF Sound, Buffered, ChunkOK, Whole
<1>4. Retained(sub') <= MaxItems
  <2>1. Waiting(sub') = Waiting(sub)
    BY <1>2 DEF Waiting
  <2>2. Queued(sub') = 0 /\ sub'.inFlight = Queued(sub)
    BY <1>2, EmptyFacts DEF Queued
  <2>3. /\ Retained(sub) = Waiting(sub) + Queued(sub) + sub.inFlight
        /\ Waiting(sub) \in Nat /\ Queued(sub) \in Nat
    BY <1>1, RetainedFacts DEF Sound
  <2>4. Retained(sub') = Waiting(sub') + Queued(sub') + sub'.inFlight
    BY <1>2, RetainedFacts
  <2>5. Retained(sub') = Retained(sub)
    BY <1>2, <2>1, <2>2, <2>3, <2>4
  <2> QED
    BY <1>1, <2>5 DEF Sound
<1>5. Len(sub'.output) = 0
  BY <1>2, EmptyFacts
<1>6. Buffered(sub')
  <2>1. Increasing(sub'.pending) /\ \A k \in 1..Len(sub'.pending) : sub'.pending[k] \in 1..sub'.pulled
    BY <1>1, <1>2 DEF Sound, Buffered
  <2> QED
    BY <1>5, <2>1 DEF Buffered, Sorted, SnapshotOf
<1>7. Sound(sub')
  <2>1. Within(sub'.output, Len(log))
    BY <1>5 DEF Within
  <2> QED
    BY <1>1, <1>2, <1>4, <1>6, <2>1 DEF Sound, SameReading
<1>8. sub.pc # "none" /\ sub'.pc # "none"
  BY <1>2 DEF SameReading
<1> QED
  BY <1>2, <1>3, <1>7, <1>8, SendStep

LEMMA AcknowledgeFacts ==
    ASSUME TypeOK, Sound(sub), Places, Acknowledge
    PROVE  /\ sub.pc # "none"
           /\ UNCHANGED <<log, head, published, inbox, client, cursor, shown, cache, upsets>>
           /\ sub' = Sent(sub, sub.output, 0)
           /\ sub' \in Subs /\ sub'.output = sub.output /\ sub'.inFlight = 0
           /\ sub'.pending = sub.pending /\ sub'.pulled = sub.pulled /\ sub'.full = sub.full
           /\ SameReading(sub, sub')
<1>1. sub \in Subs
  BY DEF Sound
<1>2. /\ UNCHANGED <<log, head, published, inbox, client, cursor, shown, cache, upsets>>
      /\ sub.inFlight > 0
      /\ sub' = [sub EXCEPT !.inFlight = 0]
  BY DEF Acknowledge, view
<1>3. sub' = Sent(sub, sub.output, 0) /\ sub.output \in Seq(Items)
  BY <1>1, <1>2 DEF Sent, Subs
<1>4. sub.pc # "none"
  <2>1. NoSub.inFlight = 0
    BY DEF NoSub
  <2> QED
    BY <1>2, <2>1 DEF Places
<1> QED
  BY <1>1, <1>2, <1>3, <1>4, SentFacts

LEMMA AcknowledgeShape == ASSUME Shape, Acknowledge PROVE Shape'
<1>1. Sound(sub) /\ TypeOK /\ Places
  BY SoundNow DEF Shape
<1>2. /\ sub.pc # "none"
      /\ UNCHANGED <<log, head, published, inbox, client, cursor, shown, cache, upsets>>
      /\ sub' \in Subs /\ sub'.output = sub.output /\ sub'.inFlight = 0
      /\ sub'.pending = sub.pending /\ sub'.pulled = sub.pulled
      /\ SameReading(sub, sub')
  BY <1>1, AcknowledgeFacts
<1>3. Retained(sub') <= MaxItems
  <2>1. Waiting(sub') = Waiting(sub)
    BY <1>2 DEF Waiting
  <2>2. Queued(sub') = Queued(sub)
    BY <1>2 DEF Queued
  <2>3. /\ Retained(sub) = Waiting(sub) + Queued(sub) + sub.inFlight
        /\ Waiting(sub) \in Nat /\ Queued(sub) \in Nat /\ sub.inFlight \in Nat
    BY <1>1, RetainedFacts DEF Sound
  <2>4. Retained(sub') = Waiting(sub') + Queued(sub') + sub'.inFlight
    BY <1>2, RetainedFacts
  <2>5. Retained(sub) <= MaxItems /\ MaxItems \in Nat
    BY <1>1, SizesAssumption DEF Sound
  <2> QED
    BY <1>2, <2>1, <2>2, <2>3, <2>4, <2>5
<1>4. Sound(sub')
  <2>1. Buffered(sub')
    BY <1>1, <1>2 DEF Sound, Buffered
  <2> QED
    BY <1>1, <1>2, <1>3, <2>1 DEF Sound, SameReading
<1>5. sub'.pc # "none" /\ upsets' \in 0..MaxUpsets
  BY <1>1, <1>2 DEF SameReading, TypeOK
<1> QED
  BY <1>2, <1>4, <1>5, SubStep

-----------------------------------------------------------------------------
(***************************************************************************)
(* The client's steps.                                                     *)
(***************************************************************************)
Clients ==
    [pc : {"away", "off", "loading", "subscribed"},
     awaiting : BOOLEAN, status : {"empty", "cached", "synchronizing", "live"},
     error : BOOLEAN, warm : BOOLEAN, applying : BOOLEAN, overtaken : BOOLEAN]

LEMMA ClientFacts ==
    ASSUME TypeOK
    PROVE  /\ client \in Clients
           /\ WithoutLiveData(shown) \in {"empty", "cached", "synchronizing", "live"}
           /\ \A c \in Clients : Showing(c) \in {"empty", "cached", "synchronizing", "live"}
BY DEF TypeOK, Clients, WithoutLiveData, Showing

LEMMA UpsetFacts ==
    ASSUME TypeOK, upsets' = upsets \/ (upsets < MaxUpsets /\ upsets' = upsets + 1)
    PROVE  upsets' \in 0..MaxUpsets
<1>1. upsets \in 0..MaxUpsets
  BY DEF TypeOK
<1>2. MaxUpsets \in Nat
  BY SizesAssumption
<1> QED
  BY <1>1, <1>2

LEMMA FailsShape == ASSUME Shape, StreamFails PROVE Shape'
<1>1. TypeOK /\ client \in Clients /\ Sound(NoSub) /\ NoSub.pc = "none" /\ client.pc # "away"
  <2>1. client.pc # "away"
    BY DEF Shape, Places, StreamFails, NoSub
  <2> QED
    BY <2>1, ClientFacts, Unsubscribed, NoSubFacts DEF Shape
<1>2. /\ UNCHANGED <<log, head, published, inbox, cursor, shown, cache, upsets>>
      /\ sub' = NoSub
      /\ client' = [client EXCEPT !.pc = "off", !.awaiting = FALSE, !.error = TRUE,
                                  !.status = WithoutLiveData(shown)]
  BY DEF StreamFails
<1>3. client' \in Clients /\ client'.pc = "off" /\ client'.applying = client.applying
  BY <1>1, <1>2, ClientFacts DEF Clients
<1>4. TypeOK'
  BY <1>1, <1>2, <1>3 DEF TypeOK, Clients, Sound, Subs
<1> QED
  BY <1>1, <1>2, <1>3, <1>4, ClientStep

LEMMA InputShape == ASSUME Shape, MakeInput PROVE Shape'
<1>1. /\ TypeOK /\ client \in Clients /\ cursor \in Nat /\ shown \in Pairs
      /\ Sound(sub) /\ Sound(Attached(cursor)) /\ Attached(cursor).pc = "reading"
      /\ published \in Nat
  BY ClientFacts, TypeFacts, Unsubscribed, NoSubFacts, SoundNow DEF Shape
<1>2. /\ UNCHANGED <<log, head, published, inbox, cursor, shown, cache, upsets>>
      /\ client.pc = "off"
      /\ sub' = IF shown.has THEN Attached(cursor) ELSE sub
      /\ client' = [client EXCEPT !.pc = IF shown.has THEN "subscribed" ELSE "loading",
                                  !.awaiting = TRUE,
                                  !.status = IF client.warm THEN @ ELSE "synchronizing",
                                  !.error = FALSE,
                                  !.warm = FALSE]
  BY DEF MakeInput
<1>3. /\ client' \in Clients /\ client'.applying = client.applying
      /\ client'.pc = IF shown.has THEN "subscribed" ELSE "loading"
  BY <1>1, <1>2 DEF Clients
<1>4. sub.pc = "none" /\ sub = NoSub
  BY <1>2 DEF Shape, Places
<1>5. Sound(sub')
  BY <1>1, <1>2
<1>6. TypeOK'
  BY <1>1, <1>2, <1>3, <1>5 DEF TypeOK, Clients, Sound, Subs
<1>7. IF sub'.pc = "none" THEN sub' = NoSub ELSE client'.pc = "subscribed"
  BY <1>1, <1>2, <1>3, <1>4
<1> QED
  BY <1>2, <1>3, <1>5, <1>6, <1>7, ClientStep

LEMMA NothingShape == ASSUME Shape, LoadHttpNothing PROVE Shape'
<1>1. /\ TypeOK /\ client \in Clients /\ cursor \in Nat /\ published \in Nat
      /\ \A after \in Nat \cup {NoCursor} : Sound(Attached(after)) /\ Attached(after).pc = "reading"
  BY ClientFacts, TypeFacts, Unsubscribed, NoSubFacts DEF Shape
<1>2. /\ UNCHANGED <<log, head, published, inbox, cursor, shown, cache>>
      /\ client.pc = "loading"
      /\ upsets' = upsets \/ (upsets < MaxUpsets /\ upsets' = upsets + 1)
      /\ sub' = Attached(IF shown.has THEN cursor ELSE NoCursor)
      /\ client' = [client EXCEPT !.pc = "subscribed"]
  BY DEF LoadHttpNothing, Upset
<1>3. PICK after \in Nat \cup {NoCursor} : sub' = Attached(after)
  BY <1>1, <1>2
<1>4. client' \in Clients /\ client'.applying = client.applying /\ client'.pc = "subscribed"
  BY <1>1, <1>2 DEF Clients
<1>5. Sound(sub') /\ sub'.pc = "reading"
  BY <1>1, <1>3
<1>6. upsets' \in 0..MaxUpsets
  BY <1>1, <1>2, UpsetFacts
<1>7. TypeOK'
  BY <1>1, <1>2, <1>4, <1>5, <1>6 DEF TypeOK, Clients, Sound, Subs
<1> QED
  BY <1>2, <1>4, <1>5, <1>7, ClientStep

LEMMA DisconnectShape == ASSUME Shape, Disconnect \/ Resubscribe PROVE Shape'
<1>1. TypeOK /\ client \in Clients /\ Sound(NoSub) /\ NoSub.pc = "none"
  BY ClientFacts, Unsubscribed, NoSubFacts DEF Shape
<1>2. /\ UNCHANGED <<log, head, published, inbox, cursor, shown, cache>>
      /\ client.pc # "away"
      /\ upsets < MaxUpsets /\ upsets' = upsets + 1
      /\ sub' = NoSub
      /\ \/ client' = [client EXCEPT !.pc = "off", !.awaiting = FALSE,
                                     !.status = WithoutLiveData(shown)]
         \/ client' = [client EXCEPT !.pc = "off"]
  BY DEF Disconnect, Resubscribe, Upset
<1>3. client' \in Clients /\ client'.applying = client.applying /\ client'.pc = "off"
  BY <1>1, <1>2, ClientFacts DEF Clients
<1>4. upsets' \in 0..MaxUpsets
  BY <1>1, <1>2, UpsetFacts
<1>5. TypeOK'
  BY <1>1, <1>2, <1>3, <1>4 DEF TypeOK, Clients, Sound, Subs
<1> QED
  BY <1>1, <1>2, <1>3, <1>5, ClientStep

LEMMA CommitFacts ==
    ASSUME TypeOK, NEW kind \in Kinds, Commit(kind)
    PROVE  /\ log' \in Seq(Kinds) /\ Len(log') = Len(log) + 1
           /\ \A n \in 1..Len(log) : log'[n] = log[n]
           /\ log'[Len(log) + 1] = kind
           /\ kind = "created" => client.pc = "away" /\ ~Exists
           /\ UNCHANGED <<head, published, sub, inbox, client, cursor, shown, cache, upsets>>
<1>1. log \in Seq(Kinds)
  BY TypeFacts
<1>2. /\ log' = Append(log, kind)
      /\ kind = "created" => client.pc = "away" /\ ~Exists
      /\ UNCHANGED <<head, published, sub, inbox, client, cursor, shown, cache, upsets>>
  BY DEF Commit, server, view
<1> QED
  BY <1>1, <1>2, AppendFacts

LEMMA CommitShape == ASSUME Shape, NEW kind \in Kinds, Commit(kind) PROVE Shape'
<1>1. TypeOK /\ Len(log) \in Nat /\ published \in Nat /\ head \in Nat /\ head <= Len(log)
      /\ published <= head
  BY TypeFacts DEF Shape
<1>2. /\ log' \in Seq(Kinds) /\ Len(log') = Len(log) + 1
      /\ \A n \in 1..Len(log) : log'[n] = log[n]
      /\ log'[Len(log) + 1] = kind
      /\ kind = "created" => client.pc = "away" /\ ~Exists
      /\ UNCHANGED <<head, published, sub, inbox, client, cursor, shown, cache, upsets>>
  BY <1>1, CommitFacts
<1>3. TypeOK'
  BY <1>1, <1>2 DEF TypeOK
<1>4. ASSUME client.pc # "away", NEW n \in Nat, Current(n)
      PROVE  Current(n)'
  <2>1. \A m \in (n + 1)..Len(log) : log[m] # "created"
    BY <1>4 DEF Current
  <2>2. kind # "created"
    BY <1>2, <1>4
  <2>3. ASSUME NEW m \in (n + 1)..Len(log')
        PROVE  log'[m] # "created"
    <3>1. CASE m = Len(log) + 1
      BY <1>2, <2>2, <3>1
    <3>2. CASE m # Len(log) + 1
      <4>1. m \in (n + 1)..Len(log) /\ m \in 1..Len(log)
        BY <1>1, <1>2, <3>2
      <4> QED
        BY <1>2, <2>1, <4>1
    <3> QED
      BY <3>1, <3>2
  <2> QED
    BY <2>3 DEF Current
<1>5. Places'
  <2>1. shown.seq \in Nat /\ cache.seq \in Nat
    BY <1>1, TypeFacts, PairFacts
  <2>2. (client.pc # "away" => Current(head))'
    BY <1>1, <1>2, <1>4 DEF Shape, Places
  <2>3. shown.seq <= Len(log') /\ cache.seq <= Len(log')
    BY <1>1, <1>2, <2>1 DEF Shape, Places
  <2> QED
    BY <1>2, <2>2, <2>3 DEF Shape, Places
<1>6. Reads'
  <2>1. sub.mark \in Nat
    BY <1>1, TypeFacts DEF Subs
  <2> QED
    BY <1>1, <1>2, <2>1 DEF Shape, Reads
<1>7. ASSUME NEW chunk \in Seq(Items), Within(chunk, Len(log))
      PROVE  Within(chunk, Len(log'))
  BY <1>1, <1>2, <1>7, ItemFacts DEF Within
<1>8. Buffers'
  <2>1. sub.output \in Seq(Items)
    BY <1>1, TypeFacts DEF Subs
  <2> QED
    BY <1>2, <1>7, <2>1 DEF Shape, Buffers
<1>9. Chunks'
  <2>1. ASSUME NEW i \in 1..Len(inbox)
        PROVE  ChunkOK(inbox[i])'
    <3>1. inbox[i] \in Seq(Items) /\ ChunkOK(inbox[i])
      BY <1>1, <2>1, TypeFacts DEF Shape, Chunks
    <3>2. client.pc # "away"
      <4>1. inbox # << >>
        BY <2>1, EmptyFacts
      <4> QED
        BY <4>1 DEF Shape, Places
    <3>3. ASSUME NEW k \in SnapshotOf(inbox[i])
          PROVE  Current(inbox[i][k].seq)'
      <4>1. inbox[i][k].seq \in Nat
        BY <3>1, ItemFacts DEF SnapshotOf
      <4>2. Current(inbox[i][k].seq)
        BY <3>1, <3>3 DEF ChunkOK
      <4>3. inbox' = inbox
        BY <1>2
      <4> QED
        BY <1>4, <3>2, <4>1, <4>2, <4>3 DEF Current
    <3> QED
      BY <1>2, <1>7, <3>1, <3>3 DEF ChunkOK
  <2> QED
    BY <1>2, <2>1 DEF Chunks
<1> QED
  BY <1>3, <1>5, <1>6, <1>8, <1>9 DEF Shape

LEMMA EngineShape == ASSUME Shape, UpdateReadModel \/ Publish PROVE Shape'
<1>1. TypeOK /\ Len(log) \in Nat /\ published \in Nat /\ head \in Nat /\ head <= Len(log)
      /\ published <= head
  BY TypeFacts DEF Shape
<1>2. /\ UNCHANGED <<log, sub, inbox, client, cursor, shown, cache, upsets>>
      /\ \/ head < Len(log) /\ head' = head + 1 /\ published' = published
         \/ published < head /\ published' = published + 1 /\ head' = head
  BY DEF UpdateReadModel, Publish, view
<1>3. TypeOK'
  BY <1>1, <1>2, SMTT(30) DEF TypeOK
<1>4. Places'
  <2>1. ASSUME Current(head)
        PROVE  Current(head)'
    BY <1>1, <1>2, <2>1 DEF Current
  <2> QED
    BY <1>2, <2>1 DEF Shape, Places
<1>5. Reads'
  <2>1. sub.pulled \in Nat
    BY <1>1, TypeFacts DEF Subs
  <2> QED
    BY <1>1, <1>2, <2>1 DEF Shape, Reads
<1>6. Buffers' /\ Chunks'
  BY <1>2 DEF Shape, Buffers, Chunks, ChunkOK, Current
<1> QED
  BY <1>3, <1>4, <1>5, <1>6 DEF Shape

(* One pair, or those a chunk went through, offered to the cache.          *)
LEMMA OneSaved ==
    ASSUME TypeOK, NEW pair \in Pairs
    PROVE  Saved({pair}) = cache \/ (Saved({pair}) = pair /\ pair.has)
<1>1. pair.seq \in Nat /\ \A p \in {pair} : p.seq <= pair.seq
  BY PairFacts
<1>2. {pair} \in SUBSET Pairs
  OBVIOUS
<1>3. Saved({pair}) = cache \/ (Saved({pair}) \in {pair} /\ Saved({pair}).has)
  BY <1>1, <1>2, SavedFacts
<1> QED
  BY <1>3

LEMMA LoadShape == ASSUME Shape, LoadHttp PROVE Shape'
<1> DEFINE n == Len(log)
           pair == Prefix(Len(log))
<1>1. /\ TypeOK /\ client \in Clients /\ n \in Nat /\ published \in Nat /\ cache \in Pairs
      /\ Sound(Attached(n)) /\ Attached(n).pc = "reading"
      /\ Showing(client) \in {"empty", "cached", "synchronizing", "live"}
  BY ClientFacts, TypeFacts, Unsubscribed, NoSubFacts DEF Shape
<1>2. /\ UNCHANGED <<log, head, published, inbox, upsets>>
      /\ client.pc = "loading" /\ ~client.applying
      /\ shown' = pair /\ cursor' = n /\ cache' = Saved({pair})
      /\ client' = [client EXCEPT !.pc = "subscribed", !.status = Showing(client),
                                  !.overtaken = @ \/ Overtakes]
      /\ sub' = Attached(n)
  BY DEF LoadHttp
<1>3. pair \in Pairs /\ pair.seq = n
  BY <1>1, PrefixFacts
<1> HIDE DEF n, pair
<1>4. cache' \in Pairs /\ (cache' = cache \/ cache' = pair)
  BY <1>1, <1>2, <1>3, OneSaved
<1>5. client' \in Clients /\ client'.applying = client.applying /\ client'.pc = "subscribed"
  <2>1. PICK b \in BOOLEAN : b = (client.overtaken \/ Overtakes)
    BY Zenon
  <2>2. client' = [client EXCEPT !.pc = "subscribed", !.status = Showing(client), !.overtaken = b]
    BY <1>2, <2>1
  <2> QED
    BY <1>1, <2>2 DEF Clients
<1>6. Sound(sub') /\ sub'.pc = "reading"
  BY <1>1, <1>2
<1>7. TypeOK'
  BY <1>1, <1>2, <1>3, <1>4, <1>5, <1>6 DEF TypeOK, Clients, Sound, Subs
<1>8. Places'
  BY <1>1, <1>2, <1>3, <1>4, <1>5, <1>6 DEF Shape, Places, Current, n
<1>9. Reads' /\ Buffers'
  BY <1>2, <1>6 DEF Sound, Reads, Buffers
<1>10. Chunks'
  BY <1>2 DEF Shape, Chunks, ChunkOK, Current
<1> QED
  BY <1>7, <1>8, <1>9, <1>10 DEF Shape

(* The chunk under way.                                                    *)
LEMMA HeadFacts ==
    ASSUME Shape, inbox # << >>
    PROVE  /\ 1 \in 1..Len(inbox) /\ Head(inbox) = inbox[1]
           /\ Head(inbox) \in Seq(Items) /\ ChunkOK(Head(inbox))
           /\ Sorted(Head(inbox)) /\ Whole(Head(inbox)) /\ Within(Head(inbox), Len(log))
           /\ Tail(inbox) \in Seq(Seq(Items))
           /\ Len(Tail(inbox)) = Len(inbox) - 1
           /\ \A i \in 1..Len(Tail(inbox)) : Tail(inbox)[i] = inbox[i + 1] /\ i + 1 \in 1..Len(inbox)
<1>1. inbox \in Seq(Seq(Items))
  BY TypeFacts DEF Shape
<1>2. 1 \in 1..Len(inbox) /\ Head(inbox) = inbox[1] /\ Head(inbox) \in Seq(Items)
  BY <1>1
<1>3. /\ Tail(inbox) \in Seq(Seq(Items))
      /\ Len(Tail(inbox)) = Len(inbox) - 1
      /\ \A i \in 1..Len(Tail(inbox)) : Tail(inbox)[i] = inbox[i + 1] /\ i + 1 \in 1..Len(inbox)
  BY <1>1
<1>4. ChunkOK(Head(inbox))
  BY <1>2 DEF Shape, Chunks
<1> QED
  BY <1>2, <1>3, <1>4 DEF ChunkOK

LEMMA SequenceShape == ASSUME Shape, ApplySequence PROVE Shape'
<1>1. TypeOK /\ client \in Clients /\ shown \in Pairs /\ cursor \in Nat
  BY ClientFacts, TypeFacts DEF Shape
<1>2. /\ UNCHANGED <<log, head, published, sub, inbox, shown, cache, upsets>>
      /\ inbox # << >> /\ ~client.applying
      /\ cursor' = Reached(Head(inbox), cursor)
      /\ client' = [client EXCEPT !.applying = TRUE]
  BY DEF ApplySequence, server
<1>3. cursor = shown.seq /\ shown.seq \in Nat
  BY <1>1, <1>2, PairFacts DEF Shape, Places
<1>4. cursor' \in Nat
  BY <1>2, <1>3, HeadFacts, ReachedFacts
<1>5. client' \in Clients /\ client'.applying /\ client'.pc = client.pc
  BY <1>1, <1>2 DEF Clients
<1>6. TypeOK'
  BY <1>1, <1>2, <1>4, <1>5 DEF TypeOK, Clients
<1>7. Places'
  <2>1. client.pc # "away"
    BY <1>2 DEF Shape, Places
  <2> QED
    BY <1>2, <1>3, <1>5, <2>1 DEF Shape, Places, Current
<1>8. Reads' /\ Buffers' /\ Chunks'
  BY <1>2 DEF Shape, Reads, Buffers, Chunks, ChunkOK, Current
<1> QED
  BY <1>6, <1>7, <1>8 DEF Shape

(* Both halves of an item, seen from the second.                           *)
LEMMA DataFacts ==
    ASSUME Shape, ApplyData
    PROVE  /\ UNCHANGED <<log, head, published, sub, cursor, upsets>>
           /\ client.applying /\ inbox # << >> /\ client.pc # "away"
           /\ inbox' = Tail(inbox)
           /\ cursor = Reached(Head(inbox), shown.seq)
           /\ cursor \in Nat /\ cursor <= Len(log)
           /\ shown' = Applied(Head(inbox), shown.seq)
           /\ shown' \in Pairs /\ shown'.seq = cursor
           /\ Passed(Head(inbox), shown.seq) \in SUBSET Pairs
           /\ \A p \in Passed(Head(inbox), shown.seq) : p.seq <= Len(log)
           /\ cache' = cache
              \/ (cache' \in Passed(Head(inbox), shown.seq) /\ cache'.has)
           /\ client' \in Clients /\ client'.pc = client.pc /\ ~client'.applying
           /\ client'.overtaken = client.overtaken
<1>1. /\ TypeOK /\ client \in Clients /\ shown \in Pairs /\ Len(log) \in Nat
      /\ \A c \in Clients : Showing(c) \in {"empty", "cached", "synchronizing", "live"}
  BY ClientFacts, TypeFacts DEF Shape
<1>2. /\ UNCHANGED <<log, head, published, sub, cursor, upsets>>
      /\ client.applying
      /\ inbox' = Tail(inbox)
      /\ shown' = Applied(Head(inbox), shown.seq)
      /\ cache' = Saved(Passed(Head(inbox), shown.seq))
  BY DEF ApplyData, server
<1>3. inbox # << >> /\ cursor = Reached(Head(inbox), shown.seq) /\ client.pc # "away"
      /\ shown.seq <= Len(log)
  BY <1>2 DEF Shape, Places
<1>4. /\ cursor \in Nat /\ cursor <= Len(log)
      /\ Applied(Head(inbox), shown.seq) \in Pairs
      /\ Applied(Head(inbox), shown.seq).seq = cursor
      /\ Passed(Head(inbox), shown.seq) \in SUBSET Pairs
      /\ \A p \in Passed(Head(inbox), shown.seq) : p.seq <= Len(log)
  BY <1>1, <1>3, HeadFacts, AppliedFacts
<1>5. \/ Saved(Passed(Head(inbox), shown.seq)) = cache
      \/ /\ Saved(Passed(Head(inbox), shown.seq)) \in Passed(Head(inbox), shown.seq)
         /\ Saved(Passed(Head(inbox), shown.seq)).has
  BY <1>1, <1>4, SavedFacts
<1>6. PICK status \in {"empty", "cached", "synchronizing", "live"}, awaiting \in BOOLEAN :
         client' = [client EXCEPT !.awaiting = awaiting, !.applying = FALSE, !.status = status]
  <2> DEFINE chunk == Head(inbox)
             next == Applied(chunk, shown.seq)
             changed == SnapshotOf(chunk) # {} \/ (shown.has /\ NewEvents(chunk, shown.seq) # << >>)
             marked == MarkersOf(chunk) # {}
             waits == [client EXCEPT !.awaiting = @ /\ ~marked]
             status == IF marked /\ next.has /\ ~client.error THEN "live"
                       ELSE IF changed THEN Showing(client) ELSE client.status
  <2>1. client' = [waits EXCEPT !.applying = FALSE,
                            !.status = IF marked /\ next.has /\ ~client.error THEN "live"
                                       ELSE IF changed THEN Showing(client) ELSE @]
    BY DEF ApplyData
  <2>2. (client.awaiting /\ ~marked) \in BOOLEAN
    OBVIOUS
  <2>3. status \in {"empty", "cached", "synchronizing", "live"}
    BY <1>1 DEF Clients
  <2> HIDE DEF next, changed, marked
  <2>4. client' = [client EXCEPT !.awaiting = client.awaiting /\ ~marked, !.applying = FALSE, !.status = status]
    BY <1>1, <2>1 DEF Clients
  <2> QED
    BY <2>2, <2>3, <2>4
<1>7. client' \in Clients /\ client'.pc = client.pc /\ client'.applying = FALSE
      /\ client'.overtaken = client.overtaken
  BY <1>1, <1>6 DEF Clients
<1> QED
  BY <1>2, <1>3, <1>4, <1>5, <1>7

LEMMA DataShape == ASSUME Shape, ApplyData PROVE Shape'
<1>1. TypeOK /\ cache \in Pairs /\ Len(log) \in Nat
  BY TypeFacts DEF Shape
<1>2. /\ UNCHANGED <<log, head, published, sub, cursor, upsets>>
      /\ client.applying /\ inbox # << >> /\ client.pc # "away"
      /\ inbox' = Tail(inbox)
      /\ cursor \in Nat /\ cursor <= Len(log)
      /\ shown' \in Pairs /\ shown'.seq = cursor
      /\ Passed(Head(inbox), shown.seq) \in SUBSET Pairs
      /\ \A p \in Passed(Head(inbox), shown.seq) : p.seq <= Len(log)
      /\ cache' = cache \/ cache' \in Passed(Head(inbox), shown.seq)
      /\ client' \in Clients /\ client'.pc = client.pc /\ ~client'.applying
  BY DataFacts
<1>3. cache' \in Pairs /\ cache'.seq <= Len(log)
  BY <1>1, <1>2 DEF Shape, Places
<1>4. inbox' \in Seq(Seq(Items))
  BY <1>2, HeadFacts
<1>5. TypeOK'
  BY <1>1, <1>2, <1>3, <1>4 DEF TypeOK, Clients
<1>6. Places'
  BY <1>2, <1>3 DEF Shape, Places, Current
<1>7. Reads' /\ Buffers'
  BY <1>2 DEF Shape, Reads, Buffers
<1>8. Chunks'
  <2>1. ASSUME NEW i \in 1..Len(inbox')
        PROVE  ChunkOK(inbox'[i])
    <3>1. inbox'[i] = inbox[i + 1] /\ i + 1 \in 1..Len(inbox)
      BY <1>2, HeadFacts
    <3> QED
      BY <3>1 DEF Shape, Chunks
  <2> QED
    BY <1>2, <2>1 DEF Chunks, ChunkOK, Current
<1> QED
  BY <1>5, <1>6, <1>7, <1>8 DEF Shape

LEMMA LeaveFacts ==
    ASSUME TypeOK, Leave
    PROVE  /\ UNCHANGED <<log, head, published, shown>>
           /\ client.pc # "away"
           /\ upsets' \in 0..MaxUpsets
           /\ sub' = NoSub /\ inbox' = << >> /\ cursor' = shown.seq
           /\ cache' = cache \/ (cache' = shown /\ shown.has)
           /\ client' \in Clients /\ client'.pc = "away" /\ ~client'.applying
<1>1. client \in Clients /\ shown \in Pairs
  BY ClientFacts, TypeFacts
<1>2. /\ UNCHANGED <<log, head, published, shown>>
      /\ client.pc # "away"
      /\ upsets < MaxUpsets /\ upsets' = upsets + 1
      /\ sub' = NoSub /\ inbox' = << >> /\ cursor' = shown.seq
      /\ cache' = Saved({shown})
      /\ client' = [Gone EXCEPT !.warm = client.status = "live", !.overtaken = client.overtaken]
  BY DEF Leave, Upset
<1>3. client' \in Clients /\ client'.pc = "away" /\ ~client'.applying
  BY <1>1, <1>2 DEF Gone, Clients
<1> QED
  BY <1>1, <1>2, <1>3, OneSaved, UpsetFacts

LEMMA LeaveShape == ASSUME Shape, Leave PROVE Shape'
<1>1. TypeOK /\ cache \in Pairs /\ shown \in Pairs /\ Sound(NoSub) /\ NoSub \in Subs /\ NoSub.pc = "none"
      /\ shown.seq \in Nat
  BY TypeFacts, Unsubscribed, NoSubFacts, PairFacts DEF Shape
<1>2. /\ UNCHANGED <<log, head, published, shown>>
      /\ upsets' \in 0..MaxUpsets
      /\ sub' = NoSub /\ inbox' = << >> /\ cursor' = shown.seq
      /\ cache' = cache \/ cache' = shown
      /\ client' \in Clients /\ client'.pc = "away" /\ ~client'.applying
  BY <1>1, LeaveFacts
<1>3. inbox' \in Seq(Seq(Items)) /\ Len(inbox') = 0
  BY <1>2
<1>4. TypeOK'
  BY <1>1, <1>2, <1>3 DEF TypeOK, Clients, Sound, Subs
<1>5. Places'
  BY <1>1, <1>2 DEF Shape, Places
<1>6. Reads' /\ Buffers'
  BY <1>1, <1>2 DEF Sound, Reads, Buffers
<1>7. Chunks'
  BY <1>3 DEF Chunks
<1> QED
  BY <1>4, <1>5, <1>6, <1>7 DEF Shape

LEMMA ReturnFacts ==
    ASSUME TypeOK, Return
    PROVE  /\ UNCHANGED <<log, head, published, sub, inbox, cache, upsets>>
           /\ client.pc = "away" /\ Current(head)
           /\ shown' = shown \/ shown' = cache
           /\ cursor' = shown'.seq
           /\ client' \in Clients /\ client'.pc = "off" /\ client'.applying = client.applying
<1>1. client \in Clients /\ shown \in Pairs /\ cache \in Pairs
  BY ClientFacts, TypeFacts
<1>2. UNCHANGED <<log, head, published, sub, inbox, cache, upsets>> /\ client.pc = "away" /\ Current(head)
  BY DEF Return, ShellLists, server, Current
<1>3. PICK pair \in {shown, cache} :
         /\ shown' = pair
         /\ cursor' = pair.seq
         /\ LET live == client.warm /\ pair = shown /\ pair.has IN
            client' = [client EXCEPT !.pc = "off", !.warm = live,
                                     !.status = IF live THEN "live" ELSE "synchronizing"]
  BY DEF Return
<1>4. client' \in Clients /\ client'.pc = "off" /\ client'.applying = client.applying
  BY <1>1, <1>3 DEF Clients
<1> QED
  BY <1>2, <1>3, <1>4

LEMMA ReturnShape == ASSUME Shape, Return PROVE Shape'
<1>1. TypeOK /\ cache \in Pairs /\ shown \in Pairs /\ shown.seq \in Nat /\ cache.seq \in Nat
      /\ NoSub.pc = "none"
  BY TypeFacts, PairFacts, NoSubFacts DEF Shape
<1>2. /\ UNCHANGED <<log, head, published, sub, inbox, cache, upsets>>
      /\ client.pc = "away" /\ Current(head)
      /\ shown' = shown \/ shown' = cache
      /\ cursor' = shown'.seq
      /\ client' \in Clients /\ client'.pc = "off" /\ client'.applying = client.applying
  BY <1>1, ReturnFacts
<1>3. sub = NoSub /\ inbox = << >> /\ ~client.applying
  BY <1>2 DEF Shape, Places
<1>4. TypeOK'
  BY <1>1, <1>2 DEF TypeOK, Clients
<1>5. Places'
  BY <1>1, <1>2, <1>3 DEF Shape, Places, Current
<1>6. Reads' /\ Buffers' /\ Chunks'
  BY <1>2 DEF Shape, Reads, Buffers, Chunks, ChunkOK, Current
<1> QED
  BY <1>4, <1>5, <1>6 DEF Shape

LEMMA InitShape == ASSUME Init PROVE Shape
<1>1. /\ Init
      /\ log = <<"created">> /\ head = 1 /\ published = 1 /\ sub = NoSub /\ inbox = << >>
      /\ client = Gone /\ cursor = 0 /\ shown = Nothing /\ cache = Nothing /\ upsets = 0
  BY DEF Init
<1>2. Len(log) = 1 /\ log \in Seq(Kinds) /\ inbox \in Seq(Seq(Items)) /\ Len(inbox) = 0
  BY <1>1 DEF Kinds
<1>3. Nothing \in Pairs /\ Nothing.seq = 0 /\ Nothing.has = FALSE
  <2>1. << >> \in Seq(Nat)
    BY EmptyFacts
  <2> QED
    BY <2>1, Zenon DEF Nothing, Pairs
<1>4. Gone \in Clients /\ Gone.pc = "away" /\ Gone.applying = FALSE
  BY DEF Gone, Clients
<1>5. /\ NoSub \in Subs /\ NoSub.pc = "none"
      /\ NoSub.pending = << >> /\ NoSub.output = << >> /\ NoSub.rest = << >>
      /\ NoSub.inFlight = 0 /\ NoSub.mark = 0 /\ NoSub.pulled = 0
  BY NoSubFacts DEF NoSub
<1>6. Sound(NoSub)
  BY <1>1, <1>2, <1>5, Empties
<1>7. TypeOK
  <2>1. upsets \in 0..MaxUpsets
    BY <1>1, SizesAssumption
  <2> QED
    BY <1>1, <1>2, <1>3, <1>4, <1>5, <1>6, <2>1 DEF TypeOK, Clients, Sound, Subs
<1>8. Places
  BY <1>1, <1>2, <1>3, <1>4, <1>5 DEF Places
<1>9. Reads /\ Buffers
  BY <1>1, <1>6 DEF Sound, Reads, Buffers
<1>10. Chunks
  BY <1>2 DEF Chunks
<1> QED
  BY <1>7, <1>8, <1>9, <1>10 DEF Shape

LEMMA ShapeKept == ASSUME Shape, [Next]_vars PROVE Shape'
<1>1. CASE UNCHANGED vars
  BY <1>1 DEF vars, Shape, TypeOK, Places, Reads, Buffers, Buffered, Within, Sorted, Chunks,
     ChunkOK,
              Current
<1>2. CASE Next
  <2>1. ASSUME NEW kind \in Kinds, Commit(kind) PROVE Shape'
    BY <2>1, CommitShape
  <2>2. CASE UpdateReadModel \/ Publish
    BY <2>2, EngineShape
  <2>3. CASE Buffering \/ Acknowledge
    BY <2>3, IntakeShape, FlushShape, AcknowledgeShape DEF Buffering
  <2>4. CASE Serving
    BY <2>4, MeasureShape, SnapshotShape, MissingShape, CatchUpShape, MarkerShape, DeliverShape
    DEF Serving
  <2>5. CASE Subscribing
    BY <2>5, FailsShape, InputShape, LoadShape, NothingShape DEF Subscribing
  <2>6. CASE Applying
    BY <2>6, SequenceShape, DataShape DEF Applying
  <2>7. CASE Disconnect \/ Resubscribe
    BY <2>7, DisconnectShape
  <2>8. CASE Leave \/ Return
    BY <2>8, LeaveShape, ReturnShape
  <2> QED
    BY <1>2, <2>1, <2>2, <2>3, <2>4, <2>5, <2>6, <2>7, <2>8 DEF Next, Progress
<1> QED
  BY <1>1, <1>2

(* The shape of the subscription's state holds always, whatever the stream *)
(* and the client do.                                                      *)
THEOREM AlwaysShape == Spec => []Shape
<1>1. Init => Shape
  BY InitShape
<1>2. Shape /\ [Next]_vars => Shape'
  BY ShapeKept
<1> QED
  BY <1>1, <1>2, PTL DEF Spec

(* Every variable keeps its type, and what a live buffer retains never     *)
(* exceeds LIVE_STREAM_MAX_ITEMS, flushes, markers and deliveries included *)
(* (LiveStreamBudget.ts).                                                  *)
THEOREM TypeCorrect == Spec => []TypeOK
<1>1. Shape => TypeOK
  BY DEF Shape
<1> QED
  BY <1>1, AlwaysShape, PTL
=============================================================================
