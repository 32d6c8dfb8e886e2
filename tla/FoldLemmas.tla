---------------------------- MODULE FoldLemmas ----------------------------
(***************************************************************************)
(* Facts the proofs need beside those of the libraries: the least of some  *)
(* natural numbers, the first of finitely many things in a strict order,   *)
(* and what a fold over a finite set computes.  They are stated of sets    *)
(* and functions, so that no proof has to instantiate an operator.         *)
(***************************************************************************)
EXTENDS Integers, FiniteSets, FiniteSetsExt, TLAPS, FiniteSetTheorems, WellFoundedInduction

-----------------------------------------------------------------------------
(***************************************************************************)
(* The least of some natural numbers, the greatest of some bounded         *)
(* integers, and the first of finitely many things in a strict order.      *)
(***************************************************************************)
LEMMA LeastNatural ==
    ASSUME NEW T, T \subseteq Nat, T # {}
    PROVE  \E n \in T : \A m \in T : n <= m
<1> DEFINE below == {p \in Nat \X Nat : p[1] < p[2]}
<1>1. IsWellFoundedOn(below, Nat)
  BY NatLessThanWellFounded DEF OpToRel
<1>2. PICK n \in T : \A m \in T : ~(<<m, n>> \in below)
  BY <1>1, WFMin
<1>3. ASSUME NEW m \in T, m < n PROVE FALSE
  <2>1. <<m, n>> \in Nat \X Nat /\ <<m, n>>[1] < <<m, n>>[2]
    BY <1>3
  <2>2. <<m, n>> \in below
    BY <2>1
  <2> QED  BY <1>2, <2>2
<1> QED
  BY <1>2, <1>3

LEMMA GreatestBelow ==
    ASSUME NEW b \in Int, NEW T, T \subseteq Int, T # {}, \A t \in T : t <= b
    PROVE  \E m \in T : \A t \in T : m >= t
<1> DEFINE distances == {b - t : t \in T}
<1>1. distances \subseteq Nat /\ distances # {}
  <2>1. ASSUME NEW t \in T PROVE b - t \in Nat
    OBVIOUS
  <2>2. PICK t \in T : TRUE
    OBVIOUS
  <2>3. b - t \in distances
    BY <2>2
  <2> QED
    BY <2>1, <2>3
<1>2. PICK d \in distances : \A e \in distances : d <= e
  BY <1>1, LeastNatural
<1>3. PICK m \in T : d = b - m
  BY <1>2
<1>4. ASSUME NEW t \in T PROVE m >= t
  <2>1. b - t \in distances
    OBVIOUS
  <2> QED
    BY <1>2, <1>3, <2>1
<1> QED
  BY <1>4

\* ahead[i] are the things ahead of i.
LEMMA FirstInOrder ==
    ASSUME NEW S, IsFiniteSet(S), S # {}, NEW ahead \in [S -> SUBSET S],
           \A i \in S : \A j \in ahead[i] : j \notin ahead[j] /\ ahead[j] \subseteq ahead[i]
    PROVE  \E i \in S : ahead[i] = {}
<1> DEFINE sizes == {Cardinality(ahead[i]) : i \in S}
<1>1. \A i \in S : IsFiniteSet(ahead[i]) /\ Cardinality(ahead[i]) \in Nat
  BY FS_Subset, FS_CardinalityType
<1>2. sizes \subseteq Nat /\ sizes # {}
  BY <1>1
<1>3. PICK n \in sizes : \A m \in sizes : n <= m
  BY <1>2, LeastNatural
<1>4. PICK i \in S : n = Cardinality(ahead[i])
  BY <1>3
<1>5. ASSUME NEW j \in ahead[i] PROVE FALSE
  <2>1. j \in S /\ ahead[j] \subseteq ahead[i] /\ ahead[j] # ahead[i]
    OBVIOUS
  <2>2. Cardinality(ahead[j]) < Cardinality(ahead[i])
    <3>1. IsFiniteSet(ahead[i]) /\ ahead[j] \in SUBSET ahead[i]
      BY <1>1, <2>1
    <3>2. /\ Cardinality(ahead[j]) <= Cardinality(ahead[i])
          /\ Cardinality(ahead[i]) = Cardinality(ahead[j]) => ahead[i] = ahead[j]
      BY <3>1, FS_Subset
    <3> QED
      BY <1>1, <2>1, <3>2
  <2>3. Cardinality(ahead[j]) \in sizes
    BY <2>1
  <2> QED
    BY <1>1, <1>3, <1>4, <2>1, <2>2, <2>3
<1> QED
  BY <1>5

\* Each thing in a total order has a rank of its own, and every rank is one's.
Ranked(S, below) ==
    /\ \A i \in S : Cardinality(below[i]) \in 0..(Cardinality(S) - 1)
    /\ \A i, j \in S : Cardinality(below[i]) = Cardinality(below[j]) => i = j
    /\ \A k \in 1..Cardinality(S) : \E i \in S : Cardinality(below[i]) = k - 1

LEMMA RankedOnce ==
    ASSUME NEW S, IsFiniteSet(S), NEW below \in [S -> SUBSET S],
           \A i \in S : \A j \in below[i] : j \notin below[j] /\ below[j] \subseteq below[i],
           \A i, j \in S : i = j \/ i \in below[j] \/ j \in below[i],
           \A i \in S : i \notin below[i]
    PROVE  Ranked(S, below)
<1> DEFINE n == Cardinality(S)
           rank == [i \in S |-> Cardinality(below[i])]
           ranks == 0..(n - 1)
<1>1. n \in Nat
  BY FS_CardinalityType
<1>2. \A i \in S : IsFiniteSet(below[i]) /\ Cardinality(below[i]) \in Nat
  BY FS_Subset, FS_CardinalityType
<1>3. ASSUME NEW i \in S PROVE Cardinality(below[i]) \in ranks
  <2>1. below[i] \in SUBSET S /\ i \in S \ below[i]
    OBVIOUS
  <2>2. Cardinality(below[i]) <= n /\ Cardinality(below[i]) # n
    BY <2>1, FS_Subset
  <2> QED
    BY <1>1, <1>2, <2>2
<1>4. ASSUME NEW i \in S, NEW j \in S, j \in below[i] PROVE Cardinality(below[j]) < Cardinality(below[i])
  <2>1. below[j] \in SUBSET below[i] /\ below[j] # below[i] /\ IsFiniteSet(below[i])
    BY <1>2, <1>4
  <2>2. Cardinality(below[j]) <= Cardinality(below[i]) /\ Cardinality(below[j]) # Cardinality(below[i])
    BY <2>1, FS_Subset
  <2> QED
    BY <1>2, <2>2
<1>5. ASSUME NEW i \in S, NEW j \in S, Cardinality(below[i]) = Cardinality(below[j]) PROVE i = j
  BY <1>2, <1>4, <1>5
<1>6. rank \in Injection(S, ranks)
  <2> HIDE DEF ranks
  <2> QED
    BY <1>3, <1>5 DEF Injection, IsInjective
<1>7. IsFiniteSet(ranks) /\ Cardinality(ranks) = n
  <2> DEFINE zero == 0
             last == n - 1
  <2>1. zero \in Int /\ last \in Int /\ (IF zero > last THEN 0 ELSE last - zero + 1) = n
    BY <1>1
  <2>2. ranks = zero..last
    OBVIOUS
  <2> HIDE DEF zero, last, ranks
  <2> QED
    BY <2>1, <2>2, FS_Interval
<1>8. rank \in Surjection(S, ranks)
  <2> HIDE DEF ranks, rank
  <2> QED
    BY <1>6, <1>7, FS_Injection
<1>9. ASSUME NEW k \in 1..n PROVE \E i \in S : Cardinality(below[i]) = k - 1
  <2>1. k - 1 \in ranks
    BY <1>1
  <2> HIDE DEF ranks
  <2> QED
    BY <1>8, <2>1 DEF Surjection
<1> QED
  BY <1>3, <1>5, <1>9 DEF Ranked

-----------------------------------------------------------------------------
(***************************************************************************)
(* Folds.                                                                  *)
(***************************************************************************)
\* What holds of the empty set and of a set when it holds of the set without a
\* chosen member holds of every subset.
LEMMA SubsetInduction ==
    ASSUME NEW S, IsFiniteSet(S), NEW pick, \A s \in SUBSET S : s # {} => pick[s] \in s,
           NEW Q, {} \in Q,
           \A s \in SUBSET S : s # {} /\ s \ {pick[s]} \in Q => s \in Q
    PROVE  SUBSET S \subseteq Q
<1> DEFINE sizes == {Cardinality(s) : s \in (SUBSET S) \ Q}
<1>1. \A s \in SUBSET S : IsFiniteSet(s) /\ Cardinality(s) \in Nat
  BY FS_Subset, FS_CardinalityType
<1>2. SUFFICES ASSUME sizes # {} PROVE FALSE
  OBVIOUS
<1>3. sizes \subseteq Nat
  BY <1>1
<1>4. PICK n \in sizes : \A m \in sizes : n <= m
  BY <1>2, <1>3, LeastNatural
<1>5. PICK s \in (SUBSET S) \ Q : n = Cardinality(s)
  BY <1>4
<1> DEFINE rest == s \ {pick[s]}
<1>6. s # {} /\ pick[s] \in s /\ rest \in (SUBSET S) \ Q
  BY <1>5
<1>7. Cardinality(rest) = Cardinality(s) - 1
  BY <1>1, <1>5, <1>6, FS_RemoveElement
<1>8. Cardinality(rest) \in sizes
  BY <1>6
<1> HIDE DEF rest, sizes
<1> QED
  BY <1>1, <1>4, <1>5, <1>7, <1>8

\* One step of a fold that starts from base.
FoldStep(s, base, pick, op, it) ==
    IF s = {} THEN base ELSE op[<<pick[s], it[s \ {pick[s]}]>>]

HasFold(S, T, base, pick, op) ==
    \E it \in [SUBSET S -> T] : \A s \in SUBSET S : it[s] = FoldStep(s, base, pick, op, it)

\* A fold has a value: the recursion over the subsets has a solution.
LEMMA FoldExists ==
    ASSUME NEW S, IsFiniteSet(S), NEW T, NEW base \in T,
           NEW pick, \A s \in SUBSET S : s # {} => pick[s] \in s,
           NEW op \in [S \X T -> T]
    PROVE  HasFold(S, T, base, pick, op)
<1> DEFINE Upto(n) == {s \in SUBSET S : Cardinality(s) <= n}
           Solves(n, it) == \A s \in Upto(n) : it[s] = FoldStep(s, base, pick, op, it)
           open == {n \in Nat : ~\E it \in [Upto(n) -> T] : Solves(n, it)}
<1>1. \A s \in SUBSET S : IsFiniteSet(s) /\ Cardinality(s) \in Nat
  BY FS_Subset, FS_CardinalityType
<1>2. ASSUME NEW s \in SUBSET S, s # {}
      PROVE  /\ pick[s] \in s /\ s \ {pick[s]} \in SUBSET S
             /\ Cardinality(s \ {pick[s]}) = Cardinality(s) - 1
  BY <1>1, <1>2, FS_RemoveElement
<1>3. 0 \notin open
  <2> DEFINE it == [s \in Upto(0) |-> base]
  <2>1. \A s \in Upto(0) : s = {}
    BY <1>1, FS_EmptySet
  <2>2. it \in [Upto(0) -> T] /\ Solves(0, it)
    BY <2>1 DEF FoldStep
  <2> QED
    BY <2>2
<1>4. ASSUME NEW n \in Nat, n \notin open PROVE n + 1 \notin open
  <2>1. PICK it \in [Upto(n) -> T] : Solves(n, it)
    BY <1>4
  <2> DEFINE more == [s \in Upto(n + 1) |-> FoldStep(s, base, pick, op, it)]
  <2>2. ASSUME NEW s \in Upto(n + 1), s # {} PROVE pick[s] \in S /\ s \ {pick[s]} \in Upto(n)
    <3>1. Cardinality(s) \in Nat /\ Cardinality(s) <= n + 1 /\ s \in SUBSET S
      BY <1>1
    <3>2. Cardinality(s \ {pick[s]}) = Cardinality(s) - 1 /\ s \ {pick[s]} \in SUBSET S /\ pick[s] \in s
      BY <1>2, <2>2
    <3> QED
      BY <3>1, <3>2
  <2>3. more \in [Upto(n + 1) -> T]
    <3> SUFFICES ASSUME NEW s \in Upto(n + 1) PROVE FoldStep(s, base, pick, op, it) \in T
      OBVIOUS
    <3> QED
      BY <2>2 DEF FoldStep
  <2>4. \A s \in Upto(n) : s \in Upto(n + 1)
    BY <1>1
  <2>5. \A s \in Upto(n) : more[s] = it[s]
    BY <2>1, <2>4
  <2>6. Solves(n + 1, more)
    <3> SUFFICES ASSUME NEW s \in Upto(n + 1)
                 PROVE  FoldStep(s, base, pick, op, it) = FoldStep(s, base, pick, op, more)
      OBVIOUS
    <3>1. CASE s = {}
      BY <3>1 DEF FoldStep
    <3>2. CASE s # {}
      <4>1. more[s \ {pick[s]}] = it[s \ {pick[s]}]
        BY <2>2, <2>5, <3>2
      <4> HIDE DEF more
      <4> QED
        BY <3>2, <4>1 DEF FoldStep
    <3> QED
      BY <3>1, <3>2
  <2> HIDE DEF more, Upto, Solves
  <2> QED
    BY <2>3, <2>6
<1>5. open = {}
  <2> HIDE DEF Upto, Solves
  <2>1. SUFFICES ASSUME open # {} PROVE FALSE
    OBVIOUS
  <2>2. open \subseteq Nat
    OBVIOUS
  <2> HIDE DEF open
  <2>3. PICK n \in open : \A m \in open : n <= m
    BY <2>1, <2>2, LeastNatural
  <2>4. n \in Nat /\ n # 0 /\ n - 1 \in Nat /\ (n - 1) + 1 = n
    BY <1>3, <2>2, <2>3
  <2>5. n - 1 \notin open
    BY <2>2, <2>3, <2>4
  <2> QED
    BY <1>4, <2>3, <2>4, <2>5
<1>6. PICK it \in [Upto(Cardinality(S)) -> T] : Solves(Cardinality(S), it)
  <2>1. Cardinality(S) \in Nat
    BY FS_CardinalityType
  <2> HIDE DEF Upto, Solves
  <2> QED
    BY <1>5, <2>1
<1>7. Upto(Cardinality(S)) = SUBSET S
  BY <1>1, FS_Subset, FS_CardinalityType
<1> QED
  BY <1>6, <1>7 DEF HasFold

LEMMA MaxIs ==
    ASSUME NEW n \in Nat, NEW s \in SUBSET (1..n), s # {}
    PROVE  Max(s) \in s /\ \A i \in s : i <= Max(s)
<1>1. s \subseteq Int /\ n \in Int /\ \A i \in s : i <= n
  OBVIOUS
<1>2. PICK m \in s : \A i \in s : m >= i
  BY <1>1, GreatestBelow
<1>3. Max(s) \in s /\ \A i \in s : Max(s) >= i
  BY <1>2 DEF Max
<1> QED
  BY <1>1, <1>3

\* The last of the first k items is the k-th.
LEMMA LastOfFirst ==
    ASSUME NEW n \in Nat, NEW k \in 1..n
    PROVE  /\ 1..k \in SUBSET (1..n) /\ 1..k # {}
           /\ Max(1..k) = k /\ (1..k) \ {Max(1..k)} = 1..(k - 1)
<1>1. 1..k \in SUBSET (1..n) /\ 1..k # {} /\ (1..k) \ {k} = 1..(k - 1) /\ k \in 1..k
  OBVIOUS
<1>2. Max(1..k) \in 1..k /\ k <= Max(1..k)
  BY <1>1, MaxIs
<1> QED
  BY <1>1, <1>2

\* A fold from the left, which takes the last item off.
FoldOfItems(it, n, T, base, op) ==
    /\ it \in [SUBSET (1..n) -> T]
    /\ \A s \in SUBSET (1..n) :
          IF s = {} THEN it[s] = base
          ELSE /\ Max(s) \in 1..n /\ it[s \ {Max(s)}] \in T
               /\ it[s] = op[<<Max(s), it[s \ {Max(s)}]>>]

HasFoldOfItems(n, T, base, op) == \E it : FoldOfItems(it, n, T, base, op)

LEMMA FoldOfItemsExists ==
    ASSUME NEW n \in Nat, NEW T, NEW base \in T, NEW op \in [(1..n) \X T -> T]
    PROVE  HasFoldOfItems(n, T, base, op)
<1> DEFINE S == 1..n
           last == [s \in SUBSET S |-> Max(s)]
<1>1. IsFiniteSet(S) /\ op \in [S \X T -> T]
  BY FS_Interval
<1>2. \A s \in SUBSET S : s # {} => last[s] \in s
  BY MaxIs
<1>3. HasFold(S, T, base, last, op)
  <2> HIDE DEF S, last
  <2> QED
    BY <1>1, <1>2, FoldExists
<1>4. PICK it \in [SUBSET S -> T] : \A s \in SUBSET S : it[s] = FoldStep(s, base, last, op, it)
  BY <1>3 DEF HasFold
<1>5. ASSUME NEW s \in SUBSET S
      PROVE  IF s = {} THEN it[s] = base
             ELSE /\ Max(s) \in S /\ it[s \ {Max(s)}] \in T
                  /\ it[s] = op[<<Max(s), it[s \ {Max(s)}]>>]
  <2>1. CASE s = {}
    BY <1>4, <2>1 DEF FoldStep
  <2>2. CASE s # {}
    <3>1. last[s] = Max(s) /\ Max(s) \in s /\ s \ {Max(s)} \in SUBSET S
      BY <1>2, <2>2
    <3> HIDE DEF last
    <3> QED
      BY <1>4, <2>2, <3>1 DEF FoldStep
  <2> QED
    BY <2>1, <2>2
<1>6. FoldOfItems(it, n, T, base, op)
  BY <1>4, <1>5 DEF FoldOfItems
<1> QED
  BY <1>6 DEF HasFoldOfItems

-----------------------------------------------------------------------------
(***************************************************************************)
(* Sums.                                                                   *)
(***************************************************************************)
AllRemovals(s, Q) == \A x \in s : s \ {x} \in Q

\* What holds of a set when it holds of the set without any one of its members
\* holds of every subset.
LEMMA RemovalInduction ==
    ASSUME NEW S, IsFiniteSet(S), NEW Q,
           \A s \in SUBSET S : AllRemovals(s, Q) => s \in Q
    PROVE  SUBSET S \subseteq Q
<1> DEFINE sizes == {Cardinality(s) : s \in (SUBSET S) \ Q}
<1>1. \A s \in SUBSET S : IsFiniteSet(s) /\ Cardinality(s) \in Nat
  BY FS_Subset, FS_CardinalityType
<1>2. SUFFICES ASSUME sizes # {} PROVE FALSE
  OBVIOUS
<1>3. sizes \subseteq Nat
  BY <1>1
<1>4. PICK n \in sizes : \A m \in sizes : n <= m
  BY <1>2, <1>3, LeastNatural
<1>5. PICK s \in (SUBSET S) \ Q : n = Cardinality(s)
  BY <1>4
<1>6. PICK x \in s : s \ {x} \in (SUBSET S) \ Q
  BY <1>5 DEF AllRemovals
<1>7. Cardinality(s \ {x}) = Cardinality(s) - 1 /\ Cardinality(s \ {x}) \in sizes
  BY <1>1, <1>5, <1>6, FS_RemoveElement
<1> HIDE DEF sizes
<1> QED
  BY <1>1, <1>4, <1>5, <1>7

\* sum[s] is the sum of f over s, for the subsets s of S.
Sums(sum, f, S) ==
    /\ sum \in [SUBSET S -> Int]
    /\ sum[{}] = 0
    /\ \A s \in SUBSET S : \A x \in s : sum[s] = f[x] + sum[s \ {x}]

\* A sum is the same in whatever order it is taken.
LEMMA AnyOrderSums ==
    ASSUME NEW S, IsFiniteSet(S), NEW f, \A x \in S : f[x] \in Int,
           NEW pick, \A s \in SUBSET S : s # {} => pick[s] \in s,
           NEW sum \in [SUBSET S -> Int], sum[{}] = 0,
           \A s \in SUBSET S : s # {} => sum[s] = f[pick[s]] + sum[s \ {pick[s]}]
    PROVE  Sums(sum, f, S)
<1> DEFINE Q == {s \in SUBSET S : \A x \in s : sum[s] = f[x] + sum[s \ {x}]}
<1>1. ASSUME NEW s \in SUBSET S, AllRemovals(s, Q) PROVE s \in Q
  <2> SUFFICES ASSUME NEW x \in s PROVE sum[s] = f[x] + sum[s \ {x}]
    OBVIOUS
  <2> DEFINE p == pick[s]
  <2>1. p \in s /\ sum[s] = f[p] + sum[s \ {p}]
    OBVIOUS
  <2>2. CASE x = p
    BY <2>1, <2>2
  <2>3. CASE x # p
    <3> HIDE DEF p
    <3>1. x \in s \ {p} /\ p \in s \ {x} /\ s \ {p} \in Q /\ s \ {x} \in Q
          /\ (s \ {p}) \ {x} = (s \ {x}) \ {p} /\ (s \ {x}) \ {p} \in SUBSET S
      BY <1>1, <2>1, <2>3 DEF AllRemovals
    <3>2. /\ sum[s \ {p}] = f[x] + sum[(s \ {p}) \ {x}]
          /\ sum[s \ {x}] = f[p] + sum[(s \ {x}) \ {p}]
      BY <3>1
    <3>3. f[x] \in Int /\ f[p] \in Int /\ sum[(s \ {x}) \ {p}] \in Int
      BY <2>1, <3>1
    <3> QED
      BY <2>1, <3>1, <3>2, <3>3
  <2> QED
    BY <2>2, <2>3
<1>2. SUBSET S \subseteq Q
  <2> HIDE DEF Q
  <2> QED
    BY <1>1, RemovalInduction
<1> QED
  BY <1>2 DEF Sums

\* A sum of no negative numbers grows with the set.
LEMMA LargerSetSumsMore ==
    ASSUME NEW S, IsFiniteSet(S), NEW f, \A x \in S : f[x] \in Nat,
           NEW sum, Sums(sum, f, S), NEW s \in SUBSET S, NEW t \in SUBSET S, s \subseteq t
    PROVE  sum[s] <= sum[t]
<1> DEFINE Q == {u \in SUBSET (t \ s) : sum[s] <= sum[s \cup u]}
<1>1. \A u \in SUBSET (t \ s) : sum[s \cup u] \in Int /\ s \cup u \in SUBSET S
  BY DEF Sums
<1>2. ASSUME NEW u \in SUBSET (t \ s), AllRemovals(u, Q) PROVE u \in Q
  <2>1. CASE u = {}
    <3>1. s \cup u = s /\ sum[s] \in Int
      BY <2>1 DEF Sums
    <3> QED
      BY <3>1
  <2>2. CASE u # {}
    <3>1. PICK x \in u : TRUE
      BY <2>2
    <3>2. sum[s \cup u] = f[x] + sum[(s \cup u) \ {x}] /\ (s \cup u) \ {x} = s \cup (u \ {x})
      BY <1>1, <3>1 DEF Sums
    <3>3. sum[s] <= sum[s \cup (u \ {x})]
      BY <1>2, <3>1 DEF AllRemovals
    <3>4. f[x] \in Nat /\ sum[s] \in Int /\ sum[s \cup (u \ {x})] \in Int /\ sum[s \cup u] \in Int
      BY <1>1, <3>1 DEF Sums
    <3> QED
      BY <3>2, <3>3, <3>4
  <2> QED
    BY <2>1, <2>2
<1>3. IsFiniteSet(t \ s)
  BY FS_Subset
<1>4. SUBSET (t \ s) \subseteq Q
  <2> DEFINE rest == t \ s
  <2>1. IsFiniteSet(rest) /\ \A u \in SUBSET rest : AllRemovals(u, Q) => u \in Q
    BY <1>2, <1>3
  <2> HIDE DEF Q, rest
  <2>2. SUBSET rest \subseteq Q
    BY <2>1, RemovalInduction
  <2> QED
    BY <2>2 DEF rest
<1>5. s \cup (t \ s) = t /\ t \ s \in SUBSET (t \ s)
  OBVIOUS
<1> QED
  BY <1>4, <1>5

LEMMA ZerosSumToZero ==
    ASSUME NEW S, IsFiniteSet(S), NEW f, \A x \in S : f[x] = 0, NEW sum, Sums(sum, f, S)
    PROVE  sum[S] = 0
<1> DEFINE Q == {s \in SUBSET S : sum[s] = 0}
<1>1. ASSUME NEW s \in SUBSET S, AllRemovals(s, Q) PROVE s \in Q
  <2>1. CASE s = {}
    BY <2>1 DEF Sums
  <2>2. CASE s # {}
    <3>1. PICK x \in s : TRUE
      BY <2>2
    <3>2. sum[s] = f[x] + sum[s \ {x}] /\ f[x] = 0 /\ sum[s \ {x}] = 0
      BY <1>1, <3>1 DEF Sums, AllRemovals
    <3> QED
      BY <3>2
  <2> QED
    BY <2>1, <2>2
<1>2. SUBSET S \subseteq Q
  <2> HIDE DEF Q
  <2> QED
    BY <1>1, RemovalInduction
<1> QED
  BY <1>2

\* A sum as MapThenSumSet computes it.
AnyOf(s) == CHOOSE x \in s : TRUE

IsSumOf(sum, f, S) ==
    sum = [s \in SUBSET S |-> IF s = {} THEN 0 ELSE f[AnyOf(s)] + sum[s \ {AnyOf(s)}]]

LEMMA ComputedSums ==
    ASSUME NEW S, IsFiniteSet(S), NEW f, \A x \in S : f[x] \in Int, NEW sum, IsSumOf(sum, f, S)
    PROVE  Sums(sum, f, S)
<1> DEFINE pick == [s \in SUBSET S |-> AnyOf(s)]
           Q == {s \in SUBSET S : sum[s] \in Int}
<1>1. \A s \in SUBSET S : s # {} => pick[s] \in s /\ pick[s] = AnyOf(s)
  BY DEF AnyOf
<1>2. /\ sum[{}] = 0
      /\ \A s \in SUBSET S : s # {} => sum[s] = f[pick[s]] + sum[s \ {pick[s]}]
  BY <1>1 DEF IsSumOf
<1>3. ASSUME NEW s \in SUBSET S, s # {}, s \ {pick[s]} \in Q PROVE s \in Q
  <2>1. f[pick[s]] \in Int /\ sum[s \ {pick[s]}] \in Int
    BY <1>1, <1>3
  <2>2. sum[s] = f[pick[s]] + sum[s \ {pick[s]}]
    BY <1>2, <1>3
  <2> HIDE DEF pick
  <2>3. sum[s] \in Int
    BY <2>1, <2>2
  <2> QED
    BY <2>3
<1>4. {} \in Q
  BY <1>2
<1>5. SUBSET S \subseteq Q
  <2> HIDE DEF pick, Q
  <2> QED
    BY <1>1, <1>3, <1>4, SubsetInduction
<1>6. sum \in [SUBSET S -> Int]
  BY <1>5 DEF IsSumOf
<1> HIDE DEF pick
<1> QED
  BY <1>1, <1>2, <1>6, AnyOrderSums

LEMMA SumExists ==
    ASSUME NEW S, IsFiniteSet(S), NEW f, \A x \in S : f[x] \in Int
    PROVE  \E sum : IsSumOf(sum, f, S)
<1> DEFINE pick == [s \in SUBSET S |-> AnyOf(s)]
           add == [p \in S \X Int |-> f[p[1]] + p[2]]
           zero == 0
           result == Int
<1>1. zero \in result /\ add \in [S \X result -> result]
      /\ \A s \in SUBSET S : s # {} => pick[s] \in s
  BY DEF AnyOf
<1>2. HasFold(S, result, zero, pick, add)
  <2> HIDE DEF zero, result, pick, add
  <2> QED
    BY <1>1, FoldExists
<1>3. PICK sum \in [SUBSET S -> Int] : \A s \in SUBSET S : sum[s] = FoldStep(s, 0, pick, add, sum)
  BY <1>2 DEF HasFold
<1>4. ASSUME NEW s \in SUBSET S, s # {}
      PROVE  FoldStep(s, 0, pick, add, sum) = f[AnyOf(s)] + sum[s \ {AnyOf(s)}]
  <2>1. pick[s] = AnyOf(s) /\ AnyOf(s) \in s /\ sum[s \ {AnyOf(s)}] \in Int
    BY <1>4 DEF AnyOf
  <2>2. add[<<AnyOf(s), sum[s \ {AnyOf(s)}]>>] = f[AnyOf(s)] + sum[s \ {AnyOf(s)}]
    BY <2>1
  <2> HIDE DEF pick, add
  <2> QED
    BY <1>4, <2>1, <2>2 DEF FoldStep
<1>5. ASSUME NEW s \in SUBSET S, s = {} PROVE FoldStep(s, 0, pick, add, sum) = 0
  BY <1>5 DEF FoldStep
<1>6. sum = [s \in SUBSET S |-> IF s = {} THEN 0 ELSE f[AnyOf(s)] + sum[s \ {AnyOf(s)}]]
  <2> HIDE DEF pick, add
  <2> QED
    BY <1>3, <1>4, <1>5
<1> QED
  BY <1>6 DEF IsSumOf

\* The value is a sum of f over S.
HasSum(value, f, S) == \E sum : Sums(sum, f, S) /\ value = sum[S]

LEMMA ComputedHasSum ==
    ASSUME NEW S, IsFiniteSet(S), NEW f, \A x \in S : f[x] \in Int
    PROVE  HasSum((CHOOSE sum : IsSumOf(sum, f, S))[S], f, S)
  BY SumExists, ComputedSums DEF HasSum
=============================================================================
