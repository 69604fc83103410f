-------------------------- MODULE MeasurementProofs --------------------------
(* The token bucket keeps its rate, for every rate, capacity and need, and *)
(* however late the tasks run.                                             *)
EXTENDS Measurement, FiniteSetTheorems, TLAPS

-----------------------------------------------------------------------------
(* Sums and least elements of finite sets.                                 *)

(* Induction on the subsets of a finite set, for a set P of them.          *)
LEMMA SubsetInduction ==
  ASSUME NEW D, IsFiniteSet(D), NEW P, {} \in P,
         \A S \in SUBSET D : S # {} /\ (\A x \in S : S \ {x} \in P) => S \in P
  PROVE  \A S \in SUBSET D : S \in P
<1> DEFINE TT == (SUBSET D) \ P
<1> SUFFICES ASSUME TT # {} PROVE FALSE
  OBVIOUS
<1>1. IsWellFoundedOn(StrictSubsetOrdering(D), FiniteSubsetsOf(D))
  BY FS_StrictSubsetOrderingWellFounded
<1>2. TT \subseteq FiniteSubsetsOf(D)
  BY FS_FiniteSubsetsOfFinite
<1>3. PICK S \in TT : \A R \in TT : ~(<<R, S>> \in StrictSubsetOrdering(D))
  <2> HIDE DEF TT
  <2> QED BY <1>1, <1>2, WFMin
<1>4. S \in SUBSET D /\ S \notin P /\ S # {}
  OBVIOUS
<1>5. PICK x \in S : S \ {x} \notin P
  BY <1>4
<1>6. S \ {x} \in TT /\ <<S \ {x}, S>> \in StrictSubsetOrdering(D)
  BY <1>4, <1>5 DEF StrictSubsetOrdering
<1> QED BY <1>3, <1>6

(* What the fold computes.                                                 *)
Pick(S) == CHOOSE x \in S : TRUE

Sums(s, f, D) ==
  s = [S \in SUBSET D |-> IF S = {} THEN 0 ELSE f[Pick(S)] + s[S \ {Pick(S)}]]

LEMMA SumsExist ==
  ASSUME NEW D, IsFiniteSet(D), NEW f
  PROVE  \E s : Sums(s, f, D)
<1> DEFINE Upto(g, n) == \A S \in SUBSET D : Cardinality(S) <= n =>
                           g[S] = IF S = {} THEN 0 ELSE f[Pick(S)] + g[S \ {Pick(S)}]
           P == {T \in SUBSET D : \E g : g = [S \in SUBSET D |-> g[S]] /\ Upto(g, Cardinality(T))}
<1>1. \A S \in SUBSET D : IsFiniteSet(S) /\ Cardinality(S) \in Nat /\ Cardinality(S) <= Cardinality(D)
  BY FS_Subset, FS_CardinalityType
<1>2. {} \in P
  <2> DEFINE g == [S \in SUBSET D |-> 0]
  <2>1. Upto(g, Cardinality({}))
    BY <1>1, FS_EmptySet
  <2>2. g = [S \in SUBSET D |-> g[S]]
    OBVIOUS
  <2> HIDE DEF g
  <2> QED BY <2>1, <2>2
<1>3. ASSUME NEW T \in SUBSET D, T # {}, \A x \in T : T \ {x} \in P PROVE T \in P
  <2>1. PICK x \in T : T \ {x} \in P
    BY <1>3
  <2> DEFINE k == Cardinality(T)
  <2>2. Cardinality(T \ {x}) = k - 1 /\ k \in Nat
    BY <1>1, FS_RemoveElement
  <2>3. PICK g : Upto(g, k - 1)
    BY <2>1, <2>2
  <2> HIDE DEF k
  <2> DEFINE h == [S \in SUBSET D |-> IF Cardinality(S) < k \/ S = {} THEN g[S]
                                      ELSE f[Pick(S)] + g[S \ {Pick(S)}]]
  <2>4. ASSUME NEW S \in SUBSET D, Cardinality(S) <= k
        PROVE  h[S] = IF S = {} THEN 0 ELSE f[Pick(S)] + h[S \ {Pick(S)}]
    <3>1. CASE S = {}
      <4>1. Cardinality(S) = 0 /\ k # 0
        BY <3>1, <1>1, <1>3, FS_EmptySet DEF k
      <4> QED BY <3>1, <4>1, <2>2, <2>3
    <3>2. CASE S # {}
      <4>1. Pick(S) \in S /\ S \ {Pick(S)} \in SUBSET D
        BY <3>2 DEF Pick
      <4>2. Cardinality(S \ {Pick(S)}) = Cardinality(S) - 1
        BY <4>1, <1>1, FS_RemoveElement
      <4>3. Cardinality(S \ {Pick(S)}) < k /\ Cardinality(S) \in Nat
        BY <4>2, <1>1, <2>2, <2>4
      <4>4. h[S \ {Pick(S)}] = g[S \ {Pick(S)}]
        BY <4>1, <4>3
      <4>5. CASE Cardinality(S) < k
        <5>1. Cardinality(S) <= k - 1
          BY <2>2, <4>3, <4>5
        <5>2. Cardinality(S) <= k - 1 =>
                g[S] = IF S = {} THEN 0 ELSE f[Pick(S)] + g[S \ {Pick(S)}]
          BY <2>3, Zenon
        <5>3. g[S] = f[Pick(S)] + g[S \ {Pick(S)}]
          BY <5>1, <5>2, <3>2, Zenon
        <5> QED BY <5>3, <4>4, <4>5, <3>2
      <4>6. CASE ~(Cardinality(S) < k)
        BY <4>4, <4>6, <3>2
      <4> QED BY <4>5, <4>6
    <3> QED BY <3>1, <3>2
  <2>5. h = [S \in SUBSET D |-> h[S]]
    OBVIOUS
  <2> HIDE DEF h
  <2> QED BY <2>4, <2>5 DEF k
<1>4. D \in P
  <2> HIDE DEF P
  <2> QED BY <1>2, <1>3, SubsetInduction, ZenonT(60)
<1>5. PICK g : g = [S \in SUBSET D |-> g[S]] /\ Upto(g, Cardinality(D))
  BY <1>4
<1>6. \A S \in SUBSET D : g[S] = IF S = {} THEN 0 ELSE f[Pick(S)] + g[S \ {Pick(S)}]
  BY <1>1, <1>5
<1>7. g = [S \in SUBSET D |-> IF S = {} THEN 0 ELSE f[Pick(S)] + g[S \ {Pick(S)}]]
  BY <1>5, <1>6
<1> QED BY <1>7 DEF Sums

LEMMA SumIsFolded ==
  ASSUME NEW f, IsFiniteSet(DOMAIN f)
  PROVE  \E s : Sums(s, f, DOMAIN f) /\ SumOf(f) = s[DOMAIN f]
<1> DEFINE s == CHOOSE s : Sums(s, f, DOMAIN f)
<1>1. Sums(s, f, DOMAIN f)
  BY SumsExist
<1>2. SumOf(f) = s[DOMAIN f]
  BY DEF SumOf, FoldSet, MapThenFoldSet, Sums, Pick
<1> QED BY <1>1, <1>2

(* Sums of numbers are numbers, and compare as their terms do.             *)
LEMMA SumsCompare ==
  ASSUME NEW D, IsFiniteSet(D), NEW f \in [D -> Nat], NEW g \in [D -> Nat], NEW h \in [D -> Nat],
         \A x \in D : f[x] + g[x] <= h[x]
  PROVE  SumOf(f) \in Nat /\ SumOf(g) \in Nat /\ SumOf(h) \in Nat /\ SumOf(f) + SumOf(g) <= SumOf(h)
<1>1. PICK a : Sums(a, f, D) /\ SumOf(f) = a[D]
  BY SumIsFolded
<1>2. PICK b : Sums(b, g, D) /\ SumOf(g) = b[D]
  BY SumIsFolded
<1>3. PICK c : Sums(c, h, D) /\ SumOf(h) = c[D]
  BY SumIsFolded
<1> DEFINE P == {S \in SUBSET D : a[S] \in Nat /\ b[S] \in Nat /\ c[S] \in Nat /\ a[S] + b[S] <= c[S]}
<1>4. ASSUME NEW S \in SUBSET D
      PROVE  /\ a[S] = IF S = {} THEN 0 ELSE f[Pick(S)] + a[S \ {Pick(S)}]
             /\ b[S] = IF S = {} THEN 0 ELSE g[Pick(S)] + b[S \ {Pick(S)}]
             /\ c[S] = IF S = {} THEN 0 ELSE h[Pick(S)] + c[S \ {Pick(S)}]
  BY <1>1, <1>2, <1>3 DEF Sums
<1>5. {} \in P
  <2>1. a[{}] = 0 /\ b[{}] = 0 /\ c[{}] = 0
    BY <1>4
  <2> QED BY <2>1
<1>6. ASSUME NEW S \in SUBSET D, S # {}, \A x \in S : S \ {x} \in P PROVE S \in P
  <2>1. Pick(S) \in S
    BY <1>6 DEF Pick
  <2> DEFINE x == Pick(S)
             R == S \ {x}
  <2>2. R \in P /\ x \in D
    BY <1>6, <2>1
  <2>3. f[x] \in Nat /\ g[x] \in Nat /\ h[x] \in Nat /\ f[x] + g[x] <= h[x]
    BY <2>2
  <2>4. a[S] = f[x] + a[R] /\ b[S] = g[x] + b[R] /\ c[S] = h[x] + c[R]
    BY <1>4, <1>6
  <2>5. a[R] \in Nat /\ b[R] \in Nat /\ c[R] \in Nat /\ a[R] + b[R] <= c[R]
    BY <2>2
  <2> HIDE DEF x, R
  <2>6. a[S] \in Nat /\ b[S] \in Nat /\ c[S] \in Nat /\ a[S] + b[S] <= c[S]
    BY <2>3, <2>4, <2>5
  <2> QED BY <2>6
<1>7. D \in P
  <2> HIDE DEF P
  <2> QED BY <1>5, <1>6, SubsetInduction
<1> QED BY <1>1, <1>2, <1>3, <1>7

(* A sum does not depend on the order in which the fold picks the terms.   *)
LEMMA SumRemoves ==
  ASSUME NEW D, IsFiniteSet(D), NEW f \in [D -> Nat], NEW a, Sums(a, f, D)
  PROVE  \A S \in SUBSET D : a[S] \in Nat /\ \A x \in S : a[S] = f[x] + a[S \ {x}]
<1> DEFINE N == {S \in SUBSET D : a[S] \in Nat}
           P == {S \in SUBSET D : \A x \in S : a[S] = f[x] + a[S \ {x}]}
<1>1. /\ a[{}] = 0
      /\ \A S \in SUBSET D : S # {} => Pick(S) \in S /\ a[S] = f[Pick(S)] + a[S \ {Pick(S)}]
  BY DEF Sums, Pick
<1>2. \A S \in SUBSET D : S \in N
  <2>1. {} \in N
    BY <1>1
  <2>2. ASSUME NEW S \in SUBSET D, S # {}, \A x \in S : S \ {x} \in N PROVE S \in N
    <3>1. PICK x \in S : a[S] = f[x] + a[S \ {x}]
      BY <1>1, <2>2
    <3>2. f[x] \in Nat /\ a[S \ {x}] \in Nat
      BY <2>2, <3>1
    <3> QED BY <3>1, <3>2
  <2> HIDE DEF N
  <2> QED BY <2>1, <2>2, SubsetInduction
<1>3. ASSUME NEW S \in SUBSET D, S # {}, \A x \in S : S \ {x} \in P PROVE S \in P
  <2> DEFINE p == Pick(S)
  <2>1. p \in S /\ a[S] = f[p] + a[S \ {p}]
    BY <1>1, <1>3
  <2> HIDE DEF p
  <2>2. ASSUME NEW x \in S PROVE a[S] = f[x] + a[S \ {x}]
    <3>1. CASE x = p
      BY <2>1, <3>1
    <3>2. CASE x # p
      <4> DEFINE R == S \ {p, x}
      <4>1. S \ {p} \in P /\ x \in S \ {p} /\ S \ {x} \in P /\ p \in S \ {x}
        BY <1>3, <2>1, <3>2
      <4>2. (S \ {p}) \ {x} = R /\ (S \ {x}) \ {p} = R
        OBVIOUS
      <4>3. a[S \ {p}] = f[x] + a[R] /\ a[S \ {x}] = f[p] + a[R]
        BY <4>1, <4>2
      <4>4. f[x] \in Nat /\ f[p] \in Nat /\ a[R] \in Nat
        BY <1>2, <2>1
      <4> HIDE DEF R
      <4> QED BY <2>1, <4>3, <4>4
    <3> QED BY <3>1, <3>2
  <2> QED BY <2>2
<1>4. {} \in P
  OBVIOUS
<1>5. \A S \in SUBSET D : S \in P
  <2> HIDE DEF P
  <2> QED BY <1>3, <1>4, SubsetInduction
<1> QED BY <1>2, <1>5

(* Terms that are 0 may be left out of a sum.                              *)
LEMMA SumOfSome ==
  ASSUME NEW D, IsFiniteSet(D), NEW f \in [D -> Nat], NEW S \in SUBSET D,
         NEW g \in [S -> Nat], \A x \in S : g[x] = f[x], \A x \in D \ S : f[x] = 0
  PROVE  SumOf(f) = SumOf(g)
<1>1. PICK a : Sums(a, f, D) /\ SumOf(f) = a[D]
  BY SumIsFolded
<1>2. IsFiniteSet(S)
  BY FS_Subset
<1>3. PICK b : Sums(b, g, S) /\ SumOf(g) = b[S]
  BY <1>2, SumIsFolded
<1>4. \A T \in SUBSET D : a[T] \in Nat /\ \A x \in T : a[T] = f[x] + a[T \ {x}]
  BY <1>1, SumRemoves
<1>5. \A T \in SUBSET S : b[T] \in Nat /\ \A x \in T : b[T] = g[x] + b[T \ {x}]
  <2>1. IsFiniteSet(S) /\ g \in [S -> Nat] /\ Sums(b, g, S)
    BY <1>2, <1>3
  <2> QED BY <2>1, SumRemoves
<1> DEFINE P == {T \in SUBSET D : a[T] = b[T \cap S]}
<1>6. {} \in P
  <2>1. a[{}] = 0
    BY <1>1 DEF Sums
  <2>2. b[{}] = 0
    BY <1>3 DEF Sums
  <2>3. {} \cap S = {} /\ {} \in SUBSET D
    OBVIOUS
  <2>4. a[{}] = b[{} \cap S]
    BY <2>1, <2>2, <2>3, Zenon
  <2> QED BY <2>3, <2>4, Zenon
<1>7. ASSUME NEW T \in SUBSET D, T # {}, \A x \in T : T \ {x} \in P PROVE T \in P
  <2>1. PICK x \in T : T \ {x} \in P
    BY <1>7
  <2>2. a[T] = f[x] + a[T \ {x}] /\ a[T \ {x}] = b[(T \ {x}) \cap S] /\ a[T \ {x}] \in Nat
    BY <1>4, <2>1
  <2>3. CASE x \in S
    <3>1. (T \ {x}) \cap S = (T \cap S) \ {x} /\ T \cap S \in SUBSET S /\ x \in T \cap S
      BY <2>3
    <3>2. b[T \cap S] = g[x] + b[(T \cap S) \ {x}]
      BY <1>5, <3>1
    <3> QED BY <2>2, <2>3, <3>1, <3>2
  <2>4. CASE x \notin S
    <3>1. (T \ {x}) \cap S = T \cap S
      BY <2>4
    <3> QED BY <2>2, <2>4, <3>1
  <2> QED BY <2>3, <2>4
<1>8. D \in P
  <2> HIDE DEF P
  <2> QED BY <1>6, <1>7, SubsetInduction
<1>9. D \cap S = S
  OBVIOUS
<1> QED BY <1>1, <1>3, <1>8, <1>9

LEMMA FiniteImage ==
  ASSUME NEW S, IsFiniteSet(S), NEW f
  PROVE  IsFiniteSet({f[x] : x \in S})
<1> DEFINE T == {f[x] : x \in S}
           g == [x \in S |-> f[x]]
<1>1. g \in [S -> T] /\ \A t \in T : \E x \in S : g[x] = t
  OBVIOUS
<1>2. g \in Surjection(S, T)
  BY <1>1 DEF Surjection
<1> HIDE DEF g, T
<1>3. IsFiniteSet(T)
  BY <1>2, FS_Surjection
<1> QED BY <1>3 DEF T

(* A finite set of integers has a least element.                           *)
LEMMA LeastInt ==
  ASSUME NEW S \in SUBSET Int, IsFiniteSet(S), S # {}
  PROVE  Min(S) \in S /\ \A y \in S : Min(S) <= y
<1> DEFINE P == {R \in SUBSET S : R = {} \/ \E x \in R : \A y \in R : x <= y}
<1>1. ASSUME NEW R \in SUBSET S, R # {}, \A x \in R : R \ {x} \in P PROVE R \in P
  <2>1. PICK a \in R : TRUE
    BY <1>1
  <2>2. R \ {a} \in P /\ R \ {a} \subseteq Int /\ a \in Int
    BY <1>1
  <2>3. CASE R \ {a} = {}
    BY <2>2, <2>3
  <2>4. CASE R \ {a} # {}
    <3>1. PICK m \in R \ {a} : \A y \in R \ {a} : m <= y
      BY <2>2, <2>4
    <3>2. CASE m <= a
      BY <3>1, <3>2, <2>2
    <3>3. CASE ~(m <= a)
      <4>1. \A y \in R : y \in Int /\ a <= y
        BY <3>1, <3>3, <2>2
      <4> QED BY <4>1, <2>2
    <3> QED BY <3>2, <3>3
  <2> QED BY <2>3, <2>4
<1>2. {} \in P
  OBVIOUS
<1>3. S \in P
  <2> HIDE DEF P
  <2> QED BY <1>1, <1>2, SubsetInduction
<1>4. PICK x \in S : \A y \in S : x <= y
  BY <1>3
<1> QED BY <1>4 DEF Min

-----------------------------------------------------------------------------
(* The bucket.                                                             *)

PCs == {"polling", "asked", "answered", "waiting", "working", "cleanup", "ended", "left"}

(* The least a bucket may hold: a need beyond the capacity leaves a debt.  *)
Debt == Lesser(job.need, Capacity) - job.need

BucketType ==
  /\ job \in Jobs /\ now \in Nat
  /\ pc \in [Workers -> PCs]
  /\ tokens \in [Workers -> Int] /\ refilled \in [Workers -> Nat]
  /\ excess \in [Workers -> Nat]

(* What was taken beyond the rate is what is missing in the bucket, if it  *)
(* were refilled now.                                                      *)
BucketExact ==
  \A w \in Workers :
    /\ refilled[w] <= now
    /\ tokens[w] >= Debt
    /\ pc[w] # "working" => excess[w] = 0
    /\ excess[w] <= Capacity - Refill(w)

BucketInv == BucketType /\ BucketExact

USE MeasurementAssumption

LEMMA CapacityNat == Capacity \in Nat \ {0} /\ Rate \in Nat \ {0}
BY DEF Capacity

(* What a bucket holds at time n that held t at time r.                    *)
Level(t, r, n) == Lesser(t + (n - r) * Rate, Capacity)

LEMMA RefillIsLevel ==
  \A w : /\ Refill(w) = Level(tokens[w], refilled[w], now)
         /\ Refill(w)' = Level(tokens'[w], refilled'[w], now')
BY DEF Refill, Level, Capacity

(* A bucket is full at once if it is filled; a tick yields as much as the  *)
(* ghost forgets.                                                          *)
LEMMA LevelFull == ASSUME NEW n \in Nat PROVE Level(Capacity, n, n) = Capacity
<1>1. (n - n) * Rate = 0
  BY CapacityNat
<1> QED BY <1>1, CapacityNat DEF Level, Lesser

LEMMA TickYields ==
  ASSUME NEW t \in Int, NEW r \in Nat, NEW n \in Nat, NEW x \in Nat,
         r <= n, x <= Capacity - Level(t, r, n)
  PROVE  Greater(x - Rate, 0) <= Capacity - Level(t, r, n + 1)
<1> DEFINE y == (n - r) * Rate
<1>1. (n + 1 - r) * Rate = y + Rate
  BY CapacityNat
<1>2. y \in Nat
  BY CapacityNat
<1>3. x <= Capacity - Lesser(t + y, Capacity)
  BY DEF Level
<1>4. Greater(x - Rate, 0) <= Capacity - Lesser(t + (y + Rate), Capacity)
  <2> HIDE DEF y
  <2> QED BY <1>2, <1>3, CapacityNat DEF Lesser, Greater
<1> QED BY <1>1, <1>4 DEF Level

LEMMA InitBucket == Init => BucketInv
<1> SUFFICES ASSUME Init PROVE BucketInv
  OBVIOUS
<1>1. BucketType
  BY DEF Init, BucketType, PCs
<1>2. BucketExact
  <2> SUFFICES ASSUME NEW w \in Workers
               PROVE  /\ refilled[w] <= now /\ tokens[w] >= Debt
                      /\ pc[w] # "working" => excess[w] = 0
                      /\ excess[w] <= Capacity - Refill(w)
    BY DEF BucketExact
  <2>1. job.need \in Nat
    BY DEF Init
  <2> QED BY <2>1, CapacityNat DEF Init, Debt, Refill, Lesser
<1> QED BY <1>1, <1>2 DEF BucketInv

(* A step that leaves the bucket and the time alone, and sets no task to   *)
(* work.                                                                   *)
LEMMA BucketUntouched ==
  ASSUME BucketInv, UNCHANGED <<job, now, tokens, refilled, excess>>,
         pc' \in [Workers -> PCs],
         \A w \in Workers : pc[w] = "working" => pc'[w] = "working"
  PROVE  BucketInv'
<1>1. BucketType'
  BY DEF BucketInv, BucketType
<1>2. BucketExact'
  <2> SUFFICES ASSUME NEW w \in Workers
               PROVE  /\ refilled'[w] <= now' /\ tokens'[w] >= Debt'
                      /\ pc'[w] # "working" => excess'[w] = 0
                      /\ excess'[w] <= Capacity - Refill(w)'
    BY DEF BucketExact
  <2>1. Refill(w)' = Refill(w) /\ Debt' = Debt
    BY DEF Refill, Debt
  <2> QED BY <2>1 DEF BucketInv, BucketExact
<1> QED BY <1>1, <1>2 DEF BucketInv

(* The task of w ends, and its bucket goes with it.                        *)
LEMMA BucketGone ==
  ASSUME BucketInv, NEW v \in Workers, NEW b \in BOOLEAN, RunnerEnds(v, b),
         UNCHANGED <<job, now>>
  PROVE  BucketInv'
<1>1. BucketType'
  BY DEF BucketInv, BucketType, RunnerEnds, PCs
<1>2. BucketExact'
  <2> SUFFICES ASSUME NEW w \in Workers
               PROVE  /\ refilled'[w] <= now' /\ tokens'[w] >= Debt'
                      /\ pc'[w] # "working" => excess'[w] = 0
                      /\ excess'[w] <= Capacity - Refill(w)'
    BY DEF BucketExact
  <2>1. job.need \in Nat /\ Debt' = Debt /\ Debt \in Int /\ Debt <= 0
    BY CapacityNat DEF BucketInv, BucketType, Debt, Lesser
  <2>2. CASE w = v
    <3>1. tokens'[w] = 0 /\ refilled'[w] = 0 /\ excess'[w] = 0
      BY <2>2 DEF RunnerEnds, BucketInv, BucketType
    <3>2. Refill(w)' <= Capacity
      BY <3>1, CapacityNat DEF Refill, Lesser, BucketInv, BucketType
    <3>3. Refill(w)' \in Int
      BY <3>1, CapacityNat DEF Refill, Lesser, BucketInv, BucketType
    <3> QED BY <3>1, <3>2, <3>3, <2>1, CapacityNat DEF BucketInv, BucketType
  <2>3. CASE w # v
    <3>1. UNCHANGED <<tokens[w], refilled[w], excess[w], pc[w], now>>
      BY <2>3 DEF RunnerEnds, BucketInv, BucketType
    <3>2. Refill(w)' = Refill(w)
      BY <3>1 DEF Refill
    <3> QED BY <3>1, <3>2, <2>1 DEF BucketInv, BucketExact
  <2> QED BY <2>2, <2>3
<1> QED BY <1>1, <1>2 DEF BucketInv

LEMMA BucketTick == BucketInv /\ Tick => BucketInv'
<1> SUFFICES ASSUME BucketInv, Tick PROVE BucketInv'
  OBVIOUS
<1>1. BucketType'
  BY CapacityNat DEF BucketInv, BucketType, Tick, Greater, taskVars
<1>2. BucketExact'
  <2> SUFFICES ASSUME NEW w \in Workers
               PROVE  /\ refilled'[w] <= now' /\ tokens'[w] >= Debt'
                      /\ pc'[w] # "working" => excess'[w] = 0
                      /\ excess'[w] <= Capacity - Refill(w)'
    BY DEF BucketExact
  <2>1. /\ now' = now + 1 /\ UNCHANGED <<job, pc, tokens, refilled>>
        /\ excess'[w] = Greater(excess[w] - Rate, 0)
    BY DEF Tick, taskVars
  <2>2. /\ refilled[w] \in Nat /\ now \in Nat /\ refilled[w] <= now
        /\ tokens[w] \in Int /\ excess[w] \in Nat
        /\ excess[w] <= Capacity - Level(tokens[w], refilled[w], now)
    BY RefillIsLevel DEF BucketInv, BucketType, BucketExact
  <2>3. Greater(excess[w] - Rate, 0) <= Capacity - Level(tokens[w], refilled[w], now + 1)
    BY <2>2, TickYields
  <2>4. Refill(w)' = Level(tokens[w], refilled[w], now + 1)
    BY <2>1, RefillIsLevel
  <2>5. excess'[w] <= Capacity - Refill(w)' /\ Capacity' = Capacity
    BY <2>1, <2>3, <2>4 DEF Capacity
  <2>6. pc'[w] # "working" => excess'[w] = 0
    BY <2>1, CapacityNat DEF BucketInv, BucketExact, Greater
  <2> QED BY <2>1, <2>2, <2>5, <2>6 DEF BucketInv, BucketExact, Debt
<1> QED BY <1>1, <1>2 DEF BucketInv

(* Join: a full bucket.                                                    *)
LEMMA BucketJoin == ASSUME BucketInv, NEW v \in Workers, Join(v) PROVE BucketInv'
<1>1. BucketType'
  BY CapacityNat DEF BucketInv, BucketType, Join, PCs
<1>2. BucketExact'
  <2> SUFFICES ASSUME NEW w \in Workers
               PROVE  /\ refilled'[w] <= now' /\ tokens'[w] >= Debt'
                      /\ pc'[w] # "working" => excess'[w] = 0
                      /\ excess'[w] <= Capacity - Refill(w)'
    BY DEF BucketExact
  <2>1. job.need \in Nat /\ Debt' = Debt /\ Debt \in Int /\ Debt <= 0
    BY CapacityNat DEF BucketInv, BucketType, Debt, Lesser, Join
  <2>2. CASE w = v
    <3>1. /\ tokens'[w] = Capacity /\ refilled'[w] = now /\ now' = now
          /\ pc'[w] = "working" /\ excess'[w] = excess[w] /\ excess[w] = 0
      BY <2>2 DEF Join, BucketInv, BucketType, BucketExact
    <3>2. Refill(w)' = Capacity
      BY <3>1, RefillIsLevel, LevelFull DEF BucketInv, BucketType
    <3> QED BY <3>1, <3>2, <2>1, CapacityNat DEF BucketInv, BucketType
  <2>3. CASE w # v
    <3>1. UNCHANGED <<tokens[w], refilled[w], excess[w], pc[w], now>>
      BY <2>3 DEF Join, BucketInv, BucketType
    <3>2. Refill(w)' = Refill(w)
      BY <3>1 DEF Refill
    <3> QED BY <3>1, <3>2, <2>1 DEF BucketInv, BucketExact
  <2> QED BY <2>2, <2>3
<1> QED BY <1>1, <1>2 DEF BucketInv

(* Acquire: what is taken is missing.                                      *)
LEMMA BucketAcquire == ASSUME BucketInv, NEW v \in Workers, Acquire(v) PROVE BucketInv'
<1>0. \A w \in Workers : Refill(w) \in Int /\ Refill(w) <= Capacity
  BY CapacityNat DEF BucketInv, BucketType, Refill, Lesser
<1>1. BucketType'
  BY <1>0, CapacityNat DEF BucketInv, BucketType, Acquire, PCs
<1>2. BucketExact'
  <2> SUFFICES ASSUME NEW w \in Workers
               PROVE  /\ refilled'[w] <= now' /\ tokens'[w] >= Debt'
                      /\ pc'[w] # "working" => excess'[w] = 0
                      /\ excess'[w] <= Capacity - Refill(w)'
    BY DEF BucketExact
  <2>1. job.need \in Nat /\ Debt' = Debt /\ now' = now /\ pc' = pc
    BY CapacityNat DEF BucketInv, BucketType, Debt, Lesser, Acquire
  <2>2. CASE w = v
    <3>1. /\ tokens'[w] = Refill(w) - job.need /\ refilled'[w] = now
          /\ excess'[w] = excess[w] + job.need /\ pc[w] = "working"
          /\ Refill(w) >= Lesser(job.need, Capacity)
      BY <2>2 DEF Acquire, BucketInv, BucketType
    <3>2. Refill(w)' = Refill(w) - job.need
      BY <3>1, <2>1, <1>0, CapacityNat DEF Refill, Lesser, BucketInv, BucketType
    <3>3. excess[w] <= Capacity - Refill(w) /\ excess[w] \in Nat /\ now \in Nat
      BY DEF BucketInv, BucketExact, BucketType
    <3>4. tokens'[w] >= Debt'
      BY <3>1, <2>1, <1>0, CapacityNat DEF Debt, Lesser
    <3> QED BY <3>1, <3>2, <3>3, <3>4, <2>1, <1>0, CapacityNat
  <2>3. CASE w # v
    <3>1. UNCHANGED <<tokens[w], refilled[w], excess[w], pc[w], now>>
      BY <2>3 DEF Acquire, BucketInv, BucketType
    <3>2. Refill(w)' = Refill(w)
      BY <3>1 DEF Refill
    <3> QED BY <3>1, <3>2, <2>1 DEF BucketInv, BucketExact
  <2> QED BY <2>2, <2>3
<1> QED BY <1>1, <1>2 DEF BucketInv

(* Top may end the task.                                                   *)
LEMMA BucketTop == ASSUME BucketInv, NEW v \in Workers, Top(v) PROVE BucketInv'
<1>1. CASE Deadline(v) \/ told[v]
  BY <1>1, BucketGone DEF Top
<1>2. CASE ~(Deadline(v) \/ told[v])
  BY <1>2, BucketUntouched DEF Top, BucketInv, BucketType
<1> QED BY <1>1, <1>2

(* The steps that touch neither the bucket nor a working task.             *)
LEMMA BucketOther ==
  ASSUME BucketInv, NEW v \in Workers,
         \/ Ask(v) \/ ReportReady(v) \/ CallFails(v) \/ Receive(v) \/ Told(v)
         \/ LeaveBarrier(v) \/ Operation(v) \/ MakeResult(v) \/ ReportResult(v) \/ EndJob
  PROVE  BucketInv'
<1> USE BucketUntouched DEF BucketInv, BucketType, PCs, taskVars, pastVars
<1>1. CASE Ask(v)
  BY <1>1 DEF Ask
<1>2. CASE ReportReady(v)
  BY <1>2 DEF ReportReady
<1>3. CASE CallFails(v)
  BY <1>3 DEF CallFails
<1>4. CASE Receive(v)
  BY <1>4 DEF Receive
<1>5. CASE Told(v)
  BY <1>5 DEF Told
<1>6. CASE LeaveBarrier(v)
  BY <1>6 DEF LeaveBarrier
<1>7. CASE Operation(v)
  BY <1>7 DEF Operation
<1>8. CASE MakeResult(v)
  BY <1>8 DEF MakeResult
<1>9. CASE ReportResult(v)
  BY <1>9 DEF ReportResult
<1>10. CASE EndJob
  BY <1>10 DEF EndJob
<1> QED BY <1>1, <1>2, <1>3, <1>4, <1>5, <1>6, <1>7, <1>8, <1>9, <1>10

LEMMA NextBucket == BucketInv /\ [Next]_vars => BucketInv'
<1> SUFFICES ASSUME BucketInv, [Next]_vars PROVE BucketInv'
  OBVIOUS
<1>1. CASE Tick
  BY <1>1, BucketTick
<1>2. CASE EndJob
  BY <1>2, BucketUntouched DEF EndJob, BucketInv, BucketType, taskVars, pastVars
<1>3. ASSUME NEW v \in Workers,
             \/ Ask(v) \/ ReportReady(v) \/ CallFails(v) \/ Receive(v) \/ Told(v)
             \/ LeaveBarrier(v) \/ Operation(v) \/ MakeResult(v) \/ ReportResult(v)
      PROVE  BucketInv'
  BY <1>3, BucketOther
<1>4. ASSUME NEW v \in Workers, Join(v) PROVE BucketInv'
  BY <1>4, BucketJoin
<1>5. ASSUME NEW v \in Workers, Top(v) PROVE BucketInv'
  BY <1>5, BucketTop
<1>6. ASSUME NEW v \in Workers, NoMoreFiles(v) \/ ReadStops(v) \/ OperationFails(v)
      PROVE  BucketInv'
  BY <1>6, BucketGone DEF NoMoreFiles, ReadStops, OperationFails
<1>7. ASSUME NEW v \in Workers, Acquire(v) PROVE BucketInv'
  BY <1>7, BucketAcquire
<1>8. CASE UNCHANGED vars
  BY <1>8, BucketUntouched DEF vars, taskVars, pastVars, BucketInv, BucketType
<1> QED BY <1>1, <1>2, <1>3, <1>4, <1>5, <1>6, <1>7, <1>8 DEF Next

LEMMA InvKeepsRate == BucketInv => RateKept
<1> SUFFICES ASSUME BucketInv, NEW w \in Workers
             PROVE  excess[w] <= Greater(Capacity, job.need)
  BY DEF RateKept
<1>1. /\ job.need \in Nat /\ tokens[w] \in Int /\ excess[w] \in Nat
      /\ (now - refilled[w]) \in Nat
  BY DEF BucketInv, BucketType, BucketExact
<1>2. (now - refilled[w]) * Rate \in Nat
  BY <1>1, CapacityNat
<1>3. tokens[w] >= Debt /\ excess[w] <= Capacity - Refill(w)
  BY DEF BucketInv, BucketExact
<1>4. Refill(w) \in Int /\ Refill(w) >= Debt
  <2> DEFINE y == (now - refilled[w]) * Rate
  <2>1. y \in Nat /\ Refill(w) = Lesser(tokens[w] + y, Capacity)
    BY <1>2 DEF Refill
  <2>2. Debt \in Int /\ Debt <= Capacity
    BY <1>1, CapacityNat DEF Debt, Lesser
  <2> HIDE DEF y
  <2> QED BY <2>1, <2>2, <1>1, <1>3, CapacityNat DEF Lesser
<1> QED BY <1>1, <1>3, <1>4, CapacityNat DEF Debt, Lesser, Greater

(* However the tasks are scheduled, no task takes more tokens in any       *)
(* stretch of time than the rate and one full bucket, or one operation     *)
(* larger than the bucket, allow: the rate limit of TokenBucket::acquire.  *)
THEOREM RateIsKept == Spec => []RateKept
<1>1. Init => BucketInv
  BY InitBucket
<1>2. BucketInv /\ [Next]_vars => BucketInv'
  BY NextBucket
<1>3. BucketInv => RateKept
  BY InvKeepsRate
<1> QED BY <1>1, <1>2, <1>3, PTL DEF Spec

-----------------------------------------------------------------------------
(* Types.                                                                  *)

Statuses    == {"preparing", "running", "over"}
TaskStates  == {"none", "top", "acquire", "io"}
CountType   == [ops : Nat, errors : Nat, samples : Nat]
ReplyType   == [start : Nat, stamp : Nat, over : BOOLEAN]
OutcomeType == [success : BOOLEAN, start : Int, end : Int, duration : Nat, count : CountType]

(* The barrier opens when the last worker is ready, and no result is taken *)
(* before.                                                                 *)
MasterType ==
  /\ now \in Nat \ {0} /\ status \in Statuses /\ startAt \in Nat /\ ready \subseteq Workers
  /\ (startAt > 0) = (ready = Workers)
  /\ status = "preparing" => ready # Workers /\ DOMAIN results = {}
  /\ DOMAIN results \subseteq Workers
  /\ \A w \in DOMAIN results : results[w] \in OutcomeType

CallsType ==
  /\ offset \in [Workers -> Int] /\ sent \in [Workers -> Nat] /\ reply \in [Workers -> ReplyType]
  /\ told \in [Workers -> BOOLEAN]

TasksType ==
  /\ task \in [Workers -> TaskStates] /\ blocks \in [Workers -> 0..Blocks]
  /\ gate \in [Workers -> BOOLEAN] /\ count \in [Workers -> CountType]
  /\ outcome \in [Workers -> OutcomeType]
  /\ \A w \in Workers : (task[w] = "io" => blocks[w] > 0) /\ tokens[w] <= Capacity

PastType ==
  /\ joined \in [Workers -> Nat] /\ stopped \in [Workers -> Nat]
  /\ early \in [Workers -> Nat] /\ late \in [Workers -> Nat]

MeasureType == BucketInv /\ MasterType /\ CallsType /\ TasksType /\ PastType

LEMMA CapacityConstant == Capacity' = Capacity
BY DEF Capacity

LEMMA Parameters ==
  /\ Warmup \in Nat /\ Lead \in Nat /\ Jitter \in Nat
  /\ Duration \in Nat \ {0} /\ Blocks \in Nat \ {0}
OBVIOUS

LEMMA EmptyValues ==
  /\ NoCount \in CountType /\ NoReply \in ReplyType /\ NoOutcome \in OutcomeType
BY DEF NoCount, CountType, NoReply, ReplyType, NoOutcome, OutcomeType

LEMMA CountsUp ==
  ASSUME NEW c \in CountType
  PROVE  LET succeeded == [c EXCEPT !.ops = @ + 1, !.samples = @ + 1]
             failed    == [c EXCEPT !.ops = @ + 1, !.errors = @ + 1]
         IN  /\ succeeded \in CountType /\ succeeded.ops = c.ops + 1
             /\ succeeded.errors = c.errors /\ succeeded.samples = c.samples + 1
             /\ failed \in CountType /\ failed.ops = c.ops + 1
             /\ failed.errors = c.errors + 1 /\ failed.samples = c.samples
<1>1. ASSUME NEW x \in Nat, NEW y \in Nat
      PROVE  [c EXCEPT !.ops = x, !.samples = y] \in CountType
  BY DEF CountType
<1>2. ASSUME NEW x \in Nat, NEW y \in Nat
      PROVE  [c EXCEPT !.ops = x, !.errors = y] \in CountType
  BY DEF CountType
<1>3. c.ops + 1 \in Nat /\ c.errors + 1 \in Nat /\ c.samples + 1 \in Nat
  BY DEF CountType
<1> QED BY <1>1, <1>2, <1>3 DEF CountType

LEMMA InitTypes == Init => MeasureType
<1> SUFFICES ASSUME Init PROVE MeasureType
  OBVIOUS
<1>1. MasterType
  BY DEF Init, MasterType, Statuses
<1>2. CallsType
  <2>1. \A w \in Workers : offset[w] \in Int
    BY DEF Init
  <2>2. offset \in [Workers -> Int]
    BY <2>1 DEF Init
  <2> QED BY <2>2, EmptyValues DEF Init, CallsType
<1>3. TasksType /\ PastType
  BY EmptyValues, CapacityNat DEF Init, TasksType, PastType, TaskStates
<1> QED BY <1>1, <1>2, <1>3, InitBucket DEF MeasureType

LEMMA MasterUntouched ==
  ASSUME MasterType, UNCHANGED masterVars, now' = now \/ now' = now + 1
  PROVE  MasterType'
BY DEF MasterType, masterVars

LEMMA CallsUntouched == CallsType /\ UNCHANGED <<callVars, told>> => CallsType'
BY DEF CallsType, callVars

LEMMA TasksUntouched == TasksType /\ UNCHANGED <<taskVars, outcome>> => TasksType'
BY CapacityConstant DEF TasksType, taskVars

LEMMA PastUntouched == PastType /\ UNCHANGED <<joined, stopped, early, late>> => PastType'
BY DEF PastType

(* The end of a task.                                                      *)
LEMMA EndTypes ==
  ASSUME TasksType, PastType, now \in Nat, pc \in [Workers -> PCs], tokens \in [Workers -> Int],
         NEW v \in Workers, NEW b \in BOOLEAN, RunnerEnds(v, b),
         count' \in [Workers -> CountType], UNCHANGED <<joined, early, late>>
  PROVE  TasksType' /\ PastType'
<1>1. outcome' \in [Workers -> OutcomeType]
  BY DEF RunnerEnds, TasksType, OutcomeType
<1>2. \A w \in Workers : (task'[w] = "io" => blocks'[w] > 0) /\ tokens'[w] <= Capacity
  BY CapacityNat DEF RunnerEnds, TasksType
<1>3. /\ task' \in [Workers -> TaskStates] /\ blocks' \in [Workers -> 0..Blocks]
      /\ gate' \in [Workers -> BOOLEAN] /\ stopped' \in [Workers -> Nat]
  BY DEF RunnerEnds, TasksType, PastType, TaskStates
<1> QED BY <1>1, <1>2, <1>3, CapacityConstant DEF TasksType, PastType

-----------------------------------------------------------------------------
(* The steps keep the types, one part at a time.                           *)

LEMMA BarrierTypes ==
  ASSUME MeasureType, NEW v \in Workers,
         Ask(v) \/ ReportReady(v) \/ CallFails(v) \/ Receive(v) \/ Told(v) \/ LeaveBarrier(v)
  PROVE  MasterType' /\ CallsType' /\ TasksType' /\ PastType'
<1>1. MasterType'
  <2>1. CASE ReportReady(v)
    <3>1. UNCHANGED <<now, results>>
      BY <2>1 DEF ReportReady
    <3>2. CASE status = "preparing" /\ ready' = Workers
      <4>1. status' = "running" /\ startAt' = now + Lead /\ ready' = Workers
        BY <2>1, <3>2 DEF ReportReady
      <4>2. startAt' \in Nat /\ startAt' > 0
        BY <4>1, Parameters DEF MeasureType, MasterType
      <4> QED BY <3>1, <4>1, <4>2 DEF MeasureType, MasterType, Statuses
    <3>3. CASE ~(status = "preparing" /\ ready' = Workers)
      BY <2>1, <3>1, <3>3 DEF ReportReady, MeasureType, MasterType
    <3> QED BY <3>2, <3>3
  <2>2. CASE ~ReportReady(v)
    <3>1. UNCHANGED <<now, masterVars>>
      BY <2>2 DEF Ask, CallFails, Receive, Told, LeaveBarrier
    <3> QED BY <3>1, MasterUntouched DEF MeasureType
  <2> QED BY <2>1, <2>2
<1>2. CallsType'
  <2> USE DEF MeasureType, CallsType, MasterType, ReplyType
  <2>1. CASE Ask(v)
    BY <2>1 DEF Ask
  <2>2. CASE ReportReady(v)
    <3>1. startAt' \in Nat
      BY <1>1 DEF MasterType
    <3> QED BY <2>2, <3>1 DEF ReportReady
  <2>3. CASE CallFails(v)
    BY <2>3, EmptyValues DEF CallFails
  <2>4. CASE Receive(v)
    <3>1. Refine(v) \in Int
      BY DEF Refine
    <3> QED BY <2>4, <3>1, EmptyValues DEF Receive
  <2>5. CASE Told(v)
    BY <2>5 DEF Told, callVars
  <2>6. CASE LeaveBarrier(v)
    BY <2>6 DEF LeaveBarrier, callVars
  <2> QED BY <2>1, <2>2, <2>3, <2>4, <2>5, <2>6
<1>3. TasksType'
  <2>1. UNCHANGED taskVars
    BY DEF Ask, ReportReady, CallFails, Receive, Told, LeaveBarrier
  <2>2. CASE LeaveBarrier(v)
    <3>1. now + offset[v] \in Int
      BY DEF MeasureType, MasterType, CallsType
    <3> DEFINE r == [NoOutcome EXCEPT !.start = now + offset[v], !.end = now + offset[v]]
    <3>2. outcome' = [outcome EXCEPT ![v] = r] /\ r \in OutcomeType
      BY <2>2, <3>1, EmptyValues DEF LeaveBarrier, OutcomeType
    <3>3. outcome' \in [Workers -> OutcomeType]
      <4> HIDE DEF r
      <4> QED BY <3>2 DEF MeasureType, TasksType
    <3> QED BY <2>1, <3>3, CapacityConstant DEF MeasureType, TasksType, taskVars
  <2>3. CASE ~LeaveBarrier(v)
    <3>1. UNCHANGED outcome
      BY <2>3 DEF Ask, ReportReady, CallFails, Receive, Told
    <3> QED BY <2>1, <3>1, TasksUntouched DEF MeasureType
  <2> QED BY <2>2, <2>3
<1>4. PastType'
  <2>1. UNCHANGED pastVars
    BY DEF Ask, ReportReady, CallFails, Receive, Told, LeaveBarrier
  <2> QED BY <2>1, PastUntouched DEF MeasureType, pastVars
<1> QED BY <1>1, <1>2, <1>3, <1>4

LEMMA TaskTypes ==
  ASSUME MeasureType, NEW v \in Workers,
         \/ Join(v) \/ Top(v) \/ NoMoreFiles(v) \/ Acquire(v) \/ Operation(v) \/ ReadStops(v)
         \/ OperationFails(v)
  PROVE  MasterType' /\ CallsType' /\ TasksType' /\ PastType'
<1>1. UNCHANGED <<now, masterVars, callVars, told>>
  BY DEF Join, Top, NoMoreFiles, Acquire, Operation, ReadStops, OperationFails
<1>2. MasterType' /\ CallsType'
  BY <1>1, MasterUntouched, CallsUntouched DEF MeasureType
<1> SUFFICES TasksType' /\ PastType'
  BY <1>2
<1>3. /\ now \in Nat /\ pc \in [Workers -> PCs] /\ tokens \in [Workers -> Int]
      /\ TasksType /\ PastType
  BY DEF MeasureType, MasterType, BucketInv, BucketType
<1>4. CASE Join(v)
  <2>1. UNCHANGED <<blocks, gate, count, outcome, stopped, early, late>>
    BY <1>4 DEF Join
  <2>2. task' \in [Workers -> TaskStates] /\ \A w \in Workers : task'[w] = "io" => blocks[w] > 0
    BY <1>3, <1>4 DEF Join, TasksType, TaskStates
  <2>3. \A w \in Workers : tokens'[w] <= Capacity
    BY <1>3, <1>4, CapacityNat DEF Join, TasksType
  <2>4. joined' \in [Workers -> Nat]
    BY <1>3, <1>4 DEF Join, PastType
  <2> QED BY <1>3, <2>1, <2>2, <2>3, <2>4, CapacityConstant DEF TasksType, PastType
<1>5. CASE Top(v)
  <2>1. CASE Deadline(v) \/ told[v]
    <3>1. RunnerEnds(v, TRUE) /\ UNCHANGED <<count, joined, early, late>>
      BY <1>5, <2>1 DEF Top
    <3> QED BY <1>3, <3>1, EndTypes DEF TasksType
  <2>2. CASE ~(Deadline(v) \/ told[v])
    <3>1. /\ task' = [task EXCEPT ![v] = IF job.kind = "read" THEN "io" ELSE "acquire"]
          /\ blocks' = [blocks EXCEPT ![v] = IF job.kind = "read" THEN Blocks ELSE 1]
          /\ UNCHANGED <<gate, tokens, count, outcome, joined, stopped, early, late>>
      BY <1>5, <2>2 DEF Top
    <3> QED BY <1>3, <3>1, CapacityConstant DEF TasksType, PastType, TaskStates
  <2> QED BY <2>1, <2>2
<1>6. CASE NoMoreFiles(v) \/ ReadStops(v)
  <2>1. RunnerEnds(v, TRUE) /\ UNCHANGED <<count, joined, early, late>>
    BY <1>6 DEF NoMoreFiles, ReadStops
  <2> QED BY <1>3, <2>1, EndTypes DEF TasksType
<1>7. CASE Acquire(v)
  <2>1. UNCHANGED <<blocks, count, outcome, joined, stopped, early, late>>
    BY <1>7 DEF Acquire
  <2>2. task' \in [Workers -> TaskStates] /\ \A w \in Workers : task'[w] = "io" => blocks[w] > 0
    BY <1>3, <1>7 DEF Acquire, TasksType, TaskStates
  <2>3. gate' \in [Workers -> BOOLEAN]
    BY <1>3, <1>7 DEF Acquire, TasksType, Counts
  <2>4. \A w \in Workers : tokens'[w] <= Capacity
    <3>1. Refill(v) \in Int /\ Refill(v) <= Capacity /\ job.need \in Nat
      BY CapacityNat DEF MeasureType, BucketInv, BucketType, Refill, Lesser
    <3>2. tokens' = [tokens EXCEPT ![v] = Refill(v) - job.need]
      BY <1>7 DEF Acquire
    <3> QED BY <1>3, <3>1, <3>2, CapacityNat DEF TasksType
  <2> QED BY <1>3, <2>1, <2>2, <2>3, <2>4, CapacityConstant DEF TasksType, PastType
<1>8. CASE Operation(v)
  <2>1. UNCHANGED <<gate, tokens, outcome, joined, stopped>>
    BY <1>8 DEF Operation
  <2>2. count' \in [Workers -> CountType]
    <3>1. CASE InMeasure(v)
      <4> DEFINE r == [count[v] EXCEPT !.ops = @ + 1, !.samples = @ + 1]
      <4>1. count[v] \in CountType /\ r \in CountType
        BY <1>3, CountsUp DEF TasksType
      <4>2. count' = [count EXCEPT ![v] = r]
        BY <1>8, <3>1 DEF Operation
      <4> HIDE DEF r
      <4> QED BY <1>3, <4>1, <4>2 DEF TasksType
    <3>2. CASE ~InMeasure(v)
      BY <1>3, <1>8, <3>2 DEF Operation, TasksType
    <3> QED BY <3>1, <3>2
  <2>3. early' \in [Workers -> Nat] /\ late' \in [Workers -> Nat]
    <3>1. /\ early' = early \/ early' = [early EXCEPT ![v] = @ + 1]
          /\ late' = late \/ late' = [late EXCEPT ![v] = @ + 1]
      BY <1>8 DEF Operation
    <3> QED BY <1>3, <3>1 DEF PastType
  <2>4. /\ task' \in [Workers -> TaskStates] /\ blocks' \in [Workers -> 0..Blocks]
        /\ \A w \in Workers : task'[w] = "io" => blocks'[w] > 0
    BY <1>3, <1>8 DEF Operation, TasksType, TaskStates
  <2> QED BY <1>3, <2>1, <2>2, <2>3, <2>4, CapacityConstant DEF TasksType, PastType
<1>9. CASE OperationFails(v)
  <2>1. count' \in [Workers -> CountType]
    <3> DEFINE r == [count[v] EXCEPT !.ops = @ + 1, !.errors = @ + 1]
    <3>1. count[v] \in CountType /\ r \in CountType
      BY <1>3, CountsUp DEF TasksType
    <3>2. count' = [count EXCEPT ![v] = r]
      BY <1>9 DEF OperationFails
    <3> HIDE DEF r
    <3> QED BY <1>3, <3>1, <3>2 DEF TasksType
  <2>2. RunnerEnds(v, FALSE) /\ UNCHANGED <<joined, early, late>>
    BY <1>9 DEF OperationFails
  <2> QED BY <1>3, <2>1, <2>2, EndTypes
<1> QED BY <1>4, <1>5, <1>6, <1>7, <1>8, <1>9

LEMMA ResultTypes ==
  ASSUME MeasureType, NEW v \in Workers, MakeResult(v) \/ ReportResult(v)
  PROVE  MasterType' /\ CallsType' /\ TasksType' /\ PastType'
<1> USE DEF MeasureType
<1>1. CASE MakeResult(v)
  <2>1. UNCHANGED <<now, masterVars, callVars, told, taskVars, joined, stopped, early, late>>
    BY <1>1 DEF MakeResult, taskVars, pastVars
  <2>2. MasterType' /\ CallsType' /\ PastType'
    BY <2>1, MasterUntouched, CallsUntouched, PastUntouched
  <2>3. MeasureStart \in Int /\ MeasureEnd(v) \in Int
    BY Parameters DEF MasterType, CallsType, MeasureStart, MeasureEnd, PlannedEnd, Lesser
  <2>4. Greater(MeasureEnd(v) - MeasureStart, 0) \in Nat
    BY <2>3 DEF Greater
  <2> DEFINE r == [outcome[v] EXCEPT !.start = MeasureStart, !.end = MeasureEnd(v), !.count = count[v],
                                     !.duration = Greater(MeasureEnd(v) - MeasureStart, 0)]
  <2>5. outcome' = [outcome EXCEPT ![v] = r]
    BY <1>1 DEF MakeResult
  <2>6. r \in OutcomeType
    BY <2>3, <2>4 DEF TasksType, OutcomeType
  <2>7. outcome' \in [Workers -> OutcomeType]
    <3> HIDE DEF r
    <3> QED BY <2>5, <2>6 DEF TasksType
  <2> QED BY <2>1, <2>2, <2>7, CapacityConstant DEF TasksType, taskVars
<1>2. CASE ReportResult(v)
  <2>1. UNCHANGED <<now, startAt, ready, sent, reply, task, blocks, gate, tokens, early, late>>
    BY <1>2 DEF ReportResult
  <2>2. CallsType'
    BY <1>2, <2>1 DEF ReportResult, CallsType
  <2>3. PastType'
    BY <1>2, <2>1 DEF ReportResult, PastType
  <2>4. TasksType'
    BY <1>2, <2>1, EmptyValues, CapacityConstant DEF ReportResult, TasksType
  <2>5. MasterType'
    <3>1. CASE status = "running"
      <4>1. /\ results' = [u \in DOMAIN results \cup {v} |-> IF u = v THEN outcome[v] ELSE results[u]]
            /\ status' \in {"running", "over"}
        BY <1>2, <3>1 DEF ReportResult, Verdict
      <4>2. DOMAIN results' \subseteq Workers /\ \A w \in DOMAIN results' : results'[w] \in OutcomeType
        BY <4>1 DEF MasterType, TasksType
      <4> QED BY <2>1, <4>1, <4>2 DEF MasterType, Statuses
    <3>2. CASE status # "running"
      BY <1>2, <2>1, <3>2 DEF ReportResult, MasterType
    <3> QED BY <3>1, <3>2
  <2> QED BY <2>2, <2>3, <2>4, <2>5
<1> QED BY <1>1, <1>2

LEMMA NextTypes == MeasureType /\ [Next]_vars => MeasureType'
<1> SUFFICES ASSUME MeasureType, [Next]_vars PROVE MeasureType'
  OBVIOUS
<1>1. BucketInv'
  BY NextBucket DEF MeasureType
<1> SUFFICES MasterType' /\ CallsType' /\ TasksType' /\ PastType'
  BY <1>1 DEF MeasureType
<1>2. CASE Tick
  BY <1>2, MasterUntouched, CallsUntouched, TasksUntouched, PastUntouched DEF Tick, MeasureType
<1>3. CASE EndJob
  <2>1. UNCHANGED <<now, startAt, ready, results, callVars, told, taskVars, outcome, joined, stopped,
                    early, late>> /\ status' = "over"
    BY <1>3 DEF EndJob, Verdict, pastVars
  <2>2. MasterType'
    BY <2>1 DEF MeasureType, MasterType, Statuses
  <2> QED BY <2>1, <2>2, CallsUntouched, TasksUntouched, PastUntouched DEF MeasureType
<1>4. ASSUME NEW v \in Workers,
             Ask(v) \/ ReportReady(v) \/ CallFails(v) \/ Receive(v) \/ Told(v) \/ LeaveBarrier(v)
      PROVE  MasterType' /\ CallsType' /\ TasksType' /\ PastType'
  BY <1>4, BarrierTypes
<1>5. ASSUME NEW v \in Workers,
             \/ Join(v) \/ Top(v) \/ NoMoreFiles(v) \/ Acquire(v) \/ Operation(v) \/ ReadStops(v)
             \/ OperationFails(v)
      PROVE  MasterType' /\ CallsType' /\ TasksType' /\ PastType'
  BY <1>5, TaskTypes
<1>6. ASSUME NEW v \in Workers, MakeResult(v) \/ ReportResult(v)
      PROVE  MasterType' /\ CallsType' /\ TasksType' /\ PastType'
  BY <1>6, ResultTypes
<1>7. CASE UNCHANGED vars
  BY <1>7, MasterUntouched, CallsUntouched, TasksUntouched, PastUntouched
     DEF vars, pastVars, MeasureType
<1> QED BY <1>2, <1>3, <1>4, <1>5, <1>6, <1>7 DEF Next

-----------------------------------------------------------------------------
(* What holds of one worker.                                               *)

NotJoined == {"polling", "asked", "answered", "waiting"}

(* It runs ahead of the master by no more than half a round trip.          *)
ClockOK(w) ==
  /\ offset[w] <= Jitter \div 2 /\ sent[w] <= now
  /\ reply[w].stamp <= now /\ reply[w].start \in {0, startAt}

StageOK(w) ==
  /\ pc[w] \in NotJoined => joined[w] = 0 /\ late[w] = 0 /\ count[w] = NoCount /\ outcome[w] = NoOutcome
  /\ pc[w] \in {"waiting", "working", "cleanup"} => startAt > 0
  /\ pc[w] \in {"working", "cleanup"} => joined[w] > 0
  /\ pc[w] = "working" /\ ~told[w] => joined[w] >= startAt - offset[w]
  /\ pc[w] = "working" => outcome[w].success /\ count[w].errors = 0
  /\ pc[w] = "cleanup" => stopped[w] <= now /\ (outcome[w].success => count[w].errors = 0)
  /\ count[w].ops = count[w].errors + count[w].samples

(* What counts too late is the rest of a file begun in time.               *)
TaskOK(w) ==
  /\ early[w] = 0 /\ late[w] <= Blocks
  /\ pc[w] = "working" /\ late[w] > 0 => Deadline(w) /\ late[w] + blocks[w] <= Blocks
  /\ pc[w] = "working" /\ task[w] = "io" /\ job.kind # "read" /\ gate[w] => Counts(w)

ResultOK(w) ==
  pc[w] = "ended" =>
    /\ outcome[w].count.ops = outcome[w].count.errors + outcome[w].count.samples
    /\ outcome[w].success => outcome[w].count.errors = 0
    /\ joined[w] = 0 => outcome[w].count = NoCount
    /\ joined[w] > 0 =>
         /\ startAt > 0 /\ outcome[w].start = MeasureStart
         /\ outcome[w].duration = Greater(outcome[w].end - MeasureStart, 0)
         /\ outcome[w].end <= PlannedEnd
         /\ outcome[w].end >= Lesser(stopped[w] + offset[w], PlannedEnd)

WorkerOK(w) == ClockOK(w) /\ StageOK(w) /\ TaskOK(w) /\ ResultOK(w)

(* A step that another worker, the master or the clock takes.              *)
SameWorker(w) ==
  /\ pc'[w] = pc[w] /\ sent'[w] = sent[w] /\ reply'[w] = reply[w] /\ offset'[w] = offset[w]
  /\ told'[w] = told[w] /\ task'[w] = task[w] /\ blocks'[w] = blocks[w] /\ gate'[w] = gate[w]
  /\ count'[w] = count[w] /\ outcome'[w] = outcome[w] /\ joined'[w] = joined[w]
  /\ stopped'[w] = stopped[w] /\ early'[w] = early[w] /\ late'[w] = late[w]

LEMMA HalfGrows ==
  ASSUME NEW a \in Nat, NEW b \in Nat, a <= b
  PROVE  a \div 2 <= b \div 2 /\ a \div 2 \in Nat
OBVIOUS

LEMMA TimeLine ==
  ASSUME startAt \in Nat
  PROVE  MeasureStart \in Nat /\ PlannedEnd \in Nat /\ MeasureStart >= startAt
         /\ PlannedEnd = MeasureStart + Duration
BY Parameters DEF MeasureStart, PlannedEnd

LEMMA WorkerUntouched ==
  ASSUME MeasureType, NEW w \in Workers, WorkerOK(w), SameWorker(w),
         now' = now \/ now' = now + 1, startAt' = startAt \/ startAt = 0, startAt' \in Nat,
         job' = job
  PROVE  WorkerOK(w)'
<1>1. /\ now \in Nat /\ startAt \in Nat /\ offset[w] \in Int /\ sent[w] \in Nat
      /\ reply[w].stamp \in Nat /\ joined[w] \in Nat /\ stopped[w] \in Nat
  BY DEF MeasureType, MasterType, CallsType, PastType, ReplyType
<1>2. ClockOK(w)'
  BY <1>1 DEF WorkerOK, ClockOK, SameWorker
<1>3. StageOK(w)'
  BY <1>1 DEF WorkerOK, StageOK, SameWorker
<1>4. startAt > 0 => MeasureStart' = MeasureStart /\ PlannedEnd' = PlannedEnd
  BY <1>1 DEF MeasureStart, PlannedEnd
<1>5. startAt > 0 => (Deadline(w) => Deadline(w)') /\ (Counts(w) => Counts(w)')
  BY <1>1, <1>4, TimeLine DEF Deadline, Counts, Local, SameWorker
<1>6. TaskOK(w)'
  BY <1>1, <1>5 DEF WorkerOK, TaskOK, StageOK, SameWorker
<1>7. ResultOK(w)'
  BY <1>1, <1>4 DEF WorkerOK, ResultOK, SameWorker
<1> QED BY <1>2, <1>3, <1>6, <1>7 DEF WorkerOK

WorkersOK == \A w \in Workers : WorkerOK(w)

LEMMA OneWorkerMoves ==
  ASSUME MeasureType, WorkersOK, NEW v \in Workers, WorkerOK(v)',
         \A w \in Workers \ {v} : SameWorker(w),
         now' = now \/ now' = now + 1, startAt' = startAt \/ startAt = 0, startAt' \in Nat,
         job' = job
  PROVE  WorkersOK'
BY WorkerUntouched DEF WorkersOK

LEMMA InitWorkers == Init => WorkersOK
<1> SUFFICES ASSUME Init, NEW w \in Workers PROVE WorkerOK(w)
  BY DEF WorkersOK
<1>1. ClockOK(w)
  <2>1. offset[w] <= 0
    BY DEF Init
  <2>2. Jitter \div 2 >= 0 /\ Jitter \div 2 \in Int
    BY Parameters
  <2>3. offset[w] \in Int
    BY DEF Init
  <2> QED BY <2>1, <2>2, <2>3 DEF Init, ClockOK, NoReply
<1>2. StageOK(w) /\ TaskOK(w) /\ ResultOK(w)
  BY Parameters DEF Init, StageOK, TaskOK, ResultOK, NotJoined, NoCount
<1> QED BY <1>1, <1>2 DEF WorkerOK

-----------------------------------------------------------------------------
(* The barrier.                                                            *)

(* The values of v that a step reads.                                      *)
LEMMA TypesOf ==
  ASSUME MeasureType, NEW v \in Workers
  PROVE  /\ now \in Nat \ {0} /\ startAt \in Nat /\ offset[v] \in Int /\ sent[v] \in Nat
         /\ reply[v] \in ReplyType /\ reply[v].stamp \in Nat /\ reply[v].start \in Nat
         /\ told[v] \in BOOLEAN /\ blocks[v] \in Nat /\ blocks[v] <= Blocks /\ gate[v] \in BOOLEAN
         /\ count[v] \in CountType /\ outcome[v] \in OutcomeType
         /\ joined[v] \in Nat /\ stopped[v] \in Nat /\ early[v] \in Nat /\ late[v] \in Nat
         /\ job.kind \in {"read", "stat", "write"}
<1>1. job.kind \in {"read", "stat", "write"}
  BY DEF MeasureType, BucketInv, BucketType
<1>2. reply[v] \in ReplyType
  BY DEF MeasureType, CallsType
<1>3. blocks[v] \in 0..Blocks
  BY DEF MeasureType, TasksType
<1> QED BY <1>1, <1>2, <1>3, Parameters DEF MeasureType, MasterType, CallsType, TasksType, PastType, ReplyType

LEMMA AskOK ==
  ASSUME MeasureType, WorkersOK, NEW v \in Workers, Ask(v)
  PROVE  WorkersOK'
<1>1. /\ pc[v] = "polling" /\ pc'[v] = "asked" /\ sent'[v] = now
      /\ UNCHANGED <<job, now, startAt, reply, offset, told, task, blocks, gate, count, outcome,
                     joined, stopped, early, late>>
  BY DEF Ask, masterVars, taskVars, pastVars, MeasureType, CallsType, BucketInv, BucketType
<1>2. \A w \in Workers \ {v} : SameWorker(w)
  BY <1>1 DEF Ask, SameWorker, MeasureType, CallsType, BucketInv, BucketType
<1>3. WorkerOK(v)
  BY DEF WorkersOK
<1>4. WorkerOK(v)'
  BY <1>1, <1>3, TypesOf DEF WorkerOK, ClockOK, StageOK, TaskOK, ResultOK, NotJoined
<1> QED BY <1>1, <1>2, <1>4, OneWorkerMoves, TypesOf

LEMMA ReportReadyOK ==
  ASSUME MeasureType, MeasureType', WorkersOK, NEW v \in Workers, ReportReady(v)
  PROVE  WorkersOK'
<1>1. /\ pc[v] = "asked" /\ pc'[v] = "answered"
      /\ reply'[v] = [start |-> startAt', stamp |-> now, over |-> status = "over"]
      /\ UNCHANGED <<job, now, sent, offset, told, task, blocks, gate, count, outcome, joined, stopped,
                     early, late>>
  BY DEF ReportReady, taskVars, pastVars, MeasureType, CallsType, BucketInv, BucketType
<1>2. startAt' \in Nat /\ (startAt' = startAt \/ startAt = 0)
  <2>1. startAt' \in Nat
    BY DEF MeasureType, MasterType
  <2>2. status = "preparing" => startAt = 0
    BY DEF MeasureType, MasterType
  <2> QED BY <2>1, <2>2 DEF ReportReady
<1>3. \A w \in Workers \ {v} : SameWorker(w)
  BY <1>1 DEF ReportReady, SameWorker, MeasureType, CallsType, BucketInv, BucketType
<1>4. WorkerOK(v)
  BY DEF WorkersOK
<1>5. ClockOK(v)'
  <2>1. reply'[v].stamp = now /\ reply'[v].start = startAt'
    BY <1>1
  <2> QED BY <1>1, <1>4, <2>1, TypesOf DEF WorkerOK, ClockOK
<1>6. StageOK(v)' /\ TaskOK(v)' /\ ResultOK(v)'
  BY <1>1, <1>4, TypesOf DEF WorkerOK, StageOK, TaskOK, ResultOK, NotJoined
<1> QED BY <1>1, <1>2, <1>3, <1>5, <1>6, OneWorkerMoves DEF WorkerOK

LEMMA CallFailsOK ==
  ASSUME MeasureType, WorkersOK, NEW v \in Workers, CallFails(v)
  PROVE  WorkersOK'
<1>1. /\ pc[v] \in {"asked", "answered"} /\ pc'[v] = "polling" /\ sent'[v] = 0 /\ reply'[v] = NoReply
      /\ UNCHANGED <<job, now, startAt, offset, told, task, blocks, gate, count, outcome,
                     joined, stopped, early, late>>
  BY DEF CallFails, masterVars, taskVars, pastVars, MeasureType, CallsType, BucketInv, BucketType
<1>2. \A w \in Workers \ {v} : SameWorker(w)
  BY <1>1 DEF CallFails, SameWorker, MeasureType, CallsType, BucketInv, BucketType
<1>3. WorkerOK(v)
  BY DEF WorkersOK
<1>4. NoReply.stamp = 0 /\ NoReply.start = 0
  BY DEF NoReply
<1>5. WorkerOK(v)'
  BY <1>1, <1>3, <1>4, TypesOf DEF WorkerOK, ClockOK, StageOK, TaskOK, ResultOK, NotJoined
<1> QED BY <1>1, <1>2, <1>5, OneWorkerMoves, TypesOf

(* A reply that corrects the clock took at most the longest round trip.    *)
LEMMA ReceiveOK ==
  ASSUME MeasureType, WorkersOK, NEW v \in Workers, Receive(v)
  PROVE  WorkersOK'
<1>1. /\ pc[v] = "answered" /\ offset'[v] = Refine(v) /\ sent'[v] = 0 /\ reply'[v] = NoReply
      /\ pc'[v] \in {"left", "waiting", "polling"}
      /\ pc'[v] = "waiting" => reply[v].start > 0
      /\ UNCHANGED <<job, now, startAt, told, task, blocks, gate, count, outcome,
                     joined, stopped, early, late>>
  BY DEF Receive, masterVars, taskVars, pastVars, MeasureType, CallsType, BucketInv, BucketType
<1>2. \A w \in Workers \ {v} : SameWorker(w)
  BY <1>1 DEF Receive, SameWorker, MeasureType, CallsType, BucketInv, BucketType
<1>3. WorkerOK(v)
  BY DEF WorkersOK
<1>4. NoReply.stamp = 0 /\ NoReply.start = 0
  BY DEF NoReply
<1>5. Refine(v) <= Jitter \div 2 /\ Refine(v) \in Int
  <2>1. CASE now - sent[v] > Jitter
    BY <1>3, <2>1, TypesOf DEF Refine, WorkerOK, ClockOK
  <2>2. CASE ~(now - sent[v] > Jitter)
    <3> DEFINE h == (now - sent[v]) \div 2
               j == Jitter \div 2
    <3>1. now - sent[v] \in Nat /\ now - sent[v] <= Jitter
      BY <1>3, <2>2, Parameters, TypesOf DEF WorkerOK, ClockOK
    <3>2. h <= j /\ h \in Nat /\ j \in Nat
      BY <3>1, Parameters, HalfGrows
    <3>3. Refine(v) = reply[v].stamp + h - now
      BY <2>2 DEF Refine
    <3>4. reply[v].stamp <= now
      BY <1>3 DEF WorkerOK, ClockOK
    <3> HIDE DEF h, j
    <3>5. Refine(v) <= j /\ Refine(v) \in Int
      BY <3>2, <3>3, <3>4, TypesOf
    <3> QED BY <3>5 DEF j
  <2> QED BY <2>1, <2>2
<1>6. ClockOK(v)'
  BY <1>1, <1>4, <1>5, TypesOf DEF ClockOK
<1>7. startAt > 0 \/ pc'[v] # "waiting"
  BY <1>1, <1>3 DEF WorkerOK, ClockOK
<1>8. StageOK(v)' /\ TaskOK(v)' /\ ResultOK(v)'
  BY <1>1, <1>3, <1>7, TypesOf DEF WorkerOK, StageOK, TaskOK, ResultOK, NotJoined
<1> QED BY <1>1, <1>2, <1>6, <1>8, OneWorkerMoves, TypesOf DEF WorkerOK

LEMMA ToldOK ==
  ASSUME MeasureType, WorkersOK, NEW v \in Workers, Told(v)
  PROVE  WorkersOK'
<1>1. /\ told'[v] = TRUE
      /\ UNCHANGED <<job, now, startAt, pc, sent, reply, offset, task, blocks, gate, count, outcome,
                     joined, stopped, early, late>>
  BY DEF Told, masterVars, callVars, taskVars, pastVars, MeasureType, CallsType
<1>2. \A w \in Workers \ {v} : SameWorker(w)
  BY <1>1 DEF Told, SameWorker, MeasureType, CallsType
<1>3. WorkerOK(v)
  BY DEF WorkersOK
<1>4. MeasureStart' = MeasureStart /\ PlannedEnd' = PlannedEnd
  BY <1>1 DEF MeasureStart, PlannedEnd
<1>5. WorkerOK(v)'
  BY <1>1, <1>3, <1>4, TypesOf DEF WorkerOK, ClockOK, StageOK, TaskOK, ResultOK, Deadline, Counts, Local
<1> QED BY <1>1, <1>2, <1>5, OneWorkerMoves, TypesOf

LEMMA LeaveBarrierOK ==
  ASSUME MeasureType, WorkersOK, NEW v \in Workers, LeaveBarrier(v)
  PROVE  WorkersOK'
<1>1. /\ pc[v] = "polling" /\ pc'[v] = "ended"
      /\ outcome'[v] = [NoOutcome EXCEPT !.start = now + offset[v], !.end = now + offset[v]]
      /\ UNCHANGED <<job, now, startAt, sent, reply, offset, told, task, blocks, gate, count,
                     joined, stopped, early, late>>
  BY DEF LeaveBarrier, masterVars, callVars, taskVars, pastVars, MeasureType, TasksType, BucketInv,
         BucketType
<1>2. \A w \in Workers \ {v} : SameWorker(w)
  BY <1>1 DEF LeaveBarrier, SameWorker, MeasureType, TasksType, BucketInv, BucketType
<1>3. WorkerOK(v)
  BY DEF WorkersOK
<1>4. outcome'[v].count = NoCount
  BY <1>1 DEF NoOutcome
<1>5. NoCount.ops = 0 /\ NoCount.errors = 0 /\ NoCount.samples = 0
  BY DEF NoCount
<1>6. joined'[v] = 0
  BY <1>1, <1>3 DEF WorkerOK, StageOK, NotJoined
<1>7. ClockOK(v)' /\ StageOK(v)' /\ TaskOK(v)'
  BY <1>1, <1>3, TypesOf DEF WorkerOK, ClockOK, StageOK, TaskOK, NotJoined
<1>8. ResultOK(v)'
  BY <1>4, <1>5, <1>6 DEF ResultOK
<1> QED BY <1>1, <1>2, <1>7, <1>8, OneWorkerMoves, TypesOf DEF WorkerOK

-----------------------------------------------------------------------------
(* The task.                                                               *)

LEMMA JoinOK ==
  ASSUME MeasureType, WorkersOK, NEW v \in Workers, Join(v)
  PROVE  WorkersOK'
<1>1. /\ pc[v] = "waiting" /\ pc'[v] = "working" /\ task'[v] = "top" /\ joined'[v] = now
      /\ now >= startAt - offset[v] \/ told[v]
      /\ UNCHANGED <<job, now, startAt, sent, reply, offset, told, blocks, gate, count, outcome,
                     stopped, early, late>>
  BY DEF Join, Local, masterVars, callVars, MeasureType, TasksType, PastType, BucketInv, BucketType
<1>2. \A w \in Workers \ {v} : SameWorker(w)
  BY <1>1 DEF Join, SameWorker, MeasureType, TasksType, PastType, BucketInv, BucketType
<1>3. WorkerOK(v)
  BY DEF WorkersOK
<1>4. NoCount.errors = 0 /\ NoOutcome.success = TRUE
  BY DEF NoCount, NoOutcome
<1>5. /\ late[v] = 0 /\ count[v] = NoCount /\ outcome[v] = NoOutcome /\ startAt > 0
  BY <1>1, <1>3 DEF WorkerOK, StageOK, NotJoined
<1>6. ClockOK(v)'
  BY <1>1, <1>3, TypesOf DEF WorkerOK, ClockOK
<1>7. StageOK(v)'
  BY <1>1, <1>3, <1>4, <1>5, TypesOf DEF WorkerOK, StageOK, NotJoined
<1>8. TaskOK(v)' /\ ResultOK(v)'
  BY <1>1, <1>3, <1>5, TypesOf DEF WorkerOK, TaskOK, ResultOK
<1> QED BY <1>1, <1>2, <1>6, <1>7, <1>8, OneWorkerMoves, TypesOf DEF WorkerOK

LEMMA EndsOK ==
  ASSUME MeasureType, WorkersOK, NEW v \in Workers, NEW b \in BOOLEAN, pc[v] = "working",
         RunnerEnds(v, b), UNCHANGED <<job, now, startAt, callVars, told, joined, early, late>>,
         \A w \in Workers \ {v} : count'[w] = count[w],
         count'[v].ops = count'[v].errors + count'[v].samples, b => count'[v].errors = 0
  PROVE  WorkersOK'
<1>1. /\ pc'[v] = "cleanup" /\ task'[v] = "none" /\ stopped'[v] = now
      /\ UNCHANGED <<sent, reply, offset>>
  BY DEF RunnerEnds, callVars, MeasureType, TasksType, PastType, BucketInv, BucketType
<1>2. outcome'[v].success = b
  <2>1. outcome' = [outcome EXCEPT ![v].success = b]
    BY DEF RunnerEnds
  <2> QED BY <2>1, TypesOf DEF MeasureType, TasksType, OutcomeType
<1>3. \A w \in Workers \ {v} : SameWorker(w)
  BY <1>1 DEF RunnerEnds, SameWorker, MeasureType, TasksType, PastType, BucketInv, BucketType
<1>4. WorkerOK(v)
  BY DEF WorkersOK
<1>5. ClockOK(v)'
  BY <1>1, <1>4, TypesOf DEF WorkerOK, ClockOK
<1>6. StageOK(v)'
  BY <1>1, <1>2, <1>4, TypesOf DEF WorkerOK, StageOK, NotJoined
<1>7. TaskOK(v)' /\ ResultOK(v)'
  BY <1>1, <1>4, TypesOf DEF WorkerOK, TaskOK, ResultOK
<1> QED BY <1>3, <1>5, <1>6, <1>7, OneWorkerMoves, TypesOf DEF WorkerOK

(* The end of the time line is looked at before each file.                 *)
LEMMA TopOK ==
  ASSUME MeasureType, WorkersOK, NEW v \in Workers, Top(v)
  PROVE  WorkersOK'
<1>1. /\ pc[v] = "working" /\ task[v] = "top"
      /\ UNCHANGED <<job, now, startAt, callVars, told, count, joined, early, late>>
  BY DEF Top, masterVars
<1>2. WorkerOK(v)
  BY DEF WorkersOK
<1>3. CASE Deadline(v) \/ told[v]
  <2>1. RunnerEnds(v, TRUE)
    BY <1>3 DEF Top
  <2>2. count[v].ops = count[v].errors + count[v].samples /\ count[v].errors = 0
    BY <1>1, <1>2 DEF WorkerOK, StageOK
  <2> QED BY <1>1, <2>1, <2>2, EndsOK
<1>4. CASE ~(Deadline(v) \/ told[v])
  <2>1. /\ UNCHANGED <<pc, sent, reply, offset, gate, outcome, stopped>>
        /\ \A w \in Workers \ {v} : task'[w] = task[w] /\ blocks'[w] = blocks[w]
        /\ task'[v] = IF job.kind = "read" THEN "io" ELSE "acquire"
    BY <1>1, <1>4 DEF Top, callVars, MeasureType, TasksType
  <2>2. \A w \in Workers \ {v} : SameWorker(w)
    BY <1>1, <2>1 DEF SameWorker
  <2>3. ~(late[v] > 0)
    BY <1>1, <1>2, <1>4 DEF WorkerOK, TaskOK
  <2>4. ClockOK(v)' /\ StageOK(v)'
    BY <1>1, <1>2, <2>1, TypesOf DEF WorkerOK, ClockOK, StageOK
  <2>5. TaskOK(v)' /\ ResultOK(v)'
    BY <1>1, <1>2, <2>1, <2>3, TypesOf DEF WorkerOK, TaskOK, ResultOK
  <2> QED BY <1>1, <2>2, <2>4, <2>5, OneWorkerMoves, TypesOf DEF WorkerOK
<1> QED BY <1>3, <1>4

LEMMA StopsOK ==
  ASSUME MeasureType, WorkersOK, NEW v \in Workers, NoMoreFiles(v) \/ ReadStops(v)
  PROVE  WorkersOK'
<1>1. /\ pc[v] = "working" /\ RunnerEnds(v, TRUE)
      /\ UNCHANGED <<job, now, startAt, callVars, told, count, joined, early, late>>
  BY DEF NoMoreFiles, ReadStops, masterVars
<1>2. count[v].ops = count[v].errors + count[v].samples /\ count[v].errors = 0
  BY <1>1 DEF WorkersOK, WorkerOK, StageOK
<1> QED BY <1>1, <1>2, EndsOK

LEMMA AcquireOK ==
  ASSUME MeasureType, WorkersOK, NEW v \in Workers, Acquire(v)
  PROVE  WorkersOK'
<1>1. /\ pc[v] = "working" /\ gate'[v] = Counts(v)
      /\ UNCHANGED <<job, now, startAt, pc, sent, reply, offset, told, blocks, count, outcome, joined,
                     stopped, early, late>>
      /\ \A w \in Workers \ {v} : task'[w] = task[w] /\ gate'[w] = gate[w]
  BY DEF Acquire, masterVars, callVars, MeasureType, TasksType
<1>2. \A w \in Workers \ {v} : SameWorker(w)
  BY <1>1 DEF SameWorker
<1>3. WorkerOK(v)
  BY DEF WorkersOK
<1>4. (Deadline(v) => Deadline(v)') /\ (Counts(v) => Counts(v)')
  BY <1>1 DEF Deadline, Counts, Local, PlannedEnd, MeasureStart
<1>5. ClockOK(v)' /\ StageOK(v)'
  BY <1>1, <1>3, TypesOf DEF WorkerOK, ClockOK, StageOK
<1>6. TaskOK(v)' /\ ResultOK(v)'
  BY <1>1, <1>3, <1>4, TypesOf DEF WorkerOK, TaskOK, ResultOK
<1> QED BY <1>1, <1>2, <1>5, <1>6, OneWorkerMoves, TypesOf DEF WorkerOK

LEMMA OperationOK ==
  ASSUME MeasureType, WorkersOK, NEW v \in Workers, Operation(v)
  PROVE  WorkersOK'
<1>1. /\ pc[v] = "working" /\ task[v] = "io" /\ blocks[v] > 0 /\ blocks'[v] = blocks[v] - 1
      /\ task'[v] = IF job.kind = "read" THEN "acquire" ELSE "top"
      /\ \A w \in Workers \ {v} : task'[w] = task[w] /\ blocks'[w] = blocks[w]
      /\ UNCHANGED <<job, now, startAt, pc, sent, reply, offset, told, gate, outcome, joined, stopped>>
  BY DEF Operation, masterVars, callVars, MeasureType, TasksType
<1>2. WorkerOK(v)
  BY DEF WorkersOK
<1>3. Deadline(v)' = Deadline(v) /\ Counts(v)' = Counts(v)
  BY <1>1 DEF Deadline, Counts, Local, PlannedEnd, MeasureStart
<1>4. InMeasure(v) => Counts(v)
  BY <1>1, <1>2, TypesOf DEF InMeasure, WorkerOK, TaskOK
<1>5. early' = early
  BY <1>4 DEF Operation
<1>6. /\ \A w \in Workers \ {v} : count'[w] = count[w] /\ late'[w] = late[w]
      /\ late'[v] = late[v] \/ (Deadline(v) /\ late'[v] = late[v] + 1)
      /\ count'[v].errors = count[v].errors
      /\ count'[v].ops = count'[v].errors + count'[v].samples
  <2>1. CASE InMeasure(v)
    <3> DEFINE r == [count[v] EXCEPT !.ops = @ + 1, !.samples = @ + 1]
    <3>1. count' = [count EXCEPT ![v] = r]
      BY <2>1 DEF Operation
    <3>2. r.ops = count[v].ops + 1 /\ r.errors = count[v].errors /\ r.samples = count[v].samples + 1
      BY TypesOf, CountsUp
    <3>3. late' = IF Deadline(v) THEN [late EXCEPT ![v] = @ + 1] ELSE late
      BY <2>1 DEF Operation
    <3>4. count[v].ops = count[v].errors + count[v].samples
      BY <1>2 DEF WorkerOK, StageOK
    <3> HIDE DEF r
    <3>5. /\ count'[v] = r /\ \A w \in Workers \ {v} : count'[w] = count[w]
      BY <3>1 DEF MeasureType, TasksType
    <3>6. /\ \A w \in Workers \ {v} : late'[w] = late[w]
          /\ late'[v] = late[v] \/ (Deadline(v) /\ late'[v] = late[v] + 1)
      BY <3>3 DEF MeasureType, PastType
    <3>7. count[v].ops \in Nat /\ count[v].errors \in Nat /\ count[v].samples \in Nat
      BY TypesOf DEF CountType
    <3> QED BY <3>2, <3>4, <3>5, <3>6, <3>7
  <2>2. CASE ~InMeasure(v)
    BY <1>2, <2>2 DEF Operation, WorkerOK, StageOK
  <2> QED BY <2>1, <2>2
<1>7. \A w \in Workers \ {v} : SameWorker(w)
  BY <1>1, <1>5, <1>6 DEF SameWorker
<1>8. ClockOK(v)' /\ StageOK(v)'
  BY <1>1, <1>2, <1>6, TypesOf DEF WorkerOK, ClockOK, StageOK, NotJoined
<1>9. TaskOK(v)'
  <2>1. /\ early[v] = 0 /\ late[v] <= Blocks
        /\ late[v] > 0 => Deadline(v) /\ late[v] + blocks[v] <= Blocks
    BY <1>1, <1>2 DEF WorkerOK, TaskOK
  <2>2. late'[v] <= Blocks /\ (late'[v] > 0 => Deadline(v) /\ late'[v] + blocks'[v] <= Blocks)
    BY <1>1, <1>6, <2>1, Parameters, TypesOf
  <2> QED BY <1>1, <1>3, <1>5, <2>1, <2>2 DEF TaskOK
<1>10. ResultOK(v)'
  BY <1>1 DEF ResultOK
<1> QED BY <1>1, <1>7, <1>8, <1>9, <1>10, OneWorkerMoves, TypesOf DEF WorkerOK

LEMMA OperationFailsOK ==
  ASSUME MeasureType, WorkersOK, NEW v \in Workers, OperationFails(v)
  PROVE  WorkersOK'
<1>1. /\ pc[v] = "working" /\ RunnerEnds(v, FALSE)
      /\ UNCHANGED <<job, now, startAt, callVars, told, joined, early, late>>
  BY DEF OperationFails, masterVars
<1> DEFINE r == [count[v] EXCEPT !.ops = @ + 1, !.errors = @ + 1]
<1>2. count' = [count EXCEPT ![v] = r]
  BY DEF OperationFails
<1>3. r.ops = count[v].ops + 1 /\ r.errors = count[v].errors + 1 /\ r.samples = count[v].samples
  BY TypesOf, CountsUp
<1>4. count[v].ops = count[v].errors + count[v].samples
  BY DEF WorkersOK, WorkerOK, StageOK
<1>5. count[v].ops \in Nat /\ count[v].errors \in Nat /\ count[v].samples \in Nat
  BY TypesOf DEF CountType
<1> HIDE DEF r
<1>6. count'[v] = r /\ \A w \in Workers \ {v} : count'[w] = count[w]
  BY <1>2 DEF MeasureType, TasksType
<1>7. count'[v].ops = count'[v].errors + count'[v].samples
  BY <1>3, <1>4, <1>5, <1>6
<1> QED BY <1>1, <1>6, <1>7, EndsOK

-----------------------------------------------------------------------------
(* The result.                                                             *)

LEMMA MakeResultOK ==
  ASSUME MeasureType, WorkersOK, NEW v \in Workers, MakeResult(v)
  PROVE  WorkersOK'
<1> DEFINE r == [outcome[v] EXCEPT !.start = MeasureStart, !.end = MeasureEnd(v), !.count = count[v],
                                   !.duration = Greater(MeasureEnd(v) - MeasureStart, 0)]
<1>1. /\ pc[v] = "cleanup" /\ pc'[v] = "ended" /\ outcome' = [outcome EXCEPT ![v] = r]
      /\ UNCHANGED <<job, now, startAt, sent, reply, offset, told, task, blocks, gate, count, joined,
                     stopped, early, late>>
  BY DEF MakeResult, masterVars, callVars, pastVars, MeasureType, BucketInv, BucketType
<1>2. /\ r.start = MeasureStart /\ r.end = MeasureEnd(v) /\ r.count = count[v]
      /\ r.duration = Greater(MeasureEnd(v) - MeasureStart, 0) /\ r.success = outcome[v].success
  BY TypesOf DEF OutcomeType
<1> HIDE DEF r
<1>3. outcome'[v] = r /\ \A w \in Workers \ {v} : outcome'[w] = outcome[w]
  BY <1>1 DEF MeasureType, TasksType
<1>4. \A w \in Workers \ {v} : SameWorker(w)
  BY <1>1, <1>3 DEF MakeResult, SameWorker, MeasureType, BucketInv, BucketType
<1>5. WorkerOK(v)
  BY DEF WorkersOK
<1>6. ClockOK(v)' /\ StageOK(v)' /\ TaskOK(v)'
  BY <1>1, <1>5, TypesOf DEF WorkerOK, ClockOK, StageOK, TaskOK, NotJoined
<1>7. ResultOK(v)'
  <2>1. /\ joined[v] > 0 /\ startAt > 0 /\ stopped[v] <= now
        /\ count[v].ops = count[v].errors + count[v].samples
        /\ outcome[v].success => count[v].errors = 0
    BY <1>1, <1>5 DEF WorkerOK, StageOK
  <2>2. MeasureStart' = MeasureStart /\ PlannedEnd' = PlannedEnd
    BY <1>1 DEF MeasureStart, PlannedEnd
  <2>3. MeasureEnd(v) <= PlannedEnd /\ MeasureEnd(v) >= Lesser(stopped[v] + offset[v], PlannedEnd)
    BY <2>1, TimeLine, TypesOf DEF MeasureEnd, Lesser
  <2> QED BY <1>1, <1>2, <1>3, <2>1, <2>2, <2>3, TypesOf DEF ResultOK
<1> QED BY <1>1, <1>4, <1>6, <1>7, OneWorkerMoves, TypesOf DEF WorkerOK

LEMMA ReportResultOK ==
  ASSUME MeasureType, WorkersOK, NEW v \in Workers, ReportResult(v)
  PROVE  WorkersOK'
<1>1. /\ pc[v] = "ended" /\ pc'[v] = "left" /\ count'[v] = NoCount /\ offset'[v] = 0
      /\ UNCHANGED <<job, now, startAt, sent, reply, early, late>>
  BY DEF ReportResult, MeasureType, TasksType, CallsType, BucketInv, BucketType
<1>2. \A w \in Workers \ {v} : SameWorker(w)
  BY DEF ReportResult, SameWorker, MeasureType, TasksType, CallsType, PastType, BucketInv, BucketType
<1>3. WorkerOK(v)
  BY DEF WorkersOK
<1>4. 0 <= Jitter \div 2
  BY Parameters
<1>5. NoCount.ops = 0 /\ NoCount.errors = 0 /\ NoCount.samples = 0
  BY DEF NoCount
<1>6. ClockOK(v)' /\ StageOK(v)'
  BY <1>1, <1>3, <1>4, <1>5, TypesOf DEF WorkerOK, ClockOK, StageOK, NotJoined
<1>7. TaskOK(v)' /\ ResultOK(v)'
  BY <1>1, <1>3 DEF WorkerOK, TaskOK, ResultOK
<1> QED BY <1>1, <1>2, <1>6, <1>7, OneWorkerMoves, TypesOf DEF WorkerOK

LEMMA NextWorkers == MeasureType /\ MeasureType' /\ WorkersOK /\ [Next]_vars => WorkersOK'
<1> SUFFICES ASSUME MeasureType, MeasureType', WorkersOK, [Next]_vars PROVE WorkersOK'
  OBVIOUS
<1>1. CASE Tick \/ EndJob \/ UNCHANGED vars
  <2>1. /\ UNCHANGED <<job, startAt, pc, callVars, told, task, blocks, gate, count, outcome, joined, stopped,
                       early, late>>
        /\ now' = now \/ now' = now + 1
    BY <1>1 DEF Tick, EndJob, vars, masterVars, taskVars, pastVars
  <2>2. \A w \in Workers : SameWorker(w)
    BY <2>1 DEF SameWorker, callVars
  <2>3. startAt' \in Nat
    BY DEF MeasureType, MasterType
  <2> QED BY <2>1, <2>2, <2>3, WorkerUntouched DEF WorkersOK
<1>2. ASSUME NEW v \in Workers,
             Ask(v) \/ ReportReady(v) \/ CallFails(v) \/ Receive(v) \/ Told(v) \/ LeaveBarrier(v)
      PROVE  WorkersOK'
  BY <1>2, AskOK, ReportReadyOK, CallFailsOK, ReceiveOK, ToldOK, LeaveBarrierOK
<1>3. ASSUME NEW v \in Workers,
             \/ Join(v) \/ Top(v) \/ NoMoreFiles(v) \/ Acquire(v) \/ Operation(v) \/ ReadStops(v)
             \/ OperationFails(v)
      PROVE  WorkersOK'
  BY <1>3, JoinOK, TopOK, StopsOK, AcquireOK, OperationOK, OperationFailsOK
<1>4. ASSUME NEW v \in Workers, MakeResult(v) \/ ReportResult(v)
      PROVE  WorkersOK'
  BY <1>4, MakeResultOK, ReportResultOK
<1> QED BY <1>1, <1>2, <1>3, <1>4 DEF Next

-----------------------------------------------------------------------------
LEMMA InvHasTypes == MeasureType => TypeOK
<1> SUFFICES ASSUME MeasureType PROVE TypeOK
  OBVIOUS
<1>1. /\ status \in {"preparing", "running", "over"} /\ ready \subseteq Workers
      /\ (startAt > 0) = (ready = Workers) /\ DOMAIN results \subseteq Workers
  BY DEF MeasureType, MasterType, Statuses
<1>2. pc \in [Workers -> {"polling", "asked", "answered", "waiting", "working", "cleanup",
                          "ended", "left"}]
  BY DEF MeasureType, BucketInv, BucketType, PCs
<1>3. /\ task \in [Workers -> {"none", "top", "acquire", "io"}]
      /\ blocks \in [Workers -> 0..Blocks] /\ gate \in [Workers -> BOOLEAN]
      /\ \A w \in Workers : tokens[w] <= Capacity
  BY DEF MeasureType, TasksType, TaskStates
<1>4. \A w \in Workers : refilled[w] <= now
  BY DEF MeasureType, BucketInv, BucketExact
<1> QED BY <1>1, <1>2, <1>3, <1>4 DEF TypeOK

LEMMA InvStartsInTime == MeasureType /\ WorkersOK => NoFalseStart
<1> SUFFICES ASSUME MeasureType, WorkersOK, NEW w \in Workers, pc[w] = "working", ~told[w]
             PROVE  joined[w] >= startAt - Jitter \div 2
  BY DEF NoFalseStart
<1>1. offset[w] <= Jitter \div 2 /\ joined[w] >= startAt - offset[w]
  BY DEF WorkersOK, WorkerOK, ClockOK, StageOK
<1>2. Jitter \div 2 \in Int
  BY Parameters
<1> QED BY <1>1, <1>2, TypesOf

(* A worker ends on the master's clock, at the deadline at the latest and  *)
(* not before its task has stopped.                                        *)
LEMMA InvIsHonest == MeasureType /\ WorkersOK => DurationHonest
<1> SUFFICES ASSUME MeasureType, WorkersOK, NEW w \in Workers,
                    pc[w] = "ended", joined[w] > 0, InTime(w)
             PROVE  /\ outcome[w].duration \in Worked(w)..Duration
                    /\ stopped[w] >= Local(PlannedEnd, w) => outcome[w].duration = Duration
  BY DEF DurationHonest
<1> DEFINE e == outcome[w].end
           d == outcome[w].duration
<1>1. /\ startAt > 0 /\ d = Greater(e - MeasureStart, 0)
      /\ e <= PlannedEnd /\ e >= Lesser(stopped[w] + offset[w], PlannedEnd)
  BY DEF WorkersOK, WorkerOK, ResultOK
<1>2. /\ e \in Int /\ d \in Nat /\ offset[w] \in Int /\ stopped[w] \in Nat /\ joined[w] \in Nat
      /\ startAt \in Nat
  BY TypesOf DEF OutcomeType
<1>3. /\ MeasureStart \in Nat /\ PlannedEnd \in Nat /\ PlannedEnd = MeasureStart + Duration
      /\ Duration \in Nat \ {0}
  BY <1>2, TimeLine, Parameters
<1>4. joined[w] <= MeasureStart - offset[w]
  BY DEF InTime, Local
<1>5. Worked(w) = Greater(0, Lesser(stopped[w], PlannedEnd - offset[w]) - (MeasureStart - offset[w]))
  BY <1>2, <1>3, <1>4 DEF Worked, Local, Greater
<1> HIDE DEF e, d
<1>6. Worked(w) \in Int /\ d >= Worked(w) /\ d <= Duration
  BY <1>1, <1>2, <1>3, <1>5 DEF Greater, Lesser
<1>7. stopped[w] >= PlannedEnd - offset[w] => d = Duration
  BY <1>1, <1>2, <1>3 DEF Greater, Lesser
<1> QED BY <1>2, <1>3, <1>6, <1>7 DEF d, Local

(* Whatever the replies' delays, the clocks' estimates and the schedule:   *)
(* no worker begins before the master's time by more than half the longest *)
(* round trip it trusts; one that began in time reports at least the time  *)
(* it worked and at most the duration, and exactly that if it went on to   *)
(* the deadline; no operation counts that ended before the measured time,  *)
(* and after it only those of the file under way: refine_with of           *)
(* MasterClockOffset and the runners.                                      *)
THEOREM WhatIsMeasuredIsTrue == Spec => []MeasuredTruly
<1>1. Init => MeasureType /\ WorkersOK
  BY InitTypes, InitWorkers
<1>2. MeasureType /\ WorkersOK /\ [Next]_vars => MeasureType' /\ WorkersOK'
  BY NextTypes, NextWorkers
<1>3. MeasureType /\ WorkersOK => MeasuredTruly
  <2>1. WorkersOK => OpsInWindow
    BY DEF WorkersOK, WorkerOK, TaskOK, OpsInWindow
  <2> QED BY <2>1, InvHasTypes, InvStartsInTime, InvIsHonest DEF MeasuredTruly
<1> QED BY <1>1, <1>2, <1>3, PTL DEF Spec

-----------------------------------------------------------------------------
(* The summary.                                                            *)

(* What a recorded result says of itself.                                  *)
ReportOK(r) ==
  /\ r.count.ops = r.count.errors + r.count.samples
  /\ r.success => r.count.errors = 0
  /\ r.count.ops > 0 =>
       /\ startAt > 0 /\ r.start = MeasureStart
       /\ r.duration = Greater(r.end - MeasureStart, 0)

(* The summary is made once, of the results that there are when the job    *)
(* is over.                                                                *)
SummaryOK == summary # NoSummary => status = "over" /\ summary = Aggregate(results)

ResultsOK ==
  /\ status = "running" => startAt > 0
  /\ \A v \in DOMAIN results : ReportOK(results[v])
  /\ SummaryOK

LEMMA InitResults == Init => ResultsOK
BY DEF Init, ResultsOK, SummaryOK

LEMMA ResultsUntouched ==
  ASSUME MasterType, MasterType', ResultsOK, UNCHANGED <<results, summary, status>>,
         startAt' = startAt \/ (startAt = 0 /\ startAt' > 0)
  PROVE  ResultsOK'
<1>1. startAt \in Nat /\ startAt' \in Nat
  BY DEF MasterType
<1>2. \A v \in DOMAIN results : ReportOK(results[v])'
  BY <1>1 DEF ResultsOK, ReportOK, MeasureStart
<1>3. SummaryOK'
  BY DEF ResultsOK, SummaryOK, Aggregate
<1> QED BY <1>1, <1>2, <1>3 DEF ResultsOK

LEMMA ReportReadyResults ==
  ASSUME MeasureType, MeasureType', ResultsOK, NEW v \in Workers, ReportReady(v) PROVE ResultsOK'
<1>1. now \in Nat \ {0} /\ startAt \in Nat /\ startAt' \in Nat
  BY DEF MeasureType, MasterType
<1>2. UNCHANGED <<results, summary>>
  BY DEF ReportReady
<1>3. status = "preparing" => DOMAIN results = {} /\ summary = NoSummary
  BY DEF MeasureType, MasterType, ResultsOK, SummaryOK
<1>4. CASE UNCHANGED <<status, startAt>>
  BY <1>2, <1>4, ResultsUntouched DEF MeasureType
<1>5. CASE ~UNCHANGED <<status, startAt>>
  <2>1. status = "preparing" /\ startAt' = now + Lead
    BY <1>5 DEF ReportReady
  <2>2. startAt' > 0
    BY <2>1, <1>1, Parameters
  <2>3. SummaryOK' /\ DOMAIN results' = {}
    BY <2>1, <1>2, <1>3 DEF SummaryOK
  <2> QED BY <2>2, <2>3 DEF ResultsOK
<1> QED BY <1>4, <1>5

LEMMA EndJobResults ==
  ASSUME MeasureType, ResultsOK, EndJob PROVE ResultsOK'
<1>1. UNCHANGED <<startAt, results>> /\ status' = "over" /\ summary' = Aggregate(results)
  BY DEF EndJob, Verdict
<1>2. SummaryOK'
  BY <1>1 DEF SummaryOK, Aggregate
<1>3. \A w \in DOMAIN results : ReportOK(results[w])'
  BY <1>1 DEF ResultsOK, ReportOK, MeasureStart
<1> QED BY <1>1, <1>2, <1>3 DEF ResultsOK

LEMMA ReportResultResults ==
  ASSUME MeasureType, WorkersOK, ResultsOK, NEW v \in Workers, ReportResult(v) PROVE ResultsOK'
<1>1. UNCHANGED startAt
  BY DEF ReportResult
<1>2. CASE status = "running"
  <2>1. results' = [w \in DOMAIN results \cup {v} |-> IF w = v THEN outcome[v] ELSE results[w]]
    BY <1>2 DEF ReportResult
  <2>2. \/ status' = "over" /\ summary' = Aggregate(results')
        \/ UNCHANGED <<status, summary>>
    BY <1>2 DEF ReportResult, Verdict
  <2>3. SummaryOK'
    <3>1. CASE status' = "over" /\ summary' = Aggregate(results')
      BY <3>1 DEF SummaryOK, Aggregate
    <3>2. CASE UNCHANGED <<status, summary>>
      BY <1>2, <3>2 DEF SummaryOK, ResultsOK
    <3> QED BY <2>2, <3>1, <3>2
  <2>4. ReportOK(outcome[v])
    <3>1. pc[v] = "ended" /\ ResultOK(v)
      BY DEF ReportResult, WorkersOK, WorkerOK
    <3>2. joined[v] = 0 \/ joined[v] > 0
      BY TypesOf
    <3>3. NoCount.ops = 0
      BY DEF NoCount
    <3> QED BY <3>1, <3>2, <3>3 DEF ResultOK, ReportOK
  <2>5. \A w \in DOMAIN results' : ReportOK(results'[w])
    BY <2>1, <2>4 DEF ResultsOK
  <2>6. \A w \in DOMAIN results' : ReportOK(results[w])'
    BY <1>1, <2>5 DEF ReportOK, MeasureStart
  <2>7. status' = "running" => startAt' > 0
    BY <1>1, <1>2 DEF ResultsOK
  <2> QED BY <2>3, <2>6, <2>7 DEF ResultsOK
<1>3. CASE status # "running"
  <2>1. UNCHANGED <<status, results, summary>>
    BY <1>3 DEF ReportResult
  <2>2. SummaryOK'
    BY <2>1 DEF ResultsOK, SummaryOK, Aggregate
  <2>3. \A w \in DOMAIN results : ReportOK(results[w])'
    BY <1>1, <2>1 DEF ResultsOK, ReportOK, MeasureStart
  <2> QED BY <1>1, <2>1, <2>2, <2>3 DEF ResultsOK
<1> QED BY <1>2, <1>3

LEMMA NextResults ==
  MeasureType /\ MeasureType' /\ WorkersOK /\ ResultsOK /\ [Next]_vars => ResultsOK'
<1> SUFFICES ASSUME MeasureType, MeasureType', WorkersOK, ResultsOK, [Next]_vars PROVE ResultsOK'
  OBVIOUS
<1>1. CASE UNCHANGED <<masterVars>>
  BY <1>1, ResultsUntouched DEF masterVars, MeasureType
<1>2. CASE Tick \/ UNCHANGED vars
  BY <1>1, <1>2 DEF Tick, vars
<1>3. CASE EndJob
  BY <1>3, EndJobResults
<1>4. ASSUME NEW v \in Workers, ReportReady(v) PROVE ResultsOK'
  BY <1>4, ReportReadyResults
<1>5. ASSUME NEW v \in Workers, ReportResult(v) PROVE ResultsOK'
  BY <1>5, ReportResultResults
<1>6. ASSUME NEW v \in Workers,
             \/ Ask(v) \/ CallFails(v) \/ Receive(v) \/ Told(v) \/ LeaveBarrier(v)
             \/ Join(v) \/ Top(v) \/ NoMoreFiles(v) \/ Acquire(v)
             \/ Operation(v) \/ ReadStops(v) \/ OperationFails(v) \/ MakeResult(v)
      PROVE  ResultsOK'
  <2>1. UNCHANGED masterVars
    BY <1>6 DEF Ask, CallFails, Receive, Told, LeaveBarrier, Join, Top, NoMoreFiles, Acquire,
                Operation, ReadStops, OperationFails, MakeResult
  <2> QED BY <1>1, <2>1
<1> QED BY <1>2, <1>3, <1>4, <1>5, <1>6 DEF Next

(* All contributors begin at the same time; the first to end ends the      *)
(* window, and it is the one that has measured least.                      *)
LEMMA WindowOfReports ==
  ASSUME MeasureType, ResultsOK,
         NEW C, C = {w \in DOMAIN results : results[w].count.ops > 0}
  PROVE  /\ Contributors(results) = C
         /\ C = {} => Window(results) = [length |-> 0, misaligned |-> FALSE]
         /\ C # {} => /\ Window(results).length = Min({results[w].duration : w \in C})
                      /\ Window(results).misaligned =
                           (Cardinality(C) > 1 /\ Window(results).length = 0)
<1> DEFINE rs == results
<1>1. \A w \in DOMAIN rs : /\ rs[w] \in OutcomeType /\ rs[w].end \in Int /\ rs[w].duration \in Nat
                           /\ rs[w].count.ops \in Nat /\ rs[w].count.errors \in Nat
                           /\ rs[w].count.samples \in Nat /\ ReportOK(rs[w])
  BY DEF MeasureType, MasterType, OutcomeType, CountType, ResultsOK
<1>2. Contributors(rs) = C
  <2>1. \A w \in DOMAIN rs : rs[w].count.errors > 0 => rs[w].count.ops > 0
    BY <1>1 DEF ReportOK
  <2> QED BY <2>1 DEF Contributors
<1>3. C = {} => Window(rs) = [length |-> 0, misaligned |-> FALSE]
  <2>1. Cardinality({}) = 0
    BY FS_EmptySet
  <2> QED BY <1>2, <2>1 DEF Window
<1>4. ASSUME C # {}
      PROVE  /\ Window(rs).length = Min({rs[w].duration : w \in C})
             /\ Window(rs).misaligned = (Cardinality(C) > 1 /\ Window(rs).length = 0)
  <2> DEFINE durations == {rs[w].duration : w \in C}
             ends == {rs[w].end : w \in C}
             start == Max({rs[w].start : w \in C})
             n == Cardinality(C)
  <2>1. \A w \in C : /\ startAt > 0 /\ rs[w].start = MeasureStart
                     /\ rs[w].duration = Greater(rs[w].end - MeasureStart, 0)
    BY <1>1 DEF ReportOK
  <2>2. startAt \in Nat /\ MeasureStart \in Nat
    BY TimeLine DEF MeasureType, MasterType
  <2>3. IsFiniteSet(C) /\ n \in Nat /\ n # 0
    <3>1. C \in SUBSET Workers
      BY DEF MeasureType, MasterType
    <3> QED BY <3>1, <1>4, FS_Subset, FS_CardinalityType, FS_EmptySet
  <2>4. IsFiniteSet(ends) /\ ends # {} /\ ends \subseteq Int
    <3> DEFINE f == [w \in C |-> rs[w].end]
    <3>1. ends = {f[w] : w \in C}
      OBVIOUS
    <3>2. ends # {} /\ ends \subseteq Int
      BY <1>1, <1>4
    <3> HIDE DEF f, ends
    <3> QED BY <3>1, <3>2, <2>3, FiniteImage
  <2>5. IsFiniteSet(durations) /\ durations # {} /\ durations \subseteq Int
    <3> DEFINE f == [w \in C |-> rs[w].duration]
    <3>1. durations = {f[w] : w \in C}
      OBVIOUS
    <3>2. durations # {} /\ durations \subseteq Int
      BY <1>1, <1>4
    <3> HIDE DEF f, durations
    <3> QED BY <3>1, <3>2, <2>3, FiniteImage
  <2>6. start = MeasureStart
    <3>1. {rs[w].start : w \in C} = {MeasureStart}
      BY <1>4, <2>1
    <3>2. Max({MeasureStart}) = MeasureStart
      BY <2>2 DEF Max
    <3> QED BY <3>1, <3>2
  <2>7. Min(ends) \in ends /\ \A e \in ends : Min(ends) <= e
    <3> HIDE DEF ends
    <3> QED BY <2>4, LeastInt
  <2>8. Min(durations) \in durations /\ \A d \in durations : Min(durations) <= d
    <3> HIDE DEF durations
    <3> QED BY <2>5, LeastInt
  <2>9. PICK a \in C : rs[a].end = Min(ends)
    BY <2>7
  <2>10. PICK b \in C : rs[b].duration = Min(durations)
    BY <2>8
  <2>11. rs[a].end <= rs[b].end /\ rs[b].duration <= rs[a].duration
    BY <2>7, <2>8, <2>9, <2>10
  <2>12. rs[b].duration = Greater(Min(ends) - MeasureStart, 0) /\ Min(ends) \in Int
    BY <2>1, <2>2, <2>9, <2>10, <2>11, <1>1 DEF Greater
  <2>13. Window(rs) =
           CASE n = 1 -> [length |-> IF Min(ends) > start THEN Min(ends) - start ELSE Min(durations),
                          misaligned |-> FALSE]
             [] n # 1 -> IF Min(ends) > start THEN [length |-> Min(ends) - start, misaligned |-> FALSE]
                         ELSE [length |-> Min(durations), misaligned |-> TRUE]
    BY <1>2, <1>4 DEF Window
  <2> HIDE DEF durations, ends, start, n
  <2>14. /\ Min(ends) > start => Min(ends) - start = Min(durations) /\ Min(durations) > 0
         /\ ~(Min(ends) > start) => Min(durations) = 0
    BY <2>2, <2>6, <2>10, <2>12 DEF Greater
  <2>15. (n > 1) = (n # 1)
    BY <2>3
  <2>16. Window(rs).length = Min(durations)
    BY <2>13, <2>14
  <2>17. Window(rs).misaligned = (n # 1 /\ ~(Min(ends) > start))
    <3> DEFINE bad == n # 1 /\ ~(Min(ends) > start)
               l == Min(durations)
    <3>1. CASE ~bad
      <4>1. PICK k : Window(rs) = [length |-> k, misaligned |-> FALSE]
        BY <2>13, <3>1
      <4>2. Window(rs).misaligned = FALSE
        BY <4>1
      <4> QED BY <3>1, <4>2
    <3>2. CASE bad
      <4>1. Window(rs) = [length |-> l, misaligned |-> TRUE]
        BY <2>13, <3>2
      <4>2. Window(rs).misaligned = TRUE
        BY <4>1
      <4> QED BY <3>2, <4>2
    <3> QED BY <3>1, <3>2
  <2>18. (Min(durations) = 0) = ~(Min(ends) > start)
    BY <2>10, <2>14
  <2> QED BY <2>15, <2>16, <2>17, <2>18 DEF n, durations
<1> QED BY <1>2, <1>3, <1>4

LEMMA CountsOfReports ==
  ASSUME MeasureType, ResultsOK
  PROVE  LET sum == Aggregate(results)
             ok  == {w \in DOMAIN results : results[w].success}
         IN  /\ sum.count.ops = SumOf([w \in DOMAIN results |-> results[w].count.ops])
             /\ sum.count.errors = SumOf([w \in DOMAIN results |-> results[w].count.errors])
             /\ sum.count.samples = SumOf([w \in ok |-> results[w].count.samples])
             /\ sum.count.samples <= sum.count.ops - sum.count.errors
             /\ sum.workers = Cardinality(DOMAIN results) =>
                  sum.count.errors = 0 /\ sum.count.samples = sum.count.ops
<1> DEFINE rs == results
           D  == DOMAIN rs
           o  == [w \in D |-> rs[w].count.ops]
           e  == [w \in D |-> rs[w].count.errors]
           s  == [w \in D |-> IF rs[w].success THEN rs[w].count.samples ELSE 0]
           S  == {w \in D : rs[w].success}
           t  == [w \in S |-> rs[w].count.samples]
<1>1. \A w \in D : /\ rs[w].count.ops \in Nat /\ rs[w].count.errors \in Nat
                   /\ rs[w].count.samples \in Nat /\ rs[w].success \in BOOLEAN
                   /\ rs[w].count.ops = rs[w].count.errors + rs[w].count.samples
                   /\ rs[w].success => rs[w].count.errors = 0
  BY DEF MeasureType, MasterType, OutcomeType, CountType, ResultsOK, ReportOK
<1>2. IsFiniteSet(D)
  <2>1. D \in SUBSET Workers
    BY DEF MeasureType, MasterType
  <2> QED BY <2>1, FS_Subset
<1>3. o \in [D -> Nat] /\ e \in [D -> Nat] /\ s \in [D -> Nat]
  BY <1>1
<1>4. \A w \in D : s[w] + e[w] <= o[w]
  BY <1>1
<1>5. Aggregate(rs).count = [ops |-> SumOf(o), errors |-> SumOf(e), samples |-> SumOf(s)]
      /\ Aggregate(rs).workers = Cardinality(S)
  BY DEF Aggregate
<1>6. Cardinality(S) = Cardinality(D) => \A w \in D : rs[w].success
  <2>1. S \in SUBSET D
    OBVIOUS
  <2>2. Cardinality(S) = Cardinality(D) => S = D
    <3> HIDE DEF S, D
    <3> QED BY <2>1, <1>2, FS_Subset
  <2> QED BY <2>2
<1>7. (\A w \in D : rs[w].success) => s = o /\ \A w \in D : e[w] + e[w] <= e[w]
  BY <1>1
<1>8. /\ S \in SUBSET D /\ t \in [S -> Nat]
      /\ \A w \in S : t[w] = s[w]
      /\ \A w \in D \ S : s[w] = 0
  BY <1>1
<1> HIDE DEF o, e, s, t, D, S
<1>9. SumOf(s) = SumOf(t)
  BY <1>2, <1>3, <1>8, SumOfSome
<1>10. /\ SumOf(s) \in Nat /\ SumOf(e) \in Nat /\ SumOf(o) \in Nat /\ SumOf(s) + SumOf(e) <= SumOf(o)
  BY <1>2, <1>3, <1>4, SumsCompare
<1>11. (\A w \in D : e[w] + e[w] <= e[w]) => SumOf(e) = 0
  BY <1>2, <1>3, <1>10, SumsCompare
<1>12. SumOf(s) <= SumOf(o) - SumOf(e)
  BY <1>10
<1>13. Cardinality(S) = Cardinality(D) => SumOf(e) = 0 /\ SumOf(s) = SumOf(o)
  BY <1>6, <1>7, <1>11
<1>14. /\ Aggregate(rs).count.ops = SumOf(o) /\ Aggregate(rs).count.errors = SumOf(e)
       /\ Aggregate(rs).count.samples = SumOf(t)
  BY <1>5, <1>9
<1>15. /\ Aggregate(rs).count.samples <= Aggregate(rs).count.ops - Aggregate(rs).count.errors
       /\ Aggregate(rs).workers = Cardinality(D) =>
            Aggregate(rs).count.errors = 0 /\ Aggregate(rs).count.samples = Aggregate(rs).count.ops
  BY <1>5, <1>12, <1>13
<1> QED BY <1>14, <1>15, Zenon DEF o, e, t, D, S

LEMMA InvSharesTheWindow == MeasureType /\ ResultsOK => WindowIsShared
<1> SUFFICES ASSUME MeasureType, ResultsOK, summary # NoSummary PROVE WindowIsShared
  BY DEF WindowIsShared
<1> DEFINE C == {w \in DOMAIN results : results[w].count.ops > 0}
<1>1. summary = Aggregate(results)
  BY DEF ResultsOK, SummaryOK
<1>2. summary.window = Window(results).length /\ summary.misaligned = Window(results).misaligned
  BY <1>1 DEF Aggregate
<1>3. /\ C = {} => Window(results) = [length |-> 0, misaligned |-> FALSE]
      /\ C # {} => /\ Window(results).length = Min({results[w].duration : w \in C})
                   /\ Window(results).misaligned =
                        (Cardinality(C) > 1 /\ Window(results).length = 0)
  BY WindowOfReports
<1>4. C = {} => summary.window = 0 /\ ~summary.misaligned
  BY <1>2, <1>3
<1>5. C # {} => summary.window = Min({results[w].duration : w \in C})
  BY <1>2, <1>3
<1>6. summary.misaligned = (Cardinality(C) > 1 /\ summary.window = 0)
  <2>1. CASE C = {}
    <3>1. Cardinality(C) = 0
      BY <2>1, FS_EmptySet
    <3>2. ~(Cardinality(C) > 1)
      BY <3>1
    <3>3. summary.misaligned = FALSE
      BY <1>2, <1>3, <2>1
    <3> QED BY <3>2, <3>3
  <2>2. CASE C # {}
    BY <1>2, <1>3, <2>2
  <2> QED BY <2>1, <2>2
<1> DEFINE ok == {w \in DOMAIN results : results[w].success}
<1>7. /\ summary.count.ops = SumOf([w \in DOMAIN results |-> results[w].count.ops])
      /\ summary.count.errors = SumOf([w \in DOMAIN results |-> results[w].count.errors])
      /\ summary.count.samples = SumOf([w \in ok |-> results[w].count.samples])
      /\ summary.count.samples <= summary.count.ops - summary.count.errors
      /\ summary.workers = Cardinality(DOMAIN results) =>
           summary.count.errors = 0 /\ summary.count.samples = summary.count.ops
  BY <1>1, CountsOfReports
<1> QED BY <1>4, <1>5, <1>6, <1>7 DEF WindowIsShared

(* Whichever workers were recorded before the job was over, the summary is *)
(* over the shortest time that a contributor reports, flagged when that is *)
(* nothing and there are several; its operations and errors are the sums   *)
(* over all recorded workers, failed ones included, its samples the sum    *)
(* over those that succeeded: compute_effective_window_ms and aggregate.   *)
THEOREM TheWindowIsShared == Spec => []WindowIsShared
<1>1. Init => MeasureType /\ WorkersOK /\ ResultsOK
  BY InitTypes, InitWorkers, InitResults
<1>2. MeasureType /\ WorkersOK /\ ResultsOK /\ [Next]_vars => MeasureType' /\ WorkersOK' /\ ResultsOK'
  BY NextTypes, NextWorkers, NextResults
<1>3. MeasureType /\ WorkersOK /\ ResultsOK => WindowIsShared
  BY InvSharesTheWindow
<1> QED BY <1>1, <1>2, <1>3, PTL DEF Spec
=============================================================================
