--------------------------- MODULE ReputationProofs ---------------------------
(***************************************************************************)
(* Proofs about Reputation, for any number of workers, users, messages,    *)
(* half-lives and crashes and for any strategy: types, what the thresholds *)
(* make of scores, and what a violation leaves in the score of its author. *)
(***************************************************************************)
EXTENDS Reputation, TLAPS, FiniteSetTheorems, WellFoundedInduction

-------------------------------------------------------------------------------
(* Induction over numbers and sets, and sums over sets (MapThenSumSet).    *)

\* A set of numbers that holds 0, and each number that follows one it holds, holds all.
LEMMA Induction ==
  ASSUME NEW S \in SUBSET Nat, 0 \in S, \A n \in S : n + 1 \in S
  PROVE  S = Nat
<1>1. SUFFICES ASSUME Nat \ S # {} PROVE FALSE
  OBVIOUS
<1>2. IsWellFoundedOn(OpToRel(<, Nat), Nat)
  BY NatLessThanWellFounded
<1>3. PICK n \in Nat \ S : \A k \in Nat \ S : <<k, n>> \notin OpToRel(<, Nat)
  BY <1>1, <1>2, WFMin
<1>4. \A k \in Nat \ S : ~(k < n)
  BY <1>3 DEF OpToRel
<1>5. n # 0
  OBVIOUS
<1>6. n - 1 \in Nat /\ n - 1 < n
  BY <1>5
<1>7. n - 1 \in S
  BY <1>4, <1>6
<1>8. (n - 1) + 1 \in S
  BY <1>7
<1>. QED
  BY <1>8

\* A set of subsets that holds every set whose smaller parts it holds holds them all.
LEMMA SetInduction ==
  ASSUME NEW S, IsFiniteSet(S), NEW F,
         \A T \in SUBSET S : (\A x \in T : T \ {x} \in F) => T \in F
  PROVE  \A T \in SUBSET S : T \in F
<1>. DEFINE Bad == {T \in SUBSET S : T \notin F}
<1>1. SUFFICES ASSUME Bad # {} PROVE FALSE
  OBVIOUS
<1>2. Bad \subseteq FiniteSubsetsOf(S)
  BY FS_FiniteSubsetsOfFinite
<1>3. PICK M \in Bad : \A T \in Bad : <<T, M>> \notin StrictSubsetOrdering(S)
  <2>. HIDE DEF Bad
  <2>. QED
    BY <1>1, <1>2, FS_StrictSubsetOrderingWellFounded, WFMin
<1>4. ASSUME NEW x \in M PROVE M \ {x} \in F
  <2>1. M \in SUBSET S /\ M \ {x} \in SUBSET S /\ M \ {x} \subseteq M /\ M \ {x} # M
    OBVIOUS
  <2>2. <<M \ {x}, M>> \in StrictSubsetOrdering(S)
    BY <2>1 DEF StrictSubsetOrdering
  <2>. QED
    BY <1>3, <2>1, <2>2
<1>. QED
  BY <1>3, <1>4

\* The first element of a set, in the order in which it is summed up.
First(T) == CHOOSE x \in T : TRUE

LEMMA FirstFacts == ASSUME NEW T, T # {} PROVE First(T) \in T
BY DEF First

\* h is the sum of f over the subsets of S.
Adds(h, f, S) ==
  h = [T \in SUBSET S |-> IF T = {} THEN 0 ELSE f[First(T)] + h[T \ {First(T)}]]

LEMMA AddsFacts ==
  ASSUME NEW S, NEW f, NEW h, Adds(h, f, S)
  PROVE  /\ h[{}] = 0
         /\ \A T \in SUBSET S : T # {} => h[T] = f[First(T)] + h[T \ {First(T)}]
<1>1. {} \in SUBSET S
  OBVIOUS
<1>. QED
  BY <1>1 DEF Adds

\* There is one: the sums of the sets of up to n elements, for every n.
LEMMA AddsExists ==
  ASSUME NEW S, IsFiniteSet(S), NEW f
  PROVE  \E h : Adds(h, f, S)
<1>. DEFINE Small(n) == {T \in SUBSET S : Cardinality(T) <= n}
            Right(h, T) == h[T] = IF T = {} THEN 0 ELSE f[First(T)] + h[T \ {First(T)}]
            N == {n \in Nat : \E h : \A T \in Small(n) : Right(h, T)}
<1>1. \A T \in SUBSET S : IsFiniteSet(T) /\ Cardinality(T) \in Nat
  BY FS_Subset, FS_CardinalityType
<1>2. 0 \in N
  <2>1. \A T \in Small(0) : T = {}
    BY <1>1, FS_EmptySet
  <2>2. \A T \in Small(0) : Right([T2 \in SUBSET S |-> 0], T)
    BY <2>1
  <2>. QED
    BY <2>2
<1>3. ASSUME NEW n \in N PROVE n + 1 \in N
  <2>1. PICK h : \A T \in Small(n) : Right(h, T)
    OBVIOUS
  <2>. DEFINE g == [T \in SUBSET S |-> IF T = {} THEN 0 ELSE f[First(T)] + h[T \ {First(T)}]]
  <2>2. ASSUME NEW T \in Small(n + 1), T # {}
        PROVE  T \ {First(T)} \in Small(n)
    <3>1. First(T) \in T
      BY <2>2, FirstFacts
    <3>2. Cardinality(T \ {First(T)}) = Cardinality(T) - 1
      BY <1>1, <3>1, FS_RemoveElement
    <3>. QED
      BY <1>1, <3>2
  <2>3. ASSUME NEW T \in Small(n) PROVE g[T] = h[T]
    BY <2>1
  <2>4. ASSUME NEW T \in Small(n + 1) PROVE Right(g, T)
    <3>1. T \in SUBSET S
      OBVIOUS
    <3>2. g[T] = IF T = {} THEN 0 ELSE f[First(T)] + h[T \ {First(T)}]
      BY <3>1
    <3>3. T # {} => g[T \ {First(T)}] = h[T \ {First(T)}]
      <4>. HIDE DEF g, Small
      <4>. QED
        BY <2>2, <2>3
    <3>. HIDE DEF g
    <3>. QED
      BY <3>2, <3>3
  <2>5. \E k : \A T \in Small(n + 1) : Right(k, T)
    <3>. HIDE DEF g, Small, Right
    <3>. QED
      BY <2>4
  <2>6. n + 1 \in Nat
    OBVIOUS
  <2>. HIDE DEF Small, Right
  <2>. QED
    BY <2>5, <2>6
<1>4. N = Nat
  <2>. HIDE DEF N
  <2>1. N \in SUBSET Nat
    BY DEF N
  <2>. QED
    BY <1>2, <1>3, <2>1, Induction
<1>5. Cardinality(S) \in N
  BY <1>1, <1>4
<1>6. PICK h : \A T \in Small(Cardinality(S)) : Right(h, T)
  BY <1>5
<1>7. \A T \in SUBSET S : T \in Small(Cardinality(S))
  BY <1>1, FS_Subset
<1>. DEFINE g == [T \in SUBSET S |-> h[T]]
<1>8. ASSUME NEW T \in SUBSET S PROVE Right(g, T)
  <2>1. Right(h, T)
    BY <1>6, <1>7
  <2>2. g[T] = h[T] /\ g[T \ {First(T)}] = h[T \ {First(T)}]
    OBVIOUS
  <2>. QED
    BY <2>1, <2>2
<1>9. g = [T \in SUBSET S |-> g[T]]
  OBVIOUS
<1>. HIDE DEF g
<1>10. g = [T \in SUBSET S |-> IF T = {} THEN 0 ELSE f[First(T)] + g[T \ {First(T)}]]
  BY <1>8, <1>9
<1>. QED
  BY <1>10 DEF Adds

\* f is a number, and f and e are the same, on all of S.
Numbers(f, S) == \A x \in S : f[x] \in Nat
Equal(f, e, S) == \A x \in S : f[x] = e[x]

\* Sums are numbers, and do not depend on the set they are taken in.
LEMMA AddsAgree ==
  ASSUME NEW S, IsFiniteSet(S), NEW R \in SUBSET S, NEW f, NEW e,
         Numbers(f, R), Equal(e, f, R), NEW h, Adds(h, f, S), NEW g, Adds(g, e, R)
  PROVE  \A T \in SUBSET R : h[T] \in Nat /\ g[T] = h[T]
<1>. DEFINE F == {T \in SUBSET R : h[T] \in Nat /\ g[T] = h[T]}
<1>1. IsFiniteSet(R)
  BY FS_Subset
<1>2. ASSUME NEW T \in SUBSET R, \A x \in T : T \ {x} \in F PROVE T \in F
  <2>1. CASE T = {}
    BY <2>1, AddsFacts
  <2>2. CASE T # {}
    <3>1. First(T) \in T /\ T \in SUBSET S
      BY <2>2, FirstFacts
    <3>2. /\ h[T] = f[First(T)] + h[T \ {First(T)}]
          /\ g[T] = e[First(T)] + g[T \ {First(T)}]
      BY <2>2, <3>1, AddsFacts
    <3>. QED
      BY <1>2, <3>1, <3>2 DEF Numbers, Equal
  <2>. QED
    BY <2>1, <2>2
<1>3. \A T \in SUBSET R : T \in F
  <2>. HIDE DEF F
  <2>. QED
    BY <1>1, <1>2, SetInduction
<1>. QED
  BY <1>3

\* Sums of numbers are numbers.
LEMMA AddsNumber ==
  ASSUME NEW S, IsFiniteSet(S), NEW f, Numbers(f, S), NEW h, Adds(h, f, S)
  PROVE  \A T \in SUBSET S : h[T] \in Nat
<1>1. S \in SUBSET S /\ Equal(f, f, S)
  BY DEF Equal
<1>. QED
  BY <1>1, AddsAgree

\* The sum of a set is that of all but one, and the one, whichever that is.
AnyLast(h, f, S) == \A T \in SUBSET S : \A x \in T : h[T] = f[x] + h[T \ {x}]

LEMMA AddsAny ==
  ASSUME NEW S, IsFiniteSet(S), NEW f, Numbers(f, S), NEW h, Adds(h, f, S)
  PROVE  AnyLast(h, f, S)
<1>. DEFINE F == {T \in SUBSET S : \A x \in T : h[T] = f[x] + h[T \ {x}]}
<1>0. \A T \in SUBSET S : h[T] \in Nat
  BY AddsNumber
<1>1. ASSUME NEW T \in SUBSET S, \A x \in T : T \ {x} \in F PROVE T \in F
  <2>1. ASSUME NEW x \in T PROVE h[T] = f[x] + h[T \ {x}]
    <3>. DEFINE c == First(T)
    <3>1. c \in T /\ h[T] = f[c] + h[T \ {c}]
      BY <2>1, FirstFacts, AddsFacts
    <3>. HIDE DEF c
    <3>2. CASE x = c
      BY <3>1, <3>2
    <3>3. CASE x # c
      <4>1. x \in T \ {c} /\ c \in T \ {x} /\ (T \ {c}) \ {x} = (T \ {x}) \ {c}
        BY <3>1, <3>3
      <4>2. h[T \ {c}] = f[x] + h[(T \ {c}) \ {x}]
        BY <1>1, <3>1, <4>1
      <4>3. h[T \ {x}] = f[c] + h[(T \ {x}) \ {c}]
        BY <1>1, <4>1
      <4>4. h[(T \ {x}) \ {c}] \in Nat /\ f[x] \in Nat /\ f[c] \in Nat
        BY <1>0, <3>1 DEF Numbers
      <4>. DEFINE r == h[(T \ {x}) \ {c}]
      <4>5. h[T] = f[c] + (f[x] + r) /\ h[T \ {x}] = f[c] + r
        BY <3>1, <4>1, <4>2, <4>3
      <4>. HIDE DEF r
      <4>6. h[T] = f[x] + (f[c] + r)
        BY <4>4, <4>5 DEF r
      <4>. QED
        BY <4>5, <4>6
    <3>. QED
      BY <3>2, <3>3
  <2>. QED
    BY <2>1
<1>2. \A T \in SUBSET S : T \in F
  <2>. HIDE DEF F
  <2>. QED
    BY <1>1, SetInduction
<1>. QED
  BY <1>2 DEF AnyLast

\* The sum of f over S.
Total(f, S) == (CHOOSE h : Adds(h, f, S))[S]

LEMMA TotalAdds ==
  ASSUME NEW S, IsFiniteSet(S), NEW f
  PROVE  \E h : Adds(h, f, S) /\ Total(f, S) = h[S]
<1>1. Adds(CHOOSE h : Adds(h, f, S), f, S)
  BY AddsExists
<1>. QED
  BY <1>1 DEF Total

\* More terms, more in total.
LEMMA TotalGrows ==
  ASSUME NEW S, IsFiniteSet(S), NEW R \in SUBSET S, NEW f, NEW e,
         Numbers(f, S), Equal(e, f, R)
  PROVE  /\ Total(e, R) \in Nat /\ Total(f, S) \in Nat
         /\ Total(e, R) <= Total(f, S)
         /\ \A x \in S \ R : Total(e, R) + f[x] <= Total(f, S)
<1>1. IsFiniteSet(R)
  BY FS_Subset
<1>2. PICK h : Adds(h, f, S) /\ Total(f, S) = h[S]
  BY TotalAdds
<1>3. PICK g : Adds(g, e, R) /\ Total(e, R) = g[R]
  BY <1>1, TotalAdds
<1>4. g[R] = h[R]
  <2>1. Numbers(f, R) /\ R \in SUBSET R
    BY DEF Numbers
  <2>. QED
    BY <1>2, <1>3, <2>1, AddsAgree
<1>5. /\ \A T \in SUBSET S : h[T] \in Nat
      /\ \A T \in SUBSET S : \A x \in T : h[T] = f[x] + h[T \ {x}]
  <2>1. \A T \in SUBSET S : h[T] \in Nat
    BY <1>2, AddsNumber
  <2>2. \A T \in SUBSET S : \A x \in T : h[T] = f[x] + h[T \ {x}]
    <3>1. AnyLast(h, f, S)
      BY <1>2, AddsAny
    <3>. QED
      BY <3>1 DEF AnyLast
  <2>. QED
    BY <2>1, <2>2
<1>6. ASSUME NEW Q \in SUBSET S PROVE h[Q] <= h[S]
  <2>. DEFINE F == {T \in SUBSET S : Q \subseteq T => h[Q] <= h[T]}
  <2>1. ASSUME NEW T \in SUBSET S, \A x \in T : T \ {x} \in F PROVE T \in F
    <3>1. CASE T = Q
      BY <1>5, <3>1
    <3>2. CASE ~(Q \subseteq T)
      BY <3>2
    <3>3. CASE Q \subseteq T /\ T # Q
      <4>1. PICK x \in T : x \notin Q
        BY <3>3
      <4>2. h[Q] <= h[T \ {x}]
        BY <2>1, <3>3, <4>1
      <4>3. h[T] = f[x] + h[T \ {x}] /\ f[x] \in Nat /\ h[T \ {x}] \in Nat /\ h[Q] \in Nat
        BY <1>5 DEF Numbers
      <4>4. h[Q] <= h[T]
        BY <4>2, <4>3
      <4>. QED
        BY <4>4
    <3>. QED
      BY <3>1, <3>2, <3>3
  <2>2. \A T \in SUBSET S : T \in F
    <3>. HIDE DEF F
    <3>. QED
      BY <2>1, SetInduction
  <2>. QED
    BY <2>2
<1>7. ASSUME NEW x \in S \ R PROVE h[R] + f[x] <= h[S]
  <2>1. R \cup {x} \in SUBSET S /\ x \in R \cup {x} /\ (R \cup {x}) \ {x} = R
    OBVIOUS
  <2>2. h[R \cup {x}] = f[x] + h[R]
    BY <1>5, <2>1
  <2>3. h[R \cup {x}] <= h[S]
    BY <1>6, <2>1
  <2>4. h[R] \in Nat /\ h[S] \in Nat /\ f[x] \in Nat
    BY <1>5 DEF Numbers
  <2>. QED
    BY <2>2, <2>3, <2>4
<1>. QED
  BY <1>2, <1>3, <1>4, <1>5, <1>6, <1>7

\* Twice the terms, twice the total.
LEMMA TotalDoubles ==
  ASSUME NEW S, IsFiniteSet(S), NEW f, NEW e,
         \A x \in S : e[x] \in Nat /\ f[x] = 2 * e[x]
  PROVE  Total(f, S) = 2 * Total(e, S) /\ Total(e, S) \in Nat
<1>1. PICK h : Adds(h, f, S) /\ Total(f, S) = h[S]
  BY TotalAdds
<1>2. PICK g : Adds(g, e, S) /\ Total(e, S) = g[S]
  BY TotalAdds
<1>3. \A T \in SUBSET S : g[T] \in Nat
  <2>1. Numbers(e, S)
    BY DEF Numbers
  <2>. QED
    BY <1>2, <2>1, AddsNumber
<1>. DEFINE F == {T \in SUBSET S : h[T] = 2 * g[T]}
<1>4. ASSUME NEW T \in SUBSET S, \A x \in T : T \ {x} \in F PROVE T \in F
  <2>1. CASE T = {}
    BY <1>1, <1>2, <2>1, AddsFacts
  <2>2. CASE T # {}
    <3>. DEFINE c == First(T)
    <3>1. c \in T
      BY <2>2, FirstFacts
    <3>2. h[T] = f[c] + h[T \ {c}] /\ g[T] = e[c] + g[T \ {c}]
      BY <1>1, <1>2, <2>2, AddsFacts
    <3>. HIDE DEF c
    <3>3. h[T \ {c}] = 2 * g[T \ {c}] /\ f[c] = 2 * e[c]
      BY <1>4, <3>1
    <3>4. e[c] \in Nat /\ g[T \ {c}] \in Nat
      BY <1>3, <3>1
    <3>5. h[T] = 2 * g[T]
      BY <3>2, <3>3, <3>4
    <3>. QED
      BY <3>5
  <2>. QED
    BY <2>1, <2>2
<1>5. \A T \in SUBSET S : T \in F
  <2>. HIDE DEF F
  <2>. QED
    BY <1>4, SetInduction
<1>. QED
  BY <1>1, <1>2, <1>3, <1>5

-------------------------------------------------------------------------------
(* Powers and halves.                                                      *)

LEMMA ProductGrows ==
  ASSUME NEW k \in Nat, NEW a \in Int, NEW b \in Int, a <= b
  PROVE  k * a <= k * b
  OBVIOUS

LEMMA ProductType ==
  ASSUME NEW a \in Int, NEW b \in Int
  PROVE  a * b \in Int
  OBVIOUS

LEMMA Cancel ==
  ASSUME NEW f \in Nat \ {0}, NEW c \in Int, NEW d \in Int, c * f <= d * f
  PROVE  c <= d
<1>1. SUFFICES ASSUME c > d PROVE FALSE
  OBVIOUS
<1>2. f * (d + 1) <= f * c
  BY <1>1, ProductGrows
<1>3. f * (d + 1) = d * f + f
  OBVIOUS
<1>4. c * f = f * c /\ c * f \in Int /\ d * f \in Int
  OBVIOUS
<1>5. QED
  BY <1>2, <1>3, <1>4

\* By induction: PowersOfTwo says how one power follows from the one before.
LEMMA PowersArePositive == \A n \in 0..MaxTime : 2^n \in Nat \ {0}
<1>. DEFINE N == {n \in Nat : n <= MaxTime => 2^n \in Nat \ {0}}
<1>1. 0 \in N
  BY PowersOfTwo
<1>2. ASSUME NEW n \in N PROVE n + 1 \in N
  <2>1. CASE n + 1 <= MaxTime
    <3>. DEFINE p == 2^n
                q == 2^(n + 1)
    <3>1. n \in 0..MaxTime /\ n <= MaxTime
      BY <2>1, ConstantsAssumption
    <3>2. p \in Nat \ {0} /\ q = 2 * p
      BY <3>1, PowersOfTwo
    <3>. HIDE DEF p, q
    <3>3. q \in Nat \ {0}
      BY <3>2
    <3>. QED
      BY <3>3 DEF q
  <2>2. CASE ~(n + 1 <= MaxTime)
    BY <2>2
  <2>. QED
    BY <2>1, <2>2
<1>3. N = Nat
  <2>1. N \in SUBSET Nat
    OBVIOUS
  <2>. HIDE DEF N
  <2>. QED
    BY <1>1, <1>2, <2>1, Induction
<1>. QED
  BY <1>3, ConstantsAssumption

LEMMA PowersGrow ==
  ASSUME NEW i \in 0..MaxTime, NEW j \in 0..MaxTime, i <= j
  PROVE  2^i <= 2^j
<1>. DEFINE N == {n \in Nat : i <= n /\ n <= MaxTime => 2^i <= 2^n}
<1>1. 0 \in N
  <2>1. ASSUME i <= 0 PROVE 2^i <= 2^0
    <3>1. i = 0 /\ 2^0 = 1
      BY <2>1, PowersOfTwo
    <3>2. 2^i = 1
      BY <3>1
    <3>. QED
      BY <3>1, <3>2
  <2>. QED
    BY <2>1
<1>2. ASSUME NEW n \in N PROVE n + 1 \in N
  <2>1. CASE i <= n /\ n + 1 <= MaxTime
    <3>. DEFINE p == 2^n
                q == 2^(n + 1)
                r == 2^i
    <3>1. n \in 0..MaxTime /\ n <= MaxTime
      BY <2>1, ConstantsAssumption
    <3>2. p \in Nat \ {0} /\ q = 2 * p /\ r <= p /\ r \in Nat
      BY <2>1, <3>1, PowersOfTwo, PowersArePositive
    <3>. HIDE DEF p, q, r
    <3>3. r <= q
      BY <3>2
    <3>. QED
      BY <3>3 DEF q, r
  <2>2. CASE i = n + 1
    <3>1. 2^i \in Nat
      BY PowersArePositive
    <3>. QED
      BY <2>2, <3>1
  <2>3. CASE ~(i <= n + 1 /\ n + 1 <= MaxTime)
    BY <2>3
  <2>. QED
    BY <2>1, <2>2, <2>3
<1>3. N = Nat
  <2>1. N \in SUBSET Nat
    OBVIOUS
  <2>. HIDE DEF N
  <2>. QED
    BY <1>1, <1>2, <2>1, Induction
<1>. QED
  BY <1>3, ConstantsAssumption

LEMMA QuotientGrows ==
  ASSUME NEW a \in Nat, NEW b \in Nat, NEW p \in Nat \ {0}, NEW q \in Nat \ {0},
         a <= b, q <= p
  PROVE  a \div p <= b \div q
<1>. DEFINE x == a \div p
            y == b \div q
<1>1. x \in Nat /\ y \in Nat /\ p * x <= a /\ b < q * (y + 1)
  OBVIOUS
<1>. HIDE DEF x, y
<1>2. ASSUME y + 1 <= x PROVE FALSE
  <2>1. q * (y + 1) <= q * x
    BY <1>1, <1>2, ProductGrows
  <2>2. x * q <= x * p
    BY <1>1, ProductGrows
  <2>3. q * x = x * q /\ x * p = p * x
    BY <1>1
  <2>4. q * (y + 1) \in Int /\ q * x \in Int /\ x * p \in Int
    BY <1>1
  <2>. QED
    BY <1>1, <2>1, <2>2, <2>3, <2>4
<1>. QED
  BY <1>1, <1>2 DEF x, y

\* Division without a remainder.
LEMMA ExactQuotient ==
  ASSUME NEW p \in Nat \ {0}, NEW k \in Nat, NEW a \in Nat, a = p * k
  PROVE  a \div p = k
<1>. DEFINE x == a \div p
<1>1. x \in Nat /\ p * x <= a /\ a < p * (x + 1)
  OBVIOUS
<1>. HIDE DEF x
<1>2. x <= k
  <2>1. x * p <= k * p
    BY <1>1
  <2>. QED
    BY <1>1, <2>1, Cancel
<1>3. ASSUME x + 1 <= k PROVE FALSE
  <2>1. p * (x + 1) <= p * k
    BY <1>1, <1>3, ProductGrows
  <2>2. p * (x + 1) \in Int /\ p * k \in Int
    BY <1>1
  <2>. QED
    BY <1>1, <2>1, <2>2
<1>. QED
  BY <1>1, <1>2, <1>3 DEF x

LEMMA DecayedType ==
  ASSUME NEW worth \in Nat, NEW elapsed \in 0..MaxTime
  PROVE  Decayed(worth, elapsed) \in Nat
<1>1. 2^elapsed \in Nat \ {0}
  BY PowersArePositive
<1> DEFINE p == 2^elapsed
<1> HIDE DEF p
<1>2. p \in Nat \ {0} /\ Decayed(worth, elapsed) = worth \div p
  BY <1>1 DEF p, Decayed
<1>3. QED
  BY <1>2

\* A greater score that fades for a shorter time stays greater.
LEMMA DecayedLess ==
  ASSUME NEW a \in Nat, NEW b \in Nat, a <= b,
         NEW i \in 0..MaxTime, NEW j \in 0..MaxTime, i <= j
  PROVE  Decayed(a, j) <= Decayed(b, i)
<1>. DEFINE p == 2^j
            q == 2^i
<1>1. p \in Nat \ {0} /\ q \in Nat \ {0} /\ q <= p
  BY PowersArePositive, PowersGrow
<1>2. Decayed(a, j) = a \div p /\ Decayed(b, i) = b \div q
  BY DEF Decayed
<1>. HIDE DEF p, q
<1>. QED
  BY <1>1, <1>2, QuotientGrows

LEMMA DecayedNow ==
  ASSUME NEW a \in Nat
  PROVE  Decayed(a, 0) = a
<1>1. Decayed(a, 0) = a \div 1
  BY PowersOfTwo DEF Decayed
<1>. QED
  BY <1>1

\* A half-life takes at least half of a score ...
LEMMA DecayedHalves ==
  ASSUME NEW a \in Nat, NEW n \in Nat, n + 1 <= MaxTime
  PROVE  2 * Decayed(a, n + 1) <= Decayed(a, n)
<1>. DEFINE p == 2^n
            q == 2^(n + 1)
            x == a \div q
            y == a \div p
<1>1. n \in 0..MaxTime
  BY ConstantsAssumption
<1>2. p \in Nat \ {0} /\ q = 2 * p
  BY <1>1, PowersArePositive, PowersOfTwo
<1>3. Decayed(a, n + 1) = x /\ Decayed(a, n) = y
  BY DEF Decayed
<1>. HIDE DEF p, q
<1>4. q \in Nat \ {0}
  BY <1>2
<1>5. x \in Nat /\ y \in Nat /\ q * x <= a /\ a < p * (y + 1)
  BY <1>2, <1>4
<1>. HIDE DEF x, y
<1>6. q * x = p * (2 * x)
  BY <1>2, <1>5
<1>7. ASSUME y + 1 <= 2 * x PROVE FALSE
  <2>1. p * (y + 1) <= p * (2 * x)
    BY <1>2, <1>5, <1>7, ProductGrows
  <2>2. p * (y + 1) \in Int /\ p * (2 * x) \in Int
    BY <1>2, <1>5
  <2>. QED
    BY <1>5, <1>6, <2>1, <2>2
<1>. QED
  BY <1>3, <1>5, <1>7

\* By induction from HalvingIsExact downwards.
LEMMA UnitDivides ==
  ASSUME NEW n \in 0..MaxTime
  PROVE  \E k \in Nat : RiskUnit = 2^n * k
<1>. DEFINE Fits(l) == \E k \in Nat : RiskUnit = 2^l * k
            N == {d \in Nat : d <= MaxTime => Fits(MaxTime - d)}
<1>1. Fits(MaxTime)
  <2>. DEFINE p == 2^MaxTime
  <2>1. p \in Nat \ {0} /\ RiskUnit % p = 0 /\ RiskUnit \in Nat
    BY PowersArePositive, HalvingIsExact, RiskUnitAssumption, ConstantsAssumption
  <2>. HIDE DEF p
  <2>2. RiskUnit = p * (RiskUnit \div p) /\ RiskUnit \div p \in Nat
    BY <2>1
  <2>. QED
    BY <2>2 DEF p
<1>2. ASSUME NEW l \in 0..MaxTime, l + 1 <= MaxTime, Fits(l + 1) PROVE Fits(l)
  <2>. DEFINE p == 2^l
              q == 2^(l + 1)
  <2>1. PICK k \in Nat : RiskUnit = q * k
    BY <1>2
  <2>2. p \in Nat /\ q = 2 * p
    BY <1>2, PowersArePositive, PowersOfTwo
  <2>. HIDE DEF p, q
  <2>3. RiskUnit = p * (2 * k) /\ 2 * k \in Nat
    BY <2>1, <2>2
  <2>. QED
    BY <2>3 DEF p
<1>. HIDE DEF Fits
<1>3. 0 \in N
  <2>1. MaxTime - 0 = MaxTime
    BY ConstantsAssumption
  <2>. QED
    BY <1>1, <2>1
<1>4. ASSUME NEW d \in N PROVE d + 1 \in N
  <2>1. CASE d + 1 <= MaxTime
    <3>. DEFINE l == MaxTime - (d + 1)
    <3>1. d \in Nat /\ MaxTime \in Nat
      BY ConstantsAssumption
    <3>2. l \in 0..MaxTime /\ l + 1 = MaxTime - d /\ d <= MaxTime /\ l + 1 <= MaxTime
      BY <2>1, <3>1
    <3>3. Fits(l + 1)
      BY <3>2
    <3>4. Fits(l)
      <4>. HIDE DEF l
      <4>. QED
        BY <1>2, <3>2, <3>3
    <3>. QED
      BY <3>4
  <2>2. CASE ~(d + 1 <= MaxTime)
    <3>1. d + 1 \in Nat
      OBVIOUS
    <3>. QED
      BY <2>2, <3>1
  <2>. QED
    BY <2>1, <2>2
<1>5. N = Nat
  <2>1. N \in SUBSET Nat
    OBVIOUS
  <2>. HIDE DEF N
  <2>. QED
    BY <1>3, <1>4, <2>1, Induction
<1>6. MaxTime - n \in Nat /\ MaxTime - n <= MaxTime /\ MaxTime - (MaxTime - n) = n
  BY ConstantsAssumption
<1>7. MaxTime - n \in N
  <2>. HIDE DEF N
  <2>. QED
    BY <1>5, <1>6
<1>8. Fits(n)
  BY <1>6, <1>7
<1>. QED
  BY <1>8 DEF Fits

\* ... and exactly half of a fresh violation's mark.
LEMMA MarkHalves ==
  ASSUME NEW n \in Nat, n + 1 <= MaxTime
  PROVE  Decayed(RiskUnit, n) = 2 * Decayed(RiskUnit, n + 1)
<1>. DEFINE p == 2^n
            q == 2^(n + 1)
<1>1. n \in 0..MaxTime /\ n + 1 \in 0..MaxTime
  BY ConstantsAssumption
<1>2. p \in Nat \ {0} /\ q = 2 * p
  BY <1>1, PowersArePositive, PowersOfTwo
<1>3. PICK k \in Nat : RiskUnit = q * k
  BY <1>1, UnitDivides
<1>4. /\ Decayed(RiskUnit, n) = RiskUnit \div p
      /\ Decayed(RiskUnit, n + 1) = RiskUnit \div q
  BY DEF Decayed
<1>. HIDE DEF p, q
<1>5. RiskUnit = p * (2 * k) /\ q \in Nat \ {0}
  BY <1>2, <1>3
<1>6. RiskUnit \div p = 2 * k
  BY <1>2, <1>5, ExactQuotient
<1>7. RiskUnit \div q = k
  BY <1>3, <1>5, ExactQuotient
<1>. QED
  BY <1>4, <1>6, <1>7

-------------------------------------------------------------------------------
(* The policy.                                                             *)

LEMMA FullRiskType == FullRisk \in Nat \ {0}
  BY RiskUnitAssumption DEF FullRisk

\* A worse reputation never moves a threshold up.
LEMMA CutFalls ==
  ASSUME NEW threshold \in Nat, NEW strategy \in Strategies,
         NEW r \in Nat, NEW s \in Nat, r <= s
  PROVE  /\ Cut(threshold, strategy, r) \in Int
         /\ Cut(threshold, strategy, s) \in Int
         /\ Cut(threshold, strategy, s) <= Cut(threshold, strategy, r)
<1> DEFINE b == strategy.riskBonus
           x == AtMost(r, FullRisk)
           y == AtMost(s, FullRisk)
<1>1. b \in Nat /\ x \in Nat /\ y \in Nat /\ x <= y
  BY FullRiskType DEF AtMost, Strategies
<1>2. b * x <= b * y
  BY <1>1, ProductGrows
<1>3. b * x \in Int /\ b * y \in Int /\ threshold * FullRisk \in Int
  BY <1>1, FullRiskType, ProductType
<1> HIDE DEF b, x, y
<1>4. /\ Cut(threshold, strategy, r) = AtLeast(0, threshold * FullRisk - b * x)
      /\ Cut(threshold, strategy, s) = AtLeast(0, threshold * FullRisk - b * y)
  BY DEF Cut, b, x, y
<1>5. QED
  BY <1>2, <1>3, <1>4 DEF AtLeast

\* A higher score or a worse reputation never falls below a threshold again.
LEMMA ReachesGrows ==
  ASSUME NEW threshold \in Nat, NEW strategy \in Strategies,
         NEW c \in Nat, NEW d \in Nat, c <= d,
         NEW r \in Nat, NEW s \in Nat, r <= s,
         Reaches(c, threshold, strategy, r)
  PROVE  Reaches(d, threshold, strategy, s)
<1>1. /\ Cut(threshold, strategy, r) \in Int
      /\ Cut(threshold, strategy, s) \in Int
      /\ Cut(threshold, strategy, s) <= Cut(threshold, strategy, r)
  BY CutFalls
<1>2. FullRisk * c <= FullRisk * d
  BY FullRiskType, ProductGrows
<1>3. c * FullRisk \in Int /\ d * FullRisk \in Int /\ c * FullRisk <= d * FullRisk
  BY <1>2, FullRiskType, ProductType
<1>4. c * FullRisk >= Cut(threshold, strategy, r)
  BY DEF Reaches
<1>5. d * FullRisk >= Cut(threshold, strategy, s)
  BY <1>1, <1>3, <1>4
<1>6. QED
  BY <1>5 DEF Reaches

LEMMA FromScoreType ==
  ASSUME NEW c, NEW strategy, NEW r
  PROVE  FromScore(c, strategy, r) \in {"allow", "escalate", "delete"}
  BY DEF FromScore

\* The three-way threshold is monotone: a more toxic message, or one from a user with a
\* worse reputation, is never treated more mildly under the same strategy, whatever its
\* thresholds and bonus are, in whatever order (_from_score, thresholds_for).
THEOREM StricterNeverMilder ==
  ASSUME NEW strategy \in Strategies,
         NEW c \in Nat, NEW d \in Nat, c <= d,
         NEW r \in Nat, NEW s \in Nat, r <= s
  PROVE  Severity(FromScore(c, strategy, r)) <= Severity(FromScore(d, strategy, s))
<1> DEFINE Del(e, q) == Reaches(e, strategy.deleteThreshold, strategy, q)
           Esc(e, q) == Reaches(e, strategy.escalateThreshold, strategy, q)
<1>1. strategy.deleteThreshold \in Nat /\ strategy.escalateThreshold \in Nat
  BY DEF Strategies
<1>2. Del(c, r) => Del(d, s)
  BY <1>1, ReachesGrows
<1>3. Esc(c, r) => Esc(d, s)
  BY <1>1, ReachesGrows
<1>4. c # NoScore /\ d # NoScore
  BY DEF NoScore
<1> HIDE DEF Del, Esc
<1>5. /\ FromScore(c, strategy, r) = IF Del(c, r) THEN "delete"
                                     ELSE IF Esc(c, r) THEN "escalate" ELSE "allow"
      /\ FromScore(d, strategy, s) = IF Del(d, s) THEN "delete"
                                     ELSE IF Esc(d, s) THEN "escalate" ELSE "allow"
  BY <1>4 DEF FromScore, Del, Esc
<1>6. /\ Severity("allow") = 0 /\ Severity("escalate") = 1 /\ Severity("delete") = 2
  BY DEF Severity
<1>7. CASE Del(c, r)
  BY <1>2, <1>5, <1>6, <1>7
<1>8. CASE ~Del(c, r) /\ Esc(c, r)
  BY <1>3, <1>5, <1>6, <1>8
<1>9. CASE ~Del(c, r) /\ ~Esc(c, r)
  BY <1>5, <1>6, <1>9
<1>10. QED
  BY <1>7, <1>8, <1>9

\* What reaching a threshold takes: the threshold less the bonus in any case, and the
\* whole of it without a history.  Whoever has the threshold reaches it.
LEMMA ReachesBounds ==
  ASSUME NEW threshold \in Nat, NEW strategy \in Strategies, NEW c \in Nat, NEW r \in Nat
  PROVE  /\ Reaches(c, threshold, strategy, r) => c + strategy.riskBonus >= threshold
         /\ Reaches(c, threshold, strategy, r) /\ r = 0 => c >= threshold
         /\ c >= threshold => Reaches(c, threshold, strategy, r)
<1> DEFINE b == strategy.riskBonus
           x == AtMost(r, FullRisk)
           f == FullRisk
<1>1. b \in Nat /\ x \in Nat /\ x <= f /\ f \in Nat \ {0} /\ (r = 0 => x = 0)
  BY FullRiskType DEF AtMost, Strategies
<1>2. Reaches(c, threshold, strategy, r) <=> c * f >= AtLeast(0, threshold * f - b * x)
  BY DEF Reaches, Cut
<1> HIDE DEF b, x, f
<1>3. /\ c * f \in Int /\ threshold * f \in Int /\ b * x \in Int /\ b * f \in Int
      /\ b * x <= b * f /\ 0 <= b * x /\ 0 <= c * f
  <2>1. b * x <= b * f /\ b * 0 <= b * x /\ f * 0 <= f * c
    BY <1>1, ProductGrows
  <2>2. c * f \in Int /\ threshold * f \in Int /\ b * x \in Int /\ b * f \in Int
    BY <1>1, ProductType
  <2>3. b * 0 = 0 /\ f * 0 = 0 /\ f * c = c * f
    BY <1>1
  <2>4. QED
    BY <2>1, <2>2, <2>3
<1>4. ASSUME Reaches(c, threshold, strategy, r) PROVE c + b >= threshold
  <2>1. c * f >= threshold * f - b * x
    BY <1>2, <1>3, <1>4 DEF AtLeast
  <2>2. (c + b) * f = c * f + b * f
    BY <1>1
  <2>3. threshold * f <= (c + b) * f
    BY <2>1, <2>2, <1>3
  <2>4. QED
    BY <2>3, <1>1, Cancel
<1>5. ASSUME Reaches(c, threshold, strategy, r), r = 0 PROVE c >= threshold
  <2>1. c * f >= threshold * f - b * x
    BY <1>2, <1>3, <1>5 DEF AtLeast
  <2>2. b * x = 0
    BY <1>1, <1>5
  <2>3. threshold * f <= c * f
    BY <2>1, <2>2, <1>3
  <2>4. QED
    BY <2>3, <1>1, Cancel
<1>6. ASSUME c >= threshold PROVE Reaches(c, threshold, strategy, r)
  <2>1. f * threshold <= f * c
    BY <1>1, <1>6, ProductGrows
  <2>2. f * threshold = threshold * f /\ f * c = c * f
    BY <1>1
  <2>3. c * f >= AtLeast(0, threshold * f - b * x)
    BY <2>1, <2>2, <1>3 DEF AtLeast
  <2>4. QED
    BY <2>3, <1>2
<1>7. QED
  BY <1>4, <1>5, <1>6 DEF b

-------------------------------------------------------------------------------
(* The runs.                                                               *)

\* The record of every verdict, saved or not, is what the policy makes of the message
\* under the risk it was judged with.
ByPolicy(v, m) == v # Undecided => v.action = FromScore(Score[m], Strategy, v.risk)

Inductive ==
  /\ TypeOK
  /\ \A m \in Messages : ByPolicy(decision[m], m)
  /\ \A w \in Workers, m \in Messages : ByPolicy(verdict[w][m], m)

LEMMA TodayType ==
  ASSUME TypeOK, NEW u \in Users
  PROVE  Today(u) \in Nat
<1>1. score[u] \in Nat /\ time - updatedAt[u] \in 0..MaxTime
  BY ConstantsAssumption DEF TypeOK
<1>2. QED
  BY <1>1, DecayedType DEF Today

LEMMA TodayNext ==
  ASSUME TypeOK', NEW u \in Users
  PROVE  Today(u)' \in Nat
<1>1. score'[u] \in Nat /\ time' - updatedAt'[u] \in 0..MaxTime
  BY ConstantsAssumption DEF TypeOK
<1>2. Decayed(score'[u], time' - updatedAt'[u]) \in Nat
  BY <1>1, DecayedType
<1>. QED
  BY <1>2 DEF Today, Decayed

LEMMA UndecidedType == Undecided \in Verdict
  BY DEF Verdict

LEMMA JudgedRight ==
  ASSUME TypeOK, NEW w \in Workers, NEW m \in Messages
  PROVE  Judged(w)[m] \in Verdict /\ ByPolicy(Judged(w)[m], m)
<1>1. CASE m \notin batch[w]
  BY <1>1, UndecidedType DEF Judged, ByPolicy
<1>2. CASE m \in batch[w]
  <2> DEFINE r == risk[w][Author[m]]
             a == FromScore(Score[m], Strategy, r)
  <2>1. r \in Nat /\ time \in 0..MaxTime
    BY ConstantsAssumption DEF TypeOK
  <2>2. a \in {"allow", "escalate", "delete"}
    BY FromScoreType
  <2>3. Judged(w)[m] = [action |-> a, risk |-> r, at |-> time]
    BY <1>2 DEF Judged
  <2> HIDE DEF a, r
  <2>4. Judged(w)[m] \in Verdict
    BY <2>1, <2>2, <2>3 DEF Verdict
  <2>5. Judged(w)[m].action = a /\ Judged(w)[m].risk = r
    BY <2>3
  <2>6. a = FromScore(Score[m], Strategy, r)
    BY DEF a, r
  <2>7. QED
    BY <2>4, <2>5, <2>6 DEF ByPolicy
<1>3. QED
  BY <1>1, <1>2

LEMMA NothingByPolicy ==
  ASSUME NEW m \in Messages
  PROVE  Nothing[m] = Undecided /\ ByPolicy(Nothing[m], m)
  BY DEF Nothing, ByPolicy

LEMMA InitInductive == Init => Inductive
<1> SUFFICES ASSUME Init PROVE Inductive
  OBVIOUS
<1>1. Nothing \in [Messages -> Verdict]
  BY UndecidedType DEF Nothing
<1>2. TypeOK
  BY <1>1, ConstantsAssumption DEF Init, TypeOK
<1>3. \A m \in Messages : ByPolicy(decision[m], m)
  BY NothingByPolicy DEF Init
<1>4. \A w \in Workers, m \in Messages : ByPolicy(verdict[w][m], m)
  BY NothingByPolicy DEF Init
<1>5. QED
  BY <1>2, <1>3, <1>4 DEF Inductive

\* Dropping a batch touches nothing that is written down.
LEMMA DropKeepsTypes ==
  ASSUME Inductive, NEW w \in Workers, DropBatch(w)
  PROVE  /\ stage' \in [Workers -> {"idle", "judging", "saving"}]
         /\ batch' \in [Workers -> SUBSET Messages]
         /\ risk' \in [Workers -> [Users -> Nat]]
         /\ verdict' \in [Workers -> [Messages -> Verdict]]
         /\ \A v \in Workers, m \in Messages : ByPolicy(verdict'[v][m], m)
<1>1. Nothing \in [Messages -> Verdict]
  BY UndecidedType DEF Nothing
<1>2. verdict' \in [Workers -> [Messages -> Verdict]]
  BY <1>1 DEF DropBatch, Inductive, TypeOK
<1>3. \A v \in Workers : verdict'[v] = IF v = w THEN Nothing ELSE verdict[v]
  BY DEF DropBatch, Inductive, TypeOK
<1>4. \A v \in Workers, m \in Messages : ByPolicy(verdict'[v][m], m)
  BY <1>3, NothingByPolicy DEF Inductive
<1>5. [u \in Users |-> 0] \in [Users -> Nat]
  OBVIOUS
<1>6. QED
  BY <1>2, <1>4, <1>5 DEF DropBatch, Inductive, TypeOK

LEMMA NextInductive ==
  ASSUME Inductive, [Next]_vars
  PROVE  Inductive'
<1> USE ConstantsAssumption
<1>t. TypeOK
  BY DEF Inductive
<1>1. CASE Tick
  <2>1. TypeOK'
    BY <1>t, <1>1 DEF Tick, TypeOK
  <2>2. QED
    BY <2>1, <1>1 DEF Tick, Inductive, ByPolicy
<1>2. ASSUME NEW w \in Workers, Gather(w) PROVE Inductive'
  <2>1. PICK b \in SUBSET Messages :
          /\ batch' = [batch EXCEPT ![w] = b]
          /\ risk' = [risk EXCEPT ![w] = [u \in Users |->
                        IF \E m \in b : Author[m] = u THEN Today(u) ELSE 0]]
    BY <1>2 DEF Gather
  <2>2. [u \in Users |-> IF \E m \in b : Author[m] = u THEN Today(u) ELSE 0]
          \in [Users -> Nat]
    BY <1>t, TodayType
  <2>3. TypeOK'
    BY <1>t, <1>2, <2>1, <2>2 DEF Gather, TypeOK
  <2>4. QED
    BY <2>3, <1>2 DEF Gather, Inductive, ByPolicy
<1>3. ASSUME NEW w \in Workers, Finish(w) PROVE Inductive'
  <2>1. /\ \A u \in Users : NewScore(w, u) \in Nat
        /\ \A u \in Users : Stamped(u) \in 0..MaxTime /\ Stamped(u) <= time
    BY <1>t, RiskUnitAssumption DEF NewScore, Stamped, TypeOK
  <2>2. Judged(w) \in [Messages -> Verdict]
    BY <1>t, JudgedRight DEF Judged
  <2>3. score' \in [Users -> Nat]
    BY <1>t, <1>3, <2>1 DEF Finish, TypeOK
  <2>4. updatedAt' \in [Users -> 0..MaxTime] /\ \A u \in Users : updatedAt'[u] <= time
    BY <1>t, <1>3, <2>1 DEF Finish, TypeOK
  <2>5. verdict' \in [Workers -> [Messages -> Verdict]]
    BY <1>t, <1>3, <2>2 DEF Finish, TypeOK
  <2>6. TypeOK'
    BY <1>t, <1>3, <2>3, <2>4, <2>5 DEF Finish, TypeOK
  <2>7. \A v \in Workers : verdict'[v] = IF v = w THEN Judged(w) ELSE verdict[v]
    BY <1>t, <1>3 DEF Finish, TypeOK
  <2>8. \A v \in Workers, m \in Messages : ByPolicy(verdict'[v][m], m)
    BY <1>t, <2>7, JudgedRight DEF Inductive
  <2>9. \A m \in Messages : ByPolicy(decision'[m], m)
    BY <1>3 DEF Finish, Inductive
  <2>10. QED
    BY <2>6, <2>8, <2>9 DEF Inductive, ByPolicy
<1>4. ASSUME NEW w \in Workers, Save(w) PROVE Inductive'
  <2>1. \A m \in Messages : decision'[m] = verdict[w][m] \/ decision'[m] = decision[m]
    BY <1>4 DEF Save
  <2>2. decision' \in [Messages -> Verdict]
    BY <1>t, <1>4 DEF Save, TypeOK
  <2>3. \A m \in Messages : ByPolicy(decision'[m], m)
    BY <2>1 DEF Inductive
  <2>4. DropBatch(w)
    BY <1>4 DEF Save
  <2>5. TypeOK'
    BY <1>t, <1>4, <2>2, <2>4, DropKeepsTypes DEF Save, TypeOK
  <2>6. \A v \in Workers, m \in Messages : ByPolicy(verdict'[v][m], m)
    BY <2>4, DropKeepsTypes
  <2>7. QED
    BY <2>3, <2>5, <2>6 DEF Inductive, ByPolicy
<1>5. ASSUME NEW w \in Workers, Crash(w) PROVE Inductive'
  <2>1. DropBatch(w)
    BY <1>5 DEF Crash
  <2>2. TypeOK'
    BY <1>t, <1>5, <2>1, DropKeepsTypes DEF Crash, TypeOK
  <2>3. \A v \in Workers, m \in Messages : ByPolicy(verdict'[v][m], m)
    BY <2>1, DropKeepsTypes
  <2>4. \A m \in Messages : ByPolicy(decision'[m], m)
    BY <1>5 DEF Crash, Inductive
  <2>5. QED
    BY <2>2, <2>3, <2>4 DEF Inductive, ByPolicy
<1>6. CASE UNCHANGED vars
  <2>1. TypeOK'
    BY <1>t, <1>6 DEF vars, TypeOK
  <2>2. QED
    BY <2>1, <1>6 DEF vars, Inductive, ByPolicy
<1>7. QED
  BY <1>1, <1>2, <1>3, <1>4, <1>5, <1>6 DEF Next

\* Types, and every verdict is the policy's: whatever workers overlap or crash.
THEOREM PolicyIsFollowed == Spec => []Inductive
<1>1. Inductive /\ [Next]_vars => Inductive'
  BY NextInductive
<1>2. QED
  BY <1>1, InitInductive, PTL DEF Spec

\* Scores, stamps, risks and verdicts are what they should be: no reputation is negative
\* and none is stamped with a time to come (risk.py).
THEOREM TypeCorrect == Spec => []TypeOK
<1>1. Inductive => TypeOK
  BY DEF Inductive
<1>2. QED
  BY <1>1, PolicyIsFollowed, PTL

LEMMA DecisionsByPolicy ==
  ASSUME Inductive, NEW m \in Messages, Decided(m)
  PROVE  /\ decision[m].risk \in Nat
         /\ decision[m].action = FromScore(Score[m], Strategy, decision[m].risk)
<1>1. decision[m] \in Verdict /\ decision[m] # Undecided
  BY DEF Inductive, TypeOK, Decided
<1>2. decision[m].risk \in Nat
  BY <1>1 DEF Verdict
<1>3. QED
  BY <1>1, <1>2 DEF Inductive, ByPolicy

\* On record, a more toxic message from a user with a worse reputation is never treated
\* more mildly than another, whenever the two were judged and by whichever worker.
THEOREM RiskNeverHelpsAnyone == Spec => []RiskNeverHelps
<1>1. Inductive => RiskNeverHelps
  <2> SUFFICES ASSUME Inductive, NEW m \in Messages, NEW n \in Messages,
                      Decided(m), Decided(n), Score[m] # NoScore,
                      Score[m] <= Score[n], decision[m].risk <= decision[n].risk
               PROVE  Severity(decision[m].action) <= Severity(decision[n].action)
    BY DEF RiskNeverHelps
  <2>1. Score[m] \in Nat /\ Score[n] \in Nat /\ Strategy \in Strategies
    BY ConstantsAssumption DEF NoScore
  <2>2. /\ decision[m].risk \in Nat /\ decision[n].risk \in Nat
        /\ decision[m].action = FromScore(Score[m], Strategy, decision[m].risk)
        /\ decision[n].action = FromScore(Score[n], Strategy, decision[n].risk)
    BY DecisionsByPolicy
  <2>3. QED
    BY <2>1, <2>2, StricterNeverMilder
<1>2. QED
  BY <1>1, PolicyIsFollowed, PTL

\* On record, a history costs its user the strategy's bonus at most: nothing further
\* below the delete threshold is deleted, and nothing above the escalate threshold is
\* let through (thresholds_for, "up to the strategy's risk bonus").
THEOREM BonusBoundsStrictness == Spec => []StrictUpToBonus
<1>1. Inductive => StrictUpToBonus
  <2> SUFFICES ASSUME Inductive, NEW m \in Messages
               PROVE /\ decision[m].action = "delete" =>
                          /\ Score[m] + Strategy.riskBonus >= Strategy.deleteThreshold
                          /\ decision[m].risk = 0 => Score[m] >= Strategy.deleteThreshold
                     /\ decision[m].action = "allow" /\ Score[m] # NoScore =>
                          Score[m] < Strategy.escalateThreshold
    BY DEF StrictUpToBonus
  <2>1. CASE ~Decided(m)
    BY <2>1 DEF Decided, Undecided
  <2>2. CASE Decided(m)
    <3>1. /\ decision[m].risk \in Nat
          /\ decision[m].action = FromScore(Score[m], Strategy, decision[m].risk)
      BY <2>2, DecisionsByPolicy
    <3>2. CASE Score[m] = NoScore
      BY <3>1, <3>2 DEF FromScore
    <3>3. CASE Score[m] # NoScore
      <4>1. Score[m] \in Nat /\ Strategy \in Strategies
        BY <3>3, ConstantsAssumption
      <4>2. Strategy.deleteThreshold \in Nat /\ Strategy.escalateThreshold \in Nat
        BY <4>1 DEF Strategies
      <4>3. /\ decision[m].action = "delete" =>
                 Reaches(Score[m], Strategy.deleteThreshold, Strategy, decision[m].risk)
            /\ decision[m].action = "allow" =>
                 ~Reaches(Score[m], Strategy.escalateThreshold, Strategy, decision[m].risk)
        BY <3>1, <3>3 DEF FromScore
      <4>4. ASSUME decision[m].action = "delete"
            PROVE  /\ Score[m] + Strategy.riskBonus >= Strategy.deleteThreshold
                   /\ decision[m].risk = 0 => Score[m] >= Strategy.deleteThreshold
        BY <4>1, <4>2, <4>3, <4>4, <3>1, ReachesBounds
      <4>5. ASSUME decision[m].action = "allow"
            PROVE  Score[m] < Strategy.escalateThreshold
        <5>1. ~(Score[m] >= Strategy.escalateThreshold)
          BY <4>1, <4>2, <4>3, <4>5, <3>1, ReachesBounds
        <5>2. QED
          BY <5>1, <4>1, <4>2
      <4>6. QED
        BY <4>4, <4>5
    <3>4. QED
      BY <3>2, <3>3
  <2>3. QED
    BY <2>1, <2>2
<1>2. QED
  BY <1>1, PolicyIsFollowed, PTL

-------------------------------------------------------------------------------
(* What violations leave behind.                                           *)

\* The marks of all messages, as a function.
Marks == [m \in Messages |-> Mark(m)]

\* What a user has earned is the total of the marks of their violations.
LEMMA EarnedIsTotal ==
  ASSUME NEW u \in Users
  PROVE  Earned(u) = Total(Marks, Violations(u))
<1>. DEFINE V == Violations(u)
            Is(h) == h = [T \in SUBSET V |-> IF T = {} THEN 0
                            ELSE LET x == CHOOSE x \in T : TRUE IN Mark(x) + h[T \ {x}]]
<1>1. V \subseteq Messages
  BY DEF Violations
<1>2. IsFiniteSet(V)
  BY <1>1, ConstantsAssumption, FS_Subset
<1>. HIDE DEF V
<1>3. ASSUME NEW h PROVE Is(h) <=> Adds(h, Marks, V)
  <2>1. ASSUME NEW T \in SUBSET V, T # {} PROVE Marks[First(T)] = Mark(CHOOSE x \in T : TRUE)
    <3>1. First(T) \in Messages
      BY <1>1, <2>1, FirstFacts
    <3>. QED
      BY <3>1 DEF Marks, First
  <2>2. ASSUME NEW T \in SUBSET V
        PROVE  (IF T = {} THEN 0
                ELSE LET x == CHOOSE x \in T : TRUE IN Mark(x) + h[T \ {x}])
                 = (IF T = {} THEN 0 ELSE Marks[First(T)] + h[T \ {First(T)}])
    BY <2>1 DEF First
  <2>3. [T \in SUBSET V |-> IF T = {} THEN 0
             ELSE LET x == CHOOSE x \in T : TRUE IN Mark(x) + h[T \ {x}]]
          = [T \in SUBSET V |-> IF T = {} THEN 0 ELSE Marks[First(T)] + h[T \ {First(T)}]]
    BY <2>2
  <2>. QED
    BY <2>3 DEF Adds
<1>4. Earned(u) = (CHOOSE h : Is(h))[V]
  BY DEF Earned, MapThenSumSet, MapThenFoldSet, V
<1>5. (CHOOSE h : Is(h)) = CHOOSE h : Adds(h, Marks, V)
  <2>. HIDE DEF Is
  <2>. QED
    BY <1>3, Zenon
<1>. QED
  BY <1>4, <1>5 DEF Total, V

\* A message is in one pair of hands, and not on record while it is; only a batch that
\* is judged has verdicts.
InHand ==
  /\ \A v, w \in Workers : v # w => batch[v] \cap batch[w] = {}
  /\ \A w \in Workers : \A m \in batch[w] : decision[m] = Undecided
  /\ \A w \in Workers, m \in Messages :
       verdict[w][m] # Undecided => m \in batch[w] /\ stage[w] = "saving"
  /\ \A w \in Workers : stage[w] = "idle" => batch[w] = {}

LEMMA InHandStep ==
  ASSUME Inductive, InHand, [Next]_vars
  PROVE  InHand'
<1>t. TypeOK
  BY DEF Inductive
<1>1. CASE Tick \/ UNCHANGED vars
  BY <1>1 DEF Tick, vars, InHand
<1>2. ASSUME NEW w \in Workers, Gather(w) PROVE InHand'
  <2>1. PICK b \in SUBSET {m \in Messages : ~Decided(m)} :
          /\ \A v \in Workers : batch[v] \cap b = {}
          /\ batch' = [batch EXCEPT ![w] = b]
    BY <1>2 DEF Gather
  <2>2. /\ \A v \in Workers : batch'[v] = IF v = w THEN b ELSE batch[v]
        /\ \A v \in Workers : stage'[v] = IF v = w THEN "judging" ELSE stage[v]
        /\ verdict' = verdict /\ decision' = decision
    BY <1>t, <1>2, <2>1 DEF Gather, TypeOK
  <2>3. \A m \in b : decision[m] = Undecided
    BY DEF Decided
  <2>4. batch[w] = {}
    BY <1>2 DEF Gather, InHand
  <2>5. \A v, x \in Workers : v # x => batch'[v] \cap batch'[x] = {}
    BY <2>1, <2>2 DEF InHand
  <2>6. \A v \in Workers : \A m \in batch'[v] : decision'[m] = Undecided
    BY <2>2, <2>3 DEF InHand
  <2>7. \A v \in Workers, m \in Messages :
          verdict'[v][m] # Undecided => m \in batch'[v] /\ stage'[v] = "saving"
    BY <2>2, <2>4 DEF InHand
  <2>8. \A v \in Workers : stage'[v] = "idle" => batch'[v] = {}
    BY <2>2 DEF InHand
  <2>. QED
    BY <2>5, <2>6, <2>7, <2>8 DEF InHand
<1>3. ASSUME NEW w \in Workers, Finish(w) PROVE InHand'
  <2>1. /\ \A v \in Workers : verdict'[v] = IF v = w THEN Judged(w) ELSE verdict[v]
        /\ \A v \in Workers : stage'[v] = IF v = w THEN "saving" ELSE stage[v]
        /\ batch' = batch /\ decision' = decision
    BY <1>t, <1>3 DEF Finish, TypeOK
  <2>2. \A m \in Messages : Judged(w)[m] # Undecided => m \in batch[w]
    BY DEF Judged
  <2>3. \A v \in Workers, m \in Messages :
          verdict'[v][m] # Undecided => m \in batch'[v] /\ stage'[v] = "saving"
    BY <2>1, <2>2 DEF InHand
  <2>4. \A v \in Workers : stage'[v] = "idle" => batch'[v] = {}
    BY <2>1 DEF InHand
  <2>. QED
    BY <2>1, <2>3, <2>4 DEF InHand
<1>4. ASSUME NEW w \in Workers, DropBatch(w),
             \A m \in Messages \ batch[w] : decision'[m] = decision[m]
      PROVE  InHand'
  <2>1. /\ \A v \in Workers : batch'[v] = IF v = w THEN {} ELSE batch[v]
        /\ \A v \in Workers : stage'[v] = IF v = w THEN "idle" ELSE stage[v]
        /\ \A v \in Workers : verdict'[v] = IF v = w THEN Nothing ELSE verdict[v]
    BY <1>t, <1>4 DEF DropBatch, TypeOK
  <2>2. \A v, x \in Workers : v # x => batch'[v] \cap batch'[x] = {}
    BY <2>1 DEF InHand
  <2>3. ASSUME NEW v \in Workers, NEW m \in batch'[v] PROVE decision'[m] = Undecided
    <3>1. v # w /\ m \in batch[v] /\ m \in Messages
      BY <1>t, <2>1, <2>3 DEF TypeOK
    <3>2. m \notin batch[w]
      BY <3>1 DEF InHand
    <3>. QED
      BY <1>4, <3>1, <3>2 DEF InHand
  <2>4. \A v \in Workers, m \in Messages :
          verdict'[v][m] # Undecided => m \in batch'[v] /\ stage'[v] = "saving"
    BY <2>1, NothingByPolicy DEF InHand
  <2>5. \A v \in Workers : stage'[v] = "idle" => batch'[v] = {}
    BY <2>1 DEF InHand
  <2>. QED
    BY <2>2, <2>3, <2>4, <2>5 DEF InHand
<1>5. ASSUME NEW w \in Workers, Save(w) PROVE InHand'
  BY <1>4, <1>5 DEF Save
<1>6. ASSUME NEW w \in Workers, Crash(w) PROVE InHand'
  BY <1>4, <1>6 DEF Crash
<1>. QED
  BY <1>1, <1>2, <1>3, <1>5, <1>6 DEF Next

\* Whoever was condemned has at least one fresh violation's worth of score, stamped no
\* earlier than the verdict.
LeavesAMark(v, m) ==
  v.action = "delete" => RiskUnit <= score[Author[m]] /\ v.at <= updatedAt[Author[m]]

Noticed ==
  \A m \in Messages :
    LeavesAMark(decision[m], m) /\ \A w \in Workers : LeavesAMark(verdict[w][m], m)

LEMMA UndecidedLeavesNone ==
  ASSUME NEW m
  PROVE  LeavesAMark(Undecided, m) /\ LeavesAMark(Undecided, m)'
  BY DEF LeavesAMark, Undecided

LEMMA NoticedStep ==
  ASSUME Inductive, Noticed, [Next]_vars
  PROVE  Noticed'
<1>t. TypeOK
  BY DEF Inductive
<1>1. CASE UNCHANGED <<score, updatedAt, verdict, decision>>
  BY <1>1 DEF Noticed, LeavesAMark
<1>2. ASSUME NEW w \in Workers, Finish(w) PROVE Noticed'
  <2>1. /\ \A u \in Users : score'[u] = IF u \in Violators(w) THEN NewScore(w, u) ELSE score[u]
        /\ \A u \in Users : updatedAt'[u] = IF u \in Violators(w) THEN time ELSE updatedAt[u]
        /\ \A v \in Workers : verdict'[v] = IF v = w THEN Judged(w) ELSE verdict[v]
        /\ decision' = decision
    BY <1>t, <1>2 DEF Finish, TypeOK, Stamped
  <2>2. ASSUME NEW u \in Violators(w), u \in Users
        PROVE  RiskUnit <= score'[u] /\ updatedAt'[u] = time
    <3>1. risk[w][u] \in Nat /\ RiskUnit \in Nat
      BY <1>t, <2>2, RiskUnitAssumption DEF TypeOK
    <3>. QED
      BY <2>1, <2>2, <3>1 DEF NewScore
  <2>3. ASSUME NEW m \in Messages, NEW v, v \in Verdict, LeavesAMark(v, m)
        PROVE  v.action = "delete" =>
                 RiskUnit <= score'[Author[m]] /\ v.at <= updatedAt'[Author[m]]
    <3>1. Author[m] \in Users
      BY ConstantsAssumption
    <3>2. updatedAt[Author[m]] \in Nat /\ updatedAt[Author[m]] <= time /\ time \in Nat
      BY <1>t, <3>1, ConstantsAssumption DEF TypeOK
    <3>3. v.at \in Nat
      BY <2>3, ConstantsAssumption DEF Verdict, Undecided
    <3>. QED
      BY <2>1, <2>2, <2>3, <3>1, <3>2, <3>3 DEF LeavesAMark
  <2>4. ASSUME NEW m \in Messages, Judged(w)[m].action = "delete"
        PROVE  RiskUnit <= score'[Author[m]] /\ Judged(w)[m].at <= updatedAt'[Author[m]]
    <3>1. m \in batch[w]
      BY <2>4 DEF Judged, Undecided
    <3>2. Author[m] \in Violators(w) /\ Author[m] \in Users
      BY <2>4, <3>1, ConstantsAssumption DEF Violators
    <3>3. Judged(w)[m].at = time /\ time \in Nat
      BY <1>t, <3>1, ConstantsAssumption DEF Judged, TypeOK
    <3>. QED
      BY <2>2, <3>2, <3>3
  <2>5. ASSUME NEW m \in Messages PROVE LeavesAMark(decision[m], m)'
    <3>1. decision[m] \in Verdict /\ LeavesAMark(decision[m], m)
      BY <1>t DEF TypeOK, Noticed
    <3>. QED
      BY <2>1, <2>3, <3>1 DEF LeavesAMark
  <2>6. ASSUME NEW m \in Messages, NEW v \in Workers PROVE LeavesAMark(verdict[v][m], m)'
    <3>1. CASE v = w
      BY <2>1, <2>4, <3>1 DEF LeavesAMark
    <3>2. CASE v # w
      <4>1. verdict[v][m] \in Verdict /\ LeavesAMark(verdict[v][m], m)
        BY <1>t DEF TypeOK, Noticed
      <4>2. verdict'[v][m] = verdict[v][m]
        BY <2>1, <3>2
      <4>. QED
        BY <2>3, <4>1, <4>2 DEF LeavesAMark
    <3>. QED
      BY <3>1, <3>2
  <2>. QED
    BY <2>5, <2>6 DEF Noticed
<1>3. ASSUME NEW w \in Workers, DropBatch(w), UNCHANGED <<score, updatedAt>>,
             \A m \in Messages : decision'[m] \in {decision[m], verdict[w][m]}
      PROVE  Noticed'
  <2>1. \A v \in Workers : verdict'[v] = IF v = w THEN Nothing ELSE verdict[v]
    BY <1>t, <1>3 DEF DropBatch, TypeOK
  <2>2. ASSUME NEW m \in Messages PROVE LeavesAMark(decision[m], m)'
    BY <1>3 DEF Noticed, LeavesAMark
  <2>3. ASSUME NEW m \in Messages, NEW v \in Workers PROVE LeavesAMark(verdict[v][m], m)'
    <3>1. CASE v = w
      <4>1. verdict'[v][m] = Undecided
        BY <2>1, <3>1, NothingByPolicy
      <4>. QED
        BY <4>1 DEF LeavesAMark, Undecided
    <3>2. CASE v # w
      BY <1>3, <2>1, <3>2 DEF Noticed, LeavesAMark
    <3>. QED
      BY <3>1, <3>2
  <2>. QED
    BY <2>2, <2>3 DEF Noticed
<1>4. ASSUME NEW w \in Workers, Save(w) PROVE Noticed'
  BY <1>3, <1>4 DEF Save
<1>5. ASSUME NEW w \in Workers, Crash(w) PROVE Noticed'
  BY <1>3, <1>5 DEF Crash
<1>. QED
  BY <1>1, <1>2, <1>4, <1>5 DEF Next, Tick, Gather, vars

\* The ruling on a message is the one verdict there is.
OneRuling(m) ==
  InHand =>
    /\ \A w \in Workers : verdict[w][m] # Undecided => Ruling(m) = verdict[w][m]
    /\ (\A w \in Workers : verdict[w][m] = Undecided) => Ruling(m) = decision[m]

LEMMA RulingFacts ==
  ASSUME NEW m \in Messages
  PROVE  OneRuling(m)
<1>1. ASSUME InHand, NEW w \in Workers, verdict[w][m] # Undecided
      PROVE  Ruling(m) = verdict[w][m]
  <2>. DEFINE v == CHOOSE v \in Workers : verdict[v][m] # Undecided
  <2>1. v \in Workers /\ verdict[v][m] # Undecided
    BY <1>1
  <2>2. Ruling(m) = verdict[v][m]
    BY <1>1 DEF Ruling
  <2>. HIDE DEF v
  <2>3. v = w
    BY <1>1, <2>1 DEF InHand
  <2>. QED
    BY <2>2, <2>3
<1>2. ASSUME InHand, \A w \in Workers : verdict[w][m] = Undecided
      PROVE  Ruling(m) = decision[m]
  BY <1>2 DEF Ruling
<1>. QED
  BY <1>1, <1>2 DEF OneRuling

LEMMA RulingFactsNext ==
  ASSUME NEW m \in Messages
  PROVE  OneRuling(m)'
<1>1. OneRuling(m)
  BY RulingFacts
<1>. QED
  BY <1>1, PTL

\* Only finishing a batch changes a ruling, unless a worker dies.
LEMMA RulingsStay ==
  ASSUME TypeOK, InHand, InHand', NEW m \in Messages,
         UNCHANGED <<verdict, decision>> \/ \E w \in Workers : Save(w)
  PROVE  Ruling(m)' = Ruling(m)
<1>1. CASE UNCHANGED <<verdict, decision>>
  BY <1>1 DEF Ruling
<1>2. ASSUME NEW w \in Workers, Save(w) PROVE Ruling(m)' = Ruling(m)
  <2>1. /\ \A v \in Workers : verdict'[v][m] = IF v = w THEN Undecided ELSE verdict[v][m]
        /\ decision'[m] = IF m \in batch[w] THEN verdict[w][m] ELSE decision[m]
    BY <1>2, NothingByPolicy DEF Save, DropBatch, TypeOK
  <2>2. CASE m \in batch[w]
    <3>1. \A v \in Workers : v # w => verdict[v][m] = Undecided
      BY <2>2 DEF InHand
    <3>2. Ruling(m)' = verdict[w][m]
      BY <2>1, <2>2, <3>1, RulingFactsNext DEF OneRuling
    <3>3. decision[m] = Undecided
      BY <2>2 DEF InHand
    <3>4. Ruling(m) = verdict[w][m]
      BY <3>1, <3>3, RulingFacts DEF OneRuling
    <3>. QED
      BY <3>2, <3>4
  <2>3. CASE m \notin batch[w]
    <3>1. verdict[w][m] = Undecided
      BY <2>3 DEF InHand
    <3>2. decision'[m] = decision[m] /\ \A v \in Workers : verdict'[v][m] = verdict[v][m]
      BY <2>1, <2>3, <3>1
    <3>. QED
      BY <3>2, RulingFacts, RulingFactsNext DEF OneRuling
  <2>. QED
    BY <2>2, <2>3
<1>. QED
  BY <1>1, <1>2

LEMMA RulingsFinish ==
  ASSUME TypeOK, InHand, InHand', NEW w \in Workers, Finish(w), NEW m \in Messages
  PROVE  /\ m \notin batch[w] => Ruling(m)' = Ruling(m)
         /\ m \in batch[w] => Ruling(m) = Undecided /\ Ruling(m)' = Judged(w)[m]
<1>1. /\ \A v \in Workers : verdict'[v][m] = IF v = w THEN Judged(w)[m] ELSE verdict[v][m]
      /\ decision'[m] = decision[m] /\ stage[w] = "judging"
  BY DEF Finish, TypeOK
<1>2. verdict[w][m] = Undecided
  BY <1>1 DEF InHand
<1>3. CASE m \in batch[w]
  <2>1. decision[m] = Undecided /\ \A v \in Workers : verdict[v][m] = Undecided
    BY <1>2, <1>3 DEF InHand
  <2>2. Ruling(m) = Undecided
    BY <2>1, RulingFacts DEF OneRuling
  <2>3. Judged(w)[m] # Undecided
    <3>1. Judged(w)[m].action \in {"allow", "escalate", "delete"}
      BY <1>3, FromScoreType DEF Judged
    <3>. QED
      BY <3>1 DEF Undecided
  <2>4. Ruling(m)' = Judged(w)[m]
    BY <1>1, <2>3, RulingFactsNext DEF OneRuling
  <2>. QED
    BY <1>3, <2>2, <2>4
<1>4. CASE m \notin batch[w]
  <2>1. Judged(w)[m] = Undecided
    BY <1>4 DEF Judged
  <2>2. decision'[m] = decision[m] /\ \A v \in Workers : verdict'[v][m] = verdict[v][m]
    BY <1>1, <1>2, <2>1
  <2>. QED
    BY <1>4, <2>2, RulingFacts, RulingFactsNext DEF OneRuling
<1>. QED
  BY <1>3, <1>4

\* What a violation has left, and when.
LEMMA ViolationFacts ==
  ASSUME TypeOK, InHand, Noticed, NEW u \in Users, NEW m \in Violations(u)
  PROVE  /\ m \in Messages /\ Author[m] = u
         /\ time - Ruling(m).at \in 0..MaxTime
         /\ Mark(m) = Decayed(RiskUnit, time - Ruling(m).at) /\ Mark(m) \in Nat
         /\ RiskUnit <= score[u] /\ Ruling(m).at <= updatedAt[u] /\ Ruling(m).at \in Nat
<1>1. m \in Messages /\ Author[m] = u /\ Ruling(m).action = "delete"
  BY DEF Violations
<1>2. Ruling(m) \in Verdict /\ LeavesAMark(Ruling(m), m)
  <2>1. CASE \A w \in Workers : verdict[w][m] = Undecided
    BY <1>1, <2>1, RulingFacts DEF OneRuling, TypeOK, Noticed
  <2>2. CASE \E w \in Workers : verdict[w][m] # Undecided
    BY <1>1, <2>2, RulingFacts DEF OneRuling, TypeOK, Noticed
  <2>. QED
    BY <2>1, <2>2
<1>3. RiskUnit <= score[u] /\ Ruling(m).at <= updatedAt[u]
  BY <1>1, <1>2 DEF LeavesAMark
<1>4. Ruling(m).at \in Nat
  BY <1>2, ConstantsAssumption DEF Verdict, Undecided
<1>5. updatedAt[u] \in Nat /\ updatedAt[u] <= time /\ time \in Nat /\ time <= MaxTime
  BY ConstantsAssumption DEF TypeOK
<1>6. time - Ruling(m).at \in 0..MaxTime
  BY <1>3, <1>4, <1>5, ConstantsAssumption
<1>7. Mark(m) = Decayed(RiskUnit, time - Ruling(m).at)
  BY DEF Mark, Decayed
<1>8. Mark(m) \in Nat
  BY <1>6, <1>7, DecayedType, RiskUnitAssumption
<1>. QED
  BY <1>1, <1>3, <1>4, <1>6, <1>7, <1>8

\* No violation passes unnoticed.
LEMMA NoticedIsKnown ==
  ASSUME TypeOK, InHand, Noticed
  PROVE  OffendersAreKnown
<1>. SUFFICES ASSUME NEW u \in Users, NEW m \in Violations(u)
              PROVE  Mark(m) <= Today(u)
  BY DEF OffendersAreKnown
<1>1. /\ time - Ruling(m).at \in 0..MaxTime
      /\ Mark(m) = Decayed(RiskUnit, time - Ruling(m).at)
      /\ RiskUnit <= score[u] /\ Ruling(m).at <= updatedAt[u] /\ Ruling(m).at \in Nat
  BY ViolationFacts
<1>2. score[u] \in Nat /\ updatedAt[u] \in Nat /\ updatedAt[u] <= time /\ time \in 0..MaxTime
  BY ConstantsAssumption DEF TypeOK
<1>3. /\ time - updatedAt[u] \in 0..MaxTime
      /\ time - updatedAt[u] <= time - Ruling(m).at
  BY <1>1, <1>2, ConstantsAssumption
<1>4. Decayed(RiskUnit, time - Ruling(m).at) <= Decayed(score[u], time - updatedAt[u])
  BY <1>1, <1>2, <1>3, RiskUnitAssumption, DecayedLess
<1>. QED
  BY <1>1, <1>4 DEF Today

\* As long as nobody was killed: nobody's score is more than they have earned, and no
\* worker judges by more.
ReadIsEarned ==
  crashes = 0 =>
    \A u \in Users : /\ Today(u) <= Earned(u)
                     /\ \A w \in Workers : stage[w] = "judging" => risk[w][u] <= Earned(u)

LEMMA EarnedNext ==
  ASSUME NEW u \in Users
  PROVE  Earned(u)' = Total(Marks', Violations(u)')
<1>1. Earned(u) = Total(Marks, Violations(u))
  BY EarnedIsTotal
<1>2. (Earned(u) = Total(Marks, Violations(u)))'
  BY <1>1, PTL
<1>. QED
  BY <1>2

LEMMA ViolationsFinite ==
  ASSUME NEW u \in Users
  PROVE  IsFiniteSet(Violations(u)) /\ IsFiniteSet(Violations(u)')
<1>1. Violations(u) \subseteq Messages /\ Violations(u)' \subseteq Messages
  BY DEF Violations
<1>. QED
  BY <1>1, ConstantsAssumption, FS_Subset

LEMMA EarnedType ==
  ASSUME TypeOK, InHand, Noticed, NEW u \in Users
  PROVE  /\ Earned(u) \in Nat
         /\ Numbers(Marks, Violations(u))
<1>1. Numbers(Marks, Violations(u))
  BY ViolationFacts DEF Numbers, Marks
<1>2. Equal(Marks, Marks, Violations(u)) /\ Violations(u) \in SUBSET Violations(u)
  BY DEF Equal
<1>3. Total(Marks, Violations(u)) \in Nat
  BY <1>1, <1>2, ViolationsFinite, TotalGrows
<1>. QED
  BY <1>1, <1>3, EarnedIsTotal

\* A step that touches neither rulings nor time leaves to everyone what they have earned.
LEMMA EarnedStays ==
  ASSUME NEW u \in Users, time' = time, \A m \in Messages : Ruling(m)' = Ruling(m)
  PROVE  Earned(u)' = Earned(u)
<1>1. Violations(u)' = Violations(u)
  BY DEF Violations
<1>2. ASSUME NEW m \in Messages PROVE Mark(m)' = Mark(m)
  BY <1>2 DEF Mark
<1>3. Marks' = Marks
  BY <1>2 DEF Marks
<1>. QED
  BY <1>1, <1>3, EarnedIsTotal, EarnedNext

\* A half-life halves what was earned, and the scores at least.
LEMMA EarnedTick ==
  ASSUME TypeOK, InHand, Noticed, TypeOK', InHand', Noticed', Tick, NEW u \in Users
  PROVE  /\ Earned(u) = 2 * Earned(u)' /\ Earned(u)' \in Nat
         /\ 2 * Today(u)' <= Today(u)
<1>1. \A m \in Messages : Ruling(m)' = Ruling(m)
  BY RulingsStay DEF Tick
<1>2. Violations(u)' = Violations(u)
  BY <1>1 DEF Violations
<1>3. time' = time + 1 /\ time \in Nat /\ time' <= MaxTime
  BY ConstantsAssumption DEF Tick, TypeOK
<1>4. ASSUME NEW m \in Violations(u)
      PROVE  Marks'[m] \in Nat /\ Marks[m] = 2 * Marks'[m]
  <2>. DEFINE n == time - Ruling(m).at
  <2>1. m \in Messages /\ n \in 0..MaxTime /\ Mark(m) = Decayed(RiskUnit, n) /\ Ruling(m).at \in Nat
    BY ViolationFacts
  <2>2. time' - Ruling(m)'.at = n + 1 /\ n + 1 <= MaxTime /\ n \in Nat
    BY <1>1, <1>3, <2>1, ConstantsAssumption
  <2>3. Mark(m)' = Decayed(RiskUnit, n + 1)
    BY <2>2 DEF Mark, Decayed
  <2>. HIDE DEF n
  <2>4. Decayed(RiskUnit, n) = 2 * Decayed(RiskUnit, n + 1)
    BY <2>2, MarkHalves
  <2>5. Decayed(RiskUnit, n + 1) \in Nat
    BY <2>2, DecayedType, RiskUnitAssumption, ConstantsAssumption
  <2>6. Marks[m] = Mark(m) /\ Marks'[m] = Mark(m)'
    BY <2>1 DEF Marks
  <2>. QED
    BY <2>1, <2>3, <2>4, <2>5, <2>6
<1>5. Total(Marks, Violations(u)) = 2 * Total(Marks', Violations(u))
      /\ Total(Marks', Violations(u)) \in Nat
  BY <1>4, ViolationsFinite, TotalDoubles
<1>6. Earned(u) = 2 * Earned(u)' /\ Earned(u)' \in Nat
  BY <1>2, <1>5, EarnedIsTotal, EarnedNext
<1>7. 2 * Today(u)' <= Today(u)
  <2>. DEFINE n == time - updatedAt[u]
  <2>1. score'[u] = score[u] /\ updatedAt'[u] = updatedAt[u]
    BY DEF Tick
  <2>2. score[u] \in Nat /\ updatedAt[u] \in Nat /\ updatedAt[u] <= time
    BY ConstantsAssumption DEF TypeOK
  <2>3. n \in Nat /\ n + 1 <= MaxTime /\ time' - updatedAt'[u] = n + 1
    BY <1>3, <2>1, <2>2, ConstantsAssumption
  <2>4. Today(u) = Decayed(score[u], n) /\ Today(u)' = Decayed(score[u], n + 1)
    BY <2>1, <2>3 DEF Today, Decayed
  <2>. HIDE DEF n
  <2>. QED
    BY <2>2, <2>3, <2>4, DecayedHalves
<1>. QED
  BY <1>6, <1>7

\* A violation in the batch that is finished has not faded yet.
LEMMA FreshMark ==
  ASSUME TypeOK, InHand, InHand', NEW w \in Workers, Finish(w),
         NEW m \in Messages, m \in batch[w]
  PROVE  Mark(m)' = RiskUnit
<1>1. Ruling(m)' = Judged(w)[m] /\ time' = time /\ time \in Nat
  <2>1. Ruling(m)' = Judged(w)[m]
    BY RulingsFinish
  <2>2. time' = time /\ time \in Nat
    BY ConstantsAssumption DEF Finish, TypeOK
  <2>. QED
    BY <2>1, <2>2
<1>2. Ruling(m)'.at = time
  BY <1>1 DEF Judged
<1>3. time' - Ruling(m)'.at = 0
  BY <1>1, <1>2
<1>4. Mark(m)' = Decayed(RiskUnit, 0)
  BY <1>3 DEF Mark, Decayed
<1>. QED
  BY <1>4, DecayedNow, RiskUnitAssumption

\* A batch takes nothing off anyone's account, and those it convicts get at least a
\* fresh violation more.
LEMMA EarnedFinish ==
  ASSUME TypeOK, InHand, Noticed, TypeOK', InHand', Noticed',
         NEW w \in Workers, Finish(w), NEW u \in Users
  PROVE  /\ Earned(u) \in Nat /\ Earned(u)' \in Nat
         /\ Earned(u) <= Earned(u)'
         /\ u \in Violators(w) => Earned(u) + RiskUnit <= Earned(u)'
<1>. DEFINE V == Violations(u)
            W == Violations(u)'
<1>1. time' = time
  BY DEF Finish
<1>2. ASSUME NEW m \in V
      PROVE  m \in W /\ m \in Messages /\ m \notin batch[w] /\ Ruling(m)' = Ruling(m)
  <2>1. m \in Messages /\ Author[m] = u /\ Ruling(m).action = "delete"
    BY DEF Violations
  <2>2. m \notin batch[w]
    BY <2>1, RulingsFinish DEF Undecided
  <2>3. Ruling(m)' = Ruling(m)
    BY <2>1, <2>2, RulingsFinish
  <2>4. m \in W
    BY <2>1, <2>3 DEF Violations
  <2>. QED
    BY <2>1, <2>2, <2>3, <2>4
<1>3. V \in SUBSET W
  BY <1>2
<1>4. Equal(Marks, Marks', V)
  <2>1. ASSUME NEW m \in V PROVE Marks[m] = Marks'[m]
    <3>1. m \in Messages /\ Mark(m)' = Mark(m)
      BY <1>1, <1>2 DEF Mark
    <3>. QED
      BY <3>1 DEF Marks
  <2>. HIDE DEF V
  <2>. QED
    BY <2>1 DEF Equal
<1>5. Numbers(Marks', W)
  <2>1. ASSUME NEW m \in W PROVE Marks'[m] \in Nat
    <3>1. m \in Messages /\ Ruling(m)'.action = "delete" /\ Author[m] = u
      BY DEF Violations
    <3>2. CASE m \in batch[w]
      <4>1. Mark(m)' = RiskUnit
        BY <3>1, <3>2, FreshMark
      <4>. QED
        BY <3>1, <4>1, RiskUnitAssumption DEF Marks
    <3>3. CASE m \notin batch[w]
      <4>1. Ruling(m)' = Ruling(m) /\ m \in Violations(u)
        BY <3>1, <3>3, RulingsFinish DEF Violations
      <4>2. Mark(m) \in Nat /\ Mark(m)' = Mark(m)
        BY <1>1, <4>1, ViolationFacts DEF Mark
      <4>. QED
        BY <3>1, <4>2 DEF Marks
    <3>. QED
      BY <3>2, <3>3
  <2>. HIDE DEF W
  <2>. QED
    BY <2>1 DEF Numbers
<1>6. Earned(u) = Total(Marks, V) /\ Earned(u)' = Total(Marks', W) /\ IsFiniteSet(W)
  BY EarnedIsTotal, EarnedNext, ViolationsFinite
<1>7. ASSUME u \in Violators(w) PROVE \E m \in W \ V : Marks'[m] = RiskUnit
  <2>1. PICK m \in batch[w] : Author[m] = u /\ Judged(w)[m].action = "delete"
    BY <1>7 DEF Violators
  <2>2. m \in Messages
    BY <2>1 DEF TypeOK
  <2>3. Ruling(m)' = Judged(w)[m]
    BY <2>1, <2>2, RulingsFinish
  <2>4. m \in W /\ m \notin V
    BY <1>2, <2>1, <2>2, <2>3 DEF Violations
  <2>5. Mark(m)' = RiskUnit
    BY <2>1, <2>2, FreshMark
  <2>6. Marks'[m] = RiskUnit
    BY <2>2, <2>5 DEF Marks
  <2>. QED
    BY <2>4, <2>6
<1>. HIDE DEF V, W
<1>8. /\ Total(Marks, V) \in Nat /\ Total(Marks', W) \in Nat
      /\ Total(Marks, V) <= Total(Marks', W)
      /\ \A x \in W \ V : Total(Marks, V) + Marks'[x] <= Total(Marks', W)
  BY <1>3, <1>4, <1>5, <1>6, TotalGrows
<1>. QED
  BY <1>6, <1>7, <1>8

LEMMA ReadIsEarnedStep ==
  ASSUME Inductive, InHand, Noticed, ReadIsEarned, [Next]_vars, Inductive', InHand', Noticed'
  PROVE  ReadIsEarned'
<1>t. TypeOK /\ TypeOK'
  BY DEF Inductive
<1>1. CASE Tick
  <2>. SUFFICES ASSUME crashes' = 0, NEW u \in Users PROVE Today(u)' <= Earned(u)'
    BY <1>1 DEF ReadIsEarned, Tick
  <2>1. Earned(u) = 2 * Earned(u)' /\ Earned(u)' \in Nat /\ 2 * Today(u)' <= Today(u)
    BY <1>t, <1>1, EarnedTick
  <2>2. Today(u) <= Earned(u)
    BY <1>1 DEF Tick, ReadIsEarned
  <2>3. Today(u) \in Nat /\ Today(u)' \in Nat
    BY <1>t, TodayType, TodayNext
  <2>. QED
    BY <2>1, <2>2, <2>3
<1>2. ASSUME NEW w \in Workers, Gather(w) PROVE ReadIsEarned'
  <2>. SUFFICES ASSUME crashes' = 0, NEW u \in Users
                PROVE  /\ Today(u)' <= Earned(u)'
                       /\ \A v \in Workers : stage'[v] = "judging" => risk'[v][u] <= Earned(u)'
    BY DEF ReadIsEarned
  <2>1. /\ Today(u)' = Today(u) /\ crashes = 0 /\ time' = time
        /\ \A v \in Workers : stage'[v] = IF v = w THEN "judging" ELSE stage[v]
        /\ UNCHANGED <<verdict, decision>>
    BY <1>t, <1>2 DEF Gather, TypeOK, Today
  <2>2. /\ risk'[w][u] \in {0, Today(u)}
        /\ \A v \in Workers : v # w => risk'[v] = risk[v]
    BY <1>t, <1>2 DEF Gather, TypeOK
  <2>3. Earned(u)' = Earned(u)
    BY <1>t, <2>1, RulingsStay, EarnedStays
  <2>4. Earned(u) \in Nat
    BY <1>t, EarnedType
  <2>5. Today(u) <= Earned(u) /\ 0 <= Earned(u)
    BY <2>1, <2>4 DEF ReadIsEarned
  <2>. QED
    BY <2>1, <2>2, <2>3, <2>5 DEF ReadIsEarned
<1>3. ASSUME NEW w \in Workers, Finish(w) PROVE ReadIsEarned'
  <2>. SUFFICES ASSUME crashes' = 0, NEW u \in Users
                PROVE  /\ Today(u)' <= Earned(u)'
                       /\ \A v \in Workers : stage'[v] = "judging" => risk'[v][u] <= Earned(u)'
    BY DEF ReadIsEarned
  <2>1. /\ crashes = 0 /\ time' = time /\ risk' = risk /\ stage[w] = "judging"
        /\ \A v \in Workers : stage'[v] = IF v = w THEN "saving" ELSE stage[v]
        /\ score'[u] = IF u \in Violators(w) THEN risk[w][u] + RiskUnit ELSE score[u]
        /\ updatedAt'[u] = IF u \in Violators(w) THEN time ELSE updatedAt[u]
    BY <1>t, <1>3 DEF Finish, TypeOK, NewScore, Stamped
  <2>2. /\ Earned(u) \in Nat /\ Earned(u)' \in Nat
        /\ Earned(u) <= Earned(u)'
        /\ u \in Violators(w) => Earned(u) + RiskUnit <= Earned(u)'
    BY <1>t, <1>3, EarnedFinish
  <2>3. /\ risk \in [Workers -> [Users -> Nat]] /\ time \in Nat
        /\ RiskUnit \in Nat /\ Today(u) \in Nat
    BY <1>t, TodayType, RiskUnitAssumption, ConstantsAssumption DEF TypeOK
  <2>4. /\ Today(u) <= Earned(u) /\ risk[w][u] <= Earned(u)
        /\ \A v \in Workers : stage[v] = "judging" => risk[v][u] <= Earned(u)
    BY <2>1 DEF ReadIsEarned
  <2>5. ASSUME u \in Violators(w) PROVE Today(u)' <= Earned(u)'
    <3>1. risk[w][u] \in Nat /\ risk[w][u] + RiskUnit \in Nat /\ time' - updatedAt'[u] = 0
      BY <2>1, <2>3, <2>5
    <3>2. Today(u)' = Decayed(risk[w][u] + RiskUnit, 0)
      BY <2>1, <2>5, <3>1 DEF Today, Decayed
    <3>3. Today(u)' = risk[w][u] + RiskUnit
      BY <3>1, <3>2, DecayedNow
    <3>. QED
      BY <2>2, <2>3, <2>4, <2>5, <3>1, <3>3
  <2>6. ASSUME u \notin Violators(w) PROVE Today(u)' <= Earned(u)'
    <3>1. Today(u)' = Today(u)
      BY <2>1, <2>6 DEF Today, Decayed
    <3>. QED
      BY <2>2, <2>3, <2>4, <3>1
  <2>7. ASSUME NEW v \in Workers, stage'[v] = "judging" PROVE risk'[v][u] <= Earned(u)'
    <3>1. stage[v] = "judging" /\ risk'[v][u] = risk[v][u] /\ risk[v][u] \in Nat
      BY <2>1, <2>3, <2>7
    <3>. QED
      BY <2>2, <2>4, <3>1
  <2>. QED
    BY <2>5, <2>6, <2>7
<1>4. ASSUME NEW w \in Workers, Save(w) PROVE ReadIsEarned'
  <2>. SUFFICES ASSUME crashes' = 0, NEW u \in Users
                PROVE  /\ Today(u)' <= Earned(u)'
                       /\ \A v \in Workers : stage'[v] = "judging" => risk'[v][u] <= Earned(u)'
    BY DEF ReadIsEarned
  <2>1. /\ Today(u)' = Today(u) /\ crashes = 0 /\ time' = time
        /\ \A v \in Workers : stage'[v] = IF v = w THEN "idle" ELSE stage[v]
        /\ \A v \in Workers : v # w => risk'[v] = risk[v]
    BY <1>t, <1>4 DEF Save, DropBatch, TypeOK, Today
  <2>2. \A m \in Messages : Ruling(m)' = Ruling(m)
    BY <1>t, <1>4, RulingsStay
  <2>3. Earned(u)' = Earned(u)
    BY <2>1, <2>2, EarnedStays
  <2>. QED
    BY <2>1, <2>3 DEF ReadIsEarned
<1>5. ASSUME NEW w \in Workers, Crash(w) PROVE ReadIsEarned'
  <2>1. crashes' # 0
    BY <1>t, <1>5, ConstantsAssumption DEF Crash, TypeOK
  <2>. QED
    BY <2>1 DEF ReadIsEarned
<1>6. CASE UNCHANGED vars
  <2>1. \A u \in Users : Today(u)' = Today(u)
    BY <1>6 DEF vars, Today
  <2>2. \A m \in Messages : Ruling(m)' = Ruling(m)
    BY <1>t, <1>6, RulingsStay DEF vars
  <2>3. \A u \in Users : Earned(u)' = Earned(u)
    BY <1>6, <2>2, EarnedStays DEF vars
  <2>. QED
    BY <1>6, <2>1, <2>3 DEF vars, ReadIsEarned
<1>. QED
  BY <1>1, <1>2, <1>3, <1>4, <1>5, <1>6 DEF Next

\* The invariant: types and policy, hands, and both bounds on scores.
Traced == Inductive /\ InHand /\ Noticed /\ ReadIsEarned

LEMMA InitTraced == Init => Traced
<1>. SUFFICES ASSUME Init PROVE Traced
  OBVIOUS
<1>1. Inductive /\ TypeOK
  BY InitInductive DEF Inductive
<1>2. InHand
  BY NothingByPolicy DEF Init, InHand
<1>3. Noticed
  <2>1. ASSUME NEW m \in Messages
        PROVE  decision[m] = Undecided /\ \A w \in Workers : verdict[w][m] = Undecided
    BY NothingByPolicy DEF Init
  <2>. QED
    BY <2>1, UndecidedLeavesNone DEF Noticed
<1>4. ReadIsEarned
  <2>1. ASSUME NEW u \in Users PROVE Today(u) <= Earned(u)
    <3>1. score[u] = 0 /\ time - updatedAt[u] = 0
      BY DEF Init
    <3>2. Today(u) = Decayed(0, 0)
      BY <3>1 DEF Today
    <3>3. Today(u) = 0
      BY <3>2, DecayedNow
    <3>4. Earned(u) \in Nat
      BY <1>1, <1>2, <1>3, EarnedType
    <3>. QED
      BY <3>3, <3>4
  <2>. QED
    BY <2>1 DEF ReadIsEarned, Init
<1>. QED
  BY <1>1, <1>2, <1>3, <1>4 DEF Traced

\* Every violation leaves its mark and nothing else does, whatever batches overlap.
THEOREM TracedInvariant == Spec => []Traced
<1>1. Traced /\ [Next]_vars => Traced'
  <2>. SUFFICES ASSUME Traced, [Next]_vars PROVE Traced'
    OBVIOUS
  <2>1. Inductive'
    BY NextInductive DEF Traced
  <2>2. InHand'
    BY InHandStep DEF Traced
  <2>3. Noticed'
    BY NoticedStep DEF Traced
  <2>4. ReadIsEarned'
    BY <2>1, <2>2, <2>3, ReadIsEarnedStep DEF Traced
  <2>. QED
    BY <2>1, <2>2, <2>3, <2>4 DEF Traced
<1>. QED
  BY <1>1, InitTraced, PTL DEF Spec

\* No violation passes unnoticed: a user's score is at least the faded mark of each
\* verdict against them, whichever workers read before it and write after it, whoever
\* is killed (risk.read, queue_violation, commit).
THEOREM EveryOffenderIsKnown == Spec => []OffendersAreKnown
<1>1. Traced => OffendersAreKnown
  BY NoticedIsKnown DEF Traced, Inductive
<1>. QED
  BY <1>1, TracedInvariant, PTL

\* Nobody has a worse score than their violations add up to, faded, as long as no batch
\* is handled twice (decayed, queue_violation).
THEOREM NobodyIsSlandered == Spec => []ScoreIsEarned
<1>1. Traced => ScoreIsEarned
  BY DEF Traced, ReadIsEarned, ScoreIsEarned
<1>. QED
  BY <1>1, TracedInvariant, PTL
===============================================================================
