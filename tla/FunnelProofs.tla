----------------------------- MODULE FunnelProofs -----------------------------
(***************************************************************************)
(* Proofs about Funnel, for any number of workers, rules, strategies,      *)
(* streams and messages, any order of the rows and any answer of Redis and *)
(* the model.                                                              *)
(*                                                                         *)
(* The verdicts of a batch are a function of what the worker knows and     *)
(* what it was told.  The first part is about that function: what sorting  *)
(* and selecting do to a list, that a list sorted by a key has only one    *)
(* order, and where a verdict comes from.  The second is about the steps:  *)
(* a worker's rules are sorted and without repetition, its strategies are  *)
(* sorted by name, and the verdicts it holds are those of that function.   *)
(***************************************************************************)
EXTENDS Funnel, FiniteSetTheorems, WellFoundedInduction, TLAPS

-------------------------------------------------------------------------------
(* Ranks, selecting and sorting.                                           *)

\* How many of S come before each.
Place(S, R) == [x \in S |-> Cardinality({y \in S : <<y, x>> \in R})]

\* In a finite set with a total order, every place is taken once.
LEMMA Places ==
  ASSUME NEW S, IsFiniteSet(S), NEW R,
         \A x \in S : <<x, x>> \notin R,
         \A x, y, z \in S : <<x, y>> \in R /\ <<y, z>> \in R => <<x, z>> \in R,
         \A x, y \in S : x # y => <<x, y>> \in R \/ <<y, x>> \in R
  PROVE  /\ Cardinality(S) \in Nat
         /\ Place(S, R) \in [S -> 0..(Cardinality(S) - 1)]
         /\ \A x, y \in S : <<x, y>> \in R => Place(S, R)[x] < Place(S, R)[y]
         /\ \A x, y \in S : Place(S, R)[x] = Place(S, R)[y] => x = y
         /\ \A k \in 0..(Cardinality(S) - 1) : \E x \in S : Place(S, R)[x] = k
<1>. DEFINE Below(x) == {y \in S : <<y, x>> \in R}
            rank == Place(S, R)
            n == Cardinality(S)
<1>1. n \in Nat
  BY FS_CardinalityType
<1>2. \A x \in S : Below(x) \in SUBSET S /\ IsFiniteSet(Below(x)) /\ Cardinality(Below(x)) \in Nat
  BY FS_Subset, FS_CardinalityType
<1>3. \A x \in S : rank[x] = Cardinality(Below(x))
  BY DEF Place
<1>4. ASSUME NEW x \in S, NEW y \in S, <<x, y>> \in R PROVE rank[x] < rank[y]
  <2>1. Below(x) \in SUBSET Below(y)
    BY <1>4
  <2>2. Below(x) # Below(y)
    BY <1>4
  <2>. HIDE DEF Below
  <2>3. Cardinality(Below(x)) <= Cardinality(Below(y))
        /\ Cardinality(Below(x)) # Cardinality(Below(y))
    BY <1>2, <2>1, <2>2, FS_Subset
  <2>. QED
    BY <1>2, <1>3, <2>3
<1>5. ASSUME NEW x \in S PROVE rank[x] \in 0..(n - 1)
  <2>1. Below(x) # S
    BY DEF Below
  <2>. HIDE DEF Below
  <2>2. Cardinality(Below(x)) <= n /\ Cardinality(Below(x)) # n
    BY <1>2, <2>1, FS_Subset
  <2>. QED
    BY <1>1, <1>2, <1>3, <2>2
<1>6. ASSUME NEW x \in S, NEW y \in S, rank[x] = rank[y] PROVE x = y
  <2>1. rank[x] \in Int
    BY <1>1, <1>5
  <2>2. <<x, y>> \notin R /\ <<y, x>> \notin R
    BY <1>4, <1>6, <2>1
  <2>. QED
    BY <2>2
<1>7. rank \in [S -> 0..(n - 1)]
  BY <1>5 DEF Place
<1>8. rank \in Surjection(S, 0..(n - 1))
  <2>1. rank \in Injection(S, 0..(n - 1))
    BY <1>6, <1>7 DEF Injection, IsInjective
  <2>2. 0 \in Int /\ n - 1 \in Int /\ (IF 0 > n - 1 THEN 0 ELSE n - 1 - 0 + 1) = n
    BY <1>1
  <2>3. IsFiniteSet(0..(n - 1)) /\ Cardinality(0..(n - 1)) = n
    <3>. HIDE DEF n
    <3>. QED
      BY <2>2, FS_Interval
  <2>. HIDE DEF rank
  <2>. QED
    BY <2>1, <2>3, FS_Injection
<1>9. \A k \in 0..(n - 1) : \E x \in S : rank[x] = k
  BY <1>8 DEF Surjection
<1>. QED
  BY <1>1, <1>4, <1>6, <1>7, <1>9

\* The places of a list that I holds, in ascending order.
LEMMA Ascending ==
  ASSUME NEW n \in Nat, NEW I \in SUBSET (1..n)
  PROVE  LET c == Cardinality(I)
             at == [k \in 1..c |-> CHOOSE i \in I : Cardinality({j \in I : j < i}) = k - 1]
         IN  /\ c \in Nat /\ IsFiniteSet(I)
             /\ at \in [1..c -> I]
             /\ \A k, l \in 1..c : k < l => at[k] < at[l]
             /\ \A i \in I : \E k \in 1..c : at[k] = i
<1>. DEFINE c == Cardinality(I)
            R == {p \in (1..n) \X (1..n) : p[1] < p[2]}
            rank == Place(I, R)
            at == [k \in 1..c |-> CHOOSE i \in I : Cardinality({j \in I : j < i}) = k - 1]
<1>1. IsFiniteSet(I) /\ \A i \in I : i \in 1..n /\ i \in Nat
  <2>1. IsFiniteSet(1..n)
    BY FS_Interval
  <2>2. IsFiniteSet(I)
    BY <2>1, FS_Subset
  <2>. QED
    BY <2>2
<1>2. \A x, y \in I : <<x, y>> \in R <=> x < y
  OBVIOUS
<1>3. \A x \in I : {y \in I : <<y, x>> \in R} = {j \in I : j < x}
  BY <1>2
<1>4. /\ c \in Nat
      /\ rank \in [I -> 0..(c - 1)]
      /\ \A x, y \in I : x < y => rank[x] < rank[y]
      /\ \A x, y \in I : rank[x] = rank[y] => x = y
      /\ \A k \in 0..(c - 1) : \E x \in I : rank[x] = k
  <2>1. \A x \in I : <<x, x>> \notin R
    BY <1>1, <1>2
  <2>2. \A x, y, z \in I : <<x, y>> \in R /\ <<y, z>> \in R => <<x, z>> \in R
    <3>1. \A x, y, z \in I : x < y /\ y < z => x < z
      BY <1>1
    <3>. QED
      BY <1>2, <3>1
  <2>3. \A x, y \in I : x # y => <<x, y>> \in R \/ <<y, x>> \in R
    <3>1. \A x, y \in I : x # y => x < y \/ y < x
      BY <1>1
    <3>. QED
      BY <1>2, <3>1
  <2>. HIDE DEF R
  <2>. QED
    BY <1>1, <1>2, <2>1, <2>2, <2>3, Places
<1>5. \A i \in I : rank[i] = Cardinality({j \in I : j < i})
  <2>1. \A i \in I : rank[i] = Cardinality({y \in I : <<y, i>> \in R})
    BY DEF Place
  <2>. HIDE DEF rank, R
  <2>. QED
    BY <1>3, <2>1
<1>. HIDE DEF R
<1>6. ASSUME NEW k \in 1..c PROVE at[k] \in I /\ rank[at[k]] = k - 1
  <2>1. k - 1 \in 0..(c - 1)
    BY <1>4
  <2>2. PICK i \in I : rank[i] = k - 1
    BY <1>4, <2>1
  <2>3. \E x \in I : Cardinality({j \in I : j < x}) = k - 1
    BY <1>5, <2>2
  <2>. DEFINE chosen == CHOOSE x \in I : Cardinality({j \in I : j < x}) = k - 1
  <2>4. chosen \in I /\ Cardinality({j \in I : j < chosen}) = k - 1
    BY <2>3
  <2>5. at[k] = chosen
    OBVIOUS
  <2>. HIDE DEF chosen, at, rank
  <2>. QED
    BY <1>5, <2>4, <2>5
<1>7. at \in [1..c -> I]
  BY <1>6
<1>. HIDE DEF at, rank
<1>8. ASSUME NEW k \in 1..c, NEW l \in 1..c, k < l PROVE at[k] < at[l]
  <2>1. at[k] \in I /\ at[l] \in I /\ rank[at[k]] = k - 1 /\ rank[at[l]] = l - 1
    BY <1>6
  <2>2. k - 1 < l - 1 /\ ~(l - 1 < k - 1)
    BY <1>4, <1>8
  <2>. DEFINE x == at[k]
              y == at[l]
  <2>3. /\ x \in I /\ y \in I /\ x \in Nat /\ y \in Nat
        /\ rank[x] = k - 1 /\ rank[y] = l - 1
    BY <1>1, <2>1
  <2>. HIDE DEF x, y
  <2>4. ~(y < x)
    BY <1>4, <2>2, <2>3
  <2>5. x # y
    BY <2>2, <2>3
  <2>6. x < y
    BY <2>3, <2>4, <2>5
  <2>. QED
    BY <2>6 DEF x, y
<1>9. ASSUME NEW i \in I PROVE \E k \in 1..c : at[k] = i
  <2>1. rank[i] \in 0..(c - 1)
    BY <1>4 DEF rank
  <2>2. rank[i] + 1 \in 1..c /\ (rank[i] + 1) - 1 = rank[i]
    BY <1>4, <2>1
  <2>3. rank[at[rank[i] + 1]] = rank[i] /\ at[rank[i] + 1] \in I
    BY <1>6, <2>2
  <2>4. at[rank[i] + 1] = i
    BY <1>4, <2>3 DEF rank
  <2>. QED
    BY <2>2, <2>4
<1>. QED
  BY <1>1, <1>4, <1>7, <1>8, <1>9 DEF at

\* The places at which a list holds the elements of a part of it, in order.
Embeds(at, part, list) ==
  /\ at \in [DOMAIN part -> DOMAIN list]
  /\ \A k, l \in DOMAIN part : k < l => at[k] < at[l]
  /\ \A k \in DOMAIN part : part[k] = list[at[k]]

\* The places of what Only selects.
Chosen(list, S) == {i \in DOMAIN list : list[i] \in S}

\* What Only selects: exactly those of the list that are in S, in their order.
LEMMA OnlyFacts ==
  ASSUME NEW T, NEW list \in Seq(T), NEW S
  PROVE  /\ Only(list, S) \in Seq(T)
         /\ IsFiniteSet(Chosen(list, S))
         /\ Len(Only(list, S)) = Cardinality(Chosen(list, S))
         /\ Range(Only(list, S)) = Range(list) \cap S
         /\ \E at : Embeds(at, Only(list, S), list)
<1>. DEFINE I == {i \in DOMAIN list : list[i] \in S}
            c == Cardinality(I)
            at == [k \in 1..c |-> CHOOSE i \in I : Cardinality({j \in I : j < i}) = k - 1]
            sel == Only(list, S)
<1>1. Len(list) \in Nat /\ DOMAIN list = 1..Len(list) /\ \A i \in DOMAIN list : list[i] \in T
  OBVIOUS
<1>2. I \in SUBSET (1..Len(list))
  BY <1>1
<1>3. /\ c \in Nat /\ IsFiniteSet(I)
      /\ at \in [1..c -> I]
      /\ \A k, l \in 1..c : k < l => at[k] < at[l]
      /\ \A i \in I : \E k \in 1..c : at[k] = i
  <2>. HIDE DEF I
  <2>. QED
    BY <1>1, <1>2, Ascending
<1>4. sel = [k \in 1..c |-> list[at[k]]]
  BY DEF Only
<1>. HIDE DEF at, sel, c
<1>5. \A k \in 1..c : at[k] \in I /\ sel[k] = list[at[k]]
  BY <1>3, <1>4
<1>6. sel \in Seq(T) /\ Len(sel) = c /\ DOMAIN sel = 1..c
  <2>1. \A k \in 1..c : list[at[k]] \in T
    BY <1>1, <1>5
  <2>. QED
    BY <1>3, <1>4, <2>1
<1>7. Range(sel) = Range(list) \cap S
  <2>1. ASSUME NEW x \in Range(sel) PROVE x \in Range(list) \cap S
    BY <1>5, <1>6 DEF Range
  <2>2. ASSUME NEW x \in Range(list) \cap S PROVE x \in Range(sel)
    <3>1. PICK i \in I : list[i] = x
      BY DEF Range
    <3>2. PICK k \in 1..c : at[k] = i
      BY <1>3
    <3>. QED
      BY <1>5, <1>6, <3>1, <3>2 DEF Range
  <2>. QED
    BY <2>1, <2>2
<1>8. at \in [DOMAIN sel -> DOMAIN list]
  BY <1>2, <1>3, <1>6
<1>9. Embeds(at, sel, list)
  BY <1>3, <1>5, <1>6, <1>8 DEF Embeds
<1>. QED
  BY <1>3, <1>6, <1>7, <1>9 DEF sel, c, Chosen

\* What a selection inherits: no repetition.
LEMMA OnlyInjective ==
  ASSUME NEW T, NEW list \in Seq(T), NEW S, IsInjective(list)
  PROVE  IsInjective(Only(list, S))
<1>. DEFINE sel == Only(list, S)
<1>1. sel \in Seq(T) /\ \E at : Embeds(at, sel, list)
  BY OnlyFacts
<1>. HIDE DEF sel
<1>2. PICK at : Embeds(at, sel, list)
  BY <1>1
<1>3. DOMAIN sel \subseteq Nat /\ DOMAIN list \subseteq Nat
  BY <1>1
<1>4. ASSUME NEW k \in DOMAIN sel, NEW l \in DOMAIN sel, sel[k] = sel[l] PROVE k = l
  <2>. DEFINE x == at[k]
              y == at[l]
  <2>1. x \in DOMAIN list /\ y \in DOMAIN list /\ list[x] = list[y] /\ x \in Nat
    BY <1>2, <1>4, <1>3 DEF Embeds
  <2>2. (k < l => x < y) /\ (l < k => y < x) /\ k \in Nat /\ l \in Nat
    BY <1>2, <1>3 DEF Embeds
  <2>. HIDE DEF x, y
  <2>3. x = y
    BY <2>1 DEF IsInjective
  <2>. QED
    BY <2>1, <2>2, <2>3
<1>. QED
  BY <1>4 DEF sel, IsInjective

-------------------------------------------------------------------------------
(* A list of rules.                                                        *)

\* The most important first.
Ranked(rules) ==
  /\ rules \in Seq(Rules)
  /\ \A i, j \in DOMAIN rules : i < j => Row[rules[i]].priority <= Row[rules[j]].priority

\* A selection of rules that are ranked is ranked.
LEMMA OnlyRanked ==
  ASSUME NEW rules, NEW S, Ranked(rules)
  PROVE  Ranked(Only(rules, S))
<1>1. rules \in Seq(Rules)
  BY DEF Ranked
<1>. DEFINE sel == Only(rules, S)
<1>2. sel \in Seq(Rules) /\ \E at : Embeds(at, sel, rules)
  BY <1>1, OnlyFacts
<1>. HIDE DEF sel
<1>3. PICK at : Embeds(at, sel, rules)
  BY <1>2
<1>4. ASSUME NEW k \in DOMAIN sel, NEW l \in DOMAIN sel, k < l
      PROVE  Row[sel[k]].priority <= Row[sel[l]].priority
  <2>1. at[k] \in DOMAIN rules /\ at[l] \in DOMAIN rules /\ at[k] < at[l]
        /\ sel[k] = rules[at[k]] /\ sel[l] = rules[at[l]]
    BY <1>3, <1>4 DEF Embeds
  <2>. QED
    BY <2>1 DEF Ranked
<1>. QED
  BY <1>2, <1>4 DEF Ranked, sel

\* sorted() keeps the rules and ranks them.
LEMMA SortedFacts ==
  ASSUME NEW rules \in Seq(Rules)
  PROVE  /\ Ranked(Sorted(rules))
         /\ Range(Sorted(rules)) = Range(rules)
         /\ IsInjective(rules) => IsInjective(Sorted(rules))
<1>. DEFINE n == Len(rules)
            D == 1..n
            p(i) == Row[rules[i]].priority
            R == {q \in D \X D : Before(rules, q[1], q[2])}
            rank == Place(D, R)
            at == [k \in D |-> CHOOSE i \in D : Cardinality({j \in D : Before(rules, j, i)}) = k - 1]
<1>1. n \in Nat /\ D = DOMAIN rules
  OBVIOUS
<1>2. \A i \in D : i \in Int /\ rules[i] \in Rules /\ p(i) \in Int
  BY ConstantsAssumption DEF IsRow
<1>3. \A i, j \in D : <<i, j>> \in R <=> Before(rules, i, j)
  OBVIOUS
<1>4. \A i, j \in D : Before(rules, i, j) <=> (p(i) < p(j) \/ (p(i) = p(j) /\ i < j))
  BY DEF Before
<1>5. IsFiniteSet(D) /\ Cardinality(D) = n
  BY <1>1, FS_Interval
<1>. HIDE DEF p, R, D, n
<1>6. /\ rank \in [D -> 0..(n - 1)]
      /\ \A x, y \in D : Before(rules, x, y) => rank[x] < rank[y]
      /\ \A x, y \in D : rank[x] = rank[y] => x = y
      /\ \A k \in 0..(n - 1) : \E x \in D : rank[x] = k
  <2>1. \A x \in D : <<x, x>> \notin R
    BY <1>2, <1>3, <1>4
  <2>2. \A x, y, z \in D : <<x, y>> \in R /\ <<y, z>> \in R => <<x, z>> \in R
    <3>1. ASSUME NEW x \in D, NEW y \in D, NEW z \in D,
                 Before(rules, x, y), Before(rules, y, z)
          PROVE  Before(rules, x, z)
      BY <1>2, <1>4, <3>1
    <3>. QED
      BY <1>3, <3>1
  <2>3. \A x, y \in D : x # y => <<x, y>> \in R \/ <<y, x>> \in R
    <3>1. ASSUME NEW x \in D, NEW y \in D, x # y
          PROVE  Before(rules, x, y) \/ Before(rules, y, x)
      BY <1>2, <1>4, <3>1
    <3>. QED
      BY <1>3, <3>1
  <2>4. /\ rank \in [D -> 0..(Cardinality(D) - 1)]
        /\ \A x, y \in D : <<x, y>> \in R => rank[x] < rank[y]
        /\ \A x, y \in D : rank[x] = rank[y] => x = y
        /\ \A k \in 0..(Cardinality(D) - 1) : \E x \in D : rank[x] = k
    BY <1>5, <2>1, <2>2, <2>3, Places
  <2>. HIDE DEF rank
  <2>. QED
    BY <1>3, <1>5, <2>4
<1>7. \A i \in D : rank[i] = Cardinality({j \in D : Before(rules, j, i)})
  <2>1. \A i \in D : rank[i] = Cardinality({j \in D : <<j, i>> \in R})
    BY DEF Place
  <2>2. \A i \in D : {j \in D : <<j, i>> \in R} = {j \in D : Before(rules, j, i)}
    BY <1>3
  <2>. HIDE DEF rank
  <2>. QED
    BY <2>1, <2>2
<1>. HIDE DEF rank
<1>8. \A k \in D : k \in Nat /\ k - 1 \in 0..(n - 1)
  BY <1>1 DEF D
<1>9. ASSUME NEW k \in D PROVE at[k] \in D /\ rank[at[k]] = k - 1
  <2>1. PICK i \in D : rank[i] = k - 1
    BY <1>6, <1>8
  <2>2. \E x \in D : Cardinality({j \in D : Before(rules, j, x)}) = k - 1
    BY <1>7, <2>1
  <2>. DEFINE chosen == CHOOSE x \in D : Cardinality({j \in D : Before(rules, j, x)}) = k - 1
  <2>3. chosen \in D /\ Cardinality({j \in D : Before(rules, j, chosen)}) = k - 1
    BY <2>2
  <2>4. at[k] = chosen
    OBVIOUS
  <2>. HIDE DEF chosen, at
  <2>. QED
    BY <1>7, <2>3, <2>4
<1>10. Sorted(rules) = [k \in D |-> rules[at[k]]]
  BY <1>1 DEF Sorted
<1>. HIDE DEF at
<1>. DEFINE sel == Sorted(rules)
<1>11. sel \in Seq(Rules) /\ DOMAIN sel = D /\ \A k \in D : sel[k] = rules[at[k]]
  <2>1. \A k \in D : rules[at[k]] \in Rules
    BY <1>2, <1>9
  <2>. QED
    BY <1>1, <1>10, <2>1 DEF D
<1>. HIDE DEF sel
<1>12. \A i \in D : \E k \in D : at[k] = i
  <2>. SUFFICES ASSUME NEW i \in D PROVE \E k \in D : at[k] = i
    OBVIOUS
  <2>1. rank[i] \in 0..(n - 1)
    BY <1>6
  <2>2. rank[i] + 1 \in D /\ (rank[i] + 1) - 1 = rank[i]
    BY <1>1, <2>1 DEF D
  <2>. DEFINE k == rank[i] + 1
  <2>3. k \in D /\ k - 1 = rank[i]
    BY <2>2
  <2>. HIDE DEF k
  <2>4. at[k] = i
    BY <1>6, <1>9, <2>3
  <2>. QED
    BY <2>3, <2>4
<1>13. Range(sel) = Range(rules)
  <2>1. ASSUME NEW x \in Range(sel) PROVE x \in Range(rules)
    <3>1. PICK k \in D : sel[k] = x
      BY <1>11 DEF Range
    <3>2. at[k] \in DOMAIN rules /\ rules[at[k]] = x
      BY <1>1, <1>9, <1>11, <3>1
    <3>. QED
      BY <3>2 DEF Range
  <2>2. ASSUME NEW x \in Range(rules) PROVE x \in Range(sel)
    <3>1. PICK i \in D : rules[i] = x
      BY <1>1 DEF Range
    <3>2. PICK k \in D : at[k] = i
      BY <1>12
    <3>. QED
      BY <1>11, <3>1, <3>2 DEF Range
  <2>. QED
    BY <2>1, <2>2
<1>14. ASSUME IsInjective(rules) PROVE IsInjective(sel)
  <2>. SUFFICES ASSUME NEW k \in D, NEW l \in D, sel[k] = sel[l] PROVE k = l
    BY <1>11 DEF IsInjective
  <2>. DEFINE x == at[k]
              y == at[l]
  <2>1. x \in D /\ y \in D /\ rules[x] = rules[y] /\ rank[x] = k - 1 /\ rank[y] = l - 1
    BY <1>9, <1>11
  <2>. HIDE DEF x, y
  <2>2. x = y
    BY <1>1, <1>14, <2>1 DEF IsInjective
  <2>. QED
    BY <1>8, <2>1, <2>2
<1>15. ASSUME NEW k \in D, NEW l \in D, k < l
       PROVE  Row[sel[k]].priority <= Row[sel[l]].priority
  <2>. DEFINE x == at[k]
              y == at[l]
  <2>1. x \in D /\ y \in D /\ rank[x] = k - 1 /\ rank[y] = l - 1
    BY <1>9
  <2>2. k - 1 < l - 1 /\ ~(l - 1 < k - 1)
    BY <1>8, <1>15
  <2>. HIDE DEF x, y
  <2>3. ~Before(rules, y, x)
    BY <1>6, <2>1, <2>2
  <2>4. p(x) <= p(y)
    BY <1>2, <1>4, <2>1, <2>3
  <2>. QED
    BY <1>11, <2>4 DEF p, x, y
<1>. QED
  BY <1>11, <1>13, <1>14, <1>15 DEF Ranked, sel

-------------------------------------------------------------------------------
(* Lists sorted by a key.                                                  *)

LEMMA FirstPlace ==
  ASSUME NEW n \in Nat, NEW T \in SUBSET (1..n), T # {}
  PROVE  \E i \in T : \A j \in T : i <= j
<1>. DEFINE c == Cardinality(T)
            at == [k \in 1..c |-> CHOOSE i \in T : Cardinality({j \in T : j < i}) = k - 1]
<1>1. /\ c \in Nat /\ IsFiniteSet(T)
      /\ at \in [1..c -> T]
      /\ \A k, l \in 1..c : k < l => at[k] < at[l]
      /\ \A i \in T : \E k \in 1..c : at[k] = i
  BY Ascending
<1>. HIDE DEF at
<1>2. c # 0
  BY <1>1, FS_EmptySet
<1>. HIDE DEF c
<1>3. 1 \in 1..c /\ at[1] \in T
  BY <1>1, <1>2
<1>4. ASSUME NEW j \in T PROVE at[1] <= j
  <2>1. PICK k \in 1..c : at[k] = j
    BY <1>1
  <2>2. at[1] \in Int /\ at[k] \in Int
    <3>1. at[k] \in T
      BY <1>1
    <3>2. \A i \in T : i \in Int
      OBVIOUS
    <3>. QED
      BY <1>3, <3>1, <3>2
  <2>3. CASE k = 1
    BY <2>1, <2>2, <2>3
  <2>4. CASE k # 1
    <3>1. 1 < k
      BY <1>1, <2>4
    <3>2. at[1] < at[k]
      BY <1>1, <1>3, <3>1
    <3>. QED
      BY <2>1, <2>2, <3>2
  <2>. QED
    BY <2>3, <2>4
<1>. QED
  BY <1>3, <1>4

\* Two lists of the same things, both strictly sorted by a key, are the same list.
LEMMA SameList ==
  ASSUME NEW a, NEW b, a \in Seq(Range(a)), b \in Seq(Range(b)), Range(a) = Range(b),
         NEW key, \A x \in Range(a) : key[x] \in Int,
         \A i, j \in DOMAIN a : i < j => key[a[i]] < key[a[j]],
         \A i, j \in DOMAIN b : i < j => key[b[i]] < key[b[j]]
  PROVE  a = b
<1>. DEFINE m == Len(a)
            n == Len(b)
            S == Range(a)
<1>1. /\ m \in Nat /\ DOMAIN a = 1..m /\ a \in [1..m -> S]
      /\ n \in Nat /\ DOMAIN b = 1..n /\ b \in [1..n -> S]
  OBVIOUS
<1>2. /\ \A x \in S : \E i \in 1..m : a[i] = x
      /\ \A x \in S : \E i \in 1..n : b[i] = x
  <2>1. \A x \in Range(a) : \E i \in 1..m : a[i] = x
    BY <1>1 DEF Range
  <2>2. \A x \in Range(b) : \E i \in 1..n : b[i] = x
    BY <1>1 DEF Range
  <2>. QED
    BY <2>1, <2>2
<1>. HIDE DEF m, n, S
<1>3. /\ \A x \in S : key[x] \in Int
      /\ \A i \in 1..m : i \in Int /\ a[i] \in S
      /\ \A i \in 1..n : i \in Int /\ b[i] \in S
  BY <1>1 DEF S
<1>4. \A i, j \in 1..m : a[i] = a[j] => i = j
  <2>. SUFFICES ASSUME NEW i \in 1..m, NEW j \in 1..m, a[i] = a[j] PROVE i = j
    OBVIOUS
  <2>1. ~(i < j) /\ ~(j < i)
    BY <1>1, <1>3
  <2>. QED
    BY <1>3, <2>1
<1>5. \A i, j \in 1..n : b[i] = b[j] => i = j
  <2>. SUFFICES ASSUME NEW i \in 1..n, NEW j \in 1..n, b[i] = b[j] PROVE i = j
    OBVIOUS
  <2>1. ~(i < j) /\ ~(j < i)
    BY <1>1, <1>3
  <2>. QED
    BY <1>3, <2>1
<1>6. a \in Bijection(1..m, S) /\ b \in Bijection(1..n, S)
  BY <1>1, <1>2, <1>4, <1>5 DEF Bijection, Injection, Surjection, IsInjective
<1>7. m = n
  <2>1. ExistsBijection(1..m, S) /\ ExistsBijection(1..n, S)
    BY <1>6 DEF ExistsBijection
  <2>2. Cardinality(S) = m /\ Cardinality(S) = n
    BY <1>1, <2>1, FS_CountingElements
  <2>. QED
    BY <2>2
<1>8. ASSUME NEW i \in 1..m, a[i] # b[i] PROVE FALSE
  <2>. DEFINE T == {j \in 1..m : a[j] # b[j]}
  <2>1. PICK k \in T : \A j \in T : k <= j
    <3>1. T \in SUBSET (1..m) /\ T # {}
      BY <1>8
    <3>. HIDE DEF T
    <3>. QED
      BY <1>1, <3>1, FirstPlace
  <2>2. k \in 1..m /\ k \in 1..n /\ a[k] # b[k] /\ \A j \in 1..m : j < k => a[j] = b[j]
    BY <1>1, <1>7, <2>1
  <2>. HIDE DEF T
  <2>3. PICK p \in 1..n : b[p] = a[k]
    BY <1>2, <1>3, <2>2
  <2>4. k < p
    <3>1. p # k
      BY <2>2, <2>3
    <3>2. ~(p < k)
      BY <1>4, <1>7, <2>2, <2>3
    <3>. QED
      BY <1>3, <2>2, <3>1, <3>2
  <2>5. PICK q \in 1..m : a[q] = b[k]
    BY <1>2, <1>3, <2>2
  <2>6. k < q
    <3>1. q # k
      BY <2>2, <2>5
    <3>2. ~(q < k)
      BY <1>5, <1>7, <2>2, <2>5
    <3>. QED
      BY <1>3, <2>2, <3>1, <3>2
  <2>7. key[b[k]] < key[a[k]]
    BY <1>1, <2>2, <2>3, <2>4
  <2>8. key[a[k]] < key[b[k]]
    BY <1>1, <2>2, <2>5, <2>6
  <2>9. key[a[k]] \in Int /\ key[b[k]] \in Int
    BY <1>3, <2>2
  <2>. QED
    BY <2>7, <2>8, <2>9
<1>. QED
  BY <1>1, <1>7, <1>8

\* The rules that the same snapshot holds come in one order, unless two have the same
\* priority.
LEMMA OneRuleOrder ==
  ASSUME NEW rules, NEW other, Ranked(rules), IsInjective(rules),
         Ranked(other), IsInjective(other), Range(rules) = Range(other),
         \A r, s \in Range(rules) : Row[r].priority = Row[s].priority => r = s
  PROVE  rules = other
<1>. DEFINE key == [r \in Range(rules) |-> Row[r].priority]
<1>1. rules \in Seq(Range(rules)) /\ other \in Seq(Range(other))
  BY DEF Ranked, Range
<1>2. \A r \in Range(rules) : r \in Rules /\ Row[r].priority \in Int
  <2>1. \A r \in Range(rules) : r \in Rules
    BY DEF Ranked, Range
  <2>. QED
    BY <2>1, ConstantsAssumption DEF IsRow
<1>3. \A r \in Range(rules) : key[r] = Row[r].priority
  OBVIOUS
<1>. HIDE DEF key
<1>4. ASSUME NEW list, Ranked(list), IsInjective(list), Range(list) = Range(rules),
             NEW i \in DOMAIN list, NEW j \in DOMAIN list, i < j
      PROVE  key[list[i]] < key[list[j]]
  <2>. DEFINE r == list[i]
              s == list[j]
  <2>1. r \in Range(rules) /\ s \in Range(rules) /\ Row[r].priority <= Row[s].priority
    BY <1>4 DEF Ranked, Range
  <2>2. i # j
    BY <1>4 DEF Ranked
  <2>3. r # s
    BY <1>4, <2>2 DEF IsInjective
  <2>. HIDE DEF r, s
  <2>4. Row[r].priority < Row[s].priority
    BY <1>2, <2>1, <2>3
  <2>5. key[r] < key[s]
    BY <1>3, <2>1, <2>4
  <2>. QED
    BY <2>5 DEF r, s
<1>5. \A r \in Range(rules) : key[r] \in Int
  BY <1>2, <1>3
<1>6. /\ \A i, j \in DOMAIN rules : i < j => key[rules[i]] < key[rules[j]]
      /\ \A i, j \in DOMAIN other : i < j => key[other[i]] < key[other[j]]
  BY <1>4
<1>. QED
  BY <1>1, <1>5, <1>6, SameList

\* What from_rows() returns.
IsPolicyList(list) ==
  /\ list \in Seq(Range(list)) /\ list # <<>>
  /\ ByName(list)
  /\ \A s \in Range(list) : s.name \in Int

\* The same strategies come in one order.
LEMMA OnePolicyOrder ==
  ASSUME NEW list, NEW other, IsPolicyList(list), IsPolicyList(other),
         Range(list) = Range(other)
  PROVE  list = other
<1>. DEFINE key == [s \in Range(list) |-> s.name]
<1>1. \A s \in Range(list) : key[s] = s.name /\ key[s] \in Int
  BY DEF IsPolicyList
<1>. HIDE DEF key
<1>2. /\ \A i \in DOMAIN list : list[i] \in Range(list)
      /\ \A i \in DOMAIN other : other[i] \in Range(list)
  BY DEF Range
<1>3. /\ \A i, j \in DOMAIN list : i < j => key[list[i]] < key[list[j]]
      /\ \A i, j \in DOMAIN other : i < j => key[other[i]] < key[other[j]]
  BY <1>1, <1>2 DEF IsPolicyList, ByName
<1>4. list \in Seq(Range(list)) /\ other \in Seq(Range(other))
  BY DEF IsPolicyList
<1>. QED
  BY <1>1, <1>3, <1>4, SameList

LEMMA FromRowsFacts ==
  ASSUME NEW rows \in Tables, NEW list \in FromRows(rows)
  PROVE  IsPolicyList(list)
<1>1. CASE rows = {}
  BY <1>1, ConstantsAssumption, DefaultAssumption DEF FromRows, IsPolicyList
<1>2. CASE rows # {}
  <2>1. list \in [1..Cardinality(rows) -> rows] /\ ByName(list)
    BY <1>2 DEF FromRows, SetToSeqs
  <2>2. Cardinality(rows) \in Nat /\ Cardinality(rows) # 0
    BY <1>2, ConstantsAssumption, FS_CardinalityType, FS_EmptySet
  <2>3. list \in Seq(Range(list)) /\ list # <<>>
    BY <2>1, <2>2 DEF Range
  <2>4. \A s \in Range(list) : s.name \in Int
    BY <2>1, ConstantsAssumption DEF Range
  <2>. QED
    BY <2>1, <2>3, <2>4 DEF IsPolicyList
<1>. QED
  BY <1>1, <1>2

-------------------------------------------------------------------------------
(* Verdicts.                                                               *)

\* The rules a message trips, in whatever order.
Tripped(rules, m) == {r \in Range(rules) : InScope(r, Stream[m]) /\ Matches(r, m)}

LEMMA HitsFacts ==
  ASSUME NEW rules, NEW m, Ranked(rules)
  PROVE  /\ Hits(rules, m) = <<>> => Tripped(rules, m) = {}
         /\ Hits(rules, m) # <<>> =>
              /\ Hits(rules, m)[1] \in Tripped(rules, m)
              /\ Hits(rules, m)[1] \in Rules
              /\ \A r \in Tripped(rules, m) :
                   Row[Hits(rules, m)[1]].priority <= Row[r].priority
<1>. DEFINE scoped == RulesFor(rules, Stream[m])
            hits == Hits(rules, m)
            inScope == {r \in Rules : InScope(r, Stream[m])}
            matching == {r \in Rules : Matches(r, m)}
<1>1. Range(rules) \subseteq Rules /\ rules \in Seq(Rules)
  BY DEF Ranked, Range
<1>2. Ranked(scoped) /\ scoped \in Seq(Rules) /\ Range(scoped) = Range(rules) \cap inScope
  <2>1. scoped = Only(rules, inScope)
    BY DEF RulesFor
  <2>. HIDE DEF scoped, inScope
  <2>. QED
    BY <1>1, <2>1, OnlyFacts, OnlyRanked
<1>3. Ranked(hits) /\ hits \in Seq(Rules) /\ Range(hits) = Range(scoped) \cap matching
  <2>1. hits = Only(scoped, matching)
    BY DEF Hits
  <2>. HIDE DEF hits, scoped, matching
  <2>. QED
    BY <1>2, <2>1, OnlyFacts, OnlyRanked
<1>4. Range(hits) = Tripped(rules, m)
  BY <1>1, <1>2, <1>3 DEF Tripped
<1>. HIDE DEF hits
<1>5. CASE hits = <<>>
  <2>1. Range(hits) = {}
    BY <1>5 DEF Range
  <2>. QED
    BY <1>4, <1>5, <2>1 DEF hits
<1>6. CASE hits # <<>>
  <2>1. 1 \in DOMAIN hits /\ hits[1] \in Rules
    BY <1>3, <1>6
  <2>2. hits[1] \in Tripped(rules, m)
    BY <1>4, <2>1 DEF Range
  <2>3. ASSUME NEW r \in Tripped(rules, m) PROVE Row[hits[1]].priority <= Row[r].priority
    <3>1. PICK k \in DOMAIN hits : hits[k] = r
      BY <1>4 DEF Range
    <3>2. k = 1 \/ 1 < k
      BY <1>3
    <3>3. Row[r].priority \in Int
      BY <1>3, <3>1, ConstantsAssumption DEF IsRow
    <3>4. CASE k = 1
      BY <3>1, <3>3, <3>4
    <3>5. CASE 1 < k
      BY <1>3, <2>1, <3>1, <3>5 DEF Ranked
    <3>. QED
      BY <3>2, <3>4, <3>5
  <2>. QED
    BY <1>6, <2>1, <2>2, <2>3 DEF hits
<1>. QED
  BY <1>5, <1>6 DEF hits

LEMMA RateSettingsType ==
  ASSUME NEW rules, NEW s, Ranked(rules)
  PROVE  RateSettings(rules, s).action \in Actions
<1>. DEFINE scoped == RulesFor(rules, s)
            limiting == {r \in Rules : Row[r].type = "frequency" /\ Row[r].threshold > 0}
            limits == Only(scoped, limiting)
<1>1. limits \in Seq(Rules)
  <2>1. rules \in Seq(Rules)
    BY DEF Ranked
  <2>2. scoped \in Seq(Rules)
    BY <2>1, OnlyFacts DEF RulesFor
  <2>. HIDE DEF scoped, limiting
  <2>. QED
    BY <2>2, OnlyFacts
<1>2. RateSettings(rules, s) = IF limits = <<>> THEN [limit |-> 10, action |-> "shadow"]
                               ELSE [limit |-> Row[limits[1]].threshold,
                                     action |-> Row[limits[1]].action]
  BY DEF RateSettings
<1>. HIDE DEF limits
<1>3. CASE limits = <<>>
  BY <1>2, <1>3 DEF Actions
<1>4. CASE limits # <<>>
  <2>1. limits[1] \in Rules
    BY <1>1, <1>4
  <2>2. Row[limits[1]].action \in Actions
    BY <2>1, ConstantsAssumption DEF IsRow
  <2>. QED
    BY <1>2, <1>4, <2>2
<1>. QED
  BY <1>3, <1>4

ModelReasons == {"ml_unavailable", "ml_toxic", "ml_uncertain", "clean"}

\* What the model's half decides.
LEMMA FromModelFacts ==
  ASSUME NEW list, NEW m, NEW score
  PROVE  LET v == FromModel(list, m, score)
         IN  /\ v.msg = m /\ v.action \in Actions /\ v.reason \in ModelReasons
             /\ score = NoScore => v.reason = "ml_unavailable" /\ v.action = "allow"
<1>. DEFINE action == FromScore(score, Pick(Stream[m], list), Risk[Author[m]])
<1>1. action \in {"allow", "delete", "escalate"} /\ (score = NoScore => action = "allow")
  BY DEF FromScore
<1>2. FromModel(list, m, score) = Verdict(m, list, action, ReasonFor(score, action), NoRule)
  BY DEF FromModel
<1>. HIDE DEF action
<1>3. /\ ReasonFor(score, action) \in ModelReasons
      /\ score = NoScore => ReasonFor(score, action) = "ml_unavailable"
  BY <1>1 DEF ReasonFor, ModelReasons
<1>. QED
  BY <1>1, <1>2, <1>3 DEF Verdict, Actions

\* What the cheap checks decide, of a message that they settle.
LEMMA CheapChecksFacts ==
  ASSUME NEW rules, NEW list, NEW m, NEW a, Ranked(rules), ~IsUnsettled(rules, m, a)
  PROVE  LET v == CheapChecks(rules, list, m, a)
         IN  /\ v.msg = m /\ v.action \in Actions
             /\ v.reason \in {"duplicate", "rate_limit", "raid_mode", "rule_match"}
             /\ v.reason = "rule_match" =>
                  /\ v.rule \in Tripped(rules, m) /\ v.action = Row[v.rule].action
                  /\ \A r \in Tripped(rules, m) : Row[v.rule].priority <= Row[r].priority
             /\ v.action = "escalate" /\ IsNewAccount(m) /\ Stream[m] \in a.raiding =>
                  v.reason = "rate_limit"
<1>. DEFINE v == CheapChecks(rules, list, m, a)
            top == Hits(rules, m)[1]
<1>1. CASE m \in a.duplicate
  <2>1. v = Verdict(m, list, "delete", "duplicate", NoRule)
    BY <1>1 DEF CheapChecks
  <2>. HIDE DEF v
  <2>2. v.msg = m /\ v.action = "delete" /\ v.reason = "duplicate"
    BY <2>1 DEF Verdict
  <2>. QED
    BY <2>2 DEF v, Actions
<1>2. CASE m \notin a.duplicate /\ m \in a.over
  <2>1. v = Verdict(m, list, RateSettings(rules, Stream[m]).action, "rate_limit", NoRule)
    BY <1>2 DEF CheapChecks
  <2>. HIDE DEF v
  <2>2. v.msg = m /\ v.action \in Actions /\ v.reason = "rate_limit"
    BY <2>1, RateSettingsType DEF Verdict
  <2>. QED
    BY <2>2 DEF v
<1>3. CASE m \notin a.duplicate /\ m \notin a.over /\ IsNewAccount(m) /\ Stream[m] \in a.raiding
  <2>1. v = Verdict(m, list, "shadow", "raid_mode", NoRule)
    BY <1>3 DEF CheapChecks
  <2>. HIDE DEF v
  <2>2. v.msg = m /\ v.action = "shadow" /\ v.reason = "raid_mode"
    BY <2>1 DEF Verdict
  <2>. QED
    BY <2>2 DEF v, Actions
<1>4. CASE /\ m \notin a.duplicate /\ m \notin a.over
           /\ ~(IsNewAccount(m) /\ Stream[m] \in a.raiding)
  <2>1. v = Verdict(m, list, Row[top].action, "rule_match", top)
    BY <1>4 DEF CheapChecks
  <2>2. Hits(rules, m) # <<>>
    BY <1>4 DEF IsUnsettled
  <2>3. /\ top \in Tripped(rules, m) /\ top \in Rules
        /\ \A r \in Tripped(rules, m) : Row[top].priority <= Row[r].priority
    BY <2>2, HitsFacts
  <2>4. Row[top].action \in Actions
    BY <2>3, ConstantsAssumption DEF IsRow
  <2>. HIDE DEF v, top
  <2>5. v.msg = m /\ v.action = Row[top].action /\ v.reason = "rule_match" /\ v.rule = top
    BY <2>1 DEF Verdict
  <2>. QED
    BY <1>4, <2>3, <2>4, <2>5 DEF v
<1>. QED
  BY <1>1, <1>2, <1>3, <1>4

\* One list after another.
LEMMA Concatenation ==
  ASSUME NEW s, NEW t, s \in Seq(Range(s)), t \in Seq(Range(t))
  PROVE  Len(s \o t) = Len(s) + Len(t) /\ Range(s \o t) = Range(s) \cup Range(t)
<1>. DEFINE st == s \o t
<1>1. /\ Len(s) \in Nat /\ DOMAIN s = 1..Len(s)
      /\ Len(t) \in Nat /\ DOMAIN t = 1..Len(t)
  OBVIOUS
<1>2. /\ s \in Seq(Range(s) \cup Range(t))
      /\ t \in Seq(Range(s) \cup Range(t))
  OBVIOUS
<1>3. /\ Len(st) = Len(s) + Len(t)
      /\ DOMAIN st = 1..(Len(s) + Len(t))
      /\ \A i \in 1..Len(s) : st[i] = s[i]
      /\ \A i \in 1..Len(t) : st[Len(s) + i] = t[i]
  BY <1>1, <1>2
<1>. HIDE DEF st
<1>4. ASSUME NEW x \in Range(st) PROVE x \in Range(s) \cup Range(t)
  <2>1. PICK i \in 1..(Len(s) + Len(t)) : st[i] = x
    BY <1>3, <1>4 DEF Range
  <2>2. CASE i \in 1..Len(s)
    BY <1>1, <1>3, <2>1, <2>2 DEF Range
  <2>3. CASE i \notin 1..Len(s)
    <3>1. i - Len(s) \in 1..Len(t) /\ Len(s) + (i - Len(s)) = i
      BY <1>1, <2>3
    <3>2. t[i - Len(s)] = x
      BY <1>3, <2>1, <3>1
    <3>. QED
      BY <1>1, <3>1, <3>2 DEF Range
  <2>. QED
    BY <2>2, <2>3
<1>5. ASSUME NEW x \in Range(s) PROVE x \in Range(st)
  <2>1. PICK i \in 1..Len(s) : s[i] = x
    BY <1>1 DEF Range
  <2>2. i \in DOMAIN st /\ st[i] = x
    BY <1>1, <1>3, <2>1
  <2>. QED
    BY <2>2 DEF Range
<1>6. ASSUME NEW x \in Range(t) PROVE x \in Range(st)
  <2>1. PICK i \in 1..Len(t) : t[i] = x
    BY <1>1 DEF Range
  <2>2. Len(s) + i \in DOMAIN st /\ st[Len(s) + i] = x
    BY <1>1, <1>3, <2>1
  <2>. QED
    BY <2>2 DEF Range
<1>. QED
  BY <1>3, <1>4, <1>5, <1>6 DEF st

\* Where the verdict on a message comes from.
IsVerdictOn(m, v, rules, list, a) ==
  \/ ~IsUnsettled(rules, m, a) /\ v = CheapChecks(rules, list, m, a)
  \/ /\ IsUnsettled(rules, m, a)
     /\ \E score : (~a.modelAnswers => score = NoScore) /\ v = FromModel(list, m, score)

\* There are as many verdicts as messages, every message has one and no verdict is on
\* anything else.
LEMMA EvaluateFacts ==
  ASSUME NEW rules, NEW list, NEW model, NEW messages \in Seq(Messages), NEW a
  PROVE  LET decided == Evaluate(rules, list, model, messages, a)
         IN  /\ Len(decided) = Len(messages)
             /\ \A v \in Range(decided) : \E m \in Range(messages) : IsVerdictOn(m, v, rules, list, a)
             /\ \A m \in Range(messages) : \E v \in Range(decided) : IsVerdictOn(m, v, rules, list, a)
<1>. DEFINE unsettled == {m \in Messages : IsUnsettled(rules, m, a)}
            settled == Only(messages, Messages \ unsettled)
            needsModel == Only(messages, unsettled)
            scores == ScoreBatch(model, needsModel, a.modelAnswers)
            cheap == [i \in DOMAIN settled |-> CheapChecks(rules, list, settled[i], a)]
            costly == [i \in DOMAIN scores |-> FromModel(list, needsModel[i], scores[i])]
            decided == Evaluate(rules, list, model, messages, a)
<1>1. decided = cheap \o costly
  BY DEF Evaluate
<1>. DEFINE I == {i \in DOMAIN messages : messages[i] \in Messages \ unsettled}
            J == {i \in DOMAIN messages : messages[i] \in unsettled}
<1>2. /\ settled \in Seq(Messages) /\ IsFiniteSet(I) /\ Len(settled) = Cardinality(I)
      /\ Range(settled) = Range(messages) \cap (Messages \ unsettled)
      /\ needsModel \in Seq(Messages) /\ IsFiniteSet(J) /\ Len(needsModel) = Cardinality(J)
      /\ Range(needsModel) = Range(messages) \cap unsettled
  <2>. HIDE DEF unsettled
  <2>1. I = Chosen(messages, Messages \ unsettled) /\ J = Chosen(messages, unsettled)
    BY DEF Chosen
  <2>. HIDE DEF I, J
  <2>2. /\ settled \in Seq(Messages) /\ IsFiniteSet(I) /\ Len(settled) = Cardinality(I)
        /\ Range(settled) = Range(messages) \cap (Messages \ unsettled)
    BY <2>1, OnlyFacts
  <2>3. /\ needsModel \in Seq(Messages) /\ IsFiniteSet(J) /\ Len(needsModel) = Cardinality(J)
        /\ Range(needsModel) = Range(messages) \cap unsettled
    BY <2>1, OnlyFacts
  <2>. QED
    BY <2>2, <2>3
<1>3. Range(messages) \subseteq Messages /\ DOMAIN messages = 1..Len(messages)
      /\ Len(messages) \in Nat
  BY DEF Range
<1>4. Cardinality(I) + Cardinality(J) = Len(messages)
  <2>1. I \cup J = 1..Len(messages) /\ I \cap J = {}
    BY <1>3
  <2>. DEFINE n == Len(messages)
  <2>2. Cardinality(1..n) = n
    <3>1. n \in Nat
      BY <1>3
    <3>. HIDE DEF n
    <3>. QED
      BY <3>1, FS_Interval
  <2>3. Cardinality(I) \in Nat /\ Cardinality(J) \in Nat
    BY <1>2, FS_CardinalityType
  <2>. HIDE DEF I, J, n
  <2>4. Cardinality(I \cup J) = Cardinality(I) + Cardinality(J) - Cardinality(I \cap J)
    BY <1>2, FS_Union
  <2>5. Cardinality(I \cap J) = 0
    BY <2>1, FS_EmptySet
  <2>6. Cardinality(I \cup J) = n
    BY <2>1, <2>2 DEF n
  <2>7. Cardinality(I) + Cardinality(J) = n
    BY <2>3, <2>4, <2>5, <2>6
  <2>. QED
    BY <2>7 DEF n
<1>5. \A m \in Range(messages) : m \in unsettled <=> IsUnsettled(rules, m, a)
  BY <1>3
<1>6. /\ DOMAIN scores = DOMAIN needsModel
      /\ ~a.modelAnswers => \A i \in DOMAIN scores : scores[i] = NoScore
  BY DEF ScoreBatch
<1>. HIDE DEF I, J, unsettled, settled, needsModel, scores
<1>7. /\ DOMAIN cheap = 1..Len(settled) /\ DOMAIN costly = 1..Len(needsModel)
      /\ Len(settled) \in Nat /\ Len(needsModel) \in Nat
  BY <1>2, <1>6
<1>8. cheap \in Seq(Range(cheap)) /\ Len(cheap) = Len(settled)
  BY <1>7 DEF Range
<1>9. costly \in Seq(Range(costly)) /\ Len(costly) = Len(needsModel)
  BY <1>7 DEF Range
<1>10. ASSUME NEW v \in Range(cheap)
       PROVE  \E m \in Range(messages) : IsVerdictOn(m, v, rules, list, a)
  <2>1. PICK i \in DOMAIN settled : v = CheapChecks(rules, list, settled[i], a)
    BY DEF Range
  <2>2. settled[i] \in Range(settled)
    BY DEF Range
  <2>3. settled[i] \in Range(messages) /\ ~IsUnsettled(rules, settled[i], a)
    BY <1>2, <1>5, <2>2
  <2>. QED
    BY <2>1, <2>3 DEF IsVerdictOn
<1>11. ASSUME NEW v \in Range(costly)
       PROVE  \E m \in Range(messages) : IsVerdictOn(m, v, rules, list, a)
  <2>1. PICK i \in DOMAIN scores : v = FromModel(list, needsModel[i], scores[i])
    BY DEF Range
  <2>2. needsModel[i] \in Range(needsModel)
    BY <1>6 DEF Range
  <2>3. needsModel[i] \in Range(messages) /\ IsUnsettled(rules, needsModel[i], a)
    BY <1>2, <1>5, <2>2
  <2>. QED
    BY <1>6, <2>1, <2>3 DEF IsVerdictOn
<1>12. ASSUME NEW m \in Range(messages)
       PROVE  \E v \in Range(cheap) \cup Range(costly) : IsVerdictOn(m, v, rules, list, a)
  <2>1. CASE IsUnsettled(rules, m, a)
    <3>1. PICK i \in DOMAIN needsModel : needsModel[i] = m
      <4>1. m \in Range(needsModel)
        BY <1>2, <1>5, <2>1
      <4>. QED
        BY <4>1 DEF Range
    <3>2. costly[i] = FromModel(list, m, scores[i]) /\ costly[i] \in Range(costly)
      BY <1>6, <3>1 DEF Range
    <3>3. ~a.modelAnswers => scores[i] = NoScore
      BY <1>6
    <3>. HIDE DEF costly, cheap
    <3>. QED
      BY <2>1, <3>2, <3>3 DEF IsVerdictOn
  <2>2. CASE ~IsUnsettled(rules, m, a)
    <3>1. PICK i \in DOMAIN settled : settled[i] = m
      <4>1. m \in Range(settled)
        BY <1>2, <1>3, <1>5, <2>2
      <4>. QED
        BY <4>1 DEF Range
    <3>2. cheap[i] = CheapChecks(rules, list, m, a) /\ cheap[i] \in Range(cheap)
      BY <3>1 DEF Range
    <3>. HIDE DEF costly, cheap
    <3>. QED
      BY <2>2, <3>2 DEF IsVerdictOn
  <2>. QED
    BY <2>1, <2>2
<1>. HIDE DEF cheap, costly, decided
<1>13. Len(decided) = Len(cheap) + Len(costly) /\ Range(decided) = Range(cheap) \cup Range(costly)
  BY <1>1, <1>8, <1>9, Concatenation
<1>14. Len(decided) = Len(messages)
  BY <1>2, <1>4, <1>8, <1>9, <1>13
<1>. QED
  BY <1>10, <1>11, <1>12, <1>13, <1>14 DEF decided

\* What a verdict says.
LEMMA VerdictFacts ==
  ASSUME NEW m, NEW v, NEW rules, NEW list, NEW a, Ranked(rules),
         IsVerdictOn(m, v, rules, list, a)
  PROVE  /\ v.msg = m /\ v.action \in Actions /\ v.reason \in Reasons
         /\ v.reason = "rule_match" =>
              /\ v.rule \in Tripped(rules, m) /\ v.action = Row[v.rule].action
              /\ \A r \in Tripped(rules, m) : Row[v.rule].priority <= Row[r].priority
         /\ v.reason \in ModelReasons => Tripped(rules, m) = {}
         /\ ~a.modelAnswers =>
              \/ v.reason \in {"duplicate", "rate_limit", "raid_mode", "rule_match"}
              \/ v.reason = "ml_unavailable" /\ v.action = "allow"
         /\ v.action = "escalate" /\ IsNewAccount(m) /\ Stream[m] \in a.raiding =>
              v.reason = "rate_limit"
<1>1. CASE ~IsUnsettled(rules, m, a)
  <2>. DEFINE c == CheapChecks(rules, list, m, a)
  <2>1. v = c
    BY <1>1 DEF IsVerdictOn
  <2>2. /\ c.msg = m /\ c.action \in Actions
        /\ c.reason \in {"duplicate", "rate_limit", "raid_mode", "rule_match"}
        /\ c.reason = "rule_match" =>
             /\ c.rule \in Tripped(rules, m) /\ c.action = Row[c.rule].action
             /\ \A r \in Tripped(rules, m) : Row[c.rule].priority <= Row[r].priority
        /\ c.action = "escalate" /\ IsNewAccount(m) /\ Stream[m] \in a.raiding =>
             c.reason = "rate_limit"
    BY <1>1, CheapChecksFacts
  <2>. HIDE DEF c
  <2>3. c.reason \in Reasons /\ c.reason \notin ModelReasons
    BY <2>2 DEF Reasons, ModelReasons
  <2>. QED
    BY <2>1, <2>2, <2>3
<1>2. CASE IsUnsettled(rules, m, a)
  <2>1. PICK score : (~a.modelAnswers => score = NoScore) /\ v = FromModel(list, m, score)
    BY <1>2 DEF IsVerdictOn
  <2>2. /\ v.msg = m /\ v.action \in Actions /\ v.reason \in ModelReasons
        /\ score = NoScore => v.reason = "ml_unavailable" /\ v.action = "allow"
    <3>. DEFINE f == FromModel(list, m, score)
    <3>1. /\ f.msg = m /\ f.action \in Actions /\ f.reason \in ModelReasons
          /\ score = NoScore => f.reason = "ml_unavailable" /\ f.action = "allow"
      BY FromModelFacts
    <3>2. v = f
      BY <2>1
    <3>. HIDE DEF f
    <3>. QED
      BY <3>1, <3>2
  <2>3. v.reason \in Reasons /\ v.reason # "rule_match"
    BY <2>2 DEF Reasons, ModelReasons
  <2>4. Tripped(rules, m) = {}
    BY <1>2, HitsFacts DEF IsUnsettled
  <2>5. ~(IsNewAccount(m) /\ Stream[m] \in a.raiding)
    BY <1>2 DEF IsUnsettled
  <2>. QED
    BY <2>1, <2>2, <2>3, <2>4, <2>5
<1>. QED
  BY <1>1, <1>2

-------------------------------------------------------------------------------
(* The workers.                                                            *)

\* A snapshot is ranked and has no rule twice.
LEMMA SnapshotFacts ==
  ASSUME NEW rules \in Snapshots
  PROVE  Ranked(rules) /\ IsInjective(rules)
<1>1. PICK rows \in RowOrders : rules = Sorted(Only(rows, enabled))
  BY DEF Snapshots
<1>2. rows \in [1..Cardinality(Rules) -> Rules] /\ IsInjective(rows)
  BY ConstantsAssumption DEF SetToSeqs, IsInjective
<1>3. rows \in Seq(Rules)
  <2>1. Cardinality(Rules) \in Nat
    BY ConstantsAssumption, FS_CardinalityType
  <2>. QED
    BY <1>2, <2>1
<1>. DEFINE switchedOn == Only(rows, enabled)
<1>4. switchedOn \in Seq(Rules) /\ IsInjective(switchedOn)
  BY <1>2, <1>3, OnlyFacts, OnlyInjective
<1>5. rules = Sorted(switchedOn)
  BY <1>1
<1>. HIDE DEF switchedOn
<1>. QED
  BY <1>4, <1>5, SortedFacts

LEMMA BatchFacts ==
  ASSUME NEW messages \in Batches
  PROVE  messages \in Seq(Messages)
<1>1. PICK M \in SUBSET Messages : messages \in SetToSeqs(M)
  BY DEF Batches
<1>2. Cardinality(M) \in Nat
  BY ConstantsAssumption, FS_Subset, FS_CardinalityType
<1>. QED
  BY <1>1, <1>2 DEF SetToSeqs

\* What a worker knows.
IsMemory(rules, list, model, answering) ==
  /\ Ranked(rules) /\ IsInjective(rules)
  /\ IsPolicyList(list)
  /\ model \in Models /\ answering \in BOOLEAN

\* What it holds: nothing, or the verdicts that follow from what it knows and was told.
IsWork(now, rules, list, model, batch) ==
  \/ now # "judged" /\ batch = Nothing
  \/ /\ now = "judged"
     /\ batch.messages \in Seq(Messages)
     /\ batch.decided = Evaluate(rules, list, model, batch.messages, batch.answer)

OfWorkers(f) == f = [w \in Workers |-> f[w]]

AsEvaluated ==
  /\ enabled \subseteq Rules /\ table \in Tables
  /\ toggles \in Nat /\ edits \in Nat
  /\ stage \in [Workers -> {"down", "idle", "judged"}]
  /\ OfWorkers(engine) /\ OfWorkers(strategies) /\ OfWorkers(backend)
  /\ OfWorkers(healthy) /\ OfWorkers(work)
  /\ \A w \in Workers :
       /\ IsMemory(engine[w], strategies[w], backend[w], healthy[w])
       /\ IsWork(stage[w], engine[w], strategies[w], backend[w], work[w])

\* What a worker knows before it has read anything.
LEMMA EmptyMemory == IsMemory(<<>>, DEFAULT, "lexicon", TRUE)
<1>1. Ranked(<<>>) /\ IsInjective(<<>>)
  BY DEF Ranked, IsInjective
<1>2. IsPolicyList(DEFAULT)
  BY ConstantsAssumption, DefaultAssumption DEF IsPolicyList
<1>. QED
  BY <1>1, <1>2 DEF IsMemory, Models

LEMMA AsEvaluatedInit == Init => AsEvaluated
<1>. SUFFICES ASSUME Init PROVE AsEvaluated
  OBVIOUS
<1>1. \A w \in Workers :
        /\ stage[w] = "down" /\ work[w] = Nothing
        /\ engine[w] = <<>> /\ strategies[w] = DEFAULT
        /\ backend[w] = "lexicon" /\ healthy[w] = TRUE
  BY DEF Init
<1>2. \A w \in Workers : IsMemory(engine[w], strategies[w], backend[w], healthy[w])
  BY <1>1, EmptyMemory
<1>3. \A w \in Workers : IsWork(stage[w], engine[w], strategies[w], backend[w], work[w])
  BY <1>1 DEF IsWork
<1>4. /\ enabled \subseteq Rules /\ table \in Tables /\ toggles \in Nat /\ edits \in Nat
      /\ stage \in [Workers -> {"down", "idle", "judged"}]
      /\ OfWorkers(engine) /\ OfWorkers(strategies) /\ OfWorkers(backend)
      /\ OfWorkers(healthy) /\ OfWorkers(work)
  BY ConstantsAssumption DEF Init, OfWorkers
<1>. QED
  BY <1>2, <1>3, <1>4 DEF AsEvaluated

\* A step of one worker leaves the others as they are.
LEMMA OneWorkerSteps ==
  ASSUME AsEvaluated, NEW w \in Workers, UNCHANGED tables,
         NEW now \in {"down", "idle", "judged"}, NEW rules, NEW list, NEW model,
         NEW answering, NEW batch,
         stage' = [stage EXCEPT ![w] = now],
         engine' = [engine EXCEPT ![w] = rules],
         strategies' = [strategies EXCEPT ![w] = list],
         backend' = [backend EXCEPT ![w] = model],
         healthy' = [healthy EXCEPT ![w] = answering],
         work' = [work EXCEPT ![w] = batch],
         IsMemory(rules, list, model, answering),
         IsWork(now, rules, list, model, batch)
  PROVE  AsEvaluated'
<1>1. /\ enabled' \subseteq Rules /\ table' \in Tables /\ toggles' \in Nat /\ edits' \in Nat
      /\ stage' \in [Workers -> {"down", "idle", "judged"}]
      /\ OfWorkers(engine') /\ OfWorkers(strategies') /\ OfWorkers(backend')
      /\ OfWorkers(healthy') /\ OfWorkers(work')
  BY DEF AsEvaluated, OfWorkers, tables
<1>2. ASSUME NEW u \in Workers
      PROVE  /\ IsMemory(engine'[u], strategies'[u], backend'[u], healthy'[u])
             /\ IsWork(stage'[u], engine'[u], strategies'[u], backend'[u], work'[u])
  <2>1. CASE u = w
    <3>1. /\ stage'[u] = now /\ engine'[u] = rules /\ strategies'[u] = list
          /\ backend'[u] = model /\ healthy'[u] = answering /\ work'[u] = batch
      BY <2>1 DEF AsEvaluated, OfWorkers
    <3>. QED
      BY <3>1
  <2>2. CASE u # w
    <3>1. /\ stage'[u] = stage[u] /\ engine'[u] = engine[u] /\ strategies'[u] = strategies[u]
          /\ backend'[u] = backend[u] /\ healthy'[u] = healthy[u] /\ work'[u] = work[u]
      BY <2>2 DEF AsEvaluated, OfWorkers
    <3>. QED
      BY <3>1 DEF AsEvaluated
  <2>. QED
    BY <2>1, <2>2
<1>. QED
  BY <1>1, <1>2 DEF AsEvaluated

LEMMA AsEvaluatedStep == AsEvaluated /\ [Next]_vars => AsEvaluated'
<1>. SUFFICES ASSUME AsEvaluated, [Next]_vars PROVE AsEvaluated'
  OBVIOUS
<1>1. ASSUME NEW w \in Workers
      PROVE  /\ stage = [stage EXCEPT ![w] = stage[w]]
             /\ engine = [engine EXCEPT ![w] = engine[w]]
             /\ strategies = [strategies EXCEPT ![w] = strategies[w]]
             /\ backend = [backend EXCEPT ![w] = backend[w]]
             /\ healthy = [healthy EXCEPT ![w] = healthy[w]]
             /\ work = [work EXCEPT ![w] = work[w]]
  BY DEF AsEvaluated, OfWorkers
<1>2. ASSUME NEW w \in Workers, Start(w) PROVE AsEvaluated'
  <2>1. PICK rules \in Snapshots : engine' = [engine EXCEPT ![w] = rules]
    BY <1>2 DEF Start
  <2>2. PICK list \in FromRows(table) : strategies' = [strategies EXCEPT ![w] = list]
    BY <1>2 DEF Start
  <2>3. PICK model \in Models : backend' = [backend EXCEPT ![w] = model]
    BY <1>2 DEF Start
  <2>4. IsMemory(rules, list, model, TRUE)
    BY SnapshotFacts, FromRowsFacts DEF IsMemory, AsEvaluated
  <2>5. IsWork("idle", rules, list, model, work[w])
    BY <1>2 DEF AsEvaluated, IsWork, Start
  <2>6. /\ stage' = [stage EXCEPT ![w] = "idle"] /\ UNCHANGED tables
        /\ healthy' = [healthy EXCEPT ![w] = TRUE]
        /\ work' = [work EXCEPT ![w] = work[w]]
    BY <1>1, <1>2 DEF Start
  <2>. QED
    BY <2>1, <2>2, <2>3, <2>4, <2>5, <2>6, OneWorkerSteps
<1>3. ASSUME NEW w \in Workers, EvaluateBatch(w) PROVE AsEvaluated'
  <2>1. PICK rules \in {engine[w]} \cup Snapshots, messages \in Batches :
          \E a \in Answers(backend[w], messages) :
            /\ engine' = [engine EXCEPT ![w] = rules]
            /\ healthy' = [healthy EXCEPT ![w] = ModelAnswers(rules, messages, a)]
            /\ work' = [work EXCEPT
                 ![w] = [messages |-> messages, answer |-> a,
                         decided |-> Evaluate(rules, strategies[w], backend[w], messages, a)]]
    BY <1>3 DEF EvaluateBatch
  <2>2. PICK a \in Answers(backend[w], messages) :
            /\ engine' = [engine EXCEPT ![w] = rules]
            /\ healthy' = [healthy EXCEPT ![w] = ModelAnswers(rules, messages, a)]
            /\ work' = [work EXCEPT
                 ![w] = [messages |-> messages, answer |-> a,
                         decided |-> Evaluate(rules, strategies[w], backend[w], messages, a)]]
    BY <2>1
  <2>3. Ranked(rules) /\ IsInjective(rules)
    BY SnapshotFacts DEF AsEvaluated, IsMemory
  <2>4. ModelAnswers(rules, messages, a) \in BOOLEAN
    BY DEF ModelAnswers
  <2>5. IsMemory(rules, strategies[w], backend[w], ModelAnswers(rules, messages, a))
    BY <2>3, <2>4 DEF AsEvaluated, IsMemory
  <2>. DEFINE batch == [messages |-> messages, answer |-> a,
                        decided |-> Evaluate(rules, strategies[w], backend[w], messages, a)]
  <2>6. IsWork("judged", rules, strategies[w], backend[w], batch)
    BY BatchFacts DEF IsWork
  <2>7. /\ stage' = [stage EXCEPT ![w] = "judged"] /\ UNCHANGED tables
        /\ strategies' = [strategies EXCEPT ![w] = strategies[w]]
        /\ backend' = [backend EXCEPT ![w] = backend[w]]
    BY <1>1, <1>3 DEF EvaluateBatch, memory
  <2>. HIDE DEF batch
  <2>8. work' = [work EXCEPT ![w] = batch]
    BY <2>2 DEF batch
  <2>. QED
    BY <2>2, <2>5, <2>6, <2>7, <2>8, OneWorkerSteps
<1>4. ASSUME NEW w \in Workers, HandOver(w) PROVE AsEvaluated'
  <2>1. IsMemory(engine[w], strategies[w], backend[w], healthy[w])
    BY DEF AsEvaluated
  <2>2. IsWork("idle", engine[w], strategies[w], backend[w], Nothing)
    BY DEF IsWork
  <2>3. /\ stage' = [stage EXCEPT ![w] = "idle"] /\ UNCHANGED tables
        /\ engine' = [engine EXCEPT ![w] = engine[w]]
        /\ strategies' = [strategies EXCEPT ![w] = strategies[w]]
        /\ backend' = [backend EXCEPT ![w] = backend[w]]
        /\ healthy' = [healthy EXCEPT ![w] = healthy[w]]
        /\ work' = [work EXCEPT ![w] = Nothing]
    BY <1>1, <1>4 DEF HandOver, memory
  <2>. QED
    BY <2>1, <2>2, <2>3, OneWorkerSteps
<1>5. ASSUME NEW w \in Workers, Stop(w) PROVE AsEvaluated'
  <2>1. IsWork("down", <<>>, DEFAULT, "lexicon", Nothing)
    BY DEF IsWork
  <2>2. /\ stage' = [stage EXCEPT ![w] = "down"] /\ UNCHANGED tables
        /\ engine' = [engine EXCEPT ![w] = <<>>]
        /\ strategies' = [strategies EXCEPT ![w] = DEFAULT]
        /\ backend' = [backend EXCEPT ![w] = "lexicon"]
        /\ healthy' = [healthy EXCEPT ![w] = TRUE]
        /\ work' = [work EXCEPT ![w] = Nothing]
    BY <1>5 DEF Stop
  <2>. QED
    BY <2>1, <2>2, EmptyMemory, OneWorkerSteps
<1>6. ASSUME NEW r \in Rules, NEW flag \in BOOLEAN, SetRuleEnabled(r, flag) PROVE AsEvaluated'
  <2>1. enabled' \subseteq Rules /\ toggles' \in Nat
    BY <1>6 DEF SetRuleEnabled, AsEvaluated
  <2>2. UNCHANGED <<table, edits, stage, engine, strategies, backend, healthy, work>>
    BY <1>6 DEF SetRuleEnabled, memory
  <2>. QED
    BY <2>1, <2>2 DEF AsEvaluated
<1>7. CASE EditStrategies
  <2>1. table' \in Tables /\ edits' \in Nat
    BY <1>7 DEF EditStrategies, AsEvaluated
  <2>2. UNCHANGED <<enabled, toggles, stage, engine, strategies, backend, healthy, work>>
    BY <1>7 DEF EditStrategies, memory
  <2>. QED
    BY <2>1, <2>2 DEF AsEvaluated
<1>8. CASE UNCHANGED vars
  BY <1>8 DEF AsEvaluated, vars, tables, memory
<1>. QED
  BY <1>2, <1>3, <1>4, <1>5, <1>6, <1>7, <1>8 DEF Next

\* A worker's rules are ranked and without repetition, its strategies are sorted by name,
\* and what it hands over is exactly what the funnel makes of what it knows and was told.
THEOREM AsEvaluatedInvariant == Spec => []AsEvaluated
<1>. QED
  BY AsEvaluatedInit, AsEvaluatedStep, PTL DEF Spec

-------------------------------------------------------------------------------
(* The properties.                                                         *)

\* The verdicts that a worker holds, and the messages they are on.
LEMMA HeldVerdicts ==
  ASSUME AsEvaluated, NEW w \in Workers
  PROVE  /\ Ranked(engine[w])
         /\ Len(work[w].decided) = Len(work[w].messages)
         /\ Range(work[w].messages) \subseteq Messages
         /\ \A v \in Range(work[w].decided) : \E m \in Range(work[w].messages) :
              IsVerdictOn(m, v, engine[w], strategies[w], work[w].answer)
         /\ \A m \in Range(work[w].messages) : \E v \in Range(work[w].decided) :
              IsVerdictOn(m, v, engine[w], strategies[w], work[w].answer)
         /\ stage[w] # "judged" => Range(work[w].messages) = {}
<1>1. Ranked(engine[w])
  BY DEF AsEvaluated, IsMemory
<1>2. CASE stage[w] # "judged"
  <2>1. work[w] = Nothing
    BY <1>2 DEF AsEvaluated, IsWork
  <2>2. work[w].messages = <<>> /\ work[w].decided = <<>>
    BY <2>1 DEF Nothing
  <2>3. Range(work[w].messages) = {} /\ Range(work[w].decided) = {}
    BY <2>2 DEF Range
  <2>. QED
    BY <1>1, <2>2, <2>3
<1>3. CASE stage[w] = "judged"
  <2>1. /\ work[w].messages \in Seq(Messages)
        /\ work[w].decided = Evaluate(engine[w], strategies[w], backend[w],
                                      work[w].messages, work[w].answer)
    BY <1>3 DEF AsEvaluated, IsWork
  <2>. DEFINE messages == work[w].messages
              a == work[w].answer
              decided == Evaluate(engine[w], strategies[w], backend[w], messages, a)
  <2>2. /\ Len(decided) = Len(messages)
        /\ \A v \in Range(decided) : \E m \in Range(messages) :
             IsVerdictOn(m, v, engine[w], strategies[w], a)
        /\ \A m \in Range(messages) : \E v \in Range(decided) :
             IsVerdictOn(m, v, engine[w], strategies[w], a)
    <3>1. messages \in Seq(Messages)
      BY <2>1
    <3>. HIDE DEF messages, a
    <3>. QED
      BY <3>1, EvaluateFacts
  <2>3. Range(messages) \subseteq Messages
    BY <2>1 DEF Range
  <2>. QED
    BY <1>1, <1>3, <2>1, <2>2, <2>3
<1>. QED
  BY <1>2, <1>3

\* Every variable keeps its type, and every verdict is on a message, with an action and a
\* reason that table decisions knows.
THEOREM TypeCorrect == Spec => []TypeOK
<1>1. AsEvaluated => TypeOK
  <2>. SUFFICES ASSUME AsEvaluated PROVE TypeOK
    OBVIOUS
  <2>1. ASSUME NEW w \in Workers
        PROVE  /\ Range(engine[w]) \subseteq Rules /\ IsInjective(engine[w])
               /\ strategies[w] # <<>>
               /\ backend[w] \in Models /\ healthy[w] \in BOOLEAN
    <3>1. IsMemory(engine[w], strategies[w], backend[w], healthy[w])
      BY DEF AsEvaluated
    <3>2. Range(engine[w]) \subseteq Rules
      BY <3>1 DEF IsMemory, Ranked, Range
    <3>. QED
      BY <3>1, <3>2 DEF IsMemory, IsPolicyList
  <2>2. ASSUME NEW w \in Workers, NEW v \in Range(work[w].decided)
        PROVE  v.msg \in Messages /\ v.action \in Actions /\ v.reason \in Reasons
    <3>1. PICK m \in Range(work[w].messages) :
            IsVerdictOn(m, v, engine[w], strategies[w], work[w].answer)
      BY <2>2, HeldVerdicts
    <3>2. m \in Messages /\ Ranked(engine[w])
      BY HeldVerdicts
    <3>. QED
      BY <3>1, <3>2, VerdictFacts
  <2>. QED
    BY <2>1, <2>2 DEF AsEvaluated, TypeOK
<1>. QED
  BY <1>1, AsEvaluatedInvariant, PTL

\* It does not matter which worker gets a message, unless two rules have one priority.
THEOREM AnyWorkerWillDo == Spec => []WorkersAgree
<1>1. AsEvaluated => WorkersAgree
  <2>. SUFFICES ASSUME AsEvaluated, NEW w \in Workers, NEW v \in Workers,
                       stage[w] = "judged", Knows(v, w), NoTies(w)
                PROVE  Evaluate(engine[v], strategies[v], backend[v],
                                work[w].messages, work[w].answer) = work[w].decided
    BY DEF WorkersAgree
  <2>1. /\ IsMemory(engine[w], strategies[w], backend[w], healthy[w])
        /\ IsMemory(engine[v], strategies[v], backend[v], healthy[v])
    BY DEF AsEvaluated
  <2>2. engine[v] = engine[w]
    <3>1. \A r, s \in Range(engine[w]) : Row[r].priority = Row[s].priority => r = s
      BY DEF NoTies
    <3>2. Range(engine[v]) = Range(engine[w])
      BY DEF Knows
    <3>. QED
      BY <2>1, <3>1, <3>2, OneRuleOrder DEF IsMemory
  <2>3. strategies[v] = strategies[w]
    <3>1. Range(strategies[v]) = Range(strategies[w])
      BY DEF Knows
    <3>. QED
      BY <2>1, <3>1, OnePolicyOrder DEF IsMemory
  <2>4. backend[v] = backend[w]
    BY DEF Knows
  <2>5. work[w].decided = Evaluate(engine[w], strategies[w], backend[w],
                                   work[w].messages, work[w].answer)
    BY DEF AsEvaluated, IsWork
  <2>. QED
    BY <2>2, <2>3, <2>4, <2>5
<1>. QED
  BY <1>1, AsEvaluatedInvariant, PTL

\* The most important rule that a message trips decides, and the model only when there is
\* none.
THEOREM MostImportantWins == Spec => []TopRuleDecides
<1>1. AsEvaluated => TopRuleDecides
  <2>. SUFFICES ASSUME AsEvaluated, NEW w \in Workers, NEW v \in Range(work[w].decided)
                PROVE  /\ v.reason = "rule_match" =>
                            /\ v.rule \in InForce(w, v.msg) /\ v.action = Row[v.rule].action
                            /\ \A r \in InForce(w, v.msg) :
                                 Row[v.rule].priority <= Row[r].priority
                       /\ v.reason \in ModelReasons => InForce(w, v.msg) = {}
    BY DEF TopRuleDecides, ModelReasons
  <2>1. PICK m \in Range(work[w].messages) :
          IsVerdictOn(m, v, engine[w], strategies[w], work[w].answer)
    BY HeldVerdicts
  <2>2. Ranked(engine[w])
    BY HeldVerdicts
  <2>3. /\ v.msg = m
        /\ v.reason = "rule_match" =>
             /\ v.rule \in Tripped(engine[w], m) /\ v.action = Row[v.rule].action
             /\ \A r \in Tripped(engine[w], m) : Row[v.rule].priority <= Row[r].priority
        /\ v.reason \in ModelReasons => Tripped(engine[w], m) = {}
    BY <2>1, <2>2, VerdictFacts
  <2>4. InForce(w, m) = Tripped(engine[w], m)
    BY DEF InForce, Tripped
  <2>. QED
    BY <2>3, <2>4
<1>. QED
  BY <1>1, AsEvaluatedInvariant, PTL

\* Every message of a batch gets exactly one verdict, and without the model nothing but
\* rules and limits keeps a message back.
THEOREM EveryMessageIsJudged == Spec => []NothingFallsThrough
<1>1. AsEvaluated => NothingFallsThrough
  <2>. SUFFICES ASSUME AsEvaluated, NEW w \in Workers
                PROVE  /\ Len(work[w].decided) = Len(work[w].messages)
                       /\ {v.msg : v \in Range(work[w].decided)} = Range(work[w].messages)
                       /\ stage[w] = "judged" /\ ~work[w].answer.modelAnswers =>
                            \A v \in Range(work[w].decided) :
                              \/ v.reason \in {"duplicate", "rate_limit", "raid_mode", "rule_match"}
                              \/ v.reason = "ml_unavailable" /\ v.action = "allow"
    BY DEF NothingFallsThrough
  <2>1. Len(work[w].decided) = Len(work[w].messages) /\ Ranked(engine[w])
    BY HeldVerdicts
  <2>2. \A v \in Range(work[w].decided) : v.msg \in Range(work[w].messages)
    <3>. SUFFICES ASSUME NEW v \in Range(work[w].decided)
                  PROVE  v.msg \in Range(work[w].messages)
      OBVIOUS
    <3>1. PICK m \in Range(work[w].messages) :
            IsVerdictOn(m, v, engine[w], strategies[w], work[w].answer)
      BY HeldVerdicts
    <3>2. v.msg = m
      BY <2>1, <3>1, VerdictFacts
    <3>. QED
      BY <3>2
  <2>3. \A m \in Range(work[w].messages) : \E v \in Range(work[w].decided) : v.msg = m
    <3>. SUFFICES ASSUME NEW m \in Range(work[w].messages)
                  PROVE  \E v \in Range(work[w].decided) : v.msg = m
      OBVIOUS
    <3>1. PICK v \in Range(work[w].decided) :
            IsVerdictOn(m, v, engine[w], strategies[w], work[w].answer)
      BY HeldVerdicts
    <3>2. v.msg = m
      BY <2>1, <3>1, VerdictFacts
    <3>. QED
      BY <3>2
  <2>4. ASSUME ~work[w].answer.modelAnswers, NEW v \in Range(work[w].decided)
        PROVE  \/ v.reason \in {"duplicate", "rate_limit", "raid_mode", "rule_match"}
               \/ v.reason = "ml_unavailable" /\ v.action = "allow"
    <3>1. PICK m \in Range(work[w].messages) :
            IsVerdictOn(m, v, engine[w], strategies[w], work[w].answer)
      BY HeldVerdicts
    <3>. QED
      BY <2>1, <2>4, <3>1, VerdictFacts
  <2>5. {v.msg : v \in Range(work[w].decided)} = Range(work[w].messages)
    BY <2>2, <2>3
  <2>. QED
    BY <2>1, <2>4, <2>5
<1>. QED
  BY <1>1, AsEvaluatedInvariant, PTL

\* No message of a new account on a raided stream reaches the moderators, unless a limit
\* says so.
THEOREM RaidsStayHidden == Spec => []RaidsAreHidden
<1>1. AsEvaluated => RaidsAreHidden
  <2>. SUFFICES ASSUME AsEvaluated, NEW w \in Workers, NEW v \in Range(work[w].decided),
                       v.action = "escalate", IsNewAccount(v.msg),
                       Stream[v.msg] \in work[w].answer.raiding
                PROVE  v.reason = "rate_limit"
    BY DEF RaidsAreHidden
  <2>1. PICK m \in Range(work[w].messages) :
          IsVerdictOn(m, v, engine[w], strategies[w], work[w].answer)
    BY HeldVerdicts
  <2>2. Ranked(engine[w])
    BY HeldVerdicts
  <2>3. /\ v.msg = m
        /\ v.action = "escalate" /\ IsNewAccount(m) /\ Stream[m] \in work[w].answer.raiding =>
             v.reason = "rate_limit"
    BY <2>1, <2>2, VerdictFacts
  <2>. QED
    BY <2>3
<1>. QED
  BY <1>1, AsEvaluatedInvariant, PTL
===============================================================================
