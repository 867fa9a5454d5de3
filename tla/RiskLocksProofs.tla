---------------------------- MODULE RiskLocksProofs ----------------------------
(***************************************************************************)
(* Proofs about RiskLocks, for any number of workers and users, any        *)
(* batches and any number of rejected and failed statements.               *)
(***************************************************************************)
EXTENDS RiskLocks, FiniteSetTheorems, WellFoundedInduction, TLAPS

-------------------------------------------------------------------------------
(* Arithmetic on sets.                                                     *)

\* A finite set of numbers has a greatest element.
LEMMA Greatest ==
  ASSUME NEW S \in SUBSET Nat, IsFiniteSet(S), S # {}
  PROVE  \E x \in S : \A y \in S : y <= x
<1>1. SUFFICES ASSUME ~\E x \in S : \A y \in S : y <= x PROVE FALSE
  OBVIOUS
<1>. DEFINE Bad == {T \in SUBSET S : T # {} /\ ~\E x \in T : \A y \in T : y <= x}
<1>2. Bad # {}
  BY <1>1
<1>3. Bad \subseteq FiniteSubsetsOf(S)
  BY FS_FiniteSubsetsOfFinite
<1>4. PICK M \in Bad : \A T \in Bad : <<T, M>> \notin StrictSubsetOrdering(S)
  <2>. HIDE DEF Bad
  <2>. QED
    BY <1>2, <1>3, FS_StrictSubsetOrderingWellFounded, WFMin
<1>5. PICK x \in M : TRUE
  OBVIOUS
<1>6. CASE M \ {x} = {}
  <2>1. \A y \in M : y <= x
    BY <1>6
  <2>. QED
    BY <2>1
<1>7. CASE M \ {x} # {}
  <2>1. M \ {x} \notin Bad
    BY <1>4 DEF StrictSubsetOrdering
  <2>2. PICK z \in M \ {x} : \A y \in M \ {x} : y <= z
    BY <1>7, <2>1
  <2>3. CASE x <= z
    <3>1. \A y \in M : y <= z
      BY <2>2, <2>3
    <3>. QED
      BY <3>1
  <2>4. CASE z <= x
    <3>1. \A y \in M : y <= x
      BY <2>2, <2>4
    <3>. QED
      BY <3>1
  <2>. QED
    BY <2>3, <2>4
<1>. QED
  BY <1>6, <1>7

-------------------------------------------------------------------------------
(* Batches.                                                                *)

LEMMA BatchType ==
  ASSUME NEW w \in Workers, <<w, next[w]>> \in Batches
  PROVE  /\ next[w] \in 1..Len(Work[w])
         /\ BatchOf(w) \in Seq(Users)
         /\ Offenders(w) \in SUBSET Users
<1>1. next[w] \in 1..Len(Work[w])
  BY DEF Batches
<1>2. Work[w] \in Seq(Seq(Users))
  BY ConstantsAssumption
<1>3. BatchOf(w) \in Seq(Users)
  BY <1>1, <1>2 DEF BatchOf
<1>. QED
  BY <1>1, <1>3 DEF Offenders

LEMMA TotalType ==
  ASSUME NEW w \in Workers, <<w, next[w]>> \in Batches, NEW u \in Users
  PROVE  Total(w, u) \in Nat
<1>1. BatchOf(w) \in Seq(Users)
  BY BatchType
<1>2. IsFiniteSet(DOMAIN BatchOf(w))
  BY <1>1, FS_Interval
<1>3. IsFiniteSet({i \in DOMAIN BatchOf(w) : BatchOf(w)[i] = u})
  BY <1>2, FS_Subset
<1>. QED
  BY <1>3, FS_CardinalityType DEF Total

-------------------------------------------------------------------------------
(* The inductive invariant.                                                *)

LEMMA InductiveInit == Init => Inductive
<1>. SUFFICES ASSUME Init PROVE Inductive
  OBVIOUS
<1>1. TypeOK
  BY ConstantsAssumption DEF Init, TypeOK
<1>2. LocksInOrder
  BY ConstantsAssumption DEF Init, LocksInOrder
<1>. QED
  BY <1>1, <1>2 DEF Inductive

LEMMA UnlockedType ==
  ASSUME TypeOK, NEW w \in Workers
  PROVE  Unlocked(w) \in [Users -> Workers \cup {NoOne}]
BY DEF TypeOK, Unlocked

\* What the except clause may do: return to sleep with one attempt used, or give up.
LEMMA CatchType ==
  ASSUME TypeOK, NEW w \in Workers, NEW error, stage[w] = "running",
         <<w, next[w]>> \in Batches, Catch(w, error)
  PROVE  /\ stage' \in [Workers -> {"idle", "running", "sleeping"}]
         /\ next' \in [Workers -> Nat \ {0}]
         /\ attempt' \in [Workers -> 0..(Attempts - 1)]
         /\ returned' \in SUBSET Batches /\ raised' \in SUBSET Batches
<1>1. Attempts \in Nat \ {0}
  BY ConstantsAssumption
<1>2. next[w] \in Nat \ {0} /\ attempt[w] \in 0..(Attempts - 1)
  BY DEF TypeOK
<1>3. CASE TriesAgain(w, error)
  <2>1. attempt[w] + 1 \in 0..(Attempts - 1)
    BY <1>1, <1>2, <1>3 DEF TriesAgain
  <2>2. /\ stage' = [stage EXCEPT ![w] = "sleeping"]
        /\ attempt' = [attempt EXCEPT ![w] = attempt[w] + 1]
        /\ UNCHANGED <<next, raised, returned>>
    BY <1>3 DEF Catch
  <2>. QED
    BY <2>1, <2>2 DEF TypeOK
<1>4. CASE ~TriesAgain(w, error)
  <2>1. /\ stage' = [stage EXCEPT ![w] = "idle"]
        /\ next' = [next EXCEPT ![w] = next[w] + 1]
        /\ attempt' = [attempt EXCEPT ![w] = 0]
        /\ raised' = raised \cup {<<w, next[w]>>}
        /\ UNCHANGED returned
    BY <1>4 DEF Catch, Leave
  <2>2. next[w] + 1 \in Nat \ {0} /\ 0 \in 0..(Attempts - 1)
    BY <1>1, <1>2
  <2>. QED
    BY <2>1, <2>2 DEF TypeOK
<1>. QED
  BY <1>3, <1>4

LEMMA ApplyType ==
  ASSUME TypeOK, NEW w \in Workers, <<w, next[w]>> \in Batches, Apply(w)
  PROVE  row' \in [Users -> Nat] /\ holder' \in [Users -> Workers \cup {NoOne}]
<1>1. \A u \in Users : row[u] + Total(w, u) \in Nat
  BY TotalType DEF TypeOK
<1>. QED
  BY <1>1, UnlockedType DEF Apply

LEMMA LeaveType ==
  ASSUME TypeOK, NEW w \in Workers, Leave(w)
  PROVE  /\ stage' \in [Workers -> {"idle", "running", "sleeping"}]
         /\ next' \in [Workers -> Nat \ {0}]
         /\ attempt' \in [Workers -> 0..(Attempts - 1)]
<1>1. next[w] + 1 \in Nat \ {0} /\ 0 \in 0..(Attempts - 1)
  BY ConstantsAssumption DEF TypeOK
<1>. QED
  BY <1>1 DEF Leave, TypeOK

LEMMA TypeStep ==
  ASSUME Inductive, [Next]_vars PROVE TypeOK'
<1>. USE DEF Inductive
<1>1. CASE UNCHANGED vars
  BY <1>1 DEF vars, TypeOK
<1>2. ASSUME NEW w \in Workers, Skip(w) PROVE TypeOK'
  BY <1>2, LeaveType DEF Skip, TypeOK
<1>3. ASSUME NEW w \in Workers, Begin(w) PROVE TypeOK'
  BY <1>3 DEF Begin, TypeOK
<1>4. ASSUME NEW w \in Workers, NEW u \in Users, LockRow(w, u) PROVE TypeOK'
  BY <1>4 DEF LockRow, TypeOK
<1>5. ASSUME NEW w \in Workers, Finish(w) PROVE TypeOK'
  <2>1. <<w, next[w]>> \in Batches
    BY <1>5 DEF Finish, Apply, LocksInOrder
  <2>2. Apply(w) /\ Leave(w)
    BY <1>5 DEF Finish
  <2>3. returned' \in SUBSET Batches /\ UNCHANGED <<raised, races, failures>>
    BY <1>5, <2>1 DEF Finish, TypeOK
  <2>. QED
    BY <2>1, <2>2, <2>3, ApplyType, LeaveType DEF TypeOK
<1>6. ASSUME NEW w \in Workers, Reject(w) PROVE TypeOK'
  <2>1. stage[w] = "running" /\ <<w, next[w]>> \in Batches /\ Catch(w, "deadlock")
    BY <1>6 DEF Reject, LocksInOrder
  <2>2. holder' \in [Users -> Workers \cup {NoOne}]
    BY <1>6, UnlockedType DEF Reject
  <2>3. races' \in Nat /\ UNCHANGED <<row, failures>>
    BY <1>6 DEF Reject, TypeOK
  <2>. QED
    BY <2>1, <2>2, <2>3, CatchType DEF TypeOK
<1>7. ASSUME NEW w \in Workers, Wake(w) PROVE TypeOK'
  BY <1>7 DEF Wake, TypeOK
<1>8. ASSUME NEW w \in Workers, Fail(w) PROVE TypeOK'
  <2>1. stage[w] = "running" /\ <<w, next[w]>> \in Batches /\ Catch(w, "other")
    BY <1>8 DEF Fail, LocksInOrder
  <2>2. holder' \in [Users -> Workers \cup {NoOne}]
    BY <1>8, UnlockedType DEF Fail
  <2>3. failures' \in Nat /\ UNCHANGED <<row, races>>
    BY <1>8 DEF Fail, TypeOK
  <2>. QED
    BY <2>1, <2>2, <2>3, CatchType DEF TypeOK
<1>9. ASSUME NEW w \in Workers, LoseAnswer(w) PROVE TypeOK'
  <2>1. Apply(w) /\ stage[w] = "running" /\ Catch(w, "other")
    BY <1>9 DEF LoseAnswer, Apply
  <2>2. <<w, next[w]>> \in Batches
    BY <2>1 DEF LocksInOrder
  <2>3. failures' \in Nat /\ UNCHANGED races
    BY <1>9 DEF LoseAnswer, TypeOK
  <2>. QED
    BY <2>1, <2>2, <2>3, ApplyType, CatchType DEF TypeOK
<1>. QED
  BY <1>1, <1>2, <1>3, <1>4, <1>5, <1>6, <1>7, <1>8, <1>9 DEF Next

\* A statement that ends has given all its locks back.
LEMMA UnlockStep ==
  ASSUME Inductive, NEW w \in Workers, holder' = Unlocked(w),
         stage' \in [Workers -> {"idle", "running", "sleeping"}],
         \A v \in Workers \ {w} : stage'[v] = stage[v] /\ next'[v] = next[v],
         stage'[w] # "idle" => next'[w] = next[w] /\ <<w, next[w]>> \in Batches
  PROVE  LocksInOrder'
<1>1. ASSUME NEW v \in Workers, stage'[v] # "idle" PROVE <<v, next'[v]>> \in Batches
  BY <1>1 DEF Inductive, LocksInOrder
<1>2. \A u \in Users : holder'[u] # w
  BY ConstantsAssumption DEF Unlocked, Inductive, TypeOK
<1>3. \A v \in Workers \ {w}, u \in Users : holder'[u] = v <=> holder[u] = v
  BY ConstantsAssumption DEF Unlocked, Inductive, TypeOK
<1>4. \A v \in Workers \ {w} : Offenders(v)' = Offenders(v)
  BY DEF Offenders, BatchOf
<1>5. \A v \in Workers \ {w} : stage[v] = "running" => Offenders(v) \in SUBSET Users
  BY BatchType DEF Inductive, LocksInOrder
<1>6. ASSUME NEW v \in Workers, NEW u \in Users, holder'[u] = v
      PROVE  /\ stage'[v] = "running" /\ u \in Offenders(v)'
             /\ \A x \in Offenders(v)' : x < u => holder'[x] = v
  <2>1. v # w
    BY <1>2, <1>6
  <2>2. /\ stage[v] = "running" /\ u \in Offenders(v)
        /\ \A x \in Offenders(v) : x < u => holder[x] = v
    <3>1. holder[u] = v
      BY <1>3, <1>6, <2>1
    <3>. QED
      BY <3>1 DEF Inductive, LocksInOrder
  <2>. QED
    BY <1>3, <1>4, <1>5, <2>1, <2>2
<1>. QED
  BY <1>1, <1>6 DEF LocksInOrder

\* Locks are taken in order and given back all at once.
LEMMA LocksStep ==
  ASSUME Inductive, [Next]_vars PROVE LocksInOrder'
<1>1. CASE UNCHANGED vars
  BY <1>1 DEF vars, Inductive, LocksInOrder, Offenders, BatchOf
<1>2. ASSUME NEW w \in Workers, Skip(w) PROVE LocksInOrder'
  <2>1. /\ stage[w] = "idle" /\ stage' = [stage EXCEPT ![w] = "idle"]
        /\ next' = [next EXCEPT ![w] = next[w] + 1] /\ UNCHANGED holder
    BY <1>2 DEF Skip, Leave
  <2>2. \A u \in Users : holder[u] # w
    BY <2>1 DEF Inductive, LocksInOrder
  <2>3. \A v \in Workers \ {w} : Offenders(v)' = Offenders(v)
    BY <2>1 DEF Offenders, BatchOf, Inductive, TypeOK
  <2>. QED
    BY <2>1, <2>2, <2>3 DEF Inductive, LocksInOrder, TypeOK
<1>3. ASSUME NEW w \in Workers, Begin(w) PROVE LocksInOrder'
  <2>1. \A v \in Workers : Offenders(v)' = Offenders(v)
    BY <1>3 DEF Begin, Offenders, BatchOf
  <2>2. \A u \in Users : holder[u] # w
    BY <1>3 DEF Begin, Inductive, LocksInOrder
  <2>. QED
    BY <1>3, <2>1, <2>2 DEF Begin, Inductive, LocksInOrder, TypeOK
<1>4. ASSUME NEW w \in Workers, NEW u \in Users, LockRow(w, u) PROVE LocksInOrder'
  <2>1. \A v \in Workers : Offenders(v)' = Offenders(v)
    BY <1>4 DEF LockRow, Offenders, BatchOf
  <2>2. /\ holder' = [holder EXCEPT ![u] = w] /\ stage[w] = "running"
        /\ u \in Offenders(w) /\ holder[u] = NoOne
        /\ \A x \in Offenders(w) : x < u => holder[x] = w
        /\ UNCHANGED <<stage, next>>
    BY <1>4 DEF LockRow, Turn
  <2>3. Offenders(w) \in SUBSET Users
    BY <2>2, BatchType DEF Inductive, LocksInOrder
  <2>4. ASSUME NEW v \in Workers, NEW y \in Users, holder'[y] = v
        PROVE  /\ stage[v] = "running" /\ y \in Offenders(v)
               /\ \A x \in Offenders(v) : x < y => holder'[x] = v
    <3>1. holder[u] # v /\ u \notin {x \in Users : holder[x] = v}
      BY <2>2, ConstantsAssumption
    <3>2. CASE y = u
      <4>1. v = w
        BY <2>2, <2>4, <3>2 DEF Inductive, TypeOK
      <4>2. \A x \in Offenders(w) : x < u => holder'[x] = w
        BY <2>2, <2>3 DEF Inductive, TypeOK
      <4>. QED
        BY <2>2, <3>2, <4>1, <4>2
    <3>3. CASE y # u
      <4>1. holder[y] = v
        BY <2>2, <2>4, <3>3 DEF Inductive, TypeOK
      <4>2. /\ stage[v] = "running" /\ y \in Offenders(v)
            /\ \A x \in Offenders(v) : x < y => holder[x] = v
        BY <4>1 DEF Inductive, LocksInOrder
      <4>3. Offenders(v) \in SUBSET Users
        BY <4>2, BatchType DEF Inductive, LocksInOrder
      <4>4. \A x \in Offenders(v) : x < y => holder'[x] = v
        BY <2>2, <3>1, <4>2, <4>3 DEF Inductive, TypeOK
      <4>. QED
        BY <4>2, <4>4
    <3>. QED
      BY <3>2, <3>3
  <2>5. \A v \in Workers : stage[v] # "idle" => <<v, next[v]>> \in Batches
    BY DEF Inductive, LocksInOrder
  <2>. QED
    BY <2>1, <2>2, <2>4, <2>5 DEF LocksInOrder
<1>5. ASSUME NEW w \in Workers, Finish(w) PROVE LocksInOrder'
  <2>1. /\ holder' = Unlocked(w) /\ stage' = [stage EXCEPT ![w] = "idle"]
        /\ next' = [next EXCEPT ![w] = next[w] + 1]
    BY <1>5 DEF Finish, Apply, Leave
  <2>. QED
    BY <2>1, UnlockStep DEF Inductive, TypeOK
<1>6. ASSUME NEW w \in Workers, NEW error, stage[w] = "running", holder' = Unlocked(w),
             Catch(w, error)
      PROVE  LocksInOrder'
  <2>1. <<w, next[w]>> \in Batches
    BY <1>6 DEF Inductive, LocksInOrder
  <2>2. CASE TriesAgain(w, error)
    <3>1. stage' = [stage EXCEPT ![w] = "sleeping"] /\ UNCHANGED next
      BY <1>6, <2>2 DEF Catch
    <3>. QED
      BY <1>6, <2>1, <3>1, UnlockStep DEF Inductive, TypeOK
  <2>3. CASE ~TriesAgain(w, error)
    <3>1. /\ stage' = [stage EXCEPT ![w] = "idle"]
          /\ next' = [next EXCEPT ![w] = next[w] + 1]
      BY <1>6, <2>3 DEF Catch, Leave
    <3>. QED
      BY <1>6, <3>1, UnlockStep DEF Inductive, TypeOK
  <2>. QED
    BY <2>2, <2>3
<1>7. ASSUME NEW w \in Workers, Reject(w) \/ Fail(w) \/ LoseAnswer(w) PROVE LocksInOrder'
  <2>1. stage[w] = "running" /\ holder' = Unlocked(w) /\ \E error : Catch(w, error)
    BY <1>7 DEF Reject, Fail, LoseAnswer, Apply
  <2>. QED
    BY <1>6, <2>1
<1>8. ASSUME NEW w \in Workers, Wake(w) PROVE LocksInOrder'
  <2>1. \A v \in Workers : Offenders(v)' = Offenders(v)
    BY <1>8 DEF Wake, Offenders, BatchOf
  <2>. QED
    BY <1>8, <2>1 DEF Wake, Inductive, LocksInOrder, TypeOK
<1>. QED
  BY <1>1, <1>2, <1>3, <1>4, <1>5, <1>7, <1>8 DEF Next

\* A statement that holds a row holds every smaller row of its list, however statements
\* are rejected, fail or are run again.
THEOREM InductiveInvariant == Spec => []Inductive
<1>1. Inductive /\ [Next]_vars => Inductive'
  BY TypeStep, LocksStep DEF Inductive
<1>. QED
  BY <1>1, InductiveInit, PTL DEF Spec

-------------------------------------------------------------------------------
(* No circle: the worker that has come furthest waits for nobody.          *)

\* Who waits for a row, waits for a smaller one than its holder does.
LEMMA WaitingClimbs ==
  ASSUME Inductive, NEW w \in Workers, NEW v \in Workers,
         NEW x \in Users, NEW y \in Users,
         Turn(w, x), holder[x] = v, stage[v] = "running",
         y \in Offenders(v), Turn(v, y), holder[y] # v
  PROVE  x < y
<1>1. \A z \in Offenders(v) : z < x => holder[z] = v
  BY DEF Inductive, LocksInOrder
<1>2. x \in Nat /\ y \in Nat /\ x # y
  BY ConstantsAssumption
<1>. QED
  BY <1>1, <1>2

\* Sorting the rows is enough: no group of workers, of whatever size, ever waits in a
\* circle for each other's rows.
THEOREM NoDeadlock == Spec => []NoCircularWait
<1>1. ASSUME Inductive, NEW group \in (SUBSET Workers) \ {{}},
             \A w \in group : \E v \in group : WaitsFor(w, v)
      PROVE  FALSE
  <2>. DEFINE Waits(w, x) ==
         /\ stage[w] = "running" /\ x \in Offenders(w) /\ Turn(w, x)
         /\ \E v \in group : v # w /\ holder[x] = v
       Rows == {x \in Users : \E w \in group : Waits(w, x)}
  <2>1. \A w \in group : stage[w] = "running" => Offenders(w) \in SUBSET Users
    BY <1>1, BatchType DEF Inductive, LocksInOrder
  <2>2. \A w \in group : \E x \in Users : Waits(w, x)
    BY <1>1, <2>1 DEF WaitsFor
  <2>3. Rows # {} /\ Rows \in SUBSET Nat /\ IsFiniteSet(Rows)
    <3>1. Rows # {}
      BY <1>1, <2>2
    <3>2. Rows \in SUBSET Users
      OBVIOUS
    <3>. QED
      BY <3>1, <3>2, ConstantsAssumption, FS_Subset
  <2>4. PICK x \in Rows : \A y \in Rows : y <= x
    <3>. HIDE DEF Rows
    <3>. QED
      BY <2>3, Greatest
  <2>5. PICK w \in group : Waits(w, x)
    BY <2>4
  <2>6. PICK v \in group : v # w /\ holder[x] = v
    BY <2>5
  <2>7. PICK y \in Users : Waits(v, y)
    BY <2>2, <2>6
  <2>8. holder[y] # v /\ y \in Offenders(v) /\ Turn(v, y) /\ stage[v] = "running"
    BY <2>7
  <2>9. x < y
    BY <1>1, <2>4, <2>5, <2>6, <2>7, <2>8, WaitingClimbs
  <2>10. y \in Rows
    BY <2>6, <2>7
  <2>11. x \in Nat /\ y \in Nat /\ y <= x
    <3>. HIDE DEF Rows
    <3>. QED
      BY <2>3, <2>4, <2>10
  <2>. QED
    BY <2>9, <2>11
<1>2. Inductive => NoCircularWait
  BY <1>1 DEF NoCircularWait
<1>. QED
  BY <1>2, InductiveInvariant, PTL

-------------------------------------------------------------------------------
(* Each violation is written once.                                         *)

\* The places in these batches where user u offended: what Offences counts.
Spots(u, batches) ==
  UNION {{<<b, i>> : i \in {i \in DOMAIN Work[b[1]][b[2]] :
                              Work[b[1]][b[2]][i] = u}} : b \in batches}

\* The inductive invariant: what has been left is behind its worker for good.
Behind ==
  /\ \A b \in returned \cup raised : b[2] < next[b[1]]
  /\ \A u \in Users : IsFiniteSet(Spots(u, returned \cup raised))
  /\ WrittenOnce

\* The batch at hand adds Total to what Offences counts, and is not in it before.
LEMMA OneMoreBatch ==
  ASSUME TypeOK, NEW w \in Workers, <<w, next[w]>> \in Batches, NEW u \in Users,
         NEW done, <<w, next[w]>> \notin done, IsFiniteSet(Spots(u, done))
  PROVE  /\ IsFiniteSet(Spots(u, done \cup {<<w, next[w]>>}))
         /\ Offences(u, done) \in Nat
         /\ Offences(u, done \cup {<<w, next[w]>>}) = Offences(u, done) + Total(w, u)
<1>. DEFINE b == <<w, next[w]>>
            places == {i \in DOMAIN BatchOf(w) : BatchOf(w)[i] = u}
            new == {<<b, i>> : i \in places}
            spot == [i \in places |-> <<b, i>>]
<1>1. IsFiniteSet(places)
  <2>1. BatchOf(w) \in Seq(Users)
    BY BatchType
  <2>2. IsFiniteSet(DOMAIN BatchOf(w))
    BY <2>1, FS_Interval
  <2>. QED
    BY <2>2, FS_Subset
<1>2. spot \in Surjection(places, new) /\ spot \in Injection(places, new)
  BY DEF Surjection, Injection, IsInjective
<1>3. IsFiniteSet(new) /\ Cardinality(new) = Total(w, u) /\ Cardinality(new) \in Nat
  <2>. HIDE DEF spot, new, places
  <2>1. IsFiniteSet(new) /\ Cardinality(new) = Cardinality(places)
    BY <1>1, <1>2, FS_Surjection
  <2>2. Cardinality(new) \in Nat
    BY <2>1, FS_CardinalityType
  <2>3. Cardinality(places) = Total(w, u)
    BY DEF Total, places
  <2>. QED
    BY <2>1, <2>2, <2>3
<1>4. Spots(u, done \cup {b}) = Spots(u, done) \cup new
  BY DEF Spots, BatchOf
<1>5. Spots(u, done) \cap new = {}
  BY DEF Spots
<1>. HIDE DEF new, b
<1>6. /\ IsFiniteSet(Spots(u, done) \cup new)
      /\ Cardinality(Spots(u, done) \cup new)
           = Cardinality(Spots(u, done)) + Cardinality(new) - Cardinality(Spots(u, done) \cap new)
  BY <1>3, FS_Union
<1>7. Cardinality(Spots(u, done)) \in Nat
  BY FS_CardinalityType
<1>8. Cardinality(Spots(u, done) \cap new) = 0
  BY <1>5, FS_EmptySet
<1>9. Cardinality(Spots(u, done) \cup new) = Cardinality(Spots(u, done)) + Total(w, u)
  BY <1>3, <1>6, <1>7, <1>8
<1>10. \A D : Offences(u, D) = Cardinality(Spots(u, D))
  BY DEF Offences, Spots
<1>. QED
  BY <1>4, <1>6, <1>7, <1>9, <1>10 DEF b

\* A worker leaves its batch: what was counted of it decides on which side it is booked.
LEMMA BehindLeave ==
  ASSUME Inductive, Behind, NEW w \in Workers, <<w, next[w]>> \in Batches,
         next' = [next EXCEPT ![w] = @ + 1],
         \/ /\ returned' = returned \cup {<<w, next[w]>>} /\ raised' = raised
            /\ \A u \in Users : row'[u] = row[u] + Total(w, u)
         \/ /\ raised' = raised \cup {<<w, next[w]>>} /\ returned' = returned
            /\ \A u \in Users : row'[u] = row[u] \/ row'[u] = row[u] + Total(w, u)
  PROVE  Behind'
<1>. DEFINE b == <<w, next[w]>>
<1>0. TypeOK /\ next[w] \in Nat
  BY DEF Inductive, TypeOK
<1>1. b \notin returned \cup raised
  BY <1>0 DEF Behind
<1>2. returned' \cup raised' = (returned \cup raised) \cup {b}
  OBVIOUS
<1>3. \A d \in returned' \cup raised' : d[2] < next'[d[1]]
  <2>1. \A d \in returned \cup raised : d[1] \in Workers /\ d[2] \in Nat /\ d[2] < next[d[1]]
    BY <1>0, ConstantsAssumption DEF Behind, TypeOK, Batches
  <2>. QED
    BY <1>0, <1>2, <2>1 DEF TypeOK
<1>4. ASSUME NEW u \in Users
      PROVE  /\ IsFiniteSet(Spots(u, returned' \cup raised'))
             /\ Offences(u, returned') <= row'[u]
             /\ row'[u] <= Offences(u, returned' \cup raised')
  <2>1. /\ IsFiniteSet(Spots(u, returned \cup raised)) /\ IsFiniteSet(Spots(u, returned))
    <3>1. IsFiniteSet(Spots(u, returned \cup raised))
      BY DEF Behind
    <3>2. Spots(u, returned) \subseteq Spots(u, returned \cup raised)
      BY DEF Spots
    <3>. QED
      BY <3>1, <3>2, FS_Subset
  <2>2. /\ IsFiniteSet(Spots(u, (returned \cup raised) \cup {b}))
        /\ Offences(u, returned \cup raised) \in Nat
        /\ Offences(u, (returned \cup raised) \cup {b})
             = Offences(u, returned \cup raised) + Total(w, u)
    BY <1>0, <1>1, <2>1, OneMoreBatch
  <2>3. /\ Offences(u, returned) \in Nat
        /\ Offences(u, returned \cup {b}) = Offences(u, returned) + Total(w, u)
    BY <1>0, <1>1, <2>1, OneMoreBatch
  <2>4. /\ row[u] \in Nat /\ Total(w, u) \in Nat
        /\ Offences(u, returned) <= row[u]
        /\ row[u] <= Offences(u, returned \cup raised)
    BY <1>0, TotalType DEF TypeOK, Behind, WrittenOnce
  <2>5. Offences(u, returned' \cup raised') = Offences(u, returned \cup raised) + Total(w, u)
    BY <1>2, <2>2
  <2>6. IsFiniteSet(Spots(u, returned' \cup raised'))
    BY <1>2, <2>2
  <2>7. CASE returned' = returned \cup {b} /\ row'[u] = row[u] + Total(w, u)
    <3>1. Offences(u, returned') = Offences(u, returned) + Total(w, u)
      BY <2>3, <2>7
    <3>. QED
      BY <2>2, <2>3, <2>4, <2>5, <2>6, <2>7, <3>1
  <2>8. CASE returned' = returned /\ (row'[u] = row[u] \/ row'[u] = row[u] + Total(w, u))
    <3>1. Offences(u, returned') = Offences(u, returned)
      BY <2>8
    <3>. QED
      BY <2>2, <2>3, <2>4, <2>5, <2>6, <2>8, <3>1
  <2>. QED
    BY <2>7, <2>8
<1>5. WrittenOnce'
  <2>1. \A u \in Users : /\ Offences(u, returned)' = Offences(u, returned')
                         /\ Offences(u, returned \cup raised)'
                              = Offences(u, returned' \cup raised')
    BY DEF Offences
  <2>. QED
    BY <1>4, <2>1 DEF WrittenOnce
<1>6. \A u \in Users : IsFiniteSet(Spots(u, returned \cup raised))'
  BY <1>4 DEF Spots
<1>. QED
  BY <1>3, <1>5, <1>6 DEF Behind

LEMMA BehindStep ==
  ASSUME Inductive, Behind, [Next]_vars PROVE Behind'
<1>1. ASSUME UNCHANGED <<row, next, returned, raised>> PROVE Behind'
  BY <1>1 DEF Behind, WrittenOnce, Offences, Spots
<1>2. ASSUME NEW w \in Workers, Skip(w) PROVE Behind'
  <2>1. \A u \in Users : Total(w, u) = 0 /\ row[u] \in Nat
    <3>1. ASSUME NEW u \in Users PROVE {i \in DOMAIN BatchOf(w) : BatchOf(w)[i] = u} = {}
      BY <1>2 DEF Skip, Offenders
    <3>. QED
      BY <3>1, FS_EmptySet DEF Total, Inductive, TypeOK
  <2>2. \A u \in Users : row'[u] = row[u] + Total(w, u)
    BY <1>2, <2>1 DEF Skip
  <2>. QED
    BY <1>2, <2>2, BehindLeave DEF Skip, Leave
<1>3. ASSUME NEW w \in Workers, stage[w] = "running" PROVE <<w, next[w]>> \in Batches
  BY <1>3 DEF Inductive, LocksInOrder
<1>4. ASSUME NEW w \in Workers, Finish(w) PROVE Behind'
  <2>1. \A u \in Users : row'[u] = row[u] + Total(w, u)
    BY <1>4 DEF Finish, Apply
  <2>2. stage[w] = "running" /\ Leave(w) /\ returned' = returned \cup {<<w, next[w]>>}
        /\ raised' = raised
    BY <1>4 DEF Finish, Apply
  <2>. QED
    BY <1>3, <2>1, <2>2, BehindLeave DEF Leave
<1>5. ASSUME NEW w \in Workers, Reject(w) \/ Fail(w) PROVE Behind'
  <2>1. stage[w] = "running" /\ row' = row /\ \E error : Catch(w, error)
    BY <1>5 DEF Reject, Fail
  <2>2. PICK error : Catch(w, error)
    BY <2>1
  <2>3. CASE TriesAgain(w, error)
    BY <1>1, <2>1, <2>2, <2>3 DEF Catch
  <2>4. CASE ~TriesAgain(w, error)
    BY <1>3, <2>1, <2>2, <2>4, BehindLeave DEF Catch, Leave
  <2>. QED
    BY <2>3, <2>4
\* MySQL had counted the batch: adding it up again is what TriesAgain refuses.
<1>6. ASSUME NEW w \in Workers, LoseAnswer(w) PROVE Behind'
  <2>1. stage[w] = "running" /\ Catch(w, "other") /\ ~TriesAgain(w, "other")
    BY <1>6 DEF LoseAnswer, Apply, TriesAgain
  <2>2. \A u \in Users : row'[u] = row[u] + Total(w, u)
    BY <1>6 DEF LoseAnswer, Apply
  <2>. QED
    BY <1>3, <2>1, <2>2, BehindLeave DEF Catch, Leave
<1>7. ASSUME NEW w \in Workers, Begin(w) \/ Wake(w) \/ \E u \in Users : LockRow(w, u)
      PROVE  Behind'
  BY <1>1, <1>7 DEF Begin, Wake, LockRow
<1>8. CASE UNCHANGED vars
  BY <1>1, <1>8 DEF vars
<1>. QED
  BY <1>2, <1>4, <1>5, <1>6, <1>7, <1>8 DEF Next

\* Whatever MySQL rejects and whatever fails, a batch that returned is counted exactly
\* once and one that raised at most once.
THEOREM CountedOnce == Spec => []WrittenOnce
<1>1. Init => Behind
  <2>. SUFFICES ASSUME Init PROVE Behind
    OBVIOUS
  <2>1. \A u \in Users : Spots(u, {}) = {} /\ Offences(u, {}) = 0
    BY FS_EmptySet DEF Spots, Offences
  <2>. QED
    BY <2>1, FS_EmptySet DEF Init, Behind, WrittenOnce
<1>2. Inductive /\ Behind /\ [Next]_vars => Behind'
  BY BehindStep
<1>3. Behind => WrittenOnce
  BY DEF Behind
<1>. QED
  BY <1>1, <1>2, <1>3, InductiveInvariant, PTL DEF Spec
===============================================================================
