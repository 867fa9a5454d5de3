---------------------------- MODULE DefensesProofs ----------------------------
(***************************************************************************)
(* Proofs about Defenses, for any number of workers, streams, users and    *)
(* messages, any times and any number of crashes.                          *)
(*                                                                         *)
(* Each property speaks of the messages that are decided, but Redis knows  *)
(* of a message as soon as gather asks about it.  The proofs are therefore *)
(* about Answers: what the workers were told, about the messages they hold *)
(* and about those they have decided.  Gather adds to it, a crash takes    *)
(* from it, and no other step changes it.                                  *)
(***************************************************************************)
EXTENDS Defenses, FiniteSetTheorems, WellFoundedInduction, TLAPS

USE DEF kafkaVars, redisVars, workerVars

-------------------------------------------------------------------------------
(* Streams and batches.                                                    *)

LEMMA StreamFacts ==
  /\ \A s \in Streams : Len(Log[s]) \in Nat /\ DOMAIN Log[s] = 1..Len(Log[s])
  /\ \A m \in Messages : /\ Stream[m] \in Streams
                         /\ Rank[m] \in 1..Len(Log[Stream[m]])
                         /\ Log[Stream[m]][Rank[m]] = m
  /\ \A s \in Streams : \A i \in 1..Len(Log[s]) :
       Log[s][i] \in Messages /\ Stream[Log[s][i]] = s /\ Rank[Log[s][i]] = i
<1>1. \A s \in Streams : Log[s] \in Seq(Messages)
  BY ConstantsAssumption
<1>2. \A s \in Streams : Len(Log[s]) \in Nat /\ DOMAIN Log[s] = 1..Len(Log[s])
  BY <1>1
<1>3. ASSUME NEW m \in Messages
      PROVE  /\ Stream[m] \in Streams /\ Rank[m] \in DOMAIN Log[Stream[m]]
             /\ Log[Stream[m]][Rank[m]] = m
  <2>1. Stream[m] \in Streams /\ \E i \in DOMAIN Log[Stream[m]] : Log[Stream[m]][i] = m
    BY LogAssumption DEF Stream
  <2>. QED
    BY <2>1 DEF Rank
<1>4. ASSUME NEW s \in Streams, NEW i \in 1..Len(Log[s])
      PROVE  Log[s][i] \in Messages /\ Stream[Log[s][i]] = s /\ Rank[Log[s][i]] = i
  <2>1. Log[s][i] \in Messages /\ i \in DOMAIN Log[s]
    BY <1>1, <1>2
  <2>. QED
    BY <1>3, <2>1, LogAssumption
<1>. QED
  BY <1>2, <1>3, <1>4

\* A batch holds what was taken, each message once and each stream in order.
LEMMA OrderFacts ==
  ASSUME NEW T \in SUBSET Messages, NEW b \in Orders(T)
  PROVE  /\ b \in Seq(Messages) /\ DOMAIN b = 1..Len(b)
         /\ Elements(b) = T
         /\ \A i, j \in DOMAIN b : b[i] = b[j] => i = j
         /\ \A i, j \in DOMAIN b : Stream[b[i]] = Stream[b[j]] /\ i < j => Rank[b[i]] < Rank[b[j]]
<1>1. IsFiniteSet(T) /\ Cardinality(T) \in Nat
  BY LogAssumption, FS_Subset, FS_CardinalityType
<1>2. /\ b \in [1..Cardinality(T) -> T]
      /\ \A i, j \in DOMAIN b :
           i < j => b[i] # b[j] /\ (Stream[b[i]] = Stream[b[j]] => Rank[b[i]] < Rank[b[j]])
  BY DEF Orders
<1>3. b \in Seq(Messages) /\ DOMAIN b = 1..Len(b) /\ DOMAIN b = 1..Cardinality(T)
  BY <1>1, <1>2
<1>4. ASSUME NEW i \in DOMAIN b, NEW j \in DOMAIN b, b[i] = b[j] PROVE i = j
  <2>1. i \in Nat /\ j \in Nat /\ ~(i < j) /\ ~(j < i)
    BY <1>2, <1>3, <1>4
  <2>. QED
    BY <2>1
<1>5. b \in Injection(1..Cardinality(T), T)
  BY <1>2, <1>4 DEF Injection, IsInjective
<1>6. b \in Surjection(1..Cardinality(T), T)
  <2>1. Cardinality(1..Cardinality(T)) = Cardinality(T)
    BY <1>1, FS_Interval
  <2>. QED
    BY <1>1, <1>5, <2>1, FS_Injection
<1>7. Elements(b) = T
  BY <1>2, <1>6 DEF Surjection, Elements
<1>. QED
  BY <1>2, <1>3, <1>4, <1>7

\* Of some places in a batch, one comes first and one comes last.
LEMMA FirstPlace ==
  ASSUME NEW n \in Nat, NEW T \in SUBSET (1..n), T # {}
  PROVE  \E i \in T : \A j \in T : i <= j
<1>. DEFINE Heads == {T \cap (1..k) : k \in T}
<1>1. IsFiniteSet(1..n) /\ T \subseteq Nat
  BY FS_Interval
<1>2. Heads # {} /\ Heads \subseteq FiniteSubsetsOf(1..n)
  <2>1. PICK k \in T : TRUE
    OBVIOUS
  <2>2. T \cap (1..k) \in Heads /\ Heads \subseteq SUBSET (1..n)
    OBVIOUS
  <2>3. FiniteSubsetsOf(1..n) = SUBSET (1..n)
    BY <1>1, FS_FiniteSubsetsOfFinite
  <2>. HIDE DEF Heads
  <2>. QED
    BY <2>2, <2>3
<1>3. PICK head \in Heads : \A h \in Heads : <<h, head>> \notin StrictSubsetOrdering(1..n)
  <2>. HIDE DEF Heads
  <2>. QED
    BY <1>2, FS_StrictSubsetOrderingWellFounded, WFMin
<1>4. PICK i \in T : head = T \cap (1..i)
  OBVIOUS
<1>5. ASSUME NEW j \in T, j < i PROVE FALSE
  <2>1. T \cap (1..j) \in Heads /\ T \cap (1..j) \subseteq head
    BY <1>1, <1>4, <1>5
  <2>2. i \in head /\ i \notin T \cap (1..j)
    BY <1>1, <1>4, <1>5
  <2>. QED
    BY <1>3, <2>1, <2>2 DEF StrictSubsetOrdering
<1>. QED
  BY <1>1, <1>5

LEMMA LastPlace ==
  ASSUME NEW n \in Nat, NEW T \in SUBSET (1..n), T # {}
  PROVE  \E i \in T : \A j \in T : j <= i
<1>. DEFINE S == {j \in 1..n : n + 1 - j \in T}
<1>1. ASSUME NEW j \in T PROVE j \in Nat /\ n + 1 - j \in S
  <2>1. j \in 1..n /\ n + 1 - j \in 1..n /\ n + 1 - (n + 1 - j) = j
    OBVIOUS
  <2>. QED
    BY <2>1
<1>2. S \in SUBSET (1..n) /\ S # {}
  <2>1. PICK j \in T : TRUE
    OBVIOUS
  <2>2. n + 1 - j \in S
    BY <1>1
  <2>3. S # {}
    BY <2>2
  <2>. QED
    BY <2>3
<1>3. PICK i \in S : \A j \in S : i <= j
  <2>. HIDE DEF S
  <2>. QED
    BY <1>2, FirstPlace
<1>4. \A j \in T : j <= n + 1 - i
  BY <1>1, <1>3
<1>. QED
  BY <1>3, <1>4

LEMMA DivBounds ==
  ASSUME NEW a \in Nat, NEW d \in Nat \ {0}
  PROVE  a \div d \in 0..a
<1>1. a \div d \in Int
  OBVIOUS
<1>2. a \div d >= 0
  OBVIOUS
<1>3. a \div d <= a
  OBVIOUS
<1>. QED
  BY <1>1, <1>2, <1>3

LEMMA BucketType == \A t \in 0..MaxTime : Bucket(t) \in 0..MaxTime
<1>. SUFFICES ASSUME NEW t \in 0..MaxTime PROVE t \div RaidWindow \in 0..MaxTime
  BY DEF Bucket
<1>1. t \in Nat /\ MaxTime \in Nat /\ RaidWindow \in Nat \ {0}
  BY ConstantsAssumption
<1>2. t \div RaidWindow \in 0..t
  BY <1>1, DivBounds
<1>. QED
  BY <1>1, <1>2

\* The messages that follow the first d of a stream.
LEMMA TakenCount ==
  ASSUME NEW s \in Streams, NEW d \in Nat, NEW k \in Nat, d + k <= Len(Log[s])
  PROVE  LET after == {m \in Messages : Stream[m] = s /\ d < Rank[m] /\ Rank[m] <= d + k}
         IN  IsFiniteSet(after) /\ Cardinality(after) = k
<1>. DEFINE after == {m \in Messages : Stream[m] = s /\ d < Rank[m] /\ Rank[m] <= d + k}
            f == [i \in 1..k |-> Log[s][d + i]]
<1>1. ASSUME NEW i \in 1..k
      PROVE  f[i] \in after /\ Rank[f[i]] = d + i
  <2>1. d + i \in 1..Len(Log[s])
    BY StreamFacts
  <2>. QED
    BY <2>1, StreamFacts
<1>2. ASSUME NEW i \in 1..k, NEW j \in 1..k, f[i] = f[j] PROVE i = j
  <2>1. d + i = d + j
    BY <1>1, <1>2
  <2>. QED
    BY <2>1
<1>3. ASSUME NEW m \in after PROVE \E i \in 1..k : f[i] = m
  <2>1. /\ Rank[m] \in 1..Len(Log[s]) /\ Log[s][Rank[m]] = m
        /\ d < Rank[m] /\ Rank[m] <= d + k
    BY StreamFacts
  <2>2. Rank[m] - d \in 1..k /\ d + (Rank[m] - d) = Rank[m]
    BY <2>1, StreamFacts
  <2>. QED
    BY <2>1, <2>2
<1>4. f \in Bijection(1..k, after)
  BY <1>1, <1>2, <1>3 DEF Bijection, Injection, IsInjective, Surjection
<1>5. ExistsBijection(1..k, after)
  BY <1>4 DEF ExistsBijection
<1>6. IsFiniteSet(1..k) /\ Cardinality(1..k) = k
  BY FS_Interval
<1>. HIDE DEF after
<1>7. IsFiniteSet(after) /\ Cardinality(after) = k
  BY <1>5, <1>6, FS_Bijection
<1>. QED
  BY <1>7 DEF after

-------------------------------------------------------------------------------
(* Bookkeeping: what is handled, what is in hand and what is next.         *)

ReasonOf(sig) ==
  IF sig.duplicate THEN "duplicate"
  ELSE IF sig.over THEN "rate_limit"
  ELSE IF sig.raid THEN "raid_mode" ELSE "content"

\* What a worker holds is what follows the committed offsets of its streams.
HoldsNext(w) ==
  \E k \in [Streams -> Nat] :
    /\ \A s \in Streams : done[s] + k[s] <= sent[s] /\ (Home[s] # w => k[s] = 0)
    /\ Elements(batch[w]) = {m \in Messages : /\ done[Stream[m]] < Rank[m]
                                              /\ Rank[m] <= done[Stream[m]] + k[Stream[m]]}

BatchIsNext == \A w \in Workers : HoldsNext(w)

\* An idle worker holds nothing, and its verdicts follow from the answers.
Matches(w) ==
  /\ stage[w] = "idle" => batch[w] = <<>>
  /\ \A m \in Elements(batch[w]) :
       /\ signals[w][m].at \in 1..time
       /\ stage[w] = "saving" => /\ verdicts[w][m] # Undecided
                                 /\ verdicts[w][m].reason = ReasonOf(signals[w][m])
                                 /\ verdicts[w][m].at = signals[w][m].at

VerdictsMatch == \A w \in Workers : Matches(w)

Bookkeeping == TypeOK /\ BatchIsNext /\ VerdictsMatch

\* The step of gather, for the batch b.
Asks(w, b) ==
  /\ stage[w] = "idle"
  /\ b \in Seq(Messages) /\ DOMAIN b = 1..Len(b)
  /\ \A i, j \in DOMAIN b : b[i] = b[j] => i = j
  /\ \A i, j \in DOMAIN b : Stream[b[i]] = Stream[b[j]] /\ i < j => Rank[b[i]] < Rank[b[j]]
  /\ \E k \in [Streams -> Nat] :
       /\ \A s \in Streams : done[s] + k[s] <= sent[s] /\ (Home[s] # w => k[s] = 0)
       /\ Elements(b) = {m \in Messages : /\ done[Stream[m]] < Rank[m]
                                          /\ Rank[m] <= done[Stream[m]] + k[Stream[m]]}
  /\ stage' = [stage EXCEPT ![w] = "judging"]
  /\ batch' = [batch EXCEPT ![w] = b]
  /\ signals' = [signals EXCEPT ![w] = SignalsOf(b)]
  /\ newRaids' = [newRaids EXCEPT ![w] = RaidsIn(b)]
  /\ dedupUntil' = [k \in Keys |-> IF \E i \in DOMAIN b : Key(b[i]) = k /\ ~IsDuplicate(b, i)
                                   THEN time + DedupTTL ELSE dedupUntil[k]]
  /\ stamps' = [u \in Users |->
       IF \E m \in Elements(b) : Author[m] = u
       THEN InWindow(u) \cup {[at |-> time, msg |-> m, try |-> crashes] :
                                m \in {m \in Elements(b) : Author[m] = u}}
       ELSE stamps[u]]
  /\ sightings' = [s \in Streams |-> Sightings(s, Elements(b))]
  /\ UNCHANGED <<time, kafkaVars, raidUntil, verdicts, decision, crashes>>

LEMMA GatherAsks ==
  ASSUME Bookkeeping, NEW w \in Workers, Gather(w)
  PROVE  \E b : Asks(w, b)
<1>1. PICK upTo \in [Streams -> 0..BatchSize] : Gather(w)!2!(upTo)
  BY DEF Gather
<1>. DEFINE taken == {m \in Messages : /\ Home[Stream[m]] = w
                                       /\ Rank[m] > done[Stream[m]]
                                       /\ Rank[m] <= done[Stream[m]] + upTo[Stream[m]]}
<1>2. PICK b \in Orders(taken) :
        /\ batch' = [batch EXCEPT ![w] = b]
        /\ signals' = [signals EXCEPT ![w] = SignalsOf(b)]
        /\ newRaids' = [newRaids EXCEPT ![w] = RaidsIn(b)]
        /\ dedupUntil' = [k \in Keys |->
             IF \E i \in DOMAIN b : Key(b[i]) = k /\ ~IsDuplicate(b, i)
             THEN time + DedupTTL ELSE dedupUntil[k]]
  BY <1>1
<1>3. /\ b \in Seq(Messages) /\ DOMAIN b = 1..Len(b)
      /\ Elements(b) = taken
      /\ \A i, j \in DOMAIN b : b[i] = b[j] => i = j
      /\ \A i, j \in DOMAIN b : Stream[b[i]] = Stream[b[j]] /\ i < j => Rank[b[i]] < Rank[b[j]]
  BY OrderFacts
<1>4. /\ upTo \in [Streams -> Nat]
      /\ \A s \in Streams : done[s] + upTo[s] <= sent[s] /\ (Home[s] # w => upTo[s] = 0)
  BY <1>1, ConstantsAssumption
<1>5. taken = {m \in Messages : /\ done[Stream[m]] < Rank[m]
                                /\ Rank[m] <= done[Stream[m]] + upTo[Stream[m]]}
  <2>1. ASSUME NEW m \in Messages
        PROVE  /\ done[Stream[m]] \in Nat /\ Rank[m] \in Nat /\ Stream[m] \in Streams
               /\ Home[Stream[m]] # w => upTo[Stream[m]] = 0
    BY StreamFacts, <1>4 DEF Bookkeeping, TypeOK
  <2>2. ASSUME NEW m \in Messages
        PROVE  Rank[m] > done[Stream[m]] <=> done[Stream[m]] < Rank[m]
    BY <2>1
  <2>3. ASSUME NEW m \in Messages, done[Stream[m]] < Rank[m],
               Rank[m] <= done[Stream[m]] + upTo[Stream[m]]
        PROVE  Home[Stream[m]] = w
    BY <2>1, <2>3
  <2>. QED
    BY <2>2, <2>3
<1>6. /\ stamps' = [u \in Users |->
           IF \E m \in taken : Author[m] = u
           THEN InWindow(u) \cup {[at |-> time, msg |-> m, try |-> crashes] :
                                    m \in {m \in taken : Author[m] = u}}
           ELSE stamps[u]]
      /\ sightings' = [s \in Streams |-> Sightings(s, taken)]
  BY <1>1
<1>7. /\ stage[w] = "idle" /\ stage' = [stage EXCEPT ![w] = "judging"]
      /\ UNCHANGED <<time, kafkaVars, raidUntil, verdicts, decision, crashes>>
  BY DEF Gather
<1>. HIDE DEF taken
<1>8. \E k \in [Streams -> Nat] :
        /\ \A s \in Streams : done[s] + k[s] <= sent[s] /\ (Home[s] # w => k[s] = 0)
        /\ Elements(b) = {m \in Messages : /\ done[Stream[m]] < Rank[m]
                                           /\ Rank[m] <= done[Stream[m]] + k[Stream[m]]}
  BY <1>3, <1>4, <1>5
<1>9. Asks(w, b)
  BY <1>2, <1>3, <1>6, <1>7, <1>8 DEF Asks
<1>. QED
  BY <1>9

\* What a worker holds is at home with it and not decided; what comes before it is
\* decided or in the same batch.
LEMMA InHand ==
  ASSUME Bookkeeping, NEW w \in Workers, NEW m \in Elements(batch[w])
  PROVE  /\ m \in Messages /\ Home[Stream[m]] = w
         /\ ~Decided(m)
         /\ stage[w] # "idle"
         /\ \A n \in Messages : Stream[n] = Stream[m] /\ Rank[n] <= Rank[m] =>
              Decided(n) \/ n \in Elements(batch[w])
<1>1. PICK k \in [Streams -> Nat] :
        Elements(batch[w]) = {n \in Messages : /\ done[Stream[n]] < Rank[n]
                                               /\ Rank[n] <= done[Stream[n]] + k[Stream[n]]}
  BY DEF Bookkeeping, BatchIsNext, HoldsNext
<1>2. /\ m \in Messages /\ done[Stream[m]] < Rank[m]
      /\ Rank[m] <= done[Stream[m]] + k[Stream[m]]
  BY <1>1
<1>3. Stream[m] \in Streams /\ done[Stream[m]] \in Nat /\ k[Stream[m]] \in Nat
  BY <1>2, StreamFacts DEF Bookkeeping, TypeOK
<1>4. \A n \in Messages : Rank[n] \in Nat
  BY StreamFacts
<1>5. ~Decided(m) /\ Home[Stream[m]] = w
  BY <1>2, <1>3, <1>4 DEF Bookkeeping, TypeOK
<1>6. stage[w] # "idle"
  BY DEF Bookkeeping, VerdictsMatch, Matches, Elements
<1>7. ASSUME NEW n \in Messages, Stream[n] = Stream[m], Rank[n] <= Rank[m]
      PROVE  Decided(n) \/ n \in Elements(batch[w])
  <2>1. Rank[n] <= done[Stream[n]] + k[Stream[n]]
    BY <1>2, <1>3, <1>4, <1>7
  <2>2. CASE Rank[n] <= done[Stream[n]]
    BY <2>2 DEF Bookkeeping, TypeOK
  <2>3. CASE done[Stream[n]] < Rank[n]
    BY <1>1, <2>1, <2>3
  <2>. QED
    BY <1>3, <1>4, <1>7, <2>2, <2>3
<1>. QED
  BY <1>2, <1>5, <1>6, <1>7

\* The messages of a batch: at home, sent, and next after those decided.
LEMMA AskedAbout ==
  ASSUME Bookkeeping, NEW w \in Workers, NEW b, Asks(w, b), NEW m \in Elements(b)
  PROVE  /\ m \in Messages /\ Home[Stream[m]] = w
         /\ done[Stream[m]] < Rank[m] /\ ~Decided(m)
         /\ \A v \in Workers : m \notin Elements(batch[v])
         /\ \A n \in Messages : Stream[n] = Stream[m] /\ Rank[n] <= Rank[m] =>
              Decided(n) \/ n \in Elements(b)
<1>1. PICK k \in [Streams -> Nat] :
        /\ \A s \in Streams : done[s] + k[s] <= sent[s] /\ (Home[s] # w => k[s] = 0)
        /\ Elements(b) = {n \in Messages : /\ done[Stream[n]] < Rank[n]
                                           /\ Rank[n] <= done[Stream[n]] + k[Stream[n]]}
  BY DEF Asks
<1>2. /\ m \in Messages /\ done[Stream[m]] < Rank[m]
      /\ Rank[m] <= done[Stream[m]] + k[Stream[m]]
  BY <1>1
<1>3. Stream[m] \in Streams /\ done[Stream[m]] \in Nat /\ k[Stream[m]] \in Nat
  BY <1>2, StreamFacts DEF Bookkeeping, TypeOK
<1>4. \A n \in Messages : Rank[n] \in Nat
  BY StreamFacts
<1>5. Home[Stream[m]] = w
  BY <1>1, <1>2, <1>3, <1>4
<1>6. ~Decided(m)
  BY <1>2, <1>3, <1>4 DEF Bookkeeping, TypeOK
<1>7. ASSUME NEW v \in Workers, m \in Elements(batch[v]) PROVE FALSE
  BY <1>5, <1>7, InHand DEF Asks
<1>8. ASSUME NEW n \in Messages, Stream[n] = Stream[m], Rank[n] <= Rank[m]
      PROVE  Decided(n) \/ n \in Elements(b)
  <2>1. Rank[n] <= done[Stream[n]] + k[Stream[n]]
    BY <1>2, <1>3, <1>4, <1>8
  <2>2. CASE Rank[n] <= done[Stream[n]]
    BY <2>2 DEF Bookkeeping, TypeOK
  <2>3. CASE done[Stream[n]] < Rank[n]
    BY <1>1, <2>1, <2>3
  <2>. QED
    BY <1>3, <1>4, <1>8, <2>2, <2>3
<1>. QED
  BY <1>2, <1>5, <1>6, <1>7, <1>8

\* The answers of one batch, and what of them reaches Redis.
LEMMA SignalsAt ==
  ASSUME TypeOK, NEW b \in Seq(Messages), \A i, j \in DOMAIN b : b[i] = b[j] => i = j
  PROVE  /\ SignalsOf(b) \in [Messages -> Signals]
         /\ \A i \in DOMAIN b :
              SignalsOf(b)[b[i]] = [duplicate |-> IsDuplicate(b, i),
                                    over |-> Speed(b, i) > Limit(b, i),
                                    raid |-> b[i] \in NewAccounts /\ Stream[b[i]] \in Raiding(b),
                                    at |-> time]
<1>1. \A i \in DOMAIN b : b[i] \in Messages
  OBVIOUS
<1>2. ASSUME NEW i \in DOMAIN b
      PROVE  SignalsOf(b)[b[i]] = [duplicate |-> IsDuplicate(b, i),
                                   over |-> Speed(b, i) > Limit(b, i),
                                   raid |-> b[i] \in NewAccounts /\ Stream[b[i]] \in Raiding(b),
                                   at |-> time]
  <2>1. b[i] \in Elements(b) /\ b[i] \in Messages
    BY <1>1 DEF Elements
  <2>2. (CHOOSE j \in DOMAIN b : b[j] = b[i]) = i
    OBVIOUS
  <2>. QED
    BY <2>1, <2>2 DEF SignalsOf
<1>3. \A i \in DOMAIN b : IsDuplicate(b, i) \in BOOLEAN
  BY DEF IsDuplicate
<1>4. \A i \in DOMAIN b : (Speed(b, i) > Limit(b, i)) \in BOOLEAN
  OBVIOUS
<1>5. time \in 0..MaxTime /\ 0 \in 0..MaxTime
  BY ConstantsAssumption DEF TypeOK
<1>6. ASSUME NEW m \in Messages PROVE SignalsOf(b)[m] \in Signals
  <2>1. CASE m \in Elements(b)
    <3>1. PICK i \in DOMAIN b : b[i] = m
      BY <2>1 DEF Elements
    <3>2. (b[i] \in NewAccounts /\ Stream[b[i]] \in Raiding(b)) \in BOOLEAN
      OBVIOUS
    <3>3. \A duplicate, over, raid \in BOOLEAN : \A at \in 0..MaxTime :
            [duplicate |-> duplicate, over |-> over, raid |-> raid, at |-> at] \in Signals
      BY DEF Signals
    <3>4. [duplicate |-> IsDuplicate(b, i), over |-> Speed(b, i) > Limit(b, i),
           raid |-> b[i] \in NewAccounts /\ Stream[b[i]] \in Raiding(b),
           at |-> time] \in Signals
      BY <1>3, <1>4, <1>5, <3>2, <3>3, Zenon
    <3>. QED
      BY <1>2, <3>1, <3>4
  <2>2. CASE m \notin Elements(b)
    BY <1>5, <2>2 DEF SignalsOf, NoSignals, Signals
  <2>. QED
    BY <2>1, <2>2
<1>7. SignalsOf(b) = [m \in Messages |-> SignalsOf(b)[m]]
  BY DEF SignalsOf
<1>. QED
  BY <1>2, <1>6, <1>7

\* Expired stamps drop out, and no message is stamped but those asked about.
LEMMA TypeGather ==
  ASSUME Bookkeeping, NEW w \in Workers, NEW b, Asks(w, b)
  PROVE  TypeOK'
<1>. USE DEF Asks
<1>1. TypeOK
  BY DEF Bookkeeping
<1>2. \A m \in Elements(b) : m \in Messages /\ Home[Stream[m]] = w
  BY AskedAbout
<1>3. signals' \in [Workers -> [Messages -> Signals]]
  BY <1>1, SignalsAt DEF TypeOK
<1>4. dedupUntil' \in [Keys -> Nat]
  <2>1. \A k \in Keys : dedupUntil[k] \in Nat /\ time + DedupTTL \in Nat
    BY <1>1, ConstantsAssumption DEF TypeOK
  <2>. QED
    BY <2>1
<1>5. stamps' \in [Users -> SUBSET [at : 1..MaxTime, msg : Messages, try : 0..MaxCrashes]]
  <2>1. \A u \in Users : InWindow(u) \in SUBSET [at : 1..MaxTime, msg : Messages, try : 0..MaxCrashes]
    BY <1>1 DEF TypeOK, InWindow
  <2>2. \A m \in Elements(b) : [at |-> time, msg |-> m, try |-> crashes] \in
                               [at : 1..MaxTime, msg : Messages, try : 0..MaxCrashes]
    BY <1>1, <1>2 DEF TypeOK
  <2>. QED
    BY <1>1, <2>1, <2>2 DEF TypeOK
<1>6. sightings' \in [Streams -> SUBSET ((0..MaxTime) \X Users)]
  <2>1. Bucket(time) \in 0..MaxTime
    BY <1>1, BucketType, ConstantsAssumption DEF TypeOK
  <2>2. \A m \in Elements(b) : <<Bucket(time), Author[m]>> \in (0..MaxTime) \X Users
    BY <1>2, <2>1, ConstantsAssumption
  <2>. HIDE DEF Asks
  <2>3. \A s \in Streams : Sightings(s, Elements(b)) \in SUBSET ((0..MaxTime) \X Users)
    BY <1>1, <2>2 DEF TypeOK, Sightings
  <2>. QED
    BY <2>3 DEF Asks
<1>7. /\ batch' \in [Workers -> Seq(Messages)]
      /\ \A v \in Workers : \A m \in Elements(batch'[v]) : Home[Stream[m]] = v
  BY <1>1, <1>2 DEF TypeOK
<1>8. newRaids' \in [Workers -> SUBSET Streams]
  BY <1>1 DEF TypeOK, RaidsIn
<1>9. /\ stage' \in [Workers -> {"idle", "judging", "saving"}]
      /\ UNCHANGED <<time, sent, done, raidUntil, verdicts, decision, crashes>>
  BY <1>1 DEF TypeOK
<1>. HIDE DEF Asks
<1>. QED
  BY <1>1, <1>3, <1>4, <1>5, <1>6, <1>7, <1>8, <1>9 DEF TypeOK, Decided

\* The verdict on a message in hand.
LEMMA TypeFinish ==
  ASSUME Bookkeeping, NEW w \in Workers, Finish(w)
  PROVE  /\ TypeOK'
         /\ \A v \in Workers : v # w => verdicts'[v] = verdicts[v]
         /\ \A m \in Elements(batch[w]) : /\ verdicts'[w][m] # Undecided
                                          /\ verdicts'[w][m].reason = ReasonOf(signals[w][m])
                                          /\ verdicts'[w][m].at = signals[w][m].at
<1>1. TypeOK /\ VerdictsMatch
  BY DEF Bookkeeping
<1>2. PICK content \in [Elements(batch[w]) -> Content] :
        verdicts' = [verdicts EXCEPT ![w] =
          [m \in Messages |->
             IF m \notin Elements(batch[w]) THEN Undecided
             ELSE LET v == CheapChecks(m, signals[w][m], content[m])
                  IN  [action |-> v[1], reason |-> v[2], at |-> signals[w][m].at]]]
  BY DEF Finish
<1>3. ASSUME NEW m \in Elements(batch[w])
      PROVE  /\ verdicts'[w][m] \in [action : Actions, reason : Reasons, at : 1..MaxTime]
             /\ verdicts'[w][m].reason = ReasonOf(signals[w][m])
             /\ verdicts'[w][m].at = signals[w][m].at
  <2>. DEFINE v == CheapChecks(m, signals[w][m], content[m])
  <2>1. m \in Messages /\ Stream[m] \in Streams
    BY InHand, StreamFacts
  <2>2. verdicts'[w][m] = [action |-> v[1], reason |-> v[2], at |-> signals[w][m].at]
    BY <1>1, <1>2, <2>1 DEF TypeOK
  <2>3. content[m] \in Actions /\ OverLimit[Stream[m]] \in Actions
    BY <2>1, ConstantsAssumption
  <2>4. v[1] \in Actions /\ v[2] = ReasonOf(signals[w][m]) /\ v[2] \in Reasons
    BY <2>3 DEF CheapChecks, ReasonOf, Reasons, Actions
  <2>5. signals[w][m].at \in 1..MaxTime
    BY <1>1, ConstantsAssumption DEF TypeOK, VerdictsMatch, Matches
  <2>. QED
    BY <2>2, <2>4, <2>5
<1>4. \A r \in [action : Actions, reason : Reasons, at : 1..MaxTime] : r # Undecided
  BY DEF Undecided, Reasons
<1>5. \A v \in Workers : v # w => verdicts'[v] = verdicts[v]
  BY <1>2
<1>6. verdicts' \in [Workers -> [Messages -> Verdict]]
  <2>1. \A m \in Messages : verdicts'[w][m] \in Verdict
    BY <1>1, <1>2, <1>3 DEF TypeOK, Verdict
  <2>2. verdicts'[w] = [m \in Messages |-> verdicts'[w][m]]
    BY <1>1, <1>2 DEF TypeOK
  <2>3. verdicts'[w] \in [Messages -> Verdict]
    BY <2>1, <2>2
  <2>4. verdicts' \in [Workers -> {verdicts'[v] : v \in Workers}]
    BY <1>1, <1>2 DEF TypeOK
  <2>5. \A v \in Workers : verdicts'[v] \in [Messages -> Verdict]
    BY <1>1, <1>5, <2>3 DEF TypeOK
  <2>. QED
    BY <2>4, <2>5
<1>7. raidUntil' \in [Streams -> Nat]
  BY <1>1, ConstantsAssumption DEF TypeOK, Finish
<1>8. /\ stage' \in [Workers -> {"idle", "judging", "saving"}]
      /\ UNCHANGED <<time, sent, done, dedupUntil, stamps, sightings, batch, signals,
                     newRaids, decision, crashes>>
  BY <1>1 DEF TypeOK, Finish
<1>. QED
  BY <1>1, <1>3, <1>4, <1>5, <1>6, <1>7, <1>8 DEF TypeOK, Decided

\* The offsets move past what was in hand, on the streams of the worker.
LEMMA SaveFacts ==
  ASSUME Bookkeeping, NEW w \in Workers, Save(w)
  PROVE  /\ done' \in [Streams -> Nat]
         /\ \A s \in Streams : done'[s] <= sent[s]
         /\ \A s \in Streams : Home[s] # w => done'[s] = done[s]
         /\ \A m \in Messages : Rank[m] <= done'[Stream[m]] <=>
                                  Rank[m] <= done[Stream[m]] \/ m \in Elements(batch[w])
<1>1. PICK k \in [Streams -> Nat] :
        /\ \A s \in Streams : done[s] + k[s] <= sent[s] /\ (Home[s] # w => k[s] = 0)
        /\ Elements(batch[w]) = {m \in Messages : /\ done[Stream[m]] < Rank[m]
                                                  /\ Rank[m] <= done[Stream[m]] + k[Stream[m]]}
  BY DEF Bookkeeping, BatchIsNext, HoldsNext
<1>2. ASSUME NEW s \in Streams
      PROVE  /\ done'[s] = done[s] + k[s]
             /\ done[s] \in Nat /\ k[s] \in Nat /\ sent[s] \in Nat
  <2>. DEFINE after == {m \in Messages : Stream[m] = s /\ done[s] < Rank[m]
                                                       /\ Rank[m] <= done[s] + k[s]}
  <2>1. /\ done[s] \in Nat /\ k[s] \in Nat /\ sent[s] \in Nat
        /\ done[s] + k[s] <= sent[s] /\ sent[s] <= Len(Log[s]) /\ Len(Log[s]) \in Nat
    BY <1>1, StreamFacts DEF Bookkeeping, TypeOK
  <2>2. done[s] + k[s] <= Len(Log[s])
    BY <2>1
  <2>3. Cardinality(after) = k[s]
    BY <2>1, <2>2, TakenCount
  <2>4. {m \in Elements(batch[w]) : Stream[m] = s} = after
    BY <1>1
  <2>5. done'[s] = done[s] + Cardinality({m \in Elements(batch[w]) : Stream[m] = s})
    BY DEF Save, Committed
  <2>. HIDE DEF after
  <2>. QED
    BY <2>1, <2>3, <2>4, <2>5
<1>3. done' \in [Streams -> Nat]
  <2>1. done' = [s \in Streams |-> done'[s]]
    BY DEF Save, Committed
  <2>2. \A s \in Streams : done'[s] \in Nat
    BY <1>2
  <2>. QED
    BY <2>1, <2>2
<1>4. \A s \in Streams : done'[s] <= sent[s] /\ (Home[s] # w => done'[s] = done[s])
  BY <1>1, <1>2
<1>5. ASSUME NEW m \in Messages
      PROVE  Rank[m] <= done'[Stream[m]] <=>
               Rank[m] <= done[Stream[m]] \/ m \in Elements(batch[w])
  <2>1. Stream[m] \in Streams /\ Rank[m] \in Nat
    BY StreamFacts
  <2>2. m \in Elements(batch[w]) <=> /\ done[Stream[m]] < Rank[m]
                                     /\ Rank[m] <= done[Stream[m]] + k[Stream[m]]
    BY <1>1
  <2>. QED
    BY <1>2, <2>1, <2>2
<1>. QED
  BY <1>3, <1>4, <1>5

LEMMA DropBatchType ==
  ASSUME TypeOK, NEW w \in Workers, DropBatch(w)
  PROVE  /\ stage' \in [Workers -> {"idle", "judging", "saving"}]
         /\ batch' \in [Workers -> Seq(Messages)]
         /\ Elements(batch'[w]) = {} /\ batch'[w] = <<>> /\ stage'[w] = "idle"
         /\ \A v \in Workers : v # w => /\ batch'[v] = batch[v] /\ stage'[v] = stage[v]
                                        /\ signals'[v] = signals[v]
                                        /\ newRaids'[v] = newRaids[v]
                                        /\ verdicts'[v] = verdicts[v]
         /\ \A v \in Workers : \A m \in Elements(batch'[v]) : Home[Stream[m]] = v
         /\ signals' \in [Workers -> [Messages -> Signals]]
         /\ newRaids' \in [Workers -> SUBSET Streams]
         /\ verdicts' \in [Workers -> [Messages -> Verdict]]
<1>. USE DEF DropBatch, TypeOK
<1>1. batch' \in [Workers -> Seq(Messages)] /\ batch'[w] = <<>>
  OBVIOUS
<1>2. Elements(batch'[w]) = {}
  BY <1>1 DEF Elements
<1>3. \A v \in Workers : v # w => /\ batch'[v] = batch[v] /\ stage'[v] = stage[v]
                                  /\ signals'[v] = signals[v]
                                  /\ newRaids'[v] = newRaids[v]
                                  /\ verdicts'[v] = verdicts[v]
  OBVIOUS
<1>4. \A v \in Workers : \A m \in Elements(batch'[v]) : Home[Stream[m]] = v
  BY <1>2, <1>3
<1>5. None(NoSignals) \in [Messages -> Signals]
  BY ConstantsAssumption DEF None, NoSignals, Signals
<1>6. None(Undecided) \in [Messages -> Verdict]
  BY DEF None, Verdict
<1>. QED
  BY <1>1, <1>2, <1>3, <1>4, <1>5, <1>6

LEMMA TypeSave ==
  ASSUME Bookkeeping, NEW w \in Workers, Save(w)
  PROVE  TypeOK'
<1>1. TypeOK /\ DropBatch(w)
  BY DEF Bookkeeping, Save
<1>2. /\ done' \in [Streams -> Nat] /\ sent' = sent
      /\ \A s \in Streams : done'[s] <= sent'[s]
  BY SaveFacts DEF Save
<1>3. decision' \in [Messages -> Verdict]
  BY <1>1 DEF TypeOK, Save
<1>4. \A m \in Messages : Decided(m)' <=> Rank[m] <= done'[Stream[m]]
  <2>1. ASSUME NEW m \in Messages
        PROVE  Decided(m)' <=> Decided(m) \/ m \in Elements(batch[w])
    <3>1. m \in Elements(batch[w]) => verdicts[w][m] # Undecided
      BY DEF Save, Bookkeeping, VerdictsMatch, Matches
    <3>2. decision'[m] = IF m \in Elements(batch[w]) THEN verdicts[w][m] ELSE decision[m]
      BY DEF Save
    <3>. QED
      BY <3>1, <3>2 DEF Decided
  <2>. QED
    BY <1>1, <2>1, SaveFacts DEF TypeOK
<1>5. UNCHANGED <<time, dedupUntil, stamps, sightings, raidUntil, crashes>>
  BY DEF Save
<1>. QED
  BY <1>1, <1>2, <1>3, <1>4, <1>5, DropBatchType DEF TypeOK

LEMMA TypeCrash ==
  ASSUME Bookkeeping, NEW w \in Workers, Crash(w)
  PROVE  TypeOK' /\ crashes' > 0
<1>1. TypeOK /\ DropBatch(w)
  BY DEF Bookkeeping, Crash
<1>2. /\ crashes' \in 0..MaxCrashes /\ crashes' > 0
      /\ UNCHANGED <<time, sent, done, dedupUntil, stamps, sightings, raidUntil, decision>>
  BY <1>1, ConstantsAssumption DEF TypeOK, Crash
<1>. QED
  BY <1>1, <1>2, DropBatchType DEF TypeOK, Decided

LEMMA TypeTickSend ==
  ASSUME Bookkeeping, Tick \/ (\E s \in Streams : Send(s)) \/ UNCHANGED vars
  PROVE  /\ TypeOK' /\ time' >= time
         /\ \A s \in Streams : sent'[s] >= sent[s]
         /\ UNCHANGED <<done, redisVars, workerVars, decision, crashes>>
<1>1. TypeOK /\ MaxTime \in Nat
  BY ConstantsAssumption DEF Bookkeeping
<1>2. CASE Tick
  <2>1. time' \in 1..MaxTime /\ time' >= time
    BY <1>1, <1>2 DEF TypeOK, Tick
  <2>2. UNCHANGED <<sent, done, redisVars, workerVars, decision, crashes>>
    BY <1>2 DEF Tick
  <2>. QED
    BY <1>1, <2>1, <2>2 DEF TypeOK, Decided
<1>3. CASE \E s \in Streams : Send(s)
  <2>1. PICK s \in Streams : Send(s)
    BY <1>3
  <2>2. /\ sent' \in [Streams -> Nat]
        /\ \A t \in Streams : done[t] <= sent'[t] /\ sent'[t] <= Len(Log[t]) /\ sent'[t] >= sent[t]
    <3>1. /\ sent' = [sent EXCEPT ![s] = @ + 1]
          /\ sent[s] < Len(Log[s]) /\ Len(Log[s]) \in Nat
      BY <2>1, StreamFacts DEF Send
    <3>. QED
      BY <1>1, <3>1 DEF TypeOK
  <2>3. UNCHANGED <<time, done, redisVars, workerVars, decision, crashes>>
    BY <2>1 DEF Send
  <2>4. time' >= time
    BY <1>1, <2>3 DEF TypeOK
  <2>. QED
    BY <1>1, <2>2, <2>3, <2>4 DEF TypeOK, Decided
<1>4. CASE UNCHANGED vars
  <2>1. UNCHANGED <<time, sent, done, redisVars, workerVars, decision, crashes>>
    BY <1>4 DEF vars
  <2>2. time' >= time /\ \A s \in Streams : sent'[s] >= sent[s]
    BY <1>1, <2>1 DEF TypeOK
  <2>. QED
    BY <1>1, <2>1, <2>2 DEF TypeOK, Decided
<1>. QED
  BY <1>2, <1>3, <1>4

\* Where nothing changes for a worker, what it holds stays next.
LEMMA StillNext ==
  ASSUME Bookkeeping, TypeOK', NEW w \in Workers,
         batch'[w] = batch[w],
         \A s \in Streams : sent'[s] >= sent[s],
         \A s \in Streams : Home[s] = w => done'[s] = done[s]
  PROVE  HoldsNext(w)'
<1>1. PICK k \in [Streams -> Nat] :
        /\ \A s \in Streams : done[s] + k[s] <= sent[s] /\ (Home[s] # w => k[s] = 0)
        /\ Elements(batch[w]) = {m \in Messages : /\ done[Stream[m]] < Rank[m]
                                                  /\ Rank[m] <= done[Stream[m]] + k[Stream[m]]}
  BY DEF Bookkeeping, BatchIsNext, HoldsNext
<1>2. ASSUME NEW s \in Streams
      PROVE  /\ done[s] \in Nat /\ done'[s] \in Nat /\ sent[s] \in Nat /\ sent'[s] \in Nat
             /\ k[s] \in Nat /\ done'[s] <= sent'[s] /\ sent'[s] >= sent[s]
             /\ done[s] + k[s] <= sent[s]
             /\ Home[s] = w => done'[s] = done[s]
             /\ Home[s] # w => k[s] = 0
  BY <1>1 DEF Bookkeeping, TypeOK
<1>3. ASSUME NEW s \in Streams
      PROVE  done'[s] + k[s] <= sent'[s]
  BY <1>2
<1>4. ASSUME NEW m \in Messages
      PROVE  done[Stream[m]] < Rank[m] /\ Rank[m] <= done[Stream[m]] + k[Stream[m]] <=>
             done'[Stream[m]] < Rank[m] /\ Rank[m] <= done'[Stream[m]] + k[Stream[m]]
  <2>1. Stream[m] \in Streams /\ Rank[m] \in Nat
    BY StreamFacts
  <2>. QED
    BY <1>2, <2>1
<1>5. Elements(batch'[w]) =
        {m \in Messages : /\ done'[Stream[m]] < Rank[m]
                          /\ Rank[m] <= done'[Stream[m]] + k[Stream[m]]}
  BY <1>1, <1>4
<1>. QED
  BY <1>1, <1>3, <1>5 DEF HoldsNext

\* A worker that holds nothing.
LEMMA NothingNext ==
  ASSUME Bookkeeping, TypeOK', NEW w \in Workers, Elements(batch'[w]) = {}
  PROVE  HoldsNext(w)'
<1>. DEFINE k == [s \in Streams |-> 0]
<1>1. \A s \in Streams : done'[s] \in Nat /\ sent'[s] \in Nat /\ done'[s] <= sent'[s]
  BY DEF TypeOK
<1>2. \A m \in Messages : Stream[m] \in Streams /\ Rank[m] \in Nat
  BY StreamFacts
<1>3. k \in [Streams -> Nat] /\ \A s \in Streams : done'[s] + k[s] <= sent'[s]
  BY <1>1
<1>4. {m \in Messages : /\ done'[Stream[m]] < Rank[m]
                        /\ Rank[m] <= done'[Stream[m]] + k[Stream[m]]} = {}
  BY <1>1, <1>2
<1>. QED
  BY <1>3, <1>4 DEF HoldsNext

LEMMA BookkeepingInit ==
  ASSUME Init
  PROVE  Bookkeeping
<1>. USE DEF Init
<1>1. TypeOK
  <2>1. /\ time \in 1..MaxTime /\ crashes \in 0..MaxCrashes
        /\ sent \in [Streams -> Nat] /\ done \in [Streams -> Nat]
        /\ dedupUntil \in [Keys -> Nat] /\ raidUntil \in [Streams -> Nat]
    BY ConstantsAssumption
  <2>2. \A s \in Streams : done[s] <= sent[s] /\ sent[s] <= Len(Log[s])
    BY StreamFacts
  <2>3. /\ stamps \in [Users -> SUBSET [at : 1..MaxTime, msg : Messages, try : 0..MaxCrashes]]
        /\ sightings \in [Streams -> SUBSET ((0..MaxTime) \X Users)]
        /\ stage \in [Workers -> {"idle", "judging", "saving"}]
        /\ batch \in [Workers -> Seq(Messages)]
        /\ newRaids \in [Workers -> SUBSET Streams]
    OBVIOUS
  <2>4. \A w \in Workers : \A m \in Elements(batch[w]) : Home[Stream[m]] = w
    BY DEF Elements
  <2>5. signals \in [Workers -> [Messages -> Signals]]
    BY ConstantsAssumption DEF None, NoSignals, Signals
  <2>6. /\ verdicts \in [Workers -> [Messages -> Verdict]]
        /\ decision \in [Messages -> Verdict]
    BY DEF None, Verdict
  <2>7. \A m \in Messages : Decided(m) <=> Rank[m] <= done[Stream[m]]
    BY StreamFacts DEF Decided, None
  <2>. QED
    BY <2>1, <2>2, <2>3, <2>4, <2>5, <2>6, <2>7 DEF TypeOK
<1>2. \A w \in Workers : batch[w] = <<>> /\ Elements(batch[w]) = {}
  BY DEF Elements
<1>3. BatchIsNext
  <2>. SUFFICES ASSUME NEW w \in Workers PROVE HoldsNext(w)
    BY DEF BatchIsNext
  <2>. DEFINE k == [s \in Streams |-> 0]
  <2>1. k \in [Streams -> Nat] /\ \A s \in Streams : done[s] + k[s] <= sent[s]
    OBVIOUS
  <2>2. {m \in Messages : /\ done[Stream[m]] < Rank[m]
                          /\ Rank[m] <= done[Stream[m]] + k[Stream[m]]} = {}
    BY StreamFacts
  <2>. QED
    BY <1>2, <2>1, <2>2 DEF HoldsNext
<1>4. VerdictsMatch
  BY <1>2 DEF VerdictsMatch, Matches
<1>. QED
  BY <1>1, <1>3, <1>4 DEF Bookkeeping

LEMMA BookkeepingStep ==
  ASSUME Bookkeeping, [Next]_vars
  PROVE  Bookkeeping'
<1>1. CASE Tick \/ (\E s \in Streams : Send(s)) \/ UNCHANGED vars
  <2>1. /\ TypeOK' /\ time' >= time /\ \A s \in Streams : sent'[s] >= sent[s]
        /\ UNCHANGED <<done, stage, batch, signals, newRaids, verdicts>>
    BY <1>1, TypeTickSend
  <2>2. BatchIsNext'
    BY <2>1, StillNext DEF BatchIsNext
  <2>3. VerdictsMatch'
    <3>1. time \in Nat /\ time' \in Nat
      BY <2>1 DEF Bookkeeping, TypeOK
    <3>2. \A t \in 1..time : t \in 1..time'
      BY <2>1, <3>1
    <3>. QED
      BY <2>1, <3>2 DEF Bookkeeping, VerdictsMatch, Matches
  <2>. QED
    BY <2>1, <2>2, <2>3 DEF Bookkeeping
<1>2. ASSUME NEW w \in Workers, Gather(w) PROVE Bookkeeping'
  <2>1. PICK b : Asks(w, b)
    BY <1>2, GatherAsks
  <2>2. TypeOK'
    BY <2>1, TypeGather
  <2>3. /\ batch'[w] = b /\ stage'[w] = "judging" /\ signals'[w] = SignalsOf(b)
        /\ \A v \in Workers : v # w => /\ batch'[v] = batch[v] /\ stage'[v] = stage[v]
                                       /\ signals'[v] = signals[v]
        /\ UNCHANGED <<time, sent, done, verdicts>>
    BY <2>1 DEF Asks, Bookkeeping, TypeOK
  <2>4. ASSUME NEW v \in Workers PROVE HoldsNext(v)'
    <3>1. CASE v = w
      <4>1. PICK k \in [Streams -> Nat] :
              /\ \A s \in Streams : done[s] + k[s] <= sent[s] /\ (Home[s] # w => k[s] = 0)
              /\ Elements(b) = {m \in Messages : /\ done[Stream[m]] < Rank[m]
                                                 /\ Rank[m] <= done[Stream[m]] + k[Stream[m]]}
        BY <2>1 DEF Asks
      <4>2. \A s \in Streams : done'[s] + k[s] <= sent'[s] /\ (Home[s] # w => k[s] = 0)
        BY <2>3, <4>1
      <4>3. Elements(batch'[w]) =
              {m \in Messages : /\ done'[Stream[m]] < Rank[m]
                                /\ Rank[m] <= done'[Stream[m]] + k[Stream[m]]}
        BY <2>3, <4>1
      <4>. QED
        BY <3>1, <4>2, <4>3 DEF HoldsNext
    <3>2. CASE v # w
      <4>1. \A s \in Streams : sent'[s] >= sent[s]
        BY <2>3 DEF Bookkeeping, TypeOK
      <4>. QED
        BY <2>2, <2>3, <3>2, <4>1, StillNext
    <3>. QED
      BY <3>1, <3>2
  <2>5. ASSUME NEW v \in Workers PROVE Matches(v)'
    <3>1. CASE v = w
      <4>1. \A m \in Elements(b) : SignalsOf(b)[m].at \in 1..time
        <5>1. time \in 1..time
          BY DEF Bookkeeping, TypeOK
        <5>2. ASSUME NEW m \in Elements(b) PROVE SignalsOf(b)[m].at = time
          <6>1. TypeOK /\ b \in Seq(Messages) /\ \A i, j \in DOMAIN b : b[i] = b[j] => i = j
            BY <2>1 DEF Asks, Bookkeeping
          <6>2. PICK i \in DOMAIN b : b[i] = m
            BY DEF Elements
          <6>3. SignalsOf(b)[b[i]] = [duplicate |-> IsDuplicate(b, i),
                                      over |-> Speed(b, i) > Limit(b, i),
                                      raid |-> b[i] \in NewAccounts /\ Stream[b[i]] \in Raiding(b),
                                      at |-> time]
            BY <6>1, SignalsAt
          <6>. QED
            BY <6>2, <6>3
        <5>. QED
          BY <5>1, <5>2
      <4>. QED
        BY <2>3, <3>1, <4>1 DEF Matches
    <3>2. CASE v # w
      BY <2>3, <3>2 DEF Matches, Bookkeeping, VerdictsMatch
    <3>. QED
      BY <3>1, <3>2
  <2>. QED
    BY <2>2, <2>4, <2>5 DEF Bookkeeping, BatchIsNext, VerdictsMatch
<1>3. ASSUME NEW w \in Workers, Finish(w) PROVE Bookkeeping'
  <2>1. /\ TypeOK'
        /\ \A v \in Workers : v # w => verdicts'[v] = verdicts[v]
        /\ \A m \in Elements(batch[w]) : /\ verdicts'[w][m] # Undecided
                                         /\ verdicts'[w][m].reason = ReasonOf(signals[w][m])
                                         /\ verdicts'[w][m].at = signals[w][m].at
    BY <1>3, TypeFinish
  <2>2. UNCHANGED <<time, sent, done, batch, signals>>
    BY <1>3 DEF Finish
  <2>3. /\ stage'[w] = "saving"
        /\ \A v \in Workers : v # w => stage'[v] = stage[v]
    BY <1>3 DEF Finish, Bookkeeping, TypeOK
  <2>4. BatchIsNext'
    <3>1. \A s \in Streams : sent'[s] >= sent[s]
      BY <2>2 DEF Bookkeeping, TypeOK
    <3>. QED
      BY <2>1, <2>2, <3>1, StillNext DEF BatchIsNext
  <2>5. ASSUME NEW v \in Workers PROVE Matches(v)'
    <3>1. Matches(v)
      BY DEF Bookkeeping, VerdictsMatch
    <3>2. CASE v = w
      <4>1. stage'[v] # "idle"
        BY <2>3, <3>2
      <4>. QED
        BY <2>1, <2>2, <3>1, <3>2, <4>1 DEF Matches
    <3>3. CASE v # w
      BY <2>1, <2>2, <2>3, <3>1, <3>3 DEF Matches
    <3>. QED
      BY <3>2, <3>3
  <2>. QED
    BY <2>1, <2>4, <2>5 DEF Bookkeeping, VerdictsMatch
<1>4. ASSUME NEW w \in Workers, Save(w) \/ Crash(w) PROVE Bookkeeping'
  <2>1. TypeOK' /\ DropBatch(w) /\ UNCHANGED <<time, sent>>
    BY <1>4, TypeSave, TypeCrash DEF Save, Crash
  <2>2. /\ batch'[w] = <<>> /\ Elements(batch'[w]) = {} /\ stage'[w] = "idle"
        /\ \A v \in Workers : v # w => /\ batch'[v] = batch[v] /\ stage'[v] = stage[v]
                                       /\ signals'[v] = signals[v]
                                       /\ verdicts'[v] = verdicts[v]
    BY <2>1, DropBatchType DEF Bookkeeping
  <2>3. /\ \A s \in Streams : sent'[s] >= sent[s]
        /\ \A s \in Streams : Home[s] # w => done'[s] = done[s]
    <3>1. \A s \in Streams : sent'[s] >= sent[s]
      BY <2>1 DEF Bookkeeping, TypeOK
    <3>2. CASE Save(w)
      BY <3>1, <3>2, SaveFacts
    <3>3. CASE Crash(w)
      BY <3>1, <3>3 DEF Crash
    <3>. QED
      BY <1>4, <3>2, <3>3
  <2>4. ASSUME NEW v \in Workers PROVE HoldsNext(v)'
    <3>1. CASE v = w
      BY <2>1, <2>2, <3>1, NothingNext
    <3>2. CASE v # w
      BY <2>1, <2>2, <2>3, <3>2, StillNext
    <3>. QED
      BY <3>1, <3>2
  <2>5. ASSUME NEW v \in Workers PROVE Matches(v)'
    <3>1. Matches(v)
      BY DEF Bookkeeping, VerdictsMatch
    <3>. QED
      BY <2>1, <2>2, <3>1 DEF Matches
  <2>. QED
    BY <2>1, <2>4, <2>5 DEF Bookkeeping, BatchIsNext, VerdictsMatch
<1>. QED
  BY <1>1, <1>2, <1>3, <1>4 DEF Next

\* Every variable has its type, the decided messages are those below the committed
\* offsets, and what a worker holds comes right after them.
THEOREM BookkeepingInvariant == Spec => []Bookkeeping
<1>. QED
  BY BookkeepingInit, BookkeepingStep, PTL DEF Spec

\* The type invariant of the runs: what is decided is what is committed, message by
\* message, and a worker holds messages of its own streams only.
THEOREM TypeCorrect == Spec => []TypeOK
<1>1. Bookkeeping => TypeOK
  BY DEF Bookkeeping
<1>. QED
  BY <1>1, BookkeepingInvariant, PTL

-------------------------------------------------------------------------------
(* Answers: what is on record, and what the workers will put there.        *)

Answer == [msg : Messages, reason : Reasons, at : 1..MaxTime]

OnRecord(a) == decision[a.msg].reason = a.reason /\ decision[a.msg].at = a.at

HeldBy(a, w) ==
  /\ a.msg \in Elements(batch[w])
  /\ ReasonOf(signals[w][a.msg]) = a.reason /\ signals[w][a.msg].at = a.at

Answers == {a \in Answer : OnRecord(a) \/ \E w \in Workers : HeldBy(a, w)}

\* What gather answers about a batch b.
NewAnswers(b) ==
  {[msg |-> m, reason |-> ReasonOf(SignalsOf(b)[m]), at |-> time] : m \in Elements(b)}

LEMMA OnRecordIsDecided ==
  ASSUME TypeOK, NEW a \in Answer, OnRecord(a)
  PROVE  Decided(a.msg)
BY DEF Answer, OnRecord, Decided, Undecided, Reasons

LEMMA Recorded ==
  ASSUME TypeOK, NEW m \in Messages, Decided(m)
  PROVE  /\ decision[m].reason \in Reasons /\ decision[m].at \in 1..MaxTime
         /\ [msg |-> m, reason |-> decision[m].reason, at |-> decision[m].at] \in Answers
<1>1. decision[m] \in [action : Actions, reason : Reasons, at : 1..MaxTime]
  BY DEF TypeOK, Verdict, Decided
<1>. QED
  BY <1>1 DEF Answers, Answer, OnRecord

LEMMA Held ==
  ASSUME Bookkeeping, NEW w \in Workers, NEW m \in Elements(batch[w])
  PROVE  [msg |-> m, reason |-> ReasonOf(signals[w][m]), at |-> signals[w][m].at] \in Answers
<1>1. m \in Messages
  BY InHand
<1>2. signals[w][m].at \in 1..MaxTime
  BY ConstantsAssumption DEF Bookkeeping, VerdictsMatch, Matches, TypeOK
<1>3. ReasonOf(signals[w][m]) \in Reasons
  BY DEF ReasonOf, Reasons
<1>. QED
  BY <1>1, <1>2, <1>3 DEF Answers, Answer, HeldBy

LEMMA OneAnswer ==
  ASSUME Bookkeeping, NEW a \in Answers, NEW b \in Answers, a.msg = b.msg
  PROVE  a = b
<1>1. a \in Answer /\ b \in Answer
  BY DEF Answers
<1>2. a.reason = b.reason /\ a.at = b.at
  <2>1. CASE OnRecord(a) /\ OnRecord(b)
    BY <2>1 DEF OnRecord
  <2>2. CASE \E w \in Workers : HeldBy(a, w) \/ HeldBy(b, w)
    <3>1. PICK w \in Workers : HeldBy(a, w) \/ HeldBy(b, w)
      BY <2>2
    <3>2. a.msg \in Elements(batch[w])
      BY <3>1 DEF HeldBy
    <3>3. ~OnRecord(a) /\ ~OnRecord(b)
      BY <1>1, <3>2, InHand, OnRecordIsDecided DEF Bookkeeping
    <3>4. PICK u \in Workers, v \in Workers : HeldBy(a, u) /\ HeldBy(b, v)
      BY <3>3 DEF Answers
    <3>5. u = v
      BY <3>4, InHand DEF HeldBy
    <3>. QED
      BY <3>4, <3>5 DEF HeldBy
  <2>. QED
    BY <2>1, <2>2 DEF Answers
<1>. QED
  BY <1>1, <1>2 DEF Answer

\* Everything asked about before a message of its stream has an answer too.
LEMMA InOrder ==
  ASSUME Bookkeeping, NEW a \in Answers, NEW n \in Messages,
         Stream[n] = Stream[a.msg], Rank[n] <= Rank[a.msg]
  PROVE  \E b \in Answers : b.msg = n
<1>1. a \in Answer /\ TypeOK
  BY DEF Answers, Bookkeeping
<1>2. CASE OnRecord(a)
  <2>1. /\ Rank[a.msg] <= done[Stream[a.msg]]
        /\ a.msg \in Messages
    BY <1>1, <1>2, OnRecordIsDecided DEF TypeOK, Answer
  <2>2. Rank[n] \in Nat /\ Rank[a.msg] \in Nat /\ done[Stream[n]] \in Nat
    BY <1>1, <2>1, StreamFacts DEF TypeOK
  <2>3. Decided(n)
    BY <1>1, <2>1, <2>2 DEF TypeOK
  <2>. QED
    BY <1>1, <2>3, Recorded
<1>3. ASSUME NEW w \in Workers, HeldBy(a, w) PROVE \E b \in Answers : b.msg = n
  <2>1. a.msg \in Elements(batch[w])
    BY <1>3 DEF HeldBy
  <2>2. Decided(n) \/ n \in Elements(batch[w])
    BY <2>1, InHand
  <2>. QED
    BY <1>1, <2>2, Recorded, Held
<1>. QED
  BY <1>2, <1>3 DEF Answers

LEMMA NewAnswerFacts ==
  ASSUME Bookkeeping, NEW w \in Workers, NEW b, Asks(w, b)
  PROVE  /\ NewAnswers(b) \subseteq Answer
         /\ \A i \in DOMAIN b :
              /\ SignalsOf(b)[b[i]].duplicate <=> IsDuplicate(b, i)
              /\ SignalsOf(b)[b[i]].over <=> Speed(b, i) > Limit(b, i)
              /\ SignalsOf(b)[b[i]].raid <=> (b[i] \in NewAccounts /\ Stream[b[i]] \in Raiding(b))
              /\ SignalsOf(b)[b[i]].at = time
<1>1. TypeOK /\ b \in Seq(Messages) /\ \A i, j \in DOMAIN b : b[i] = b[j] => i = j
  BY DEF Asks, Bookkeeping
<1>2. \A i \in DOMAIN b :
        SignalsOf(b)[b[i]] = [duplicate |-> IsDuplicate(b, i),
                              over |-> Speed(b, i) > Limit(b, i),
                              raid |-> b[i] \in NewAccounts /\ Stream[b[i]] \in Raiding(b),
                              at |-> time]
  BY <1>1, SignalsAt
<1>3. ASSUME NEW i \in DOMAIN b
      PROVE  /\ SignalsOf(b)[b[i]].duplicate <=> IsDuplicate(b, i)
             /\ SignalsOf(b)[b[i]].over <=> Speed(b, i) > Limit(b, i)
             /\ SignalsOf(b)[b[i]].raid <=> (b[i] \in NewAccounts /\ Stream[b[i]] \in Raiding(b))
             /\ SignalsOf(b)[b[i]].at = time
  <2>. DEFINE duplicate == IsDuplicate(b, i)
              over == Speed(b, i) > Limit(b, i)
              raid == b[i] \in NewAccounts /\ Stream[b[i]] \in Raiding(b)
              sig == [duplicate |-> duplicate, over |-> over, raid |-> raid, at |-> time]
  <2>1. SignalsOf(b)[b[i]] = sig
    BY <1>2
  <2>. HIDE DEF duplicate, over, raid
  <2>2. sig.duplicate = duplicate /\ sig.over = over /\ sig.raid = raid /\ sig.at = time
    OBVIOUS
  <2>. HIDE DEF sig
  <2>3. /\ SignalsOf(b)[b[i]].duplicate = duplicate /\ SignalsOf(b)[b[i]].over = over
        /\ SignalsOf(b)[b[i]].raid = raid /\ SignalsOf(b)[b[i]].at = time
    BY <2>1, <2>2
  <2>. QED
    BY <2>3 DEF duplicate, over, raid
<1>4. ASSUME NEW m \in Elements(b)
      PROVE  [msg |-> m, reason |-> ReasonOf(SignalsOf(b)[m]), at |-> time] \in Answer
  <2>1. m \in Messages
    BY AskedAbout
  <2>2. ReasonOf(SignalsOf(b)[m]) \in Reasons
    BY DEF ReasonOf, Reasons
  <2>3. time \in 1..MaxTime
    BY <1>1 DEF TypeOK
  <2>. QED
    BY <2>1, <2>2, <2>3 DEF Answer
<1>. QED
  BY <1>3, <1>4 DEF NewAnswers

\* Gather answers what nobody had asked, or not since a crash.
LEMMA AnswersGather ==
  ASSUME Bookkeeping, NEW w \in Workers, NEW b, Asks(w, b)
  PROVE  /\ Answers' = Answers \cup NewAnswers(b)
         /\ \A a \in Answers : a.msg \notin Elements(b)
<1>1. /\ batch'[w] = b /\ signals'[w] = SignalsOf(b)
      /\ \A v \in Workers : v # w => batch'[v] = batch[v] /\ signals'[v] = signals[v]
      /\ decision' = decision
  BY DEF Asks, Bookkeeping, TypeOK
<1>2. Elements(batch[w]) = {}
  BY DEF Asks, Bookkeeping, VerdictsMatch, Matches, Elements
<1>3. \A m \in Elements(b) : SignalsOf(b)[m].at = time
  BY NewAnswerFacts DEF Elements
<1>4. ASSUME NEW a \in Answer
      PROVE  /\ OnRecord(a)' <=> OnRecord(a)
             /\ \A v \in Workers : v # w => (HeldBy(a, v)' <=> HeldBy(a, v))
             /\ ~HeldBy(a, w)
             /\ HeldBy(a, w)' <=> a \in NewAnswers(b)
  <2>1. OnRecord(a)' <=> OnRecord(a)
    BY <1>1 DEF OnRecord
  <2>2. \A v \in Workers : v # w => (HeldBy(a, v)' <=> HeldBy(a, v))
    BY <1>1 DEF HeldBy
  <2>3. ~HeldBy(a, w)
    BY <1>2 DEF HeldBy
  <2>4. HeldBy(a, w)' <=> a \in NewAnswers(b)
    <3>1. HeldBy(a, w)' <=> /\ a.msg \in Elements(b)
                            /\ ReasonOf(SignalsOf(b)[a.msg]) = a.reason
                            /\ SignalsOf(b)[a.msg].at = a.at
      BY <1>1 DEF HeldBy
    <3>2. a \in NewAnswers(b) <=> /\ a.msg \in Elements(b)
                                  /\ ReasonOf(SignalsOf(b)[a.msg]) = a.reason
                                  /\ time = a.at
      BY DEF NewAnswers, Answer
    <3>. QED
      BY <1>3, <3>1, <3>2
  <2>. QED
    BY <2>1, <2>2, <2>3, <2>4
<1>5. Answers' = Answers \cup NewAnswers(b)
  <2>1. Answers' \subseteq Answers \cup NewAnswers(b)
    BY <1>4 DEF Answers
  <2>2. Answers \subseteq Answers'
    BY <1>4 DEF Answers
  <2>3. NewAnswers(b) \subseteq Answers'
    BY <1>4, NewAnswerFacts DEF Answers
  <2>. QED
    BY <2>1, <2>2, <2>3
<1>6. ASSUME NEW a \in Answers, a.msg \in Elements(b) PROVE FALSE
  <2>1. a \in Answer /\ ~Decided(a.msg) /\ \A v \in Workers : a.msg \notin Elements(batch[v])
    BY <1>6, AskedAbout DEF Answers
  <2>. QED
    BY <2>1, OnRecordIsDecided DEF Answers, HeldBy, Bookkeeping
<1>. QED
  BY <1>5, <1>6

\* Saving turns what is held into what is on record.
LEMMA AnswersSave ==
  ASSUME Bookkeeping, NEW w \in Workers, Save(w)
  PROVE  Answers' = Answers
<1>1. /\ DropBatch(w) /\ TypeOK
      /\ Elements(batch'[w]) = {}
      /\ \A v \in Workers : v # w => batch'[v] = batch[v] /\ signals'[v] = signals[v]
  BY DropBatchType DEF Save, Bookkeeping
<1>2. ASSUME NEW a \in Answer
      PROVE  OnRecord(a)' <=> OnRecord(a) \/ HeldBy(a, w)
  <2>1. a.msg \in Messages
    BY DEF Answer
  <2>2. CASE a.msg \in Elements(batch[w])
    <3>1. ~OnRecord(a)
      BY <1>1, <2>2, OnRecordIsDecided, InHand
    <3>2. decision'[a.msg] = verdicts[w][a.msg]
      BY <2>1, <2>2 DEF Save
    <3>3. /\ verdicts[w][a.msg].reason = ReasonOf(signals[w][a.msg])
          /\ verdicts[w][a.msg].at = signals[w][a.msg].at
      BY <2>2 DEF Save, Bookkeeping, VerdictsMatch, Matches
    <3>. QED
      BY <2>2, <3>1, <3>2, <3>3 DEF OnRecord, HeldBy
  <2>3. CASE a.msg \notin Elements(batch[w])
    <3>1. decision'[a.msg] = decision[a.msg]
      BY <2>1, <2>3 DEF Save
    <3>. QED
      BY <2>3, <3>1 DEF OnRecord, HeldBy
  <2>. QED
    BY <2>2, <2>3
<1>3. ASSUME NEW a \in Answer
      PROVE  /\ ~HeldBy(a, w)'
             /\ \A v \in Workers : v # w => (HeldBy(a, v)' <=> HeldBy(a, v))
  BY <1>1 DEF HeldBy
<1>. QED
  BY <1>2, <1>3 DEF Answers

\* A crash takes back what the worker held.
LEMMA AnswersCrash ==
  ASSUME Bookkeeping, NEW w \in Workers, Crash(w)
  PROVE  /\ Answers' \subseteq Answers
         /\ \A a \in Answers' : a.msg \notin Elements(batch[w])
<1>1. /\ DropBatch(w) /\ TypeOK /\ decision' = decision
      /\ Elements(batch'[w]) = {}
      /\ \A v \in Workers : v # w => batch'[v] = batch[v] /\ signals'[v] = signals[v]
  BY DropBatchType DEF Crash, Bookkeeping
<1>2. ASSUME NEW a \in Answer
      PROVE  /\ OnRecord(a)' <=> OnRecord(a)
             /\ ~HeldBy(a, w)'
             /\ \A v \in Workers : v # w => (HeldBy(a, v)' <=> HeldBy(a, v))
  BY <1>1 DEF OnRecord, HeldBy
<1>3. ASSUME NEW a \in Answer, OnRecord(a) \/ \E v \in Workers \ {w} : HeldBy(a, v)
      PROVE  a.msg \notin Elements(batch[w])
  BY <1>1, <1>3, OnRecordIsDecided, InHand DEF HeldBy
<1>4. Answers' \subseteq Answers
  BY <1>2 DEF Answers
<1>5. \A a \in Answers' : OnRecord(a) \/ \E v \in Workers \ {w} : HeldBy(a, v)
  BY <1>2 DEF Answers
<1>. QED
  BY <1>3, <1>4, <1>5 DEF Answers

\* A step that is no gather adds nothing, and leaves keys, stamps and sightings alone.
LEMMA AnswersStep ==
  ASSUME Bookkeeping, [Next]_vars, ~\E w \in Workers : \E b : Asks(w, b)
  PROVE  /\ Answers' \subseteq Answers
         /\ crashes' = 0 => Answers' = Answers /\ crashes = 0
         /\ UNCHANGED <<dedupUntil, stamps, sightings>>
         /\ time \in Nat /\ time' \in Nat /\ time <= time'
<1>1. TypeOK /\ TypeOK' /\ crashes \in Nat
  <2>1. TypeOK /\ TypeOK'
    BY BookkeepingStep DEF Bookkeeping
  <2>. QED
    BY <2>1, ConstantsAssumption DEF TypeOK
<1>2. CASE Tick \/ (\E s \in Streams : Send(s)) \/ UNCHANGED vars
  <2>1. /\ UNCHANGED <<dedupUntil, stamps, sightings, batch, signals, decision, crashes>>
        /\ time <= time'
    BY <1>1, <1>2, TypeTickSend DEF TypeOK
  <2>2. Answers' = Answers
    BY <2>1 DEF Answers, OnRecord, HeldBy
  <2>. QED
    BY <1>1, <2>1, <2>2 DEF TypeOK
<1>3. ASSUME NEW w \in Workers, Finish(w)
      PROVE  Answers' = Answers /\ UNCHANGED <<time, dedupUntil, stamps, sightings, crashes>>
  <2>1. UNCHANGED <<time, dedupUntil, stamps, sightings, crashes, batch, signals, decision>>
    BY <1>3 DEF Finish
  <2>. QED
    BY <2>1 DEF Answers, OnRecord, HeldBy
<1>4. ASSUME NEW w \in Workers, Save(w)
      PROVE  Answers' = Answers /\ UNCHANGED <<time, dedupUntil, stamps, sightings, crashes>>
  BY <1>4, AnswersSave DEF Save
<1>5. ASSUME NEW w \in Workers, Crash(w)
      PROVE  /\ Answers' \subseteq Answers /\ UNCHANGED <<time, dedupUntil, stamps, sightings>>
             /\ crashes' # 0
  BY <1>1, <1>5, AnswersCrash DEF Crash
<1>6. ASSUME NEW w \in Workers, Gather(w) PROVE FALSE
  BY <1>6, GatherAsks
<1>7. time \in Nat /\ time' \in Nat /\ time <= time
  BY <1>1 DEF TypeOK
<1>8. CASE Next /\ ~Tick /\ ~(\E s \in Streams : Send(s))
  <2>1. PICK w \in Workers : Finish(w) \/ Save(w) \/ Crash(w)
    BY <1>6, <1>8 DEF Next
  <2>2. CASE Finish(w) \/ Save(w)
    BY <1>3, <1>4, <1>7, <2>2
  <2>3. CASE Crash(w)
    BY <1>5, <1>7, <2>3
  <2>. QED
    BY <2>1, <2>2, <2>3
<1>. QED
  BY <1>2, <1>8

-------------------------------------------------------------------------------
(* Duplicates.                                                             *)

\* What was found to be the first of its kind.
Originals == {a \in Answers : a.reason # "duplicate" /\ Text[a.msg] # Unchecked}

AnsweredInTime == \A a \in Answers : a.at <= time

\* Each original set its key, and no later one shortened it.
KeyKept == \A a \in Originals : dedupUntil[Key(a.msg)] >= a.at + DedupTTL

\* Two originals with one key are TTL_SECONDS apart.
FarApart ==
  \A a, b \in Originals :
    Key(a.msg) = Key(b.msg) /\ a.msg # b.msg /\ a.at <= b.at => a.at + DedupTTL <= b.at

KeysAreOriginal == Bookkeeping /\ AnsweredInTime /\ KeyKept /\ FarApart

LEMMA AnswerType ==
  ASSUME NEW a \in Answers
  PROVE  /\ a.msg \in Messages /\ a.reason \in Reasons /\ a.at \in Nat /\ a.at >= 1
         /\ Text[a.msg] # Unchecked => Key(a.msg) \in Keys
BY ConstantsAssumption DEF Answers, Answer, Key, Keys

LEMMA ReasonMeans ==
  ASSUME NEW sig
  PROVE  /\ ReasonOf(sig) = "duplicate" <=> sig.duplicate
         /\ ReasonOf(sig) \in {"raid_mode", "content"} => ~sig.over
         /\ ReasonOf(sig) = "content" => ~sig.raid
BY DEF ReasonOf

\* An answer of gather, at its place in the batch.
LEMMA PlaceOf ==
  ASSUME Bookkeeping, NEW w \in Workers, NEW b, Asks(w, b), NEW a \in NewAnswers(b)
  PROVE  \E i \in DOMAIN b : /\ a.msg = b[i] /\ b[i] \in Messages /\ a.at = time
                             /\ i \in 1..Len(b) /\ Len(b) \in Nat
                             /\ a.reason = ReasonOf(SignalsOf(b)[b[i]])
                             /\ a.reason = "duplicate" <=> IsDuplicate(b, i)
                             /\ a.reason \in {"raid_mode", "content"} => ~(Speed(b, i) > Limit(b, i))
                             /\ a.reason = "content" =>
                                  ~(b[i] \in NewAccounts /\ Stream[b[i]] \in Raiding(b))
<1>1. PICK m \in Elements(b) : a = [msg |-> m, reason |-> ReasonOf(SignalsOf(b)[m]), at |-> time]
  BY DEF NewAnswers
<1>2. PICK i \in DOMAIN b : m = b[i]
  BY DEF Elements
<1>3. a.msg = b[i] /\ a.at = time /\ a.reason = ReasonOf(SignalsOf(b)[b[i]])
  BY <1>1, <1>2
<1>4. b[i] \in Messages /\ i \in 1..Len(b) /\ Len(b) \in Nat
  BY DEF Asks
<1>5. /\ ReasonOf(SignalsOf(b)[b[i]]) = "duplicate" <=> IsDuplicate(b, i)
      /\ ReasonOf(SignalsOf(b)[b[i]]) \in {"raid_mode", "content"} => ~(Speed(b, i) > Limit(b, i))
      /\ ReasonOf(SignalsOf(b)[b[i]]) = "content" =>
           ~(b[i] \in NewAccounts /\ Stream[b[i]] \in Raiding(b))
  BY NewAnswerFacts, ReasonMeans, Zenon
<1>. QED
  BY <1>3, <1>4, <1>5

LEMMA KeysAreOriginalStep ==
  ASSUME KeysAreOriginal, [Next]_vars
  PROVE  KeysAreOriginal'
<1>. USE DEF KeysAreOriginal
<1>1. Bookkeeping' /\ time \in Nat /\ DedupTTL \in Nat \ {0}
  BY BookkeepingStep, ConstantsAssumption DEF Bookkeeping, TypeOK
<1>2. CASE ~\E w \in Workers : \E b : Asks(w, b)
  <2>1. /\ Answers' \subseteq Answers /\ dedupUntil' = dedupUntil
        /\ time \in Nat /\ time' \in Nat /\ time <= time'
    BY <1>2, AnswersStep
  <2>2. Originals' \subseteq Originals
    BY <2>1 DEF Originals
  <2>3. AnsweredInTime'
    BY <2>1, AnswerType DEF AnsweredInTime
  <2>4. KeyKept' /\ FarApart'
    BY <2>1, <2>2 DEF KeyKept, FarApart
  <2>. QED
    BY <1>1, <2>3, <2>4
<1>3. ASSUME NEW w \in Workers, NEW b, Asks(w, b)
      PROVE  AnsweredInTime' /\ KeyKept' /\ FarApart'
  <2>1. /\ Answers' = Answers \cup NewAnswers(b)
        /\ \A a \in Answers : a.msg \notin Elements(b)
    BY <1>3, AnswersGather
  <2>2. ASSUME NEW a \in Originals', a \notin Originals
        PROVE  \E i \in DOMAIN b : /\ a.msg = b[i] /\ a.at = time /\ i \in Nat
                                   /\ b[i] \in Messages /\ Text[b[i]] # Unchecked
                                   /\ ~IsDuplicate(b, i)
    <3>1. a \in NewAnswers(b) /\ a.reason # "duplicate" /\ Text[a.msg] # Unchecked
      BY <2>1, <2>2 DEF Originals
    <3>. QED
      BY <1>3, <3>1, PlaceOf
  <2>3. /\ \A k \in Keys : dedupUntil'[k] = IF \E i \in DOMAIN b : Key(b[i]) = k /\ ~IsDuplicate(b, i)
                                           THEN time + DedupTTL ELSE dedupUntil[k]
        /\ \A k \in Keys : dedupUntil[k] \in Nat
        /\ time' = time
    BY <1>3 DEF Asks, Bookkeeping, TypeOK
  <2>4. ASSUME NEW a \in Originals
        PROVE  /\ a.at \in Nat /\ a.at <= time /\ Key(a.msg) \in Keys
               /\ a.msg \in Messages /\ Text[a.msg] # Unchecked
               /\ dedupUntil[Key(a.msg)] >= a.at + DedupTTL
    BY AnswerType DEF Originals, AnsweredInTime, KeyKept
  <2>5. AnsweredInTime'
    <3>1. \A a \in NewAnswers(b) : a.at = time
      BY DEF NewAnswers
    <3>. QED
      BY <1>1, <2>1, <2>3, <3>1 DEF AnsweredInTime
  <2>6. KeyKept'
    <3>. SUFFICES ASSUME NEW a \in Originals' PROVE dedupUntil'[Key(a.msg)] >= a.at + DedupTTL
      BY DEF KeyKept, Key
    <3>1. CASE a \in Originals
      BY <1>1, <2>3, <2>4, <3>1
    <3>2. CASE a \notin Originals
      <4>1. PICK i \in DOMAIN b : /\ a.msg = b[i] /\ a.at = time
                                  /\ b[i] \in Messages /\ Text[b[i]] # Unchecked
                                  /\ ~IsDuplicate(b, i)
        BY <2>2, <3>2
      <4>2. Key(b[i]) \in Keys
        BY <4>1, ConstantsAssumption DEF Key, Keys
      <4>. QED
        BY <1>1, <2>3, <4>1, <4>2
    <3>. QED
      BY <3>1, <3>2
  <2>7. FarApart'
    <3>. SUFFICES ASSUME NEW a \in Originals', NEW c \in Originals',
                         Key(a.msg) = Key(c.msg), a.msg # c.msg, a.at <= c.at
                  PROVE  a.at + DedupTTL <= c.at
      BY DEF FarApart, Key
    <3>1. CASE a \in Originals /\ c \in Originals
      BY <3>1 DEF FarApart
    <3>2. CASE a \in Originals /\ c \notin Originals
      <4>1. PICK i \in DOMAIN b : /\ c.msg = b[i] /\ c.at = time /\ Text[b[i]] # Unchecked
                                  /\ ~IsDuplicate(b, i)
        BY <2>2, <3>2
      <4>2. ~(dedupUntil[Key(a.msg)] > time)
        BY <4>1 DEF IsDuplicate
      <4>. QED
        BY <1>1, <2>3, <2>4, <3>2, <4>1, <4>2
    <3>3. CASE a \notin Originals /\ c \in Originals
      <4>1. PICK i \in DOMAIN b : /\ a.msg = b[i] /\ a.at = time /\ Text[b[i]] # Unchecked
                                  /\ ~IsDuplicate(b, i)
        BY <2>2, <3>3
      <4>2. ~(dedupUntil[Key(c.msg)] > time)
        BY <4>1 DEF IsDuplicate
      <4>. QED
        BY <1>1, <2>3, <2>4, <3>3, <4>1, <4>2
    <3>4. CASE a \notin Originals /\ c \notin Originals
      <4>1. PICK i \in DOMAIN b : /\ a.msg = b[i] /\ i \in Nat /\ Text[b[i]] # Unchecked
                                  /\ ~IsDuplicate(b, i)
        BY <2>2, <3>4
      <4>2. PICK j \in DOMAIN b : /\ c.msg = b[j] /\ j \in Nat /\ Text[b[j]] # Unchecked
                                  /\ ~IsDuplicate(b, j)
        BY <2>2, <3>4
      <4>3. DOMAIN b = 1..Len(b) /\ Len(b) \in Nat
        BY <1>3 DEF Asks
      <4>4. CASE i < j
        <5>1. i \in 1..(j - 1)
          BY <4>1, <4>2, <4>3, <4>4
        <5>. QED
          BY <4>1, <4>2, <5>1 DEF IsDuplicate, UpTo
      <4>5. CASE j < i
        <5>1. j \in 1..(i - 1)
          BY <4>1, <4>2, <4>3, <4>5
        <5>. QED
          BY <4>1, <4>2, <5>1 DEF IsDuplicate, UpTo
      <4>6. i # j
        BY <4>1, <4>2
      <4>. QED
        BY <4>1, <4>2, <4>4, <4>5, <4>6
    <3>. QED
      BY <3>1, <3>2, <3>3, <3>4
  <2>. QED
    BY <2>5, <2>6, <2>7
<1>. QED
  BY <1>1, <1>2, <1>3

LEMMA KeysAreOriginalInit ==
  ASSUME Init
  PROVE  KeysAreOriginal /\ Answers = {}
<1>1. Bookkeeping
  BY BookkeepingInit
<1>2. Answers = {}
  BY DEF Answers, Answer, OnRecord, HeldBy, Init, None, Undecided, Reasons, Elements
<1>. QED
  BY <1>1, <1>2 DEF KeysAreOriginal, AnsweredInTime, KeyKept, FarApart, Originals

\* A message that is not judged a duplicate keeps its key in Redis for TTL_SECONDS from
\* then on, so that the next one with that key comes later than that (SET NX EX in dedup).
THEOREM KeysAreOriginalInvariant == Spec => []KeysAreOriginal
<1>. QED
  BY KeysAreOriginalInit, KeysAreOriginalStep, PTL DEF Spec

\* No two copies of a message get through within TTL_SECONDS: in one batch or in two, by
\* one worker or by two, whoever dies.
THEOREM OneCopyGetsThrough == Spec => []OneOriginal
<1>1. ASSUME KeysAreOriginal PROVE OneOriginal
  <2>. SUFFICES ASSUME NEW m \in Messages, NEW n \in Messages,
                       Copies(m, n), Decided(m), Decided(n),
                       decision[m].at <= decision[n].at,
                       decision[n].at < decision[m].at + DedupTTL,
                       "duplicate" \notin {decision[m].reason, decision[n].reason}
                PROVE  FALSE
    BY DEF OneOriginal
  <2>. DEFINE a == [msg |-> m, reason |-> decision[m].reason, at |-> decision[m].at]
              c == [msg |-> n, reason |-> decision[n].reason, at |-> decision[n].at]
  <2>1. a \in Answers /\ c \in Answers /\ a.at \in Nat /\ c.at \in Nat
    BY <1>1, Recorded, AnswerType DEF KeysAreOriginal, Bookkeeping
  <2>2. a \in Originals /\ c \in Originals
    BY <2>1 DEF Originals, Copies
  <2>3. Key(a.msg) = Key(c.msg) /\ a.msg # c.msg
    BY DEF Key, Copies
  <2>4. a.at + DedupTTL <= c.at
    BY <1>1, <2>2, <2>3 DEF KeysAreOriginal, FarApart
  <2>. QED
    BY <2>1, <2>4, ConstantsAssumption
<1>. QED
  BY <1>1, KeysAreOriginalInvariant, PTL

\* As long as nobody was killed, every key was set by an original, and every duplicate
\* came less than TTL_SECONDS after its original.
KeyHasOwner ==
  \A k \in Keys : dedupUntil[k] > 0 =>
    \E a \in Originals : Key(a.msg) = k /\ dedupUntil[k] = a.at + DedupTTL

CopyHasOriginal ==
  \A c \in Answers : c.reason = "duplicate" =>
    \E a \in Originals : Copies(a.msg, c.msg) /\ a.at <= c.at /\ c.at < a.at + DedupTTL

DuplicatesAreCopies ==
  KeysAreOriginal /\ (crashes = 0 => KeyHasOwner /\ CopyHasOriginal)

\* The first message of a batch with a given key.
LEMMA FirstWithKey ==
  ASSUME NEW b \in Seq(Messages), NEW i \in DOMAIN b
  PROVE  \E j \in DOMAIN b : /\ j <= i /\ Key(b[j]) = Key(b[i])
                             /\ \A n \in UpTo(b, j - 1) : Key(n) # Key(b[i])
<1>. DEFINE P(j) == j \in DOMAIN b /\ j <= i /\ Key(b[j]) = Key(b[i])
            T == {j \in DOMAIN b : P(j)}
<1>1. DOMAIN b = 1..Len(b) /\ Len(b) \in Nat /\ i \in Nat
  OBVIOUS
<1>2. T \subseteq Nat /\ i \in T
  BY <1>1
<1>3. PICK j \in T : \A n \in T : j <= n
  BY <1>1, <1>2, FirstPlace
<1>. HIDE DEF T
<1>4. ASSUME NEW n \in UpTo(b, j - 1), Key(n) = Key(b[i]) PROVE FALSE
  <2>1. PICK h \in 1..(j - 1) : n = b[h]
    BY DEF UpTo
  <2>2. h \in T
    BY <1>1, <1>4, <2>1 DEF T
  <2>. QED
    BY <1>1, <1>3, <2>1, <2>2 DEF T
<1>. QED
  BY <1>3, <1>4 DEF T

LEMMA DuplicatesAreCopiesStep ==
  ASSUME DuplicatesAreCopies, [Next]_vars
  PROVE  DuplicatesAreCopies'
<1>. USE DEF DuplicatesAreCopies
<1>1. /\ KeysAreOriginal /\ KeysAreOriginal' /\ Bookkeeping /\ Bookkeeping'
      /\ time \in Nat /\ time >= 1 /\ DedupTTL \in Nat \ {0}
  <2>1. KeysAreOriginal /\ KeysAreOriginal' /\ Bookkeeping /\ Bookkeeping'
    BY KeysAreOriginalStep DEF KeysAreOriginal
  <2>. QED
    BY <2>1, ConstantsAssumption DEF Bookkeeping, TypeOK
<1>2. CASE ~\E w \in Workers : \E b : Asks(w, b)
  <2>. SUFFICES ASSUME crashes' = 0 PROVE KeyHasOwner' /\ CopyHasOriginal'
    BY <1>1
  <2>1. Answers' = Answers /\ crashes = 0 /\ dedupUntil' = dedupUntil
    BY <1>1, <1>2, AnswersStep
  <2>2. Originals' = Originals
    BY <2>1 DEF Originals
  <2>. QED
    BY <2>1, <2>2 DEF KeyHasOwner, CopyHasOriginal
<1>3. ASSUME NEW w \in Workers, NEW b, Asks(w, b), crashes' = 0
      PROVE  KeyHasOwner' /\ CopyHasOriginal'
  <2>1. /\ Answers' = Answers \cup NewAnswers(b)
        /\ \A a \in Answers : a.msg \notin Elements(b)
    BY <1>1, <1>3, AnswersGather
  <2>2. KeyHasOwner /\ CopyHasOriginal
    BY <1>3 DEF Asks
  <2>3. Originals \subseteq Originals'
    BY <2>1 DEF Originals
  <2>4. ASSUME NEW i \in DOMAIN b, Text[b[i]] # Unchecked, ~IsDuplicate(b, i)
        PROVE  \E a \in Originals' : a.msg = b[i] /\ a.at = time
    <3>. DEFINE a == [msg |-> b[i], reason |-> ReasonOf(SignalsOf(b)[b[i]]), at |-> time]
    <3>1. a \in NewAnswers(b)
      BY DEF NewAnswers, Elements
    <3>2. ReasonOf(SignalsOf(b)[b[i]]) # "duplicate"
      BY <1>1, <1>3, <2>4, NewAnswerFacts, ReasonMeans, Zenon
    <3>. QED
      BY <2>1, <2>4, <3>1, <3>2 DEF Originals
  <2>5. KeyHasOwner'
    <3>. SUFFICES ASSUME NEW k \in Keys, dedupUntil'[k] > 0
                  PROVE  \E a \in Originals' : Key(a.msg) = k /\ dedupUntil'[k] = a.at + DedupTTL
      BY DEF KeyHasOwner, Key
    <3>1. dedupUntil'[k] = IF \E i \in DOMAIN b : Key(b[i]) = k /\ ~IsDuplicate(b, i)
                           THEN time + DedupTTL ELSE dedupUntil[k]
      BY <1>3 DEF Asks
    <3>2. ASSUME NEW i \in DOMAIN b, Key(b[i]) = k, ~IsDuplicate(b, i)
          PROVE  \E a \in Originals' : Key(a.msg) = k /\ dedupUntil'[k] = a.at + DedupTTL
      <4>1. Text[b[i]] # Unchecked
        BY <3>2, ConstantsAssumption DEF Key, Keys
      <4>2. PICK a \in Originals' : a.msg = b[i] /\ a.at = time
        BY <2>4, <3>2, <4>1
      <4>. QED
        BY <3>1, <3>2, <4>2
    <3>3. CASE ~\E i \in DOMAIN b : Key(b[i]) = k /\ ~IsDuplicate(b, i)
      BY <2>2, <2>3, <3>1, <3>3 DEF KeyHasOwner
    <3>. QED
      BY <3>2, <3>3
  <2>6. CopyHasOriginal'
    <3>. SUFFICES ASSUME NEW c \in Answers', c.reason = "duplicate"
                  PROVE  \E a \in Originals' : /\ Copies(a.msg, c.msg) /\ a.at <= c.at
                                               /\ c.at < a.at + DedupTTL
      BY DEF CopyHasOriginal, Copies
    <3>1. CASE c \in Answers
      BY <2>2, <2>3, <3>1 DEF CopyHasOriginal
    <3>2. CASE c \in NewAnswers(b)
      <4>1. PICK i \in DOMAIN b : /\ c.msg = b[i] /\ b[i] \in Messages /\ c.at = time
                                  /\ IsDuplicate(b, i)
        BY <1>1, <1>3, <3>2, PlaceOf
      <4>2. Text[b[i]] # Unchecked /\ Key(b[i]) \in Keys
        BY <4>1, ConstantsAssumption DEF IsDuplicate, Key, Keys
      <4>3. \A n \in Messages : Key(n) = Key(b[i]) /\ n # b[i] => Copies(n, b[i])
        BY <4>2 DEF Copies, Key
      <4>4. CASE dedupUntil[Key(b[i])] > time
        <5>1. dedupUntil[Key(b[i])] > 0
          BY <1>1, <4>2, <4>4 DEF Bookkeeping, TypeOK
        <5>2. PICK a \in Originals : /\ Key(a.msg) = Key(b[i])
                                     /\ dedupUntil[Key(b[i])] = a.at + DedupTTL
          BY <2>2, <4>2, <5>1 DEF KeyHasOwner
        <5>3. a \in Answers /\ a.msg \in Messages /\ a.at <= time /\ a.at \in Nat
          BY <1>1, AnswerType DEF Originals, KeysAreOriginal, AnsweredInTime
        <5>4. a.msg # b[i]
          BY <2>1, <5>3 DEF Elements
        <5>5. Copies(a.msg, c.msg)
          BY <4>1, <4>3, <5>2, <5>3, <5>4
        <5>. QED
          BY <2>3, <4>1, <4>4, <5>2, <5>3, <5>5
      <4>5. CASE ~(dedupUntil[Key(b[i])] > time)
        <5>1. PICK j \in DOMAIN b : /\ j <= i /\ Key(b[j]) = Key(b[i])
                                    /\ \A n \in UpTo(b, j - 1) : Key(n) # Key(b[i])
          BY <1>3, FirstWithKey DEF Asks
        <5>2. ~IsDuplicate(b, j)
          BY <4>5, <5>1 DEF IsDuplicate
        <5>3. Text[b[j]] # Unchecked
          BY <4>2, <5>1 DEF Key
        <5>4. PICK a \in Originals' : a.msg = b[j] /\ a.at = time
          BY <2>4, <5>2, <5>3
        <5>5. b[j] # b[i] /\ b[j] \in Messages
          BY <1>3, <4>1, <5>2 DEF Asks
        <5>6. Copies(a.msg, c.msg)
          BY <4>1, <4>3, <5>1, <5>4, <5>5
        <5>. QED
          BY <1>1, <4>1, <5>4, <5>6
      <4>. QED
        BY <4>4, <4>5
    <3>. QED
      BY <2>1, <3>1, <3>2
  <2>. QED
    BY <2>5, <2>6
<1>. QED
  BY <1>1, <1>2, <1>3

\* As long as no worker was killed, every key in Redis was set by a message that is not a
\* duplicate, and every duplicate came within TTL_SECONDS of such a message.
THEOREM DuplicatesAreCopiesInvariant == Spec => []DuplicatesAreCopies
<1>1. ASSUME Init PROVE DuplicatesAreCopies
  <2>1. \A k \in Keys : ~(dedupUntil[k] > 0)
    BY <1>1 DEF Init
  <2>. QED
    BY <1>1, <2>1, KeysAreOriginalInit DEF DuplicatesAreCopies, KeyHasOwner, CopyHasOriginal
<1>. QED
  BY <1>1, DuplicatesAreCopiesStep, PTL DEF Spec

\* While no worker was killed with a batch in hand, the second copy is refused and never
\* the first: a message deleted as a duplicate has its original less than TTL_SECONDS
\* before it.
THEOREM DuplicatesHaveOriginals == Spec => []DuplicateUnlessKilled
<1>1. ASSUME DuplicatesAreCopies PROVE DuplicateUnlessKilled
  <2>. SUFFICES ASSUME crashes = 0, NEW n \in Messages, decision[n].reason = "duplicate"
                PROVE  \E m \in Messages : /\ Copies(m, n)
                                           /\ \E t \in 1..decision[n].at :
                                                decision[n].at < t + DedupTTL /\ OriginalAt(m, t)
    BY DEF DuplicateUnlessKilled, DuplicateHasOriginal
  <2>. DEFINE c == [msg |-> n, reason |-> decision[n].reason, at |-> decision[n].at]
  <2>1. c \in Answers /\ c.at \in Nat
    <3>1. Decided(n)
      BY DEF Decided, Undecided
    <3>. QED
      BY <1>1, <3>1, Recorded, AnswerType DEF DuplicatesAreCopies, KeysAreOriginal, Bookkeeping
  <2>2. PICK a \in Originals : Copies(a.msg, n) /\ a.at <= c.at /\ c.at < a.at + DedupTTL
    BY <1>1, <2>1 DEF DuplicatesAreCopies, CopyHasOriginal
  <2>3. /\ a.msg \in Messages /\ a.at \in Nat /\ a.at >= 1
        /\ a \in Answers /\ a.reason # "duplicate"
    BY AnswerType DEF Originals
  <2>4. OriginalAt(a.msg, a.at)
    BY <2>3 DEF OriginalAt, Answers, OnRecord, HeldBy, ReasonOf
  <2>5. a.at \in 1..decision[n].at
    BY <2>1, <2>2, <2>3
  <2>. QED
    BY <2>2, <2>3, <2>4, <2>5
<1>. QED
  BY <1>1, DuplicatesAreCopiesInvariant, PTL

-------------------------------------------------------------------------------
(* The rate limit.  One limit is looked up for a batch, so it can only be  *)
(* the right one where the streams of a worker share theirs.               *)

SharedLimits == \A s, t \in Streams : Home[s] = Home[t] => RateLimit[s] = RateLimit[t]

\* What a user was told to have got past the limiter in the window that ends at t.
Admitted(u, t) ==
  {m \in Messages : \E a \in Answers : /\ a.msg = m /\ Author[m] = u
                                       /\ a.reason \in {"raid_mode", "content"}
                                       /\ a.at > t - RateWindow /\ a.at <= t}

\* Each answer that is not older than a window still has its stamp.
Stamped ==
  \A a \in Answers : a.at > time - RateWindow =>
    \E e \in stamps[Author[a.msg]] : e.msg = a.msg /\ e.at = a.at

\* Some message of any selection is on a stream that allows that many.
WithinLimit ==
  \A u \in Users, t \in 1..MaxTime : \A S \in SUBSET Admitted(u, t) :
    S # {} => \E m \in S : Cardinality(S) <= RateLimit[Stream[m]]

RateIsKept == KeysAreOriginal /\ Stamped /\ WithinLimit

LEMMA WindowFinite ==
  ASSUME TypeOK, NEW u \in Users
  PROVE  IsFiniteSet(InWindow(u)) /\ Cardinality(InWindow(u)) \in Nat
<1>. DEFINE All == (1..MaxTime) \X (Messages \X (0..MaxCrashes))
            f == [e \in InWindow(u) |-> <<e.at, <<e.msg, e.try>>>>]
<1>1. IsFiniteSet(1..MaxTime) /\ IsFiniteSet(0..MaxCrashes)
  BY FS_Interval, ConstantsAssumption
<1>2. IsFiniteSet(Messages \X (0..MaxCrashes))
  BY <1>1, LogAssumption, FS_Product
<1>3. IsFiniteSet(All)
  BY <1>1, <1>2, FS_Product
<1>4. InWindow(u) \subseteq [at : 1..MaxTime, msg : Messages, try : 0..MaxCrashes]
  BY DEF TypeOK, InWindow
<1>5. ASSUME NEW e \in InWindow(u) PROVE f[e] \in All
  BY <1>4
<1>6. ASSUME NEW e \in InWindow(u), NEW g \in InWindow(u), f[e] = f[g] PROVE e = g
  <2>1. e.at = g.at /\ e.msg = g.msg /\ e.try = g.try
    BY <1>6
  <2>2. /\ e \in [at : 1..MaxTime, msg : Messages, try : 0..MaxCrashes]
        /\ g \in [at : 1..MaxTime, msg : Messages, try : 0..MaxCrashes]
    BY <1>4
  <2>. HIDE DEF f
  <2>. QED
    BY <2>1, <2>2
<1>7. f \in Injection(InWindow(u), All)
  BY <1>5, <1>6 DEF Injection, IsInjective
<1>. HIDE DEF All, f
<1>8. IsFiniteSet(InWindow(u))
  BY <1>3, <1>7, FS_Injection
<1>. QED
  BY <1>8, FS_CardinalityType

\* A limiter that stamps a message before it counts never lets a window get too full.
LEMMA NewestIsWithinLimit ==
  ASSUME SharedLimits, RateIsKept, NEW w \in Workers, NEW b, Asks(w, b),
         NEW u \in Users, NEW t \in 1..MaxTime, NEW S \in SUBSET Admitted(u, t)', S # {}
  PROVE  \E m \in S : Cardinality(S) <= RateLimit[Stream[m]]
<1>1. /\ Bookkeeping /\ TypeOK /\ Stamped /\ WithinLimit /\ AnsweredInTime
      /\ time \in Nat /\ t \in Nat /\ RateWindow \in Nat
  <2>1. Bookkeeping /\ TypeOK /\ Stamped /\ WithinLimit /\ AnsweredInTime
    BY DEF RateIsKept, KeysAreOriginal, Bookkeeping
  <2>. QED
    BY <2>1, ConstantsAssumption DEF TypeOK
<1>2. /\ Answers' = Answers \cup NewAnswers(b)
      /\ \A a \in Answers : a.msg \notin Elements(b)
  BY <1>1, AnswersGather
<1>3. /\ b \in Seq(Messages) /\ DOMAIN b = 1..Len(b) /\ Len(b) \in Nat
      /\ \A i, j \in DOMAIN b : b[i] = b[j] => i = j
  BY DEF Asks
<1>4. ASSUME NEW m \in S
      PROVE  /\ m \in Messages /\ Author[m] = u
             /\ \E a \in Answers' : /\ a.msg = m
                                    /\ a.reason \in {"raid_mode", "content"}
                                    /\ a.at > t - RateWindow /\ a.at <= t
  BY DEF Admitted
<1>5. IsFiniteSet(S)
  <2>1. S \subseteq Messages
    BY <1>4
  <2>. QED
    BY <2>1, LogAssumption, FS_Subset
<1>6. CASE S \cap Elements(b) = {}
  <2>1. ASSUME NEW m \in S PROVE m \in Admitted(u, t)
    <3>1. PICK a \in Answers' : /\ a.msg = m
                                /\ a.reason \in {"raid_mode", "content"}
                                /\ a.at > t - RateWindow /\ a.at <= t
      BY <1>4
    <3>2. a \notin NewAnswers(b)
      BY <1>6, <3>1 DEF NewAnswers
    <3>. QED
      BY <1>2, <1>4, <3>1, <3>2 DEF Admitted
  <2>2. S \in SUBSET Admitted(u, t)
    BY <2>1
  <2>. QED
    BY <1>1, <2>2 DEF WithinLimit
<1>7. CASE S \cap Elements(b) # {}
  <2>. DEFINE T == {i \in DOMAIN b : b[i] \in S}
              Old == S \ Elements(b)
              New == S \cap Elements(b)
  <2>1. T \in SUBSET (1..Len(b)) /\ T # {}
    BY <1>3, <1>7 DEF Elements
  <2>. HIDE DEF T
  <2>2. PICK i \in T : \A j \in T : j <= i
    BY <1>3, <2>1, LastPlace
  <2>. USE DEF T
  <2>. DEFINE Mine == {n \in UpTo(b, i) : Author[n] = u}
  <2>3. i \in DOMAIN b /\ b[i] \in S /\ b[i] \in Elements(b) /\ i \in Nat
    BY <1>3, <2>2 DEF Elements
  <2>4. time <= t /\ ~(Speed(b, i) > Limit(b, i))
    <3>1. PICK a \in Answers' : /\ a.msg = b[i] /\ a.reason \in {"raid_mode", "content"}
                                /\ a.at <= t
      BY <1>4, <2>3
    <3>2. a \in NewAnswers(b)
      BY <1>2, <2>3, <3>1
    <3>3. PICK j \in DOMAIN b : /\ a.msg = b[j] /\ a.at = time
                                /\ a.reason \in {"raid_mode", "content"} => ~(Speed(b, j) > Limit(b, j))
      BY <1>1, <3>2, PlaceOf
    <3>4. j = i
      BY <1>3, <2>3, <3>1, <3>3
    <3>. QED
      BY <3>1, <3>3, <3>4
  <2>5. /\ IsFiniteSet(Old) /\ IsFiniteSet(New) /\ IsFiniteSet(Mine)
        /\ Cardinality(New) <= Cardinality(Mine)
    <3>1. New \subseteq Mine
      <4>1. ASSUME NEW m \in New PROVE m \in Mine
        <5>1. PICK j \in DOMAIN b : m = b[j]
          BY DEF Elements
        <5>2. j \in 1..i
          BY <1>3, <2>2, <2>3, <5>1
        <5>. QED
          BY <1>4, <5>1, <5>2 DEF UpTo
      <4>. QED
        BY <4>1
    <3>2. Mine \subseteq Messages
      BY <1>3, <2>3 DEF UpTo
    <3>3. IsFiniteSet(Mine)
      BY <3>2, LogAssumption, FS_Subset
    <3>4. IsFiniteSet(Old) /\ IsFiniteSet(New)
      BY <1>5, FS_Subset
    <3>. HIDE DEF Mine, New, Old
    <3>. QED
      BY <3>1, <3>3, <3>4, FS_Subset
  <2>6. Cardinality(Old) <= Cardinality(InWindow(u))
    <3>. DEFINE stamp == [m \in Old |-> CHOOSE e \in InWindow(u) : e.msg = m]
    <3>1. ASSUME NEW m \in Old PROVE \E e \in InWindow(u) : e.msg = m
      <4>1. PICK a \in Answers' : a.msg = m /\ a.at > t - RateWindow
        BY <1>4
      <4>2. a \in Answers
        BY <1>2, <4>1 DEF NewAnswers
      <4>3. a.at \in Nat
        BY <4>2, AnswerType
      <4>4. a.at > time - RateWindow
        BY <1>1, <2>4, <4>1, <4>3
      <4>5. PICK e \in stamps[u] : e.msg = m /\ e.at = a.at
        BY <1>1, <1>4, <4>1, <4>2, <4>4 DEF Stamped
      <4>. QED
        BY <4>4, <4>5 DEF InWindow
    <3>2. \A m \in Old : stamp[m] \in InWindow(u) /\ stamp[m].msg = m
      BY <3>1
    <3>3. stamp \in Injection(Old, InWindow(u))
      BY <3>2 DEF Injection, IsInjective
    <3>. HIDE DEF stamp, Old
    <3>. QED
      BY <1>1, <3>3, WindowFinite, FS_Injection
  <2>7. Cardinality(S) <= Cardinality(Old) + Cardinality(New)
    <3>1. S = Old \cup New /\ Old \cap New = {}
      OBVIOUS
    <3>. HIDE DEF Old, New
    <3>2. Cardinality(S) = Cardinality(Old) + Cardinality(New) - Cardinality({})
      BY <2>5, <3>1, FS_Union
    <3>3. Cardinality({}) = 0 /\ Cardinality(Old) \in Nat /\ Cardinality(New) \in Nat
      BY <2>5, FS_EmptySet, FS_CardinalityType
    <3>. QED
      BY <3>2, <3>3
  <2>8. Speed(b, i) = Cardinality(InWindow(u)) + Cardinality(Mine)
    BY <1>4, <2>3 DEF Speed
  <2>9. Limit(b, i) = RateLimit[Stream[b[i]]] /\ RateLimit[Stream[b[i]]] \in Nat
    <3>1. 1 \in DOMAIN b /\ b[1] \in Elements(b)
      BY <1>3, <2>3 DEF Elements
    <3>2. Home[Stream[b[1]]] = w /\ Home[Stream[b[i]]] = w
      BY <1>1, <2>3, <3>1, AskedAbout
    <3>3. Stream[b[1]] \in Streams /\ Stream[b[i]] \in Streams
      BY <1>3, <2>3, <3>1, StreamFacts
    <3>. QED
      BY <3>2, <3>3, ConstantsAssumption DEF Limit, SharedLimits
  <2>10. /\ Cardinality(S) \in Nat /\ Cardinality(Old) \in Nat /\ Cardinality(New) \in Nat
         /\ Cardinality(Mine) \in Nat /\ Cardinality(InWindow(u)) \in Nat
    <3>. HIDE DEF Old, New, Mine
    <3>. QED
      BY <1>1, <1>5, <2>5, WindowFinite, FS_CardinalityType
  <2>. HIDE DEF T, Old, New, Mine
  <2>11. Cardinality(S) <= RateLimit[Stream[b[i]]]
    BY <2>4, <2>5, <2>6, <2>7, <2>8, <2>9, <2>10
  <2>. QED
    BY <2>3, <2>11
<1>. QED
  BY <1>6, <1>7

LEMMA RateIsKeptStep ==
  ASSUME SharedLimits, RateIsKept, [Next]_vars
  PROVE  RateIsKept'
<1>1. KeysAreOriginal /\ KeysAreOriginal' /\ Bookkeeping /\ RateWindow \in Nat
  BY KeysAreOriginalStep, ConstantsAssumption DEF RateIsKept, KeysAreOriginal
<1>2. CASE ~\E w \in Workers : \E b : Asks(w, b)
  <2>1. /\ Answers' \subseteq Answers /\ stamps' = stamps
        /\ time \in Nat /\ time' \in Nat /\ time <= time'
    BY <1>1, <1>2, AnswersStep
  <2>2. Stamped'
    <3>. SUFFICES ASSUME NEW a \in Answers', a.at > time' - RateWindow
                  PROVE  \E e \in stamps'[Author[a.msg]] : e.msg = a.msg /\ e.at = a.at
      BY DEF Stamped
    <3>1. a \in Answers /\ a.at \in Nat
      BY <2>1, AnswerType
    <3>2. a.at > time - RateWindow
      BY <1>1, <2>1, <3>1
    <3>. QED
      BY <2>1, <3>1, <3>2 DEF RateIsKept, Stamped
  <2>3. WithinLimit'
    <3>1. \A u \in Users, t \in 1..MaxTime : Admitted(u, t)' \subseteq Admitted(u, t)
      BY <2>1 DEF Admitted
    <3>. QED
      BY <3>1 DEF RateIsKept, WithinLimit
  <2>. QED
    BY <1>1, <2>2, <2>3 DEF RateIsKept
<1>3. ASSUME NEW w \in Workers, NEW b, Asks(w, b)
      PROVE  Stamped' /\ WithinLimit'
  <2>1. /\ Answers' = Answers \cup NewAnswers(b) /\ time' = time
        /\ \A u \in Users : stamps'[u] =
             IF \E m \in Elements(b) : Author[m] = u
             THEN InWindow(u) \cup {[at |-> time, msg |-> m, try |-> crashes] :
                                      m \in {m \in Elements(b) : Author[m] = u}}
             ELSE stamps[u]
    BY <1>1, <1>3, AnswersGather DEF Asks
  <2>2. WithinLimit'
    BY <1>3, NewestIsWithinLimit DEF WithinLimit
  <2>3. Stamped'
    <3>. SUFFICES ASSUME NEW a \in Answers', a.at > time - RateWindow
                  PROVE  \E e \in stamps'[Author[a.msg]] : e.msg = a.msg /\ e.at = a.at
      BY <2>1 DEF Stamped
    <3>1. CASE a \in Answers
      <4>1. Author[a.msg] \in Users
        BY <3>1, AnswerType, ConstantsAssumption
      <4>2. PICK e \in stamps[Author[a.msg]] : e.msg = a.msg /\ e.at = a.at
        BY <3>1 DEF RateIsKept, Stamped
      <4>3. e \in InWindow(Author[a.msg])
        BY <4>2 DEF InWindow
      <4>. QED
        BY <2>1, <4>1, <4>2, <4>3
    <3>2. CASE a \in NewAnswers(b)
      <4>1. a.msg \in Elements(b) /\ a.at = time
        BY <3>2 DEF NewAnswers
      <4>2. a.msg \in Messages
        BY <1>1, <1>3, <4>1, AskedAbout
      <4>3. Author[a.msg] \in Users
        BY <4>2, ConstantsAssumption
      <4>4. [at |-> time, msg |-> a.msg, try |-> crashes] \in stamps'[Author[a.msg]]
        <5>. DEFINE mine == {m \in Elements(b) : Author[m] = Author[a.msg]}
                    stamp == {[at |-> time, msg |-> m, try |-> crashes] : m \in mine}
        <5>1. a.msg \in mine
          BY <4>1
        <5>2. [at |-> time, msg |-> a.msg, try |-> crashes] \in stamp
          BY <5>1
        <5>3. stamps'[Author[a.msg]] = InWindow(Author[a.msg]) \cup stamp
          BY <2>1, <4>1, <4>3
        <5>. HIDE DEF stamp
        <5>. QED
          BY <5>2, <5>3
      <4>. QED
        BY <4>1, <4>4
    <3>. QED
      BY <2>1, <3>1, <3>2
  <2>. QED
    BY <2>2, <2>3
<1>. QED
  BY <1>1, <1>2, <1>3 DEF RateIsKept

\* Every answer of the last window has its stamp in the author's sorted set, and of the
\* messages let through in one window some message's limit covers any selection.
THEOREM RateIsKeptInvariant ==
  ASSUME SharedLimits
  PROVE  Spec => []RateIsKept
<1>1. ASSUME Init PROVE RateIsKept
  <2>1. KeysAreOriginal /\ Answers = {}
    BY <1>1, KeysAreOriginalInit
  <2>2. Stamped /\ \A u \in Users, t \in 1..MaxTime : Admitted(u, t) = {}
    BY <2>1 DEF Stamped, Admitted
  <2>. QED
    BY <2>1, <2>2 DEF RateIsKept, WithinLimit
<1>. QED
  BY <1>1, RateIsKeptStep, PTL DEF Spec

\* The limit is exactly what gets enforced, with no bursts on a window's edge, from
\* however many workers and batches: where the streams of a worker share one limit.
THEOREM NobodyIsTooFast ==
  ASSUME SharedLimits
  PROVE  Spec => []RateIsExact
<1>1. ASSUME RateIsKept PROVE RateIsExact
  <2>. SUFFICES ASSUME NEW u \in Users, NEW t \in 1..MaxTime
                PROVE  /\ Passed(u, t) # {} =>
                            \E m \in Passed(u, t) : Cardinality(Passed(u, t)) <= RateLimit[Stream[m]]
                       /\ \A s \in Streams :
                            Cardinality({m \in Passed(u, t) : Stream[m] = s}) <= RateLimit[s]
    BY DEF RateIsExact
  <2>1. Passed(u, t) \subseteq Admitted(u, t)
    <3>1. ASSUME NEW m \in Passed(u, t) PROVE m \in Admitted(u, t)
      <4>1. m \in Messages /\ Decided(m)
        BY DEF Passed, Decided, Undecided
      <4>. DEFINE a == [msg |-> m, reason |-> decision[m].reason, at |-> decision[m].at]
      <4>2. a \in Answers
        BY <1>1, <4>1, Recorded DEF RateIsKept, KeysAreOriginal, Bookkeeping
      <4>3. /\ a.msg = m /\ Author[m] = u /\ a.reason \in {"raid_mode", "content"}
            /\ a.at > t - RateWindow /\ a.at <= t
        BY DEF Passed
      <4>. HIDE DEF a
      <4>. QED
        BY <4>1, <4>2, <4>3 DEF Admitted
    <3>. QED
      BY <3>1
  <2>2. \A S \in SUBSET Passed(u, t) : S # {} => \E m \in S : Cardinality(S) <= RateLimit[Stream[m]]
    BY <1>1, <2>1 DEF RateIsKept, WithinLimit
  <2>3. ASSUME NEW s \in Streams
        PROVE  Cardinality({m \in Passed(u, t) : Stream[m] = s}) <= RateLimit[s]
    <3>. DEFINE S == {m \in Passed(u, t) : Stream[m] = s}
    <3>1. CASE S = {}
      <4>1. Cardinality(S) = 0
        BY <3>1, FS_EmptySet
      <4>. QED
        BY <4>1, ConstantsAssumption
    <3>2. CASE S # {}
      BY <2>2, <3>2
    <3>. QED
      BY <3>1, <3>2
  <2>. QED
    BY <2>2, <2>3
<1>. QED
  BY <1>1, RateIsKeptInvariant, PTL

-------------------------------------------------------------------------------
(* Raids.                                                                  *)

Authors == {Author[m] : m \in Messages}

\* The new accounts that were answered before a message of their stream, in its bucket.
CrowdAt(a) ==
  {u \in Authors : \E c \in Answers : /\ c.msg \in NewAccounts /\ Author[c.msg] = u
                                      /\ Stream[c.msg] = Stream[a.msg]
                                      /\ Rank[c.msg] <= Rank[a.msg]
                                      /\ Bucket(c.at) = Bucket(a.at)}

Crowded(a) == a.msg \in NewAccounts /\ Cardinality(CrowdAt(a)) >= RaidThreshold

\* Redis has seen every new account that was answered, and nobody else.
Seen ==
  \A a \in Answers :
    a.msg \in NewAccounts => <<Bucket(a.at), Author[a.msg]>> \in sightings[Stream[a.msg]]

SightedAuthors == \A s \in Streams : sightings[s] \subseteq (0..MaxTime) \X Authors

\* No raid mode lasts for longer than one that starts now.
ModesInTime == \A s \in Streams : raidUntil[s] <= time + RaidMode

\* A raid that was discovered is in Redis, or on its way in the hands of the worker that
\* has the stream.
RaidKnown ==
  \A a \in Answers : Crowded(a) =>
    \/ raidUntil[Stream[a.msg]] >= a.at + RaidMode
    \/ \E w \in Workers : /\ stage[w] = "judging" /\ a.msg \in Elements(batch[w])
                          /\ Stream[a.msg] \in newRaids[w]

\* From the message that tips its stream over on, no new account is let through.
HeldBack ==
  \A a, c \in Answers :
    /\ Crowded(a) /\ c.msg \in NewAccounts
    /\ Stream[c.msg] = Stream[a.msg] /\ Rank[a.msg] <= Rank[c.msg]
    /\ c.at < a.at + RaidMode
    => c.reason # "content"

RaidsAreKnown ==
  KeysAreOriginal /\ Seen /\ SightedAuthors /\ ModesInTime /\ RaidKnown /\ HeldBack

LEMMA AuthorsFinite ==
  \A S \in SUBSET Authors : IsFiniteSet(S) /\ Cardinality(S) \in Nat
<1>. DEFINE f == [m \in Messages |-> Author[m]]
<1>1. f \in Surjection(Messages, Authors)
  BY DEF Surjection, Authors
<1>. HIDE DEF f
<1>2. IsFiniteSet(Authors)
  BY <1>1, LogAssumption, FS_Surjection
<1>3. \A S \in SUBSET Authors : IsFiniteSet(S)
  BY <1>2, FS_Subset
<1>. QED
  BY <1>3, FS_CardinalityType

LEMMA FewerAuthors ==
  ASSUME NEW S \in SUBSET Authors, NEW T \in SUBSET S,
         NEW n \in Nat, Cardinality(T) >= n
  PROVE  Cardinality(S) >= n
<1>1. IsFiniteSet(S) /\ Cardinality(S) \in Nat /\ Cardinality(T) \in Nat
  BY AuthorsFinite
<1>2. Cardinality(T) <= Cardinality(S)
  BY <1>1, FS_Subset
<1>. QED
  BY <1>1, <1>2

\* Fewer answers are less of a crowd.
LEMMA CrowdShrinks ==
  ASSUME Answers' \subseteq Answers, NEW a, Crowded(a)'
  PROVE  Crowded(a)
<1>1. CrowdAt(a)' \subseteq CrowdAt(a) /\ CrowdAt(a) \subseteq Authors
  BY DEF CrowdAt
<1>2. a.msg \in NewAccounts /\ Cardinality(CrowdAt(a)') >= RaidThreshold
  BY DEF Crowded
<1>3. CrowdAt(a)' \in SUBSET CrowdAt(a) /\ CrowdAt(a) \in SUBSET Authors /\ RaidThreshold \in Nat
  BY <1>1, ConstantsAssumption
<1>4. Cardinality(CrowdAt(a)) >= RaidThreshold
  BY <1>2, <1>3, FewerAuthors
<1>. QED
  BY <1>2, <1>4 DEF Crowded

\* What is answered later is later in its stream.
LEMMA LaterIsLater ==
  ASSUME Bookkeeping, NEW w \in Workers, NEW b, Asks(w, b),
         NEW a \in Answers, NEW c \in NewAnswers(b), Stream[c.msg] = Stream[a.msg]
  PROVE  ~(Rank[c.msg] <= Rank[a.msg])
<1>1. c.msg \in Elements(b) /\ c.msg \in Messages
  BY AskedAbout DEF NewAnswers
<1>2. \A d \in Answers : d.msg # c.msg
  BY <1>1, AnswersGather
<1>. QED
  BY <1>1, <1>2, InOrder

LEMMA OldCrowd ==
  ASSUME Bookkeeping, NEW w \in Workers, NEW b, Asks(w, b), NEW a \in Answers, Crowded(a)'
  PROVE  Crowded(a)
<1>1. Answers' = Answers \cup NewAnswers(b)
  BY AnswersGather
<1>2. CrowdAt(a)' = CrowdAt(a)
  <2>1. \A c \in NewAnswers(b) : Stream[c.msg] = Stream[a.msg] => ~(Rank[c.msg] <= Rank[a.msg])
    BY LaterIsLater
  <2>. QED
    BY <1>1, <2>1 DEF CrowdAt
<1>. QED
  BY <1>2 DEF Crowded

\* A message that tips its stream over is found to do so.
LEMMA NewCrowd ==
  ASSUME RaidsAreKnown, NEW w \in Workers, NEW b, Asks(w, b),
         NEW a \in NewAnswers(b), Crowded(a)'
  PROVE  Stream[a.msg] \in RaidsIn(b)
<1>1. Bookkeeping /\ Seen /\ SightedAuthors /\ TypeOK
  BY DEF RaidsAreKnown, KeysAreOriginal, Bookkeeping
<1>2. Answers' = Answers \cup NewAnswers(b)
  BY <1>1, AnswersGather
<1>3. PICK i \in DOMAIN b : a.msg = b[i] /\ a.at = time /\ b[i] \in Messages
  BY <1>1, PlaceOf
<1>4. /\ DOMAIN b = 1..Len(b) /\ Len(b) \in Nat /\ b \in Seq(Messages)
      /\ \A j, k \in DOMAIN b : Stream[b[j]] = Stream[b[k]] /\ j < k => Rank[b[j]] < Rank[b[k]]
  <2>1. \A j, k \in DOMAIN b : Stream[b[j]] = Stream[b[k]] /\ j < k => Rank[b[j]] < Rank[b[k]]
    BY Zenon DEF Asks
  <2>. QED
    BY <2>1 DEF Asks
<1>. DEFINE s == Stream[b[i]]
            f == [u \in CrowdAt(a)' |-> <<Bucket(time), u>>]
<1>5. s \in Streams
  BY <1>3, StreamFacts
<1>6. ASSUME NEW u \in CrowdAt(a)' PROVE <<Bucket(time), u>> \in Crowd(b, i)
  <2>1. PICK c \in Answers' : /\ c.msg \in NewAccounts /\ Author[c.msg] = u
                              /\ Stream[c.msg] = s /\ Rank[c.msg] <= Rank[b[i]]
                              /\ Bucket(c.at) = Bucket(time)
    BY <1>3, <1>6 DEF CrowdAt, Bucket
  <2>2. CASE c \in Answers
    <3>1. <<Bucket(c.at), u>> \in sightings[s]
      BY <1>1, <2>1, <2>2 DEF Seen
    <3>. QED
      BY <2>1, <3>1 DEF Crowd, Sightings
  <2>3. CASE c \in NewAnswers(b)
    <3>1. PICK j \in DOMAIN b : c.msg = b[j] /\ b[j] \in Messages
      BY <1>1, <2>3, PlaceOf
    <3>2. Rank[b[i]] \in Nat /\ Rank[b[j]] \in Nat /\ i \in Nat /\ j \in Nat
      BY <1>3, <1>4, <3>1, StreamFacts
    <3>3. ~(i < j)
      BY <1>4, <2>1, <3>1, <3>2
    <3>4. j \in 1..i
      BY <1>4, <3>2, <3>3
    <3>5. b[j] \in {n \in UpTo(b, i) \cap NewAccounts : Stream[n] = s}
      BY <2>1, <3>1, <3>4 DEF UpTo
    <3>6. <<Bucket(time), Author[b[j]]>> \in Sightings(s, UpTo(b, i))
      BY <3>5 DEF Sightings
    <3>. QED
      BY <2>1, <3>1, <3>6 DEF Crowd
  <2>. QED
    BY <1>2, <2>1, <2>2, <2>3
<1>7. f \in Injection(CrowdAt(a)', Crowd(b, i))
  BY <1>6 DEF Injection, IsInjective
<1>8. IsFiniteSet(Crowd(b, i)) /\ Cardinality(Crowd(b, i)) \in Nat
  <2>1. IsFiniteSet(0..MaxTime) /\ IsFiniteSet(Authors)
    BY ConstantsAssumption, FS_Interval, AuthorsFinite
  <2>2. IsFiniteSet((0..MaxTime) \X Authors)
    BY <2>1, FS_Product
  <2>3. Bucket(time) \in 0..MaxTime
    BY <1>1, BucketType, ConstantsAssumption DEF TypeOK
  <2>4. UpTo(b, i) \subseteq Messages
    BY <1>4 DEF UpTo
  <2>5. \A n \in UpTo(b, i) : <<Bucket(time), Author[n]>> \in (0..MaxTime) \X Authors
    BY <2>3, <2>4 DEF Authors
  <2>6. Crowd(b, i) \in SUBSET ((0..MaxTime) \X Authors)
    BY <1>1, <1>5, <2>5 DEF Crowd, Sightings, SightedAuthors
  <2>7. IsFiniteSet(Crowd(b, i))
    BY <2>2, <2>6, FS_Subset
  <2>. QED
    BY <2>7, FS_CardinalityType
<1>9. Cardinality(CrowdAt(a)') <= Cardinality(Crowd(b, i))
  <2>. HIDE DEF f
  <2>. QED
    BY <1>7, <1>8, FS_Injection
<1>10. /\ b[i] \in NewAccounts /\ Cardinality(CrowdAt(a)') >= RaidThreshold
       /\ Cardinality(CrowdAt(a)') \in Nat /\ RaidThreshold \in Nat
  <2>1. b[i] \in NewAccounts /\ Cardinality(CrowdAt(a)') >= RaidThreshold
    BY <1>3 DEF Crowded
  <2>2. CrowdAt(a)' \in SUBSET Authors
    BY DEF CrowdAt
  <2>. QED
    BY <2>1, <2>2, AuthorsFinite, ConstantsAssumption
<1>11. Cardinality(Crowd(b, i)) >= RaidThreshold
  BY <1>8, <1>9, <1>10
<1>. QED
  BY <1>3, <1>5, <1>10, <1>11 DEF RaidsIn

\* What a step that is no gather does about raids: Finish raises the modes its batch
\* discovered, and a worker lays down its batch after that or with it.
LEMMA RaidKnownStep ==
  ASSUME RaidsAreKnown, [Next]_vars, ~\E w \in Workers : \E b : Asks(w, b)
  PROVE  ModesInTime' /\ RaidKnown'
<1>1. Bookkeeping /\ TypeOK /\ ModesInTime /\ RaidKnown /\ AnsweredInTime
  BY DEF RaidsAreKnown, KeysAreOriginal, Bookkeeping
<1>2. /\ Answers' \subseteq Answers
      /\ time \in Nat /\ time' \in Nat /\ time <= time' /\ RaidMode \in Nat
  BY <1>1, AnswersStep, ConstantsAssumption
<1>3. \A s \in Streams : raidUntil[s] \in Nat /\ raidUntil[s] <= time + RaidMode
  BY <1>1 DEF TypeOK, ModesInTime
<1>4. ASSUME NEW a \in Answers', Crowded(a)'
      PROVE  /\ a \in Answers /\ a.at \in Nat /\ a.at <= time /\ Stream[a.msg] \in Streams
             /\ \/ raidUntil[Stream[a.msg]] >= a.at + RaidMode
                \/ \E w \in Workers : /\ stage[w] = "judging" /\ a.msg \in Elements(batch[w])
                                      /\ Stream[a.msg] \in newRaids[w]
  <2>1. a \in Answers /\ Crowded(a)
    BY <1>2, <1>4, CrowdShrinks
  <2>2. a.at \in Nat /\ a.at <= time /\ Stream[a.msg] \in Streams
    BY <1>1, <2>1, AnswerType, StreamFacts DEF AnsweredInTime
  <2>. QED
    BY <1>1, <2>1, <2>2 DEF RaidKnown
<1>5. ASSUME raidUntil' = raidUntil PROVE ModesInTime'
  BY <1>2, <1>3, <1>5 DEF ModesInTime
<1>6. CASE Tick \/ (\E s \in Streams : Send(s)) \/ UNCHANGED vars
  <2>1. UNCHANGED <<raidUntil, stage, batch, newRaids>>
    BY <1>1, <1>6, TypeTickSend
  <2>. QED
    BY <1>4, <1>5, <2>1 DEF RaidKnown
<1>7. ASSUME NEW w \in Workers, Finish(w) PROVE ModesInTime' /\ RaidKnown'
  <2>1. /\ \A s \in Streams : raidUntil'[s] = IF s \in newRaids[w] THEN time + RaidMode
                                                                  ELSE raidUntil[s]
        /\ UNCHANGED <<time, batch, newRaids>>
        /\ \A v \in Workers : v # w => stage'[v] = stage[v]
    BY <1>1, <1>7 DEF Finish, TypeOK
  <2>2. ModesInTime'
    BY <1>2, <1>3, <2>1 DEF ModesInTime
  <2>3. ASSUME NEW a \in Answers', Crowded(a)'
        PROVE  \/ raidUntil'[Stream[a.msg]] >= a.at + RaidMode
               \/ \E v \in Workers : /\ stage'[v] = "judging" /\ a.msg \in Elements(batch'[v])
                                     /\ Stream[a.msg] \in newRaids'[v]
    <3>1. /\ a.at \in Nat /\ a.at <= time /\ Stream[a.msg] \in Streams
          /\ raidUntil[Stream[a.msg]] \in Nat
      BY <1>3, <1>4, <2>3
    <3>2. CASE raidUntil[Stream[a.msg]] >= a.at + RaidMode
      BY <1>2, <2>1, <3>1, <3>2
    <3>3. CASE Stream[a.msg] \in newRaids[w]
      BY <1>2, <2>1, <3>1, <3>3
    <3>4. ASSUME NEW v \in Workers, v # w,
                 stage[v] = "judging", a.msg \in Elements(batch[v]), Stream[a.msg] \in newRaids[v]
          PROVE  \E u \in Workers : /\ stage'[u] = "judging" /\ a.msg \in Elements(batch'[u])
                                    /\ Stream[a.msg] \in newRaids'[u]
      BY <2>1, <3>4
    <3>. QED
      BY <1>4, <2>3, <3>2, <3>3, <3>4
  <2>. QED
    BY <2>2, <2>3 DEF RaidKnown
<1>8. ASSUME NEW w \in Workers, Save(w) \/ Crash(w) PROVE ModesInTime' /\ RaidKnown'
  <2>1. /\ raidUntil' = raidUntil
        /\ \A v \in Workers : v # w => /\ batch'[v] = batch[v] /\ stage'[v] = stage[v]
                                       /\ newRaids'[v] = newRaids[v]
    <3>1. DropBatch(w) /\ raidUntil' = raidUntil
      BY <1>8 DEF Save, Crash
    <3>. QED
      BY <1>1, <3>1, DropBatchType
  <2>2. ASSUME NEW a \in Answers', stage[w] = "judging", a.msg \in Elements(batch[w])
        PROVE  FALSE
    <3>1. CASE Save(w)
      BY <2>2, <3>1 DEF Save
    <3>2. CASE Crash(w)
      BY <1>1, <2>2, <3>2, AnswersCrash
    <3>. QED
      BY <1>8, <3>1, <3>2
  <2>3. ASSUME NEW a \in Answers', Crowded(a)'
        PROVE  \/ raidUntil'[Stream[a.msg]] >= a.at + RaidMode
               \/ \E v \in Workers : /\ stage'[v] = "judging" /\ a.msg \in Elements(batch'[v])
                                     /\ Stream[a.msg] \in newRaids'[v]
    BY <1>4, <2>1, <2>2, <2>3
  <2>. QED
    BY <1>5, <2>1, <2>3 DEF RaidKnown
<1>9. ASSUME NEW w \in Workers, Gather(w) PROVE FALSE
  BY <1>1, <1>9, GatherAsks
<1>. QED
  BY <1>6, <1>7, <1>8, <1>9 DEF Next

LEMMA RaidsAreKnownStep ==
  ASSUME RaidsAreKnown, [Next]_vars
  PROVE  RaidsAreKnown'
<1>1. /\ KeysAreOriginal /\ KeysAreOriginal' /\ Bookkeeping /\ TypeOK
      /\ Seen /\ SightedAuthors /\ ModesInTime /\ RaidKnown /\ HeldBack
  <2>1. KeysAreOriginal
    BY DEF RaidsAreKnown
  <2>. QED
    BY <2>1, KeysAreOriginalStep DEF RaidsAreKnown, KeysAreOriginal, Bookkeeping
<1>2. CASE ~\E w \in Workers : \E b : Asks(w, b)
  <2>1. Answers' \subseteq Answers /\ sightings' = sightings
    BY <1>1, <1>2, AnswersStep
  <2>2. Seen' /\ SightedAuthors'
    BY <1>1, <2>1 DEF Seen, SightedAuthors, Bucket
  <2>3. HeldBack'
    BY <1>1, <2>1, CrowdShrinks DEF HeldBack
  <2>. QED
    BY <1>1, <1>2, <2>2, <2>3, RaidKnownStep DEF RaidsAreKnown
<1>3. ASSUME NEW w \in Workers, NEW b, Asks(w, b)
      PROVE  Seen' /\ SightedAuthors' /\ ModesInTime' /\ RaidKnown' /\ HeldBack'
  <2>1. /\ Answers' = Answers \cup NewAnswers(b)
        /\ \A a \in Answers : a.msg \notin Elements(b)
    BY <1>1, <1>3, AnswersGather
  <2>2. /\ UNCHANGED <<time, raidUntil>>
        /\ batch'[w] = b /\ stage'[w] = "judging" /\ newRaids'[w] = RaidsIn(b)
        /\ stage[w] = "idle"
        /\ \A v \in Workers : v # w => /\ batch'[v] = batch[v] /\ stage'[v] = stage[v]
                                       /\ newRaids'[v] = newRaids[v]
        /\ \A s \in Streams : sightings'[s] = Sightings(s, Elements(b))
    BY <1>1, <1>3 DEF Asks, TypeOK
  <2>3. ASSUME NEW m \in Elements(b)
        PROVE  m \in Messages /\ Stream[m] \in Streams /\ Home[Stream[m]] = w
    BY <1>1, <1>3, AskedAbout, StreamFacts
  <2>4. ASSUME NEW a \in Answers
        PROVE  /\ a.at \in Nat /\ a.at <= time /\ a.msg \in Messages
               /\ Stream[a.msg] \in Streams
    BY <1>1, AnswerType, StreamFacts DEF KeysAreOriginal, AnsweredInTime
  <2>5. ASSUME NEW c \in NewAnswers(b)
        PROVE  c.msg \in Elements(b) /\ c.at = time
    BY DEF NewAnswers
  <2>6. Seen'
    <3>. SUFFICES ASSUME NEW a \in Answers', a.msg \in NewAccounts
                  PROVE  <<Bucket(a.at), Author[a.msg]>> \in sightings'[Stream[a.msg]]
      BY DEF Seen, Bucket
    <3>1. CASE a \in Answers
      <4>1. <<Bucket(a.at), Author[a.msg]>> \in sightings[Stream[a.msg]]
        BY <1>1, <3>1 DEF Seen
      <4>. QED
        BY <2>2, <2>4, <3>1, <4>1 DEF Sightings
    <3>2. CASE a \in NewAnswers(b)
      <4>1. /\ a.msg \in {n \in Elements(b) \cap NewAccounts : Stream[n] = Stream[a.msg]}
            /\ a.at = time /\ Stream[a.msg] \in Streams
        BY <2>3, <2>5, <3>2
      <4>. QED
        BY <2>2, <4>1 DEF Sightings
    <3>. QED
      BY <2>1, <3>1, <3>2
  <2>7. SightedAuthors'
    <3>1. Bucket(time) \in 0..MaxTime
      BY <1>1, BucketType, ConstantsAssumption DEF TypeOK
    <3>2. \A m \in Elements(b) : <<Bucket(time), Author[m]>> \in (0..MaxTime) \X Authors
      BY <2>3, <3>1 DEF Authors
    <3>. QED
      BY <1>1, <2>2, <3>2 DEF SightedAuthors, Sightings
  <2>8. ModesInTime'
    BY <1>1, <2>2 DEF ModesInTime
  <2>9. RaidKnown'
    <3>. SUFFICES ASSUME NEW a \in Answers', Crowded(a)'
                  PROVE  \/ raidUntil'[Stream[a.msg]] >= a.at + RaidMode
                         \/ \E v \in Workers : /\ stage'[v] = "judging"
                                               /\ a.msg \in Elements(batch'[v])
                                               /\ Stream[a.msg] \in newRaids'[v]
      BY DEF RaidKnown
    <3>1. CASE a \in Answers
      <4>1. Crowded(a)
        BY <1>1, <1>3, <3>1, OldCrowd
      <4>2. CASE raidUntil[Stream[a.msg]] >= a.at + RaidMode
        BY <2>2, <4>2
      <4>3. ASSUME NEW v \in Workers, stage[v] = "judging", a.msg \in Elements(batch[v]),
                   Stream[a.msg] \in newRaids[v]
            PROVE  \E u \in Workers : /\ stage'[u] = "judging" /\ a.msg \in Elements(batch'[u])
                                      /\ Stream[a.msg] \in newRaids'[u]
        <5>1. v # w
          BY <2>2, <4>3
        <5>. QED
          BY <2>2, <4>3, <5>1
      <4>. QED
        BY <1>1, <3>1, <4>1, <4>2, <4>3 DEF RaidKnown
    <3>2. CASE a \in NewAnswers(b)
      <4>1. Stream[a.msg] \in RaidsIn(b)
        BY <1>3, <3>2, NewCrowd
      <4>. QED
        BY <2>2, <2>5, <3>2, <4>1
    <3>. QED
      BY <2>1, <3>1, <3>2
  <2>10. HeldBack'
    <3>. SUFFICES ASSUME NEW a \in Answers', NEW c \in Answers',
                         Crowded(a)', c.msg \in NewAccounts,
                         Stream[c.msg] = Stream[a.msg], Rank[a.msg] <= Rank[c.msg],
                         c.at < a.at + RaidMode
                  PROVE  c.reason # "content"
      BY DEF HeldBack
    <3>1. CASE a \in Answers /\ c \in Answers
      BY <1>1, <1>3, <3>1, OldCrowd DEF HeldBack
    <3>2. CASE a \in NewAnswers(b) /\ c \in Answers
      BY <1>1, <1>3, <3>2, LaterIsLater
    <3>3. ASSUME c \in NewAnswers(b), Stream[c.msg] \in Raiding(b) PROVE c.reason # "content"
      BY <1>1, <1>3, <3>3, PlaceOf
    <3>4. CASE a \in NewAnswers(b) /\ c \in NewAnswers(b)
      <4>1. Stream[c.msg] \in RaidsIn(b)
        BY <1>3, <3>4, NewCrowd
      <4>. QED
        BY <3>3, <3>4, <4>1 DEF Raiding
    <3>5. CASE a \in Answers /\ c \in NewAnswers(b)
      <4>1. Crowded(a)
        BY <1>1, <1>3, <3>5, OldCrowd
      <4>2. c.at = time /\ c.msg \in Elements(b)
        BY <2>5, <3>5
      <4>3. ASSUME NEW v \in Workers, stage[v] = "judging", a.msg \in Elements(batch[v])
            PROVE  FALSE
        <5>1. Home[Stream[a.msg]] = v
          BY <1>1, <4>3, InHand
        <5>2. v = w
          BY <2>3, <4>2, <5>1
        <5>. QED
          BY <2>2, <4>3, <5>2
      <4>4. raidUntil[Stream[a.msg]] >= a.at + RaidMode
        BY <1>1, <3>5, <4>1, <4>3 DEF RaidKnown
      <4>5. /\ Stream[a.msg] \in Streams /\ raidUntil[Stream[a.msg]] \in Nat
            /\ a.at \in Nat /\ time \in Nat /\ RaidMode \in Nat
        BY <1>1, <2>4, <3>5, ConstantsAssumption DEF TypeOK
      <4>6. raidUntil[Stream[a.msg]] > time
        BY <4>2, <4>4, <4>5
      <4>. QED
        BY <3>3, <3>5, <4>5, <4>6 DEF Raiding
    <3>. QED
      BY <2>1, <3>1, <3>2, <3>4, <3>5
  <2>. QED
    BY <2>6, <2>7, <2>8, <2>9, <2>10
<1>. QED
  BY <1>1, <1>2, <1>3 DEF RaidsAreKnown

\* A crowd of new authors is on record as a raid, or in the hands of the worker that saw
\* it, and from the message that made it one no new account gets past the defences.
THEOREM RaidsAreKnownInvariant == Spec => []RaidsAreKnown
<1>1. ASSUME Init PROVE RaidsAreKnown
  <2>1. KeysAreOriginal /\ Answers = {}
    BY <1>1, KeysAreOriginalInit
  <2>2. SightedAuthors /\ ModesInTime
    BY <1>1, ConstantsAssumption DEF Init, SightedAuthors, ModesInTime
  <2>. QED
    BY <2>1, <2>2 DEF RaidsAreKnown, Seen, RaidKnown, HeldBack
<1>. QED
  BY <1>1, RaidsAreKnownStep, PTL DEF Spec

\* A raid is held back until it calms down: the new account that tips a stream over, and
\* every new account on it for RAID_MODE_SECONDS, is kept out of the chat.
THEOREM RaidsAreHeldBack == Spec => []RaidHolds
<1>1. ASSUME RaidsAreKnown PROVE RaidHolds
  <2>. SUFFICES ASSUME NEW n \in NewAccounts, NEW m \in NewAccounts,
                       InCrowd(n), Decided(m),
                       Stream[m] = Stream[n], Rank[m] >= Rank[n],
                       decision[m].at < decision[n].at + RaidMode
                PROVE  decision[m].reason # "content"
    BY DEF RaidHolds
  <2>. DEFINE Told(x) == [msg |-> x, reason |-> decision[x].reason, at |-> decision[x].at]
  <2>1. TypeOK /\ HeldBack /\ NewAccounts \subseteq Messages
    BY <1>1, ConstantsAssumption DEF RaidsAreKnown, KeysAreOriginal, Bookkeeping
  <2>2. \A x \in NewAccounts : Decided(x) => Told(x) \in Answers
    BY <2>1, Recorded
  <2>3. Decided(n) /\ Cardinality(CrowdOf(n)) >= RaidThreshold /\ RaidThreshold \in Nat
    BY ConstantsAssumption DEF InCrowd
  <2>4. CrowdOf(n) \subseteq CrowdAt(Told(n))
    <3>. SUFFICES ASSUME NEW x \in NewAccounts, Decided(x), Stream[x] = Stream[n],
                         Rank[x] <= Rank[n], Bucket(decision[x].at) = Bucket(decision[n].at)
                  PROVE  Author[x] \in CrowdAt(Told(n))
      BY DEF CrowdOf
    <3>1. Author[x] \in Authors
      BY <2>1 DEF Authors
    <3>2. /\ Told(x).msg = x /\ Told(x).at = decision[x].at
          /\ Told(n).msg = n /\ Told(n).at = decision[n].at
      OBVIOUS
    <3>3. Told(x) \in Answers
      BY <2>2
    <3>. HIDE DEF Told
    <3>. QED
      BY <3>1, <3>2, <3>3 DEF CrowdAt
  <2>5. Crowded(Told(n))
    <3>1. CrowdAt(Told(n)) \in SUBSET Authors /\ CrowdOf(n) \in SUBSET CrowdAt(Told(n))
      BY <2>4 DEF CrowdAt
    <3>2. Cardinality(CrowdAt(Told(n))) >= RaidThreshold
      BY <2>3, <3>1, FewerAuthors
    <3>. QED
      BY <3>2 DEF Crowded
  <2>6. Rank[n] <= Rank[m]
    BY <2>1, StreamFacts
  <2>7. Told(n) \in Answers /\ Told(m) \in Answers
    BY <2>2, <2>3
  <2>8. /\ Told(m).msg = m /\ Told(m).at = decision[m].at /\ Told(m).reason = decision[m].reason
        /\ Told(n).msg = n /\ Told(n).at = decision[n].at
    OBVIOUS
  <2>. HIDE DEF Told
  <2>. QED
    BY <2>1, <2>5, <2>6, <2>7, <2>8 DEF HeldBack
<1>. QED
  BY <1>1, RaidsAreKnownInvariant, PTL

===============================================================================
