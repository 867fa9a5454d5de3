---------------------------- MODULE DeliveryProofs ----------------------------
(***************************************************************************)
(* Proofs about Delivery, for any number of workers, partitions, messages, *)
(* batches, crashes, revocations and failures.                             *)
(***************************************************************************)
EXTENDS Delivery, FiniteSetTheorems, TLAPS

-------------------------------------------------------------------------------
(* Facts about the constants and the operators.                            *)

LEMMA LogTypes ==
  /\ \A p \in Partitions : Len(Log[p]) \in Nat
  /\ \A e \in Positions : /\ e = <<e[1], e[2]>>
                          /\ e[1] \in Partitions
                          /\ e[2] \in 1..Len(Log[e[1]])
                          /\ At(e) \in Entries
  /\ \A p \in Partitions : \A i \in 1..Len(Log[p]) : <<p, i>> \in Positions
<1>1. \A p \in Partitions : Log[p] \in Seq(Entries)
  BY ConstantsAssumption
<1>2. \A p \in Partitions : Len(Log[p]) \in Nat
  BY <1>1
<1>3. \A p \in Partitions : \A i \in 1..Len(Log[p]) : Log[p][i] \in Entries
  BY <1>1
<1>. QED
  BY <1>2, <1>3 DEF Positions, At

LEMMA PositionsFinite == IsFiniteSet(Positions)
<1>. DEFINE slice == [p \in Partitions |-> {p} \X (1..Len(Log[p]))]
            slices == {slice[p] : p \in Partitions}
<1>1. IsFiniteSet(slices)
  <2>1. slice \in Surjection(Partitions, slices)
    BY DEF Surjection
  <2>2. IsFiniteSet(Partitions)
    BY ConstantsAssumption
  <2>. QED
    BY <2>1, <2>2, FS_Surjection
<1>2. \A S \in slices : IsFiniteSet(S)
  <2>. SUFFICES ASSUME NEW p \in Partitions PROVE IsFiniteSet(slice[p])
    OBVIOUS
  <2>1. IsFiniteSet({p})
    BY FS_Singleton
  <2>2. IsFiniteSet(1..Len(Log[p]))
    <3>1. Len(Log[p]) \in Nat
      BY LogTypes
    <3>. QED
      BY <3>1, FS_Interval
  <2>. QED
    BY <2>1, <2>2, FS_Product
<1>3. IsFiniteSet(UNION slices)
  BY <1>1, <1>2, FS_UNION
<1>. QED
  BY <1>3 DEF Positions

\* What a set of positions contributes to a user's count is a number.
LEMMA CountType ==
  ASSUME NEW E \in SUBSET Positions, NEW F \in SUBSET E
  PROVE  Cardinality(F) \in Nat
BY PositionsFinite, FS_Subset, FS_CardinalityType

-------------------------------------------------------------------------------
(* Type correctness.                                                       *)

USE DEF kafkaVars, mysqlVars, batchVars, eventVars, boundVars

LEMMA TypeInit == Init => TypeOK
BY LogTypes, ConstantsAssumption DEF Init, TypeOK, Stages, NoVerdicts

LEMMA EventTypes ==
  ASSUME TypeOK, NEW w \in Workers, NEW E \in SUBSET Positions,
         \A e \in E : At(e) \in Messages
  PROVE  /\ {DeadLetter(w, e) : e \in E} \subseteq Event
         /\ {DecisionEvent(w, e) : e \in E} \subseteq Event
         /\ Announcements(w, E) \subseteq Event
BY DEF TypeOK, DeadLetter, DecisionEvent, ReviewEvent, Escalated, Announcements,
       Event, Topics, Actions

\* What Fetch takes is a set of log positions past the old position.
LEMMA FetchType == ASSUME TypeOK, NEW w \in Workers, Fetch(w) PROVE TypeOK'
<1>1. PICK upTo \in [Partitions -> 0..BatchSize] :
        Fetch(w)!2!(upTo)
  BY DEF Fetch
<1>. DEFINE taken == UNION {{p} \X ((position[p] + 1)..(position[p] + upTo[p])) :
                            p \in Partitions}
            readable == {e \in taken : At(e) \in Messages}
<1>2. \A p \in Partitions : /\ position[p] \in Nat
                            /\ position[p] + upTo[p] \in Nat
                            /\ position[p] + upTo[p] <= Len(Log[p])
  BY <1>1, ConstantsAssumption DEF TypeOK
<1>3. taken \subseteq Positions
  BY <1>2, LogTypes DEF Positions
<1>4. {DeadLetter(w, e) : e \in taken \ readable} \subseteq Event
  BY <1>3 DEF DeadLetter, Event, Topics
<1>5. position' \in [Partitions -> Nat]
  BY <1>1, <1>2
<1>6. outbox' \in [Workers -> SUBSET Event]
  BY <1>1, <1>4 DEF TypeOK
<1>7. batch' \in [Workers -> SUBSET Positions]
  BY <1>1, <1>3 DEF TypeOK
<1>8. pc' \in [Workers -> Stages]
  BY <1>1 DEF TypeOK, Stages, AfterReading
<1>9. \A p \in Partitions : position'[p] <= Len(Log[p])
  BY <1>1, <1>2
<1>. QED
  BY <1>5, <1>6, <1>7, <1>8, <1>9 DEF Fetch, TypeOK

LEMMA TypeStep == TypeOK /\ BatchProgress /\ [Next]_vars => TypeOK'
<1>. SUFFICES ASSUME TypeOK, BatchProgress, [Next]_vars PROVE TypeOK'
  OBVIOUS
<1>. USE DEF Goto, Stages
<1>1. ASSUME NEW w \in Workers, Fetch(w) PROVE TypeOK'
  BY <1>1, FetchType
<1>2. ASSUME NEW w \in Workers, PollError(w) PROVE TypeOK'
  BY <1>2 DEF PollError, TypeOK
<1>3. ASSUME NEW w \in Workers, Judge(w) PROVE TypeOK'
  <2>1. verdict' \in [Workers -> [Messages -> Actions \cup {Undecided}]]
    BY <1>3 DEF Judge, TypeOK
  <2>. QED
    BY <1>3, <2>1 DEF Judge, TypeOK
<1>4. ASSUME NEW w \in Workers, Check(w) PROVE TypeOK'
  BY <1>4 DEF Check, TypeOK
<1>5. ASSUME NEW w \in Workers, Record(w) PROVE TypeOK'
  BY <1>5 DEF Record, InsertIgnore, TypeOK
<1>6. ASSUME NEW w \in Workers, EnqueueReviews(w) PROVE TypeOK'
  <2>1. MessagesOf(Escalated(w, fresh[w])) \subseteq Messages
    <3>. SUFFICES ASSUME NEW e \in Escalated(w, fresh[w]) PROVE At(e) \in Messages
      BY DEF MessagesOf
    <3>. QED
      BY DEF Escalated, BatchProgress, BatchProgressOf
  <2>. QED
    BY <1>6, <2>1 DEF EnqueueReviews, TypeOK
<1>7. ASSUME NEW w \in Workers, BumpRisks(w) PROVE TypeOK'
  <2>1. fresh[w] \in SUBSET Positions
    BY DEF TypeOK
  <2>2. violations' \in [Users -> Nat]
    <3>. DEFINE guilty(u) == {e \in fresh[w] : /\ IsViolation(verdict[w][At(e)])
                                               /\ Author[At(e)] = u}
    <3>1. violations' = [u \in Users |-> violations[u] + Cardinality(guilty(u))]
      BY <1>7 DEF BumpRisks
    <3>2. \A u \in Users : Cardinality(guilty(u)) \in Nat
      BY <2>1, CountType
    <3>3. \A u \in Users : violations[u] \in Nat
      BY DEF TypeOK
    <3>. HIDE DEF guilty
    <3>. QED
      BY <3>1, <3>2, <3>3
  <2>. QED
    BY <1>7, <2>2 DEF BumpRisks, TypeOK
<1>8. ASSUME NEW w \in Workers, Publish(w) PROVE TypeOK'
  <2>1. Announcements(w, fresh[w]) \subseteq Event
    BY EventTypes DEF TypeOK, BatchProgress, BatchProgressOf
  <2>. QED
    BY <1>8, <2>1 DEF Publish, TypeOK
<1>9. ASSUME NEW w \in Workers, Commit(w) PROVE TypeOK'
  BY <1>9 DEF Commit, DropBatch, NoVerdicts, TypeOK
<1>10. ASSUME NEW w \in Workers, JudgeRaises(w) PROVE TypeOK'
  BY <1>10 DEF JudgeRaises, Abandon, DropBatch, NoVerdicts, TypeOK
<1>11. ASSUME NEW w \in Workers, QueryRaises(w) PROVE TypeOK'
  BY <1>11 DEF QueryRaises, Abandon, DropBatch, NoVerdicts, TypeOK
<1>12. ASSUME NEW w \in Workers, CallRaises(w) PROVE TypeOK'
  <2>1. connected' \in [Workers -> BOOLEAN]
    BY <1>12 DEF CallRaises, TypeOK
  <2>2. abandoned' \in SUBSET Positions
    BY <1>12 DEF CallRaises, Abandon, TypeOK
  <2>3. /\ Abandon(w)
        /\ failures' = failures + 1
        /\ UNCHANGED <<kafkaVars, mysqlVars, eventVars, crashes, shutdowns, revocations>>
    BY <1>12 DEF CallRaises
  <2>. QED
    BY <2>1, <2>2, <2>3 DEF Abandon, DropBatch, NoVerdicts, TypeOK
<1>13. ASSUME NEW w \in Workers, PublishRaises(w) PROVE TypeOK'
  <2>1. outbox' \in [Workers -> SUBSET Event]
    <3>1. PICK done \in SUBSET fresh[w] \ {fresh[w]} :
            PublishRaises(w)!4!(done)
      BY <1>13 DEF PublishRaises
    <3>2. PICK half \in {{}} \cup {{e} : e \in Escalated(w, fresh[w] \ done)} :
            outbox' = [outbox EXCEPT
                         ![w] = @ \cup Announcements(w, done)
                                  \cup {DecisionEvent(w, e) : e \in half}]
      BY <3>1
    <3>3. /\ done \in SUBSET Positions
          /\ half \in SUBSET Positions
          /\ \A e \in done \cup half : At(e) \in Messages
      BY DEF TypeOK, BatchProgress, BatchProgressOf, Escalated
    <3>4. /\ Announcements(w, done) \subseteq Event
          /\ {DecisionEvent(w, e) : e \in half} \subseteq Event
      BY <3>3, EventTypes
    <3>. QED
      BY <3>2, <3>4 DEF TypeOK
  <2>. QED
    BY <1>13, <2>1 DEF PublishRaises, Abandon, DropBatch, NoVerdicts, TypeOK
<1>14. ASSUME NEW w \in Workers, Deliver(w) PROVE TypeOK'
  BY <1>14 DEF Deliver, TypeOK
<1>15. ASSUME NEW w \in Workers, Crash(w) PROVE TypeOK'
  BY <1>15 DEF Crash, LeaveGroup, DropBatch, NoVerdicts, TypeOK
<1>16. ASSUME NEW w \in Workers, Shutdown(w) PROVE TypeOK'
  BY <1>16 DEF Shutdown, LeaveGroup, TypeOK
<1>17. ASSUME NEW w \in Workers, Restart(w) PROVE TypeOK'
  BY <1>17 DEF Restart, TypeOK
<1>18. ASSUME NEW p \in Partitions, Revoke(p) PROVE TypeOK'
  BY <1>18 DEF Revoke, TypeOK
<1>19. ASSUME NEW p \in Partitions, NEW w \in Workers, Assign(p, w) PROVE TypeOK'
  BY <1>19 DEF Assign, TypeOK
<1>20. CASE UNCHANGED vars
  BY <1>20 DEF vars, TypeOK
<1>. QED
  BY <1>1, <1>2, <1>3, <1>4, <1>5, <1>6, <1>7, <1>8, <1>9, <1>10, <1>11, <1>12, <1>13,
     <1>14, <1>15, <1>16, <1>17, <1>18, <1>19, <1>20 DEF Next, Advance

-------------------------------------------------------------------------------
(* Nothing that is settled becomes unsettled again.                        *)

\* Only Record writes to the decisions table, and only Abandon to abandoned.
LEMMA WhoWrites ==
  ASSUME [Next]_vars
  PROVE  /\ \/ decisions' = decisions
            \/ \E w \in Workers : /\ pc[w] = "record" /\ pc' = [pc EXCEPT ![w] = "review"]
                                  /\ decisions' = InsertIgnore(w)
         /\ abandoned' = abandoned \/ \E w \in Workers : abandoned' = abandoned \cup batch[w]
<1>1. ASSUME NEW w \in Workers, Record(w)
      PROVE  /\ pc[w] = "record" /\ pc' = [pc EXCEPT ![w] = "review"]
             /\ decisions' = InsertIgnore(w) /\ abandoned' = abandoned
  BY <1>1 DEF Record, Goto
<1>2. ASSUME NEW w \in Workers,
             JudgeRaises(w) \/ QueryRaises(w) \/ CallRaises(w) \/ PublishRaises(w)
      PROVE  decisions' = decisions /\ abandoned' = abandoned \cup batch[w]
  BY <1>2 DEF JudgeRaises, QueryRaises, CallRaises, PublishRaises, Abandon
<1>3. ASSUME NEW w \in Workers,
             \/ Fetch(w) \/ PollError(w) \/ Judge(w) \/ Check(w) \/ EnqueueReviews(w)
             \/ BumpRisks(w) \/ Publish(w) \/ Commit(w) \/ Deliver(w) \/ Restart(w)
      PROVE  decisions' = decisions /\ abandoned' = abandoned
  BY <1>3 DEF Fetch, PollError, Judge, Check, EnqueueReviews, BumpRisks, Publish, Commit,
              Deliver, Restart
<1>4. ASSUME NEW w \in Workers, Crash(w) \/ Shutdown(w)
      PROVE  decisions' = decisions /\ abandoned' = abandoned
  BY <1>4 DEF Crash, Shutdown, LeaveGroup
<1>5. ASSUME NEW p \in Partitions, Revoke(p) \/ \E w \in Workers : Assign(p, w)
      PROVE  decisions' = decisions /\ abandoned' = abandoned
  BY <1>5 DEF Revoke, Assign
<1>6. CASE UNCHANGED vars
  BY <1>6 DEF vars
<1>. QED
  BY <1>1, <1>2, <1>3, <1>4, <1>5, <1>6 DEF Next, Advance

LEMMA RecordKept ==
  ASSUME TypeOK, [Next]_vars, NEW m \in Messages, OnRecord(m)
  PROVE  decisions'[m] = decisions[m]
BY WhoWrites DEF InsertIgnore, TypeOK

LEMMA AnswerKept ==
  ASSUME TypeOK, [Next]_vars, NEW e \in Positions, Answered(e)
  PROVE  Answered(e)'
<1>1. At(e) \in Messages => decisions'[At(e)] # Undecided \/ ~OnRecord(At(e))
  BY RecordKept DEF OnRecord
<1>2. At(e) \in Messages \/ At(e) = Unreadable
  BY LogTypes DEF Entries
<1>3. At(e)' = At(e)
  BY DEF At
<1>4. e \in abandoned => e \in abandoned'
  BY WhoWrites
<1>. QED
  BY <1>1, <1>2, <1>3, <1>4 DEF Answered, OnRecord

-------------------------------------------------------------------------------
(* What an owner has fetched is answered or in its hands.                  *)

\* All that Commit(w) commits is answered.
LEMMA CommitCoversAnswers ==
  ASSUME Inductive, NEW w \in Workers, pc[w] = "commit",
         NEW p \in Partitions, owner[p] = w, NEW i \in 1..position[p]
  PROVE  Answered(<<p, i>>)
<1>1. Answered(<<p, i>>) \/ <<p, i>> \in batch[w]
  BY DEF Inductive, FetchedIsAnsweredOrInHand
<1>2. <<p, i>> \in batch[w] => OnRecord(At(<<p, i>>))
  BY DEF Inductive, BatchProgress, BatchProgressOf
<1>. QED
  BY <1>1, <1>2 DEF Answered

LEMMA FetchedIsPosition ==
  ASSUME TypeOK, NEW p \in Partitions, NEW i \in 1..position[p]
  PROVE  <<p, i>> \in Positions
<1>1. position[p] \in Nat /\ Len(Log[p]) \in Nat /\ position[p] <= Len(Log[p])
  BY LogTypes DEF TypeOK
<1>2. i \in 1..Len(Log[p])
  BY <1>1
<1>. QED
  BY <1>2, LogTypes

LEMMA FetchedFetch ==
  ASSUME Inductive, NEW w \in Workers, Fetch(w), [Next]_vars
  PROVE  FetchedIsAnsweredOrInHand'
<1>1. PICK upTo \in [Partitions -> 0..BatchSize] :
        Fetch(w)!2!(upTo)
  BY DEF Fetch
<1>. DEFINE taken == UNION {{p} \X ((position[p] + 1)..(position[p] + upTo[p])) :
                            p \in Partitions}
            readable == {e \in taken : At(e) \in Messages}
<1>2. SUFFICES ASSUME NEW p \in Partitions, owner[p] \in Workers
               PROVE  /\ committed[p] <= position'[p]
                      /\ \A i \in 1..position'[p] :
                           Answered(<<p, i>>)' \/ <<p, i>> \in batch'[owner[p]]
  BY DEF Fetch, FetchedIsAnsweredOrInHand
<1>3. /\ TypeOK
      /\ committed[p] <= position[p]
      /\ \A i \in 1..position[p] : Answered(<<p, i>>) \/ <<p, i>> \in batch[owner[p]]
  BY <1>2 DEF Inductive, FetchedIsAnsweredOrInHand
<1>4. /\ position[p] \in Nat /\ committed[p] \in Nat /\ upTo[p] \in Nat
      /\ position'[p] = position[p] + upTo[p]
      /\ position'[p] <= Len(Log[p]) /\ Len(Log[p]) \in Nat
  BY <1>1, <1>3, LogTypes, ConstantsAssumption DEF TypeOK
<1>5. ASSUME NEW i \in 1..position[p]
      PROVE  Answered(<<p, i>>)' \/ <<p, i>> \in batch'[owner[p]]
  <2>1. CASE Answered(<<p, i>>)
    BY <2>1, <1>3, FetchedIsPosition, AnswerKept
  <2>2. CASE <<p, i>> \in batch[owner[p]]
    <3>1. owner[p] # w
      BY <2>2 DEF Fetch, Inductive, BatchProgress, BatchProgressOf
    <3>. QED
      BY <3>1, <2>2, <1>1, <1>2, <1>3 DEF TypeOK
  <2>. QED
    BY <2>1, <2>2, <1>3
<1>6. ASSUME NEW i \in (position[p] + 1)..(position[p] + upTo[p])
      PROVE  Answered(<<p, i>>)' \/ <<p, i>> \in batch'[owner[p]]
  <2>1. owner[p] = w
    BY <1>1, <1>4
  <2>2. <<p, i>> \in taken /\ i \in 1..Len(Log[p])
    BY <1>4
  <2>3. At(<<p, i>>) \in Messages \/ At(<<p, i>>) = Unreadable
    BY <2>2, LogTypes DEF Entries
  <2>4. At(<<p, i>>) \in Messages => <<p, i>> \in batch'[w]
    BY <2>2, <1>1, <1>3 DEF TypeOK
  <2>. QED
    BY <2>1, <2>3, <2>4 DEF Answered, At
<1>. QED
  BY <1>3, <1>4, <1>5, <1>6

LEMMA FetchedStep == Inductive /\ [Next]_vars => FetchedIsAnsweredOrInHand'
<1>. SUFFICES ASSUME Inductive, [Next]_vars PROVE FetchedIsAnsweredOrInHand'
  OBVIOUS
<1>. USE DEF Goto
<1>0. TypeOK
  BY DEF Inductive
\* An answer stays an answer; the owner keeps its batch, or what was in it is answered.
<1>1. ASSUME NEW p \in Partitions, owner[p] \in Workers, NEW i \in 1..position[p],
             Answered(<<p, i>>)
      PROVE  Answered(<<p, i>>)'
  BY <1>0, <1>1, FetchedIsPosition, AnswerKept
<1>2. ASSUME UNCHANGED <<owner, position, committed, batch>>
      PROVE  FetchedIsAnsweredOrInHand'
  BY <1>1, <1>2 DEF Inductive, FetchedIsAnsweredOrInHand
<1>3. ASSUME NEW w \in Workers, Abandon(w), UNCHANGED <<owner, position, committed>>
      PROVE  FetchedIsAnsweredOrInHand'
  <2>1. SUFFICES ASSUME NEW p \in Partitions, owner[p] \in Workers, NEW i \in 1..position[p]
                 PROVE  Answered(<<p, i>>)' \/ <<p, i>> \in batch'[owner[p]]
    BY <1>3 DEF Inductive, FetchedIsAnsweredOrInHand
  <2>2. CASE Answered(<<p, i>>)
    BY <1>1, <2>1, <2>2
  <2>3. CASE <<p, i>> \in batch[owner[p]] /\ owner[p] = w
    BY <1>3, <2>3 DEF Abandon, Answered
  <2>4. CASE <<p, i>> \in batch[owner[p]] /\ owner[p] # w
    BY <1>0, <1>3, <2>1, <2>4 DEF Abandon, DropBatch, TypeOK
  <2>. QED
    BY <2>1, <2>2, <2>3, <2>4 DEF Inductive, FetchedIsAnsweredOrInHand
<1>4. ASSUME NEW w \in Workers, Commit(w) PROVE FetchedIsAnsweredOrInHand'
  <2>1. SUFFICES ASSUME NEW p \in Partitions, owner[p] \in Workers
                 PROVE  /\ committed'[p] <= position[p]
                        /\ \A i \in 1..position[p] :
                             Answered(<<p, i>>)' \/ <<p, i>> \in batch'[owner[p]]
    BY <1>4 DEF Commit, FetchedIsAnsweredOrInHand
  <2>2. committed'[p] <= position[p]
    BY <1>0, <1>4, <2>1 DEF Commit, TypeOK, Inductive, FetchedIsAnsweredOrInHand
  <2>3. CASE owner[p] = w
    BY <1>1, <1>4, <2>1, <2>2, <2>3, CommitCoversAnswers DEF Commit
  <2>4. CASE owner[p] # w
    <3>1. batch'[owner[p]] = batch[owner[p]]
      BY <1>0, <1>4, <2>1, <2>4 DEF Commit, DropBatch, TypeOK
    <3>. QED
      BY <1>1, <2>1, <2>2, <3>1 DEF Inductive, FetchedIsAnsweredOrInHand
  <2>. QED
    BY <2>3, <2>4
<1>5. ASSUME NEW w \in Workers, LeaveGroup(w),
             \A v \in Workers \ {w} : batch'[v] = batch[v]
      PROVE  FetchedIsAnsweredOrInHand'
  <2>1. SUFFICES ASSUME NEW p \in Partitions, owner'[p] \in Workers,
                        NEW i \in 1..position[p]
                 PROVE  /\ committed[p] <= position[p]
                        /\ Answered(<<p, i>>)' \/ <<p, i>> \in batch'[owner'[p]]
    <3>1. \A p \in Partitions : owner'[p] \in Workers => owner[p] = owner'[p]
      BY <1>0, <1>5, ConstantsAssumption DEF LeaveGroup, TypeOK
    <3>. QED
      BY <3>1, <1>5 DEF LeaveGroup, Inductive, FetchedIsAnsweredOrInHand
  <2>2. owner'[p] = owner[p] /\ owner[p] \in Workers \ {w}
    BY <1>0, <1>5, <2>1, ConstantsAssumption DEF LeaveGroup, TypeOK
  <2>3. /\ committed[p] <= position[p]
        /\ Answered(<<p, i>>) \/ <<p, i>> \in batch[owner[p]]
    BY <2>2 DEF Inductive, FetchedIsAnsweredOrInHand
  <2>. QED
    BY <1>1, <1>5, <2>2, <2>3
<1>6. ASSUME NEW p \in Partitions, Revoke(p) PROVE FetchedIsAnsweredOrInHand'
  <2>1. \A q \in Partitions : owner'[q] \in Workers => owner[q] = owner'[q]
    BY <1>0, <1>6, ConstantsAssumption DEF Revoke, TypeOK
  <2>2. UNCHANGED <<position, committed, batch>>
    BY <1>6 DEF Revoke
  <2>. QED
    BY <1>1, <2>1, <2>2 DEF Inductive, FetchedIsAnsweredOrInHand
<1>7. ASSUME NEW p \in Partitions, NEW w \in Workers, Assign(p, w)
      PROVE  FetchedIsAnsweredOrInHand'
  <2>1. UNCHANGED <<committed, batch>>
    BY <1>7 DEF Assign
  <2>2. \A q \in Partitions \ {p} : owner'[q] = owner[q] /\ position'[q] = position[q]
    BY <1>0, <1>7 DEF Assign, TypeOK
  <2>3. position'[p] = committed[p] /\ committed[p] \in Nat
    BY <1>0, <1>7 DEF Assign, TypeOK
  <2>4. ASSUME NEW i \in 1..committed[p] PROVE Answered(<<p, i>>)'
    <3>1. <<p, i>> \in CommittedPositions
      BY DEF CommittedPositions
    <3>2. Answered(<<p, i>>)
      BY <3>1 DEF Inductive, NoSilentLoss
    <3>3. <<p, i>> \in Positions
      <4>1. i \in 1..Len(Log[p])
        BY <1>0, LogTypes DEF TypeOK
      <4>. QED
        BY <4>1, LogTypes
    <3>. QED
      BY <1>0, <3>2, <3>3, AnswerKept
  <2>. QED
    BY <1>1, <2>1, <2>2, <2>3, <2>4 DEF Inductive, FetchedIsAnsweredOrInHand
<1>8. ASSUME NEW w \in Workers, Next!1!(w) PROVE FetchedIsAnsweredOrInHand'
  <2>1. CASE Fetch(w)
    BY <2>1, FetchedFetch
  <2>2. CASE \/ PollError(w) \/ Judge(w) \/ Check(w) \/ Record(w) \/ EnqueueReviews(w)
             \/ BumpRisks(w) \/ Publish(w) \/ Deliver(w) \/ Restart(w)
    BY <1>2, <2>2 DEF PollError, Judge, Check, Record, EnqueueReviews, BumpRisks, Publish,
                      Deliver, Restart
  <2>3. CASE JudgeRaises(w) \/ QueryRaises(w) \/ CallRaises(w) \/ PublishRaises(w)
    BY <1>3, <2>3 DEF JudgeRaises, QueryRaises, CallRaises, PublishRaises
  <2>4. CASE Crash(w) \/ Shutdown(w)
    BY <1>0, <1>5, <2>4 DEF Crash, Shutdown, DropBatch, TypeOK
  <2>. QED
    BY <1>4, <1>8, <2>1, <2>2, <2>3, <2>4 DEF Advance
<1>9. CASE UNCHANGED vars
  BY <1>2, <1>9 DEF vars
<1>. QED
  BY <1>6, <1>7, <1>8, <1>9 DEF Next

\* Only Commit moves committed offsets.
LEMMA NoSilentLossStep == Inductive /\ [Next]_vars => NoSilentLoss'
<1>. SUFFICES ASSUME Inductive, [Next]_vars PROVE NoSilentLoss'
  OBVIOUS
<1>0. TypeOK
  BY DEF Inductive
<1>1. ASSUME NEW e \in CommittedPositions PROVE Answered(e)'
  <2>1. e \in Positions
    BY <1>0, LogTypes DEF CommittedPositions, Positions, TypeOK
  <2>. QED
    BY <1>0, <2>1, AnswerKept DEF Inductive, NoSilentLoss
<1>2. ASSUME UNCHANGED committed PROVE NoSilentLoss'
  BY <1>1, <1>2 DEF NoSilentLoss, CommittedPositions
<1>3. ASSUME NEW w \in Workers, Commit(w) PROVE NoSilentLoss'
  <2>1. SUFFICES ASSUME NEW p \in Partitions, NEW i \in 1..committed'[p]
                 PROVE  Answered(<<p, i>>)'
    BY DEF NoSilentLoss, CommittedPositions
  <2>2. CASE owner[p] = w
    <3>1. i \in 1..position[p] /\ pc[w] = "commit"
      BY <1>3, <2>1, <2>2 DEF Commit, Goto
    <3>2. Answered(<<p, i>>)
      BY <2>2, <3>1, CommitCoversAnswers
    <3>. QED
      BY <1>0, <3>1, <3>2, FetchedIsPosition, AnswerKept
  <2>3. CASE owner[p] # w
    <3>1. committed'[p] = committed[p]
      BY <1>3, <2>3 DEF Commit
    <3>2. <<p, i>> \in CommittedPositions
      BY <2>1, <3>1 DEF CommittedPositions
    <3>. QED
      BY <1>1, <3>2
  <2>. QED
    BY <2>2, <2>3
<1>4. ASSUME NEW w \in Workers, Next!1!(w), ~Commit(w) PROVE UNCHANGED committed
  BY <1>4 DEF Advance, Fetch, PollError, Judge, Check, Record, EnqueueReviews, BumpRisks,
              Publish, JudgeRaises, QueryRaises, CallRaises, PublishRaises, Deliver, Crash,
              Shutdown, LeaveGroup, Restart
<1>5. ASSUME NEW p \in Partitions, Revoke(p) \/ \E w \in Workers : Assign(p, w)
      PROVE  UNCHANGED committed
  BY <1>5 DEF Revoke, Assign
<1>. QED
  BY <1>2, <1>3, <1>4, <1>5 DEF Next, vars

-------------------------------------------------------------------------------
(* How far a batch has got.                                                *)

\* A step of one worker leaves what the others have in hand alone.
LEMMA OthersUntouched ==
  ASSUME TypeOK, NEW v \in Workers, NEW w \in Workers, w # v, Next!1!(w)
  PROVE  /\ pc'[v] = pc[v] /\ batch'[v] = batch[v] /\ fresh'[v] = fresh[v]
         /\ verdict'[v] = verdict[v]
<1>. USE DEF Goto
<1>1. CASE \/ Fetch(w) \/ PollError(w) \/ Judge(w) \/ Check(w) \/ Record(w)
           \/ EnqueueReviews(w) \/ BumpRisks(w)
  BY <1>1 DEF Fetch, PollError, Judge, Check, Record, EnqueueReviews, BumpRisks, TypeOK
<1>2. CASE Publish(w) \/ Commit(w) \/ Deliver(w) \/ Restart(w)
  BY <1>2 DEF Publish, Commit, DropBatch, Deliver, Restart, TypeOK
<1>3. CASE JudgeRaises(w) \/ QueryRaises(w) \/ CallRaises(w) \/ PublishRaises(w)
  BY <1>3 DEF JudgeRaises, QueryRaises, CallRaises, PublishRaises, Abandon, DropBatch, TypeOK
<1>4. CASE Crash(w) \/ Shutdown(w)
  BY <1>4 DEF Crash, Shutdown, LeaveGroup, DropBatch, TypeOK
<1>. QED
  BY <1>1, <1>2, <1>3, <1>4 DEF Advance

LEMMA ProgressStep == Inductive /\ [Next]_vars => BatchProgress'
<1>. SUFFICES ASSUME Inductive, [Next]_vars, NEW v \in Workers PROVE BatchProgressOf(v)'
  BY DEF BatchProgress
<1>. USE DEF Goto
<1>0. TypeOK /\ BatchProgressOf(v)
  BY DEF Inductive, BatchProgress
<1>1. ASSUME NEW e \in batch[v], OnRecord(At(e)) PROVE OnRecord(At(e))'
  <2>1. At(e) \in Messages
    BY <1>0 DEF BatchProgressOf
  <2>. QED
    BY <1>0, <1>1, <2>1, RecordKept DEF OnRecord, At
\* A step that is none of v's leaves v where it is.
<1>2. ASSUME pc'[v] = pc[v], batch'[v] = batch[v], fresh'[v] = fresh[v],
             verdict'[v] = verdict[v],
             pc[v] = "down" => \A p \in Partitions : owner'[p] # v
      PROVE  BatchProgressOf(v)'
  <2>1. \A e \in batch[v] : At(e)' = At(e)
    BY DEF At
  <2>. QED
    BY <1>0, <1>1, <1>2, <2>1 DEF BatchProgressOf
<1>3. ASSUME NEW w \in Workers, w # v, Next!1!(w) PROVE BatchProgressOf(v)'
  <2>1. /\ pc'[v] = pc[v] /\ batch'[v] = batch[v] /\ fresh'[v] = fresh[v]
        /\ verdict'[v] = verdict[v]
    BY <1>0, <1>3, OthersUntouched
  <2>2. \A p \in Partitions : owner'[p] = v => owner[p] = v
    <3>1. CASE Crash(w) \/ Shutdown(w)
      BY <3>1, ConstantsAssumption DEF Crash, Shutdown, LeaveGroup
    <3>2. CASE ~(Crash(w) \/ Shutdown(w))
      BY <1>3, <3>2 DEF Advance, Fetch, PollError, Judge, Check, Record, EnqueueReviews,
                        BumpRisks, Publish, Commit, JudgeRaises, QueryRaises, CallRaises,
                        PublishRaises, Deliver, Restart
    <3>. QED
      BY <3>1, <3>2
  <2>. QED
    BY <1>0, <1>2, <2>1, <2>2 DEF BatchProgressOf
<1>4. ASSUME Next!1!(v) PROVE BatchProgressOf(v)'
  <2>1. CASE Fetch(v)
    <3>1. PICK readable :
            /\ batch' = [batch EXCEPT ![v] = readable]
            /\ pc' = [pc EXCEPT ![v] = AfterReading(readable)]
            /\ \A e \in readable : At(e) \in Messages
      <4>1. PICK upTo \in [Partitions -> 0..BatchSize] : Fetch(v)!2!(upTo)
        BY <2>1 DEF Fetch
      <4>. DEFINE taken == UNION {{p} \X ((position[p] + 1)..(position[p] + upTo[p])) :
                                  p \in Partitions}
                  handed == {e \in taken : At(e) \in Messages}
      <4>2. /\ batch' = [batch EXCEPT ![v] = handed]
            /\ pc' = [pc EXCEPT ![v] = AfterReading(handed)]
        BY <4>1, Zenon
      <4>3. \A e \in handed : At(e) \in Messages
        OBVIOUS
      <4>. HIDE DEF handed
      <4>. QED
        BY <4>2, <4>3
    <3>2. batch'[v] = readable /\ pc'[v] = AfterReading(readable)
      BY <1>0, <3>1 DEF TypeOK
    <3>3. fresh'[v] = {}
      BY <1>0, <2>1 DEF Fetch, BatchProgressOf
    <3>4. \A e \in readable : At(e)' = At(e)
      BY DEF At
    <3>. QED
      BY <3>1, <3>2, <3>3, <3>4 DEF AfterReading, BatchProgressOf
  <2>2. CASE PollError(v)
    BY <1>0, <2>2 DEF PollError, BatchProgressOf, TypeOK, At
  <2>3. CASE Judge(v)
    <3>1. PICK u \in [MessagesOf(batch[v]) -> Actions] :
            verdict' = [verdict EXCEPT
                          ![v] = [m \in Messages |-> IF m \in DOMAIN u THEN u[m]
                                                                       ELSE Undecided]]
      BY <2>3 DEF Judge
    <3>2. \A e \in batch[v] : At(e) \in Messages /\ At(e) \in MessagesOf(batch[v])
      BY <1>0 DEF BatchProgressOf, MessagesOf
    <3>3. \A e \in batch[v] : verdict'[v][At(e)] # Undecided
      BY <1>0, <3>1, <3>2 DEF TypeOK, Actions, Undecided
    <3>. QED
      BY <1>0, <2>3, <3>3 DEF Judge, BatchProgressOf, TypeOK, At
  <2>4. CASE Check(v)
    <3>0. /\ pc[v] = "check" /\ pc'[v] \in {"record", "commit"}
          /\ batch'[v] = batch[v] /\ verdict'[v] = verdict[v] /\ decisions' = decisions
      BY <1>0, <2>4 DEF Check, TypeOK
    <3>1. /\ fresh'[v] = {e \in batch[v] : ~OnRecord(At(e))}
          /\ fresh'[v] = {} \/ pc'[v] = "record"
      BY <1>0, <2>4 DEF Check, TypeOK
    <3>2. \A e \in batch[v] : At(e)' = At(e) /\ (OnRecord(At(e)) => OnRecord(At(e))')
      BY <3>0 DEF OnRecord, At
    <3>. QED
      BY <1>0, <3>0, <3>1, <3>2 DEF BatchProgressOf
  <2>5. CASE Record(v)
    <3>1. /\ pc[v] = "record" /\ pc'[v] = "review" /\ batch'[v] = batch[v]
          /\ fresh'[v] = fresh[v] /\ verdict'[v] = verdict[v]
      BY <1>0, <2>5 DEF Record, TypeOK
    <3>2. ASSUME NEW e \in batch[v] PROVE OnRecord(At(e))' /\ At(e)' \in Messages
      <4>1. At(e)' = At(e) /\ At(e) \in Messages /\ verdict[v][At(e)] \in Actions \cup {Undecided}
        BY <1>0 DEF TypeOK, BatchProgressOf, At
      <4>2. CASE OnRecord(At(e))
        BY <1>1, <4>1, <4>2
      <4>3. CASE ~OnRecord(At(e))
        <5>1. e \in fresh[v] /\ At(e) \in MessagesOf(fresh[v])
          BY <1>0, <3>1, <4>3 DEF BatchProgressOf, MessagesOf
        <5>2. verdict[v][At(e)] # Undecided
          BY <1>0, <3>1 DEF BatchProgressOf
        <5>3. decisions'[At(e)] = verdict[v][At(e)]
          BY <2>5, <4>1, <4>3, <5>1 DEF Record, InsertIgnore, OnRecord
        <5>. QED
          BY <4>1, <5>2, <5>3 DEF OnRecord
      <4>. QED
        BY <4>1, <4>2, <4>3
    <3>. QED
      BY <1>0, <3>1, <3>2 DEF BatchProgressOf
  <2>6. CASE EnqueueReviews(v) \/ BumpRisks(v) \/ Publish(v) \/ Deliver(v)
    <3>1. /\ batch'[v] = batch[v] /\ fresh'[v] = fresh[v] /\ verdict'[v] = verdict[v]
          /\ decisions' = decisions
      BY <2>6 DEF EnqueueReviews, BumpRisks, Publish, Deliver
    <3>2. \/ pc'[v] = pc[v]
          \/ pc[v] \in {"review", "risk", "publish"} /\ pc'[v] \in {"risk", "publish", "commit"}
      BY <1>0, <2>6 DEF EnqueueReviews, BumpRisks, Publish, Deliver, TypeOK
    <3>3. owner' = owner
      BY <2>6 DEF EnqueueReviews, BumpRisks, Publish, Deliver
    <3>4. \A e \in batch[v] : At(e)' = At(e) /\ OnRecord(At(e))' = OnRecord(At(e))
      BY <3>1 DEF OnRecord, At
    <3>. QED
      BY <1>0, <3>1, <3>2, <3>3, <3>4 DEF BatchProgressOf
  <2>7. CASE Commit(v)
    BY <1>0, <2>7 DEF Commit, DropBatch, BatchProgressOf, TypeOK
  <2>8. CASE JudgeRaises(v) \/ QueryRaises(v) \/ CallRaises(v) \/ PublishRaises(v)
    <3>1. pc'[v] = "idle" /\ batch'[v] = {} /\ fresh'[v] = {}
      BY <1>0, <2>8 DEF JudgeRaises, QueryRaises, CallRaises, PublishRaises, Abandon,
                        DropBatch, TypeOK
    <3>. QED
      BY <3>1 DEF BatchProgressOf
  <2>9. CASE Crash(v) \/ Shutdown(v)
    <3>1. pc'[v] = "down" /\ batch'[v] = {} /\ fresh'[v] = {}
      BY <1>0, <2>9 DEF Crash, Shutdown, LeaveGroup, DropBatch, BatchProgressOf, TypeOK
    <3>2. \A p \in Partitions : owner'[p] # v
      BY <2>9, ConstantsAssumption DEF Crash, Shutdown, LeaveGroup
    <3>. QED
      BY <3>1, <3>2 DEF BatchProgressOf
  <2>10. CASE Restart(v)
    BY <1>0, <2>10 DEF Restart, BatchProgressOf, TypeOK
  <2>. QED
    BY <1>4, <2>1, <2>2, <2>3, <2>4, <2>5, <2>6, <2>7, <2>8, <2>9, <2>10 DEF Advance
<1>5. ASSUME NEW p \in Partitions, Revoke(p) PROVE BatchProgressOf(v)'
  BY <1>0, <1>2, <1>5, ConstantsAssumption DEF Revoke, BatchProgressOf, TypeOK
<1>6. ASSUME NEW p \in Partitions, NEW w \in Workers, Assign(p, w) PROVE BatchProgressOf(v)'
  BY <1>0, <1>2, <1>6 DEF Assign, Running, BatchProgressOf, TypeOK
<1>7. CASE UNCHANGED vars
  BY <1>0, <1>2, <1>7 DEF vars, BatchProgressOf
<1>. QED
  BY <1>3, <1>4, <1>5, <1>6, <1>7 DEF Next

-------------------------------------------------------------------------------
(* The audit trail comes first.                                            *)

\* A worker that publishes has its whole fresh list on record.
LEMMA PublishedIsOnRecord ==
  ASSUME Inductive, NEW w \in Workers, pc[w] = "publish", NEW E \in SUBSET fresh[w],
         NEW a \in Announcements(w, E)
  PROVE  At(a.at) \in Messages /\ OnRecord(At(a.at))
<1>1. a.at \in fresh[w]
  BY DEF Announcements, DecisionEvent, ReviewEvent, Escalated
<1>. QED
  BY <1>1 DEF Inductive, BatchProgress, BatchProgressOf

\* Only Publish and PublishRaises announce anything, and only their worker's fresh list.
LEMMA NewAnnouncements ==
  ASSUME TypeOK, [Next]_vars
  PROVE  \/ Announced' \subseteq Announced
         \/ \E w \in Workers :
              /\ pc[w] = "publish" /\ pc'[w] # "publish" /\ decisions' = decisions
              /\ Announced' \subseteq Announced \cup Announcements(w, fresh[w])
<1>. USE DEF Goto
<1>1. ASSUME NEW w \in Workers, NEW E \in SUBSET fresh[w], NEW H \in SUBSET fresh[w],
             UNCHANGED delivered,
             outbox' = [outbox EXCEPT ![w] = @ \cup Announcements(w, E)
                                               \cup {DecisionEvent(w, e) : e \in H}]
      PROVE  Announced' \subseteq Announced \cup Announcements(w, fresh[w])
  <2>1. /\ Announcements(w, E) \subseteq Announcements(w, fresh[w])
        /\ {DecisionEvent(w, e) : e \in H} \subseteq Announcements(w, fresh[w])
    BY DEF Announcements, Escalated
  <2>2. \A a \in Announced' : \/ a \in Announced
                              \/ a \in Announcements(w, E)
                              \/ a \in {DecisionEvent(w, e) : e \in H}
    BY <1>1 DEF Announced, TypeOK
  <2>. QED
    BY <2>1, <2>2
<1>2. ASSUME NEW w \in Workers, Publish(w)
      PROVE  Announced' \subseteq Announced \cup Announcements(w, fresh[w])
  <2>1. outbox' = [outbox EXCEPT ![w] = @ \cup Announcements(w, fresh[w])
                                             \cup {DecisionEvent(w, e) : e \in {}}]
    BY <1>2 DEF Publish
  <2>2. UNCHANGED delivered
    BY <1>2 DEF Publish
  <2>3. fresh[w] \in SUBSET fresh[w] /\ {} \in SUBSET fresh[w]
    OBVIOUS
  <2>. QED
    BY <1>1, <2>1, <2>2, <2>3
<1>3. ASSUME NEW w \in Workers, PublishRaises(w)
      PROVE  Announced' \subseteq Announced \cup Announcements(w, fresh[w])
  <2>1. PICK done \in SUBSET fresh[w] \ {fresh[w]} : PublishRaises(w)!4!(done)
    BY <1>3 DEF PublishRaises
  <2>2. PICK half \in {{}} \cup {{e} : e \in Escalated(w, fresh[w] \ done)} :
          outbox' = [outbox EXCEPT
                       ![w] = @ \cup Announcements(w, done)
                                \cup {DecisionEvent(w, e) : e \in half}]
    BY <2>1
  <2>3. done \in SUBSET fresh[w] /\ half \in SUBSET fresh[w]
    BY DEF Escalated
  <2>4. UNCHANGED delivered
    BY <1>3 DEF PublishRaises
  <2>. QED
    BY <1>1, <2>2, <2>3, <2>4
<1>4. ASSUME NEW w \in Workers, Publish(w) \/ PublishRaises(w)
      PROVE  pc[w] = "publish" /\ pc'[w] # "publish" /\ decisions' = decisions
  BY <1>4 DEF Publish, PublishRaises, Abandon, TypeOK
<1>5. ASSUME NEW w \in Workers, Fetch(w) PROVE Announced' \subseteq Announced
  <2>1. \A a \in outbox'[w] : a \in outbox[w] \/ a.topic = "chat.deadletter"
    BY <1>5 DEF Fetch, DeadLetter, TypeOK
  <2>2. \A x \in Workers \ {w} : outbox'[x] = outbox[x]
    BY <1>5 DEF Fetch, TypeOK
  <2>. QED
    BY <1>5, <2>1, <2>2 DEF Fetch, Announced
<1>6. ASSUME NEW w \in Workers, Deliver(w) \/ Crash(w) \/ Shutdown(w)
      PROVE  Announced' \subseteq Announced
  <2>1. /\ delivered' \subseteq delivered \cup outbox[w]
        /\ outbox' = [outbox EXCEPT ![w] = {}]
    BY <1>6 DEF Deliver, Crash, Shutdown, LeaveGroup
  <2>2. \A x \in Workers : outbox'[x] \subseteq outbox[x]
    BY <2>1 DEF TypeOK
  <2>. QED
    BY <2>1, <2>2 DEF Announced
<1>7. ASSUME UNCHANGED <<outbox, delivered>> PROVE Announced' \subseteq Announced
  BY <1>7 DEF Announced
<1>8. ASSUME NEW w \in Workers,
             \/ PollError(w) \/ Judge(w) \/ Check(w) \/ Record(w) \/ EnqueueReviews(w)
             \/ BumpRisks(w) \/ Commit(w) \/ JudgeRaises(w) \/ QueryRaises(w)
             \/ CallRaises(w) \/ Restart(w)
      PROVE  UNCHANGED <<outbox, delivered>>
  BY <1>8 DEF PollError, Judge, Check, Record, EnqueueReviews, BumpRisks, Commit,
              JudgeRaises, QueryRaises, CallRaises, Restart
<1>9. ASSUME NEW p \in Partitions, Revoke(p) \/ \E w \in Workers : Assign(p, w)
      PROVE  UNCHANGED <<outbox, delivered>>
  BY <1>9 DEF Revoke, Assign
<1>10. CASE UNCHANGED vars
  BY <1>7, <1>10 DEF vars
<1>. QED
  BY <1>2, <1>3, <1>4, <1>5, <1>6, <1>7, <1>8, <1>9, <1>10 DEF Next, Advance

\* Only EnqueueReviews queues messages for review: its worker's escalated ones.
LEMMA NewReviews ==
  ASSUME [Next]_vars
  PROVE  \/ reviewItems' = reviewItems
         \/ \E w \in Workers :
              /\ pc[w] = "review"
              /\ reviewItems' = reviewItems \cup MessagesOf(Escalated(w, fresh[w]))
<1>1. ASSUME NEW w \in Workers, EnqueueReviews(w)
      PROVE  /\ pc[w] = "review"
             /\ reviewItems' = reviewItems \cup MessagesOf(Escalated(w, fresh[w]))
  BY <1>1 DEF EnqueueReviews, Goto
<1>2. ASSUME NEW w \in Workers,
             \/ Fetch(w) \/ PollError(w) \/ Judge(w) \/ Check(w) \/ Record(w)
             \/ BumpRisks(w) \/ Publish(w) \/ Commit(w) \/ Deliver(w) \/ Restart(w)
      PROVE  reviewItems' = reviewItems
  BY <1>2 DEF Fetch, PollError, Judge, Check, Record, BumpRisks, Publish, Commit, Deliver,
              Restart
<1>3. ASSUME NEW w \in Workers,
             \/ JudgeRaises(w) \/ QueryRaises(w) \/ CallRaises(w) \/ PublishRaises(w)
             \/ Crash(w) \/ Shutdown(w)
      PROVE  reviewItems' = reviewItems
  BY <1>3 DEF JudgeRaises, QueryRaises, CallRaises, PublishRaises, Crash, Shutdown, LeaveGroup
<1>4. ASSUME NEW p \in Partitions, Revoke(p) \/ \E w \in Workers : Assign(p, w)
      PROVE  reviewItems' = reviewItems
  BY <1>4 DEF Revoke, Assign
<1>5. CASE UNCHANGED vars
  BY <1>5 DEF vars
<1>. QED
  BY <1>1, <1>2, <1>3, <1>4, <1>5 DEF Next, Advance

LEMMA RecordFirstStep == Inductive /\ [Next]_vars => RecordComesFirst'
<1>. SUFFICES ASSUME Inductive, [Next]_vars PROVE RecordComesFirst'
  OBVIOUS
<1>0. TypeOK
  BY DEF Inductive
<1>1. ASSUME NEW m \in Messages, OnRecord(m) PROVE OnRecord(m)'
  BY <1>0, <1>1, RecordKept DEF OnRecord
<1>2. ASSUME NEW m \in reviewItems' PROVE m \in Messages /\ OnRecord(m)
  BY <1>0, <1>2, NewReviews, TypeStep
     DEF Inductive, RecordComesFirst, MessagesOf, Escalated, BatchProgress, BatchProgressOf,
         TypeOK
<1>3. ASSUME NEW a \in Announced' PROVE At(a.at) \in Messages /\ OnRecord(At(a.at))
  <2>1. CASE a \in Announced
    BY <2>1 DEF Inductive, RecordComesFirst
  <2>2. CASE a \notin Announced
    <3>1. PICK w \in Workers : pc[w] = "publish" /\ a \in Announcements(w, fresh[w])
      BY <1>0, <1>3, <2>2, NewAnnouncements
    <3>. QED
      BY <3>1, PublishedIsOnRecord
  <2>. QED
    BY <2>1, <2>2
<1>. QED
  BY <1>1, <1>2, <1>3 DEF RecordComesFirst, At

-------------------------------------------------------------------------------
(* The theorems.                                                           *)

LEMMA InductiveInit == Init => Inductive
<1>. SUFFICES ASSUME Init PROVE Inductive
  OBVIOUS
<1>1. TypeOK
  BY TypeInit
<1>2. FetchedIsAnsweredOrInHand /\ NoSilentLoss
  BY ConstantsAssumption DEF Init, FetchedIsAnsweredOrInHand, NoSilentLoss,
                             CommittedPositions
<1>3. BatchProgress
  BY DEF Init, BatchProgress, BatchProgressOf
<1>4. RecordComesFirst
  BY DEF Init, RecordComesFirst, Announced
<1>. QED
  BY <1>1, <1>2, <1>3, <1>4 DEF Inductive

LEMMA InductiveStep == Inductive /\ [Next]_vars => Inductive'
BY TypeStep, FetchedStep, ProgressStep, NoSilentLossStep, RecordFirstStep DEF Inductive

\* The worker's bookkeeping holds in every reachable state, for any number of workers,
\* partitions and messages, and any number of crashes, revocations and failures.
THEOREM InductiveInvariant == Spec => []Inductive
BY InductiveInit, InductiveStep, PTL DEF Spec

\* Offsets stay inside the log and every variable keeps its type.
THEOREM TypeCorrect == Spec => []TypeOK
<1>1. Inductive => TypeOK
  BY DEF Inductive
<1>. QED
  BY <1>1, InductiveInvariant, PTL

\* No offset is committed over a readable message that has no decision, unless the
\* message was in a batch that raised.
THEOREM NothingLostSilently == Spec => []NoSilentLoss
<1>1. Inductive => NoSilentLoss
  BY DEF Inductive
<1>. QED
  BY <1>1, InductiveInvariant, PTL

\* Nothing is announced and nothing is queued for review before it is on record.
THEOREM RecordAlwaysFirst == Spec => []RecordComesFirst
<1>1. Inductive => RecordComesFirst
  BY DEF Inductive
<1>. QED
  BY <1>1, InductiveInvariant, PTL

\* A verdict on record is never revised.
THEOREM RecordNeverRevised == Spec => RecordIsFinal
<1>1. Inductive /\ [Next]_vars =>
        [\A m \in Messages : OnRecord(m) => decisions'[m] = decisions[m]]_vars
  BY RecordKept DEF Inductive
<1>. QED
  BY <1>1, InductiveInvariant, PTL DEF Spec, RecordIsFinal

-------------------------------------------------------------------------------
(* Refinement.                                                             *)

LEMMA RefinementStep ==
  Inductive /\ Inductive' /\ [Next]_vars => [Audit!Next]_(Audit!vars)
<1>. SUFFICES ASSUME Inductive, Inductive', [Next]_vars
              PROVE  Audit!Next \/ UNCHANGED <<decisions, committed, abandoned>>
  BY DEF Audit!vars
<1>. USE DEF Goto
<1>0. TypeOK /\ TypeOK'
  BY DEF Inductive
<1>1. ASSUME NEW w \in Workers, Record(w) PROVE Audit!Decide
  <2>1. UNCHANGED <<committed, abandoned>>
    BY <1>1 DEF Record
  <2>2. \A m \in Messages : decisions[m] # Undecided => decisions'[m] = decisions[m]
    BY <1>0, RecordKept DEF OnRecord
  <2>. QED
    BY <1>0, <2>1, <2>2 DEF Audit!Decide, TypeOK
<1>2. ASSUME NEW w \in Workers, Commit(w) PROVE Audit!Acknowledge
  <2>1. UNCHANGED <<decisions, abandoned>>
    BY <1>2 DEF Commit
  <2>2. \A p \in Partitions : committed[p] <= committed'[p] /\ committed'[p] <= Len(Log[p])
    BY <1>0, <1>2 DEF Commit, TypeOK, Inductive, FetchedIsAnsweredOrInHand
  <2>3. ASSUME NEW p \in Partitions, NEW i \in 1..committed'[p] PROVE Audit!Answered(p, i)
    <3>1. <<p, i>> \in CommittedPositions'
      BY DEF CommittedPositions
    <3>2. Answered(<<p, i>>)'
      BY <3>1 DEF Inductive, NoSilentLoss
    <3>. QED
      BY <2>1, <3>2 DEF Answered, OnRecord, At, Audit!Answered
  <2>. QED
    BY <1>0, <2>1, <2>2, <2>3 DEF Audit!Acknowledge, TypeOK
<1>3. ASSUME NEW w \in Workers,
             JudgeRaises(w) \/ QueryRaises(w) \/ CallRaises(w) \/ PublishRaises(w)
      PROVE  Audit!Excuse
  <2>1. UNCHANGED <<decisions, committed>>
    BY <1>3 DEF JudgeRaises, QueryRaises, CallRaises, PublishRaises
  <2>2. abandoned \subseteq abandoned'
    BY WhoWrites
  <2>. QED
    BY <1>0, <2>1, <2>2 DEF Audit!Excuse, Audit!Positions, Positions, TypeOK
<1>4. ASSUME NEW w \in Workers,
             \/ Fetch(w) \/ PollError(w) \/ Judge(w) \/ Check(w) \/ EnqueueReviews(w)
             \/ BumpRisks(w) \/ Publish(w) \/ Deliver(w) \/ Restart(w)
      PROVE  UNCHANGED <<decisions, committed, abandoned>>
  BY <1>4 DEF Fetch, PollError, Judge, Check, EnqueueReviews, BumpRisks, Publish, Deliver,
              Restart
<1>5. ASSUME NEW w \in Workers, Crash(w) \/ Shutdown(w)
      PROVE  UNCHANGED <<decisions, committed, abandoned>>
  BY <1>5 DEF Crash, Shutdown, LeaveGroup
<1>6. ASSUME NEW p \in Partitions, Revoke(p) \/ \E w \in Workers : Assign(p, w)
      PROVE  UNCHANGED <<decisions, committed, abandoned>>
  BY <1>6 DEF Revoke, Assign
<1>7. CASE UNCHANGED vars
  BY <1>7 DEF vars
<1>. QED
  BY <1>1, <1>2, <1>3, <1>4, <1>5, <1>6, <1>7 DEF Next, Advance, Audit!Next

\* The group of workers implements the audit trail's promise.
THEOREM Refinement == Spec => ImplementsAuditTrail
<1>1. Init => Audit!Init
  BY DEF Init, Audit!Init
<1>. QED
  BY <1>1, RefinementStep, InductiveInvariant, PTL DEF Spec, ImplementsAuditTrail, Audit!Spec

-------------------------------------------------------------------------------
(* Without failures, committed means decided.                              *)

\* No batch is ever abandoned when no call fails and no message is poison.
NothingRaises == MaxFailures = 0 /\ Poison = {}

NothingAbandoned ==
  /\ failures = 0
  /\ abandoned = {}
  /\ \A w \in Workers : connected[w]

LEMMA NothingAbandonedStep ==
  ASSUME NothingRaises, TypeOK, NothingAbandoned, [Next]_vars
  PROVE  NothingAbandoned'
<1>1. ASSUME NEW w \in Workers,
             JudgeRaises(w) \/ QueryRaises(w) \/ CallRaises(w) \/ PublishRaises(w)
      PROVE  FALSE
  BY <1>1 DEF JudgeRaises, QueryRaises, CallRaises, PublishRaises, NothingRaises,
              NothingAbandoned
<1>2. ASSUME NEW w \in Workers,
             \/ Fetch(w) \/ PollError(w) \/ Judge(w) \/ Check(w) \/ Record(w)
             \/ EnqueueReviews(w) \/ BumpRisks(w) \/ Publish(w) \/ Commit(w) \/ Deliver(w)
      PROVE  UNCHANGED <<failures, abandoned, connected>>
  BY <1>2 DEF Fetch, PollError, Judge, Check, Record, EnqueueReviews, BumpRisks, Publish,
              Commit, Deliver
<1>3. ASSUME NEW w \in Workers, Crash(w) \/ Shutdown(w)
      PROVE  UNCHANGED <<failures, abandoned, connected>>
  BY <1>3 DEF Crash, Shutdown, LeaveGroup
<1>4. ASSUME NEW p \in Partitions, Revoke(p) \/ \E w \in Workers : Assign(p, w)
      PROVE  UNCHANGED <<failures, abandoned, connected>>
  BY <1>4 DEF Revoke, Assign
<1>5. ASSUME NEW w \in Workers, Restart(w)
      PROVE  /\ UNCHANGED <<failures, abandoned>>
             /\ \A v \in Workers : connected[v] => connected'[v]
  BY <1>5 DEF Restart, TypeOK
<1>6. CASE UNCHANGED vars
  BY <1>6 DEF vars, NothingAbandoned
<1>. QED
  BY <1>1, <1>2, <1>3, <1>4, <1>5, <1>6 DEF Next, Advance, NothingAbandoned

\* When nothing raises, every committed message has a decision, whatever crashes and
\* whatever partitions change hands: the promise of the documentation, and the exact
\* condition under which it holds.
THEOREM CommittedMeansDecided ==
  ASSUME NothingRaises
  PROVE  Spec => []CommittedIsDecided
<1>1. Init => NothingAbandoned
  BY DEF Init, NothingAbandoned
<1>2. Inductive /\ NothingAbandoned /\ [Next]_vars => NothingAbandoned'
  BY NothingRaises, NothingAbandonedStep DEF Inductive
<1>3. Inductive /\ NothingAbandoned => CommittedIsDecided
  BY DEF Inductive, NoSilentLoss, NothingAbandoned, Answered, CommittedIsDecided
<1>. QED
  BY <1>1, <1>2, <1>3, InductiveInvariant, PTL DEF Spec
===============================================================================
