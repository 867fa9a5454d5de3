--------------------------- MODULE ExactlyOnceProofs ---------------------------
(***************************************************************************)
(* What existing_msg_ids is for: as long as no partition is taken from a   *)
(* live worker, events, review items and violation counts are made once    *)
(* for each message, however many workers there are and however often they *)
(* are killed and restarted.  And what follows for the load test, which    *)
(* only counts events.                                                     *)
(*                                                                         *)
(* The argument: a worker holds messages of its own partitions only, so no *)
(* message is in two hands; what it finds missing from the record is still *)
(* missing when it writes it; and so its verdict is the one on record, and *)
(* nobody has announced it before.                                         *)
(***************************************************************************)
EXTENDS Bench, DeliveryProofs

USE DEF kafkaVars, mysqlVars, batchVars, eventVars, boundVars

\* Producers give every message an id of its own and write it once.
EachSentOnce ==
  \A d, e \in Positions : At(d) \in Messages /\ At(d) = At(e) => d = e

\* The messages on record whose violations are still to be counted.
Pending(w) == IF pc[w] \in {"review", "risk"} THEN MessagesOf(fresh[w]) ELSE {}
Waiting == UNION {Pending(w) : w \in Workers}
Counted(u) == Violations(u) \ Waiting

OnlyLogged == \A m \in Messages : OnRecord(m) => m \in LoggedMessages

OwnHands == \A w \in Workers : \A e \in batch[w] : owner[e[1]] = w

\* What Check found missing is written by this worker, and announced by nobody before it.
FirstHandlingOf(w) ==
  \A e \in fresh[w] :
    /\ pc[w] = "record" => ~OnRecord(At(e))
    /\ pc[w] \in {"review", "risk", "publish"} =>
         /\ decisions[At(e)] = verdict[w][At(e)]
         /\ \A a \in Announced : At(a.at) # At(e)

FirstHandling == \A w \in Workers : FirstHandlingOf(w)

CountsBounded == \A u \in Users : violations[u] <= Cardinality(Counted(u))
CountsExact == \A u \in Users : violations[u] = Cardinality(Counted(u))

\* The inductive invariant, on top of the one of DeliveryProofs.
ExactlyOnce ==
  /\ OnlyLogged
  /\ EventsMatchRecord
  /\ ReviewsMatchRecord
  /\ OneHand => OwnHands /\ FirstHandling /\ CountsBounded
  /\ OneHand /\ crashes = 0 /\ MaxFailures = 0 => CountsExact

-------------------------------------------------------------------------------
(* Hands.                                                                  *)

\* Revocations and crashes are counted and never forgotten.
LEMMA NeverForgotten ==
  ASSUME TypeOK, [Next]_vars
  PROVE  /\ OneHand' => OneHand /\ \A p \in Partitions : ~Revoke(p)
         /\ crashes' = 0 => crashes = 0 /\ \A w \in Workers : ~Crash(w)
<1>1. ASSUME NEW p \in Partitions, Revoke(p) PROVE ~OneHand' /\ crashes' = crashes
  BY <1>1 DEF Revoke, OneHand, TypeOK
<1>2. ASSUME NEW w \in Workers, Crash(w) PROVE crashes' # 0 /\ revocations' = revocations
  BY <1>2 DEF Crash, LeaveGroup, TypeOK
<1>3. ASSUME NEW w \in Workers, Next!1!(w), ~Crash(w)
      PROVE  UNCHANGED <<crashes, revocations>>
  BY <1>3 DEF Advance, Fetch, PollError, Judge, Check, Record, EnqueueReviews, BumpRisks,
              Publish, Commit, JudgeRaises, QueryRaises, CallRaises, PublishRaises, Deliver,
              Shutdown, LeaveGroup, Restart
<1>4. ASSUME NEW p \in Partitions, NEW w \in Workers, Assign(p, w)
      PROVE  UNCHANGED <<crashes, revocations>>
  BY <1>4 DEF Assign
<1>5. \/ \E w \in Workers : Next!1!(w)
      \/ \E p \in Partitions : Revoke(p) \/ \E w \in Workers : Assign(p, w)
      \/ UNCHANGED vars
  BY DEF Next
<1>6. (\E w \in Workers : Crash(w)) => crashes' # 0 /\ revocations' = revocations
  BY <1>2
<1>7. (\E p \in Partitions : Revoke(p)) => ~OneHand' /\ crashes' = crashes
  BY <1>1
<1>8. \/ \E w \in Workers : Crash(w)
      \/ \E p \in Partitions : Revoke(p)
      \/ UNCHANGED <<crashes, revocations>>
  BY <1>3, <1>4, <1>5 DEF vars
<1>. QED
  BY <1>6, <1>7, <1>8 DEF OneHand

LEMMA OwnHandsStep ==
  ASSUME Inductive, OwnHands, [Next]_vars, \A p \in Partitions : ~Revoke(p)
  PROVE  OwnHands'
<1>. USE DEF Goto
<1>0. TypeOK
  BY DEF Inductive
<1>1. ASSUME UNCHANGED owner, \A v \in Workers : batch'[v] \subseteq batch[v]
      PROVE  OwnHands'
  BY <1>1 DEF OwnHands
<1>2. ASSUME NEW w \in Workers, Fetch(w) PROVE OwnHands'
  <2>1. PICK upTo \in [Partitions -> 0..BatchSize] : Fetch(w)!2!(upTo)
    BY <1>2 DEF Fetch
  <2>. DEFINE taken == UNION {{p} \X ((position[p] + 1)..(position[p] + upTo[p])) :
                              p \in Partitions}
              readable == {e \in taken : At(e) \in Messages}
  <2>2. batch'[w] = readable /\ \A v \in Workers \ {w} : batch'[v] = batch[v]
    BY <1>0, <2>1 DEF TypeOK
  <2>3. ASSUME NEW p \in Partitions,
               NEW i \in (position[p] + 1)..(position[p] + upTo[p])
        PROVE  owner[p] = w
    <3>1. position[p] \in Nat /\ (upTo[p] # 0 => owner[p] = w)
      BY <1>0, <2>1 DEF TypeOK
    <3>2. upTo[p] # 0
      BY <3>1
    <3>. QED
      BY <3>1, <3>2
  <2>4. \A e \in taken : owner[e[1]] = w
    BY <2>3
  <2>5. owner' = owner
    BY <1>2 DEF Fetch
  <2>. QED
    BY <2>2, <2>4, <2>5 DEF OwnHands
<1>3. ASSUME NEW w \in Workers,
             \/ PollError(w) \/ Judge(w) \/ Check(w) \/ Record(w) \/ EnqueueReviews(w)
             \/ BumpRisks(w) \/ Publish(w) \/ Deliver(w) \/ Restart(w)
      PROVE  OwnHands'
  BY <1>1, <1>3 DEF PollError, Judge, Check, Record, EnqueueReviews, BumpRisks, Publish,
                    Deliver, Restart
<1>4. ASSUME NEW w \in Workers,
             \/ Commit(w) \/ JudgeRaises(w) \/ QueryRaises(w) \/ CallRaises(w)
             \/ PublishRaises(w)
      PROVE  OwnHands'
  <2>1. UNCHANGED owner /\ batch' = [batch EXCEPT ![w] = {}]
    BY <1>4 DEF Commit, JudgeRaises, QueryRaises, CallRaises, PublishRaises, Abandon,
                DropBatch
  <2>. QED
    BY <1>0, <1>1, <2>1 DEF TypeOK
<1>5. ASSUME NEW w \in Workers, Crash(w) \/ Shutdown(w) PROVE OwnHands'
  <2>1. batch'[w] = {} /\ \A v \in Workers \ {w} : batch'[v] = batch[v]
    BY <1>0, <1>5 DEF Crash, Shutdown, DropBatch, TypeOK, Inductive, BatchProgress,
                      BatchProgressOf
  <2>2. \A p \in Partitions : owner[p] # w => owner'[p] = owner[p]
    BY <1>5 DEF Crash, Shutdown, LeaveGroup
  <2>. QED
    BY <1>0, <2>1, <2>2, LogTypes DEF OwnHands, TypeOK
<1>6. ASSUME NEW p \in Partitions, NEW w \in Workers, Assign(p, w) PROVE OwnHands'
  <2>1. owner[p] \notin Workers /\ batch' = batch
    BY <1>6, ConstantsAssumption DEF Assign
  <2>2. \A q \in Partitions \ {p} : owner'[q] = owner[q]
    BY <1>0, <1>6 DEF Assign, TypeOK
  <2>. QED
    BY <1>0, <2>1, <2>2, LogTypes DEF OwnHands, TypeOK
<1>7. CASE UNCHANGED vars
  BY <1>1, <1>7 DEF vars
<1>. QED
  BY <1>2, <1>3, <1>4, <1>5, <1>6, <1>7 DEF Next, Advance

\* No message is in two hands, and none is twice in one.
LEMMA OneHandPerMessage ==
  ASSUME EachSentOnce, TypeOK, BatchProgress, OwnHands, NEW v \in Workers,
         NEW w \in Workers, NEW d \in batch[v], NEW e \in batch[w], At(d) = At(e)
  PROVE  d = e /\ v = w
<1>1. d \in Positions /\ e \in Positions /\ At(d) \in Messages
  BY DEF TypeOK, BatchProgress, BatchProgressOf
<1>2. d = e
  BY <1>1 DEF EachSentOnce
<1>. QED
  BY <1>2 DEF OwnHands

\* An announcement is of one position, of which topic and worker then leave no choice.
LEMMA AnnouncementsDiffer ==
  ASSUME NEW w, NEW E, NEW a \in Announcements(w, E), NEW b \in Announcements(w, E)
  PROVE  /\ a.at \in E /\ a.action = verdict[w][At(a.at)]
         /\ a.at = b.at /\ a.topic = b.topic => a = b
BY DEF Announcements, DecisionEvent, ReviewEvent, Escalated

LEMMA FirstHandlingStep ==
  ASSUME EachSentOnce, Inductive, OwnHands, FirstHandling, [Next]_vars
  PROVE  FirstHandling'
<1>. USE DEF Goto
<1>0. TypeOK /\ BatchProgress
  BY DEF Inductive
<1>. SUFFICES ASSUME NEW v \in Workers PROVE FirstHandlingOf(v)'
  BY DEF FirstHandling
<1>1. FirstHandlingOf(v)
  BY DEF FirstHandling
<1>2. \A e \in fresh[v] : /\ e \in batch[v] /\ At(e) \in Messages
                          /\ pc[v] \in {"review", "risk", "publish"} => OnRecord(At(e))
  BY <1>0 DEF BatchProgress, BatchProgressOf
\* Whatever another worker records or announces is not in v's hands.
<1>3. ASSUME NEW e \in fresh[v], NEW w \in Workers, w # v
      PROVE  At(e) \notin MessagesOf(fresh[w])
  <2>1. SUFFICES ASSUME NEW d \in fresh[w], At(d) = At(e) PROVE FALSE
    BY DEF MessagesOf
  <2>2. d \in batch[w] /\ e \in batch[v]
    BY <1>0 DEF BatchProgress, BatchProgressOf
  <2>. QED
    BY <1>0, <1>3, <2>1, <2>2, OneHandPerMessage
<1>4. ASSUME pc'[v] = pc[v], fresh'[v] = fresh[v], verdict'[v] = verdict[v]
      PROVE  FirstHandlingOf(v)'
  <2>. SUFFICES ASSUME NEW e \in fresh[v]
                PROVE  /\ pc[v] = "record" => decisions'[At(e)] = decisions[At(e)]
                       /\ pc[v] \in {"review", "risk", "publish"} =>
                            /\ decisions'[At(e)] = decisions[At(e)]
                            /\ \A a \in Announced' : At(a.at) # At(e)
    BY <1>1, <1>4 DEF FirstHandlingOf, OnRecord, At
  <2>1. ASSUME pc[v] = "record" PROVE decisions'[At(e)] = decisions[At(e)]
    <3>1. CASE decisions' = decisions
      BY <3>1
    <3>2. CASE \E w \in Workers : /\ pc[w] = "record" /\ pc' = [pc EXCEPT ![w] = "review"]
                                  /\ decisions' = InsertIgnore(w)
      <4>1. PICK w \in Workers : /\ pc[w] = "record" /\ pc' = [pc EXCEPT ![w] = "review"]
                                 /\ decisions' = InsertIgnore(w)
        BY <3>2
      <4>2. w # v
        BY <1>0, <1>4, <2>1, <4>1 DEF TypeOK
      <4>. QED
        BY <1>2, <1>3, <4>1, <4>2 DEF InsertIgnore
    <3>. QED
      BY <3>1, <3>2, WhoWrites
  <2>2. ASSUME pc[v] \in {"review", "risk", "publish"}
        PROVE  decisions'[At(e)] = decisions[At(e)]
    BY <1>0, <1>2, <2>2, RecordKept
  <2>3. ASSUME pc[v] \in {"review", "risk", "publish"}, NEW a \in Announced'
        PROVE  At(a.at) # At(e)
    <3>1. CASE a \in Announced
      BY <1>1, <2>3, <3>1 DEF FirstHandlingOf
    <3>2. CASE a \notin Announced
      <4>1. PICK w \in Workers : /\ pc[w] = "publish" /\ pc'[w] # "publish"
                                 /\ a \in Announcements(w, fresh[w])
        BY <1>0, <2>3, <3>2, NewAnnouncements
      <4>2. w # v /\ a.at \in fresh[w]
        BY <1>4, <4>1, AnnouncementsDiffer
      <4>. QED
        BY <1>3, <4>2 DEF MessagesOf
    <3>. QED
      BY <3>1, <3>2
  <2>. QED
    BY <2>1, <2>2, <2>3
<1>5. CASE Check(v)
  <2>1. /\ pc'[v] \in {"record", "commit"} /\ decisions' = decisions
        /\ fresh'[v] = {e \in batch[v] : ~OnRecord(At(e))}
    BY <1>0, <1>5 DEF Check, TypeOK
  <2>. QED
    BY <2>1 DEF FirstHandlingOf, OnRecord, At
<1>6. CASE Record(v)
  <2>1. /\ pc[v] = "record" /\ pc'[v] = "review" /\ UNCHANGED <<fresh, verdict, outbox, delivered>>
        /\ decisions' = InsertIgnore(v)
    BY <1>0, <1>6 DEF Record, TypeOK
  <2>2. ASSUME NEW e \in fresh[v] PROVE decisions'[At(e)] = verdict[v][At(e)]
    BY <1>1, <1>2, <2>1, <2>2 DEF FirstHandlingOf, InsertIgnore, MessagesOf
  <2>3. ASSUME NEW e \in fresh[v], NEW a \in Announced' PROVE At(a.at) # At(e)
    <3>1. ~OnRecord(At(e)) /\ a \in Announced
      BY <1>1, <2>1 DEF FirstHandlingOf, Announced
    <3>. QED
      BY <3>1 DEF Inductive, RecordComesFirst
  <2>. QED
    BY <2>1, <2>2, <2>3 DEF FirstHandlingOf, At
<1>7. CASE EnqueueReviews(v) \/ BumpRisks(v)
  <2>1. /\ pc[v] \in {"review", "risk"} /\ pc'[v] \in {"risk", "publish"}
        /\ UNCHANGED <<decisions, fresh, verdict, outbox, delivered>>
    BY <1>0, <1>7 DEF EnqueueReviews, BumpRisks, TypeOK
  <2>2. Announced' = Announced
    BY <2>1 DEF Announced
  <2>. QED
    BY <1>1, <2>1, <2>2 DEF FirstHandlingOf, At
<1>8. ASSUME pc'[v] \notin {"record", "review", "risk", "publish"} PROVE FirstHandlingOf(v)'
  BY <1>8 DEF FirstHandlingOf
<1>9. CASE \/ Fetch(v) \/ PollError(v) \/ Judge(v) \/ Publish(v) \/ Commit(v)
           \/ JudgeRaises(v) \/ QueryRaises(v) \/ CallRaises(v) \/ PublishRaises(v)
           \/ Crash(v) \/ Shutdown(v) \/ Restart(v)
  <2>1. CASE Fetch(v)
    BY <1>0, <1>8, <2>1 DEF Fetch, AfterReading, TypeOK
  <2>2. CASE PollError(v) \/ Judge(v) \/ Publish(v) \/ Commit(v) \/ Restart(v)
    BY <1>0, <1>8, <2>2 DEF PollError, Judge, Publish, Commit, Restart, TypeOK
  <2>3. CASE \/ JudgeRaises(v) \/ QueryRaises(v) \/ CallRaises(v) \/ PublishRaises(v)
             \/ Crash(v) \/ Shutdown(v)
    BY <1>0, <1>8, <2>3 DEF JudgeRaises, QueryRaises, CallRaises, PublishRaises, Abandon,
                            Crash, Shutdown, LeaveGroup, TypeOK
  <2>. QED
    BY <1>9, <2>1, <2>2, <2>3
<1>10. CASE Deliver(v)
  BY <1>4, <1>10 DEF Deliver
<1>11. ASSUME NEW w \in Workers, w # v, Next!1!(w) PROVE FirstHandlingOf(v)'
  BY <1>0, <1>4, <1>11, OthersUntouched
<1>12. ASSUME NEW p \in Partitions, Revoke(p) \/ \E w \in Workers : Assign(p, w)
       PROVE  FirstHandlingOf(v)'
  BY <1>4, <1>12 DEF Revoke, Assign
<1>13. CASE UNCHANGED vars
  BY <1>4, <1>13 DEF vars
<1>. QED
  BY <1>5, <1>6, <1>7, <1>9, <1>10, <1>11, <1>12, <1>13 DEF Next, Advance

-------------------------------------------------------------------------------
(* Events and review items.                                                *)

LEMMA EventsStep ==
  ASSUME EachSentOnce, Inductive, FirstHandling, EventsMatchRecord, OneHand, [Next]_vars
  PROVE  EventsMatchRecord'
<1>0. TypeOK /\ BatchProgress
  BY DEF Inductive
<1>1. ASSUME NEW a \in Announced
      PROVE  /\ At(a.at) \in Messages
             /\ a.action = decisions'[At(a.at)]
  <2>1. At(a.at) \in Messages /\ OnRecord(At(a.at))
    BY DEF Inductive, RecordComesFirst
  <2>2. a.action = decisions[At(a.at)]
    BY DEF EventsMatchRecord
  <2>. QED
    BY <1>0, <2>1, <2>2, RecordKept
<1>2. CASE Announced' \subseteq Announced
  BY <1>1, <1>2 DEF EventsMatchRecord, At
<1>3. ASSUME NEW w \in Workers, pc[w] = "publish", decisions' = decisions,
             Announced' \subseteq Announced \cup Announcements(w, fresh[w])
      PROVE  EventsMatchRecord'
  <2>1. ASSUME NEW a \in Announcements(w, fresh[w])
        PROVE  /\ a.at \in Positions /\ At(a.at) \in Messages
               /\ a.action = decisions[At(a.at)]
               /\ \A b \in Announced : At(b.at) # At(a.at)
    <3>1. a.at \in fresh[w] /\ a.action = verdict[w][At(a.at)]
      BY AnnouncementsDiffer
    <3>2. a.at \in Positions /\ At(a.at) \in Messages
      BY <1>0, <3>1 DEF TypeOK, BatchProgress, BatchProgressOf
    <3>. QED
      BY <1>3, <3>1, <3>2 DEF FirstHandling, FirstHandlingOf
  <2>2. ASSUME NEW a \in Announcements(w, fresh[w]), NEW b \in Announcements(w, fresh[w]),
               At(a.at) = At(b.at), a.topic = b.topic
        PROVE  a = b
    <3>1. a.at = b.at
      BY <2>1, <2>2 DEF EachSentOnce
    <3>. QED
      BY <2>2, <3>1, AnnouncementsDiffer
  <2>3. \A a, b \in Announced : At(a.at) = At(b.at) /\ a.topic = b.topic => a = b
    BY DEF EventsMatchRecord
  <2>4. \A a, b \in Announced' : At(a.at) = At(b.at) /\ a.topic = b.topic => a = b
    <3>. SUFFICES ASSUME NEW a \in Announced', NEW b \in Announced',
                         At(a.at) = At(b.at), a.topic = b.topic
                  PROVE  a = b
      OBVIOUS
    <3>1. CASE a \in Announced /\ b \in Announced
      BY <2>3, <3>1
    <3>2. CASE a \in Announcements(w, fresh[w]) /\ b \in Announcements(w, fresh[w])
      BY <2>2, <3>2
    <3>. QED
      BY <1>3, <2>1, <3>1, <3>2
  <2>5. \A a \in Announced' : a.action = decisions'[At(a.at)]
    BY <1>1, <1>3, <2>1
  <2>. QED
    BY <2>4, <2>5 DEF EventsMatchRecord, At
<1>. QED
  BY <1>0, <1>2, <1>3, NewAnnouncements

LEMMA ReviewsStep ==
  ASSUME Inductive, FirstHandling, ReviewsMatchRecord, OneHand, [Next]_vars
  PROVE  ReviewsMatchRecord'
<1>0. TypeOK /\ BatchProgress
  BY DEF Inductive
<1>. SUFFICES ASSUME NEW m \in reviewItems' PROVE decisions'[m] = "escalate"
  BY DEF ReviewsMatchRecord
<1>1. m \in Messages /\ OnRecord(m) /\ decisions[m] = "escalate"
  <2>1. CASE m \in reviewItems
    BY <1>0, <2>1 DEF Inductive, RecordComesFirst, ReviewsMatchRecord, TypeOK
  <2>2. CASE m \notin reviewItems
    <3>1. PICK w \in Workers : pc[w] = "review" /\ m \in MessagesOf(Escalated(w, fresh[w]))
      BY <2>2, NewReviews
    <3>2. PICK e \in fresh[w] : m = At(e) /\ verdict[w][At(e)] = "escalate"
      BY <3>1 DEF MessagesOf, Escalated
    <3>3. decisions[m] = "escalate"
      BY <3>1, <3>2 DEF FirstHandling, FirstHandlingOf
    <3>4. m \in Messages
      BY <1>0, <3>2 DEF BatchProgress, BatchProgressOf
    <3>. QED
      BY <3>3, <3>4 DEF OnRecord, Undecided
  <2>. QED
    BY <2>1, <2>2
<1>. QED
  BY <1>0, <1>1, RecordKept

LEMMA OnlyLoggedStep ==
  ASSUME Inductive, OnlyLogged, [Next]_vars
  PROVE  OnlyLogged'
<1>0. TypeOK /\ BatchProgress
  BY DEF Inductive
<1>1. CASE decisions' = decisions
  BY <1>1 DEF OnlyLogged, OnRecord, LoggedMessages, MessagesOf, At
<1>2. ASSUME NEW w \in Workers, decisions' = InsertIgnore(w) PROVE OnlyLogged'
  <2>1. \A e \in fresh[w] : e \in Positions /\ At(e) \in Messages
    BY <1>0 DEF TypeOK, BatchProgress, BatchProgressOf
  <2>2. MessagesOf(fresh[w]) \subseteq LoggedMessages
    BY <2>1 DEF MessagesOf, LoggedMessages
  <2>3. \A m \in Messages : decisions'[m] # Undecided => OnRecord(m) \/ m \in MessagesOf(fresh[w])
    BY <1>2 DEF InsertIgnore, OnRecord
  <2>. QED
    BY <2>2, <2>3 DEF OnlyLogged, OnRecord, LoggedMessages, MessagesOf, At
<1>. QED
  BY <1>1, <1>2, WhoWrites

-------------------------------------------------------------------------------
(* Violation counts.                                                       *)

LEMMA LoggedFinite == IsFiniteSet(LoggedMessages)
<1>. DEFINE at == [e \in Positions |-> At(e)]
<1>1. at \in Surjection(Positions, MessagesOf(Positions))
  BY DEF MessagesOf, Surjection
<1>2. IsFiniteSet(MessagesOf(Positions))
  BY <1>1, PositionsFinite, FS_Surjection
<1>3. LoggedMessages \subseteq MessagesOf(Positions)
  BY DEF LoggedMessages
<1>. QED
  BY <1>2, <1>3, FS_Subset

LEMMA ViolationsFinite ==
  ASSUME OnlyLogged, NEW u \in Users
  PROVE  /\ IsFiniteSet(Violations(u)) /\ IsFiniteSet(Counted(u))
         /\ Cardinality(Counted(u)) \in Nat
<1>1. Violations(u) \subseteq LoggedMessages
  BY DEF Violations, IsViolation, OnlyLogged, OnRecord, Undecided
<1>2. Counted(u) \subseteq LoggedMessages
  BY <1>1 DEF Counted
<1>. QED
  BY <1>1, <1>2, LoggedFinite, FS_Subset, FS_CardinalityType

\* What a worker's step does to the messages that wait to be counted.
LEMMA PendingStep ==
  ASSUME TypeOK, BatchProgress, NEW w \in Workers, Next!1!(w)
  PROVE  /\ \A v \in Workers \ {w} : Pending(v)' = Pending(v)
         /\ ~Record(w) => Pending(w)' \subseteq Pending(w)
         /\ ~(Record(w) \/ BumpRisks(w) \/ Crash(w) \/ CallRaises(w)) =>
              Pending(w)' = Pending(w)
         /\ ~(Record(w) \/ BumpRisks(w)) => UNCHANGED <<decisions, violations>>
<1>. USE DEF Goto
<1>1. ASSUME NEW v \in Workers \ {w} PROVE Pending(v)' = Pending(v)
  BY <1>1, OthersUntouched DEF Pending, MessagesOf, At
<1>2. ASSUME pc[w] \notin {"review", "risk"}, pc'[w] \notin {"review", "risk"}
      PROVE  Pending(w)' = Pending(w)
  BY <1>2 DEF Pending
<1>3. CASE Fetch(w)
  BY <1>1, <1>2, <1>3 DEF Fetch, AfterReading, TypeOK
<1>4. CASE PollError(w) \/ Judge(w) \/ Publish(w) \/ Commit(w) \/ Restart(w)
  BY <1>1, <1>2, <1>4 DEF PollError, Judge, Publish, Commit, Restart, TypeOK
<1>5. CASE JudgeRaises(w) \/ QueryRaises(w) \/ PublishRaises(w) \/ Check(w)
  BY <1>1, <1>2, <1>5 DEF JudgeRaises, QueryRaises, PublishRaises, Abandon, Check, TypeOK
<1>6. CASE Shutdown(w)
  BY <1>1, <1>2, <1>6 DEF Shutdown, LeaveGroup, TypeOK
<1>7. CASE EnqueueReviews(w) \/ Deliver(w)
  <2>1. /\ UNCHANGED <<decisions, violations, fresh>>
        /\ pc'[w] \in {"review", "risk"} <=> pc[w] \in {"review", "risk"}
    BY <1>7 DEF EnqueueReviews, Deliver, TypeOK
  <2>2. Pending(w)' = Pending(w)
    BY <2>1 DEF Pending, MessagesOf, At
  <2>. QED
    BY <1>1, <2>1, <2>2
<1>8. CASE CallRaises(w) \/ Crash(w)
  <2>1. UNCHANGED <<decisions, violations>> /\ pc'[w] \in {"idle", "down"}
    BY <1>8 DEF CallRaises, Abandon, Crash, LeaveGroup, TypeOK
  <2>2. Pending(w)' = {}
    BY <2>1 DEF Pending
  <2>. QED
    BY <1>1, <1>8, <2>1, <2>2
<1>9. CASE Record(w) \/ BumpRisks(w)
  <2>1. BumpRisks(w) => pc'[w] = "publish" /\ pc[w] = "risk"
    BY DEF BumpRisks, TypeOK
  <2>2. Record(w) => pc[w] = "record"
    BY DEF Record
  <2>3. BumpRisks(w) => Pending(w)' = {}
    BY <2>1 DEF Pending
  <2>4. BumpRisks(w) => ~Record(w)
    BY <2>1, <2>2
  <2>. QED
    BY <1>1, <1>9, <2>3, <2>4
<1>. QED
  BY <1>3, <1>4, <1>5, <1>6, <1>7, <1>8, <1>9 DEF Advance

\* Recording a verdict makes it wait for its count.
LEMMA RecordCounts ==
  ASSUME EachSentOnce, Inductive, FirstHandling, NEW w \in Workers, Record(w),
         NEW u \in Users
  PROVE  violations' = violations /\ Counted(u)' = Counted(u)
<1>0. TypeOK /\ BatchProgress
  BY DEF Inductive
<1>. DEFINE mine == MessagesOf(fresh[w])
<1>1. /\ pc[w] = "record" /\ pc'[w] = "review" /\ fresh' = fresh
      /\ decisions' = InsertIgnore(w) /\ violations' = violations
      /\ \A v \in Workers \ {w} : pc'[v] = pc[v]
  BY <1>0 DEF Record, Goto, TypeOK
<1>2. Pending(w) = {} /\ Pending(w)' = mine
  BY <1>1 DEF Pending, MessagesOf, At
<1>3. \A v \in Workers \ {w} : Pending(v)' = Pending(v)
  BY <1>1 DEF Pending, MessagesOf, At
<1>4. Waiting' = Waiting \cup mine
  <2>. HIDE DEF mine
  <2>. QED
    BY <1>2, <1>3 DEF Waiting
<1>5. \A m \in mine : m \in Messages /\ ~OnRecord(m)
  BY <1>0, <1>1 DEF MessagesOf, FirstHandling, FirstHandlingOf, BatchProgress, BatchProgressOf
<1>6. \A m \in Messages \ mine : decisions'[m] = decisions[m]
  BY <1>1 DEF InsertIgnore
<1>7. \A m \in mine : ~IsViolation(decisions[m])
  BY <1>5 DEF IsViolation, OnRecord, Undecided
<1>8. \A m \in Messages : m \in Counted(u)' <=> m \in Counted(u)
  <2>. HIDE DEF mine
  <2>1. \A m \in Messages \ mine : m \in Counted(u)' <=> m \in Counted(u)
    BY <1>4, <1>6 DEF Counted, Violations, IsViolation
  <2>2. \A m \in mine : m \notin Counted(u)' /\ m \notin Counted(u)
    BY <1>4, <1>7 DEF Counted, Violations
  <2>. QED
    BY <2>1, <2>2
<1>9. Counted(u) \subseteq Messages /\ Counted(u)' \subseteq Messages
  BY DEF Counted, Violations
<1>. QED
  BY <1>1, <1>8, <1>9

\* Counting adds what was waiting in the worker's hands, each message once.
LEMMA BumpCounts ==
  ASSUME EachSentOnce, Inductive, OnlyLogged, OwnHands, FirstHandling, NEW w \in Workers,
         BumpRisks(w), NEW u \in Users
  PROVE  \E n \in Nat : /\ violations'[u] = violations[u] + n
                        /\ Cardinality(Counted(u)') = Cardinality(Counted(u)) + n
<1>0. TypeOK /\ BatchProgress
  BY DEF Inductive
<1>. DEFINE guilty == {e \in fresh[w] : /\ IsViolation(verdict[w][At(e)])
                                        /\ Author[At(e)] = u}
            named == MessagesOf(guilty)
            at == [e \in guilty |-> At(e)]
<1>1. /\ pc[w] = "risk" /\ pc'[w] = "publish" /\ UNCHANGED <<fresh, decisions>>
      /\ violations'[u] = violations[u] + Cardinality(guilty)
      /\ \A v \in Workers \ {w} : pc'[v] = pc[v]
  BY <1>0 DEF BumpRisks, Goto, TypeOK
<1>2. \A e \in fresh[w] : /\ e \in Positions /\ At(e) \in Messages
                          /\ decisions[At(e)] = verdict[w][At(e)]
  BY <1>0, <1>1 DEF TypeOK, BatchProgress, BatchProgressOf, FirstHandling, FirstHandlingOf
<1>3. Cardinality(named) = Cardinality(guilty) /\ Cardinality(guilty) \in Nat
      /\ IsFiniteSet(named)
  <2>1. at \in Surjection(guilty, named)
    BY DEF MessagesOf, Surjection
  <2>2. at \in Injection(guilty, named)
    BY <1>2 DEF EachSentOnce, MessagesOf, Injection, IsInjective
  <2>3. IsFiniteSet(guilty)
    BY <1>2, PositionsFinite, FS_Subset
  <2>. HIDE DEF at, guilty, named
  <2>4. IsFiniteSet(named) /\ Cardinality(named) = Cardinality(guilty)
    BY <2>1, <2>2, <2>3, FS_Surjection
  <2>. QED
    BY <2>3, <2>4, FS_CardinalityType
<1>4. ASSUME NEW v \in Workers \ {w} PROVE Pending(v) \cap MessagesOf(fresh[w]) = {}
  <2>. SUFFICES ASSUME NEW d \in fresh[v], NEW e \in fresh[w], At(d) = At(e) PROVE FALSE
    BY DEF Pending, MessagesOf
  <2>1. d \in batch[v] /\ e \in batch[w]
    BY <1>0 DEF BatchProgress, BatchProgressOf
  <2>. QED
    BY <1>0, <1>4, <2>1, OneHandPerMessage
<1>5. Pending(w) = MessagesOf(fresh[w]) /\ Pending(w)' = {}
  BY <1>1 DEF Pending
<1>6. \A v \in Workers \ {w} : Pending(v)' = Pending(v)
  BY <1>1 DEF Pending, MessagesOf, At
<1>7. Waiting' = Waiting \ MessagesOf(fresh[w]) /\ MessagesOf(fresh[w]) \subseteq Waiting
  BY <1>4, <1>5, <1>6 DEF Waiting
<1>8. Violations(u) \cap MessagesOf(fresh[w]) = named
  BY <1>2 DEF Violations, MessagesOf
<1>9. Violations(u)' = Violations(u)
  BY <1>1 DEF Violations, IsViolation
<1>10. Counted(u)' = Counted(u) \cup named /\ Counted(u) \cap named = {}
  <2>. HIDE DEF named
  <2>1. Counted(u)' = Violations(u) \ (Waiting \ MessagesOf(fresh[w]))
    BY <1>7, <1>9 DEF Counted
  <2>. QED
    BY <1>7, <1>8, <2>1 DEF Counted
<1>11. Cardinality(Counted(u)') = Cardinality(Counted(u)) + Cardinality(named)
  <2>. HIDE DEF named
  <2>1. IsFiniteSet(Counted(u)) /\ Cardinality(Counted(u)) \in Nat
    BY ViolationsFinite
  <2>2. Cardinality(Counted(u) \cup named)
          = Cardinality(Counted(u)) + Cardinality(named) - Cardinality(Counted(u) \cap named)
    BY <1>3, <2>1, FS_Union
  <2>3. Cardinality(Counted(u) \cap named) = 0
    BY <1>10, FS_EmptySet
  <2>4. Cardinality(named) \in Nat
    BY <1>3
  <2>5. Cardinality(Counted(u) \cup named) = Cardinality(Counted(u)) + Cardinality(named)
    BY <2>1, <2>2, <2>3, <2>4
  <2>. QED
    BY <1>10, <2>5
<1>. HIDE DEF guilty, named
<1>. QED
  BY <1>1, <1>3, <1>11

\* Otherwise nothing is counted, and what waits goes on waiting unless its worker fails.
LEMMA CountsStep ==
  ASSUME EachSentOnce, Inductive, OnlyLogged, OnlyLogged', OwnHands, FirstHandling,
         [Next]_vars
  PROVE  /\ CountsBounded => CountsBounded'
         /\ CountsExact /\ MaxFailures = 0 /\ (\A w \in Workers : ~Crash(w)) => CountsExact'
<1>0. TypeOK /\ BatchProgress
  BY DEF Inductive
<1>1. \A u \in Users : /\ violations[u] \in Nat
                       /\ IsFiniteSet(Counted(u)) /\ Cardinality(Counted(u)) \in Nat
                       /\ IsFiniteSet(Counted(u)') /\ Cardinality(Counted(u)') \in Nat
  <2>1. ASSUME NEW u \in Users
        PROVE  IsFiniteSet(Counted(u)') /\ Cardinality(Counted(u)') \in Nat
    <3>1. Counted(u)' \subseteq LoggedMessages
      BY DEF Counted, Violations, IsViolation, OnlyLogged, OnRecord, Undecided,
             LoggedMessages, MessagesOf, At
    <3>. QED
      BY <3>1, LoggedFinite, FS_Subset, FS_CardinalityType
  <2>. QED
    BY <1>0, <2>1, ViolationsFinite DEF TypeOK
<1>2. ASSUME NEW w \in Workers, Record(w)
      PROVE  (CountsBounded => CountsBounded') /\ (CountsExact => CountsExact')
  <2>1. \A u \in Users : violations'[u] = violations[u] /\ Counted(u)' = Counted(u)
    BY <1>2, RecordCounts
  <2>. QED
    BY <2>1 DEF CountsBounded, CountsExact
<1>3. ASSUME NEW w \in Workers, BumpRisks(w)
      PROVE  (CountsBounded => CountsBounded') /\ (CountsExact => CountsExact')
  <2>1. \A u \in Users : \E n \in Nat :
          /\ violations'[u] = violations[u] + n
          /\ Cardinality(Counted(u)') = Cardinality(Counted(u)) + n
    BY <1>3, BumpCounts
  <2>. QED
    BY <1>1, <2>1 DEF CountsBounded, CountsExact
<1>4. ASSUME UNCHANGED <<decisions, violations>>, Waiting' \subseteq Waiting
      PROVE  /\ CountsBounded => CountsBounded'
             /\ Waiting' = Waiting => (CountsExact => CountsExact')
  <2>1. ASSUME NEW u \in Users
        PROVE  /\ Counted(u) \subseteq Counted(u)'
               /\ Waiting' = Waiting => Counted(u)' = Counted(u)
    BY <1>4 DEF Counted, Violations, IsViolation
  <2>2. ASSUME NEW u \in Users PROVE Cardinality(Counted(u)) <= Cardinality(Counted(u)')
    BY <1>1, <2>1, FS_Subset
  <2>. QED
    BY <1>1, <1>4, <2>1, <2>2 DEF CountsBounded, CountsExact
<1>5. ASSUME NEW w \in Workers, Next!1!(w), ~Record(w), ~BumpRisks(w)
      PROVE  /\ CountsBounded => CountsBounded'
             /\ CountsExact /\ MaxFailures = 0 /\ ~Crash(w) => CountsExact'
  <2>1. /\ UNCHANGED <<decisions, violations>>
        /\ \A v \in Workers : Pending(v)' \subseteq Pending(v)
        /\ ~(Crash(w) \/ CallRaises(w)) => \A v \in Workers : Pending(v)' = Pending(v)
    BY <1>0, <1>5, PendingStep
  <2>2. MaxFailures = 0 => ~CallRaises(w)
    BY <1>0 DEF CallRaises, TypeOK
  <2>3. Waiting' \subseteq Waiting
    BY <2>1 DEF Waiting
  <2>4. ~(Crash(w) \/ CallRaises(w)) => Waiting' = Waiting
    BY <2>1 DEF Waiting
  <2>. QED
    BY <1>4, <2>1, <2>2, <2>3, <2>4
<1>6. ASSUME UNCHANGED <<decisions, violations, pc, fresh>>
      PROVE  (CountsBounded => CountsBounded') /\ (CountsExact => CountsExact')
  <2>1. Waiting' = Waiting
    BY <1>6 DEF Waiting, Pending, MessagesOf, At
  <2>. QED
    BY <1>4, <1>6, <2>1
<1>7. ASSUME NEW p \in Partitions, Revoke(p) \/ \E w \in Workers : Assign(p, w)
      PROVE  UNCHANGED <<decisions, violations, pc, fresh>>
  BY <1>7 DEF Revoke, Assign
<1>8. CASE UNCHANGED vars
  BY <1>6, <1>8 DEF vars
<1>. QED
  BY <1>2, <1>3, <1>5, <1>6, <1>7, <1>8 DEF Next

-------------------------------------------------------------------------------
(* The theorems.                                                           *)

LEMMA ExactlyOnceInit == Init => ExactlyOnce
<1>. SUFFICES ASSUME Init PROVE ExactlyOnce
  OBVIOUS
<1>1. Announced = {}
  BY DEF Init, Announced
<1>2. \A u \in Users : Counted(u) = {} /\ violations[u] = 0
  BY DEF Init, Counted, Violations, IsViolation, Undecided
<1>3. OnlyLogged /\ OwnHands /\ FirstHandling
  BY DEF Init, OnlyLogged, OnRecord, OwnHands, FirstHandling, FirstHandlingOf
<1>4. EventsMatchRecord /\ ReviewsMatchRecord
  BY <1>1 DEF Init, EventsMatchRecord, ReviewsMatchRecord
<1>5. CountsBounded /\ CountsExact
  BY <1>2, FS_EmptySet DEF CountsBounded, CountsExact
<1>. QED
  BY <1>3, <1>4, <1>5 DEF ExactlyOnce

LEMMA ExactlyOnceStep ==
  ASSUME EachSentOnce, Inductive, ExactlyOnce, [Next]_vars
  PROVE  ExactlyOnce'
<1>0. TypeOK /\ OnlyLogged
  BY DEF Inductive, ExactlyOnce
<1>1. OnlyLogged'
  BY <1>0, OnlyLoggedStep
<1>2. CASE ~OneHand'
  BY <1>1, <1>2 DEF ExactlyOnce, EventsMatchRecord, ReviewsMatchRecord
<1>3. CASE OneHand'
  <2>1. OneHand /\ (\A p \in Partitions : ~Revoke(p)) /\ OwnHands /\ FirstHandling
        /\ CountsBounded
    BY <1>0, <1>3, NeverForgotten DEF ExactlyOnce
  <2>2. OwnHands' /\ FirstHandling'
    BY <2>1, OwnHandsStep, FirstHandlingStep
  <2>3. EventsMatchRecord' /\ ReviewsMatchRecord'
    BY <2>1, EventsStep, ReviewsStep DEF ExactlyOnce
  <2>4. CountsBounded'
    BY <1>0, <1>1, <2>1, CountsStep
  <2>5. ASSUME crashes' = 0, MaxFailures = 0 PROVE CountsExact'
    <3>1. crashes = 0 /\ \A w \in Workers : ~Crash(w)
      BY <1>0, <2>5, NeverForgotten
    <3>2. CountsExact
      BY <2>1, <2>5, <3>1 DEF ExactlyOnce
    <3>. QED
      BY <1>0, <1>1, <2>1, <2>5, <3>1, <3>2, CountsStep
  <2>. QED
    BY <1>1, <2>2, <2>3, <2>4, <2>5 DEF ExactlyOnce
<1>. QED
  BY <1>2, <1>3

\* As long as no partition is taken from a live worker, no message is ever in two hands,
\* and what a worker writes, queues, announces and counts for it is done for the first time.
THEOREM ExactlyOnceInvariant ==
  ASSUME EachSentOnce
  PROVE  Spec => []ExactlyOnce
<1>1. Inductive /\ ExactlyOnce /\ [Next]_vars => ExactlyOnce'
  BY EachSentOnce, ExactlyOnceStep
<1>. QED
  BY <1>1, ExactlyOnceInit, InductiveInvariant, PTL DEF Spec

\* Every event says what the record says, and there is one per message and topic, however
\* many workers are killed, restarted or fail.
THEOREM EventsAgreeWithRecord ==
  ASSUME EachSentOnce
  PROVE  Spec => []EventsMatchRecord
<1>1. ExactlyOnce => EventsMatchRecord
  BY DEF ExactlyOnce
<1>. QED
  BY <1>1, EachSentOnce, ExactlyOnceInvariant, PTL

\* Moderators are only asked about messages that are on record as escalated.
THEOREM ReviewsAgreeWithRecord ==
  ASSUME EachSentOnce
  PROVE  Spec => []ReviewsMatchRecord
<1>1. ExactlyOnce => ReviewsMatchRecord
  BY DEF ExactlyOnce
<1>. QED
  BY <1>1, EachSentOnce, ExactlyOnceInvariant, PTL

\* No replay counts a violation twice.
THEOREM NoViolationTwice ==
  ASSUME EachSentOnce
  PROVE  Spec => []RiskNeverOvercounts
<1>1. Inductive /\ ExactlyOnce => RiskNeverOvercounts
  <2>. SUFFICES ASSUME Inductive, ExactlyOnce, OneHand, NEW u \in Users
                PROVE  violations[u] <= Cardinality(Violations(u))
    BY DEF RiskNeverOvercounts
  <2>1. OnlyLogged /\ violations[u] <= Cardinality(Counted(u)) /\ violations[u] \in Nat
    BY DEF ExactlyOnce, CountsBounded, Inductive, TypeOK
  <2>2. /\ Cardinality(Counted(u)) <= Cardinality(Violations(u))
        /\ Cardinality(Counted(u)) \in Nat /\ Cardinality(Violations(u)) \in Nat
    <3>1. Counted(u) \subseteq Violations(u)
      BY DEF Counted
    <3>. QED
      BY <2>1, <3>1, ViolationsFinite, FS_Subset, FS_CardinalityType
  <2>. QED
    BY <2>1, <2>2
<1>. QED
  BY <1>1, EachSentOnce, ExactlyOnceInvariant, InductiveInvariant, PTL

\* When no call fails and no worker is killed, no violation is lost either: between
\* batches the counts are exact, through every restart.
THEOREM CountsAreHonest ==
  ASSUME EachSentOnce, MaxFailures = 0
  PROVE  Spec => []RiskCountsHonest
<1>1. ExactlyOnce => RiskCountsHonest
  <2>. SUFFICES ASSUME ExactlyOnce, OneHand, crashes = 0,
                       \A w \in Workers : pc[w] \in {"idle", "down"}, NEW u \in Users
                PROVE  violations[u] = Cardinality(Violations(u))
    BY DEF RiskCountsHonest
  <2>1. Waiting = {}
    BY DEF Waiting, Pending
  <2>2. Counted(u) = Violations(u)
    BY <2>1 DEF Counted
  <2>. QED
    BY <2>2, MaxFailures = 0 DEF ExactlyOnce, CountsExact
<1>. QED
  BY <1>1, EachSentOnce, ExactlyOnceInvariant, PTL

-------------------------------------------------------------------------------
(* The load test.                                                          *)

\* The load test's own steps leave the workers alone.
LEMMA BenchStep == [BenchNext]_allVars => [Next]_vars
BY DEF BenchNext, Report, GiveUp, Finish, allVars

\* The load test with its topic and its workers implements Delivery: what is proved of the
\* workers holds while they are measured.
THEOREM BenchRefinesDelivery == BenchSpec => Spec
BY BenchStep, PTL DEF BenchSpec, BenchInit, Spec

\* As many verdicts as messages, and every message has one.
LEMMA EnoughVerdicts ==
  ASSUME TypeOK, RecordComesFirst, EventsMatchRecord, OneHand
  PROVE  /\ Sent \in Nat /\ Cardinality(Verdicts) \in Nat
         /\ Sent <= Cardinality(Verdicts) => \A m \in LoggedMessages : OnRecord(m)
<1>. DEFINE about == [a \in Verdicts |-> At(a.at)]
<1>1. Verdicts \subseteq Announced
  BY DEF Verdicts, Announced
<1>2. \A a \in Verdicts : /\ At(a.at) \in LoggedMessages /\ OnRecord(At(a.at))
                          /\ a.topic = "moderation.decisions"
  BY <1>1 DEF RecordComesFirst, TypeOK, Event, Verdicts, LoggedMessages, MessagesOf
<1>3. about \in Injection(Verdicts, LoggedMessages)
  BY <1>1, <1>2 DEF EventsMatchRecord, Injection, IsInjective
<1>4. /\ IsFiniteSet(Verdicts)
      /\ Cardinality(Verdicts) <= Sent
      /\ Cardinality(Verdicts) = Sent => about \in Surjection(Verdicts, LoggedMessages)
  <2>. HIDE DEF about
  <2>. QED
    BY <1>3, LoggedFinite, FS_Injection DEF Sent
<1>5. Cardinality(Verdicts) \in Nat /\ Sent \in Nat
  BY <1>4, LoggedFinite, FS_CardinalityType DEF Sent
<1>6. ASSUME Sent <= Cardinality(Verdicts) PROVE about \in Surjection(Verdicts, LoggedMessages)
  <2>1. Cardinality(Verdicts) = Sent
    BY <1>4, <1>5, <1>6
  <2>. QED
    BY <1>4, <2>1
<1>. QED
  BY <1>2, <1>5, <1>6 DEF Surjection

LEMMA AccountedStep ==
  ASSUME Inductive, ExactlyOnce, AccountedMeansDecided, [BenchNext]_allVars
  PROVE  AccountedMeansDecided'
<1>0. TypeOK /\ [Next]_vars
  BY BenchStep DEF Inductive
<1>1. ASSUME OneHand', \A m \in LoggedMessages : OnRecord(m)
      PROVE  AccountedMeansDecided'
  <2>1. \A m \in LoggedMessages : m \in Messages /\ decisions'[m] = decisions[m]
    BY <1>0, <1>1, RecordKept DEF LoggedMessages
  <2>. QED
    BY <1>1, <2>1 DEF AccountedMeansDecided, OnRecord, LoggedMessages, MessagesOf, At
<1>2. CASE UNCHANGED benchVars
  <2>1. CASE OneHand' /\ phase = "reported" /\ missing <= 0
    <3>1. OneHand
      BY <1>0, <2>1, NeverForgotten
    <3>. QED
      BY <1>1, <2>1, <3>1 DEF AccountedMeansDecided
  <2>2. CASE ~(OneHand' /\ phase = "reported" /\ missing <= 0)
    BY <1>2, <2>2 DEF AccountedMeansDecided, benchVars
  <2>. QED
    BY <2>1, <2>2
<1>3. ASSUME NEW n \in Counts, Finish(n) PROVE AccountedMeansDecided'
  <2>1. CASE OneHand' /\ missing' <= 0
    <3>1. OneHand
      BY <1>0, <2>1, NeverForgotten
    <3>2. /\ Sent \in Nat /\ Cardinality(Verdicts) \in Nat
          /\ Sent <= Cardinality(Verdicts) => \A m \in LoggedMessages : OnRecord(m)
      BY <1>0, <3>1, EnoughVerdicts DEF Inductive, ExactlyOnce
    <3>3. n \in Nat /\ n <= Cardinality(Verdicts) /\ missing' = Sent - n
      BY <1>3, <3>2 DEF Counts, Finish
    <3>4. Sent <= Cardinality(Verdicts)
      BY <2>1, <3>2, <3>3
    <3>. QED
      BY <1>1, <2>1, <3>2, <3>4
  <2>2. CASE ~(OneHand' /\ missing' <= 0)
    BY <2>2 DEF AccountedMeansDecided
  <2>. QED
    BY <2>1, <2>2
<1>. QED
  BY <1>2, <1>3 DEF BenchNext, Report, GiveUp, allVars

\* A load test that reports nothing unaccounted for has every message on record: what the
\* chaos test concludes from it, for any number of workers, messages and kills.
THEOREM AccountedIsDecided ==
  ASSUME EachSentOnce
  PROVE  BenchSpec => []AccountedMeansDecided
<1>1. BenchInit => AccountedMeansDecided
  BY DEF BenchInit, AccountedMeansDecided
<1>2. Inductive /\ ExactlyOnce /\ AccountedMeansDecided /\ [BenchNext]_allVars
        => AccountedMeansDecided'
  BY AccountedStep
<1>3. BenchSpec => []Inductive /\ []ExactlyOnce
  BY EachSentOnce, BenchRefinesDelivery, InductiveInvariant, ExactlyOnceInvariant, PTL
<1>. QED
  BY <1>1, <1>2, <1>3, PTL DEF BenchSpec
===============================================================================
