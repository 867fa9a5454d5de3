------------------------------- MODULE Delivery -------------------------------
(***************************************************************************)
(* The moderation workers (pipeline/worker.py), the sink that writes their *)
(* verdicts down (pipeline/sink.py, storage/dao.py) and, as far as the     *)
(* code relies on it, the Kafka consumer group that feeds them.            *)
(*                                                                         *)
(* A worker repeats: fetch a batch; judge it; look up which messages are   *)
(* already on record; insert the missing verdicts; queue the escalated     *)
(* ones for review; count the violations; publish the events; commit the   *)
(* offsets.  MySQL runs in autocommit mode, so each of these is a step of  *)
(* its own, and a worker may crash, raise an exception or lose a partition *)
(* to another worker between any two of them.                              *)
(*                                                                         *)
(* How a message is judged is left open here: the pipeline may answer with *)
(* any verdict of MayGet[m], and not the same one each time, because Redis *)
(* counters, rules and the model change between two attempts.              *)
(***************************************************************************)
EXTENDS Integers, Sequences, FiniteSets

CONSTANTS
  Workers,        \* worker processes of one consumer group
  Partitions,     \* partitions of chat.events
  Messages,       \* identities (msg_id) of messages that Worker._read accepts
  Unreadable,     \* a log entry that Worker._read rejects
  Poison,         \* messages _read accepts but evaluate_batch raises on
  Log,            \* what the producers wrote: [Partitions -> sequence of entries]
  Users,          \* chat users
  Author,         \* the user_id of each message
  MayGet,         \* the actions the pipeline may choose for each message
  BatchSize,      \* settings.batch_size
  NoOne,          \* the owner of an unassigned partition
  MaxCrashes,     \* bound: workers killed
  MaxShutdowns,   \* bound: workers asked to stop
  MaxRevocations, \* bound: partitions taken away from a live worker
  MaxFailures     \* bound: failed calls, other than the raises of Poison and of a lost
                  \* connection

Actions == {"allow", "delete", "shadow", "escalate"}
Undecided == "undecided"
Entries == Messages \cup {Unreadable}
Positions == UNION {{p} \X (1..Len(Log[p])) : p \in Partitions}

ASSUME ConstantsAssumption ==
  /\ Unreadable \notin Messages
  /\ NoOne \notin Workers
  /\ Poison \subseteq Messages
  /\ IsFiniteSet(Partitions)
  /\ Log \in [Partitions -> Seq(Entries)]
  /\ Author \in [Messages -> Users]
  /\ MayGet \in [Messages -> SUBSET Actions]
  /\ BatchSize \in Nat \ {0}
  /\ MaxCrashes \in Nat /\ MaxShutdowns \in Nat
  /\ MaxRevocations \in Nat /\ MaxFailures \in Nat

VARIABLES
  \* Kafka: the consumer group
  owner,        \* the worker each partition is assigned to, or NoOne
  position,     \* how far the owner has fetched, per partition
  committed,    \* the committed offset, per partition
  \* MySQL
  decisions,    \* table decisions: the action on record for each message
  reviewItems,  \* table review_items: the messages in it
  violations,   \* table users_risk: the violation count of each user
  \* each worker's memory
  pc,           \* where in run_once it is
  connected,    \* whether its one MySQL connection still works
  batch,        \* log positions of the readable messages of its batch
  verdict,      \* the verdicts evaluate_batch returned
  fresh,        \* the part of the batch _save found not on record
  outbox,       \* events its producer has queued but not sent
  \* Kafka: the topics the workers write
  delivered,    \* events that reached their topic
  \* history and bounds
  abandoned,    \* log positions whose batch raised an exception
  crashes, shutdowns, revocations, failures

kafkaVars == <<owner, position, committed>>
mysqlVars == <<decisions, reviewItems, violations>>
batchVars == <<batch, verdict, fresh, connected>>
eventVars == <<outbox, delivered>>
boundVars == <<crashes, shutdowns, revocations, failures>>
vars == <<kafkaVars, mysqlVars, pc, batchVars, eventVars, abandoned, boundVars>>

Stages == {"idle", "judge", "check", "record", "review", "risk", "publish",
           "commit", "down"}
Running(w) == pc[w] # "down"

At(e) == Log[e[1]][e[2]]                \* the entry at a log position
MessagesOf(E) == {At(e) : e \in E}
NoVerdicts == [m \in Messages |-> Undecided]
OnRecord(m) == decisions[m] # Undecided
IsViolation(action) == action \in {"delete", "shadow"}

\* Events carry the producing worker so that the same verdict published by two
\* workers counts as two events, which it is on the topic.
Topics == {"moderation.decisions", "review.queue", "chat.deadletter"}
Event == [topic : Topics, at : Positions, action : Actions \cup {Undecided},
          by : Workers]

DeadLetter(w, e) ==
  [topic |-> "chat.deadletter", at |-> e, action |-> Undecided, by |-> w]
DecisionEvent(w, e) ==
  [topic |-> "moderation.decisions", at |-> e, action |-> verdict[w][At(e)], by |-> w]
ReviewEvent(w, e) ==
  [topic |-> "review.queue", at |-> e, action |-> verdict[w][At(e)], by |-> w]

Escalated(w, E) == {e \in E : verdict[w][At(e)] = "escalate"}

\* Mistake: a review event instead of, not on top of, the decision event.
Announcements_EitherOr(w, E) ==
  {DecisionEvent(w, e) : e \in E \ Escalated(w, E)}
    \cup {ReviewEvent(w, e) : e \in Escalated(w, E)}

\* Everything handle_batch publishes for the verdicts at positions E.
Announcements(w, E) ==
  {DecisionEvent(w, e) : e \in E} \cup {ReviewEvent(w, e) : e \in Escalated(w, E)}

-------------------------------------------------------------------------------
Init ==
  /\ owner = [p \in Partitions |-> NoOne]
  /\ position = [p \in Partitions |-> 0]
  /\ committed = [p \in Partitions |-> 0]
  /\ decisions = [m \in Messages |-> Undecided]
  /\ reviewItems = {}
  /\ violations = [u \in Users |-> 0]
  /\ pc = [w \in Workers |-> "idle"]
  /\ connected = [w \in Workers |-> TRUE]
  /\ batch = [w \in Workers |-> {}]
  /\ verdict = [w \in Workers |-> NoVerdicts]
  /\ fresh = [w \in Workers |-> {}]
  /\ outbox = [w \in Workers |-> {}]
  /\ delivered = {}
  /\ abandoned = {}
  /\ crashes = 0 /\ shutdowns = 0 /\ revocations = 0 /\ failures = 0

-------------------------------------------------------------------------------
(* One batch, in the order of run_once, handle_batch and _save.            *)

Goto(w, from, to) ==
  /\ pc[w] = from
  /\ pc' = [pc EXCEPT ![w] = to]

\* Mistake: return early, without a commit, when nothing in the batch is readable.
AfterReading_SkipCommit(readable) == IF readable = {} THEN "idle" ELSE "judge"

AfterReading(readable) == IF readable = {} THEN "commit" ELSE "judge"

\* consume() hands over entries past the position of each owned partition and
\* advances the position; _read parks the unreadable ones.
Fetch(w) ==
  /\ pc[w] = "idle"
  /\ \E upTo \in [Partitions -> 0..BatchSize] :
       LET taken == UNION {{p} \X ((position[p] + 1)..(position[p] + upTo[p])) :
                           p \in Partitions}
           readable == {e \in taken : At(e) \in Messages}
       IN  /\ \A p \in Partitions :
                /\ position[p] + upTo[p] <= Len(Log[p])
                /\ owner[p] # w => upTo[p] = 0
           /\ taken # {}
           /\ Cardinality(taken) <= BatchSize
           /\ position' = [p \in Partitions |-> position[p] + upTo[p]]
           /\ batch' = [batch EXCEPT ![w] = readable]
           /\ outbox' = [outbox EXCEPT
                           ![w] = @ \cup {DeadLetter(w, e) : e \in taken \ readable}]
           /\ pc' = [pc EXCEPT ![w] = AfterReading(readable)]
  /\ UNCHANGED <<owner, committed, mysqlVars, connected, verdict, fresh, delivered,
                 abandoned, boundVars>>

\* A poll that returns only Kafka errors: nothing to handle, but it commits.
PollError(w) ==
  /\ Goto(w, "idle", "commit")
  /\ UNCHANGED <<kafkaVars, mysqlVars, batchVars, eventVars, abandoned, boundVars>>

\* evaluate_batch: one verdict for each message of the batch.
Judge(w) ==
  /\ Goto(w, "judge", "check")
  /\ MessagesOf(batch[w]) \cap Poison = {}
  /\ \E v \in [MessagesOf(batch[w]) -> Actions] :
       /\ \A m \in DOMAIN v : v[m] \in MayGet[m]
       /\ verdict' = [verdict EXCEPT
                        ![w] = [m \in Messages |-> IF m \in DOMAIN v THEN v[m]
                                                                     ELSE Undecided]]
  /\ UNCHANGED <<kafkaVars, mysqlVars, connected, batch, fresh, eventVars, abandoned,
                 boundVars>>

\* Mistake: publish before saving.
Check_PublishFirst(w) ==
  LET missing == {e \in batch[w] : ~OnRecord(At(e))}
  IN  /\ connected[w]
      /\ Goto(w, "check", IF missing = {} THEN "commit" ELSE "publish")
      /\ fresh' = [fresh EXCEPT ![w] = missing]
      /\ UNCHANGED <<kafkaVars, mysqlVars, connected, batch, verdict, eventVars,
                     abandoned, boundVars>>

\* Mistake: rely on INSERT IGNORE alone to catch replays.
Check_TrustInsertIgnore(w) ==
  /\ connected[w]
  /\ Goto(w, "check", "record")
  /\ fresh' = [fresh EXCEPT ![w] = batch[w]]
  /\ UNCHANGED <<kafkaVars, mysqlVars, connected, batch, verdict, eventVars,
                 abandoned, boundVars>>

\* existing_msg_ids: what is on record was handled before, leave it alone.
Check(w) ==
  LET missing == {e \in batch[w] : ~OnRecord(At(e))}
  IN  /\ connected[w]
      /\ Goto(w, "check", IF missing = {} THEN "commit" ELSE "record")
      /\ fresh' = [fresh EXCEPT ![w] = missing]
      /\ UNCHANGED <<kafkaVars, mysqlVars, connected, batch, verdict, eventVars,
                     abandoned, boundVars>>

\* INSERT IGNORE INTO decisions: the first row for a msg_id stays.
InsertIgnore(w) ==
  [m \in Messages |-> IF OnRecord(m) \/ m \notin MessagesOf(fresh[w])
                      THEN decisions[m] ELSE verdict[w][m]]

\* Mistake: the call to enqueue_reviews is missing.
Record_NoReviews(w) ==
  /\ Goto(w, "record", "risk")
  /\ decisions' = InsertIgnore(w)
  /\ UNCHANGED <<kafkaVars, reviewItems, violations, batchVars, eventVars,
                 abandoned, boundVars>>

\* record_decisions: one statement for the whole fresh list.
Record(w) ==
  /\ Goto(w, "record", "review")
  /\ decisions' = InsertIgnore(w)
  /\ UNCHANGED <<kafkaVars, reviewItems, violations, batchVars, eventVars,
                 abandoned, boundVars>>

\* INSERT IGNORE INTO review_items.
EnqueueReviews(w) ==
  /\ Goto(w, "review", "risk")
  /\ reviewItems' = reviewItems \cup MessagesOf(Escalated(w, fresh[w]))
  /\ UNCHANGED <<kafkaVars, decisions, violations, batchVars, eventVars,
                 abandoned, boundVars>>

\* Mistake: a set of users loses the repeats of one user in a batch.
BumpRisks_OncePerUser(w) ==
  /\ Goto(w, "risk", "publish")
  /\ violations' = [u \in Users |-> violations[u] +
                      IF \E e \in fresh[w] : /\ IsViolation(verdict[w][At(e)])
                                             /\ Author[At(e)] = u
                      THEN 1 ELSE 0]
  /\ UNCHANGED <<kafkaVars, decisions, reviewItems, batchVars, eventVars,
                 abandoned, boundVars>>

\* bump_user_risks: one count per violating verdict in the fresh list.
BumpRisks(w) ==
  /\ Goto(w, "risk", "publish")
  /\ violations' = [u \in Users |-> violations[u] +
                      Cardinality({e \in fresh[w] : /\ IsViolation(verdict[w][At(e)])
                                                    /\ Author[At(e)] = u})]
  /\ UNCHANGED <<kafkaVars, decisions, reviewItems, batchVars, eventVars,
                 abandoned, boundVars>>

\* publish() only queues; the producer's own thread sends.
Publish(w) ==
  /\ Goto(w, "publish", "commit")
  /\ outbox' = [outbox EXCEPT ![w] = @ \cup Announcements(w, fresh[w])]
  /\ UNCHANGED <<kafkaVars, mysqlVars, batchVars, delivered, abandoned, boundVars>>

\* The worker has nothing in hand: the end of run_once, or of the process.
DropBatch(w) ==
  /\ batch' = [batch EXCEPT ![w] = {}]
  /\ verdict' = [verdict EXCEPT ![w] = NoVerdicts]
  /\ fresh' = [fresh EXCEPT ![w] = {}]

\* Mistake: offsets of the batch, whoever owns its partitions by now.
Commit_Unfenced(w) ==
  /\ Goto(w, "commit", "idle")
  /\ committed' = [p \in Partitions |->
                     IF owner[p] = w \/ \E e \in batch[w] : e[1] = p
                     THEN position[p] ELSE committed[p]]
  /\ DropBatch(w)
  /\ UNCHANGED <<owner, position, mysqlVars, connected, eventVars, abandoned, boundVars>>

\* Mistake: commits the next offset but one.
Commit_OneTooFar(w) ==
  /\ Goto(w, "commit", "idle")
  /\ committed' = [p \in Partitions |-> IF owner[p] = w THEN position[p] + 1
                                                        ELSE committed[p]]
  /\ DropBatch(w)
  /\ UNCHANGED <<owner, position, mysqlVars, connected, eventVars, abandoned, boundVars>>

\* commit() without arguments: the position of every partition owned now,
\* whatever batch moved it there.
Commit(w) ==
  /\ Goto(w, "commit", "idle")
  /\ committed' = [p \in Partitions |-> IF owner[p] = w THEN position[p]
                                                        ELSE committed[p]]
  /\ DropBatch(w)
  /\ UNCHANGED <<owner, position, mysqlVars, connected, eventVars, abandoned, boundVars>>

-------------------------------------------------------------------------------
(* Exceptions.  run() logs them and polls again; nothing seeks back.       *)

Abandon(w) ==
  /\ pc' = [pc EXCEPT ![w] = "idle"]
  /\ abandoned' = abandoned \cup batch[w]
  /\ DropBatch(w)

\* evaluate_batch raises on one of the messages, every time it meets it.
JudgeRaises(w) ==
  /\ pc[w] = "judge"
  /\ MessagesOf(batch[w]) \cap Poison # {}
  /\ Abandon(w)
  /\ UNCHANGED <<kafkaVars, mysqlVars, connected, eventVars, boundVars>>

\* Redis, MySQL or Kafka fails the call the worker is at, before it has an effect:
\* a call that fails after its effect is the same as a failure at the next stage.
\* A failed MySQL call may mean that the connection is gone.
CallRaises(w) ==
  /\ pc[w] \in Stages \ {"idle", "publish", "down"}
  /\ failures < MaxFailures
  /\ failures' = failures + 1
  /\ \/ UNCHANGED connected
     \/ /\ pc[w] \in {"check", "record", "review", "risk"}
        /\ connected' = [connected EXCEPT ![w] = FALSE]
  /\ Abandon(w)
  /\ UNCHANGED <<kafkaVars, mysqlVars, eventVars, crashes, shutdowns,
                 revocations>>

\* The connection is opened once, in build_worker, and never again: every later
\* batch fails at its first query.
QueryRaises(w) ==
  /\ pc[w] = "check"
  /\ ~connected[w]
  /\ Abandon(w)
  /\ UNCHANGED <<kafkaVars, mysqlVars, connected, eventVars, boundVars>>

\* produce() raises after some events of the batch are queued: all those of the
\* verdicts in done, and perhaps only the first of the two of an escalation.
PublishRaises(w) ==
  /\ pc[w] = "publish"
  /\ failures < MaxFailures
  /\ failures' = failures + 1
  /\ \E done \in SUBSET fresh[w] \ {fresh[w]} :
       \E half \in {{}} \cup {{e} : e \in Escalated(w, fresh[w] \ done)} :
         outbox' = [outbox EXCEPT ![w] = @ \cup Announcements(w, done)
                                              \cup {DecisionEvent(w, e) : e \in half}]
  /\ Abandon(w)
  /\ UNCHANGED <<kafkaVars, mysqlVars, connected, delivered, crashes, shutdowns,
                 revocations>>

-------------------------------------------------------------------------------
(* The producer thread, the process and the consumer group.                *)

\* The producer thread sends what is queued; LeaveGroup may interrupt it half way.
Deliver(w) ==
  /\ outbox[w] # {}
  /\ delivered' = delivered \cup outbox[w]
  /\ outbox' = [outbox EXCEPT ![w] = {}]
  /\ UNCHANGED <<kafkaVars, mysqlVars, pc, batchVars, abandoned, boundVars>>

\* A worker is gone: its partitions wait for a new owner, and of the events it had
\* queued some were sent and the others never will be.
LeaveGroup(w) ==
  /\ pc' = [pc EXCEPT ![w] = "down"]
  /\ owner' = [p \in Partitions |-> IF owner[p] = w THEN NoOne ELSE owner[p]]
  /\ \E sent \in SUBSET outbox[w] : delivered' = delivered \cup sent
  /\ outbox' = [outbox EXCEPT ![w] = {}]
  /\ UNCHANGED <<position, committed, mysqlVars, connected, abandoned, revocations,
                 failures>>

\* kill -9, or a machine that dies: what was only in memory is lost.
Crash(w) ==
  /\ Running(w)
  /\ crashes < MaxCrashes
  /\ crashes' = crashes + 1
  /\ LeaveGroup(w)
  /\ DropBatch(w)
  /\ UNCHANGED shutdowns

\* SIGTERM: the loop ends after the current batch, then flush() waits ten seconds
\* for the queued events and ignores how many are still pending.
Shutdown(w) ==
  /\ pc[w] = "idle"
  /\ shutdowns < MaxShutdowns
  /\ shutdowns' = shutdowns + 1
  /\ LeaveGroup(w)
  /\ UNCHANGED <<batch, verdict, fresh, crashes>>

Restart(w) ==
  /\ Goto(w, "down", "idle")
  /\ connected' = [connected EXCEPT ![w] = TRUE]
  /\ UNCHANGED <<kafkaVars, mysqlVars, batch, verdict, fresh, eventVars, abandoned,
                 boundVars>>

\* Mistake: a new owner goes on where the last one had read to.
Assign_KeepPosition(p, w) ==
  /\ owner[p] = NoOne
  /\ Running(w)
  /\ owner' = [owner EXCEPT ![p] = w]
  /\ UNCHANGED <<position, committed, mysqlVars, pc, batchVars, eventVars, abandoned,
                 boundVars>>

\* A new owner starts from the last committed offset.
Assign(p, w) ==
  /\ owner[p] = NoOne
  /\ Running(w)
  /\ owner' = [owner EXCEPT ![p] = w]
  /\ position' = [position EXCEPT ![p] = committed[p]]
  /\ UNCHANGED <<committed, mysqlVars, pc, batchVars, eventVars, abandoned, boundVars>>

\* The group rebalances, because a worker joins or misses its heartbeats.  The
\* batch its owner has in hand is not interrupted.
Revoke(p) ==
  /\ owner[p] # NoOne
  /\ revocations < MaxRevocations
  /\ revocations' = revocations + 1
  /\ owner' = [owner EXCEPT ![p] = NoOne]
  /\ UNCHANGED <<position, committed, mysqlVars, pc, batchVars, eventVars,
                 abandoned, crashes, shutdowns, failures>>

-------------------------------------------------------------------------------
\* The rest of a batch that is being handled: the worker's thread is running.
Advance(w) ==
  \/ Judge(w) \/ Check(w) \/ Record(w) \/ EnqueueReviews(w) \/ BumpRisks(w)
  \/ Publish(w) \/ Commit(w) \/ JudgeRaises(w) \/ QueryRaises(w)

Next ==
  \/ \E w \in Workers :
       \/ Fetch(w) \/ PollError(w) \/ Advance(w)
       \/ CallRaises(w) \/ PublishRaises(w)
       \/ Deliver(w) \/ Crash(w) \/ Shutdown(w) \/ Restart(w)
  \/ \E p \in Partitions : Revoke(p) \/ \E w \in Workers : Assign(p, w)

Spec == Init /\ [][Next]_vars

(***************************************************************************)
(* Fairness.  A running thread goes on (WF of Advance), the producer       *)
(* thread sends, a dead worker is restarted and the coordinator assigns    *)
(* free partitions.  Fetch needs strong fairness: a poll that returns only *)
(* errors makes the worker busy for a moment, but Kafka does not fail      *)
(* every poll for ever.                                                    *)
(***************************************************************************)
Fairness ==
  /\ \A w \in Workers : /\ WF_vars(Advance(w)) /\ SF_vars(Fetch(w))
                        /\ WF_vars(Deliver(w)) /\ WF_vars(Restart(w))
  /\ \A p \in Partitions : WF_vars(\E w \in Workers : Assign(p, w))

FairSpec == Spec /\ Fairness

-------------------------------------------------------------------------------
(* Properties.                                                             *)

\* Every variable has its type, and offsets stay inside the log.
TypeOK ==
  /\ owner \in [Partitions -> Workers \cup {NoOne}]
  /\ position \in [Partitions -> Nat]
  /\ committed \in [Partitions -> Nat]
  /\ \A p \in Partitions : committed[p] <= Len(Log[p]) /\ position[p] <= Len(Log[p])
  /\ decisions \in [Messages -> Actions \cup {Undecided}]
  /\ reviewItems \in SUBSET Messages
  /\ violations \in [Users -> Nat]
  /\ pc \in [Workers -> Stages]
  /\ connected \in [Workers -> BOOLEAN]
  /\ batch \in [Workers -> SUBSET Positions]
  /\ verdict \in [Workers -> [Messages -> Actions \cup {Undecided}]]
  /\ fresh \in [Workers -> SUBSET Positions]
  /\ outbox \in [Workers -> SUBSET Event]
  /\ delivered \in SUBSET Event
  /\ abandoned \in SUBSET Positions
  /\ crashes \in Nat /\ shutdowns \in Nat /\ revocations \in Nat /\ failures \in Nat

\* Positions up to the committed offset, which no worker will be handed again.
CommittedPositions == UNION {{p} \X (1..committed[p]) : p \in Partitions}

LoggedMessages == MessagesOf(Positions) \cap Messages

Answered(e) == At(e) = Unreadable \/ OnRecord(At(e)) \/ e \in abandoned

\* The events about verdicts that were ever queued and not lost with their worker.
Announced ==
  {a \in delivered \cup UNION {outbox[w] : w \in Workers} : a.topic # "chat.deadletter"}

Violations(u) == {m \in Messages : Author[m] = u /\ IsViolation(decisions[m])}

(* Safety, whatever crashes, is taken away or fails. *)

\* Commits trail the audit trail: no offset is committed, by any worker for whatever
\* batch, while a readable message below it has no decision, unless that message was
\* in a batch that raised (worker.py "Only now do we tell Kafka we are done").
NoSilentLoss == \A e \in CommittedPositions : Answered(e)

\* Downstream consumers and moderators never see a verdict before the audit trail
\* does: handle_batch saves before it publishes, _save records before it enqueues.
RecordComesFirst ==
  /\ \A m \in reviewItems : OnRecord(m)
  /\ \A a \in Announced : At(a.at) \in Messages /\ OnRecord(At(a.at))

\* The row that explains a decision is never rewritten, by a replay or by a second
\* worker that holds the same message (record_decisions, INSERT IGNORE).
RecordIsFinal ==
  [][\A m \in Messages : OnRecord(m) => decisions'[m] = decisions[m]]_vars

\* Workers, batches, crashes and rebalances together keep the promise of AuditTrail:
\* verdicts never change, offsets only move forward and only over answered entries.
Audit == INSTANCE AuditTrail WITH Verdicts <- Actions,
                                  verdictOf <- decisions,
                                  acked <- committed,
                                  excused <- abandoned
ImplementsAuditTrail == Audit!Spec

(* What makes NoSilentLoss hold. *)

\* Whatever an owner has fetched is answered or still in its hands, so the position
\* it will commit covers nothing else.
FetchedIsAnsweredOrInHand ==
  \A p \in Partitions :
    owner[p] \in Workers =>
      /\ committed[p] <= position[p]
      /\ \A i \in 1..position[p] : Answered(<<p, i>>) \/ <<p, i>> \in batch[owner[p]]

\* How far the messages of a batch have got, by the worker's place in run_once.
BatchProgressOf(w) ==
  /\ \A e \in batch[w] : At(e) \in Messages
  /\ fresh[w] \subseteq batch[w]
  /\ pc[w] \in {"idle", "down"} => batch[w] = {}
  /\ pc[w] = "down" => \A p \in Partitions : owner[p] # w
  /\ pc[w] \in {"check", "record"} => \A e \in batch[w] : verdict[w][At(e)] # Undecided
  /\ pc[w] = "record" => \A e \in batch[w] \ fresh[w] : OnRecord(At(e))
  /\ pc[w] \in {"review", "risk", "publish", "commit"} =>
       \A e \in batch[w] : OnRecord(At(e))

BatchProgress == \A w \in Workers : BatchProgressOf(w)

\* The inductive invariant: in every interleaving of workers that fetch, crash, raise
\* and lose partitions, an offset that run_once is about to commit covers only
\* messages that are settled or that this very worker has in hand.
Inductive ==
  /\ TypeOK
  /\ FetchedIsAnsweredOrInHand
  /\ BatchProgress
  /\ NoSilentLoss
  /\ RecordComesFirst

(* Without failed batches. *)

\* Offsets are committed only after a batch has been fully written to MySQL.  Kept as
\* long as nothing raises an exception, and no longer.
CommittedIsDecided ==
  \A e \in CommittedPositions : At(e) = Unreadable \/ OnRecord(At(e))

\* A batch that evaluate_batch raises on takes no other message down with it.  Not kept:
\* the whole batch is abandoned, and the next commit covers it.
OnlyPoisonIsLost ==
  \A e \in CommittedPositions : At(e) \in Poison \/ At(e) = Unreadable \/ OnRecord(At(e))

(* Exactly once, as long as no partition is taken from a live worker: then no      *)
(* message is ever in two hands, however often workers are killed and restarted.   *)

OneHand == revocations = 0

\* What was announced is what the record says, once for each message.
EventsMatchRecord ==
  OneHand => \A a, b \in Announced :
    /\ a.action = decisions[At(a.at)]
    /\ At(a.at) = At(b.at) /\ a.topic = b.topic => a = b

\* Moderators are only asked about messages that the record says are escalated.
ReviewsMatchRecord == OneHand => \A m \in reviewItems : decisions[m] = "escalate"

\* A replay after a crash never counts a violation twice (existing_msg_ids).
RiskNeverOvercounts ==
  OneHand => \A u \in Users : violations[u] <= Cardinality(Violations(u))

\* Unless a worker was killed, a user's violations are, between batches, the violating
\* decisions on record: a rolling restart neither loses nor repeats a count.
RiskCountsHonest ==
  /\ OneHand /\ crashes = 0
  /\ \A w \in Workers : pc[w] \in {"idle", "down"}
  => \A u \in Users : violations[u] = Cardinality(Violations(u))

(* Liveness, under Fairness. *)

\* Every readable message gets a verdict, through crashes and rebalances.
EveryMessageDecided == <>(\A m \in LoggedMessages : OnRecord(m))

\* The group catches up for good, over unreadable entries too, whoever died.
GroupCatchesUp == <>[](\A p \in Partitions : committed[p] = Len(Log[p]))

\* A message on record as escalated gets in front of a moderator.  Not kept: a worker may
\* be killed between the two statements, and the replay skips what is on record.
EscalatedIsReviewed ==
  \A m \in Messages : decisions[m] = "escalate" ~> m \in reviewItems

\* So it does unless a worker is killed: a rebalance in the middle of a batch loses no
\* review item, whichever of the two workers records the message.
ReviewedUnlessKilled ==
  \A m \in Messages : decisions[m] = "escalate" ~> m \in reviewItems \/ crashes > 0

\* A worker that lost MySQL for a moment is back at work, sooner or later.  Not kept.
WorkerSurvivesBlip == \A w \in Workers : ~connected[w] ~> connected[w]
===============================================================================
