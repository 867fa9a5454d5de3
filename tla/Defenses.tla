------------------------------- MODULE Defenses -------------------------------
(***************************************************************************)
(* The defences that live in Redis (defenses/dedup.py, rate_limit.py,      *)
(* raid.py and signals.py) and the part of the funnel that acts on them    *)
(* (pipeline/pipeline.py).                                                 *)
(*                                                                         *)
(* A worker asks Redis about a whole batch in one transaction (gather),    *)
(* judges the batch from the answers, writes back the raids it discovered  *)
(* (commit), and only then are the verdicts saved.  Other workers come in  *)
(* between, keys expire, and a worker that dies before the last step       *)
(* leaves its traces in Redis while its batch is handled again.            *)
(*                                                                         *)
(* Time is counted in ticks.  All workers and Redis read the same clock.   *)
(* Reputation, the fourth question gather asks, is not modelled here, and  *)
(* what rules and model say about a text is left open.                     *)
(***************************************************************************)
EXTENDS Integers, Sequences, FiniteSets

CONSTANTS
  Workers,        \* worker processes
  Messages,       \* the messages; each has its own msg_id
  Users,          \* chat users
  Streams,        \* the streams, each on a partition of its own
  Texts,          \* texts that are long enough for the duplicate check
  Unchecked,      \* any shorter text
  Log,            \* what is sent: [Streams -> sequence of messages]
  Home,           \* the worker that is assigned each stream
  Author,         \* the user_id of each message
  Text,           \* the text of each message
  NewAccounts,    \* messages whose account is younger than NEW_ACCOUNT_DAYS
  RateLimit,      \* the limit _rate_settings finds for each stream ...
  OverLimit,      \* ... and the action for a user above it
  Content,        \* what rules and model may answer for a message they get to see
  RaidThreshold,  \* raid_threshold
  DedupTTL,       \* TTL_SECONDS, in ticks
  RateWindow,     \* RATE_WINDOW_SECONDS
  RaidWindow,     \* raid.WINDOW_SECONDS
  RaidMode,       \* RAID_MODE_SECONDS
  BatchSize,      \* settings.batch_size
  MaxTime,        \* bound: ticks
  MaxCrashes      \* bound: workers killed

Actions == {"allow", "delete", "shadow", "escalate"}

ASSUME ConstantsAssumption ==
  /\ Unchecked \notin Texts
  /\ Log \in [Streams -> Seq(Messages)]
  /\ Home \in [Streams -> Workers]
  /\ Author \in [Messages -> Users]
  /\ Text \in [Messages -> Texts \cup {Unchecked}]
  /\ NewAccounts \subseteq Messages
  /\ RateLimit \in [Streams -> Nat \ {0}]
  /\ OverLimit \in [Streams -> Actions]
  /\ Content \subseteq Actions
  /\ RaidThreshold \in Nat \ {0}
  /\ DedupTTL \in Nat \ {0} /\ RateWindow \in Nat \ {0}
  /\ RaidWindow \in Nat \ {0} /\ RaidMode \in Nat \ {0}
  /\ BatchSize \in Nat \ {0}
  /\ MaxTime \in Nat \ {0} /\ MaxCrashes \in Nat

\* Every message is in the log of one stream, once.
ASSUME LogAssumption ==
  /\ IsFiniteSet(Messages)
  /\ \A m \in Messages : \E s \in Streams : \E i \in DOMAIN Log[s] : Log[s][i] = m
  /\ \A s, t \in Streams : \A i \in DOMAIN Log[s], j \in DOMAIN Log[t] :
       Log[s][i] = Log[t][j] => s = t /\ i = j

Stream == [m \in Messages |->
             CHOOSE s \in Streams : \E i \in DOMAIN Log[s] : Log[s][i] = m]
Rank == [m \in Messages |-> CHOOSE i \in DOMAIN Log[Stream[m]] : Log[Stream[m]][i] = m]

VARIABLES
  time,
  \* Kafka
  sent,        \* how many messages of each stream are in the topic
  done,        \* how many messages of each stream are decided and committed
  \* Redis
  dedupUntil,  \* when the key of each (user, text) expires, 0 if it was never set
  stamps,      \* rate:user:u, the sorted set of each user
  sightings,   \* raid:s:bucket, the new accounts seen per stream and bucket
  raidUntil,   \* when raid_mode:s expires, 0 if it was never set
  \* each worker
  stage,       \* idle, judging (gather has answered) or saving (commit has run)
  batch,       \* its messages, in the order they are asked about
  signals,     \* the answers of gather for each of them
  newRaids,    \* the streams that the batch itself tipped into a raid
  verdicts,    \* what evaluate_batch returned
  \* MySQL
  decision,    \* the verdict on record for each message
  crashes

kafkaVars == <<sent, done>>
redisVars == <<dedupUntil, stamps, sightings, raidUntil>>
workerVars == <<stage, batch, signals, newRaids, verdicts>>
vars == <<time, kafkaVars, redisVars, workerVars, decision, crashes>>

NoSignals == [duplicate |-> FALSE, over |-> FALSE, raid |-> FALSE, at |-> 0]
Undecided == [action |-> "none", reason |-> "none", at |-> 0]
None(nothing) == [m \in Messages |-> nothing]
Elements(b) == {b[i] : i \in DOMAIN b}
Keys == Users \X Texts

Init ==
  /\ time = 1
  /\ sent = [s \in Streams |-> 0]
  /\ done = [s \in Streams |-> 0]
  /\ dedupUntil = [k \in Keys |-> 0]
  /\ stamps = [u \in Users |-> {}]
  /\ sightings = [s \in Streams |-> {}]
  /\ raidUntil = [s \in Streams |-> 0]
  /\ stage = [w \in Workers |-> "idle"]
  /\ batch = [w \in Workers |-> <<>>]
  /\ signals = [w \in Workers |-> None(NoSignals)]
  /\ newRaids = [w \in Workers |-> {}]
  /\ verdicts = [w \in Workers |-> None(Undecided)]
  /\ decision = None(Undecided)
  /\ crashes = 0

-------------------------------------------------------------------------------
(* What gather asks about the i-th message of a batch b.  Commands of one  *)
(* transaction run in order, so each sees those before it.                 *)

UpTo(b, i) == {b[j] : j \in 1..i}

\* Mistake: hash the text alone.
Key_TextOnly(m) == <<CHOOSE u \in Users : TRUE, Text[m]>>

\* dedup.key
Key(m) == <<Author[m], Text[m]>>

\* Mistake: look at what earlier batches left, only.
IsDuplicate_AcrossBatches(b, i) ==
  Text[b[i]] # Unchecked /\ dedupUntil[Key(b[i])] > time

\* dedup.queue and was_duplicate: SET NX fails, because of an earlier batch or of an
\* earlier message of this one.
IsDuplicate(b, i) ==
  /\ Text[b[i]] # Unchecked
  /\ \/ dedupUntil[Key(b[i])] > time
     \/ \E n \in UpTo(b, i - 1) : Key(n) = Key(b[i])

\* Mistake: windows that start at multiples of their length.
InWindow_Fixed(u) == {e \in stamps[u] : e.at \div RateWindow = time \div RateWindow}

\* ZREMRANGEBYSCORE 0 (now - window): what is left of a user's stamps.
InWindow(u) == {e \in stamps[u] : e.at > time - RateWindow}

\* rate_limit.queue and count: ZCARD, once this message has its stamp.
Speed(b, i) ==
  LET u == Author[b[i]] IN
    Cardinality(InWindow(u)) + Cardinality({n \in UpTo(b, i) : Author[n] = u})

Bucket(t) == t \div RaidWindow

\* raid.queue_sighting: the new accounts of stream s in the bucket of now.
Sightings(s, msgs) ==
  sightings[s] \cup {<<Bucket(time), Author[n]>> : n \in {n \in msgs \cap NewAccounts :
                                                          Stream[n] = s}}
Crowd(b, i) ==
  {e \in Sightings(Stream[b[i]], UpTo(b, i)) : e[1] = Bucket(time)}

RaidsIn(b) == {s \in Streams : \E i \in DOMAIN b : /\ Stream[b[i]] = s
                                                  /\ b[i] \in NewAccounts
                                                  /\ Cardinality(Crowd(b, i)) >= RaidThreshold}

\* Mistake: a raid that starts in the batch counts from the next one.
Raiding_NextTime(b) == {s \in Streams : raidUntil[s] > time}

\* The mode keys, and the raids that start in this batch.
Raiding(b) == {s \in Streams : raidUntil[s] > time} \cup RaidsIn(b)

\* _ask_redis looks up one limit for the batch, that of its first message's stream.
Limit(b, i) == RateLimit[Stream[b[1]]]

SignalsOf(b) ==
  [m \in Messages |->
     IF m \notin Elements(b) THEN NoSignals
     ELSE LET i == CHOOSE i \in DOMAIN b : b[i] = m IN
            [duplicate |-> IsDuplicate(b, i),
             over |-> Speed(b, i) > Limit(b, i),
             raid |-> m \in NewAccounts /\ Stream[m] \in Raiding(b),
             at |-> time]]

\* A batch may mix the streams of its worker, each in its own order.
Orders(msgs) ==
  {b \in [1..Cardinality(msgs) -> msgs] :
     \A i, j \in DOMAIN b :
       i < j => b[i] # b[j] /\ (Stream[b[i]] = Stream[b[j]] => Rank[b[i]] < Rank[b[j]])}

-------------------------------------------------------------------------------
Tick ==
  /\ time < MaxTime
  /\ time' = time + 1
  /\ UNCHANGED <<kafkaVars, redisVars, workerVars, decision, crashes>>

Send(s) ==
  /\ sent[s] < Len(Log[s])
  /\ sent' = [sent EXCEPT ![s] = @ + 1]
  /\ UNCHANGED <<time, done, redisVars, workerVars, decision, crashes>>

\* evaluate_batch up to the answers of Redis.  Expired keys and stamps need no step:
\* they are told from live ones by their times.  The stamps' member is "now:uuid".
Gather(w) ==
  /\ stage[w] = "idle"
  /\ \E upTo \in [Streams -> 0..BatchSize] :
       LET taken == {m \in Messages : /\ Home[Stream[m]] = w
                                      /\ Rank[m] > done[Stream[m]]
                                      /\ Rank[m] <= done[Stream[m]] + upTo[Stream[m]]}
       IN  /\ \A s \in Streams : /\ done[s] + upTo[s] <= sent[s]
                                 /\ Home[s] # w => upTo[s] = 0
           /\ taken # {}
           /\ Cardinality(taken) <= BatchSize
           /\ \E b \in Orders(taken) :
                /\ batch' = [batch EXCEPT ![w] = b]
                /\ signals' = [signals EXCEPT ![w] = SignalsOf(b)]
                /\ newRaids' = [newRaids EXCEPT ![w] = RaidsIn(b)]
                /\ dedupUntil' = [k \in Keys |->
                     IF \E i \in DOMAIN b : Key(b[i]) = k /\ ~IsDuplicate(b, i)
                     THEN time + DedupTTL ELSE dedupUntil[k]]
           /\ stamps' = [u \in Users |->
                IF \E m \in taken : Author[m] = u
                THEN InWindow(u) \cup {[at |-> time, msg |-> m, try |-> crashes] :
                                         m \in {m \in taken : Author[m] = u}}
                ELSE stamps[u]]
           /\ sightings' = [s \in Streams |-> Sightings(s, taken)]
  /\ stage' = [stage EXCEPT ![w] = "judging"]
  /\ UNCHANGED <<time, kafkaVars, raidUntil, verdicts, decision, crashes>>

\* _cheap_checks: the first check that applies decides.
CheapChecks(m, sig, content) ==
  IF sig.duplicate THEN <<"delete", "duplicate">>
  ELSE IF sig.over THEN <<OverLimit[Stream[m]], "rate_limit">>
  ELSE IF sig.raid THEN <<"shadow", "raid_mode">>
  ELSE <<content, "content">>

\* _run_cheap_checks, _run_model and _finish: the verdicts, and raid mode for the
\* streams that tipped over.
Finish(w) ==
  /\ stage[w] = "judging"
  /\ \E content \in [Elements(batch[w]) -> Content] :
       verdicts' = [verdicts EXCEPT ![w] =
         [m \in Messages |->
            IF m \notin Elements(batch[w]) THEN Undecided
            ELSE LET v == CheapChecks(m, signals[w][m], content[m])
                 IN  [action |-> v[1], reason |-> v[2], at |-> signals[w][m].at]]]
  /\ raidUntil' = [s \in Streams |-> IF s \in newRaids[w] THEN time + RaidMode
                                                          ELSE raidUntil[s]]
  /\ stage' = [stage EXCEPT ![w] = "saving"]
  /\ UNCHANGED <<time, kafkaVars, dedupUntil, stamps, sightings, batch, signals,
                 newRaids, decision, crashes>>

DropBatch(w) ==
  /\ stage' = [stage EXCEPT ![w] = "idle"]
  /\ batch' = [batch EXCEPT ![w] = <<>>]
  /\ signals' = [signals EXCEPT ![w] = None(NoSignals)]
  /\ newRaids' = [newRaids EXCEPT ![w] = {}]
  /\ verdicts' = [verdicts EXCEPT ![w] = None(Undecided)]

\* Mistake: commit all there is in the topic.
Committed_All(w) == [s \in Streams |-> IF Home[s] = w THEN sent[s] ELSE done[s]]

\* The offsets once the batch of w is handled.
Committed(w) ==
  [s \in Streams |-> done[s] + Cardinality({m \in Elements(batch[w]) : Stream[m] = s})]

\* run_once after evaluate_batch: the verdicts are recorded and the offsets committed.
\* Module Delivery has the steps this consists of.
Save(w) ==
  /\ stage[w] = "saving"
  /\ decision' = [m \in Messages |-> IF m \in Elements(batch[w]) THEN verdicts[w][m]
                                                                 ELSE decision[m]]
  /\ done' = Committed(w)
  /\ DropBatch(w)
  /\ UNCHANGED <<time, sent, redisVars, crashes>>

\* The worker dies with a batch in hand, and the batch will be handled again.
Crash(w) ==
  /\ stage[w] # "idle"
  /\ crashes < MaxCrashes
  /\ crashes' = crashes + 1
  /\ DropBatch(w)
  /\ UNCHANGED <<time, kafkaVars, redisVars, decision>>

Next ==
  \/ Tick
  \/ \E s \in Streams : Send(s)
  \/ \E w \in Workers : Gather(w) \/ Finish(w) \/ Save(w) \/ Crash(w)

Spec == Init /\ [][Next]_vars

-------------------------------------------------------------------------------
(* Properties.                                                             *)

Signals == [duplicate : BOOLEAN, over : BOOLEAN, raid : BOOLEAN, at : 0..MaxTime]
Reasons == {"duplicate", "rate_limit", "raid_mode", "content"}
Verdict == [action : Actions, reason : Reasons, at : 1..MaxTime] \cup {Undecided}

Decided(m) == decision[m] # Undecided

\* Every variable has its type, the decided messages are those below the committed
\* offsets, and a message is in hand only where its stream is at home.
TypeOK ==
  /\ time \in 1..MaxTime
  /\ sent \in [Streams -> Nat] /\ done \in [Streams -> Nat]
  /\ \A s \in Streams : done[s] <= sent[s] /\ sent[s] <= Len(Log[s])
  /\ dedupUntil \in [Keys -> Nat]
  /\ stamps \in [Users -> SUBSET [at : 1..MaxTime, msg : Messages, try : 0..MaxCrashes]]
  /\ sightings \in [Streams -> SUBSET ((0..MaxTime) \X Users)]
  /\ raidUntil \in [Streams -> Nat]
  /\ stage \in [Workers -> {"idle", "judging", "saving"}]
  /\ batch \in [Workers -> Seq(Messages)]
  /\ \A w \in Workers : \A m \in Elements(batch[w]) : Home[Stream[m]] = w
  /\ signals \in [Workers -> [Messages -> Signals]]
  /\ newRaids \in [Workers -> SUBSET Streams]
  /\ verdicts \in [Workers -> [Messages -> Verdict]]
  /\ decision \in [Messages -> Verdict]
  /\ \A m \in Messages : Decided(m) <=> Rank[m] <= done[Stream[m]]
  /\ crashes \in 0..MaxCrashes

Copies(m, n) ==
  m # n /\ Author[m] = Author[n] /\ Text[m] = Text[n] /\ Text[m] # Unchecked

\* No two copies of a message get through within TTL_SECONDS: whichever workers race for
\* them, in one batch or in two, and whoever dies, one of them is a duplicate.
OneOriginal ==
  \A m, n \in Messages :
    /\ Copies(m, n) /\ Decided(m) /\ Decided(n)
    /\ decision[m].at <= decision[n].at /\ decision[n].at < decision[m].at + DedupTTL
    => "duplicate" \in {decision[m].reason, decision[n].reason}

\* Asked about at time t and found to be an original: on record, or in the hands of a
\* worker that will say so.
OriginalAt(m, t) ==
  \/ decision[m].at = t /\ decision[m].reason # "duplicate"
  \/ \E w \in Workers : /\ m \in Elements(batch[w])
                        /\ signals[w][m].at = t /\ ~signals[w][m].duplicate

\* The second copy is refused, never the first: a message deleted as a duplicate is the
\* copy of one that was not, less than TTL_SECONDS before.  Not kept: the key of a worker
\* that was killed condemns its own message when it is handled again.
DuplicateHasOriginal ==
  \A n \in Messages :
    decision[n].reason = "duplicate" =>
      \E m \in Messages : /\ Copies(m, n)
                          /\ \E t \in 1..decision[n].at :
                               decision[n].at < t + DedupTTL /\ OriginalAt(m, t)

\* As long as no worker was killed with a batch in hand, every duplicate has its original.
DuplicateUnlessKilled == crashes = 0 => DuplicateHasOriginal

\* What a user got past the limiter in the window that ends at t.
Passed(u, t) ==
  {m \in Messages : /\ Author[m] = u
                    /\ decision[m].reason \in {"raid_mode", "content"}
                    /\ decision[m].at > t - RateWindow /\ decision[m].at <= t}

\* The limit is exactly what gets enforced, with no bursts on a window's edge: from
\* however many workers and batches, in no window does a user get more messages past the
\* limiter than the stream of one of them allows, nor more on a stream than it allows.
RateIsExact ==
  \A u \in Users, t \in 1..MaxTime :
    /\ Passed(u, t) # {} =>
         \E m \in Passed(u, t) : Cardinality(Passed(u, t)) <= RateLimit[Stream[m]]
    /\ \A s \in Streams :
         Cardinality({m \in Passed(u, t) : Stream[m] = s}) <= RateLimit[s]

\* The new accounts that were seen on the stream of m, in the bucket m was judged in and
\* no later in the stream than m.
CrowdOf(m) ==
  {Author[n] : n \in {n \in NewAccounts : /\ Decided(n) /\ Stream[n] = Stream[m]
                                          /\ Rank[n] <= Rank[m]
                                          /\ Bucket(decision[n].at) = Bucket(decision[m].at)}}

InCrowd(m) ==
  m \in NewAccounts /\ Decided(m) /\ Cardinality(CrowdOf(m)) >= RaidThreshold

\* A raid is held back until it calms down: the new account that tips a stream over, and
\* every new account on it for RAID_MODE_SECONDS, is kept out of the chat and off the
\* model, batch by batch, from bucket to bucket and across crashes.
RaidHolds ==
  \A n, m \in NewAccounts :
    /\ InCrowd(n) /\ Decided(m)
    /\ Stream[m] = Stream[n] /\ Rank[m] >= Rank[n]
    /\ decision[m].at < decision[n].at + RaidMode
    => decision[m].reason # "content"

\* The moderators are not buried: no new account of a raid is put in the review queue.
\* Not kept: on a stream whose frequency rule escalates, the rate limit comes first.
RaidIsNotEscalated ==
  \A m \in NewAccounts : InCrowd(m) => decision[m].action # "escalate"
===============================================================================
