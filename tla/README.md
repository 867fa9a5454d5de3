# StreamGuard, specified in TLA+

StreamGuard moderates live chat. Producers write messages to Kafka; a group of
workers reads them in batches, asks Redis what it knows about users and streams,
applies rules and a toxicity model, records a verdict for each message in MySQL,
queues the doubtful ones for human review, publishes events and commits the
offsets. Moderators claim and decide reviews, and switch rules, through a small
web API.

This directory holds TLA+ modules of that system translated from the source, TLC
configurations for small instances, and TLAPS proofs for instances of any size.
Paths such as `pipeline/worker.py` are relative to `src/moderation/`.

## Inventory

| Component | State | Operations | Talks to |
|---|---|---|---|
| Workers, `pipeline/worker.py`, `ingest/consumer.py`, `ingest/producer.py` | place in `run_once`, the batch, the producer's queue, one MySQL connection | `run_once`, `run` (exceptions), `stop`, start-up | Kafka (poll, commit, produce), everything below |
| Decision sink, `pipeline/sink.py`, `storage/dao.py` | tables `decisions`, `review_items`, `users_risk`, whose rows are locked while a statement runs | `handle_batch`, `_save`, `dead_letter`, `_execute_retrying` | MySQL, the producer |
| Rule store, `rules/store.py`, and toggling, `api/app.py` | table `rules`; a version number in Redis; a snapshot in every worker | `toggle_rule`, `current`, `refresh` | MySQL, Redis |
| Rule engine, `rules/engine.py` | the compiled snapshot, sorted by priority | `evaluate` (first match), `frequency_limit` | the funnel |
| Review queue, `api/app.py`, `storage/dao.py`, `api/static/index.html` | table `review_items`; the card each page shows; requests in flight | claim, decide, give back stale claims; S, A, D keys, reload | MySQL |
| Redis defences, `defenses/{dedup,rate_limit,raid,signals}.py` | duplicate keys, stamps of each user, new accounts per stream and bucket, raid mode | `gather`, `commit` | Redis |
| Reputation, `defenses/risk.py` | score and time stamp of each user | read and fade, add a violation | Redis |
| Funnel, `pipeline/pipeline.py` | none between batches | cheap checks, rules, model, write-back | all of the above |
| A/B strategies, `strategies/ab.py` | strategies, loaded when a worker starts | `from_rows`, `pick`, `thresholds_for` | the funnel |
| Classifier, `ml/classifier.py` | the model that could be loaded, a health flag | `load_classifier`, `score_batch` | the funnel |
| MySQL schema and connection, `sql/`, `storage/mysql.py` | the tables | autocommit statements, row locks | |
| Load test, `loadtest/bench.py`, `scripts/chaos_test.sh` | the verdicts it has counted | send, collect, report | the topics |
| Statistics and dashboards, metrics, tracing, configuration, chat generator, command line helpers, deployment | nothing the platform acts on | | |

### What is hard about it

- **Interleaving.** MySQL runs in autocommit mode, so a batch is six separate
  effects in three systems, and each web request is several statements. Partitions
  change hands between any two of them; pages send a second request before the
  first is answered. Statements of several workers lock the same rows.
- **Failure.** A worker may be killed, or a call may raise, between any two steps;
  Kafka hands the same messages out again; Redis counters were already moved by the
  first attempt; events sit in the producer's memory.
- **Staleness.** Rules are a snapshot, reputation is read at the start of a batch and
  written at its end, the list of messages already on record is read before the
  insert, a claim expires while its moderator is still thinking.
- **Time.** Duplicate keys and raid mode expire, rate windows slide, raid buckets have
  edges, scores fade.

`PROJECT.json` lists each hazard with the line where it bites.

### What makes each component correct

- Workers and sink: no offset is committed over a message without a decision; the
  record comes before the event and before the review item; a decision on record is
  final; everything is decided and announced in the end; violations are counted once.
- Rules: a worker that holds old rules can tell, and every worker catches up.
- Row locks: statements never wait for each other in a circle, and a retry never adds
  up a batch twice.
- Funnel: every message gets one verdict, of the most important thing that applies to
  it, and the same one from any worker that knows as much.
- Load test: what it calls accounted for is on record.
- Review queue: no message in front of two moderators; a human decision is final;
  oldest first; every item is decided in the end.
- Defences: of two copies one is a duplicate; the limit holds in every window; a raid
  is held back from the account that tips it over.
- Reputation: every violation leaves its mark, nobody is judged by more than they did,
  a worse reputation never helps and costs the strategy's bonus at most.

## Modules

```
AuditTrail  <--- implemented by ---  Delivery     <- MCDelivery,    DeliveryProofs
                        Delivery <-  Bench        <- MCBench
               DeliveryProofs, Bench              <- ExactlyOnceProofs
                                     RiskLocks    <- MCRiskLocks,   RiskLocksProofs
                                     RuleReload   <- MCRuleReload,  RuleReloadProofs
                                     ReviewQueue  <- MCReviewQueue, ReviewQueueProofs
                                     Defenses     <- MCDefenses,    DefensesProofs
                         Policy  <-  Reputation   <- MCReputation,  ReputationProofs
                         Policy  <-  Funnel       <- MCFunnel,      FunnelProofs
```

Operators with an underscore in their names (`Commit_Unfenced`, `Stale_Any`, ...) are
plausible mistakes in the operation they are named after. No specification uses them;
each shows that a property fails when the code has that mistake.

**AuditTrail** is what the platform promises about its record, without workers: a
verdict is never revised, and offsets move forward, over messages that have a verdict,
could not be read, or were in a batch that raised an exception. That last exception is
what the code gives. The promise of `docs/RELIABILITY.md` is stronger and is refuted
below.

**Delivery** is `Worker.run_once` with the sink it calls and the consumer group it lives
in. `Fetch` is the poll and `_read` (unreadable entries go to the dead-letter topic);
`Judge`, `Check` (`existing_msg_ids`), `Record` (`INSERT IGNORE`), `EnqueueReviews`,
`BumpRisks`, `Publish` and `Commit` are the rest of the batch, one action for each
call. `CallRaises`, `QueryRaises`, `PublishRaises` and `JudgeRaises` are what `run()`
catches: the batch is abandoned, and as nothing seeks back, the fetch position stays
where it is. `Crash`, `Shutdown`, `LeaveGroup`, `Restart`, `Assign` and `Revoke` are the
process and the group: an assigned partition is read from the committed offset; a
commit covers the positions of the partitions the worker still owns. The verdict is any
of `MayGet[m]`, and another one on another attempt, because counters, rules and model
move between the two. Not modelled: lag reporting, and the order of events within the
producer's queue.

**Bench** runs the load test against the workers of Delivery: it sends the log, counts
the verdicts on `moderation.decisions` and ends when none is missing or its deadline has
passed. How far it has read is any number up to what is on the topic.
`scripts/chaos_test.sh` kills a worker meanwhile and takes the report as its proof that
nothing was lost, so the question is what a count of events says about the record.

**RiskLocks** looks into the one statement of Delivery that several workers run over the
same rows, `bump_user_risks`. MySQL locks a row for each user of the list, in the order
of the list (`LockRow`, `Turn`), holds the locks to the end of the statement, and may reject
a statement that waits or has not come to its end (`Reject`: also gaps between rows are
locked, so no circle over the rows is asked for); `Catch` is `_execute_retrying`, which
tries again after that error and no other. `LoseAnswer` is the statement that MySQL has
carried out and whose answer is lost.

**RuleReload** is `toggle_rule`, which changes the row in MySQL and then increments the
number in Redis, and `RuleStore`, which reads the number at most once in `poll_seconds`
and, if it is different, loads the rules and remembers the number it read *before*. A
toggle may come between any two of these; the second half of one may be lost; Redis,
which is deployed without a volume, may come back with an older number.

**ReviewQueue** is the table `review_items`, the handlers `claim` and `decide` with one
action for each statement, and the page, which goes on sending requests while others
are in flight. `released` remembers which items a stale claim has ever given back:
two moderators may well have such an item in front of them.

**Defenses** is the batch as Redis sees it: `gather`, one transaction that answers the
duplicate, rate and raid questions of a batch; the cheap checks in their order; the
write-back of raid mode; and, as one step, the recording of verdicts that Delivery has
in detail. Time is counted in ticks, so keys and stamps expire by comparison.

**Policy** is the arithmetic of a toxicity score: `thresholds_for` and `_from_score`,
over whole numbers, multiplied out so that nothing is rounded. **Reputation** puts it in
a loop: scores are read by `gather`, used, and written back by `commit`, by workers that
overlap. A tick is a half-life, so fading is halving. A message that a rule or a counter
condemns is one with a high score.

**Funnel** is `evaluate_batch` itself: `Evaluate` is the list of verdicts it returns, built
from the rule engine (`Sorted`, `Hits`, `RateSettings`), the strategies (`FromRows`,
`Pick`), the classifier behind its guard (`ScoreBatch`) and Policy, in the order of
`_cheap_checks` and `_run_model`. Several workers hold snapshots, strategies and models
of their own. What Redis says about a batch, and when a snapshot is renewed, is left
open here: Defenses, Reputation and RuleReload are about those. `Nothing`, in `work`,
is a worker between two batches. The bound in `EvaluateBatch`, one worker at a time,
loses nothing: judging workers share no state.

How they fit together: Delivery leaves open what Funnel decides (`MayGet`); Funnel leaves
open what Redis answers, which is Defenses and Reputation, and these take as one step
what Delivery spells out. Delivery's `BumpRisks` is one atomic step, into which
RiskLocks looks. ReviewQueue's `Enqueue` is Delivery's `EnqueueReviews`.

## Runs

All model values; two of everything that races. Numbers are distinct states.

| Run | Instance | What it shows |
|---|---|---|
| `delivery_safety` (1.3 M) | two workers, one partition `<<m1, m1, m2>>`: m1 was sent twice, m2 makes judging raise; one crash, one revocation, one failed call | `RecordComesFirst`; `NoSilentLoss`; `Inductive`, the invariant of the proof; `ImplementsAuditTrail`, the refinement |
| `delivery_no_errors` (3.3 M) | two workers, two partitions; one crash, one shutdown, one revocation, no failed call | while no partition is taken from a live worker, `EventsMatchRecord`, `ReviewsMatchRecord`, `RiskNeverOvercounts`, and `RiskCountsHonest` |
| `bench` (0.1 M) | a load test over one partition with an unreadable last entry, under fairness; one crash, one revocation | `EveryMessageDecided`, `GroupCatchesUp`, `ReviewedUnlessKilled`, `BenchAccountsForAll`; `AccountedMeansDecided` while no partition is taken from a live worker |
| `rules` (0.4 M) | one worker, two rules, one of which does not compile, under fairness; three toggles, one lost bump, one failed read, one exit, one rollback of Redis | `StaleWorkersCanTell` and `WorkersConverge` unless Redis goes back, `NumbersSettle` even then |
| `review_safety` (2.3 M) | two moderators, two items, two requests at a time; one failure, one reload | `NoDoubleHold`, `DecidedByHolder`, `DecisionIsFinal`, `OldestFirst`, `Inductive` |
| `review_liveness` (61 k) | two moderators, one item, two requests at a time, under fairness; one failure, one reload | `EveryItemDecided` |
| `defenses` (0.5 M) | two new accounts paste a line four times into two streams on two workers, in batches of up to three; limits one and two, threshold two, five ticks, TTL two, windows two and three, raid mode three; one crash | `TypeOK`, `OneOriginal`, `DuplicateUnlessKilled`, `RateIsExact`, `RaidHolds` |
| `reputation` (0.7 M) | two users, five messages around the thresholds of strategy A, two workers, two half-lives; one crash | `OffendersAreKnown`, `ScoreIsEarned`, `RiskNeverHelps`, `StrictUpToBonus` |
| `risk_locks` (12 k) | three workers whose batches share three users in a circle, three attempts, under fairness; three rejected statements, one other failure | `Inductive`, `NoCircularWait`, `WrittenOnce`, `EveryBumpLands` |
| `funnel` (0.2 M) | two workers, two streams, a rule of each type, two of them tied, two strategies or none, both models; one toggle, one new policy, every restart | `TypeOK`, `WorkersAgree`, `TopRuleDecides`, `NothingFallsThrough`, `RaidsAreHidden` |
| `delivery_blip` | one worker, two messages, one failed call | violation, see below |
| `delivery_lost_review` | two workers, one escalated message, one crash | violation, see below |

### Bounds, and why they are enough

Every bound is a constant whose name begins with `Max`, or `BatchSize` and `Slots`.

- *Two workers, two moderators, two overlapping requests*: nearly every hazard above is
  a race of two, and what a third could add is covered by the proofs, which bound none
  of them. RiskLocks has three workers, since a circle of three is the shortest in which
  no two workers wait for each other. `rules` has one: workers share nothing in
  RuleReload but the bounds, and the theorem speaks of any number.
- *Two messages, batches of two*: one message that is settled and one that is not, in
  one batch or two, on one partition or two. A message that was sent twice
  fits into one batch or falls into two. An unreadable entry is put where it matters:
  last in its partition, where no later message brings its offset along. Defenses has
  batches of three, so that a limit is passed and a raid starts within one batch and in
  the middle of it.
- *One crash, one revocation, one failed call*: each of the harmful behaviours below
  needs one; the runs combine one of each.
- *Three toggles*: one that a reload overlaps, one that Redis never hears of, and one that
  must be noticed later.
- *Three rejected statements and three attempts*: a statement may use up its attempts,
  and a statement may be carried out after two that were not.
- *Five ticks*: a key expires and is claimed anew, a window slides, a raid crosses a
  bucket's edge, and its mode runs out.
- *Two half-lives*: a score fades by a half and by a quarter. `RiskUnit` is 4, so that
  halving is exact (`HalvingIsExact`).
- *Five rules on two streams*: one of each type, rules for one stream and for all, and a
  message that trips a rule in scope and one that is not.

`CHECK_DEADLOCK FALSE` is set where time, messages or batches run out by construction
(Defenses, Reputation and RiskLocks); there the system does stop.
Symmetry is used in safety runs only, over sets that no property or `CHOOSE` tells apart.

### Fairness

- Delivery: a running worker takes its next step, queued events are sent, dead workers
  are restarted, free partitions are assigned (weak). Polls are strongly fair, because
  Kafka may answer a poll with nothing but errors, though not for ever.
- Bench: Delivery's, and a load test that goes on reading (weak). It need not give up:
  that is a deadline, which may pass at any time before the last verdict is in.
- RiskLocks: workers go on with their loops and MySQL with a statement that has all its
  locks (weak). Taking a lock is strongly fair: other statements lock and unlock the row
  again and again, and MySQL serves those that wait for it in turn. Nothing is assumed
  of `Reject`, `Fail` and `LoseAnswer`.
- RuleReload: the API finishes its request, workers go on, time passes (weak). The check
  of the number is strongly fair: `current()` runs at every batch, but a worker that is
  judging is not checking, so weak fairness would promise nothing.
- ReviewQueue: the server answers, claims age (weak). Moderators work: one who again and
  again has an open item on the card decides one, and one who has none asks for one
  (strong, because requests in flight and reloads come in between). Nothing in the page
  asks by itself once it is "caught up", so without this nothing could be promised.

## Proofs

All proofs hold for every value of the constants that the modules' assumptions admit:
any number of workers, messages, users, crashes and so on.

- **DeliveryProofs.** `InductiveInvariant`: what an owner has fetched is answered or in
  its own hands (`FetchedIsAnsweredOrInHand`), and a worker's place in `run_once` tells
  how far its batch has got (`BatchProgress`). The first is what makes a commit safe that
  names no offsets and simply commits all positions; the second is needed because the
  commit comes long after the batch was read. `NothingLostSilently`,
  `RecordAlwaysFirst`, `RecordNeverRevised`, `TypeCorrect` and the refinement of
  AuditTrail (`Refinement`: each step is a `Decide`, an `Acknowledge`, an `Excuse` or a
  stutter) follow. `CommittedMeansDecided` adds the hypothesis that nothing raises
  (`MaxFailures = 0` and no poison) and proves that then nothing is ever abandoned.
- **ExactlyOnceProofs.** What delivery promises while no partition is taken from a live
  worker (`OneHand`), for any number of crashes and shutdowns. The invariant `ExactlyOnce`
  says that no message is in two hands or twice in one, that a message about to be
  recorded, queued, announced or counted was not on record when its worker looked, and
  that no user has more violations than the record and the batches in hand explain. From
  it follow `EventsAgreeWithRecord`, `ReviewsAgreeWithRecord` and `NoViolationTwice`, and,
  if in addition nothing raises (`MaxFailures = 0`), `CountsAreHonest`. These theorems
  have the hypothesis `EachSentOnce`, that the log has each message once: the producer is
  not idempotent, and two copies in one batch do count twice. `BenchRefinesDelivery` is
  that a load test changes nothing for the workers, which brings the invariant over to
  Bench; `AccountedIsDecided` then counts: events of different verdicts are events of
  different messages, so when as many have come in as were sent, all are on record.
- **RuleReloadProofs.** `StaleIsVisible`: as long as Redis has kept its numbers
  (`rollbacks = 0`), a worker whose number is the one in Redis has the rules that are
  in MySQL. The invariant needs that no worker has a number Redis has not reached
  (`NoNumberAhead`): otherwise the next bump could meet it.
- **ReviewQueueProofs.** `NobodySharesACard`, `HolderDecides` and `HandedOutInOrder` from
  an invariant with two parts: an item a moderator holds in any form, on the card, in an
  answer on its way or in a decision being sent, is claimed by them (`HeldIsClaimed`);
  and a request that has selected an item and not yet claimed it has selected one older
  than all that wait (`ClaimsAreOldest`). `DecisionStaysFinal` needs only the types.
- **RiskLocksProofs.** `NoDeadlock`: no group of workers, of whatever size, waits in a
  circle. The invariant `LocksInOrder` says that the rows a statement holds are the
  smallest of its list, so that a worker that waits for a row holds only smaller ones
  (`WaitingClimbs`). In a group where everyone waits for another, the greatest of the
  rows they wait for is held by one of them, which waits for a greater one still; that
  there is a greatest one (`Greatest`) needs that users are finitely many. `CountedOnce`
  needs that what has been left is behind its worker for good (`Behind`): the batch at
  hand is not among what was counted or given up, so that adding it up counts it once.
- **DefensesProofs.** All about what gather has answered so far, in hand or on record
  (`Answers`). `Bookkeeping` says that batches are the next messages of their streams, in
  order; it needs `LogAssumption`, that each message is sent once and the log is finite.
  Duplicates (`OneCopyGetsThrough`, `DuplicatesHaveOriginals`): a key lasts as long as the
  answer that set it (`KeyKept`), so two originals with one key are a TTL apart; and while
  nobody is killed each key that is set has an answer that owns it. Rates
  (`NobodyIsTooFast`): each answer within the window still has its stamp, and of any
  messages that got past the limiter within a window the newest was admitted when the
  others were stamped; this has the hypothesis `SharedLimits`, that the streams of one
  worker share a limit, since a batch is asked about under its first message's. Raids
  (`RaidsAreHeldBack`): every new account that was answered is among the sightings of its
  bucket (`Seen`), and a raid that a message has tipped over is in Redis, for as long as
  raid mode lasts, or on its way in the hands of the worker that saw it (`RaidKnown`).
- **ReputationProofs.** `StricterNeverMilder`: the three-way threshold is monotone in
  score and reputation, for every strategy, also one whose escalation threshold is above
  its deletion threshold. From it and from `PolicyIsFollowed` (every verdict is what the
  policy makes of what was read) follow `RiskNeverHelpsAnyone` and
  `BonusBoundsStrictness`. `EveryOffenderIsKnown`, with any number of crashes: a user with a
  verdict against them has at least a fresh violation's score, stamped no earlier
  (`Noticed`), because what is written is never less than that, and is stamped now; the
  rest is that fading is monotone. `NobodyIsSlandered`: what a worker has read is covered by
  what its user had earned then, nothing is forgotten before the batch is finished, and
  the new violation is among those it adds (`ReadIsEarned`); a half-life halves what was
  earned exactly (`HalvingIsExact`), and a score at least. The provers know nothing of
  powers or of sums over sets. `PowersOfTwo` says what they need of the first, for the
  exponents that occur, and TLC evaluates it. That the second do not depend on the
  order, grow with the set and double with its terms is proved from their definition in
  the library, with induction stated for sets of numbers and sets of sets (`Induction`,
  `SetInduction`), which no prover has to instantiate.
- **FunnelProofs.** For any rules, strategies, models and batches. Lists sorted by a key
  that tells their members apart have only one order (`SameList`), hence
  `AnyWorkerWillDo`: two workers with the same snapshot, strategies and model give the
  same verdicts. `VerdictFacts` says what the verdict on one message of a batch is, in terms
  of the cheap checks, the rules that hit and the model, through the three lists and the
  places in them that `evaluate_batch` works with; `MostImportantWins`,
  `EveryMessageIsJudged` and `RaidsStayHidden` follow. The invariant `AsEvaluated` is
  that a worker knows what MySQL may have told it, and that its verdicts are what
  `Evaluate` makes of that. Tables are assumed finite, with names that can be compared, and
  the default strategies sorted, as they are.

Only model-checked: everything about liveness and fairness, which is beyond the prover:
`EveryMessageDecided`, `GroupCatchesUp`, `ReviewedUnlessKilled`, `BenchAccountsForAll`,
`WorkersConverge`, `NumbersSettle`, `EveryItemDecided` and `EveryBumpLands`. Every safety
property of a passing run is a theorem.

## Where the code does otherwise

Two runs end in a counterexample, on purpose.

- `delivery_blip`: `docs/RELIABILITY.md:64-66` says that after a failed write the worker
  "takes the batch again a moment later". It does not: `run()` polls on, and the next
  commit covers the batch that failed. Its messages are neither decided nor handed out
  again.
- `delivery_lost_review`: `docs/RELIABILITY.md:12-14` says that nothing is lost when a
  worker dies mid-batch. A worker killed after `record_decisions` and before
  `enqueue_reviews` leaves escalated messages on record that no moderator ever sees,
  because the replay leaves alone what is on record. The violation count and the events
  of the batch are lost in the same way.

The modules state further properties that documents, comments or names promise and the
code does not keep. They are marked "Not kept" and no run is spent on them:

| Property | What happens instead |
|---|---|
| `Delivery!OnlyPoisonIsLost` | `evaluate_batch` raising on one message abandons its whole batch (`tests/test_worker.py:86` names the intent) |
| `Delivery!WorkerSurvivesBlip` | the one MySQL connection of a worker is never opened again (`docs/RELIABILITY.md:66`) |
| `Delivery!EventsMatchRecord`, without its condition | two workers that hold the same message after a rebalance both find it new and publish different verdicts, one of which is on record |
| `RuleReload!StaleWorkersCanTell`, after a rollback | Redis counts up again to a number a worker already holds for other rules |
| `RuleReload!WorkersConverge`, after a lost bump | a toggle that changed its row and not Redis reaches no running worker |
| `RuleReload!NoBatchLostToRules` | a pattern that does not compile fails a batch of every worker at every poll while the rule is enabled |
| `RuleReload!RecordNamesVersion` | `decisions` has no column for the rule's version (`docs/RELIABILITY.md:78-79`) |
| `ReviewQueue!CaughtUpMeansEmpty` | a page that loses the race for the oldest item is told that the queue is empty (`api/app.py:75-76`) |
| `Defenses!DuplicateHasOriginal` | a worker killed after `gather` leaves a key that condemns the only copy when it is handled again |
| `Defenses!RateIsExact`, with streams of different limits | a batch is held to the limit of its first message's stream (`pipeline/pipeline.py:69`) |
| `Defenses!RaidIsNotEscalated` | the rate limit comes before raid mode, and its action may be to escalate (`docs/RELIABILITY.md:86-88`) |
| `Defenses!RaidHolds`, counting attempts that were killed | a raid that only a killed attempt has seen is forgotten: raid mode is written by `commit()` (`defenses/signals.py:110`) |
| `Funnel!OwnLimit` | see `RateIsExact` above: a batch of several streams is asked about under one limit |
| `Funnel!DeadModelShows` | a batch that leaves Detoxify nothing to score sets its health gauge back to 1 (`docs/RELIABILITY.md:29-32`) |
| `Funnel!WorkersAgree`, with different models or tied rules | a worker in which Detoxify does not load judges by the word list, and nothing compares workers (`ml/classifier.py:104`); of two rules of the same priority the one MySQL returns first wins |
| `Funnel!PoliciesSettle` | a worker that runs never reads table `strategies` again (`pipeline/worker.py:140`) |
| `Bench!NotLost` | an event may be lost with a worker that was killed, and the report says "gave up waiting, not lost" (`loadtest/bench.py:86`) |
| `Bench!AccountedMeansDecided`, without its condition | two verdicts on one message make up for one that is missing |
| `Reputation!EveryViolationCounts` | of several violations in one batch, or in two that overlap, one is written (`defenses/risk.py:4`) |

Two more of the same kind. The producer is not idempotent, so a message may be in the log
twice, and twice in one batch: neither copy is on record when the sink looks, and its
violation counts twice. `RiskNeverOvercounts` and `EventsMatchRecord` are therefore
checked on logs without repeats, and proved for those (ExactlyOnceProofs); the properties
of `delivery_safety`, and the theorems of DeliveryProofs, hold with them. And `docs/RELIABILITY.md:72-74` says that without Redis
the rules and the model keep working: `gather` raises, and the batch is abandoned like
any other that raises (`JudgeRaises`).

## Not modelled

- Which texts a pattern matches, the hash of a stream's id, the word lists and what
  Detoxify computes are data, given as constants.
- Statistics, metrics, tracing and rendering change nothing the platform acts on.
- The generator of random chat and the command line helpers are outside the platform; of
  the load test, the latencies and the lag it prints are left out.
- Row locks of statements other than `bump_user_risks`. `record_decisions` inserts in the
  order of the batch and may be rejected as well; Delivery has that as `CallRaises`.
- Configuration and deployment are constants and assumptions: six partitions, one Redis
  without a volume, one topic for each kind of event.

## Plan

In the order of importance.

1. Delivery with AuditTrail: the path of a message, the heart of the system. *Done,
   proved.*
2. RuleReload. *Done, safety proved.*
3. ReviewQueue. *Done, safety proved.*
4. Defenses. *Done, safety proved.*
5. Policy and Reputation. *Done, safety proved.*
6. RiskLocks. *Done, safety proved.*
7. Funnel. *Done, proved.*
8. Bench over Delivery. *Done, safety proved.*
9. Next: the proofs' common lemmas on places and sums in one place; that Funnel's verdicts
   are among those Delivery leaves open (`MayGet`), and the batch of Defenses and of
   Reputation an abstraction of Delivery's, as refinements.
