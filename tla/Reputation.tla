------------------------------ MODULE Reputation ------------------------------
(***************************************************************************)
(* The reputation of users (defenses/risk.py), as gather reads it, the     *)
(* thresholds use it and commit writes it back (defenses/signals.py,       *)
(* _run_model and _finish in pipeline/pipeline.py).                        *)
(*                                                                         *)
(* A score is read when a batch is gathered and written when the batch is  *)
(* finished, from the value that was read; between the two, other workers  *)
(* do the same.  Time passes in half-lives, so that a score that fades is  *)
(* halved at each tick; HalvingIsExact keeps marks whole numbers.  A       *)
(* message that a rule or a counter condemns is one with a high score      *)
(* here.                                                                   *)
(***************************************************************************)
EXTENDS Policy, FiniteSets, FiniteSetsExt

CONSTANTS
  Workers, Messages, Users,
  Author,       \* the user_id of each message
  Score,        \* what the model makes of each message, or NoScore if it fails
  Strategy,     \* the strategy in force
  BatchSize,    \* settings.batch_size
  MaxTime,      \* bound: half-lives
  MaxCrashes    \* bound: workers killed

ASSUME ConstantsAssumption ==
  /\ IsFiniteSet(Messages)
  /\ Author \in [Messages -> Users]
  /\ Score \in [Messages -> Nat \cup {NoScore}]
  /\ Strategy \in Strategies
  /\ BatchSize \in Nat \ {0} /\ MaxTime \in Nat /\ MaxCrashes \in Nat

\* A fresh violation can be halved as often as time allows without a remainder.
ASSUME HalvingIsExact == RiskUnit % 2^MaxTime = 0

\* What powers of two are, for the provers, which do not know.
ASSUME PowersOfTwo == 2^0 = 1 /\ \A n \in 0..MaxTime : 2^(n + 1) = 2 * 2^n

VARIABLES
  time,
  score, updatedAt,   \* Redis: the hash risk:u of each user
  stage,              \* each worker: idle, judging, or saving once commit has run
  batch,              \* its messages
  risk,               \* risk_by_user: what gather read, faded
  verdict,            \* what it made of the messages
  decision,           \* MySQL: the verdicts on record
  crashes

vars == <<time, score, updatedAt, stage, batch, risk, verdict, decision, crashes>>

Undecided == [action |-> "none", risk |-> 0, at |-> 0]
Nothing == [m \in Messages |-> Undecided]
Decided(m) == decision[m] # Undecided

\* Mistake: forget that time has passed.
Decayed_Never(worth, elapsed) == worth

\* decayed
Decayed(worth, elapsed) == worth \div 2^elapsed

\* risk.read: what the stored score of a user is worth now.
Today(u) == Decayed(score[u], time - updatedAt[u])

Init ==
  /\ time = 0
  /\ score = [u \in Users |-> 0] /\ updatedAt = [u \in Users |-> 0]
  /\ stage = [w \in Workers |-> "idle"]
  /\ batch = [w \in Workers |-> {}]
  /\ risk = [w \in Workers |-> [u \in Users |-> 0]]
  /\ verdict = [w \in Workers |-> Nothing]
  /\ decision = Nothing
  /\ crashes = 0

\* A batch is judged within seconds, which is nothing to a half-life of an hour.
Tick ==
  /\ time < MaxTime
  /\ \A w \in Workers : stage[w] # "judging"
  /\ time' = time + 1
  /\ UNCHANGED <<score, updatedAt, stage, batch, risk, verdict, decision, crashes>>

\* gather: each message is in the hands of one worker, that of its partition.
Gather(w) ==
  /\ stage[w] = "idle"
  /\ \E b \in SUBSET {m \in Messages : ~Decided(m)} :
       /\ b # {} /\ Cardinality(b) <= BatchSize
       /\ \A v \in Workers : batch[v] \cap b = {}
       /\ batch' = [batch EXCEPT ![w] = b]
       /\ risk' = [risk EXCEPT ![w] = [u \in Users |->
                     IF \E m \in b : Author[m] = u THEN Today(u) ELSE 0]]
  /\ stage' = [stage EXCEPT ![w] = "judging"]
  /\ UNCHANGED <<time, score, updatedAt, verdict, decision, crashes>>

Judged(w) ==
  [m \in Messages |->
     IF m \notin batch[w] THEN Undecided
     ELSE [action |-> FromScore(Score[m], Strategy, risk[w][Author[m]]),
           risk |-> risk[w][Author[m]],
           at |-> time]]

\* The users whom the verdicts of a batch convict.
Violators(w) == {Author[m] : m \in {m \in batch[w] : Judged(w)[m].action = "delete"}}

\* queue_violation: a user's violations in one batch all add to the same score that was
\* read, so the last of them is what stays.
NewScore(w, u) == risk[w][u] + RiskUnit

\* Mistake: the time of the first violation stays.
Stamped_Once(u) == IF score[u] = 0 THEN time ELSE updatedAt[u]

\* The updated_at of what is written now.
Stamped(u) == time

\* _run_model, _finish and commit.
Finish(w) ==
  /\ stage[w] = "judging"
  /\ verdict' = [verdict EXCEPT ![w] = Judged(w)]
  /\ score' = [u \in Users |-> IF u \in Violators(w) THEN NewScore(w, u) ELSE score[u]]
  /\ updatedAt' = [u \in Users |-> IF u \in Violators(w) THEN Stamped(u) ELSE updatedAt[u]]
  /\ stage' = [stage EXCEPT ![w] = "saving"]
  /\ UNCHANGED <<time, batch, risk, decision, crashes>>

DropBatch(w) ==
  /\ stage' = [stage EXCEPT ![w] = "idle"]
  /\ batch' = [batch EXCEPT ![w] = {}]
  /\ risk' = [risk EXCEPT ![w] = [u \in Users |-> 0]]
  /\ verdict' = [verdict EXCEPT ![w] = Nothing]

\* run_once after evaluate_batch; module Delivery has the steps this consists of.
Save(w) ==
  /\ stage[w] = "saving"
  /\ decision' = [m \in Messages |-> IF m \in batch[w] THEN verdict[w][m] ELSE decision[m]]
  /\ DropBatch(w)
  /\ UNCHANGED <<time, score, updatedAt, crashes>>

\* The worker dies, and its batch will be handled again, by itself or another.
Crash(w) ==
  /\ stage[w] # "idle"
  /\ crashes < MaxCrashes
  /\ crashes' = crashes + 1
  /\ DropBatch(w)
  /\ UNCHANGED <<time, score, updatedAt, decision>>

Next == Tick \/ \E w \in Workers : Gather(w) \/ Finish(w) \/ Save(w) \/ Crash(w)

Spec == Init /\ [][Next]_vars

-------------------------------------------------------------------------------
(* Properties.                                                             *)

Verdict == [action : {"allow", "escalate", "delete"}, risk : Nat, at : 0..MaxTime]
             \cup {Undecided}

\* Every variable has its type, and no score is stamped with a time to come.
TypeOK ==
  /\ time \in 0..MaxTime
  /\ score \in [Users -> Nat]
  /\ updatedAt \in [Users -> 0..MaxTime] /\ \A u \in Users : updatedAt[u] <= time
  /\ stage \in [Workers -> {"idle", "judging", "saving"}]
  /\ batch \in [Workers -> SUBSET Messages]
  /\ risk \in [Workers -> [Users -> Nat]]
  /\ verdict \in [Workers -> [Messages -> Verdict]]
  /\ decision \in [Messages -> Verdict]
  /\ crashes \in 0..MaxCrashes

\* What was made of a message: on record, or about to be.
Ruling(m) ==
  IF \E w \in Workers : verdict[w][m] # Undecided
  THEN verdict[CHOOSE w \in Workers : verdict[w][m] # Undecided][m]
  ELSE decision[m]

Violations(u) == {m \in Messages : Author[m] = u /\ Ruling(m).action = "delete"}

\* What a violation is worth today: half of it is forgotten with each half-life.
Mark(m) == RiskUnit \div 2^(time - Ruling(m).at)

\* What a user's violations are worth together.
Earned(u) == MapThenSumSet(Mark, Violations(u))

\* Nobody is judged by more than they did: whatever batches overlap, a user's score is
\* at most what their violations add up to, faded, and one bad night does not follow an
\* account around for ever.  A batch that is handled again after a crash adds twice.
ScoreIsEarned == crashes = 0 => \A u \in Users : Today(u) <= Earned(u)

\* No violation passes unnoticed: whatever other workers read before it and write after
\* it, a user's score is at least the faded mark of each single one.
OffendersAreKnown ==
  \A u \in Users : \A m \in Violations(u) : Mark(m) <= Today(u)

\* A score goes up every time someone breaks a rule.  Not kept: of several violations in
\* one batch, or in two that overlap, one is written.
EveryViolationCounts == \A u \in Users : Earned(u) <= Today(u)

\* Of two messages, the one with the higher toxicity from the user with the worse
\* reputation is never treated more mildly, whenever the two were judged and by whom.
RiskNeverHelps ==
  \A m, n \in Messages :
    /\ Decided(m) /\ Decided(n)
    /\ Score[m] # NoScore /\ Score[m] <= Score[n] /\ decision[m].risk <= decision[n].risk
    => Severity(decision[m].action) <= Severity(decision[n].action)

\* Reputation costs a user the strategy's bonus at most, and a user without a history
\* nothing.
StrictUpToBonus ==
  \A m \in Messages :
    /\ decision[m].action = "delete" =>
         /\ Score[m] + Strategy.riskBonus >= Strategy.deleteThreshold
         /\ decision[m].risk = 0 => Score[m] >= Strategy.deleteThreshold
    /\ decision[m].action = "allow" /\ Score[m] # NoScore =>
         Score[m] < Strategy.escalateThreshold
===============================================================================
