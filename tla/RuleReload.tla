------------------------------ MODULE RuleReload ------------------------------
(***************************************************************************)
(* Hot reload of the ruleset (rules/store.py, toggle_rule in api/app.py,   *)
(* load_rules and set_rule_enabled in storage/dao.py).                     *)
(*                                                                         *)
(* The rules live in MySQL.  A toggle updates the row and then, in a       *)
(* second step, increments a version number in Redis.  A worker keeps a    *)
(* snapshot of the rules; every poll_seconds, when it has a batch to judge,*)
(* it reads the version number and, if it differs from the one it has,     *)
(* loads the rules.  A toggle may come between any two of these steps, and *)
(* any of the calls may fail.                                              *)
(***************************************************************************)
EXTENDS Integers, FiniteSets

CONSTANTS
  Workers,        \* worker processes, each with one RuleStore
  Rules,          \* the rows of table rules
  BadRules,       \* rows whose regular expression does not compile
  Messages,       \* messages that a rule may match
  NoRule,         \* rule_id of a decision that no rule made
  MaxToggles,     \* bound: rule changes
  MaxLostBumps,   \* bound: toggles that never reach Redis
  MaxRollbacks,   \* bound: times Redis comes back with an older version number
  MaxFailures,    \* bound: reads of Redis or MySQL that fail
  MaxExits        \* bound: workers that stop

ASSUME ConstantsAssumption ==
  /\ BadRules \subseteq Rules
  /\ NoRule \notin Rules
  /\ MaxToggles \in Nat /\ MaxLostBumps \in Nat /\ MaxRollbacks \in Nat
  /\ MaxFailures \in Nat /\ MaxExits \in Nat

VARIABLES
  \* MySQL
  enabled,      \* rules.enabled
  rowVersion,   \* rules.version
  ruleOf,       \* decisions.rule_id of each message judged so far
  \* Redis
  version,      \* rules:version, 0 when the key is absent
  \* the API
  unbumped,     \* toggles that have changed their row and not yet Redis
  \* each worker's RuleStore
  stage,        \* down, idle, loading (the version moved) or judging (a batch)
  due,          \* whether poll_seconds have passed since _checked_at
  seen,         \* the version refresh() has read, while loading
  stored,       \* _version, -1 before the first load
  engine,       \* _engine: the enabled rules of the snapshot, with their versions
  \* history and bounds
  unannounced,  \* a toggle was lost and no toggle has reached Redis since
  cause,        \* for each message judged, the version of the rule that decided
  toggles, lostBumps, rollbacks, failures, exits

mysqlVars == <<enabled, rowVersion, ruleOf>>
storeVars == <<due, seen, stored, engine>>
apiVars == <<version, unbumped, unannounced, toggles, lostBumps>>
boundVars == <<rollbacks, failures, exits>>
vars == <<mysqlVars, cause, stage, storeVars, apiVars, boundVars>>

Stages == {"down", "idle", "loading", "judging"}

\* RuleEngine(load_rules()): what a worker would hold if it loaded now.
Snapshot == {<<r, rowVersion[r]>> : r \in {r \in Rules : enabled[r]}}

Compiles == \A r \in BadRules : ~enabled[r]
Judged(m) == cause[m] # 0

Init ==
  /\ enabled \in [Rules -> BOOLEAN]
  /\ \A r \in BadRules : ~enabled[r]
  /\ rowVersion = [r \in Rules |-> 1]
  /\ ruleOf = [m \in Messages |-> NoRule]
  /\ version = 0
  /\ unbumped = 0
  /\ stage = [w \in Workers |-> "down"]
  /\ due = [w \in Workers |-> TRUE]
  /\ seen = [w \in Workers |-> -1]
  /\ stored = [w \in Workers |-> -1]
  /\ engine = [w \in Workers |-> {}]
  /\ unannounced = FALSE
  /\ cause = [m \in Messages |-> 0]
  /\ toggles = 0 /\ lostBumps = 0 /\ rollbacks = 0 /\ failures = 0 /\ exits = 0

-------------------------------------------------------------------------------
(* The API: toggle_rule.                                                   *)

\* set_rule_enabled: one UPDATE; it counts as a change even when the flag stays.
SetRuleEnabled(r, flag) ==
  /\ toggles < MaxToggles
  /\ toggles' = toggles + 1
  /\ enabled' = [enabled EXCEPT ![r] = flag]
  /\ rowVersion' = [rowVersion EXCEPT ![r] = @ + 1]
  /\ unbumped' = unbumped + 1
  /\ UNCHANGED <<ruleOf, cause, version, unannounced, lostBumps, stage, storeVars,
                 boundVars>>

\* Mistake: publish a constant instead of a new number.
BumpVersion_Set ==
  /\ unbumped > 0
  /\ version' = 1
  /\ unbumped' = unbumped - 1
  /\ unannounced' = FALSE
  /\ UNCHANGED <<mysqlVars, cause, toggles, lostBumps, stage, storeVars, boundVars>>

\* INCR rules:version.
BumpVersion ==
  /\ unbumped > 0
  /\ version' = version + 1
  /\ unbumped' = unbumped - 1
  /\ unannounced' = FALSE
  /\ UNCHANGED <<mysqlVars, cause, toggles, lostBumps, stage, storeVars, boundVars>>

\* Redis is away, or the API process dies, after the row has changed.
LoseBump ==
  /\ unbumped > 0
  /\ lostBumps < MaxLostBumps
  /\ lostBumps' = lostBumps + 1
  /\ unbumped' = unbumped - 1
  /\ unannounced' = TRUE
  /\ UNCHANGED <<mysqlVars, cause, version, toggles, stage, storeVars, boundVars>>

\* Redis restarts from an older dump, or from nothing.
Rollback ==
  /\ rollbacks < MaxRollbacks
  /\ rollbacks' = rollbacks + 1
  /\ version' \in 0..version
  /\ UNCHANGED <<mysqlVars, cause, unbumped, unannounced, toggles, lostBumps, stage,
                 storeVars, failures, exits>>

-------------------------------------------------------------------------------
(* A worker: RuleStore.current() and refresh(), once for each batch.       *)

\* Mistake: only a larger version is news.
Moved_OnlyUp(w) == version > stored[w]

\* refresh(): the number differs from the one the snapshot was loaded under.
Moved(w) == version # stored[w]

\* build_worker: RuleStore.__init__ starts from nothing and refreshes.
Start(w) ==
  /\ stage[w] = "down"
  /\ stage' = [stage EXCEPT ![w] = "loading"]
  /\ due' = [due EXCEPT ![w] = FALSE]
  /\ seen' = [seen EXCEPT ![w] = version]
  /\ stored' = [stored EXCEPT ![w] = -1]
  /\ engine' = [engine EXCEPT ![w] = {}]
  /\ UNCHANGED <<mysqlVars, cause, apiVars, boundVars>>

\* current() within poll_seconds of the last check: the snapshot as it is.
UseSnapshot(w) ==
  /\ stage[w] = "idle"
  /\ ~due[w]
  /\ stage' = [stage EXCEPT ![w] = "judging"]
  /\ UNCHANGED <<mysqlVars, cause, storeVars, apiVars, boundVars>>

\* current() after poll_seconds: refresh() notes the time and reads the number.
CheckVersion(w) ==
  /\ stage[w] = "idle"
  /\ due[w]
  /\ due' = [due EXCEPT ![w] = FALSE]
  /\ IF Moved(w) THEN /\ stage' = [stage EXCEPT ![w] = "loading"]
                      /\ seen' = [seen EXCEPT ![w] = version]
                 ELSE /\ stage' = [stage EXCEPT ![w] = "judging"]
                      /\ UNCHANGED seen
  /\ UNCHANGED <<mysqlVars, cause, stored, engine, apiVars, boundVars>>

\* The number is remembered with the snapshot, as it was read before the load.  The
\* constructor's refresh serves no batch.
LoadRules(w) ==
  /\ stage[w] = "loading"
  /\ Compiles
  /\ engine' = [engine EXCEPT ![w] = Snapshot]
  /\ stored' = [stored EXCEPT ![w] = seen[w]]
  /\ stage' = [stage EXCEPT ![w] = IF stored[w] = -1 THEN "idle" ELSE "judging"]
  /\ UNCHANGED <<mysqlVars, cause, due, seen, apiVars, boundVars>>

\* An exception leaves the snapshot and its number alone.  In the constructor it
\* ends the process, otherwise the batch.
GiveUp(w) ==
  stage' = [stage EXCEPT ![w] = IF stored[w] = -1 THEN "down" ELSE "idle"]

\* Mistake: remember the number before the rules are in.
LoadFails_VersionFirst(w) ==
  /\ stage[w] = "loading"
  /\ failures < MaxFailures
  /\ failures' = failures + 1
  /\ GiveUp(w)
  /\ stored' = [stored EXCEPT ![w] = seen[w]]
  /\ UNCHANGED <<mysqlVars, cause, due, seen, engine, apiVars, rollbacks, exits>>

\* load_rules fails.
LoadFails(w) ==
  /\ stage[w] = "loading"
  /\ failures < MaxFailures
  /\ failures' = failures + 1
  /\ GiveUp(w)
  /\ UNCHANGED <<mysqlVars, cause, storeVars, apiVars, rollbacks, exits>>

\* RuleEngine cannot compile one of the rules.
CompileFails(w) ==
  /\ stage[w] = "loading"
  /\ ~Compiles
  /\ GiveUp(w)
  /\ UNCHANGED <<mysqlVars, cause, storeVars, apiVars, boundVars>>

\* read_version fails; the time of the check has already been noted.
CheckFails(w) ==
  /\ stage[w] = "idle"
  /\ due[w]
  /\ failures < MaxFailures
  /\ failures' = failures + 1
  /\ due' = [due EXCEPT ![w] = FALSE]
  /\ UNCHANGED <<mysqlVars, cause, stage, seen, stored, engine, apiVars, rollbacks, exits>>

\* A batch is judged: a message may be matched by a rule of the snapshot, and then
\* its decision names the rule.
Judge(w) ==
  /\ stage[w] = "judging"
  /\ stage' = [stage EXCEPT ![w] = "idle"]
  /\ \/ UNCHANGED <<ruleOf, cause>>
     \/ \E m \in Messages : \E hit \in engine[w] :
          /\ ~Judged(m)
          /\ ruleOf' = [ruleOf EXCEPT ![m] = hit[1]]
          /\ cause' = [cause EXCEPT ![m] = hit[2]]
  /\ UNCHANGED <<enabled, rowVersion, storeVars, apiVars, boundVars>>

\* The process stops or dies.
Exit(w) ==
  /\ stage[w] # "down"
  /\ exits < MaxExits
  /\ exits' = exits + 1
  /\ stage' = [stage EXCEPT ![w] = "down"]
  /\ UNCHANGED <<mysqlVars, cause, storeVars, apiVars, rollbacks, failures>>

\* poll_seconds pass on the worker's clock.
PollDue(w) ==
  /\ ~due[w]
  /\ due' = [due EXCEPT ![w] = TRUE]
  /\ UNCHANGED <<mysqlVars, cause, stage, seen, stored, engine, apiVars, boundVars>>

-------------------------------------------------------------------------------
Next ==
  \/ \E r \in Rules, flag \in BOOLEAN : SetRuleEnabled(r, flag)
  \/ BumpVersion \/ LoseBump \/ Rollback
  \/ \E w \in Workers :
       \/ Start(w) \/ UseSnapshot(w) \/ CheckVersion(w) \/ LoadRules(w) \/ LoadFails(w)
       \/ CompileFails(w) \/ CheckFails(w) \/ Judge(w) \/ Exit(w) \/ PollDue(w)

Spec == Init /\ [][Next]_vars

(***************************************************************************)
(* Fairness.  The API goes on with a request and workers go on with their  *)
(* batches; time passes; a stopped worker is started again.  There is      *)
(* always another batch on a live stream, and CheckVersion needs strong    *)
(* fairness because a worker that is judging is not checking.              *)
(***************************************************************************)
Fairness ==
  /\ WF_vars(BumpVersion)
  /\ \A w \in Workers :
       /\ WF_vars(Start(w)) /\ WF_vars(LoadRules(w)) /\ WF_vars(CompileFails(w))
       /\ WF_vars(Judge(w)) /\ WF_vars(PollDue(w)) /\ SF_vars(CheckVersion(w))

FairSpec == Spec /\ Fairness

-------------------------------------------------------------------------------
(* Properties.                                                             *)

\* Every variable has its type; a judged message's cause is a real row version.
TypeOK ==
  /\ enabled \in [Rules -> BOOLEAN]
  /\ rowVersion \in [Rules -> Nat \ {0}]
  /\ ruleOf \in [Messages -> Rules \cup {NoRule}]
  /\ version \in Nat
  /\ unbumped \in Nat
  /\ stage \in [Workers -> Stages]
  /\ due \in [Workers -> BOOLEAN]
  /\ seen \in [Workers -> Nat \cup {-1}]
  /\ stored \in [Workers -> Nat \cup {-1}]
  /\ engine \in [Workers -> SUBSET (Rules \X (Nat \ {0}))]
  /\ unannounced \in BOOLEAN
  /\ cause \in [Messages -> Nat]
  /\ toggles \in Nat /\ lostBumps \in Nat /\ rollbacks \in Nat /\ failures \in Nat
  /\ exits \in Nat

Loaded(w) == stage[w] # "down" /\ stored[w] # -1

\* A worker that thinks it is current is current: when its number is the one in Redis
\* and no toggle is half done or lost, its snapshot is what MySQL holds.  Whatever
\* toggles, reloads and failed reads overlap, a stale worker can tell, as long as Redis
\* never comes back with an older number.
StaleWorkersCanTell ==
  \A w \in Workers :
    /\ rollbacks = 0 /\ unbumped = 0 /\ ~unannounced
    /\ Loaded(w) /\ stored[w] = version
    => engine[w] = Snapshot

\* What makes it so: no worker has a number that Redis has not reached.
NoNumberAhead ==
  rollbacks = 0 =>
    \A w \in Workers : stored[w] <= version /\ (stage[w] = "loading" => seen[w] <= version)

Inductive ==
  /\ TypeOK
  /\ NoNumberAhead
  /\ StaleWorkersCanTell

\* A rule switched off stops firing everywhere, and one switched on starts to: after
\* the last change every worker comes to hold the rules as they are in MySQL, provided
\* they compile, a lost toggle is followed by one that reaches Redis, and Redis does not
\* come back with an older number.
WorkersConverge ==
  [](rollbacks = 0) /\ <>[](Compiles /\ ~unannounced)
    => <>[](\A w \in Workers : engine[w] = Snapshot)

\* Once the rules compile every worker settles on the number in Redis, even on one that
\* went backwards: refresh() asks whether the number is different, not whether it is larger.
NumbersSettle ==
  <>[]Compiles => <>[](\A w \in Workers : stored[w] = version)

\* No rule change costs a batch: a running worker that loads rules goes on to judge,
\* unless a call failed or the worker stopped.  Not kept: a rule that does not compile
\* costs every worker a batch at every poll.
NoBatchLostToRules ==
  [][\A w \in Workers :
       Loaded(w) /\ stage[w] = "loading" /\ stage'[w] = "idle" => failures' > failures]_vars

\* The record explains the decision: two decisions that read the same in the
\* decisions table were made by the same version of the same rule.  Not kept: the table
\* has no column for the version.
RecordNamesVersion ==
  \A m, n \in Messages :
    Judged(m) /\ Judged(n) /\ ruleOf[m] = ruleOf[n] => cause[m] = cause[n]
===============================================================================
