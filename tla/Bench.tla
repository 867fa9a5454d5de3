--------------------------------- MODULE Bench ---------------------------------
(***************************************************************************)
(* The load test (loadtest/bench.py), which sends messages through the     *)
(* workers of Delivery and counts the verdicts that come back on the       *)
(* decisions topic.  scripts/chaos_test.sh kills a worker half way through *)
(* and takes its report, nothing unaccounted for, as the proof that no     *)
(* message was lost.                                                       *)
(*                                                                         *)
(* The log of Delivery is what this run has sent; the prefix of its stream *)
(* ids keeps verdicts on other traffic out of its counts.                  *)
(***************************************************************************)
EXTENDS Delivery

VARIABLES
  phase,        \* collecting or reported
  missing,      \* report()'s "missing", which print_report prints
  timedOut      \* report()'s "timed_out"

benchVars == <<phase, missing, timedOut>>
allVars == <<vars, benchVars>>

\* What run() returned.  flush() has waited until every message was on the topic.
Sent == Cardinality(LoggedMessages)

Verdicts == {a \in delivered : a.topic = "moderation.decisions"}

\* len(latencies): it may not have read all of the topic yet.
Counts == 0..Cardinality(Verdicts)

BenchInit ==
  /\ Init
  /\ phase = "collecting"
  /\ missing = Sent
  /\ timedOut = FALSE

-------------------------------------------------------------------------------
(* collect_decisions ends when no verdict is missing or the deadline has   *)
(* passed; report follows.                                                 *)

Finish(n) ==
  /\ phase = "collecting"
  /\ phase' = "reported"
  /\ missing' = Sent - n
  /\ timedOut' = (n < Sent)
  /\ UNCHANGED vars

Report == \E n \in Counts : n >= Sent /\ Finish(n)
GiveUp == \E n \in Counts : n < Sent /\ Finish(n)

BenchNext ==
  \/ Next /\ UNCHANGED benchVars
  \/ Report \/ GiveUp

BenchSpec == BenchInit /\ [][BenchNext]_allVars

\* Delivery's fairness, and a load test that goes on reading; it need not give up.
FairBenchSpec == BenchSpec /\ Fairness /\ WF_allVars(Report)

-------------------------------------------------------------------------------
(* Properties.                                                             *)

\* A report with nothing unaccounted for means that every message of the run is on
\* record, although the load test only counts events and never looks at MySQL
\* (chaos_test.sh "no message was lost when the worker died").  Kept as long as no
\* partition is taken from a live worker: two verdicts on one message make up for a
\* missing one.
AccountedMeansDecided ==
  OneHand /\ phase = "reported" /\ missing <= 0 =>
    \A m \in LoggedMessages : OnRecord(m)

\* Unless a worker is killed, or the load test gives up, it accounts for every message
\* that reached the topic.
BenchAccountsForAll ==
  [](crashes = 0 /\ ~timedOut) => <>(phase = "reported" /\ missing <= 0)

\* What the load test gave up on is still on its way ("gave up waiting, not lost").  Not
\* kept: a worker that is killed after recording a verdict takes its event along.
NotLost ==
  timedOut ~> Cardinality(Verdicts) >= Sent
===============================================================================
