------------------------------- MODULE RiskLocks -------------------------------
(***************************************************************************)
(* The one statement several workers run over the same rows:               *)
(* bump_user_risks in storage/dao.py and the retry around it,              *)
(* _execute_retrying.                                                      *)
(*                                                                         *)
(* The statement upserts a row of users_risk for each offender of a batch. *)
(* MySQL locks the rows one after the other, in the order of the VALUES    *)
(* list, and holds them to the end of the statement.  When two statements  *)
(* wait for each other it rejects one with error 1213, which undoes it.    *)
(* The locks are MySQL's; the order of the list, the addition of a user's  *)
(* violations and the reaction to an error are the code's.                 *)
(***************************************************************************)
EXTENDS Integers, Sequences, FiniteSets

CONSTANTS
  Workers,      \* worker processes, each with a connection of its own
  Users,        \* user ids, as numbers: sorted() is <
  NoOne,        \* the holder of an unlocked row
  Work,         \* for each worker, its batches: sequences of the users who offended
  Attempts,     \* the attempts argument of _execute_retrying
  MaxRaces,     \* bound: statements MySQL rejects with 1213
  MaxFailures   \* bound: statements that fail in another way

ASSUME ConstantsAssumption ==
  /\ Users \subseteq Nat /\ IsFiniteSet(Users)
  /\ NoOne \notin Workers
  /\ Work \in [Workers -> Seq(Seq(Users))]
  /\ Attempts \in Nat \ {0}
  /\ MaxRaces \in Nat /\ MaxFailures \in Nat

VARIABLES
  \* MySQL
  row,          \* users_risk.violations of each user, 0 for no row
  holder,       \* the worker whose statement has locked the row, or NoOne
  \* each worker
  stage,        \* idle, running (its statement is in MySQL) or sleeping (before a retry)
  next,         \* the batch it is at
  attempt,      \* the loop variable of _execute_retrying
  \* history and bounds
  returned,     \* batches whose bump_user_risks returned
  raised,       \* batches whose bump_user_risks raised
  races, failures

vars == <<row, holder, stage, next, attempt, returned, raised, races, failures>>

Batches == UNION {{w} \X (1..Len(Work[w])) : w \in Workers}
BatchOf(w) == Work[w][next[w]]
Offenders(w) == {BatchOf(w)[i] : i \in DOMAIN BatchOf(w)}

\* The totals dictionary.
Total(w, u) == Cardinality({i \in DOMAIN BatchOf(w) : BatchOf(w)[i] = u})

\* Mistake: the rows in the order the batch names them.
Turn_AsTheyCome(w, u) ==
  \E i \in DOMAIN BatchOf(w) :
    /\ BatchOf(w)[i] = u
    /\ \A j \in 1..(i - 1) : holder[BatchOf(w)[j]] = w

\* sorted(totals): a row's turn comes when all smaller ids of the batch are locked.
Turn(w, u) == \A v \in Offenders(w) : v < u => holder[v] = w

AllLocked(w) == \A u \in Offenders(w) : holder[u] = w

Unlocked(w) == [u \in Users |-> IF holder[u] = w THEN NoOne ELSE holder[u]]

Init ==
  /\ row = [u \in Users |-> 0]
  /\ holder = [u \in Users |-> NoOne]
  /\ stage = [w \in Workers |-> "idle"]
  /\ next = [w \in Workers |-> 1]
  /\ attempt = [w \in Workers |-> 0]
  /\ returned = {} /\ raised = {}
  /\ races = 0 /\ failures = 0

-------------------------------------------------------------------------------
\* The batch is behind the worker, one way or the other.
Leave(w) ==
  /\ stage' = [stage EXCEPT ![w] = "idle"]
  /\ next' = [next EXCEPT ![w] = @ + 1]
  /\ attempt' = [attempt EXCEPT ![w] = 0]

\* A batch without offenders: the early return.
Skip(w) ==
  /\ stage[w] = "idle"
  /\ <<w, next[w]>> \in Batches
  /\ Offenders(w) = {}
  /\ Leave(w)
  /\ returned' = returned \cup {<<w, next[w]>>}
  /\ UNCHANGED <<row, holder, raised, races, failures>>

Begin(w) ==
  /\ stage[w] = "idle"
  /\ <<w, next[w]>> \in Batches
  /\ Offenders(w) # {}
  /\ stage' = [stage EXCEPT ![w] = "running"]
  /\ UNCHANGED <<row, holder, next, attempt, returned, raised, races, failures>>

\* MySQL comes to the next row of the list and locks it, once nobody holds it.
LockRow(w, u) ==
  /\ stage[w] = "running"
  /\ u \in Offenders(w)
  /\ holder[u] = NoOne
  /\ Turn(w, u)
  /\ holder' = [holder EXCEPT ![u] = w]
  /\ UNCHANGED <<row, stage, next, attempt, returned, raised, races, failures>>

\* violations = violations + VALUES(violations), for the whole list; autocommit.
Apply(w) ==
  /\ stage[w] = "running"
  /\ AllLocked(w)
  /\ row' = [u \in Users |-> row[u] + Total(w, u)]
  /\ holder' = Unlocked(w)

Finish(w) ==
  /\ Apply(w)
  /\ Leave(w)
  /\ returned' = returned \cup {<<w, next[w]>>}
  /\ UNCHANGED <<raised, races, failures>>

\* Mistake: every error is worth another try.
TriesAgain_Always(w, error) == attempt[w] < Attempts - 1

\* Mistake: one attempt too few.
TriesAgain_OneLess(w, error) == error = "deadlock" /\ attempt[w] + 1 < Attempts - 1

\* The except clause: only a deadlock is retried, and not after the last attempt.
TriesAgain(w, error) == error = "deadlock" /\ attempt[w] < Attempts - 1

Catch(w, error) ==
  /\ UNCHANGED returned
  /\ IF TriesAgain(w, error)
     THEN /\ stage' = [stage EXCEPT ![w] = "sleeping"]
          /\ attempt' = [attempt EXCEPT ![w] = @ + 1]
          /\ UNCHANGED <<next, raised>>
     ELSE /\ Leave(w)
          /\ raised' = raised \cup {<<w, next[w]>>}

\* Error 1213, which undoes the statement.  MySQL also locks the gaps between rows
\* when it inserts new ones, so it may come to this without a cycle over the rows.
Reject(w) ==
  /\ stage[w] = "running"
  /\ ~AllLocked(w)
  /\ races < MaxRaces
  /\ races' = races + 1
  /\ holder' = Unlocked(w)
  /\ Catch(w, "deadlock")
  /\ UNCHANGED <<row, failures>>

\* time.sleep is over.
Wake(w) ==
  /\ stage[w] = "sleeping"
  /\ stage' = [stage EXCEPT ![w] = "running"]
  /\ UNCHANGED <<row, holder, next, attempt, returned, raised, races, failures>>

\* Another error, or the death of the worker, undoes the statement.
Fail(w) ==
  /\ stage[w] = "running"
  /\ failures < MaxFailures
  /\ failures' = failures + 1
  /\ holder' = Unlocked(w)
  /\ Catch(w, "other")
  /\ UNCHANGED <<row, races>>

\* The connection breaks after MySQL has done it all: an error like any other.
LoseAnswer(w) ==
  /\ failures < MaxFailures
  /\ failures' = failures + 1
  /\ Apply(w)
  /\ Catch(w, "other")
  /\ UNCHANGED races

-------------------------------------------------------------------------------
Next ==
  \E w \in Workers :
    \/ Skip(w) \/ Begin(w) \/ \E u \in Users : LockRow(w, u)
    \/ Finish(w) \/ Reject(w) \/ Wake(w) \/ Fail(w) \/ LoseAnswer(w)

Spec == Init /\ [][Next]_vars

\* MySQL goes on with every statement that is not waiting, and workers with their loops.
\* A row is handed from one statement to another again and again: LockRow needs strong
\* fairness, which is MySQL's queue of waiting locks.
Fairness ==
  \A w \in Workers :
    /\ WF_vars(Skip(w)) /\ WF_vars(Begin(w)) /\ WF_vars(Wake(w)) /\ WF_vars(Finish(w))
    /\ \A u \in Users : SF_vars(LockRow(w, u))

FairSpec == Spec /\ Fairness

-------------------------------------------------------------------------------
(* Properties.                                                             *)

TypeOK ==
  /\ row \in [Users -> Nat]
  /\ holder \in [Users -> Workers \cup {NoOne}]
  /\ stage \in [Workers -> {"idle", "running", "sleeping"}]
  /\ next \in [Workers -> Nat \ {0}]
  /\ attempt \in [Workers -> 0..(Attempts - 1)]
  /\ returned \in SUBSET Batches /\ raised \in SUBSET Batches
  /\ races \in Nat /\ failures \in Nat

\* What keeps statements from waiting in a circle: the rows a statement has locked are
\* the smallest of its list, and no statement outlives its call.
LocksInOrder ==
  \A w \in Workers :
    /\ stage[w] # "idle" => <<w, next[w]>> \in Batches
    /\ \A u \in Users :
         holder[u] = w =>
           /\ stage[w] = "running" /\ u \in Offenders(w)
           /\ \A v \in Offenders(w) : v < u => holder[v] = w

Inductive == TypeOK /\ LocksInOrder

\* v's statement has locked the row w's statement comes to next.
WaitsFor(w, v) ==
  /\ stage[w] = "running"
  /\ v # w
  /\ \E u \in Offenders(w) : Turn(w, u) /\ holder[u] = v

\* However the batches of the workers overlap, their statements never wait for each
\* other in a circle: in every group of workers one waits for nobody of the group
\* (bump_user_risks "so that workers writing the same users take their locks in the
\* same order").
NoCircularWait ==
  \A group \in (SUBSET Workers) \ {{}} :
    \E w \in group : \A v \in group : ~WaitsFor(w, v)

\* How often user u offended in these batches.
Offences(u, batches) ==
  Cardinality(UNION {{<<b, i>> : i \in {i \in DOMAIN Work[b[1]][b[2]] :
                                           Work[b[1]][b[2]][i] = u}} : b \in batches})

\* A bump that returned is counted, each violation of it once, and one that raised at
\* most once: a retry never adds up a batch that MySQL had already counted
\* (_execute_retrying, which retries error 1213 only).
WrittenOnce ==
  \A u \in Users :
    /\ Offences(u, returned) <= row[u]
    /\ row[u] <= Offences(u, returned \cup raised)

\* Every violation is counted in the end as long as nothing but deadlocks gets in the
\* way, and fewer of those than attempts (_execute_retrying "asking it to try again,
\* which is exactly what this does").
EveryBumpLands ==
  [](failures = 0 /\ races < Attempts)
    => <>(\A u \in Users : row[u] = Offences(u, Batches))
===============================================================================
