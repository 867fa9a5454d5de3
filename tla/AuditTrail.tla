------------------------------ MODULE AuditTrail ------------------------------
(***************************************************************************)
(* What the platform promises about its record of decisions, with no       *)
(* workers, batches, crashes or ownership in sight:                        *)
(*                                                                         *)
(*  - a message gets at most one verdict, and a verdict is never revised;  *)
(*  - an offset is acknowledged to Kafka only when every message up to it  *)
(*    has a verdict on record, could not be read at all, or was part of a  *)
(*    batch that raised an exception.                                      *)
(*                                                                         *)
(* The last exception is what the code really gives; the stronger promise  *)
(* of the documentation is refuted by run delivery_blip of module          *)
(* Delivery.                                                               *)
(***************************************************************************)
EXTENDS Integers, Sequences

CONSTANTS
  Messages,    \* messages that Worker._read accepts
  Unreadable,  \* a log entry that Worker._read rejects
  Partitions,  \* partitions of chat.events
  Log,         \* what the producers wrote: [Partitions -> sequence of entries]
  Verdicts,    \* the verdicts a message can get
  Undecided    \* no row in the decisions table

VARIABLES
  verdictOf,   \* the verdict on record for each message
  acked,       \* offsets acknowledged to Kafka, per partition
  excused      \* log positions whose batch raised an exception

vars == <<verdictOf, acked, excused>>

Positions == UNION {{p} \X (1..Len(Log[p])) : p \in Partitions}

\* The promise itself: nothing is acknowledged behind the record's back.
Answered(p, i) ==
  \/ Log[p][i] = Unreadable
  \/ verdictOf[Log[p][i]] # Undecided
  \/ <<p, i>> \in excused

Init ==
  /\ verdictOf = [m \in Messages |-> Undecided]
  /\ acked = [p \in Partitions |-> 0]
  /\ excused = {}

\* Some messages without a verdict get one; the others keep what they have.
Decide ==
  /\ verdictOf' \in [Messages -> Verdicts \cup {Undecided}]
  /\ \A m \in Messages : verdictOf[m] # Undecided => verdictOf'[m] = verdictOf[m]
  /\ UNCHANGED <<acked, excused>>

\* Offsets move forward over answered entries only.
Acknowledge ==
  /\ acked' \in [Partitions -> Nat]
  /\ \A p \in Partitions :
       /\ acked[p] <= acked'[p]
       /\ acked'[p] <= Len(Log[p])
       /\ \A i \in 1..acked'[p] : Answered(p, i)
  /\ UNCHANGED <<verdictOf, excused>>

\* A batch raised an exception.
Excuse ==
  /\ excused' \in SUBSET Positions
  /\ excused \subseteq excused'
  /\ UNCHANGED <<verdictOf, acked>>

Next == Decide \/ Acknowledge \/ Excuse

Spec == Init /\ [][Next]_vars
===============================================================================
