------------------------------ MODULE MCDelivery ------------------------------
(***************************************************************************)
(* Small instances of Delivery: two workers that share a few log entries.  *)
(***************************************************************************)
EXTENDS Delivery, TLC

CONSTANTS w1, w2, p1, p2, m1, m2, bad, alice

\* One message, for the counterexamples.
OneLog == p1 :> <<m1>>

\* One partition, so that a batch may hold several messages.
SingleLog == p1 :> <<m1, m2>>

\* Two partitions.
PairLog == p1 :> <<m1>> @@ p2 :> <<m2>>

\* A message that the producer sent twice, perhaps within one batch.
RepeatLog == p1 :> <<m1, m1, m2>>

AuthorOf == [m \in Messages |-> alice]

\* Two attempts to judge a message may end in any of these.
EscalateOrDelete == [m \in Messages |-> {"escalate", "delete"}]
FirstUnclear == [m \in Messages |-> IF m = m1 THEN {"escalate", "delete"} ELSE {"allow"}]
AlwaysEscalate == [m \in Messages |-> {"escalate"}]
AlwaysDelete == [m \in Messages |-> {"delete"}]

WorkerSymmetry == Permutations(Workers)
===============================================================================
