-------------------------------- MODULE MCBench --------------------------------
(***************************************************************************)
(* A small instance of Bench: two messages, and an unreadable entry last,  *)
(* where no later batch brings its offset along.                           *)
(***************************************************************************)
EXTENDS Bench, TLC

CONSTANTS w1, w2, p1, m1, m2, bad, alice

MixedLog == p1 :> <<m1, m2, bad>>
AuthorOf == [m \in Messages |-> alice]
OwnEscalated == m1 :> {"escalate"} @@ m2 :> {"allow"}
===============================================================================
