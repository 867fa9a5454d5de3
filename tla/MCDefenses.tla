------------------------------ MODULE MCDefenses ------------------------------
(***************************************************************************)
(* A small instance of Defenses: a line that two new accounts paste into   *)
(* two streams, three times into the first.                                *)
(***************************************************************************)
EXTENDS Defenses, TLC

CONSTANTS w1, w2, m1, m2, m3, m4, s1, s2, alice, bob, hello, short

HomeOf == [s \in Streams |-> IF s = s1 THEN w1 ELSE w2]

\* Alice on both streams, Bob between two messages of hers.
PasteLog == s1 :> <<m1, m2, m3>> @@ s2 :> <<m4>>
NearlyAllAlice == [m \in Messages |-> IF m = m2 THEN bob ELSE alice]
SameText == [m \in Messages |-> hello]

\* The first stream has the stricter rule.
OneOrTwo == [s \in Streams |-> IF s = s1 THEN 1 ELSE 2]
Hide == [s \in Streams |-> "shadow"]
===============================================================================
