----------------------------- MODULE MCReputation -----------------------------
(***************************************************************************)
(* Small instances of Reputation.  The strategy is A of ab.DEFAULT, in per *)
(* cent.                                                                   *)
(***************************************************************************)
EXTENDS Reputation, TLC

CONSTANTS w1, w2, m1, m2, m3, m4, m5, alice, bob

StrategyA == [deleteThreshold |-> 90, escalateThreshold |-> 60, riskBonus |-> 10]

AuthorOf == [m \in Messages |-> IF m = m5 THEN bob ELSE alice]

\* m1 and m4 are deleted, m2 only if its author has a record, m3 is a moderator's to
\* decide whatever the record, and the model does not answer for m5.
Mixed == [m \in Messages |-> CASE m = m2 -> 88 [] m = m3 -> 78 [] m = m5 -> NoScore
                              [] OTHER -> 95]

WorkerSymmetry == Permutations(Workers)
===============================================================================
