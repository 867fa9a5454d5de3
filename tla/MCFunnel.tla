-------------------------------- MODULE MCFunnel --------------------------------
(***************************************************************************)
(* A small instance of Funnel: two streams, two strategies, rules of every *)
(* type, some of them for one stream.                                      *)
(***************************************************************************)
EXTENDS Funnel, TLC

CONSTANTS w1, w2, m1, m2, s1, s2, alice, bob, idiot, skins,
          insult, scam, link, newcomer, limit

RowWith(type, pattern, threshold, action, priority, stream) ==
  [type |-> type, pattern |-> pattern, threshold |-> threshold,
   action |-> action, priority |-> priority, stream |-> stream]

\* Scam and Newcomer have the same priority.
RowOf ==
  insult :> RowWith("keyword", {idiot}, 0, "delete", 2, Everywhere) @@
  scam :> RowWith("regex", {skins}, 0, "shadow", 1, s1) @@
  link :> RowWith("link", {}, 0, "shadow", 3, s2) @@
  newcomer :> RowWith("new_account", {}, 7, "escalate", 1, Everywhere) @@
  limit :> RowWith("frequency", {}, 3, "escalate", 4, s2)

EitherWay == {<<insult, scam, link, newcomer, limit>>, <<limit, newcomer, link, scam, insult>>}

Strategy(name, delete, escalate, bonus) ==
  [name |-> name, deleteThreshold |-> delete, escalateThreshold |-> escalate,
   riskBonus |-> bonus]

Both == {Strategy(1, 90, 60, 10), Strategy(2, 50, 40, 15)}
BothOrNone == {Both, {}}
Defaults == <<Strategy(1, 90, 60, 10), Strategy(2, 80, 50, 15)>>

HashOf == s1 :> 7 @@ s2 :> 4
StreamOf == m1 :> s1 @@ m2 :> s2
AuthorOf == m1 :> alice @@ m2 :> bob
RiskOf == alice :> 2 @@ bob :> 0
AgeOf == m1 :> NoAge @@ m2 :> 1
Text == m1 :> {skins} @@ m2 :> {idiot}
LinksIn == m1 :> 0 @@ m2 :> 1
ShapeOf == m1 :> {"capitals"} @@ m2 :> {}
ToxicityOf == m1 :> 40 @@ m2 :> 95

Symmetry == Permutations(Workers)
===============================================================================
