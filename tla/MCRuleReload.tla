----------------------------- MODULE MCRuleReload -----------------------------
(***************************************************************************)
(* A small instance of RuleReload: one worker, for workers share nothing   *)
(* but the bounds, and two rules.                                          *)
(***************************************************************************)
EXTENDS RuleReload

CONSTANTS w1, r1, r2, m1
===============================================================================
