------------------------------ MODULE MCRiskLocks ------------------------------
(***************************************************************************)
(* A small instance of RiskLocks: three workers, three users in a circle.  *)
(***************************************************************************)
EXTENDS RiskLocks, TLC

CONSTANTS w1, w2, w3

\* Each two workers share a user; w1 has a repeat offender, w3 a batch without offenders.
CircleOfWork == w1 :> <<<<2, 1, 2>>, <<3>>>>
             @@ w2 :> <<<<3, 2>>>>
             @@ w3 :> <<<<>>, <<1, 3>>>>
===============================================================================
