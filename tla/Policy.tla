-------------------------------- MODULE Policy --------------------------------
(***************************************************************************)
(* How a toxicity score becomes a verdict (strategies/ab.py and            *)
(* _from_score in pipeline/pipeline.py).                                   *)
(*                                                                         *)
(* The code computes with floats.  Here thresholds, bonuses and scores are *)
(* whole numbers, per cent for instance, and a risk score of 1.0 is        *)
(* RiskUnit; both sides of a comparison are multiplied by 3 * RiskUnit so  *)
(* that nothing is rounded.                                                *)
(***************************************************************************)
EXTENDS Integers

CONSTANT RiskUnit   \* a reputation of 1.0, the mark of one fresh violation

ASSUME RiskUnitAssumption == RiskUnit \in Nat \ {0}

Strategies == [deleteThreshold : Nat, escalateThreshold : Nat, riskBonus : Nat]

NoScore == -1       \* the model did not answer

AtMost(x, y) == IF x <= y THEN x ELSE y
AtLeast(x, y) == IF x >= y THEN x ELSE y

\* Three violations earn the whole bonus.
FullRisk == 3 * RiskUnit

\* Mistake: the bonus goes to the offender.
Cut_Kinder(threshold, strategy, risk) ==
  threshold * FullRisk + strategy.riskBonus * AtMost(risk, FullRisk)

\* Mistake: the bonus for each violation, instead of a third of it.
Cut_PerViolation(threshold, strategy, risk) ==
  AtLeast(0, threshold * FullRisk - strategy.riskBonus * risk * 3)

\* thresholds_for, times FullRisk.
Cut(threshold, strategy, risk) ==
  AtLeast(0, threshold * FullRisk - strategy.riskBonus * AtMost(risk, FullRisk))

Reaches(score, threshold, strategy, risk) ==
  score * FullRisk >= Cut(threshold, strategy, risk)

\* _from_score
FromScore(score, strategy, risk) ==
  IF score = NoScore THEN "allow"
  ELSE IF Reaches(score, strategy.deleteThreshold, strategy, risk) THEN "delete"
  ELSE IF Reaches(score, strategy.escalateThreshold, strategy, risk) THEN "escalate"
  ELSE "allow"

\* How hard a verdict is on the author.
Severity(action) == CASE action = "allow" -> 0
                      [] action = "escalate" -> 1
                      [] action = "delete" -> 2
===============================================================================
