--------------------------- MODULE RuleReloadProofs ---------------------------
(***************************************************************************)
(* Proofs about RuleReload, for any number of workers, rules and messages  *)
(* and any bounds.                                                         *)
(***************************************************************************)
EXTENDS RuleReload, TLAPS

USE DEF mysqlVars, storeVars, apiVars, boundVars

-------------------------------------------------------------------------------
(* Type correctness.                                                       *)

LEMMA TypeInit == Init => TypeOK
<1>. SUFFICES ASSUME Init PROVE TypeOK
  OBVIOUS
<1>1. rowVersion \in [Rules -> Nat \ {0}] /\ cause \in [Messages -> Nat]
  BY DEF Init
<1>2. stage \in [Workers -> Stages] /\ ruleOf \in [Messages -> Rules \cup {NoRule}]
  BY DEF Init, Stages
<1>3. seen \in [Workers -> Nat \cup {-1}] /\ stored \in [Workers -> Nat \cup {-1}]
  BY DEF Init
<1>4. engine \in [Workers -> SUBSET (Rules \X (Nat \ {0}))]
  BY DEF Init
<1>. QED
  BY <1>1, <1>2, <1>3, <1>4 DEF Init, TypeOK

LEMMA SnapshotType ==
  ASSUME TypeOK PROVE Snapshot \in SUBSET (Rules \X (Nat \ {0}))
<1>. SUFFICES ASSUME NEW r \in {r \in Rules : enabled[r]}
              PROVE  <<r, rowVersion[r]>> \in Rules \X (Nat \ {0})
  BY DEF Snapshot
<1>1. rowVersion[r] \in Nat \ {0}
  BY DEF TypeOK
<1>. QED
  BY <1>1

LEMMA TypeStep == TypeOK /\ [Next]_vars => TypeOK'
<1>. SUFFICES ASSUME TypeOK, [Next]_vars PROVE TypeOK'
  OBVIOUS
<1>1. CASE UNCHANGED vars
  BY <1>1 DEF vars, TypeOK
<1>2. ASSUME NEW r \in Rules, NEW flag \in BOOLEAN, SetRuleEnabled(r, flag) PROVE TypeOK'
  <2>1. rowVersion' \in [Rules -> Nat \ {0}]
    BY <1>2 DEF SetRuleEnabled, TypeOK
  <2>. QED
    BY <1>2, <2>1 DEF SetRuleEnabled, TypeOK
<1>3. CASE BumpVersion
  <2>1. version \in Nat /\ unbumped \in Nat
    BY DEF TypeOK
  <2>2. version' \in Nat /\ unbumped' \in Nat
    BY <1>3, <2>1 DEF BumpVersion
  <2>. QED
    BY <1>3, <2>2 DEF BumpVersion, TypeOK
<1>4. CASE LoseBump
  BY <1>4 DEF LoseBump, TypeOK
<1>5. CASE Rollback
  <2>1. version' \in Nat
    BY <1>5 DEF Rollback, TypeOK
  <2>. QED
    BY <1>5, <2>1 DEF Rollback, TypeOK
<1>6. ASSUME NEW w \in Workers, Start(w) PROVE TypeOK'
  <2>1. engine' \in [Workers -> SUBSET (Rules \X (Nat \ {0}))]
    BY <1>6 DEF Start, TypeOK
  <2>2. /\ stage' \in [Workers -> Stages] /\ due' \in [Workers -> BOOLEAN]
        /\ seen' \in [Workers -> Nat \cup {-1}] /\ stored' \in [Workers -> Nat \cup {-1}]
    BY <1>6 DEF Start, TypeOK, Stages
  <2>. QED
    BY <1>6, <2>1, <2>2 DEF Start, TypeOK
<1>7. ASSUME NEW w \in Workers, UseSnapshot(w) PROVE TypeOK'
  BY <1>7 DEF UseSnapshot, TypeOK, Stages
<1>8. ASSUME NEW w \in Workers, CheckVersion(w) PROVE TypeOK'
  <2>1. stage' \in [Workers -> Stages] /\ seen' \in [Workers -> Nat \cup {-1}]
    BY <1>8 DEF CheckVersion, TypeOK, Stages
  <2>. QED
    BY <1>8, <2>1 DEF CheckVersion, TypeOK
<1>9. ASSUME NEW w \in Workers, LoadRules(w) PROVE TypeOK'
  <2>1. engine' \in [Workers -> SUBSET (Rules \X (Nat \ {0}))]
    BY <1>9, SnapshotType DEF LoadRules, TypeOK
  <2>2. stage' \in [Workers -> Stages] /\ stored' \in [Workers -> Nat \cup {-1}]
    BY <1>9 DEF LoadRules, TypeOK, Stages
  <2>. QED
    BY <1>9, <2>1, <2>2 DEF LoadRules, TypeOK
<1>10. ASSUME NEW w \in Workers, LoadFails(w) PROVE TypeOK'
  BY <1>10 DEF LoadFails, TypeOK, Stages, GiveUp
<1>11. ASSUME NEW w \in Workers, CompileFails(w) PROVE TypeOK'
  BY <1>11 DEF CompileFails, TypeOK, Stages, GiveUp
<1>12. ASSUME NEW w \in Workers, CheckFails(w) PROVE TypeOK'
  BY <1>12 DEF CheckFails, TypeOK, Stages
<1>13. ASSUME NEW w \in Workers, Judge(w) PROVE TypeOK'
  <2>1. stage' \in [Workers -> Stages]
    BY <1>13 DEF Judge, TypeOK, Stages
  <2>2. CASE UNCHANGED <<ruleOf, cause>>
    BY <1>13, <2>1, <2>2 DEF Judge, TypeOK
  <2>3. ASSUME NEW m \in Messages, NEW hit \in engine[w],
               ruleOf' = [ruleOf EXCEPT ![m] = hit[1]],
               cause' = [cause EXCEPT ![m] = hit[2]]
        PROVE  TypeOK'
    <3>1. hit[1] \in Rules /\ hit[2] \in Nat
      BY DEF TypeOK
    <3>2. ruleOf' \in [Messages -> Rules \cup {NoRule}] /\ cause' \in [Messages -> Nat]
      BY <2>3, <3>1 DEF TypeOK
    <3>. QED
      BY <1>13, <2>1, <3>2 DEF Judge, TypeOK
  <2>. QED
    BY <1>13, <2>2, <2>3 DEF Judge
<1>14. ASSUME NEW w \in Workers, Exit(w) PROVE TypeOK'
  BY <1>14 DEF Exit, TypeOK, Stages
<1>15. ASSUME NEW w \in Workers, PollDue(w) PROVE TypeOK'
  BY <1>15 DEF PollDue, TypeOK, Stages
<1>. QED
  BY <1>1, <1>2, <1>3, <1>4, <1>5, <1>6, <1>7, <1>8, <1>9, <1>10, <1>11, <1>12, <1>13, <1>14, <1>15 DEF Next

\* Every variable keeps its type, whatever toggles, failures, exits and rollbacks
\* overlap: RuleStore never holds a number that is not one.
THEOREM TypeCorrect == Spec => []TypeOK
<1>. QED
  BY TypeInit, TypeStep, PTL DEF Spec

-------------------------------------------------------------------------------
(* A stale worker can tell, as long as Redis keeps what it is told.        *)

LEMMA InductiveInit == Init => Inductive
<1>. SUFFICES ASSUME Init PROVE Inductive
  OBVIOUS
<1>1. NoNumberAhead
  BY DEF Init, NoNumberAhead
<1>2. StaleWorkersCanTell
  BY DEF Init, StaleWorkersCanTell, Loaded
<1>. QED
  BY <1>1, <1>2, TypeInit DEF Inductive

\* Numbers only grow, and a worker copies the one it reads.
LEMMA NumbersStep ==
  ASSUME Inductive, [Next]_vars PROVE NoNumberAhead'
<1>. USE DEF Inductive, NoNumberAhead, TypeOK
<1>1. CASE UNCHANGED vars
  BY <1>1 DEF vars
<1>2. ASSUME NEW r \in Rules, NEW flag \in BOOLEAN, SetRuleEnabled(r, flag)
      PROVE  NoNumberAhead'
  BY <1>2 DEF SetRuleEnabled
<1>3. CASE BumpVersion
  BY <1>3 DEF BumpVersion
<1>4. CASE LoseBump
  BY <1>4 DEF LoseBump
<1>5. CASE Rollback
  BY <1>5 DEF Rollback
<1>6. ASSUME NEW w \in Workers, Start(w) PROVE NoNumberAhead'
  BY <1>6 DEF Start
<1>7. ASSUME NEW w \in Workers, UseSnapshot(w) PROVE NoNumberAhead'
  BY <1>7 DEF UseSnapshot
<1>8. ASSUME NEW w \in Workers, CheckVersion(w) PROVE NoNumberAhead'
  BY <1>8 DEF CheckVersion
<1>9. ASSUME NEW w \in Workers, LoadRules(w) PROVE NoNumberAhead'
  BY <1>9 DEF LoadRules
<1>10. ASSUME NEW w \in Workers, LoadFails(w) PROVE NoNumberAhead'
  BY <1>10 DEF LoadFails, GiveUp
<1>11. ASSUME NEW w \in Workers, CompileFails(w) PROVE NoNumberAhead'
  BY <1>11 DEF CompileFails, GiveUp
<1>12. ASSUME NEW w \in Workers, CheckFails(w) PROVE NoNumberAhead'
  BY <1>12 DEF CheckFails
<1>13. ASSUME NEW w \in Workers, Judge(w) PROVE NoNumberAhead'
  BY <1>13 DEF Judge
<1>14. ASSUME NEW w \in Workers, Exit(w) PROVE NoNumberAhead'
  BY <1>14 DEF Exit
<1>15. ASSUME NEW w \in Workers, PollDue(w) PROVE NoNumberAhead'
  BY <1>15 DEF PollDue
<1>. QED
  BY <1>1, <1>2, <1>3, <1>4, <1>5, <1>6, <1>7, <1>8, <1>9, <1>10, <1>11, <1>12, <1>13, <1>14, <1>15 DEF Next

\* Only a toggle changes the rules, and it leaves unbumped above zero; only a bump
\* brings that back, and it leaves every worker behind.
LEMMA TellStep ==
  ASSUME Inductive, [Next]_vars PROVE StaleWorkersCanTell'
<1>. USE DEF Inductive, StaleWorkersCanTell, Loaded, TypeOK
<1>1. CASE UNCHANGED vars
  BY <1>1 DEF vars, Snapshot
<1>2. ASSUME NEW r \in Rules, NEW flag \in BOOLEAN, SetRuleEnabled(r, flag)
      PROVE  StaleWorkersCanTell'
  BY <1>2 DEF SetRuleEnabled
<1>3. CASE BumpVersion
  BY <1>3 DEF BumpVersion, NoNumberAhead
<1>4. CASE LoseBump
  BY <1>4 DEF LoseBump
<1>5. CASE Rollback
  BY <1>5 DEF Rollback
<1>6. ASSUME NEW w \in Workers, Start(w) PROVE StaleWorkersCanTell'
  BY <1>6 DEF Start, Snapshot
<1>7. ASSUME NEW w \in Workers, UseSnapshot(w) PROVE StaleWorkersCanTell'
  BY <1>7 DEF UseSnapshot, Snapshot
<1>8. ASSUME NEW w \in Workers, CheckVersion(w) PROVE StaleWorkersCanTell'
  BY <1>8 DEF CheckVersion, Snapshot
<1>9. ASSUME NEW w \in Workers, LoadRules(w) PROVE StaleWorkersCanTell'
  BY <1>9 DEF LoadRules, Snapshot
<1>10. ASSUME NEW w \in Workers, LoadFails(w) PROVE StaleWorkersCanTell'
  BY <1>10 DEF LoadFails, Snapshot, GiveUp
<1>11. ASSUME NEW w \in Workers, CompileFails(w) PROVE StaleWorkersCanTell'
  BY <1>11 DEF CompileFails, Snapshot, GiveUp
<1>12. ASSUME NEW w \in Workers, CheckFails(w) PROVE StaleWorkersCanTell'
  BY <1>12 DEF CheckFails, Snapshot
<1>13. ASSUME NEW w \in Workers, Judge(w) PROVE StaleWorkersCanTell'
  BY <1>13 DEF Judge, Snapshot
<1>14. ASSUME NEW w \in Workers, Exit(w) PROVE StaleWorkersCanTell'
  BY <1>14 DEF Exit, Snapshot
<1>15. ASSUME NEW w \in Workers, PollDue(w) PROVE StaleWorkersCanTell'
  BY <1>15 DEF PollDue, Snapshot
<1>. QED
  BY <1>1, <1>2, <1>3, <1>4, <1>5, <1>6, <1>7, <1>8, <1>9, <1>10, <1>11, <1>12, <1>13, <1>14, <1>15 DEF Next

LEMMA InductiveStep == Inductive /\ [Next]_vars => Inductive'
<1>. SUFFICES ASSUME Inductive, [Next]_vars PROVE Inductive'
  OBVIOUS
<1>1. TypeOK'
  BY TypeStep DEF Inductive
<1>. QED
  BY <1>1, NumbersStep, TellStep DEF Inductive

\* The strengthened invariant holds in every state: until Redis goes back, no worker
\* has a number that bump_version has not handed out yet.
THEOREM InductiveInvariant == Spec => []Inductive
<1>. QED
  BY InductiveInit, InductiveStep, PTL DEF Spec

\* Until Redis goes back, a worker whose snapshot differs from MySQL has a number that
\* differs from Redis, so the next refresh() reloads: comparing one number is enough,
\* however toggles and reloads interleave.
THEOREM StaleIsVisible == Spec => []StaleWorkersCanTell
<1>1. Inductive => StaleWorkersCanTell
  BY DEF Inductive
<1>. QED
  BY <1>1, InductiveInvariant, PTL
===============================================================================
