\* One worker, two rules of which one does not compile, three toggles under fairness: a lost
\* bump, a rollback of Redis, a failed read, an exit.
CONSTANTS
  w1 = w1  r1 = r1  r2 = r2  m1 = m1
  NoRule = NoRule
  Workers = {w1}
  Rules = {r1, r2}
  BadRules = {r2}
  Messages = {m1}
  MaxToggles = 3
  MaxLostBumps = 1
  MaxRollbacks = 1
  MaxFailures = 1
  MaxExits = 1
SPECIFICATION FairSpec
INVARIANTS
  StaleWorkersCanTell
PROPERTIES
  WorkersConverge
  NumbersSettle
