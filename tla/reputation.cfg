\* Two users, five messages, two half-lives: one crash.
CONSTANTS
  w1 = w1  w2 = w2  m1 = m1  m2 = m2  m3 = m3  m4 = m4  m5 = m5  alice = alice  bob = bob
  Workers = {w1, w2}
  Messages = {m1, m2, m3, m4, m5}
  Users = {alice, bob}
  Author <- AuthorOf
  Score <- Mixed
  Strategy <- StrategyA
  RiskUnit = 4
  BatchSize = 2
  MaxTime = 2
  MaxCrashes = 1
SYMMETRY WorkerSymmetry
SPECIFICATION Spec
\* The messages are few and time is bounded.
CHECK_DEADLOCK FALSE
INVARIANTS
  
  OffendersAreKnown
  RiskNeverHelps
  StrictUpToBonus
