\* No call fails: one crash, one shutdown, one revocation.
CONSTANTS
  w1 = w1  w2 = w2  p1 = p1  p2 = p2
  m1 = m1  m2 = m2  bad = bad  alice = alice
  NoOne = NoOne
  Workers = {w1, w2}
  Partitions = {p1, p2}
  Messages = {m1, m2}
  Unreadable = bad
  Poison = {}
  Users = {alice}
  Log <- PairLog
  Author <- AuthorOf
  MayGet <- EscalateOrDelete
  BatchSize = 2
  MaxCrashes = 1
  MaxShutdowns = 1
  MaxRevocations = 1
  MaxFailures = 0
SYMMETRY WorkerSymmetry
SPECIFICATION Spec
INVARIANTS
  
  ReviewsMatchRecord
  RiskNeverOvercounts
  RiskCountsHonest
