\* A partition changes hands by a crash and by a rebalance during a load test, under fairness.
CONSTANTS
  w1 = w1  w2 = w2  p1 = p1
  m1 = m1  m2 = m2  bad = bad  alice = alice
  NoOne = NoOne
  Workers = {w1, w2}
  Partitions = {p1}
  Messages = {m1, m2}
  Unreadable = bad
  Poison = {}
  Users = {alice}
  Log <- MixedLog
  Author <- AuthorOf
  MayGet <- OwnEscalated
  BatchSize = 1
  MaxCrashes = 1
  MaxShutdowns = 0
  MaxRevocations = 1
  MaxFailures = 0
SPECIFICATION FairBenchSpec

  
PROPERTIES
  EveryMessageDecided
  GroupCatchesUp
  ReviewedUnlessKilled
  BenchAccountsForAll
