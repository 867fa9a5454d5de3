\* One worker is killed; every message is escalated.
CONSTANTS
  w1 = w1  w2 = w2  p1 = p1  p2 = p2
  m1 = m1  m2 = m2  bad = bad  alice = alice
  NoOne = NoOne
  Workers = {w1, w2}
  Partitions = {p1}
  Messages = {m1}
  Unreadable = bad
  Poison = {}
  Users = {alice}
  Log <- OneLog
  Author <- AuthorOf
  MayGet <- AlwaysEscalate
  BatchSize = 2
  MaxCrashes = 1
  MaxShutdowns = 0
  MaxRevocations = 0
  MaxFailures = 0
SPECIFICATION FairSpec
PROPERTIES
  EscalatedIsReviewed
