\* One call to MySQL fails.
CONSTANTS
  w1 = w1  w2 = w2  p1 = p1  p2 = p2
  m1 = m1  m2 = m2  bad = bad  alice = alice
  NoOne = NoOne
  Workers = {w1}
  Partitions = {p1}
  Messages = {m1, m2}
  Unreadable = bad
  Poison = {}
  Users = {alice}
  Log <- SingleLog
  Author <- AuthorOf
  MayGet <- AlwaysDelete
  BatchSize = 1
  MaxCrashes = 0
  MaxShutdowns = 0
  MaxRevocations = 0
  MaxFailures = 1
SPECIFICATION Spec
INVARIANTS
  CommittedIsDecided
