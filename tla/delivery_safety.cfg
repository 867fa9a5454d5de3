\* Two workers, one partition, m1 sent twice, m2 is poison: one crash, one revocation, one failed call.
CONSTANTS
  w1 = w1  w2 = w2  p1 = p1  p2 = p2
  m1 = m1  m2 = m2  bad = bad  alice = alice
  NoOne = NoOne
  Workers = {w1, w2}
  Partitions = {p1}
  Messages = {m1, m2}
  Unreadable = bad
  Poison = {m2}
  Users = {alice}
  Log <- RepeatLog
  Author <- AuthorOf
  MayGet <- FirstUnclear
  BatchSize = 2
  MaxCrashes = 1
  MaxShutdowns = 0
  MaxRevocations = 1
  MaxFailures = 1
SYMMETRY WorkerSymmetry
SPECIFICATION Spec
INVARIANTS
  RecordComesFirst
  NoSilentLoss
  Inductive
PROPERTIES
  ImplementsAuditTrail
