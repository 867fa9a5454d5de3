\* Two new accounts, one line, two streams, two workers: one crash, keys and windows expire.
CONSTANTS
  w1 = w1  w2 = w2  m1 = m1  m2 = m2  m3 = m3  m4 = m4  s1 = s1  s2 = s2
  alice = alice  bob = bob  hello = hello  short = short
  Workers = {w1, w2}
  Messages = {m1, m2, m3, m4}
  Users = {alice, bob}
  Streams = {s1, s2}
  Texts = {hello}
  Unchecked = short
  Log <- PasteLog
  Home <- HomeOf
  Author <- NearlyAllAlice
  Text <- SameText
  NewAccounts = {m1, m2, m3, m4}
  RateLimit <- OneOrTwo
  OverLimit <- Hide
  Content = {"allow"}
  RaidThreshold = 2
  DedupTTL = 2
  RateWindow = 3
  RaidWindow = 2
  RaidMode = 3
  BatchSize = 3
  MaxTime = 5
  MaxCrashes = 1
SPECIFICATION Spec
\* The log is finite and so is the time.
CHECK_DEADLOCK FALSE
INVARIANTS
  TypeOK
  OneOriginal
  
  
  RaidHolds
