\* Two moderators, one message, two requests at a time, under fairness: one failure, one reload.
CONSTANTS
  i1 = i1  i2 = i2  alice = alice  bob = bob  s1 = s1  s2 = s2
  allow = allow  delete = delete
  NoItem = NoItem  NoOne = NoOne  NoDecision = NoDecision
  Items = {i1}
  Moderators = {alice, bob}
  Slots = {s1, s2}
  Decisions = {delete}
  MaxFailures = 1
  MaxReloads = 1
SPECIFICATION FairSpec
PROPERTIES
  EveryItemDecided
