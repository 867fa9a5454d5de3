\* Two moderators, two messages, two requests at a time: one failure, one reload.
CONSTANTS
  i1 = i1  i2 = i2  alice = alice  bob = bob  s1 = s1  s2 = s2
  allow = allow  delete = delete
  NoItem = NoItem  NoOne = NoOne  NoDecision = NoDecision
  Items = {i1, i2}
  Moderators = {alice, bob}
  Slots = {s1, s2}
  Decisions = {allow, delete}
  MaxFailures = 1
  MaxReloads = 1
SYMMETRY Symmetry
SPECIFICATION Spec
INVARIANTS
  NoDoubleHold
  Inductive
PROPERTIES
  DecidedByHolder
  DecisionIsFinal
  OldestFirst
