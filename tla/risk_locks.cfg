\* Three workers over three shared rows: three deadlocks, one other failure.
CONSTANTS
  w1 = w1  w2 = w2  w3 = w3
  NoOne = NoOne
  Workers = {w1, w2, w3}
  Users = {1, 2, 3}
  Work <- CircleOfWork
  Attempts = 3
  MaxRaces = 3
  MaxFailures = 1
SPECIFICATION FairSpec
\* Every worker has come to the end of its batches.
CHECK_DEADLOCK FALSE
INVARIANTS
  Inductive
  NoCircularWait
  WrittenOnce
PROPERTIES
  EveryBumpLands
