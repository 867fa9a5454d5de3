---------------------------- MODULE MCReviewQueue -----------------------------
(***************************************************************************)
(* Small instances of ReviewQueue.                                         *)
(***************************************************************************)
EXTENDS ReviewQueue, TLC

CONSTANTS i1, i2, alice, bob, s1, s2, allow, delete

Symmetry ==
  Permutations(Items) \cup Permutations(Moderators) \cup Permutations(Slots)
    \cup Permutations(Decisions)
===============================================================================
