--------------------------- MODULE MCRunLifecycle ---------------------------
(***************************************************************************)
(* Instances of RunLifecycle for TLC.                                      *)
(***************************************************************************)
EXTENDS RunLifecycle, FiniteSets, TLC

\* Bound: directories of a kind that are on disk at once.
SmallDisk ==
  /\ Cardinality(published) <= 2
  /\ Cardinality(torn) <= 1
  /\ Cardinality(staged) <= 1

Symmetry == Permutations(Tag) \cup Permutations(Caller) \cup Permutations(Run)

=============================================================================
