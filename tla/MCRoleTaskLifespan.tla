------------------------- MODULE MCRoleTaskLifespan -------------------------
(***************************************************************************)
(* Instances of RoleTaskLifespan for TLC.                                  *)
(***************************************************************************)
EXTENDS RoleTaskLifespan, TLC

OneRole == [t \in Task |-> CHOOSE r \in Role : TRUE]

\* Bound: two tasks run at once in the first process, one in a later process.
FewAtOnce == Cardinality(live) <= IF boots = 1 THEN 2 ELSE 1

Symmetry == Permutations(Task)

=============================================================================
