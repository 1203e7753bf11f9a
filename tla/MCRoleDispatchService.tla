------------------------ MODULE MCRoleDispatchService ------------------------
(***************************************************************************)
(* Instances of RoleDispatchService for TLC.                               *)
(***************************************************************************)
EXTENDS RoleDispatchService, TLC

\* All tasks compete for one role.
OneRole == [t \in Task |-> CHOOSE r \in Role : TRUE]

None == {}

Symmetry == Permutations(Task) \cup Permutations(Caller)

=============================================================================
