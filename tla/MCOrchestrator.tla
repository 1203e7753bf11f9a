--------------------------- MODULE MCOrchestrator ---------------------------
(***************************************************************************)
(* Instances of Orchestrator for TLC: one name, agents of both kinds.      *)
(***************************************************************************)
EXTENDS Orchestrator, TLC

OneName == [a \in Agent |-> CHOOSE n \in Name : TRUE]

Symmetry == Permutations(Exec) \cup Permutations(Caller)

=============================================================================
