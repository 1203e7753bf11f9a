----------------------- MODULE MCRoleWorkerSupervisor -----------------------
(***************************************************************************)
(* Instances of RoleWorkerSupervisor for TLC.                              *)
(***************************************************************************)
EXTENDS RoleWorkerSupervisor, TLC

\* All tasks of one role: the case in which a submission can be refused.
OneRole == [t \in Task |-> CHOOSE r \in Role : TRUE]

\* Bound of the run with two tasks: at any time at most one running task has
\* passed its deadline, at most one terminal event waits in a pipe, and at most
\* one child outlives its kill.  Both tasks may still time out, send or linger,
\* one after the other.  A child that reports its own failure is left to the
\* run with one task: its event takes the way of a result.
OneAtATime ==
  /\ Cardinality(expired) <= 1
  /\ Cardinality({t \in Task : pipe[t] # "none"}) <= 1
  /\ Cardinality({t \in Task : process[t] = "dying"}) <= 1
  /\ \A t \in Task : pipe[t] # "failure"

Symmetry == Permutations(Task)

=============================================================================
