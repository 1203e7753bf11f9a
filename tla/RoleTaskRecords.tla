--------------------------- MODULE RoleTaskRecords ---------------------------
(***************************************************************************)
(* The record table of the role worker supervisor: what a record holds     *)
(* (src/src/core/contracts/worker_protocol.py) and which records retention *)
(* may drop (src/src/core/brain/role_worker.py, _prune_records).           *)
(***************************************************************************)
EXTENDS Integers, FiniteSets

CONSTANTS
  Task,        \* worker task ids; a uuid each, so never submitted twice
  Role,        \* role names
  RoleOf,      \* the role a task is submitted for
  MaxRecords   \* bound on the record table (DEFAULT_MAX_RECORDS)

ASSUME RoleOfAssumption == RoleOf \in [Task -> Role]
ASSUME MaxRecordsAssumption == MaxRecords \in Nat \ {0}

TerminalStatus == {"succeeded", "failed", "timeout", "cancelled", "crashed"}
Status == {"absent", "running"} \cup TerminalStatus

\* "doubt" is the error text a running record carries after a kill whose
\* effect could not be confirmed; "stamp" is its place in the OrderedDict.
Record == [status: Status, confirmed: BOOLEAN, doubt: BOOLEAN, stamp: Nat]
NoRecord == [status |-> "absent", confirmed |-> FALSE, doubt |-> FALSE,
             stamp |-> 0]

IsPresent(r)  == r.status # "absent"
IsTerminal(r) == r.status \in TerminalStatus

RunningRecord(stamp) ==
  [NoRecord EXCEPT !.status = "running", !.stamp = stamp]

Concluded(r, v) == [r EXCEPT !.status = v, !.doubt = FALSE, !.confirmed = TRUE]

-----------------------------------------------------------------------------
(* Retention: while the table is over its bound, the oldest record that is *)
(* terminal, has no runtime, no waiter and no publication in flight goes.  *)

Present(R) == {t \in Task : IsPresent(R[t])}

Removable(R, L, W, P) ==
  {t \in Task : IsTerminal(R[t]) /\ t \notin L /\ W[t] = 0 /\ t \notin P}

Pruned(R, L, W, P) ==
  LET removable == Removable(R, L, W, P)
      excess == Cardinality(Present(R)) - MaxRecords
      age(t) == Cardinality({s \in removable : R[s].stamp <= R[t].stamp})
  IN  [t \in Task |-> IF t \in removable /\ age(t) <= excess
                      THEN NoRecord ELSE R[t]]

=============================================================================
