-------------------------- MODULE RunStateRegister --------------------------
(***************************************************************************)
(* What the repository of run states promises, without files, locks,       *)
(* retries or crashes: at most one run is current; it changes in single    *)
(* steps, each of which raises its revision and adds one entry to its log; *)
(* a run that was archived stays as it was and is never current again.     *)
(***************************************************************************)
EXTENDS Naturals, Sequences

VARIABLES
  current,  \* the snapshot of the current run, as a set of at most one
  past      \* the last snapshots of the archived runs

RegisterInit == current = {} /\ past = {}

\* The log of a run starts with its first save and grows by one entry a save.
Extends(new, old) ==
  IF old = {} THEN Len(new.log) = 1
  ELSE \E a \in old :
         /\ new.run = a.run
         /\ new.rev > a.rev
         /\ new.log = Append(a.log, new.tag)

Commit ==
  /\ \E s \in current' :
       /\ current' = {s}
       /\ \A p \in past : p.run # s.run
       /\ Extends(s, current)
  /\ UNCHANGED past

Retire ==
  /\ current # {}
  /\ past' = past \cup current
  /\ current' = {}

RegisterSpec == RegisterInit /\ [][Commit \/ Retire]_<<current, past>>

=============================================================================
