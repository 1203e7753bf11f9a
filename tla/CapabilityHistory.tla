-------------------------- MODULE CapabilityHistory --------------------------
(***************************************************************************)
(* What the capability store promises its callers: every capability has a  *)
(* history of revisions, one of which is selected while there is any. One  *)
(* capability changes at a time, in one step: a new revision is added at   *)
(* the end and selected, another one is selected, or one is forgotten; if  *)
(* that was the selected one, the one before it is selected.               *)
(***************************************************************************)
EXTENDS Naturals, Sequences

CONSTANTS Capability, Revision

VARIABLE history

Empty == [revisions |-> <<>>, selected |-> {}]
Listed(e) == {e.revisions[i] : i \in DOMAIN e.revisions}

Without(s, i) ==
  [j \in 1 .. Len(s) - 1 |-> IF j < i THEN s[j] ELSE s[j + 1]]

Added(e, r) ==
  [revisions |-> Append(e.revisions, r), selected |-> {r}]

\* The entry without its i-th revision.
Dropped(e, i) ==
  LET rest == Without(e.revisions, i)
  IN [revisions |-> rest,
      selected |-> IF e.selected # {e.revisions[i]} THEN e.selected
                   ELSE IF rest = <<>> THEN {}
                   ELSE IF i > 1 THEN {e.revisions[i - 1]}
                   ELSE {rest[1]}]

HistoryInit == history = [c \in Capability |-> Empty]

Add(c, r) ==
  /\ r \notin Listed(history[c])
  /\ history' = [history EXCEPT ![c] = Added(history[c], r)]

Select(c, r) ==
  /\ r \in Listed(history[c])
  /\ history' = [history EXCEPT ![c].selected = {r}]

Forget(c, i) ==
  /\ i \in DOMAIN history[c].revisions
  /\ history' = [history EXCEPT ![c] = Dropped(history[c], i)]

HistoryNext ==
  \E c \in Capability :
    \/ \E r \in Revision : Add(c, r) \/ Select(c, r)
    \/ \E i \in DOMAIN history[c].revisions : Forget(c, i)

HistorySpec == HistoryInit /\ [][HistoryNext]_history

=============================================================================
