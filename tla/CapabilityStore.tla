--------------------------- MODULE CapabilityStore ---------------------------
(***************************************************************************)
(* The store of capability packages (adapters/file_capability_store.py):   *)
(* a content-addressed directory per revision (bundle.zip, its files, and  *)
(* revision.json) and index.json, which lists the revisions of every       *)
(* capability and the selected one. The store keeps nothing in memory and  *)
(* a lock lets one operation in at a time; its steps are its writes. Each  *)
(* may fail or be the last before a crash, and between operations what is  *)
(* on disk may drift.                                                      *)
(***************************************************************************)
EXTENDS Naturals, Sequences

CONSTANTS
  Capability,
  Revision,      \* digests of bundles
  CapabilityOf,  \* the capability a bundle declares
  Sound,         \* the bundles that are accepted by _verify_bundle
  MayDrift,      \* revisions whose files may change on disk
  MaxRevisions   \* _MAX_REVISIONS_PER_CAPABILITY

ASSUME CapabilityAssumption == CapabilityOf \in [Revision -> Capability]
ASSUME MaxRevisionsAssumption == MaxRevisions \in Nat \ {0}

VARIABLES
  index,   \* index.json: the entry of every capability
  files,   \* the directory of every revision: bundle.zip and package files
  state,   \* its revision.json
  tombs,   \* revisions of which a removal left the directory renamed
  op,      \* the operation inside the lock, as a set of at most one
  answer   \* what the last operation answered

vars == <<index, files, state, tombs, op, answer>>

History == INSTANCE CapabilityHistory WITH history <- index
Listed(c) == History!Listed(index[c])
Installed(c) == Listed(c) # {}
Position(c, r) == CHOOSE i \in DOMAIN index[c].revisions : index[c].revisions[i] = r

Entry == [revisions: Seq(Revision), selected: SUBSET Revision]
Content == {"none", "whole", "drifted"}
Metadata == {"none", "valid", "altered", "unreadable"}
Kind == {"install", "upgrade", "rollback", "remove", "rebuild", "list"}

\* entry is what the index will say of the capability; was is what a removal
\* has to restore.
Operation ==
  [kind: Kind, rev: Revision, entry: Entry,
   was: [files: Content, state: Metadata],
   pc: {"rename", "hide", "index", "restore", "rmtree", "state"}]

Answer == [of: Capability, code: {"none", "ok", "absent", "refused", "rejected",
                                  "damaged", "failed"}]

StoreInit ==
  /\ index = [c \in Capability |-> History!Empty]
  /\ files = [r \in Revision |-> "none"]
  /\ state = [r \in Revision |-> "none"]
  /\ tombs = {}
  /\ op = {}
  /\ answer \in [of: Capability, code: {"none"}]

-----------------------------------------------------------------------------
\* _load_revision: revision.json is there and well-formed.
Loads(r) == files[r] # "none" /\ state[r] \in {"valid", "altered"}

\* What was loaded is what the bundle says.
Agrees(r) == Loads(r) /\ state[r] = "valid"

\* _assert_revision_content_matches_state, after _load_revision.
Verified(r) == Agrees(r) /\ files[r] = "whole"

Say(c, code) ==
  /\ answer' = [of |-> c, code |-> code]
  /\ op' = {}

Answers(c, code) ==
  /\ Say(c, code)
  /\ UNCHANGED <<index, files, state, tombs>>

Begin(kind, r, entry, pc) ==
  /\ op' = {[kind |-> kind, rev |-> r, entry |-> entry, pc |-> pc,
             was |-> [files |-> files[r], state |-> state[r]]]}
  /\ UNCHANGED <<index, files, state, tombs, answer>>

Proceed(o, pc) == op' = {[o EXCEPT !.pc = pc]} /\ UNCHANGED answer

-----------------------------------------------------------------------------
Reject(r) ==
  /\ op = {}
  /\ r \notin Sound
  /\ Answers(CapabilityOf[r], "rejected")

\* install or upgrade with a bundle that is in the history already.
Repeat(r) ==
  LET c == CapabilityOf[r]
  IN /\ op = {}
     /\ r \in Sound \cap Listed(c)
     /\ Answers(c, IF Verified(r) THEN "ok" ELSE "damaged")

Accepts(kind, c) ==
  \/ kind = "install" /\ ~Installed(c)
  \/ kind = "upgrade" /\ Installed(c) /\ Len(index[c].revisions) < MaxRevisions

Refuse(kind, r) ==
  LET c == CapabilityOf[r]
  IN /\ op = {}
     /\ r \in Sound \ Listed(c)
     /\ ~Accepts(kind, c)
     /\ Answers(c, "refused")

\* Mutant of FoundUsable: a directory that is there already is a conflict.
FoundNever(r) == FALSE

\* _publish_revision finds the directory of an earlier attempt.
FoundUsable(r) == Agrees(r)

Publish(kind, r) ==
  LET c == CapabilityOf[r]
      new == History!Added(index[c], r)
  IN /\ op = {}
     /\ r \in Sound \ Listed(c)
     /\ Accepts(kind, c)
     /\ IF files[r] = "none" THEN Begin(kind, r, new, "rename")
        ELSE IF FoundUsable(r) THEN Begin(kind, r, new, "index")
        ELSE Answers(c, "damaged")

\* The target is not listed, or there is none before the selected revision.
RollbackRefused(c) ==
  /\ op = {}
  /\ Answers(c, "refused")

\* Mutant of Reselected: the revision becomes the latest of the history.
ReselectedLast(c, r) ==
  [revisions |-> Append(SelectSeq(index[c].revisions, LAMBDA s : s # r), r), selected |-> {r}]

Reselected(c, r) == [index[c] EXCEPT !.selected = {r}]

\* To the revision before the selected one, or to one that is named.
Rollback(c, r) ==
  /\ op = {}
  /\ r \in Listed(c)
  /\ IF ~Verified(r) THEN Answers(c, "damaged")
     ELSE IF index[c].selected = {r} THEN Answers(c, "ok")
     ELSE Begin("rollback", r, Reselected(c, r), "index")

\* remove answers False.
RemoveAbsent(c) ==
  /\ op = {}
  /\ Answers(c, "absent")

\* Mutant of FallbackSound: its package files are not looked at.
FallbackLoads(c, new) ==
  \A s \in new.selected : s \in index[c].selected \/ Loads(s)

\* The revision that is selected next must be verified before.
FallbackSound(c, new) ==
  \A s \in new.selected : s \in index[c].selected \/ Verified(s)

RemoveRevision(c, r) ==
  LET new == History!Dropped(index[c], Position(c, r))
  IN /\ op = {}
     /\ r \in Listed(c)
     /\ IF Loads(r) /\ FallbackSound(c, new)
        THEN Begin("remove", r, new, "hide")
        ELSE Answers(c, "damaged")

\* The selected revision is reconstructed from bundle.zip and the files.
Rebuild(c) ==
  /\ op = {}
  /\ \E r \in index[c].selected :
       IF files[r] = "whole" THEN Begin("rebuild", r, index[c], "state")
       ELSE Answers(c, "damaged")

RebuildRefused(c) ==
  /\ op = {}
  /\ ~Installed(c)
  /\ Answers(c, "refused")

ListRevisions(c) ==
  /\ op = {}
  /\ Answers(c, IF \A r \in Listed(c) : Loads(r) THEN "ok" ELSE "damaged")

-----------------------------------------------------------------------------
\* The staging directory becomes the directory of the revision.
Rename(o) ==
  /\ o.pc = "rename"
  /\ files' = [files EXCEPT ![o.rev] = "whole"]
  /\ state' = [state EXCEPT ![o.rev] = "valid"]
  /\ Proceed(o, "index")
  /\ UNCHANGED <<index, tombs>>

\* Mutant of Hide: the directory is deleted before the index is written.
HideForGood(o) ==
  /\ o.pc = "hide"
  /\ files' = [files EXCEPT ![o.rev] = "none"]
  /\ state' = [state EXCEPT ![o.rev] = "none"]
  /\ Proceed(o, "index")
  /\ UNCHANGED <<index, tombs>>

\* The directory of a revision that is removed becomes a tombstone.
Hide(o) ==
  /\ o.pc = "hide"
  /\ files' = [files EXCEPT ![o.rev] = "none"]
  /\ state' = [state EXCEPT ![o.rev] = "none"]
  /\ tombs' = tombs \cup {o.rev}
  /\ Proceed(o, "index")
  /\ UNCHANGED index

WriteIndex(o) ==
  /\ o.pc = "index"
  /\ index' = [index EXCEPT ![CapabilityOf[o.rev]] = o.entry]
  /\ IF o.kind = "remove" THEN Proceed(o, "rmtree")
     ELSE Say(CapabilityOf[o.rev], "ok")
  /\ UNCHANGED <<files, state, tombs>>

WriteState(o) ==
  /\ o.pc = "state"
  /\ state' = [state EXCEPT ![o.rev] = "valid"]
  /\ Say(CapabilityOf[o.rev], "ok")
  /\ UNCHANGED <<index, files, tombs>>

\* Nothing is left of a tombstone, or not all of it.
RemoveTree(o) ==
  /\ o.pc = "rmtree"
  /\ tombs' = tombs \ {o.rev}
  /\ \E code \in {"ok", "failed"} : Say(CapabilityOf[o.rev], code)
  /\ UNCHANGED <<index, files, state>>

\* A write raises before it took effect.
WriteFails(o) ==
  /\ o.pc \in {"rename", "hide", "index", "rmtree", "state"}
  /\ o.pc = "index" => o.kind # "remove"
  /\ Answers(CapabilityOf[o.rev], "failed")

RemovalFails(o) ==
  /\ o.pc = "index"
  /\ o.kind = "remove"
  /\ Proceed(o, "restore")
  /\ UNCHANGED <<index, files, state, tombs>>

\* The tombstone is renamed back, unless that raises as well.
Restore(o) ==
  /\ o.pc = "restore"
  /\ \/ /\ files' = [files EXCEPT ![o.rev] = o.was.files]
        /\ state' = [state EXCEPT ![o.rev] = o.was.state]
        /\ tombs' = tombs \ {o.rev}
     \/ UNCHANGED <<files, state, tombs>>
  /\ Say(CapabilityOf[o.rev], "failed")
  /\ UNCHANGED index

\* The process stops within an operation; the next one starts from the disk.
Crash ==
  /\ op # {}
  /\ op' = {}
  /\ UNCHANGED <<index, files, state, tombs, answer>>

\* Between operations the files of a revision may change.
Drift(r) ==
  /\ op = {}
  /\ r \in MayDrift
  /\ files[r] # "none"
  /\ \/ files' = [files EXCEPT ![r] = "drifted"] /\ UNCHANGED state
     \/ \E s \in {"altered", "unreadable"} :
          state' = [state EXCEPT ![r] = s] /\ UNCHANGED files
  /\ UNCHANGED <<index, tombs, op, answer>>

Write ==
  \E o \in op :
    \/ Rename(o) \/ Hide(o) \/ WriteIndex(o) \/ WriteState(o) \/ RemoveTree(o)
    \/ WriteFails(o) \/ RemovalFails(o) \/ Restore(o)

Next ==
  \/ \E r \in Revision :
       \/ Reject(r) \/ Repeat(r) \/ Drift(r)
       \/ \E kind \in {"install", "upgrade"} : Refuse(kind, r) \/ Publish(kind, r)
       \/ \E c \in Capability : Rollback(c, r) \/ RemoveRevision(c, r)
  \/ \E c \in Capability :
       \/ RollbackRefused(c) \/ RemoveAbsent(c)
       \/ Rebuild(c) \/ RebuildRefused(c) \/ ListRevisions(c)
  \/ Write \/ Crash

Spec == StoreInit /\ [][Next]_vars

-----------------------------------------------------------------------------
\* What _load_index demands of an entry, and that its revisions belong to it.
EntryOK(c, e) ==
  /\ e \in Entry
  /\ Len(e.revisions) <= MaxRevisions
  /\ \A i, j \in DOMAIN e.revisions : e.revisions[i] = e.revisions[j] => i = j
  /\ \A i \in DOMAIN e.revisions : CapabilityOf[e.revisions[i]] = c
  /\ IF e.revisions = <<>> THEN e.selected = {}
     ELSE \E i \in DOMAIN e.revisions : e.selected = {e.revisions[i]}

\* The type invariant: the index is one that _load_index accepts.
CapabilityTypeOK ==
  /\ index \in [Capability -> Entry]
  /\ \A c \in Capability : EntryOK(c, index[c])
  /\ files \in [Revision -> Content]
  /\ state \in [Revision -> Metadata]
  /\ tombs \subseteq Revision
  /\ op \subseteq Operation
  /\ \A o, p \in op : o = p
  /\ answer \in Answer

\* Nothing the index lists is destroyed, wherever an operation is cut off: a
\* revision that is not in its place was renamed by a removal, and is complete
\* (remove renames before it writes the index, and deletes after).
IndexBacked ==
  \A c \in Capability : \A r \in Listed(c) : files[r] = "none" => r \in tombs

\* The selection moves to a revision of the history only if that was verified:
\* by a rollback, or when the selected revision is removed (rollback, remove).
SelectionVerified ==
  [][\A c \in Capability : \A r \in index[c].selected' :
       r \in Listed(c) \ index[c].selected => Verified(r)]_vars

\* An operation finds the store damaged only if it is: something of that
\* capability has drifted, or a removal was cut off. Publications that failed
\* half-way are not in the way of a retry (_publish_revision).
NoFalseAlarm ==
  [][answer' # answer /\ answer'.code = "damaged" =>
       \E r \in Revision :
         /\ CapabilityOf[r] = answer'.of
         /\ \/ files[r] = "drifted"
            \/ state[r] \in {"altered", "unreadable"}
            \/ r \in tombs]_vars

\* The index is the history of every capability.
ImplementsHistory == History!HistorySpec

=============================================================================
