------------------------- MODULE RunStateRepository -------------------------
(***************************************************************************)
(* The repository of run states: six files per revision in a directory of  *)
(* their own, a manifest active-run.json that names one revision by its    *)
(* digests, and an archived manifest per finished run                      *)
(* (src/src/adapters/file_run_state_repository.py).                        *)
(*                                                                         *)
(* A manifest is authenticated and holds the digest of every file, so it   *)
(* is modelled as the snapshot it stands for, and loads only if that       *)
(* snapshot is on disk. One caller at a time is inside the repository;     *)
(* the steps of an operation are its writes, since only a crash or a       *)
(* failing write can come between them.                                    *)
(***************************************************************************)
EXTENDS Naturals, Sequences

CONSTANTS
  Caller,  \* threads that use the repository
  Run,     \* run ids
  Tag      \* identities of save requests: their contents are never equal

VARIABLES
  active,     \* active-run.json, as a set of at most one snapshot
  published,  \* complete revision directories
  torn,       \* names of revision directories that lost some of their files
  staged,     \* names of revisions with a staging directory left behind
  archived,   \* the archived-run.json files
  lock,       \* the operation in progress, as a set of at most one
  call        \* what each caller is doing

disk == <<active, published, torn, staged, archived>>

\* The part of RunState the life cycle decides by: the context level, and the
\* request that set the run running, if it is running.
Body == [level: Nat, running: SUBSET Tag]
Request == [run: Run, rev: Nat \ {0}, tag: Tag, body: Body]
Snapshot == [run: Run, rev: Nat \ {0}, tag: Tag, body: Body, log: Seq(Tag)]
Name(s) == <<s.run, s.rev>>

Operation == [by: Caller, snap: Snapshot, base: SUBSET Snapshot,
              pc: {"publish", "rename", "manifest", "prune",
                   "sweep", "archive", "unlink"}]
Call == [pc: {"idle", "reload", "save", "busy", "saved", "archived",
              "refused", "conflict", "failed"},
         req: SUBSET Request]
Idle == [pc |-> "idle", req |-> {}]

RepositoryInit ==
  /\ active = {}
  /\ published = {}
  /\ torn = {}
  /\ staged = {}
  /\ archived = {}
  /\ lock = {}
  /\ call = [c \in Caller |-> Idle]

-----------------------------------------------------------------------------
\* The manifest loads: its files are there with the digests it names.
Loads == active \subseteq published

\* Mutant of History: a save forgets the events of earlier ones.
HistoryFresh(old) == <<>>

\* The events of a snapshot are those of the active one and the new one.
History(old) == IF old = {} THEN <<>> ELSE (CHOOSE a \in old : TRUE).log

SnapshotOf(q, old) ==
  [run |-> q.run, rev |-> q.rev, tag |-> q.tag, body |-> q.body,
   log |-> Append(History(old), q.tag)]

\* An archive of the active run was written but the run is still active.
ArchivePending == \E a \in active, s \in archived : s.run = a.run

\* Mutant of Resumable: an archived run is not looked for.
ResumableArchived(q) ==
  \A n \in torn \cup staged \cup {Name(s) : s \in published} :
    n[1] = q.run => n[2] = q.rev

\* A run that is not active may be saved only if nothing of it is on disk but
\* an unpublished attempt at the same revision.
Resumable(q) ==
  /\ \A s \in archived : s.run # q.run
  /\ \A n \in torn \cup staged \cup {Name(s) : s \in published} :
       n[1] = q.run => n[2] = q.rev

Newer(q, a) == q.run = a.run /\ q.rev > a.rev

Acceptable(q) ==
  /\ ~ArchivePending
  /\ \A a \in active : Newer(q, a)
  /\ active = {} => Resumable(q)

\* The request that produced the active revision is made again.
Repeated(q) ==
  /\ ~ArchivePending
  /\ \E a \in active : a.run = q.run /\ a.rev = q.rev /\ a.tag = q.tag

-----------------------------------------------------------------------------
\* The lock is taken by c for an operation that starts at pc.
Enter(c, pc, s) ==
  /\ lock' = {[by |-> c, pc |-> pc, snap |-> s, base |-> active]}
  /\ call' = [call EXCEPT ![c].pc = "busy"]

Proceed(o, pc) ==
  /\ lock' = {[o EXCEPT !.pc = pc]}
  /\ UNCHANGED call

Leave(o, answer) ==
  /\ lock' = {}
  /\ call' = [call EXCEPT ![o.by].pc = answer]

SaveBegins(c) ==
  /\ call[c].pc = "save"
  /\ lock = {}
  /\ Loads
  /\ \E q \in call[c].req :
       /\ Acceptable(q)
       /\ Enter(c, "publish", SnapshotOf(q, active))
  /\ UNCHANGED disk

SaveRepeated(c) ==
  /\ call[c].pc = "save"
  /\ lock = {}
  /\ Loads
  /\ \E q \in call[c].req, a \in active :
       /\ Repeated(q)
       /\ Enter(c, "prune", a)
  /\ UNCHANGED disk

SaveRefused(c) ==
  /\ call[c].pc = "save"
  /\ lock = {}
  /\ Loads
  /\ \E q \in call[c].req : ~Acceptable(q) /\ ~Repeated(q)
  /\ call' = [call EXCEPT ![c].pc = "refused"]
  /\ UNCHANGED <<disk, lock>>

\* _publish_revision finds the directory: its contents must be the same.
PublishFinds(o) ==
  /\ o.pc = "publish"
  /\ o.snap \in published
  /\ Proceed(o, "manifest")
  /\ UNCHANGED disk

PublishConflicts(o) ==
  /\ o.pc = "publish"
  /\ o.snap \notin published
  /\ Name(o.snap) \in torn \cup {Name(s) : s \in published}
  /\ Leave(o, "conflict")
  /\ UNCHANGED disk

PublishStages(o) ==
  /\ o.pc = "publish"
  /\ Name(o.snap) \notin torn \cup {Name(s) : s \in published}
  /\ Proceed(o, "rename")
  /\ UNCHANGED disk

-----------------------------------------------------------------------------
\* What one write does to the disk.
Rename(o) ==
  /\ o.pc = "rename"
  /\ published' = published \cup {o.snap}
  /\ UNCHANGED <<active, torn, staged, archived>>

WriteManifest(o) ==
  /\ o.pc = "manifest"
  /\ active = o.base
  /\ active' = {o.snap}
  /\ UNCHANGED <<published, torn, staged, archived>>

WriteArchive(o) ==
  /\ o.pc = "archive"
  /\ \A s \in archived : s.run = o.snap.run => s = o.snap
  /\ archived' = archived \cup {o.snap}
  /\ UNCHANGED <<active, published, torn, staged>>

Unlink(o) ==
  /\ o.pc = "unlink"
  /\ active' = {}
  /\ UNCHANGED <<published, torn, staged, archived>>

Written(o) ==
  \/ Rename(o) /\ Proceed(o, "manifest")
  \/ WriteManifest(o) /\ Proceed(o, "prune")
  \/ WriteArchive(o) /\ Proceed(o, "unlink")
  \/ Unlink(o) /\ Leave(o, "archived")

\* A write raises: before it took effect, or after it, when the directory
\* cannot be synced or what was written does not read back.
WriteRaises(o) ==
  /\ o.pc \in {"rename", "manifest", "archive", "unlink"}
  /\ \/ Rename(o) \/ WriteManifest(o) \/ WriteArchive(o) \/ Unlink(o)
     \/ UNCHANGED disk
  /\ Leave(o, "failed")

\* The staging directory is discarded where that can be done safely.
StagingStays(o) ==
  /\ o.pc = "rename"
  /\ staged' = staged \cup {Name(o.snap)}
  /\ Leave(o, "failed")
  /\ UNCHANGED <<active, published, torn, archived>>

\* Mutant of Superseded: the newest revision counts as old.
SupersededByAge(s) == {r \in published : r.run = s.run /\ r.rev <= s.rev}

\* The revisions of a run that _prune_revision_snapshots removes.
Superseded(s) == {r \in published : r.run = s.run /\ r.rev # s.rev}
SupersededTorn(s) == {n \in torn : n[1] = s.run /\ n[2] # s.rev}

\* Best effort, file by file: any of them may go, stay, or lose some files.
Prune(o) ==
  /\ o.pc \in {"prune", "sweep"}
  /\ \E gone \in SUBSET Superseded(o.snap), cleared \in SUBSET SupersededTorn(o.snap) :
       \E ripped \in SUBSET gone :
         /\ published' = published \ gone
         /\ torn' = (torn \ cleared) \cup {Name(s) : s \in ripped}
  /\ IF o.pc = "prune" THEN Leave(o, "saved") ELSE Proceed(o, "archive")
  /\ UNCHANGED <<active, staged, archived>>

ArchiveBegins(c) ==
  /\ call[c].pc = "idle"
  /\ lock = {}
  /\ Loads
  /\ \E a \in active : Enter(c, "sweep", a)
  /\ UNCHANGED disk

\* The process dies: the lock is free, and a staging directory stays.
Interrupted ==
  /\ staged' = staged \cup {Name(o.snap) : o \in {p \in lock : p.pc = "rename"}}
  /\ lock' = {}
  /\ call' = [c \in Caller |-> Idle]
  /\ UNCHANGED <<active, published, torn, archived>>

RepositoryStep ==
  \/ \E c \in Caller : SaveBegins(c) \/ SaveRepeated(c) \/ SaveRefused(c)
  \/ \E o \in lock :
       \/ PublishFinds(o) \/ PublishConflicts(o) \/ PublishStages(o)
       \/ Written(o) \/ WriteRaises(o) \/ StagingStays(o) \/ Prune(o)

-----------------------------------------------------------------------------
\* The active manifest and the archived ones can always be loaded: crashes,
\* failing writes and pruning never take away the files they name, and no two
\* directories have one name (save, _prune_revision_snapshots, archive_active).
ActiveIntact ==
  /\ active \cup archived \subseteq published
  /\ \A s, t \in published : Name(s) = Name(t) => s = t
  /\ \A s \in published : Name(s) \notin torn

\* The archived runs, but for one whose archive is pending.
Retired == {s \in archived : s \notin active}

Register == INSTANCE RunStateRegister WITH current <- active, past <- Retired

\* Whatever fails, the repository is an atomic register: one write of the
\* manifest is the whole of a save, and an archived run never comes back.
ImplementsRegister == Register!RegisterSpec

=============================================================================
