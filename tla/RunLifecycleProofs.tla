------------------------- MODULE RunLifecycleProofs -------------------------
(***************************************************************************)
(* The repository of run states under the life cycle: what the manifests   *)
(* name is on disk, and the repository implements the atomic register, for *)
(* any number of callers, runs and requests.                               *)
(***************************************************************************)
EXTENDS RunLifecycle, TLAPS

\* What the operation that holds the lock knows of the disk, by its place.
OperationSound(o) ==
  /\ o.pc \in {"publish", "rename", "manifest"} =>
       /\ active = o.base
       /\ \A s \in archived : s.run # o.snap.run
       /\ Register!Extends(o.snap, o.base)
  /\ o.pc = "rename" => Name(o.snap) \notin torn \cup {Name(s) : s \in published}
  /\ o.pc = "manifest" => o.snap \in published
  /\ o.pc \in {"prune", "sweep", "archive", "unlink"} => active = {o.snap}
  /\ o.pc = "unlink" => o.snap \in archived

LockSound == \A o \in lock : OperationSound(o)

\* An archive of the active run is an archive of its active revision.
PendingIsActive == \A a \in active, s \in archived : s.run = a.run => s = a

IInv == RunStateTypeOK /\ ActiveIntact /\ PendingIsActive /\ LockSound

-----------------------------------------------------------------------------
LEMMA InitSound == LifecycleInit => IInv
  BY DEF LifecycleInit, RepositoryInit, IInv, RunStateTypeOK, ActiveIntact,
     PendingIsActive, LockSound, AtMostOne, Call, Idle

\* The steps of the life cycle that leave the repository alone.
Aside == UNCHANGED <<disk, lock>>

\* The invariant but for the parts that the life cycle changes beside it.
CallsTyped ==
  /\ call \in [Caller -> Call]
  /\ phase \in {"starting", "recovering", "serving", "down"}
  /\ issued \subseteq Tag
  /\ mine \subseteq issued

\* Steps that leave the repository alone keep the invariant if they keep types.
LEMMA AsideKeeps ==
  ASSUME IInv, Aside, CallsTyped'
  PROVE  IInv'
  BY DEF IInv, Aside, disk, CallsTyped, RunStateTypeOK, ActiveIntact,
     PendingIsActive, LockSound, OperationSound, Name

\* A request of the life cycle is a request.
LEMMA AskTyped ==
  ASSUME IInv, NEW c \in Caller, NEW q \in Request,
         NEW pc \in {"save", "reload"}, Ask(c, pc, q)
  PROVE  /\ Aside
         /\ call' \in [Caller -> Call]
         /\ issued' \subseteq Tag
         /\ mine' \subseteq issued'
  BY DEF IInv, RunStateTypeOK, Ask, Aside, Call, Request

LEMMA EvolvedTyped ==
  ASSUME IInv, NEW a \in active, NEW t \in Tag, NEW b \in Body
  PROVE  Evolved(a, t, b) \in Request
  BY DEF IInv, RunStateTypeOK, Snapshot, Request, Evolved

LEMMA BodyTyped ==
  ASSUME IInv, NEW a \in active
  PROVE  a.body \in Body
  BY DEF IInv, RunStateTypeOK, Snapshot

LEMMA LifecycleKeeps ==
  ASSUME IInv,
         NEW c \in Caller, NEW t \in Tag,
         \/ \E r \in Run : StartRun(c, r, t)
         \/ \E l \in 1 .. MaxLevel : ContextEvent(c, t, l)
         \/ Checkpoint(c, t)
         \/ Recover(c, t)
  PROVE  IInv'
<1>1. CASE \E r \in Run : StartRun(c, r, t)
  <2>1. PICK r \in Run : StartRun(c, r, t)
    BY <1>1
  <2>2. [run |-> r, rev |-> 1, tag |-> t,
         body |-> [level |-> 0, running |-> {t}]] \in Request
    BY DEF Request, Body
  <2>3. Aside /\ CallsTyped'
    BY <2>1, <2>2, AskTyped DEF StartRun, CallsTyped, IInv, RunStateTypeOK
  <2> QED
    BY <2>3, AsideKeeps
<1>2. CASE \E l \in 1 .. MaxLevel : ContextEvent(c, t, l)
  <2>1. PICK l \in 1 .. MaxLevel : ContextEvent(c, t, l)
    BY <1>2
  <2>2. PICK a \in active :
          Ask(c, "reload", Evolved(a, t, [a.body EXCEPT !.level = l]))
    BY <2>1 DEF ContextEvent
  <2>3. [a.body EXCEPT !.level = l] \in Body
    BY BodyTyped, MaxLevelAssumption DEF Body
  <2>4. Evolved(a, t, [a.body EXCEPT !.level = l]) \in Request
    BY <2>3, EvolvedTyped
  <2>5. Aside /\ CallsTyped'
    BY <2>1, <2>2, <2>4, AskTyped DEF ContextEvent, CallsTyped, IInv, RunStateTypeOK
  <2> QED
    BY <2>5, AsideKeeps
<1>3. CASE Checkpoint(c, t)
  <2>1. PICK a \in active : Ask(c, "save", Evolved(a, t, a.body))
    BY <1>3 DEF Checkpoint
  <2>2. Evolved(a, t, a.body) \in Request
    BY BodyTyped, EvolvedTyped
  <2>3. Aside /\ CallsTyped'
    BY <1>3, <2>1, <2>2, AskTyped DEF Checkpoint, CallsTyped, IInv, RunStateTypeOK
  <2> QED
    BY <2>3, AsideKeeps
<1>4. CASE Recover(c, t)
  <2>1. PICK a \in active : Ask(c, "save", Recovered(a, t))
    BY <1>4 DEF Recover
  <2>2. [a.body EXCEPT !.running = {}] \in Body
    BY BodyTyped DEF Body
  <2>3. Recovered(a, t) \in Request
    BY <2>2, EvolvedTyped DEF Recovered
  <2>4. Aside /\ CallsTyped'
    BY <1>4, <2>1, <2>3, AskTyped DEF Recover, CallsTyped
  <2> QED
    BY <2>4, AsideKeeps
<1> QED
  BY <1>1, <1>2, <1>3, <1>4

LEMMA CallerKeeps ==
  ASSUME IInv, NEW c \in Caller,
         Reload(c) \/ StartupEnds(c) \/ Return(c) \/ Retry(c)
  PROVE  IInv'
<1>1. CASE Reload(c)
  <2>1. PICK q \in call[c].req :
          \E b \in {q, [q EXCEPT !.rev = q.rev + 1]} :
            call' = [call EXCEPT ![c] = [pc |-> "save", req |-> {b}]]
    BY <1>1 DEF Reload
  <2>2. q \in Request /\ [q EXCEPT !.rev = q.rev + 1] \in Request
    BY <2>1 DEF IInv, RunStateTypeOK, Call, Request
  <2>3. Aside /\ CallsTyped'
    BY <1>1, <2>1, <2>2 DEF Reload, Aside, CallsTyped, IInv, RunStateTypeOK, Call
  <2> QED
    BY <2>3, AsideKeeps
<1>2. CASE StartupEnds(c)
  <2>1. Aside /\ CallsTyped'
    BY <1>2 DEF StartupEnds, Aside, CallsTyped, IInv, RunStateTypeOK, Call, Idle
  <2> QED
    BY <2>1, AsideKeeps
<1>3. CASE Return(c)
  <2>1. Aside /\ CallsTyped'
    BY <1>3 DEF Return, Aside, CallsTyped, IInv, RunStateTypeOK, Call, Idle
  <2> QED
    BY <2>1, AsideKeeps
<1>4. CASE Retry(c)
  <2>1. Aside /\ CallsTyped'
    BY <1>4 DEF Retry, Aside, CallsTyped, IInv, RunStateTypeOK, Call
  <2> QED
    BY <2>1, AsideKeeps
<1> QED
  BY <1>1, <1>2, <1>3, <1>4

-----------------------------------------------------------------------------
\* What a save publishes is a snapshot that extends the active one.
LEMMA SnapshotTyped ==
  ASSUME IInv, NEW q \in Request
  PROVE  /\ SnapshotOf(q, active) \in Snapshot
         /\ Acceptable(q) => Register!Extends(SnapshotOf(q, active), active)
<1>1. CASE active = {}
  <2>1. History(active) = <<>>
    BY <1>1 DEF History
  <2>2. Append(History(active), q.tag) \in Seq(Tag)
        /\ Len(Append(History(active), q.tag)) = 1
    BY <2>1 DEF Request
  <2> QED
    BY <1>1, <2>2 DEF SnapshotOf, Snapshot, Request, Register!Extends
<1>2. CASE active # {}
  <2>1. PICK a \in active : active = {a}
    BY <1>2 DEF IInv, RunStateTypeOK, AtMostOne
  <2>2. History(active) = a.log /\ a.log \in Seq(Tag)
    BY <1>2, <2>1 DEF History, IInv, RunStateTypeOK, Snapshot
  <2>3. Append(a.log, q.tag) \in Seq(Tag)
    BY <2>2 DEF Request
  <2> QED
    BY <1>2, <2>1, <2>2, <2>3
       DEF SnapshotOf, Snapshot, Request, Register!Extends, Acceptable, Newer
<1> QED
  BY <1>1, <1>2

LEMMA BeginKeeps ==
  ASSUME IInv, NEW c \in Caller, SaveBegins(c), UNCHANGED <<phase, issued, mine>>
  PROVE  IInv'
<1>1. PICK q \in call[c].req :
        Acceptable(q) /\ Enter(c, "publish", SnapshotOf(q, active))
  BY DEF SaveBegins
<1>2. q \in Request
  BY <1>1 DEF IInv, RunStateTypeOK, Call
<1> DEFINE o == [by |-> c, pc |-> "publish", snap |-> SnapshotOf(q, active), base |-> active]
<1>3. lock' = {o} /\ call' = [call EXCEPT ![c].pc = "busy"]
  BY <1>1 DEF Enter
<1>4. o \in Operation
  BY <1>2, SnapshotTyped DEF Operation, IInv, RunStateTypeOK
<1>5. RunStateTypeOK'
  BY <1>3, <1>4 DEF IInv, RunStateTypeOK, SaveBegins, disk, Call, AtMostOne
<1>6. \A s \in archived : s.run # q.run
  BY <1>1 DEF Acceptable, ArchivePending, Resumable, Newer
<1>7. OperationSound(o)'
  BY <1>1, <1>2, <1>6, SnapshotTyped DEF SaveBegins, disk, OperationSound, SnapshotOf
<1> QED
  BY <1>3, <1>5, <1>7
     DEF IInv, SaveBegins, disk, ActiveIntact, PendingIsActive, LockSound, Name

\* An operation on the active snapshot itself: a repeated save, or an archive.
LEMMA EnterActiveKeeps ==
  ASSUME IInv, NEW c \in Caller, NEW a \in active, NEW pc \in {"prune", "sweep"},
         Enter(c, pc, a), UNCHANGED <<disk, phase, issued, mine>>
  PROVE  IInv'
<1> DEFINE o == [by |-> c, pc |-> pc, snap |-> a, base |-> active]
<1>1. lock' = {o} /\ call' = [call EXCEPT ![c].pc = "busy"]
  BY DEF Enter
<1>2. o \in Operation /\ active = {a}
  BY DEF Operation, IInv, RunStateTypeOK, AtMostOne
<1>3. RunStateTypeOK'
  BY <1>1, <1>2 DEF IInv, RunStateTypeOK, disk, Call, AtMostOne
<1>4. OperationSound(o)'
  BY <1>2 DEF disk, OperationSound
<1> QED
  BY <1>1, <1>3, <1>4 DEF IInv, disk, ActiveIntact, PendingIsActive, LockSound, Name

LEMMA RefusedKeeps ==
  ASSUME IInv, NEW c \in Caller, SaveRefused(c), UNCHANGED <<phase, issued, mine>>
  PROVE  IInv'
<1>1. Aside /\ CallsTyped'
  BY DEF SaveRefused, Aside, CallsTyped, IInv, RunStateTypeOK, Call
<1> QED
  BY <1>1, AsideKeeps

-----------------------------------------------------------------------------
\* The operation in progress is the only one, and typed.
LEMMA OnlyOperation ==
  ASSUME IInv, NEW o \in lock
  PROVE  /\ lock = {o} /\ o \in Operation /\ OperationSound(o)
         /\ o.by \in Caller /\ o.snap \in Snapshot
  BY DEF IInv, RunStateTypeOK, AtMostOne, LockSound, Operation

\* Types after an operation goes on or leaves, if the disk is typed.
DiskTyped ==
  /\ active \subseteq Snapshot /\ AtMostOne(active)
  /\ published \subseteq Snapshot
  /\ archived \subseteq Snapshot
  /\ torn \subseteq Run \X (Nat \ {0})
  /\ staged \subseteq Run \X (Nat \ {0})

LEMMA LeaveTyped ==
  ASSUME IInv, NEW o \in lock,
         NEW answer \in {"saved", "archived", "conflict", "failed"},
         Leave(o, answer), DiskTyped', UNCHANGED <<phase, issued, mine>>
  PROVE  RunStateTypeOK' /\ LockSound'
<1>1. o.by \in Caller
  BY OnlyOperation
<1>2. call' \in [Caller -> Call]
  BY <1>1 DEF Leave, IInv, RunStateTypeOK, Call
<1> QED
  BY <1>2 DEF Leave, IInv, RunStateTypeOK, DiskTyped, LockSound, AtMostOne

LEMMA ProceedTyped ==
  ASSUME IInv, NEW o \in lock,
         NEW pc \in {"rename", "manifest", "prune", "archive", "unlink"},
         Proceed(o, pc), DiskTyped', UNCHANGED <<phase, issued, mine>>
  PROVE  RunStateTypeOK' /\ lock' = {[o EXCEPT !.pc = pc]}
<1>1. o \in Operation
  BY OnlyOperation
<1>2. [o EXCEPT !.pc = pc] \in Operation
  BY <1>1 DEF Operation
<1> QED
  BY <1>2 DEF Proceed, IInv, RunStateTypeOK, DiskTyped, AtMostOne

\* Each write keeps what is on disk sound.
LEMMA RenameSound ==
  ASSUME IInv, NEW o \in lock, Rename(o)
  PROVE  /\ DiskTyped' /\ ActiveIntact' /\ PendingIsActive'
         /\ OperationSound([o EXCEPT !.pc = "manifest"])'
<1>1. o \in Operation /\ OperationSound(o) /\ o.snap \in Snapshot
  BY OnlyOperation
<1>2. [o EXCEPT !.pc = "manifest"].pc = "manifest"
      /\ [o EXCEPT !.pc = "manifest"].snap = o.snap
      /\ [o EXCEPT !.pc = "manifest"].base = o.base
  BY <1>1 DEF Operation
<1>3. DiskTyped'
  BY <1>1 DEF Rename, DiskTyped, IInv, RunStateTypeOK, AtMostOne
<1>4. ActiveIntact'
  BY <1>1 DEF Rename, IInv, ActiveIntact, OperationSound
<1>5. PendingIsActive'
  BY DEF Rename, IInv, PendingIsActive
<1>6. OperationSound([o EXCEPT !.pc = "manifest"])'
  BY <1>1, <1>2 DEF Rename, OperationSound
<1> QED
  BY <1>3, <1>4, <1>5, <1>6

LEMMA ManifestSound ==
  ASSUME IInv, NEW o \in lock, WriteManifest(o)
  PROVE  /\ DiskTyped' /\ ActiveIntact' /\ PendingIsActive'
         /\ OperationSound([o EXCEPT !.pc = "prune"])'
<1>1. o \in Operation /\ OperationSound(o) /\ o.snap \in Snapshot
  BY OnlyOperation
<1>2. [o EXCEPT !.pc = "prune"].pc = "prune" /\ [o EXCEPT !.pc = "prune"].snap = o.snap
  BY <1>1 DEF Operation
<1>3. DiskTyped'
  BY <1>1 DEF WriteManifest, DiskTyped, IInv, RunStateTypeOK, AtMostOne
<1>4. ActiveIntact'
  BY <1>1 DEF WriteManifest, IInv, ActiveIntact, OperationSound
<1>5. PendingIsActive'
  BY <1>1 DEF WriteManifest, PendingIsActive, OperationSound
<1>6. OperationSound([o EXCEPT !.pc = "prune"])'
  BY <1>1, <1>2 DEF WriteManifest, OperationSound
<1> QED
  BY <1>3, <1>4, <1>5, <1>6

LEMMA ArchiveSound ==
  ASSUME IInv, NEW o \in lock, WriteArchive(o)
  PROVE  /\ DiskTyped' /\ ActiveIntact' /\ PendingIsActive'
         /\ OperationSound([o EXCEPT !.pc = "unlink"])'
<1>1. o \in Operation /\ OperationSound(o) /\ o.snap \in Snapshot
  BY OnlyOperation
<1>2. [o EXCEPT !.pc = "unlink"].pc = "unlink"
      /\ [o EXCEPT !.pc = "unlink"].snap = o.snap
  BY <1>1 DEF Operation
<1>3. DiskTyped'
  BY <1>1 DEF WriteArchive, DiskTyped, IInv, RunStateTypeOK, AtMostOne
<1>4. ActiveIntact'
  BY <1>1 DEF WriteArchive, IInv, ActiveIntact, OperationSound
<1>5. PendingIsActive'
  BY <1>1 DEF WriteArchive, IInv, PendingIsActive, OperationSound
<1>6. OperationSound([o EXCEPT !.pc = "unlink"])'
  BY <1>1, <1>2 DEF WriteArchive, OperationSound
<1> QED
  BY <1>3, <1>4, <1>5, <1>6

LEMMA UnlinkSound ==
  ASSUME IInv, NEW o \in lock, Unlink(o)
  PROVE  DiskTyped' /\ ActiveIntact' /\ PendingIsActive'
  BY DEF Unlink, DiskTyped, IInv, RunStateTypeOK, AtMostOne, ActiveIntact,
     PendingIsActive

LEMMA DiskSame ==
  ASSUME IInv, UNCHANGED disk
  PROVE  DiskTyped' /\ ActiveIntact' /\ PendingIsActive'
  BY DEF disk, DiskTyped, IInv, RunStateTypeOK, AtMostOne, ActiveIntact,
     PendingIsActive, Name

-----------------------------------------------------------------------------
LEMMA PublishKeeps ==
  ASSUME IInv, NEW o \in lock, UNCHANGED <<phase, issued, mine>>,
         PublishFinds(o) \/ PublishConflicts(o) \/ PublishStages(o)
  PROVE  IInv'
<1>1. o \in Operation /\ OperationSound(o) /\ lock = {o}
  BY OnlyOperation
<1>2. DiskTyped' /\ ActiveIntact' /\ PendingIsActive'
  BY DiskSame DEF PublishFinds, PublishConflicts, PublishStages
<1>3. CASE PublishFinds(o)
  <2>1. RunStateTypeOK' /\ lock' = {[o EXCEPT !.pc = "manifest"]}
    BY <1>2, <1>3, ProceedTyped DEF PublishFinds
  <2>2. OperationSound([o EXCEPT !.pc = "manifest"])'
    BY <1>1, <1>3 DEF PublishFinds, OperationSound, disk, Operation
  <2> QED
    BY <1>2, <2>1, <2>2 DEF IInv, LockSound
<1>4. CASE PublishConflicts(o)
  <2>1. RunStateTypeOK' /\ LockSound'
    BY <1>2, <1>4, LeaveTyped DEF PublishConflicts
  <2> QED
    BY <1>2, <2>1 DEF IInv
<1>5. CASE PublishStages(o)
  <2>1. RunStateTypeOK' /\ lock' = {[o EXCEPT !.pc = "rename"]}
    BY <1>2, <1>5, ProceedTyped DEF PublishStages
  <2>2. OperationSound([o EXCEPT !.pc = "rename"])'
    BY <1>1, <1>5 DEF PublishStages, OperationSound, disk, Operation, Name
  <2> QED
    BY <1>2, <2>1, <2>2 DEF IInv, LockSound
<1> QED
  BY <1>3, <1>4, <1>5

LEMMA WrittenKeeps ==
  ASSUME IInv, NEW o \in lock, UNCHANGED <<phase, issued, mine>>, Written(o)
  PROVE  IInv'
<1>1. CASE Rename(o) /\ Proceed(o, "manifest")
  <2>1. /\ DiskTyped' /\ ActiveIntact' /\ PendingIsActive'
        /\ OperationSound([o EXCEPT !.pc = "manifest"])'
    BY <1>1, RenameSound
  <2>2. RunStateTypeOK' /\ lock' = {[o EXCEPT !.pc = "manifest"]}
    BY <1>1, <2>1, ProceedTyped
  <2> QED
    BY <2>1, <2>2 DEF IInv, LockSound
<1>2. CASE WriteManifest(o) /\ Proceed(o, "prune")
  <2>1. /\ DiskTyped' /\ ActiveIntact' /\ PendingIsActive'
        /\ OperationSound([o EXCEPT !.pc = "prune"])'
    BY <1>2, ManifestSound
  <2>2. RunStateTypeOK' /\ lock' = {[o EXCEPT !.pc = "prune"]}
    BY <1>2, <2>1, ProceedTyped
  <2> QED
    BY <2>1, <2>2 DEF IInv, LockSound
<1>3. CASE WriteArchive(o) /\ Proceed(o, "unlink")
  <2>1. /\ DiskTyped' /\ ActiveIntact' /\ PendingIsActive'
        /\ OperationSound([o EXCEPT !.pc = "unlink"])'
    BY <1>3, ArchiveSound
  <2>2. RunStateTypeOK' /\ lock' = {[o EXCEPT !.pc = "unlink"]}
    BY <1>3, <2>1, ProceedTyped
  <2> QED
    BY <2>1, <2>2 DEF IInv, LockSound
<1>4. CASE Unlink(o) /\ Leave(o, "archived")
  BY <1>4, UnlinkSound, LeaveTyped DEF IInv
<1> QED
  BY <1>1, <1>2, <1>3, <1>4 DEF Written

LEMMA RaisesKeeps ==
  ASSUME IInv, NEW o \in lock, UNCHANGED <<phase, issued, mine>>,
         WriteRaises(o) \/ StagingStays(o)
  PROVE  IInv'
<1>1. CASE WriteRaises(o)
  <2>1. DiskTyped' /\ ActiveIntact' /\ PendingIsActive'
    BY <1>1, RenameSound, ManifestSound, ArchiveSound, UnlinkSound, DiskSame
       DEF WriteRaises
  <2> QED
    BY <1>1, <2>1, LeaveTyped DEF WriteRaises, IInv
<1>2. CASE StagingStays(o)
  <2>1. Name(o.snap) \in Run \X (Nat \ {0})
    BY OnlyOperation DEF Snapshot, Name
  <2>2. DiskTyped' /\ ActiveIntact' /\ PendingIsActive'
    BY <1>2, <2>1 DEF StagingStays, DiskTyped, IInv, RunStateTypeOK, AtMostOne,
       ActiveIntact, PendingIsActive, Name
  <2> QED
    BY <1>2, <2>2, LeaveTyped DEF StagingStays, IInv
<1> QED
  BY <1>1, <1>2

\* Pruning takes away neither the active snapshot nor an archived one.
LEMMA PruneKeeps ==
  ASSUME IInv, NEW o \in lock, UNCHANGED <<phase, issued, mine>>, Prune(o)
  PROVE  IInv'
<1>1. o \in Operation /\ OperationSound(o) /\ o.snap \in Snapshot /\ lock = {o}
  BY OnlyOperation
<1>2. active = {o.snap}
  BY <1>1 DEF Prune, OperationSound
<1>3. PICK gone \in SUBSET Superseded(o.snap), cleared \in SUBSET SupersededTorn(o.snap) :
        \E ripped \in SUBSET gone :
          /\ published' = published \ gone
          /\ torn' = (torn \ cleared) \cup {Name(s) : s \in ripped}
  BY DEF Prune
<1>4. \A s \in active \cup archived : s \notin gone
  BY <1>2, <1>3 DEF Superseded, IInv, PendingIsActive
<1>5. DiskTyped'
  BY <1>3 DEF Prune, DiskTyped, IInv, RunStateTypeOK, AtMostOne, Superseded,
     Snapshot, Name
<1>6. ActiveIntact'
  <2>1. (active \cup archived)' \subseteq published'
    BY <1>3, <1>4 DEF Prune, IInv, ActiveIntact
  <2>2. \A s, t \in published' : Name(s) = Name(t) => s = t
    BY <1>3 DEF IInv, ActiveIntact
  <2>3. \A s \in published' : Name(s) \notin torn'
    BY <1>3 DEF IInv, ActiveIntact, Superseded
  <2> QED
    BY <2>1, <2>2, <2>3 DEF ActiveIntact, Name
<1>7. PendingIsActive'
  BY DEF Prune, IInv, PendingIsActive
<1>8. CASE o.pc = "prune"
  <2>1. RunStateTypeOK' /\ LockSound'
    BY <1>5, <1>8, LeaveTyped DEF Prune
  <2> QED
    BY <1>6, <1>7, <2>1 DEF IInv
<1>9. CASE o.pc = "sweep"
  <2>1. RunStateTypeOK' /\ lock' = {[o EXCEPT !.pc = "archive"]}
    BY <1>5, <1>9, ProceedTyped DEF Prune
  <2>2. OperationSound([o EXCEPT !.pc = "archive"])'
    BY <1>1, <1>2 DEF Prune, OperationSound, Operation
  <2> QED
    BY <1>6, <1>7, <2>1, <2>2 DEF IInv, LockSound
<1> QED
  BY <1>8, <1>9 DEF Prune

LEMMA StopKeeps ==
  ASSUME IInv, Stop
  PROVE  IInv'
<1>1. \A o \in lock : Name(o.snap) \in Run \X (Nat \ {0})
  BY OnlyOperation DEF Snapshot, Name
<1>2. RunStateTypeOK'
  BY <1>1 DEF Stop, Interrupted, IInv, RunStateTypeOK, AtMostOne, Call, Idle
<1> QED
  BY <1>2 DEF Stop, Interrupted, IInv, ActiveIntact, PendingIsActive, LockSound, Name

LEMMA RestKeeps ==
  ASSUME IInv, NothingToRecover \/ Boot \/ UNCHANGED vars
  PROVE  IInv'
<1>1. Aside /\ CallsTyped'
  BY DEF NothingToRecover, Boot, vars, Aside, CallsTyped, IInv, RunStateTypeOK
<1> QED
  BY <1>1, AsideKeeps

LEMMA StepSound == IInv /\ [Next]_vars => IInv'
<1> SUFFICES ASSUME IInv, [Next]_vars
             PROVE  IInv'
  OBVIOUS
<1>1. CASE Work
  <2>1. ASSUME NEW c \in Caller, SaveBegins(c) \/ SaveRepeated(c) \/ SaveRefused(c)
        PROVE  IInv'
    BY <1>1, <2>1, BeginKeeps, EnterActiveKeeps, RefusedKeeps DEF Work, SaveRepeated
  <2>2. ASSUME NEW o \in lock,
               \/ PublishFinds(o) \/ PublishConflicts(o) \/ PublishStages(o)
               \/ Written(o) \/ WriteRaises(o) \/ StagingStays(o) \/ Prune(o)
        PROVE  IInv'
    BY <1>1, <2>2, PublishKeeps, WrittenKeeps, RaisesKeeps, PruneKeeps DEF Work
  <2> QED
    BY <1>1, <2>1, <2>2 DEF Work, RepositoryStep
<1>2. ASSUME NEW c \in Caller, NEW t \in Tag \ issued,
             \/ \E r \in Run : StartRun(c, r, t)
             \/ \E l \in 1 .. MaxLevel : ContextEvent(c, t, l)
             \/ Checkpoint(c, t)
             \/ Recover(c, t)
      PROVE  IInv'
  BY <1>2, LifecycleKeeps
<1>3. ASSUME NEW c \in Caller, Reload(c) \/ StartupEnds(c) \/ Return(c) \/ Retry(c)
      PROVE  IInv'
  BY <1>3, CallerKeeps
<1>4. ASSUME NEW c \in Caller, Archive(c)
      PROVE  IInv'
  BY <1>4, EnterActiveKeeps DEF Archive, ArchiveBegins
<1>5. CASE NothingToRecover \/ Boot \/ UNCHANGED vars
  BY <1>5, RestKeeps
<1>6. CASE Stop
  BY <1>6, StopKeeps
<1> QED
  BY <1>1, <1>2, <1>3, <1>4, <1>5, <1>6 DEF Next

\* The inductive invariant: what an operation knows of the disk while it holds
\* the lock, whatever failed, stopped or was repeated before it (save, archive).
THEOREM RunStateInvariant == Spec => []IInv
  BY InitSound, StepSound, PTL DEF Spec

\* Every variable keeps its type: one manifest, one operation (_exclusive_write).
THEOREM RunStateTypeCorrect == Spec => []RunStateTypeOK
  BY RunStateInvariant, PTL DEF IInv

\* What the active and the archived manifests name is on disk and whole
\* (save, _prune_revision_snapshots, archive_active).
THEOREM ManifestsLoad == Spec => []ActiveIntact
  BY RunStateInvariant, PTL DEF IInv

-----------------------------------------------------------------------------
RegisterStep == Register!Commit \/ Register!Retire \/ UNCHANGED <<active, Retired>>

\* The write of the manifest is the commit of a save.
LEMMA ManifestCommits ==
  ASSUME IInv, NEW o \in lock, WriteManifest(o)
  PROVE  Register!Commit
<1>1. OperationSound(o)
  BY OnlyOperation
<1>2. active' = {o.snap} /\ active = o.base /\ archived' = archived
  BY DEF WriteManifest
<1>3. Register!Extends(o.snap, active) /\ \A p \in Retired : p.run # o.snap.run
  BY <1>1, <1>2 DEF WriteManifest, OperationSound, Retired
<1>4. archived \cap active = {}
  <2>1. \A a \in active : a.run = o.snap.run
    BY <1>3 DEF Register!Extends, IInv, RunStateTypeOK, AtMostOne
  <2>2. \A s \in archived : s.run # o.snap.run
    BY <1>1 DEF WriteManifest, OperationSound
  <2> QED
    BY <2>1, <2>2
<1>5. archived \cap active' = {}
  BY <1>1, <1>2 DEF WriteManifest, OperationSound
<1>6. Retired' = Retired
  BY <1>2, <1>4, <1>5 DEF Retired
<1> QED
  BY <1>2, <1>3, <1>6 DEF Register!Commit

\* The removal of the manifest is the end of its run.
LEMMA UnlinkRetires ==
  ASSUME IInv, NEW o \in lock, Unlink(o)
  PROVE  Register!Retire
<1>1. active = {o.snap} /\ o.snap \in archived
  BY OnlyOperation DEF Unlink, OperationSound
<1>2. active' = {} /\ archived' = archived
  BY DEF Unlink
<1>3. Retired' = Retired \cup active
  BY <1>1, <1>2 DEF Retired
<1> QED
  BY <1>1, <1>2, <1>3 DEF Register!Retire

LEMMA ArchiveStutters ==
  ASSUME IInv, NEW o \in lock, WriteArchive(o)
  PROVE  UNCHANGED <<active, Retired>>
<1>1. active = {o.snap}
  BY OnlyOperation DEF WriteArchive, OperationSound
<1> QED
  BY <1>1 DEF WriteArchive, Retired

LEMMA WriteIsRegisterStep ==
  ASSUME IInv, NEW o \in lock,
         Rename(o) \/ WriteManifest(o) \/ WriteArchive(o) \/ Unlink(o)
  PROVE  RegisterStep
<1>1. CASE Rename(o)
  BY <1>1 DEF Rename, RegisterStep, Retired
<1>2. CASE WriteManifest(o) \/ WriteArchive(o) \/ Unlink(o)
  BY <1>2, ManifestCommits, ArchiveStutters, UnlinkRetires DEF RegisterStep
<1> QED
  BY <1>1, <1>2

LEMMA RegisterSteps ==
  ASSUME IInv, [Next]_vars
  PROVE  [Register!Commit \/ Register!Retire]_<<active, Retired>>
<1>1. CASE UNCHANGED <<active, archived>>
  BY <1>1 DEF Retired
<1>2. CASE Work
  <2>1. ASSUME NEW c \in Caller, SaveBegins(c) \/ SaveRepeated(c) \/ SaveRefused(c)
        PROVE  UNCHANGED <<active, archived>>
    BY <2>1 DEF SaveBegins, SaveRepeated, SaveRefused, disk
  <2>2. ASSUME NEW o \in lock,
               \/ PublishFinds(o) \/ PublishConflicts(o) \/ PublishStages(o)
               \/ StagingStays(o) \/ Prune(o)
        PROVE  UNCHANGED <<active, archived>>
    BY <2>2 DEF PublishFinds, PublishConflicts, PublishStages, StagingStays, Prune, disk
  <2>3. ASSUME NEW o \in lock, Written(o) \/ WriteRaises(o)
        PROVE  RegisterStep
    <3>1. CASE Rename(o) \/ WriteManifest(o) \/ WriteArchive(o) \/ Unlink(o)
      BY <3>1, WriteIsRegisterStep
    <3>2. CASE UNCHANGED disk
      BY <3>2 DEF RegisterStep, Retired, disk
    <3> QED
      BY <2>3, <3>1, <3>2 DEF Written, WriteRaises
  <2> QED
    BY <1>1, <1>2, <2>1, <2>2, <2>3 DEF Work, RepositoryStep, RegisterStep
<1>3. ASSUME ~Work
      PROVE  UNCHANGED <<active, archived>>
  <2>1. CASE UNCHANGED vars
    BY <2>1 DEF vars, disk
  <2>2. CASE Boot \/ Stop
    BY <2>2 DEF Boot, Stop, Interrupted, disk
  <2>3. ASSUME NEW c \in Caller, NEW t \in Tag,
               \/ \E r \in Run : StartRun(c, r, t)
               \/ \E l \in 1 .. MaxLevel : ContextEvent(c, t, l)
               \/ Checkpoint(c, t) \/ Recover(c, t)
        PROVE  UNCHANGED disk
    BY <2>3 DEF StartRun, ContextEvent, Checkpoint, Recover, Ask
  <2>4. ASSUME NEW c \in Caller,
               Reload(c) \/ StartupEnds(c) \/ Return(c) \/ Retry(c) \/ Archive(c)
        PROVE  UNCHANGED disk
    BY <2>4 DEF Reload, StartupEnds, Return, Retry, Archive, ArchiveBegins, Ask
  <2>5. CASE NothingToRecover
    BY <2>5 DEF NothingToRecover, disk
  <2>6. CASE UNCHANGED disk
    BY <2>6 DEF disk
  <2> QED
    BY <1>3, <2>1, <2>2, <2>3, <2>4, <2>5, <2>6 DEF Next
<1> QED
  BY <1>1, <1>2, <1>3

\* Refinement: whatever fails, stops or is repeated, the repository is an atomic
\* register whose log grows by one entry a save (save and archive_active).
THEOREM RepositoryIsRegister == Spec => ImplementsRegister
<1>1. LifecycleInit => Register!RegisterInit
  BY DEF LifecycleInit, RepositoryInit, Register!RegisterInit, Retired
<1>2. IInv /\ [Next]_vars => [Register!Commit \/ Register!Retire]_<<active, Retired>>
  BY RegisterSteps
<1> QED
  BY <1>1, <1>2, RunStateInvariant, PTL
     DEF Spec, ImplementsRegister, Register!RegisterSpec

-----------------------------------------------------------------------------
(* A snapshot by its log: no request is in it twice, its own is in it, and *)
(* all of them were made.                                                  *)
Logged(s) == {s.log[i] : i \in DOMAIN s.log}
Kept == active \cup archived

SnapSound(s) ==
  /\ \A i, j \in DOMAIN s.log : s.log[i] = s.log[j] => i = j
  /\ s.tag \in Logged(s)
  /\ Logged(s) \subseteq issued

LogsSound == \A s \in Kept \cup {o.snap : o \in lock} : SnapSound(s)

\* Each caller has one request at most, and no two requests are the same.
RequestsDistinct ==
  /\ \A c \in Caller : call[c].pc = "idle" => call[c].req = {}
  /\ \A c, d \in Caller : \A q \in call[c].req, r \in call[d].req :
       /\ q.tag \in issued
       /\ c = d => q = r
       /\ q.tag = r.tag => c = d

(* A request that was applied can only be repeated: the log it is in is at *)
(* its revision or beyond it. One that is being reloaded was not applied.  *)
Pending(c, q) ==
  /\ \A s \in Kept : q.tag \in Logged(s) => /\ call[c].pc # "reload"
                                            /\ s.run = q.run /\ q.rev <= s.rev
  /\ \A a \in active : q.tag = a.tag => q.body = a.body

PendingSound == \A c \in Caller : \A q \in call[c].req : Pending(c, q)

\* The operation in progress is that of the request of its caller.
Serves(o) ==
  /\ call[o.by].pc = "busy"
  /\ o.pc \in {"publish", "rename", "manifest"} =>
       \E q \in call[o.by].req :
         q.tag = o.snap.tag /\ q.run = o.snap.run /\ q.rev = o.snap.rev /\ q.body = o.snap.body
  /\ o.pc = "prune" => \A q \in call[o.by].req :
       q.run = o.snap.run /\ q.tag \in Logged(o.snap)

LockServes == \A o \in lock : Serves(o)

\* What was answered as saved is in the log of its run.
SavedKept ==
  \A c \in Caller : call[c].pc = "saved" =>
    \A q \in call[c].req : \E s \in Kept : s.run = q.run /\ q.tag \in Logged(s)

RequestInv == LogsSound /\ RequestsDistinct /\ PendingSound /\ LockServes /\ SavedKept

(* The requests and the operation in progress set no run running that is   *)
(* not in m, and nobody but one caller asks for anything.                  *)
RunsIn(m) ==
  /\ \A c \in Caller : \A q \in call[c].req : q.body.running \subseteq m
  /\ \A o \in lock : o.snap.body.running \subseteq m

Alone == \A c, d \in Caller : call[c].pc # "idle" /\ call[d].pc # "idle" => c = d

\* Before the service serves, only the recovery asks, for a run at rest.
RunsSound ==
  /\ phase \in {"starting", "down"} => lock = {} /\ \A c \in Caller : call[c].pc = "idle"
  /\ phase = "recovering" =>
       /\ Alone /\ RunsIn({})
       /\ \A c \in Caller : call[c].pc = "saved" => \A a \in active : a.body.running = {}
  /\ phase = "serving" => RunsIn(mine) /\ \A a \in active : a.body.running \subseteq mine

-----------------------------------------------------------------------------
\* What a caller may turn to, so that its request agrees with the logs.
Fits(c, x) ==
  /\ call[c].pc # "busy" /\ x.pc # "saved"
  /\ x.pc = "idle" => x.req = {}
  /\ \A q, r \in x.req : q = r
  /\ \A d \in Caller \ {c} : \A q \in x.req, r \in call[d].req : q.tag # r.tag
  /\ \A q \in x.req :
       /\ \A s \in Kept : q.tag \in Logged(s) => /\ x.pc # "reload"
                                                 /\ s.run = q.run /\ q.rev <= s.rev
       /\ \A a \in active : q.tag = a.tag => q.body = a.body

\* A step that leaves the repository alone and changes what one caller does.
LEMMA AsideRequests ==
  ASSUME IInv, RequestInv, Aside, NEW c \in Caller, NEW x,
         call' = [call EXCEPT ![c] = x], Fits(c, x),
         issued \subseteq issued', \A q \in x.req : q.tag \in issued'
  PROVE  RequestInv'
<1>1. call'[c] = x /\ \A d \in Caller \ {c} : call'[d] = call[d]
  BY DEF IInv, RunStateTypeOK
<1>2. Kept' = Kept /\ active' = active /\ lock' = lock
  BY DEF Aside, disk, Kept
<1>3. LogsSound'
  BY <1>2 DEF RequestInv, LogsSound, SnapSound, Logged
<1>4. RequestsDistinct'
  <2>1. \A d \in Caller : call'[d].pc = "idle" => call'[d].req = {}
    BY <1>1 DEF RequestInv, RequestsDistinct, Fits
  <2>2. ASSUME NEW d \in Caller, NEW e \in Caller,
               NEW q \in call'[d].req, NEW r \in call'[e].req
        PROVE  q.tag \in issued' /\ (d = e => q = r) /\ (q.tag = r.tag => d = e)
    <3>1. CASE d # c /\ e # c
      BY <1>1, <2>2, <3>1 DEF RequestInv, RequestsDistinct
    <3>2. CASE d = c
      BY <1>1, <2>2, <3>2 DEF Fits
    <3>3. CASE d # c /\ e = c
      BY <1>1, <2>2, <3>3 DEF RequestInv, RequestsDistinct, Fits
    <3> QED
      BY <3>1, <3>2, <3>3
  <2> QED
    BY <2>1, <2>2 DEF RequestsDistinct
<1>5. PendingSound'
  <2>1. ASSUME NEW d \in Caller, NEW q \in call'[d].req
        PROVE  Pending(d, q)'
    <3>1. CASE d = c
      BY <1>1, <1>2, <2>1, <3>1 DEF Pending, Logged, Fits
    <3>2. CASE d # c
      BY <1>1, <1>2, <2>1, <3>2 DEF Pending, Logged, RequestInv, PendingSound
    <3> QED
      BY <3>1, <3>2
  <2> QED
    BY <2>1 DEF PendingSound
<1>6. LockServes'
  <2>1. ASSUME NEW o \in lock
        PROVE  Serves(o)'
    <3>1. Serves(o) /\ o.by \in Caller
      BY OnlyOperation DEF RequestInv, LockServes
    <3>2. call'[o.by] = call[o.by]
      BY <1>1, <3>1 DEF Serves, Fits
    <3> QED
      BY <3>1, <3>2 DEF Serves, Logged
  <2> QED
    BY <1>2, <2>1 DEF LockServes
<1>7. SavedKept'
  BY <1>1, <1>2 DEF RequestInv, SavedKept, Logged, Fits
<1> QED
  BY <1>3, <1>4, <1>5, <1>6, <1>7 DEF RequestInv

\* A new request is in no log.
LEMMA AskRequests ==
  ASSUME IInv, RequestInv, NEW c \in Caller, NEW q \in Request,
         NEW pc \in {"save", "reload"}, q.tag \notin issued,
         call[c].pc = "idle", Ask(c, pc, q)
  PROVE  RequestInv'
<1> DEFINE x == [pc |-> pc, req |-> {q}]
<1>1. /\ x.req = {q} /\ x.pc = pc /\ Aside
      /\ call' = [call EXCEPT ![c] = x] /\ issued' = issued \cup {q.tag}
  BY DEF Ask, Aside
<1>2. \A s \in Kept : q.tag \notin Logged(s)
  BY DEF RequestInv, LogsSound, SnapSound
<1>3. \A a \in active : q.tag # a.tag
  BY <1>2 DEF RequestInv, LogsSound, SnapSound, Kept
<1>4. \A d \in Caller : \A r \in call[d].req : r.tag # q.tag
  BY DEF RequestInv, RequestsDistinct
<1> HIDE DEF x
<1>5. Fits(c, x)
  BY <1>1, <1>2, <1>3, <1>4 DEF Fits
<1> QED
  BY <1>1, <1>5, AsideRequests

LEMMA LifecycleRequests ==
  ASSUME IInv, RequestInv, RunsSound,
         NEW c \in Caller, NEW t \in Tag \ issued,
         \/ \E r \in Run : StartRun(c, r, t)
         \/ \E l \in 1 .. MaxLevel : ContextEvent(c, t, l)
         \/ Checkpoint(c, t)
         \/ Recover(c, t)
  PROVE  RequestInv'
<1>1. CASE \E r \in Run : StartRun(c, r, t)
  <2>1. PICK r \in Run : StartRun(c, r, t)
    BY <1>1
  <2> DEFINE q == [run |-> r, rev |-> 1, tag |-> t,
                   body |-> [level |-> 0, running |-> {t}]]
  <2>2. q \in Request /\ q.tag = t
    BY DEF Request, Body
  <2>3. Ask(c, "save", q) /\ call[c].pc = "idle"
    BY <2>1 DEF StartRun
  <2> HIDE DEF q
  <2> QED
    BY <2>2, <2>3, AskRequests
<1>2. CASE \E l \in 1 .. MaxLevel : ContextEvent(c, t, l)
  <2>1. PICK l \in 1 .. MaxLevel : ContextEvent(c, t, l)
    BY <1>2
  <2>2. PICK a \in active :
          Ask(c, "reload", Evolved(a, t, [a.body EXCEPT !.level = l]))
    BY <2>1 DEF ContextEvent
  <2>3. [a.body EXCEPT !.level = l] \in Body
    BY BodyTyped, MaxLevelAssumption DEF Body
  <2>4. Evolved(a, t, [a.body EXCEPT !.level = l]) \in Request
    BY <2>3, EvolvedTyped
  <2>5. Evolved(a, t, [a.body EXCEPT !.level = l]).tag = t
    BY DEF Evolved
  <2> QED
    BY <2>1, <2>2, <2>4, <2>5, AskRequests DEF ContextEvent
<1>3. CASE Checkpoint(c, t)
  <2>1. PICK a \in active : Ask(c, "save", Evolved(a, t, a.body))
    BY <1>3 DEF Checkpoint
  <2>2. Evolved(a, t, a.body) \in Request /\ Evolved(a, t, a.body).tag = t
    BY BodyTyped, EvolvedTyped DEF Evolved
  <2> QED
    BY <1>3, <2>1, <2>2, AskRequests DEF Checkpoint
<1>4. CASE Recover(c, t)
  <2>1. PICK a \in active : Ask(c, "save", Recovered(a, t))
    BY <1>4 DEF Recover
  <2>2. [a.body EXCEPT !.running = {}] \in Body
    BY BodyTyped DEF Body
  <2>3. Recovered(a, t) \in Request /\ Recovered(a, t).tag = t
    BY <2>2, EvolvedTyped DEF Recovered, Evolved
  <2>4. call[c].pc = "idle"
    BY <1>4 DEF Recover, RunsSound
  <2> QED
    BY <2>1, <2>3, <2>4, AskRequests
<1> QED
  BY <1>1, <1>2, <1>3, <1>4

LEMMA CallerRequests ==
  ASSUME IInv, RequestInv, NEW c \in Caller,
         Reload(c) \/ StartupEnds(c) \/ Return(c) \/ Retry(c)
           \/ (SaveRefused(c) /\ UNCHANGED issued)
  PROVE  RequestInv'
<1>1. /\ \A q, r \in call[c].req : q = r
      /\ \A q \in call[c].req : q.tag \in issued /\ Pending(c, q) /\ q \in Request
      /\ \A d \in Caller \ {c} : \A q \in call[c].req, r \in call[d].req : q.tag # r.tag
  BY DEF RequestInv, RequestsDistinct, PendingSound, IInv, RunStateTypeOK, Call
<1>2. CASE Reload(c)
  <2>1. PICK q \in call[c].req :
          \E b \in {q, [q EXCEPT !.rev = q.rev + 1]} :
            call' = [call EXCEPT ![c] = [pc |-> "save", req |-> {b}]]
    BY <1>2 DEF Reload
  <2>2. PICK b \in {q, [q EXCEPT !.rev = q.rev + 1]} :
          call' = [call EXCEPT ![c] = [pc |-> "save", req |-> {b}]]
    BY <2>1
  <2>3. b.tag = q.tag
    BY <1>1 DEF Request
  <2>4. \A s \in Kept : q.tag \notin Logged(s)
    BY <1>1, <1>2 DEF Reload, Pending
  <2>5. \A a \in active : q.tag # a.tag
    BY <2>4 DEF RequestInv, LogsSound, SnapSound, Kept
  <2> DEFINE x == [pc |-> "save", req |-> {b}]
  <2>6. /\ x.pc = "save" /\ x.req = {b} /\ call' = [call EXCEPT ![c] = x]
        /\ Aside /\ issued' = issued /\ call[c].pc # "busy"
    BY <1>2, <2>2 DEF Reload, Aside
  <2> HIDE DEF x
  <2>7. Fits(c, x) /\ b.tag \in issued'
    BY <1>1, <2>3, <2>4, <2>5, <2>6 DEF Fits
  <2> QED
    BY <2>6, <2>7, AsideRequests
<1>3. CASE StartupEnds(c) \/ Return(c)
  <2> DEFINE x == Idle
  <2>1. /\ x.pc = "idle" /\ x.req = {} /\ call' = [call EXCEPT ![c] = x]
        /\ Aside /\ issued' = issued /\ call[c].pc # "busy"
    BY <1>3 DEF StartupEnds, Return, Aside, Idle
  <2> HIDE DEF x
  <2>2. Fits(c, x)
    BY <2>1 DEF Fits
  <2> QED
    BY <2>1, <2>2, AsideRequests
<1>4. CASE Retry(c) \/ (SaveRefused(c) /\ UNCHANGED issued)
  <2>1. PICK pc \in {"save", "refused"} : call' = [call EXCEPT ![c].pc = pc]
    BY <1>4 DEF Retry, SaveRefused
  <2> DEFINE x == [call[c] EXCEPT !.pc = pc]
  <2>2. /\ x.pc = pc /\ x.req = call[c].req /\ call' = [call EXCEPT ![c] = x]
    BY <2>1 DEF IInv, RunStateTypeOK, Call
  <2>3. Aside /\ issued' = issued /\ call[c].pc # "busy"
    BY <1>4 DEF Retry, SaveRefused, Aside
  <2>4. \A q \in call[c].req :
          /\ \A s \in Kept : q.tag \in Logged(s) => s.run = q.run /\ q.rev <= s.rev
          /\ \A a \in active : q.tag = a.tag => q.body = a.body
    BY <1>1 DEF Pending
  <2> HIDE DEF x
  <2>5. Fits(c, x)
    BY <1>1, <2>2, <2>3, <2>4 DEF Fits
  <2> QED
    BY <1>1, <2>2, <2>3, <2>5, AsideRequests
<1> QED
  BY <1>2, <1>3, <1>4

-----------------------------------------------------------------------------
\* What a write may do to the disk, so that the requests agree with the logs.
DiskFits ==
  /\ Kept' \subseteq Kept \cup {o.snap : o \in lock}
  /\ \A c \in Caller : \A q \in call[c].req :
       /\ \A s \in Kept' : q.tag \in Logged(s) => /\ call[c].pc # "reload"
                                                  /\ s.run = q.run /\ q.rev <= s.rev
       /\ \A a \in active' : q.tag = a.tag => q.body = a.body
  /\ \A c \in Caller : call[c].pc = "saved" =>
       \A q \in call[c].req : \E s \in Kept' : s.run = q.run /\ q.tag \in Logged(s)

LEMMA SameFits ==
  ASSUME RequestInv, Kept' = Kept, active' = active
  PROVE  DiskFits
  BY DEF DiskFits, RequestInv, PendingSound, Pending, SavedKept

\* The log of a snapshot that extends another has its entries and its own.
LEMMA ExtendsLogged ==
  ASSUME IInv, NEW s \in Snapshot, Register!Extends(s, active), s.tag \in Logged(s)
  PROVE  /\ \A a \in active : s.run = a.run /\ a.rev < s.rev
                              /\ Logged(s) = Logged(a) \cup {s.tag}
         /\ active = {} => Logged(s) = {s.tag}
<1>1. CASE active = {}
  BY <1>1 DEF Register!Extends, Logged, Snapshot
<1>2. CASE active # {}
  <2>1. PICK a \in active : s.run = a.run /\ s.rev > a.rev /\ s.log = Append(a.log, s.tag)
    BY <1>2 DEF Register!Extends
  <2>2. active = {a} /\ a \in Snapshot
    BY DEF IInv, RunStateTypeOK, AtMostOne
  <2>3. a.log \in Seq(Tag) /\ a.rev \in Nat /\ s.rev \in Nat /\ s.tag \in Tag
    BY <2>2 DEF Snapshot
  <2>4. Logged(s) = Logged(a) \cup {s.tag}
    <3> DEFINE l == a.log
    <3> DEFINE m == Append(l, s.tag)
    <3>1. DOMAIN l = 1 .. Len(l) /\ Len(l) \in Nat /\ l \in Seq(Tag)
      BY <2>3
    <3>2. /\ DOMAIN m = 1 .. Len(l) + 1 /\ m[Len(l) + 1] = s.tag
          /\ \A i \in 1 .. Len(l) : m[i] = l[i]
      BY <2>3
    <3> HIDE DEF l, m
    <3>3. {m[i] : i \in DOMAIN m} = {l[i] : i \in DOMAIN l} \cup {s.tag}
      <4>1. \A i \in DOMAIN m : i \in DOMAIN l \/ i = Len(l) + 1
        BY <3>1, <3>2
      <4>2. \A i \in DOMAIN l : i \in DOMAIN m /\ m[i] = l[i]
        BY <3>1, <3>2
      <4>3. Len(l) + 1 \in DOMAIN m
        BY <3>1, <3>2
      <4> QED
        BY <3>2, <4>1, <4>2, <4>3
    <3> QED
      BY <2>1, <3>3 DEF Logged, l, m
  <2> QED
    BY <2>1, <2>2, <2>3, <2>4
<1> QED
  BY <1>1, <1>2

LEMMA ManifestFits ==
  ASSUME IInv, RequestInv, NEW o \in lock, WriteManifest(o)
  PROVE  DiskFits
<1>1. /\ o \in Operation /\ OperationSound(o) /\ Serves(o) /\ lock = {o}
      /\ o.by \in Caller /\ o.snap \in Snapshot /\ SnapSound(o.snap)
  BY OnlyOperation DEF RequestInv, LockServes, LogsSound
<1>2. active' = {o.snap} /\ archived' = archived /\ Register!Extends(o.snap, active)
  BY <1>1 DEF WriteManifest, OperationSound
<1>3. /\ \A a \in active : o.snap.run = a.run /\ a.rev < o.snap.rev
                           /\ Logged(o.snap) = Logged(a) \cup {o.snap.tag}
      /\ active = {} => Logged(o.snap) = {o.snap.tag}
  BY <1>1, <1>2, ExtendsLogged DEF SnapSound
<1>4. PICK r \in call[o.by].req :
        r.tag = o.snap.tag /\ r.run = o.snap.run /\ r.rev = o.snap.rev /\ r.body = o.snap.body
  BY <1>1 DEF Serves, WriteManifest
<1>5. ASSUME NEW c \in Caller, NEW q \in call[c].req, q.tag = o.snap.tag
      PROVE  c = o.by /\ q = r
  BY <1>1, <1>4, <1>5 DEF RequestInv, RequestsDistinct
<1>6. ASSUME NEW c \in Caller, NEW q \in call[c].req, q.tag \in Logged(o.snap)
      PROVE  /\ call[c].pc # "reload" /\ o.snap.run = q.run /\ q.rev <= o.snap.rev
  <2>1. q.rev \in Nat /\ o.snap.rev \in Nat /\ \A a \in active : a.rev \in Nat
    BY <1>1, <1>6 DEF IInv, RunStateTypeOK, Call, Request, Snapshot
  <2>2. CASE q.tag = o.snap.tag
    BY <1>1, <1>4, <1>5, <1>6, <2>1, <2>2 DEF Serves
  <2>3. CASE q.tag # o.snap.tag
    <3>1. PICK a \in active : q.tag \in Logged(a)
      BY <1>3, <1>6, <2>3
    <3>2. call[c].pc # "reload" /\ a.run = q.run /\ q.rev <= a.rev
      BY <1>6, <3>1 DEF RequestInv, PendingSound, Pending, Kept
    <3> QED
      BY <1>3, <2>1, <3>1, <3>2
  <2> QED
    BY <2>2, <2>3
<1>7. Kept' = {o.snap} \cup archived
  BY <1>2 DEF Kept
<1>8. ASSUME NEW c \in Caller, NEW q \in call[c].req
      PROVE  /\ \A s \in Kept' : q.tag \in Logged(s) => /\ call[c].pc # "reload"
                                                        /\ s.run = q.run /\ q.rev <= s.rev
             /\ \A a \in active' : q.tag = a.tag => q.body = a.body
  <2>1. \A s \in archived : q.tag \in Logged(s) => /\ call[c].pc # "reload"
                                                   /\ s.run = q.run /\ q.rev <= s.rev
    BY <1>8 DEF RequestInv, PendingSound, Pending, Kept
  <2> QED
    BY <1>2, <1>4, <1>5, <1>6, <1>7, <1>8, <2>1
<1>9. ASSUME NEW c \in Caller, call[c].pc = "saved", NEW q \in call[c].req
      PROVE  \E s \in Kept' : s.run = q.run /\ q.tag \in Logged(s)
  <2>1. PICK s \in Kept : s.run = q.run /\ q.tag \in Logged(s)
    BY <1>9 DEF RequestInv, SavedKept
  <2> QED
    BY <1>3, <1>7, <2>1 DEF Kept
<1> QED
  BY <1>7, <1>8, <1>9 DEF DiskFits, Kept

LEMMA UnlinkFits ==
  ASSUME IInv, RequestInv, NEW o \in lock, Unlink(o)
  PROVE  DiskFits
<1>1. Kept' = Kept /\ active' = {}
  BY OnlyOperation DEF Unlink, OperationSound, Kept
<1> QED
  BY <1>1 DEF DiskFits, RequestInv, PendingSound, Pending, SavedKept

LEMMA WriteFits ==
  ASSUME IInv, RequestInv, NEW o \in lock,
         Rename(o) \/ WriteManifest(o) \/ WriteArchive(o) \/ Unlink(o) \/ UNCHANGED disk
  PROVE  DiskFits
<1>1. CASE Rename(o) \/ UNCHANGED disk
  BY <1>1, SameFits DEF Rename, disk, Kept
<1>2. CASE WriteManifest(o) \/ Unlink(o)
  BY <1>2, ManifestFits, UnlinkFits
<1>3. CASE WriteArchive(o)
  <2>1. Kept' = Kept /\ active' = active
    BY <1>3, OnlyOperation DEF WriteArchive, OperationSound, Kept
  <2> QED
    BY <2>1, SameFits
<1> QED
  BY <1>1, <1>2, <1>3

-----------------------------------------------------------------------------
\* The steps of an operation change what its caller does and not its request.
LEMMA CallerGoesOn ==
  ASSUME IInv, RequestInv, NEW o \in lock, NEW pc,
         call' = [call EXCEPT ![o.by].pc = pc]
  PROVE  /\ call[o.by].pc = "busy" /\ o.by \in Caller
         /\ \A c \in Caller : call'[c].req = call[c].req
         /\ \A c \in Caller \ {o.by} : call'[c].pc = call[c].pc
         /\ call'[o.by].pc = pc
<1>1. o.by \in Caller /\ Serves(o)
  BY OnlyOperation DEF RequestInv, LockServes
<1> QED
  BY <1>1 DEF Serves, IInv, RunStateTypeOK, Call

LEMMA LeaveRequests ==
  ASSUME IInv, RequestInv, NEW o \in lock, DiskFits, UNCHANGED issued,
         NEW answer \in {"saved", "archived", "conflict", "failed"}, Leave(o, answer),
         answer = "saved" => \A q \in call[o.by].req :
           \E s \in Kept' : s.run = q.run /\ q.tag \in Logged(s)
  PROVE  RequestInv'
<1>1. /\ call[o.by].pc = "busy" /\ o.by \in Caller
      /\ \A c \in Caller : call'[c].req = call[c].req
      /\ \A c \in Caller \ {o.by} : call'[c].pc = call[c].pc
      /\ call'[o.by].pc = answer
  BY CallerGoesOn DEF Leave
<1>2. LogsSound' /\ LockServes'
  BY DEF Leave, DiskFits, RequestInv, LogsSound, SnapSound, Logged, LockServes
<1>3. RequestsDistinct'
  BY <1>1 DEF RequestInv, RequestsDistinct
<1>4. PendingSound'
  BY <1>1 DEF DiskFits, PendingSound, Pending, Logged
<1>5. SavedKept'
  BY <1>1 DEF DiskFits, SavedKept, Logged
<1> QED
  BY <1>2, <1>3, <1>4, <1>5 DEF RequestInv

LEMMA ProceedRequests ==
  ASSUME IInv, RequestInv, NEW o \in lock, DiskFits, UNCHANGED issued,
         NEW pc \in {"rename", "manifest", "prune", "archive", "unlink"}, Proceed(o, pc),
         pc \in {"rename", "manifest"} => o.pc \in {"publish", "rename"},
         pc = "prune" => o.pc = "manifest"
  PROVE  RequestInv'
<1>1. o \in Operation /\ lock = {o} /\ Serves(o) /\ SnapSound(o.snap)
  BY OnlyOperation DEF RequestInv, LockServes, LogsSound
<1> DEFINE p == [o EXCEPT !.pc = pc]
<1>2. p.by = o.by /\ p.snap = o.snap /\ p.pc = pc /\ lock' = {p} /\ call' = call
  BY <1>1 DEF Proceed, Operation
<1> HIDE DEF p
<1>3. LogsSound'
  BY <1>1, <1>2 DEF DiskFits, RequestInv, LogsSound, SnapSound, Logged
<1>4. RequestsDistinct' /\ PendingSound' /\ SavedKept'
  BY <1>2 DEF DiskFits, RequestInv, RequestsDistinct, PendingSound, Pending, SavedKept, Logged
<1>5. Serves(p)'
  <2>1. \A q, r \in call[o.by].req : q = r
    BY OnlyOperation DEF RequestInv, RequestsDistinct
  <2>2. pc = "prune" => \A q \in call[o.by].req : q.run = o.snap.run /\ q.tag \in Logged(o.snap)
    BY <1>1, <2>1 DEF Serves, SnapSound
  <2> QED
    BY <1>1, <1>2, <2>2 DEF Serves, Logged
<1> QED
  BY <1>2, <1>3, <1>4, <1>5 DEF RequestInv, LockServes

\* An operation begins: its snapshot is sound and it serves its caller.
LEMMA EnterRequests ==
  ASSUME IInv, RequestInv, NEW c \in Caller, NEW pc \in {"publish", "prune", "sweep"},
         NEW s, Enter(c, pc, s), UNCHANGED disk, UNCHANGED issued, SnapSound(s),
         pc = "publish" => \E q \in call[c].req :
           q.tag = s.tag /\ q.run = s.run /\ q.rev = s.rev /\ q.body = s.body,
         pc = "prune" => \A q \in call[c].req : q.run = s.run /\ q.tag \in Logged(s),
         lock = {}
  PROVE  RequestInv'
<1> DEFINE o == [by |-> c, pc |-> pc, snap |-> s, base |-> active]
<1>1. o.by = c /\ o.pc = pc /\ o.snap = s /\ lock' = {o} /\ call' = [call EXCEPT ![c].pc = "busy"]
  BY DEF Enter
<1> HIDE DEF o
<1>2. /\ \A d \in Caller : call'[d].req = call[d].req
      /\ \A d \in Caller \ {c} : call'[d].pc = call[d].pc
      /\ call'[c].pc = "busy"
  BY <1>1 DEF IInv, RunStateTypeOK, Call
<1>3. Kept' = Kept /\ active' = active /\ issued' = issued
  BY DEF disk, Kept
<1>4. LogsSound'
  BY <1>1, <1>3 DEF RequestInv, LogsSound, SnapSound, Logged
<1>5. RequestsDistinct'
  BY <1>2, <1>3 DEF RequestInv, RequestsDistinct
<1>6. PendingSound'
  BY <1>2, <1>3 DEF RequestInv, PendingSound, Pending, Logged
<1>7. SavedKept'
  BY <1>2, <1>3 DEF RequestInv, SavedKept, Logged
<1>8. LockServes'
  BY <1>1, <1>2 DEF LockServes, Serves, Logged
<1> QED
  BY <1>4, <1>5, <1>6, <1>7, <1>8 DEF RequestInv

LEMMA SaveRequests ==
  ASSUME IInv, RequestInv, NEW c \in Caller, SaveBegins(c), UNCHANGED issued
  PROVE  RequestInv'
<1>1. PICK q \in call[c].req :
        Acceptable(q) /\ Enter(c, "publish", SnapshotOf(q, active))
  BY DEF SaveBegins
<1>2. q \in Request /\ q.tag \in issued /\ Pending(c, q)
  BY <1>1 DEF IInv, RunStateTypeOK, Call, RequestInv, RequestsDistinct, PendingSound
<1> DEFINE s == SnapshotOf(q, active)
<1>3. s \in Snapshot /\ Register!Extends(s, active)
  BY <1>1, <1>2, SnapshotTyped
<1>4. s.tag = q.tag /\ s.run = q.run /\ s.rev = q.rev /\ s.body = q.body
      /\ s.log = Append(History(active), q.tag)
  BY DEF SnapshotOf
<1> HIDE DEF s
<1>5. PICK l \in Seq(Tag) :
        /\ s.log = Append(l, q.tag)
        /\ l = <<>> \/ \E a \in active : l = a.log
  <2>1. CASE active = {}
    <3>1. History(active) = <<>> /\ <<>> \in Seq(Tag)
      BY <2>1 DEF History
    <3> QED
      BY <1>4, <3>1
  <2>2. CASE active # {}
    <3>1. PICK a \in active : active = {a} /\ a.log \in Seq(Tag)
      BY <2>2 DEF IInv, RunStateTypeOK, AtMostOne, Snapshot
    <3>2. History(active) = a.log
      BY <2>2, <3>1 DEF History
    <3> QED
      BY <1>4, <3>1, <3>2
  <2> QED
    BY <2>1, <2>2
<1>6. \A a \in active : a.rev < q.rev /\ a.rev \in Nat /\ q.rev \in Nat
  BY <1>1, <1>2 DEF Acceptable, Newer, IInv, RunStateTypeOK, Snapshot, Request
<1>7. \A a \in active : q.tag \notin Logged(a)
  BY <1>2, <1>6 DEF Pending, Kept
<1>8. /\ DOMAIN l = 1 .. Len(l) /\ Len(l) \in Nat
      /\ \A i, j \in DOMAIN l : l[i] = l[j] => i = j
      /\ \A i \in DOMAIN l : l[i] # q.tag /\ l[i] \in issued
  <2>1. CASE l = <<>>
    BY <2>1
  <2>2. CASE \E a \in active : l = a.log
    BY <1>5, <1>7, <2>2 DEF RequestInv, LogsSound, SnapSound, Logged, Kept
  <2> QED
    BY <1>5, <2>1, <2>2
<1> DEFINE m == Append(l, q.tag)
<1>9. /\ DOMAIN m = 1 .. Len(l) + 1 /\ m[Len(l) + 1] = q.tag
      /\ \A i \in 1 .. Len(l) : m[i] = l[i]
  BY <1>2, <1>5 DEF Request
<1> HIDE DEF m
<1>10. SnapSound(s)
  <2>1. \A i, j \in DOMAIN m : m[i] = m[j] => i = j
    BY <1>8, <1>9
  <2>2. q.tag \in {m[i] : i \in DOMAIN m}
    BY <1>8, <1>9
  <2>3. {m[i] : i \in DOMAIN m} \subseteq issued
    BY <1>2, <1>8, <1>9
  <2> QED
    BY <1>4, <1>5, <2>1, <2>2, <2>3 DEF SnapSound, Logged, m
<1> QED
  BY <1>1, <1>4, <1>10, EnterRequests DEF SaveBegins, s

LEMMA ActiveRequests ==
  ASSUME IInv, RequestInv, NEW c \in Caller, UNCHANGED issued,
         SaveRepeated(c) \/ ArchiveBegins(c)
  PROVE  RequestInv'
<1>1. \A a \in active : SnapSound(a)
  BY DEF RequestInv, LogsSound, Kept
<1>2. \A q, r \in call[c].req : q = r
  BY DEF RequestInv, RequestsDistinct
<1>3. CASE SaveRepeated(c)
  <2>1. PICK q \in call[c].req, a \in active : Repeated(q) /\ Enter(c, "prune", a)
    BY <1>3 DEF SaveRepeated
  <2>2. a.run = q.run /\ a.tag = q.tag
    BY <2>1 DEF Repeated, IInv, RunStateTypeOK, AtMostOne
  <2>3. \A r \in call[c].req : r.run = a.run /\ r.tag \in Logged(a)
    BY <1>1, <1>2, <2>1, <2>2 DEF SnapSound
  <2> QED
    BY <1>1, <1>3, <2>1, <2>3, EnterRequests DEF SaveRepeated
<1>4. CASE ArchiveBegins(c)
  BY <1>1, <1>4, EnterRequests DEF ArchiveBegins
<1> QED
  BY <1>3, <1>4

LEMMA OperationRequests ==
  ASSUME IInv, RequestInv, NEW o \in lock, UNCHANGED issued,
         \/ PublishFinds(o) \/ PublishConflicts(o) \/ PublishStages(o)
         \/ Written(o) \/ WriteRaises(o) \/ StagingStays(o) \/ Prune(o)
  PROVE  RequestInv'
<1>1. CASE PublishFinds(o)
  BY <1>1, WriteFits, ProceedRequests DEF PublishFinds
<1>2. CASE PublishConflicts(o)
  BY <1>2, WriteFits, LeaveRequests DEF PublishConflicts
<1>3. CASE PublishStages(o)
  BY <1>3, WriteFits, ProceedRequests DEF PublishStages
<1>4. CASE Written(o)
  <2>1. CASE Rename(o) /\ Proceed(o, "manifest")
    BY <2>1, WriteFits, ProceedRequests DEF Rename
  <2>2. CASE WriteManifest(o) /\ Proceed(o, "prune")
    BY <2>2, WriteFits, ProceedRequests DEF WriteManifest
  <2>3. CASE WriteArchive(o) /\ Proceed(o, "unlink")
    BY <2>3, WriteFits, ProceedRequests
  <2>4. CASE Unlink(o) /\ Leave(o, "archived")
    BY <2>4, WriteFits, LeaveRequests
  <2> QED
    BY <1>4, <2>1, <2>2, <2>3, <2>4 DEF Written
<1>5. CASE WriteRaises(o)
  BY <1>5, WriteFits, LeaveRequests DEF WriteRaises
<1>6. CASE StagingStays(o)
  BY <1>6, SameFits, LeaveRequests DEF StagingStays, Kept
<1>7. CASE Prune(o)
  <2>1. Kept' = Kept /\ active' = active /\ DiskFits
    BY <1>7, SameFits DEF Prune, Kept
  <2>2. CASE o.pc = "prune"
    <3>1. active = {o.snap} /\ Serves(o)
      BY <2>2, OnlyOperation DEF OperationSound, RequestInv, LockServes
    <3> QED
      BY <1>7, <2>1, <2>2, <3>1, LeaveRequests DEF Prune, Serves, Kept
  <2>3. CASE o.pc = "sweep"
    BY <1>7, <2>1, <2>3, ProceedRequests DEF Prune
  <2> QED
    BY <1>7, <2>2, <2>3 DEF Prune
<1> QED
  BY <1>1, <1>2, <1>3, <1>4, <1>5, <1>6, <1>7

LEMMA RestRequests ==
  ASSUME IInv, RequestInv, Stop \/ NothingToRecover \/ Boot \/ UNCHANGED vars
  PROVE  RequestInv'
<1>1. CASE Stop
  <2>1. /\ Kept' = Kept /\ active' = active /\ lock' = {} /\ issued' = issued
        /\ \A c \in Caller : call'[c].req = {} /\ call'[c].pc = "idle"
    BY <1>1 DEF Stop, Interrupted, Kept, Idle
  <2>2. LogsSound' /\ RequestsDistinct'
    BY <2>1 DEF RequestInv, LogsSound, RequestsDistinct, SnapSound, Logged
  <2> QED
    BY <2>1, <2>2 DEF RequestInv, PendingSound, LockServes, SavedKept
<1>2. CASE NothingToRecover \/ Boot \/ UNCHANGED vars
  <2>1. UNCHANGED <<active, archived, Kept, lock, call, issued>>
    BY <1>2 DEF NothingToRecover, Boot, vars, disk, Kept
  <2> QED
    BY <2>1 DEF RequestInv, LogsSound, SnapSound, Logged, RequestsDistinct,
       PendingSound, Pending, LockServes, Serves, SavedKept
<1> QED
  BY <1>1, <1>2

LEMMA StepRequests ==
  ASSUME IInv, RequestInv, RunsSound, [Next]_vars
  PROVE  RequestInv'
<1>1. CASE Work
  BY <1>1, SaveRequests, ActiveRequests, CallerRequests, OperationRequests
     DEF Work, RepositoryStep
<1>2. ASSUME NEW c \in Caller, Archive(c)
      PROVE  RequestInv'
  BY <1>2, ActiveRequests DEF Archive
<1> QED
  BY <1>1, <1>2, LifecycleRequests, CallerRequests, RestRequests DEF Next

-----------------------------------------------------------------------------
\* A step while the service recovers or serves that keeps the requests and
\* starts operations of the active run or of a request only.
LEMMA RunsGoOn ==
  ASSUME RunsSound, UNCHANGED <<phase, mine>>, phase \in {"recovering", "serving"},
         \A c \in Caller : call[c].pc = "idle" => call'[c].pc = "idle" \/ phase = "serving",
         \A c \in Caller : \A q \in call'[c].req :
           \E r \in call[c].req : r.body = q.body,
         \A o \in lock' :
           \/ \E p \in lock : o.snap.body = p.snap.body
           \/ \E c \in Caller : \E r \in call[c].req : o.snap.body = r.body
           \/ phase = "serving" /\ \E a \in active : o.snap = a,
         \A a \in active' : a \in active \/ \E p \in lock : p.snap = a,
         phase = "recovering" => \A c \in Caller : call'[c].pc = "saved" =>
           \A a \in active' : call[c].pc = "saved" \/ \E p \in lock : p.snap = a
  PROVE  RunsSound'
<1>1. CASE phase = "recovering"
  <2>1. Alone'
    BY <1>1 DEF RunsSound, Alone
  <2>2. RunsIn({})'
    BY <1>1 DEF RunsSound, RunsIn
  <2>3. \A c \in Caller : call'[c].pc = "saved" => \A a \in active' : a.body.running = {}
    BY <1>1 DEF RunsSound, RunsIn
  <2> QED
    BY <1>1, <2>1, <2>2, <2>3 DEF RunsSound
<1>2. CASE phase = "serving"
  <2>1. RunsIn(mine)'
    BY <1>2 DEF RunsSound, RunsIn
  <2>2. \A a \in active' : a.body.running \subseteq mine'
    BY <1>2 DEF RunsSound, RunsIn
  <2> QED
    BY <1>2, <2>1, <2>2 DEF RunsSound
<1> QED
  BY <1>1, <1>2

\* A request that a serving process makes sets running what is its own.
LEMMA AskRuns ==
  ASSUME IInv, RunsSound, NEW c \in Caller, NEW q, NEW pc, Ask(c, pc, q),
         phase = "serving", phase' = "serving", q.body.running \subseteq mine \cup {q.tag}
  PROVE  RunsSound'
<1>1. /\ call'[c].req = {q} /\ \A d \in Caller \ {c} : call'[d] = call[d]
      /\ mine' = mine \cup {q.tag} /\ active' = active /\ lock' = lock
  BY DEF Ask, IInv, RunStateTypeOK, disk
<1>2. RunsIn(mine)'
  BY <1>1 DEF RunsSound, RunsIn
<1> QED
  BY <1>1, <1>2 DEF RunsSound

LEMMA LifecycleRuns ==
  ASSUME IInv, RequestInv, RunsSound,
         NEW c \in Caller, NEW t \in Tag \ issued,
         \/ \E r \in Run : StartRun(c, r, t)
         \/ \E l \in 1 .. MaxLevel : ContextEvent(c, t, l)
         \/ Checkpoint(c, t)
         \/ Recover(c, t)
  PROVE  RunsSound'
<1>1. CASE \E r \in Run : StartRun(c, r, t)
  <2>1. PICK r \in Run : StartRun(c, r, t)
    BY <1>1
  <2> DEFINE q == [run |-> r, rev |-> 1, tag |-> t,
                   body |-> [level |-> 0, running |-> {t}]]
  <2>2. q.body.running = {t} /\ q.tag = t /\ Ask(c, "save", q) /\ phase = "serving" /\ phase' = phase
    BY <2>1 DEF StartRun
  <2> HIDE DEF q
  <2> QED
    BY <2>2, AskRuns
<1>2. CASE \E l \in 1 .. MaxLevel : ContextEvent(c, t, l)
  <2>1. PICK l \in 1 .. MaxLevel : ContextEvent(c, t, l)
    BY <1>2
  <2>2. PICK a \in active :
          Ask(c, "reload", Evolved(a, t, [a.body EXCEPT !.level = l]))
    BY <2>1 DEF ContextEvent
  <2> DEFINE b == [a.body EXCEPT !.level = l]
  <2>3. b.running = a.body.running
    BY BodyTyped DEF Body
  <2> HIDE DEF b
  <2>4. Evolved(a, t, b).body = b
    BY DEF Evolved
  <2>5. Evolved(a, t, b).body.running \subseteq mine /\ phase = "serving" /\ phase' = phase
    BY <2>1, <2>3, <2>4 DEF ContextEvent, RunsSound
  <2> QED
    BY <2>2, <2>5, AskRuns DEF b
<1>3. CASE Checkpoint(c, t)
  <2>1. PICK a \in active : Ask(c, "save", Evolved(a, t, a.body))
    BY <1>3 DEF Checkpoint
  <2>2. Evolved(a, t, a.body).body.running \subseteq mine /\ phase = "serving" /\ phase' = phase
    BY <1>3 DEF Checkpoint, RunsSound, Evolved
  <2> QED
    BY <2>1, <2>2, AskRuns
<1>4. CASE Recover(c, t)
  <2>1. PICK a \in active : Ask(c, "save", Recovered(a, t))
    BY <1>4 DEF Recover
  <2> DEFINE b == [a.body EXCEPT !.running = {}]
  <2>2. b.running = {} /\ Recovered(a, t).body = b
    BY BodyTyped DEF Body, Recovered, Evolved
  <2> HIDE DEF b
  <2>3. /\ call'[c].req = {Recovered(a, t)} /\ call'[c].pc = "save"
        /\ \A d \in Caller \ {c} : call'[d] = call[d]
        /\ lock' = {} /\ phase' = "recovering"
    BY <1>4, <2>1 DEF Recover, Ask, IInv, RunStateTypeOK
  <2>4. \A d \in Caller : call[d].pc = "idle" /\ call[d].req = {}
    BY <1>4 DEF Recover, RunsSound, RequestInv, RequestsDistinct
  <2> QED
    BY <2>2, <2>3, <2>4 DEF RunsSound, Alone, RunsIn
<1> QED
  BY <1>1, <1>2, <1>3, <1>4

LEMMA CallerRuns ==
  ASSUME IInv, RequestInv, RunsSound, NEW c \in Caller,
         \/ Reload(c) \/ StartupEnds(c) \/ Return(c) \/ Retry(c) \/ Archive(c)
         \/ (SaveBegins(c) \/ SaveRepeated(c) \/ SaveRefused(c)) /\ UNCHANGED <<phase, mine>>
  PROVE  RunsSound'
<1>1. call[c].pc # "idle" => phase \in {"recovering", "serving"}
  BY DEF IInv, RunStateTypeOK, RunsSound
<1>2. CASE Reload(c)
  <2>1. PICK q \in call[c].req :
          \E b \in {q, [q EXCEPT !.rev = q.rev + 1]} :
            call' = [call EXCEPT ![c] = [pc |-> "save", req |-> {b}]]
    BY <1>2 DEF Reload
  <2>2. PICK b \in {q, [q EXCEPT !.rev = q.rev + 1]} :
          call' = [call EXCEPT ![c] = [pc |-> "save", req |-> {b}]]
    BY <2>1
  <2>3. b.body = q.body
    BY <2>1 DEF IInv, RunStateTypeOK, Call, Request
  <2>4. /\ call'[c].req = {b} /\ call'[c].pc = "save"
        /\ \A d \in Caller \ {c} : call'[d] = call[d]
    BY <2>2 DEF IInv, RunStateTypeOK
  <2> QED
    BY <1>1, <1>2, <2>1, <2>3, <2>4, RunsGoOn DEF Reload, disk
<1>3. CASE Return(c) \/ Retry(c) \/ Archive(c)
  <2>1. /\ phase = "serving" /\ UNCHANGED <<phase, mine, active>>
        /\ \A o \in lock' : o \in lock \/ \E a \in active : o.snap = a
    BY <1>3 DEF Return, Retry, Archive, ArchiveBegins, Enter, disk
  <2>2. \A d \in Caller : call'[d].req \subseteq call[d].req
    BY <1>3 DEF Return, Retry, Archive, ArchiveBegins, Enter, IInv, RunStateTypeOK, Call, Idle
  <2> QED
    BY <2>1, <2>2, RunsGoOn
<1>4. CASE SaveBegins(c) \/ SaveRepeated(c) \/ SaveRefused(c)
  <2>1. /\ call[c].pc = "save" /\ UNCHANGED <<phase, mine, active>>
        /\ \A d \in Caller : call'[d].req = call[d].req
        /\ \A d \in Caller \ {c} : call'[d].pc = call[d].pc
        /\ call'[c].pc \in {"busy", "refused"}
    BY <1>4 DEF SaveBegins, SaveRepeated, SaveRefused, Enter, disk, IInv, RunStateTypeOK, Call,
       Reload, StartupEnds, Return, Retry, Archive, ArchiveBegins
  <2>2. \A o \in lock' : o \in lock \/ \E r \in call[c].req : o.snap.body = r.body
    <3>1. CASE SaveBegins(c)
      BY <3>1 DEF SaveBegins, Enter, SnapshotOf
    <3>2. CASE SaveRepeated(c)
      BY <3>2 DEF SaveRepeated, Enter, Repeated, RequestInv, PendingSound, Pending,
         IInv, RunStateTypeOK, AtMostOne
    <3>3. CASE SaveRefused(c)
      BY <3>3 DEF SaveRefused
    <3> QED
      BY <1>4, <3>1, <3>2, <3>3
  <2> QED
    BY <1>1, <2>1, <2>2, RunsGoOn
<1>5. CASE StartupEnds(c)
  <2>1. \A d \in Caller \ {c} : call[d].pc = "idle" /\ call[d].req = {}
    BY <1>5 DEF StartupEnds, RunsSound, Alone, RequestInv, RequestsDistinct
  <2>2. lock = {}
    <3>1. \A o \in lock : call[o.by].pc = "busy" /\ o.by \in Caller
      BY OnlyOperation DEF RequestInv, LockServes, Serves
    <3> QED
      BY <1>5, <2>1, <3>1 DEF StartupEnds
  <2>3. /\ \A d \in Caller : call'[d].pc = "idle" /\ call'[d].req = {}
        /\ lock' = {} /\ active' = active
    BY <1>5, <2>1, <2>2 DEF StartupEnds, IInv, RunStateTypeOK, Idle, disk
  <2>4. CASE call[c].pc = "saved"
    <3>1. phase' = "serving" /\ \A a \in active : a.body.running = {}
      BY <1>5, <2>4 DEF StartupEnds, RunsSound
    <3> QED
      BY <2>3, <3>1 DEF RunsSound, RunsIn
  <2>5. CASE call[c].pc # "saved"
    BY <1>5, <2>3, <2>5 DEF StartupEnds, RunsSound
  <2> QED
    BY <2>4, <2>5
<1> QED
  BY <1>2, <1>3, <1>4, <1>5

LEMMA OperationRuns ==
  ASSUME IInv, RequestInv, RunsSound, NEW o \in lock, UNCHANGED <<phase, mine>>,
         \/ PublishFinds(o) \/ PublishConflicts(o) \/ PublishStages(o)
         \/ Written(o) \/ WriteRaises(o) \/ StagingStays(o) \/ Prune(o)
  PROVE  RunsSound'
<1>1. /\ o \in Operation /\ lock = {o} /\ OperationSound(o) /\ o.by \in Caller
      /\ call[o.by].pc = "busy" /\ phase \in {"recovering", "serving"}
  BY OnlyOperation DEF RequestInv, LockServes, Serves, RunsSound, IInv, RunStateTypeOK
<1>2. \A a \in active' : a \in active \/ a = o.snap
  BY DEF PublishFinds, PublishConflicts, PublishStages, Written, WriteRaises, StagingStays,
     Prune, Rename, WriteManifest, WriteArchive, Unlink, disk
<1>3. \/ call' = call /\ \E pc \in {"rename", "manifest", "prune", "archive", "unlink"} :
                          lock' = {[o EXCEPT !.pc = pc]}
      \/ lock' = {} /\ \E pc \in {"saved", "archived", "conflict", "failed"} :
                         /\ call' = [call EXCEPT ![o.by].pc = pc]
                         /\ pc = "saved" => o.pc = "prune" /\ active' = active
  BY DEF PublishFinds, PublishConflicts, PublishStages, Written, WriteRaises, StagingStays,
     Prune, Proceed, Leave
<1>4. \A p \in lock' : p.snap = o.snap
  BY <1>1, <1>3 DEF Operation
<1>5. /\ \A c \in Caller : call'[c].req = call[c].req
      /\ \A c \in Caller \ {o.by} : call'[c].pc = call[c].pc
  BY <1>1, <1>3 DEF IInv, RunStateTypeOK, Call
<1>6. call'[o.by].pc = "saved" => active' = {o.snap}
  BY <1>1, <1>3 DEF IInv, RunStateTypeOK, Call, OperationSound
<1> QED
  BY <1>1, <1>2, <1>4, <1>5, <1>6, RunsGoOn

LEMMA RestRuns ==
  ASSUME IInv, RequestInv, RunsSound, Stop \/ NothingToRecover \/ Boot \/ UNCHANGED vars
  PROVE  RunsSound'
<1>1. CASE Stop
  BY <1>1 DEF Stop, Interrupted, Idle, RunsSound
<1>2. CASE Boot
  BY <1>2 DEF Boot, RunsSound
<1>3. CASE NothingToRecover
  BY <1>3 DEF NothingToRecover, RunsSound, RunsIn, RequestInv, RequestsDistinct, disk
<1>4. CASE UNCHANGED vars
  BY <1>4 DEF vars, disk, RunsSound, RunsIn, Alone
<1> QED
  BY <1>1, <1>2, <1>3, <1>4

LEMMA StepRuns ==
  ASSUME IInv, RequestInv, RunsSound, [Next]_vars
  PROVE  RunsSound'
<1>1. CASE Work
  BY <1>1, CallerRuns, OperationRuns DEF Work, RepositoryStep
<1> QED
  BY <1>1, LifecycleRuns, CallerRuns, RestRuns DEF Next

LEMMA InitRequests == LifecycleInit => RequestInv /\ RunsSound
  BY DEF LifecycleInit, RepositoryInit, Idle, RequestInv, LogsSound, Kept, RequestsDistinct,
     PendingSound, LockServes, SavedKept, RunsSound

\* The inductive invariant of the requests: each is the work of one caller, no
\* log has it twice, one that was applied can only be repeated, and until the
\* service serves nobody but the recovery asks (_save_locked, recover_active).
THEOREM RequestsSound == Spec => [](RequestInv /\ RunsSound)
<1>1. LifecycleInit => IInv /\ RequestInv /\ RunsSound
  BY InitSound, InitRequests
<1>2. IInv /\ RequestInv /\ RunsSound /\ [Next]_vars => (IInv /\ RequestInv /\ RunsSound)'
  BY StepSound, StepRequests, StepRuns
<1> QED
  BY <1>1, <1>2, PTL DEF Spec

\* A save that was answered is in the log of its run, and no request is in a log
\* twice, however often it failed half-way and was repeated (_save_locked).
THEOREM SavesAppliedOnce == Spec => []AppliedOnce
<1>1. RequestInv => AppliedOnce
  BY DEF RequestInv, LogsSound, SnapSound, SavedKept, AppliedOnce, Kept, Logged
<1> QED
  BY <1>1, RequestsSound, PTL

\* While the service serves, a run marked as running was set running by this
\* process (recover_active marks what an earlier one left).
THEOREM RunningWasSet == Spec => []RunningIsMine
<1>1. RunsSound => RunningIsMine
  BY DEF RunsSound, RunningIsMine
<1> QED
  BY <1>1, RequestsSound, PTL

=============================================================================
