------------------------ MODULE CapabilityStoreProofs ------------------------
(***************************************************************************)
(* The index of the capability store is always one that loads, and what it *)
(* lists is on disk; it implements the abstract history, for any number of *)
(* capabilities and revisions, whatever drifts and wherever it crashes.    *)
(***************************************************************************)
EXTENDS CapabilityStore, TLAPS

Of(o) == CapabilityOf[o.rev]

\* What the operation in the lock has decided on, from the index it has read.
PlansNew(o) ==
  /\ o.kind \in {"install", "upgrade"}
  /\ o.rev \notin Listed(Of(o))
  /\ Len(index[Of(o)].revisions) < MaxRevisions
  /\ o.entry = History!Added(index[Of(o)], o.rev)

PlansMove(o) ==
  /\ o.kind = "rollback"
  /\ o.rev \in Listed(Of(o))
  /\ o.entry = Reselected(Of(o), o.rev)
  /\ Verified(o.rev)

PlansRemoval(o) ==
  /\ o.kind = "remove"
  /\ o.was.files # "none"
  /\ \E i \in DOMAIN index[Of(o)].revisions :
       /\ index[Of(o)].revisions[i] = o.rev
       /\ o.entry = History!Dropped(index[Of(o)], i)
  /\ FallbackSound(Of(o), o.entry)

OperationSound(o) ==
  /\ o.pc = "rename" => PlansNew(o)
  /\ o.pc = "hide" => PlansRemoval(o)
  /\ o.pc = "index" =>
       \/ PlansNew(o) /\ files[o.rev] # "none"
       \/ PlansMove(o)
       \/ PlansRemoval(o) /\ o.rev \in tombs
  /\ o.pc = "restore" => o.was.files # "none"
  /\ o.pc = "rmtree" => o.rev \notin Listed(Of(o))

IInv ==
  /\ CapabilityTypeOK
  /\ IndexBacked
  /\ \A o \in op : OperationSound(o)

-----------------------------------------------------------------------------
(* Entries.                                                                *)

LEMMA EmptyOK ==
  ASSUME NEW c \in Capability
  PROVE  EntryOK(c, History!Empty)
  BY MaxRevisionsAssumption DEF EntryOK, Entry, History!Empty

LEMMA AddedOK ==
  ASSUME NEW c \in Capability, NEW e, EntryOK(c, e),
         NEW r \in Revision, CapabilityOf[r] = c,
         r \notin History!Listed(e), Len(e.revisions) < MaxRevisions
  PROVE  /\ EntryOK(c, History!Added(e, r))
         /\ History!Listed(History!Added(e, r)) = History!Listed(e) \cup {r}
<1> DEFINE s == e.revisions
           t == Append(s, r)
<1>1. s \in Seq(Revision) /\ e.selected \in SUBSET Revision
  BY DEF EntryOK, Entry
<1>2. /\ t \in Seq(Revision)
      /\ Len(t) = Len(s) + 1
      /\ DOMAIN t = 1 .. Len(s) + 1
      /\ \A i \in 1 .. Len(s) : t[i] = s[i]
      /\ t[Len(s) + 1] = r
  BY <1>1
<1>3. DOMAIN s = 1 .. Len(s) /\ Len(s) \in Nat
  BY <1>1
<1>4. \A i \in DOMAIN s : s[i] # r
  BY DEF History!Listed
<1>5. \A i, j \in DOMAIN t : t[i] = t[j] => i = j
  BY <1>2, <1>3, <1>4 DEF EntryOK
<1>6. \A i \in DOMAIN t : CapabilityOf[t[i]] = c
  BY <1>2, <1>3 DEF EntryOK
<1>7. t # <<>> /\ Len(s) + 1 \in DOMAIN t
  BY <1>2, <1>3
<1>8. Len(t) <= MaxRevisions
  BY <1>2, <1>3, MaxRevisionsAssumption
<1>9. EntryOK(c, History!Added(e, r))
  BY <1>2, <1>5, <1>6, <1>7, <1>8 DEF EntryOK, Entry, History!Added
<1>10. {t[i] : i \in DOMAIN t} = {s[i] : i \in DOMAIN s} \cup {r}
  BY <1>2, <1>3
<1> QED
  BY <1>9, <1>10 DEF History!Listed, History!Added

Distinct(s) == \A j, k \in DOMAIN s : s[j] = s[k] => j = k

\* t lists what s lists, but for its i-th element.
Lacks(t, s, i) ==
  /\ t \in Seq(Revision)
  /\ Len(t) = Len(s) - 1
  /\ Distinct(t)
  /\ \A j \in DOMAIN t : t[j] # s[i] /\ \E k \in DOMAIN s : s[k] = t[j]
  /\ \A k \in DOMAIN s : s[k] # s[i] => \E j \in DOMAIN t : t[j] = s[k]

LEMMA WithoutOK ==
  ASSUME NEW s \in Seq(Revision), NEW i \in DOMAIN s, Distinct(s)
  PROVE  Lacks(History!Without(s, i), s, i)
<1> DEFINE t == History!Without(s, i)
<1> DEFINE n == Len(s)
<1>0. t = [j \in 1 .. n - 1 |-> IF j < i THEN s[j] ELSE s[j + 1]]
  BY DEF History!Without
<1>1. n \in Nat /\ DOMAIN s = 1 .. n /\ i \in 1 .. n
  OBVIOUS
<1>2. \A j \in 1 .. n : s[j] \in Revision
  OBVIOUS
<1>3. t \in [1 .. n - 1 -> Revision] /\ n - 1 \in Nat
  BY <1>0, <1>1, <1>2
<1>4. t \in Seq(Revision) /\ Len(t) = n - 1 /\ DOMAIN t = 1 .. n - 1
  BY <1>3
<1>5. \A j \in 1 .. n - 1 : t[j] = s[IF j < i THEN j ELSE j + 1]
  BY <1>0, <1>1
<1> HIDE DEF t
<1>6. Distinct(t)
  <2> SUFFICES ASSUME NEW j \in 1 .. n - 1, NEW k \in 1 .. n - 1, t[j] = t[k]
               PROVE  j = k
    BY <1>4 DEF Distinct
  <2>1. (IF j < i THEN j ELSE j + 1) = (IF k < i THEN k ELSE k + 1)
    BY <1>1, <1>5 DEF Distinct
  <2> QED
    BY <2>1, <1>1
<1>7. \A j \in DOMAIN t : t[j] # s[i] /\ \E k \in DOMAIN s : s[k] = t[j]
  <2> SUFFICES ASSUME NEW j \in 1 .. n - 1
               PROVE  t[j] # s[i] /\ \E k \in DOMAIN s : s[k] = t[j]
    BY <1>4
  <2>1. (IF j < i THEN j ELSE j + 1) \in DOMAIN s \ {i}
    BY <1>1
  <2> QED
    BY <2>1, <1>1, <1>5 DEF Distinct
<1>8. \A k \in DOMAIN s : s[k] # s[i] => \E j \in DOMAIN t : t[j] = s[k]
  <2> SUFFICES ASSUME NEW k \in DOMAIN s, s[k] # s[i]
               PROVE  \E j \in DOMAIN t : t[j] = s[k]
    OBVIOUS
  <2>1. CASE k < i
    <3>1. k \in DOMAIN t /\ t[k] = s[k]
      BY <2>1, <1>1, <1>4, <1>5
    <3> QED
      BY <3>1
  <2>2. CASE k > i
    <3>1. k - 1 \in DOMAIN t /\ t[k - 1] = s[k]
      BY <2>2, <1>1, <1>4, <1>5
    <3> QED
      BY <3>1
  <2> QED
    BY <2>1, <2>2, <1>1
<1> QED
  BY <1>4, <1>6, <1>7, <1>8 DEF Lacks, t

LEMMA DroppedOK ==
  ASSUME NEW c \in Capability, NEW e, EntryOK(c, e), NEW i \in DOMAIN e.revisions
  PROVE  /\ EntryOK(c, History!Dropped(e, i))
         /\ History!Listed(History!Dropped(e, i)) =
              History!Listed(e) \ {e.revisions[i]}
<1> DEFINE d == History!Dropped(e, i)
<1>s. PICK s : s = e.revisions
  OBVIOUS
<1>t. PICK t : t = History!Without(s, i)
  OBVIOUS
<1>1. /\ s \in Seq(Revision) /\ e.selected \in SUBSET Revision
      /\ Len(s) <= MaxRevisions /\ i \in DOMAIN s
      /\ Distinct(s)
  BY <1>s DEF EntryOK, Entry, Distinct
<1>2. Lacks(t, s, i)
  BY <1>1, <1>t, WithoutOK
<1>3. d.revisions = t
  BY <1>s, <1>t DEF History!Dropped
<1>4. \A j \in DOMAIN t : CapabilityOf[t[j]] = c
  <2>1. \A j \in DOMAIN t : \E k \in DOMAIN s : s[k] = t[j]
    BY <1>2 DEF Lacks
  <2> QED
    BY <1>s, <2>1 DEF EntryOK
<1>5. \E k \in DOMAIN s : e.selected = {s[k]}
  BY <1>s, <1>1 DEF EntryOK
<1>6. Len(t) <= MaxRevisions
  BY <1>1, <1>2, MaxRevisionsAssumption DEF Lacks
<1>7. IF t = <<>> THEN d.selected = {} ELSE \E j \in DOMAIN t : d.selected = {t[j]}
  <2>1. PICK k \in DOMAIN s : e.selected = {s[k]}
    BY <1>5
  <2>2. CASE s[k] # s[i]
    <3>1. \E j \in DOMAIN t : t[j] = s[k]
      BY <1>2, <2>2 DEF Lacks
    <3>2. d.selected = {s[k]}
      BY <1>s, <1>t, <2>1, <2>2 DEF History!Dropped
    <3>3. t # <<>>
      BY <3>1
    <3> QED
      BY <3>1, <3>2, <3>3
  <2>3. CASE s[k] = s[i]
    <3>1. CASE t = <<>>
      BY <1>s, <1>t, <2>1, <2>3, <3>1 DEF History!Dropped
    <3>2. CASE t # <<>> /\ i > 1
      <4>1. d.selected = {s[i - 1]}
        BY <1>s, <1>t, <2>1, <2>3, <3>2 DEF History!Dropped
      <4>2. i - 1 \in DOMAIN s /\ s[i - 1] # s[i]
        BY <1>1, <3>2 DEF Distinct
      <4>3. \E j \in DOMAIN t : t[j] = s[i - 1]
        BY <1>2, <4>2 DEF Lacks
      <4> QED
        BY <4>1, <4>3, <3>2
    <3>3. CASE t # <<>> /\ ~(i > 1)
      <4>1. d.selected = {t[1]}
        BY <1>s, <1>t, <2>1, <2>3, <3>3 DEF History!Dropped
      <4>2. 1 \in DOMAIN t
        BY <1>2, <3>3 DEF Lacks
      <4> QED
        BY <4>1, <4>2, <3>3
    <3> QED
      BY <3>1, <3>2, <3>3
  <2> QED
    BY <2>2, <2>3
<1>8. d \in Entry
  <2>1. d.selected \in SUBSET Revision
    BY <1>2, <1>7 DEF Lacks
  <2>2. d = [revisions |-> d.revisions, selected |-> d.selected]
    BY <1>s, <1>t DEF History!Dropped
  <2> QED
    BY <1>2, <1>3, <2>1, <2>2 DEF Entry, Lacks
<1>9. EntryOK(c, d)
  BY <1>2, <1>3, <1>4, <1>6, <1>7, <1>8 DEF EntryOK, Lacks, Distinct
<1>10. {t[j] : j \in DOMAIN t} = {s[j] : j \in DOMAIN s} \ {s[i]}
  <2>1. \A r : r \in {t[j] : j \in DOMAIN t}
             <=> r \in {s[j] : j \in DOMAIN s} \ {s[i]}
    BY <1>2 DEF Lacks
  <2> QED
    BY <2>1
<1> QED
  BY <1>s, <1>3, <1>9, <1>10 DEF History!Listed

LEMMA MovedOK ==
  ASSUME NEW c \in Capability, EntryOK(c, index[c]), NEW r \in Listed(c)
  PROVE  /\ EntryOK(c, Reselected(c, r))
         /\ History!Listed(Reselected(c, r)) = Listed(c)
<1> DEFINE e == index[c]
<1>1. e \in Entry /\ \E i \in DOMAIN e.revisions : r = e.revisions[i]
  BY DEF EntryOK, Listed, History!Listed
<1>2. r \in Revision /\ e.revisions # <<>>
  BY <1>1 DEF Entry
<1>3. /\ Reselected(c, r).revisions = e.revisions
      /\ Reselected(c, r).selected = {r}
      /\ Reselected(c, r) \in Entry
  BY <1>1, <1>2 DEF Reselected, Entry
<1> QED
  BY <1>1, <1>2, <1>3 DEF EntryOK, Listed, History!Listed

LEMMA PositionOK ==
  ASSUME NEW c \in Capability, NEW r \in Listed(c)
  PROVE  /\ Position(c, r) \in DOMAIN index[c].revisions
         /\ index[c].revisions[Position(c, r)] = r
<1>1. \E i \in DOMAIN index[c].revisions : index[c].revisions[i] = r
  BY DEF Listed, History!Listed
<1> QED
  BY <1>1 DEF Position

\* What is listed belongs to the capability that lists it.
LEMMA ListedOK ==
  ASSUME CapabilityTypeOK, NEW c \in Capability, NEW r \in Listed(c)
  PROVE  r \in Revision /\ CapabilityOf[r] = c
<1>1. PICK i \in DOMAIN index[c].revisions : r = index[c].revisions[i]
  BY DEF Listed, History!Listed
<1> QED
  BY <1>1 DEF CapabilityTypeOK, EntryOK, Entry

-----------------------------------------------------------------------------
(* The initial states and the steps that change nothing the index is about. *)

LEMMA InitSound == StoreInit => IInv
<1> SUFFICES ASSUME StoreInit
             PROVE  IInv
  OBVIOUS
<1>1. \A c \in Capability : EntryOK(c, index[c])
  BY EmptyOK DEF StoreInit
<1>2. index \in [Capability -> Entry]
  BY <1>1 DEF StoreInit, EntryOK
<1>3. \A c \in Capability : Listed(c) = {}
  <2>1. DOMAIN <<>> = {}
    OBVIOUS
  <2>2. \A c \in Capability : index[c].revisions = <<>>
    BY DEF StoreInit, History!Empty
  <2> QED
    BY <2>1, <2>2 DEF Listed, History!Listed
<1> QED
  BY <1>1, <1>2, <1>3
  DEF IInv, StoreInit, CapabilityTypeOK, IndexBacked, Content, Metadata, Answer

LEMMA AnswerSound ==
  ASSUME IInv, NEW c \in Capability,
         NEW code \in {"none", "ok", "absent", "refused", "rejected", "damaged", "failed"},
         Answers(c, code)
  PROVE  IInv'
<1> USE DEF Answers, Say
<1>1. CapabilityTypeOK'
  BY DEF IInv, CapabilityTypeOK, Answer
<1>2. IndexBacked'
  BY DEF IInv, IndexBacked, Listed
<1> QED
  BY <1>1, <1>2 DEF IInv

LEMMA BeginSound ==
  ASSUME IInv, op = {}, NEW kind \in Kind, NEW r \in Revision,
         NEW e \in Entry, NEW pc \in {"rename", "hide", "index", "state"},
         Begin(kind, r, e, pc),
         \A o : /\ o.kind = kind /\ o.rev = r /\ o.entry = e /\ o.pc = pc
               /\ o.was = [files |-> files[r], state |-> state[r]]
               => OperationSound(o)
  PROVE  IInv'
<1> USE DEF Begin
<1>1. CapabilityTypeOK'
  BY DEF IInv, CapabilityTypeOK, Operation
<1>2. IndexBacked'
  BY DEF IInv, IndexBacked, Listed
<1>3. \A o : OperationSound(o)' <=> OperationSound(o)
  BY DEF OperationSound, PlansNew, PlansMove, PlansRemoval, Listed, FallbackSound,
         Reselected, Verified, Agrees, Loads, Of
<1> QED
  BY <1>1, <1>2, <1>3 DEF IInv

LEMMA DriftSound ==
  ASSUME IInv, NEW r \in Revision, Drift(r)
  PROVE  IInv'
<1> USE DEF Drift
<1>1. CapabilityTypeOK'
  BY DEF IInv, CapabilityTypeOK, Content, Metadata
<1>2. IndexBacked'
  <2>1. \A q \in Revision : files'[q] = "none" => files[q] = "none"
    BY DEF IInv, CapabilityTypeOK
  <2>2. \A c \in Capability : \A q \in Listed(c) : q \in Revision
    BY ListedOK DEF IInv
  <2> QED
    BY <2>1, <2>2 DEF IInv, IndexBacked, Listed
<1>3. op' = {}
  OBVIOUS
<1> QED
  BY <1>1, <1>2, <1>3 DEF IInv

LEMMA CrashSound ==
  ASSUME IInv, Crash
  PROVE  IInv'
<1>1. CapabilityTypeOK'
  BY DEF IInv, CapabilityTypeOK, Crash
<1>2. IndexBacked'
  BY DEF IInv, IndexBacked, Listed, Crash
<1> QED
  BY <1>1, <1>2 DEF IInv, Crash

-----------------------------------------------------------------------------
(* What an operation decides on.                                           *)

LEMMA PublishSound ==
  ASSUME IInv, NEW kind \in {"install", "upgrade"}, NEW r \in Revision,
         Publish(kind, r)
  PROVE  IInv'
<1> DEFINE c == CapabilityOf[r]
           new == History!Added(index[c], r)
<1>1. c \in Capability /\ EntryOK(c, index[c])
  BY CapabilityAssumption DEF IInv, CapabilityTypeOK
<1>2. Len(index[c].revisions) < MaxRevisions
  <2>1. CASE ~Installed(c)
    <3>1. \A i \in DOMAIN index[c].revisions : index[c].revisions[i] \in Listed(c)
      BY DEF Listed, History!Listed
    <3>2. index[c].revisions = <<>>
      BY <1>1, <2>1, <3>1 DEF Installed, EntryOK
    <3> QED
      BY <3>2, MaxRevisionsAssumption
  <2> QED
    BY <2>1 DEF Publish, Accepts
<1>3. r \notin Listed(c)
  BY DEF Publish
<1>4. EntryOK(c, new)
  BY <1>1, <1>2, <1>3, AddedOK DEF Listed
<1>5. new \in Entry
  BY <1>4 DEF EntryOK
<1>6. ASSUME NEW o, o.kind = kind, o.rev = r, o.entry = new
      PROVE  PlansNew(o)
  BY <1>2, <1>3, <1>6 DEF PlansNew, Of
<1>7. CASE files[r] = "none"
  <2>1. Begin(kind, r, new, "rename")
    BY <1>7 DEF Publish
  <2>2. \A o : o.kind = kind /\ o.rev = r /\ o.entry = new /\ o.pc = "rename"
                => OperationSound(o)
    BY <1>6 DEF OperationSound
  <2> QED
    BY <1>5, <2>1, <2>2, BeginSound DEF Publish, Kind
<1>8. CASE files[r] # "none" /\ FoundUsable(r)
  <2>1. Begin(kind, r, new, "index")
    BY <1>8 DEF Publish
  <2>2. \A o : o.kind = kind /\ o.rev = r /\ o.entry = new /\ o.pc = "index"
                => OperationSound(o)
    BY <1>6, <1>8 DEF OperationSound
  <2> QED
    BY <1>5, <2>1, <2>2, BeginSound DEF Publish, Kind
<1>9. CASE files[r] # "none" /\ ~FoundUsable(r)
  <2>1. Answers(c, "damaged")
    BY <1>9 DEF Publish
  <2> QED
    BY <1>1, <2>1, AnswerSound
<1> QED
  BY <1>7, <1>8, <1>9

LEMMA RollbackSound ==
  ASSUME IInv, NEW c \in Capability, NEW r \in Revision, Rollback(c, r)
  PROVE  IInv'
<1>1. r \in Listed(c) /\ CapabilityOf[r] = c /\ EntryOK(c, index[c])
  BY ListedOK DEF Rollback, IInv, CapabilityTypeOK
<1>2. EntryOK(c, Reselected(c, r))
  BY <1>1, MovedOK
<1>3. CASE Begin("rollback", r, Reselected(c, r), "index") /\ Verified(r)
  <2>1. Reselected(c, r) \in Entry
    BY <1>2 DEF EntryOK
  <2>2. \A o : /\ o.kind = "rollback" /\ o.rev = r
               /\ o.entry = Reselected(c, r) /\ o.pc = "index"
               => OperationSound(o)
    BY <1>1, <1>3 DEF OperationSound, PlansMove, Of
  <2> QED
    BY <1>3, <2>1, <2>2, BeginSound DEF Rollback, Kind
<1>4. CASE Answers(c, "ok") \/ Answers(c, "damaged")
  BY <1>4, AnswerSound
<1> QED
  BY <1>3, <1>4 DEF Rollback

LEMMA RemoveSound ==
  ASSUME IInv, NEW c \in Capability, NEW r \in Revision, RemoveRevision(c, r)
  PROVE  IInv'
<1> DEFINE i == Position(c, r)
           new == History!Dropped(index[c], i)
<1>1. r \in Listed(c) /\ CapabilityOf[r] = c /\ EntryOK(c, index[c])
  BY ListedOK DEF RemoveRevision, IInv, CapabilityTypeOK
<1>2. i \in DOMAIN index[c].revisions /\ index[c].revisions[i] = r
  BY <1>1, PositionOK
<1>3. new \in Entry
  BY <1>1, <1>2, DroppedOK DEF EntryOK
<1>4. CASE Begin("remove", r, new, "hide") /\ Loads(r) /\ FallbackSound(c, new)
  <2>1. ASSUME NEW o, o.kind = "remove", o.rev = r, o.entry = new, o.pc = "hide",
               o.was = [files |-> files[r], state |-> state[r]]
        PROVE  OperationSound(o)
    BY <1>1, <1>2, <1>4, <2>1 DEF OperationSound, PlansRemoval, Of, Loads
  <2> HIDE DEF new
  <2> QED
    BY <1>3, <1>4, <2>1, BeginSound DEF RemoveRevision, Kind
<1>5. CASE Answers(c, "damaged")
  BY <1>5, AnswerSound
<1> QED
  BY <1>4, <1>5 DEF RemoveRevision

LEMMA RebuildSound ==
  ASSUME IInv, NEW c \in Capability, Rebuild(c)
  PROVE  IInv'
<1>1. EntryOK(c, index[c])
  BY DEF IInv, CapabilityTypeOK
<1>2. CASE Answers(c, "damaged")
  BY <1>2, AnswerSound
<1>3. ASSUME NEW r \in index[c].selected, Begin("rebuild", r, index[c], "state")
      PROVE  IInv'
  <2>1. index[c] \in Entry /\ r \in Revision
    BY <1>1 DEF EntryOK, Entry
  <2>2. \A o : o.pc = "state" => OperationSound(o)
    BY DEF OperationSound
  <2> QED
    BY <1>3, <2>1, <2>2, BeginSound DEF Rebuild, Kind
<1> QED
  BY <1>2, <1>3 DEF Rebuild

-----------------------------------------------------------------------------
(* The writes.                                                             *)

LEMMA AloneOK ==
  ASSUME CapabilityTypeOK, NEW o \in op
  PROVE  /\ op = {o}
         /\ o \in Operation
         /\ Of(o) \in Capability
         /\ EntryOK(Of(o), index[Of(o)])
<1>1. op = {o} /\ o \in Operation
  BY DEF CapabilityTypeOK
<1>2. Of(o) \in Capability
  BY <1>1, CapabilityAssumption DEF Of, Operation
<1> QED
  BY <1>1, <1>2 DEF CapabilityTypeOK

\* The entry that is written is one that loads.
LEMMA PlanOK ==
  ASSUME CapabilityTypeOK, NEW o \in op,
         PlansNew(o) \/ PlansMove(o) \/ PlansRemoval(o)
  PROVE  /\ EntryOK(Of(o), o.entry)
         /\ History!Listed(o.entry) \subseteq Listed(Of(o)) \cup {o.rev}
         /\ PlansRemoval(o) => o.rev \notin History!Listed(o.entry)
<1> DEFINE c == Of(o)
<1>1. o.rev \in Revision /\ c \in Capability /\ CapabilityOf[o.rev] = c
      /\ EntryOK(c, index[c])
  BY AloneOK DEF Of, Operation
<1>2. CASE PlansNew(o)
  BY <1>1, <1>2, AddedOK DEF PlansNew, PlansRemoval, Listed
<1>3. CASE PlansMove(o)
  BY <1>1, <1>3, MovedOK DEF PlansMove, PlansRemoval
<1>4. CASE PlansRemoval(o)
  <2>1. PICK i \in DOMAIN index[c].revisions :
          /\ index[c].revisions[i] = o.rev
          /\ o.entry = History!Dropped(index[c], i)
    BY <1>4 DEF PlansRemoval
  <2>2. /\ EntryOK(c, o.entry)
        /\ History!Listed(o.entry) = Listed(c) \ {o.rev}
    BY <1>1, <2>1, DroppedOK DEF Listed
  <2> QED
    BY <2>2
<1> QED
  BY <1>2, <1>3, <1>4

LEMMA SelectedListed ==
  ASSUME NEW c, NEW e, EntryOK(c, e)
  PROVE  e.selected \subseteq History!Listed(e)
<1>1. CASE e.revisions = <<>>
  BY <1>1 DEF EntryOK
<1>2. CASE e.revisions # <<>>
  <2>1. PICK i \in DOMAIN e.revisions : e.selected = {e.revisions[i]}
    BY <1>2 DEF EntryOK
  <2>2. e.revisions[i] \in History!Listed(e)
    BY DEF History!Listed
  <2> QED
    BY <2>1, <2>2
<1> QED
  BY <1>1, <1>2

LEMMA RenameSound ==
  ASSUME IInv, NEW o \in op, Rename(o)
  PROVE  IInv'
<1> DEFINE p == [o EXCEPT !.pc = "index"]
<1>1. op = {o} /\ o \in Operation /\ PlansNew(o)
  BY AloneOK DEF IInv, OperationSound, Rename
<1>2. /\ p \in Operation /\ p.pc = "index" /\ p.kind = o.kind
      /\ p.rev = o.rev /\ p.entry = o.entry
  BY <1>1 DEF Operation
<1>3. CapabilityTypeOK'
  BY <1>1, <1>2 DEF IInv, CapabilityTypeOK, Rename, Proceed, Content, Metadata
<1>4. IndexBacked'
  <2>1. \A q \in Revision : files'[q] = "none" => files[q] = "none"
    BY <1>1 DEF IInv, CapabilityTypeOK, Rename
  <2>2. \A c \in Capability : \A q \in Listed(c) : q \in Revision
    BY ListedOK DEF IInv
  <2> QED
    BY <2>1, <2>2 DEF IInv, IndexBacked, Listed, Rename
<1>5. OperationSound(p)'
  <2>1. PlansNew(p)'
    BY <1>1, <1>2 DEF PlansNew, Of, Listed, Rename
  <2>2. files'[o.rev] # "none"
    BY <1>1 DEF IInv, CapabilityTypeOK, Rename, Operation
  <2> QED
    BY <1>2, <2>1, <2>2 DEF OperationSound
<1> QED
  BY <1>3, <1>4, <1>5 DEF IInv, Rename, Proceed

LEMMA HideSound ==
  ASSUME IInv, NEW o \in op, Hide(o)
  PROVE  IInv'
<1> DEFINE p == [o EXCEPT !.pc = "index"]
<1>1. op = {o} /\ o \in Operation /\ PlansRemoval(o)
  BY AloneOK DEF IInv, OperationSound, Hide
<1>2. /\ p \in Operation /\ p.pc = "index" /\ p.kind = o.kind
      /\ p.rev = o.rev /\ p.entry = o.entry /\ p.was = o.was
  BY <1>1 DEF Operation
<1>3. CapabilityTypeOK'
  BY <1>1, <1>2
  DEF IInv, CapabilityTypeOK, Hide, Proceed, Content, Metadata, Operation
<1>4. IndexBacked'
  <2>1. \A q \in Revision : files'[q] = "none" => files[q] = "none" \/ q = o.rev
    BY <1>1 DEF IInv, CapabilityTypeOK, Hide
  <2>2. \A c \in Capability : \A q \in Listed(c) : q \in Revision
    BY ListedOK DEF IInv
  <2> QED
    BY <2>1, <2>2 DEF IInv, IndexBacked, Listed, Hide
<1>5. FallbackSound(Of(p), p.entry)'
  <2>1. \A s \in o.entry.selected : s # o.rev
    BY <1>1, PlanOK, SelectedListed DEF IInv
  <2>2. \A s : s # o.rev /\ Verified(s) => Verified(s)'
    BY DEF IInv, CapabilityTypeOK, Hide, Verified, Agrees, Loads
  <2> QED
    BY <1>1, <1>2, <2>1, <2>2 DEF PlansRemoval, FallbackSound, Of, Hide
<1>6. OperationSound(p)'
  <2>1. PlansRemoval(p)'
    BY <1>1, <1>2, <1>5 DEF PlansRemoval, Of, Hide
  <2>2. o.rev \in tombs'
    BY DEF Hide
  <2> QED
    BY <1>2, <2>1, <2>2 DEF OperationSound
<1> QED
  BY <1>3, <1>4, <1>6 DEF IInv, Hide, Proceed

\* What WriteIndex writes, of any of the three plans.
LEMMA PlannedAtIndex ==
  ASSUME IInv, NEW o \in op, o.pc = "index"
  PROVE  /\ PlansNew(o) \/ PlansMove(o) \/ PlansRemoval(o)
         /\ EntryOK(Of(o), o.entry)
         /\ \A q \in History!Listed(o.entry) :
              /\ q \in Revision
              /\ q \in Listed(Of(o)) \/ (PlansNew(o) /\ q = o.rev /\ files[q] # "none")
<1>1. \/ PlansNew(o) /\ files[o.rev] # "none"
      \/ PlansMove(o)
      \/ PlansRemoval(o) /\ o.rev \in tombs
  BY DEF IInv, OperationSound
<1>2. /\ EntryOK(Of(o), o.entry)
      /\ History!Listed(o.entry) \subseteq Listed(Of(o)) \cup {o.rev}
      /\ PlansRemoval(o) => o.rev \notin History!Listed(o.entry)
  BY <1>1, PlanOK DEF IInv
<1>3. Of(o) \in Capability /\ o.rev \in Revision
  BY AloneOK DEF IInv, Operation
<1>4. \A q \in Listed(Of(o)) : q \in Revision
  BY <1>3, ListedOK DEF IInv
<1>5. PlansMove(o) => o.rev \in Listed(Of(o))
  BY DEF PlansMove
<1> QED
  BY <1>1, <1>2, <1>3, <1>4, <1>5

LEMMA WriteIndexSound ==
  ASSUME IInv, NEW o \in op, WriteIndex(o)
  PROVE  IInv'
<1> DEFINE p == [o EXCEPT !.pc = "rmtree"]
<1>1. op = {o} /\ o \in Operation /\ Of(o) \in Capability
  BY AloneOK DEF IInv
<1>2. /\ PlansNew(o) \/ PlansMove(o) \/ PlansRemoval(o)
      /\ EntryOK(Of(o), o.entry)
      /\ \A q \in History!Listed(o.entry) :
           /\ q \in Revision
           /\ q \in Listed(Of(o)) \/ (PlansNew(o) /\ q = o.rev /\ files[q] # "none")
  BY PlannedAtIndex DEF WriteIndex
<1>3. index' = [index EXCEPT ![Of(o)] = o.entry]
  BY DEF WriteIndex, Of
<1>4. \/ o.kind = "remove" /\ op' = {p} /\ UNCHANGED answer
      \/ /\ o.kind # "remove" /\ op' = {}
         /\ answer' = [of |-> Of(o), code |-> "ok"]
  BY DEF WriteIndex, Proceed, Say, Of
<1>5. p \in Operation /\ p.pc = "rmtree" /\ p.rev = o.rev
  BY <1>1 DEF Operation
<1>6. \A c \in Capability : index'[c] = IF c = Of(o) THEN o.entry ELSE index[c]
  BY <1>3 DEF IInv, CapabilityTypeOK
<1>7. CapabilityTypeOK'
  <2>1. \A c \in Capability : EntryOK(c, index'[c])
    BY <1>2, <1>6 DEF IInv, CapabilityTypeOK
  <2>2. index' \in [Capability -> Entry]
    BY <1>2, <1>3 DEF IInv, CapabilityTypeOK, EntryOK
  <2>3. answer' \in Answer
    BY <1>1, <1>4 DEF IInv, CapabilityTypeOK, Answer
  <2>4. op' \subseteq Operation /\ \A a, b \in op' : a = b
    BY <1>4, <1>5
  <2> QED
    BY <2>1, <2>2, <2>3, <2>4 DEF IInv, CapabilityTypeOK, WriteIndex
<1>8. IndexBacked'
  <2> SUFFICES ASSUME NEW c \in Capability, NEW q \in Listed(c)', files[q] = "none"
               PROVE  q \in tombs
    BY DEF IndexBacked, WriteIndex
  <2>1. CASE c # Of(o)
    BY <1>6, <2>1 DEF IInv, IndexBacked, Listed
  <2>2. CASE c = Of(o)
    <3>1. q \in History!Listed(o.entry)
      BY <1>6, <2>2 DEF Listed
    <3> QED
      BY <1>2, <2>2, <3>1 DEF IInv, IndexBacked
  <2> QED
    BY <2>1, <2>2
<1>9. o.kind = "remove" => OperationSound(p)'
  <2> SUFFICES ASSUME o.kind = "remove"
               PROVE  o.rev \notin Listed(Of(o))'
    BY <1>5 DEF OperationSound, Of
  <2>1. PlansRemoval(o)
    BY <1>2 DEF PlansNew, PlansMove
  <2>2. o.rev \notin History!Listed(o.entry)
    BY <2>1, PlanOK DEF IInv
  <2> QED
    BY <1>1, <1>6, <2>2 DEF Listed
<1> QED
  BY <1>4, <1>7, <1>8, <1>9 DEF IInv

LEMMA WriteStateSound ==
  ASSUME IInv, NEW o \in op, WriteState(o)
  PROVE  IInv'
<1>1. op = {o} /\ o \in Operation /\ Of(o) \in Capability
  BY AloneOK DEF IInv
<1>2. CapabilityTypeOK'
  BY <1>1 DEF IInv, CapabilityTypeOK, WriteState, Say, Metadata, Answer, Of
<1>3. IndexBacked'
  BY DEF IInv, IndexBacked, Listed, WriteState
<1> QED
  BY <1>2, <1>3 DEF IInv, WriteState, Say

LEMMA RemoveTreeSound ==
  ASSUME IInv, NEW o \in op, RemoveTree(o)
  PROVE  IInv'
<1>1. op = {o} /\ o \in Operation /\ Of(o) \in Capability
  BY AloneOK DEF IInv
<1>2. CapabilityTypeOK'
  BY <1>1 DEF IInv, CapabilityTypeOK, RemoveTree, Say, Answer, Of
<1>3. o.rev \notin Listed(Of(o))
  BY DEF IInv, OperationSound, RemoveTree
<1>4. \A c \in Capability : o.rev \notin Listed(c)
  BY <1>3, ListedOK DEF IInv, Of
<1>5. IndexBacked'
  BY <1>4 DEF IInv, IndexBacked, Listed, RemoveTree
<1> QED
  BY <1>2, <1>5 DEF IInv, RemoveTree, Say

LEMMA WriteFailsSound ==
  ASSUME IInv, NEW o \in op, WriteFails(o)
  PROVE  IInv'
<1>1. Of(o) \in Capability
  BY AloneOK DEF IInv
<1> QED
  BY <1>1, AnswerSound DEF WriteFails, Of

LEMMA RemovalFailsSound ==
  ASSUME IInv, NEW o \in op, RemovalFails(o)
  PROVE  IInv'
<1> DEFINE p == [o EXCEPT !.pc = "restore"]
<1>1. op = {o} /\ o \in Operation
  BY AloneOK DEF IInv
<1>2. p \in Operation /\ p.pc = "restore" /\ p.was = o.was
  BY <1>1 DEF Operation
<1>3. CapabilityTypeOK'
  BY <1>1, <1>2 DEF IInv, CapabilityTypeOK, RemovalFails, Proceed
<1>4. IndexBacked'
  BY DEF IInv, IndexBacked, Listed, RemovalFails
<1>5. o.was.files # "none"
  BY DEF IInv, OperationSound, PlansNew, PlansMove, PlansRemoval, RemovalFails
<1> QED
  BY <1>2, <1>3, <1>4, <1>5 DEF IInv, OperationSound, RemovalFails, Proceed

LEMMA RestoreSound ==
  ASSUME IInv, NEW o \in op, Restore(o)
  PROVE  IInv'
<1>1. op = {o} /\ o \in Operation /\ Of(o) \in Capability
  BY AloneOK DEF IInv
<1>2. o.was.files \in Content \ {"none"} /\ o.was.state \in Metadata
  BY <1>1 DEF IInv, OperationSound, Restore, Operation
<1>3. CapabilityTypeOK'
  BY <1>1, <1>2 DEF IInv, CapabilityTypeOK, Restore, Say, Answer, Of
<1>4. IndexBacked'
  <2>1. \A c \in Capability : \A q \in Listed(c) : q \in Revision
    BY ListedOK DEF IInv
  <2>2. \A q \in Revision :
          (files[q] = "none" => q \in tombs) => (files'[q] = "none" => q \in tombs')
    BY <1>2 DEF IInv, CapabilityTypeOK, Restore
  <2> QED
    BY <2>1, <2>2 DEF IInv, IndexBacked, Listed, Restore
<1> QED
  BY <1>3, <1>4 DEF IInv, Restore, Say

-----------------------------------------------------------------------------
(* Every step.                                                             *)

LEMMA StepSound == IInv /\ [Next]_vars => IInv'
<1> SUFFICES ASSUME IInv, [Next]_vars
             PROVE  IInv'
  OBVIOUS
<1>1. CASE UNCHANGED vars
  BY <1>1 DEF vars, IInv, CapabilityTypeOK, IndexBacked, Listed, OperationSound,
     PlansNew, PlansMove, PlansRemoval, FallbackSound, Reselected, Verified,
     Agrees, Loads, Of
<1>2. ASSUME NEW r \in Revision, Reject(r) \/ Repeat(r) \/ Drift(r)
      PROVE  IInv'
  <2>1. CapabilityOf[r] \in Capability
    BY CapabilityAssumption
  <2> QED
    BY <1>2, <2>1, AnswerSound, DriftSound DEF Reject, Repeat
<1>3. ASSUME NEW r \in Revision, NEW kind \in {"install", "upgrade"},
             Refuse(kind, r) \/ Publish(kind, r)
      PROVE  IInv'
  <2>1. CapabilityOf[r] \in Capability
    BY CapabilityAssumption
  <2> QED
    BY <1>3, <2>1, AnswerSound, PublishSound DEF Refuse
<1>4. ASSUME NEW r \in Revision, NEW c \in Capability,
             Rollback(c, r) \/ RemoveRevision(c, r)
      PROVE  IInv'
  BY <1>4, RollbackSound, RemoveSound
<1>5. ASSUME NEW c \in Capability,
             \/ RollbackRefused(c) \/ RemoveAbsent(c)
             \/ Rebuild(c) \/ RebuildRefused(c) \/ ListRevisions(c)
      PROVE  IInv'
  BY <1>5, AnswerSound, RebuildSound
  DEF RollbackRefused, RemoveAbsent, RebuildRefused, ListRevisions
<1>6. CASE Write
  BY <1>6, RenameSound, HideSound, WriteIndexSound, WriteStateSound,
     RemoveTreeSound, WriteFailsSound, RemovalFailsSound, RestoreSound DEF Write
<1>7. CASE Crash
  BY <1>7, CrashSound
<1> QED
  BY <1>1, <1>2, <1>3, <1>4, <1>5, <1>6, <1>7 DEF Next

LEMMA Inductive == Spec => []IInv
<1> QED
  BY InitSound, StepSound, PTL DEF Spec

\* Only the write of the index changes it, and as one of three plans says.
LEMMA IndexStep ==
  ASSUME IInv, [Next]_vars
  PROVE  \/ UNCHANGED index
         \/ \E o \in op : WriteIndex(o)
<1>1. ASSUME NEW r \in Revision, NEW kind \in {"install", "upgrade"},
             Publish(kind, r)
      PROVE  UNCHANGED index
  BY <1>1 DEF Publish, Begin, Answers
<1>2. ASSUME NEW r \in Revision, NEW c \in Capability,
             Rollback(c, r) \/ RemoveRevision(c, r)
      PROVE  UNCHANGED index
  BY <1>2 DEF Rollback, RemoveRevision, Begin, Answers
<1>3. ASSUME NEW c \in Capability, Rebuild(c)
      PROVE  UNCHANGED index
  BY <1>3 DEF Rebuild, Begin, Answers
<1>4. ASSUME NEW o \in op,
             \/ Rename(o) \/ Hide(o) \/ WriteState(o) \/ RemoveTree(o)
             \/ WriteFails(o) \/ RemovalFails(o) \/ Restore(o)
      PROVE  UNCHANGED index
  BY <1>4 DEF Rename, Hide, WriteState, RemoveTree, WriteFails, RemovalFails,
     Restore, Answers
<1> QED
  BY <1>1, <1>2, <1>3, <1>4 DEF Next, Write, vars, Reject, Repeat, Drift, Refuse,
     RollbackRefused, RemoveAbsent, RebuildRefused, ListRevisions, Crash, Answers

\* The index is always one that loads: within the bound, without a revision
\* twice, and with one of the revisions selected (_load_index, _write_index).
THEOREM IndexLoads == Spec => []CapabilityTypeOK
<1>1. IInv => CapabilityTypeOK
  BY DEF IInv
<1> QED
  BY <1>1, Inductive, PTL

\* No crash, failed write or cut-off removal destroys what the index lists
\* (remove, _publish_revision, _write_index).
THEOREM NothingLost == Spec => []IndexBacked
<1>1. IInv => IndexBacked
  BY DEF IInv
<1> QED
  BY <1>1, Inductive, PTL

\* The selection moves within the history only to what was verified, also
\* when the fallback of a removal was looked at before the directory of the
\* removed revision was renamed (rollback, remove).
THEOREM MovesVerified == Spec => SelectionVerified
<1> DEFINE A == \A c \in Capability : \A r \in index[c].selected' :
                  r \in Listed(c) \ index[c].selected => Verified(r)
<1>1. IInv /\ [Next]_vars => [A]_vars
  <2> SUFFICES ASSUME IInv, [Next]_vars, NEW c \in Capability,
                      NEW r \in index[c].selected', r \in Listed(c),
                      r \notin index[c].selected
               PROVE  Verified(r)
    OBVIOUS
  <2>1. PICK o \in op : WriteIndex(o)
    BY IndexStep
  <2>2. Of(o) \in Capability
    BY AloneOK DEF IInv
  <2>3. c = Of(o) /\ r \in o.entry.selected
    BY <2>1, <2>2 DEF WriteIndex, Of, IInv, CapabilityTypeOK
  <2>4. PlansNew(o) \/ PlansMove(o) \/ PlansRemoval(o)
    BY <2>1, PlannedAtIndex DEF WriteIndex
  <2>5. ~PlansNew(o)
    BY <2>3 DEF PlansNew, History!Added
  <2>6. CASE PlansMove(o)
    <3>1. o.entry.selected = {o.rev}
      BY <2>2, <2>6, AloneOK DEF PlansMove, Reselected, IInv, EntryOK, Entry
    <3> QED
      BY <2>3, <2>6, <3>1 DEF PlansMove
  <2>7. CASE PlansRemoval(o)
    BY <2>3, <2>7 DEF PlansRemoval, FallbackSound
  <2> QED
    BY <2>4, <2>5, <2>6, <2>7
<1> QED
  BY <1>1, Inductive, PTL DEF Spec, SelectionVerified

\* The index is the history of every capability: what a caller sees changes
\* in one step, one capability at a time, wherever an operation is cut off.
THEOREM IndexIsHistory == Spec => ImplementsHistory
<1>1. StoreInit => History!HistoryInit
  BY DEF StoreInit, History!HistoryInit
<1>2. IInv /\ [Next]_vars => [History!HistoryNext]_index
  <2> SUFFICES ASSUME IInv, [Next]_vars, index' # index
               PROVE  History!HistoryNext
    OBVIOUS
  <2>1. PICK o \in op : WriteIndex(o)
    BY IndexStep
  <2> DEFINE c == Of(o)
  <2>2. o.rev \in Revision /\ c \in Capability /\ EntryOK(c, index[c])
    BY AloneOK DEF IInv, Operation
  <2>3. index' = [index EXCEPT ![c] = o.entry]
    BY <2>1 DEF WriteIndex, Of
  <2>4. PlansNew(o) \/ PlansMove(o) \/ PlansRemoval(o)
    BY <2>1, PlannedAtIndex DEF WriteIndex
  <2>5. CASE PlansNew(o)
    <3>1. History!Add(c, o.rev)
      BY <2>3, <2>5 DEF PlansNew, History!Add, Listed
    <3> QED
      BY <2>2, <3>1 DEF History!HistoryNext
  <2>6. CASE PlansMove(o)
    <3>1. History!Select(c, o.rev)
      BY <2>2, <2>3, <2>6 DEF PlansMove, History!Select, Reselected, Listed
    <3> QED
      BY <2>2, <3>1 DEF History!HistoryNext
  <2>7. CASE PlansRemoval(o)
    <3>1. PICK i \in DOMAIN index[c].revisions :
            o.entry = History!Dropped(index[c], i)
      BY <2>7 DEF PlansRemoval
    <3>2. History!Forget(c, i)
      BY <2>3, <3>1 DEF History!Forget
    <3> QED
      BY <2>2, <3>2 DEF History!HistoryNext
  <2> QED
    BY <2>4, <2>5, <2>6, <2>7
<1> QED
  BY <1>1, <1>2, Inductive, PTL DEF Spec, ImplementsHistory, History!HistorySpec

-----------------------------------------------------------------------------
(* What is found damaged.                                                  *)

\* A directory is there with its revision.json, or neither is; so it was when
\* a removal read what it may have to restore.
Paired ==
  /\ \A r \in Revision : files[r] = "none" <=> state[r] = "none"
  /\ \A o \in op : /\ o.was.files = "none" <=> o.was.state = "none"
                   /\ o.pc = "state" => files[o.rev] # "none"

LEMMA PairedStep ==
  ASSUME IInv, Paired, [Next]_vars
  PROVE  Paired'
<1>0. /\ files \in [Revision -> Content] /\ state \in [Revision -> Metadata]
      /\ \A o \in op : o \in Operation /\ o.rev \in Revision
      /\ \A o, p \in op : o = p
  BY DEF IInv, CapabilityTypeOK, Operation
<1>1. ASSUME UNCHANGED <<files, state>>, op' \subseteq op PROVE Paired'
  BY <1>1 DEF Paired
<1>2. ASSUME NEW kind, NEW r \in Revision, NEW entry, NEW pc, Begin(kind, r, entry, pc),
             pc = "state" => files[r] # "none"
      PROVE  Paired'
  BY <1>2 DEF Paired, Begin
<1>3. ASSUME NEW o \in op, NEW pc \in {"index", "rmtree", "restore"}, Proceed(o, pc),
             \A r \in Revision : files'[r] = "none" <=> state'[r] = "none"
      PROVE  Paired'
  BY <1>0, <1>3 DEF Paired, Proceed, Operation
<1>4. ASSUME NEW r \in Revision, \/ Reject(r) \/ Repeat(r)
                                 \/ \E kind \in {"install", "upgrade"} : Refuse(kind, r)
      PROVE  Paired'
  BY <1>1, <1>4 DEF Reject, Repeat, Refuse, Answers, Say
<1>5. ASSUME NEW r \in Revision, Drift(r) PROVE Paired'
  BY <1>0, <1>5 DEF Paired, Drift
<1>6. ASSUME NEW r \in Revision, NEW kind \in {"install", "upgrade"}, Publish(kind, r) PROVE Paired'
  BY <1>1, <1>2, <1>6 DEF Publish, Answers, Say
<1>7. ASSUME NEW r \in Revision, NEW c \in Capability, Rollback(c, r) \/ RemoveRevision(c, r)
      PROVE  Paired'
  BY <1>1, <1>2, <1>7 DEF Rollback, RemoveRevision, Answers, Say
<1>8. ASSUME NEW c \in Capability, Rebuild(c) PROVE Paired'
  <2>1. PICK r \in index[c].selected :
          IF files[r] = "whole" THEN Begin("rebuild", r, index[c], "state") ELSE Answers(c, "damaged")
    BY <1>8 DEF Rebuild
  <2>2. r \in Revision
    BY <2>1 DEF IInv, CapabilityTypeOK, Entry
  <2> QED
    BY <1>1, <1>2, <2>1, <2>2 DEF Answers, Say
<1>9. ASSUME NEW c \in Capability, RollbackRefused(c) \/ RemoveAbsent(c) \/ RebuildRefused(c) \/ ListRevisions(c)
      PROVE  Paired'
  BY <1>1, <1>9 DEF RollbackRefused, RemoveAbsent, RebuildRefused, ListRevisions, Answers, Say
<1>10. ASSUME NEW o \in op, Rename(o) PROVE Paired'
  BY <1>0, <1>3, <1>10 DEF Rename, Paired
<1>11. ASSUME NEW o \in op, Hide(o) PROVE Paired'
  BY <1>0, <1>3, <1>11 DEF Hide, Paired
<1>12. ASSUME NEW o \in op, WriteIndex(o) PROVE Paired'
  BY <1>0, <1>1, <1>3, <1>12 DEF WriteIndex, Say, Paired
<1>13. ASSUME NEW o \in op, WriteState(o) PROVE Paired'
  BY <1>0, <1>13 DEF WriteState, Say, Paired
<1>14. ASSUME NEW o \in op, RemoveTree(o) \/ WriteFails(o) PROVE Paired'
  BY <1>1, <1>14 DEF RemoveTree, WriteFails, Answers, Say
<1>15. ASSUME NEW o \in op, RemovalFails(o) PROVE Paired'
  BY <1>3, <1>15 DEF RemovalFails, Paired
<1>16. ASSUME NEW o \in op, Restore(o) PROVE Paired'
  BY <1>0, <1>16 DEF Restore, Say, Paired
<1>17. CASE Crash \/ UNCHANGED vars
  BY <1>1, <1>17 DEF Crash, vars
<1> QED
  BY <1>4, <1>5, <1>6, <1>7, <1>8, <1>9, <1>10, <1>11, <1>12, <1>13, <1>14, <1>15, <1>16, <1>17
     DEF Next, Write

Harmed(r) == files[r] = "drifted" \/ state[r] \in {"altered", "unreadable"} \/ r \in tombs

\* What is listed and cannot be verified was harmed.
LEMMA UnverifiedIsHarmed ==
  ASSUME IInv, Paired, NEW c \in Capability, NEW r \in Listed(c), ~Verified(r)
  PROVE  r \in Revision /\ CapabilityOf[r] = c /\ Harmed(r)
<1>1. r \in Revision /\ CapabilityOf[r] = c
  BY ListedOK DEF IInv, CapabilityTypeOK
<1>2. files[r] \in Content /\ state[r] \in Metadata
  BY <1>1 DEF IInv, CapabilityTypeOK
<1>3. files[r] = "none" => r \in tombs
  BY DEF IInv, IndexBacked
<1> QED
  BY <1>1, <1>2, <1>3 DEF Verified, Agrees, Loads, Harmed, Paired, Content, Metadata

\* An operation finds the store damaged only if something of the capability
\* was altered or a removal of it was cut off (install, rollback, remove).
THEOREM AlarmsAreTrue == Spec => NoFalseAlarm
<1> DEFINE A == answer' # answer /\ answer'.code = "damaged" =>
                  \E r \in Revision : CapabilityOf[r] = answer'.of /\ Harmed(r)
<1>1. IInv /\ Paired /\ [Next]_vars => A
  <2> SUFFICES ASSUME IInv, Paired, [Next]_vars, answer' # answer, answer'.code = "damaged"
               PROVE  \E r \in Revision : CapabilityOf[r] = answer'.of /\ Harmed(r)
    OBVIOUS
  <2>0. \A c, code : Say(c, code) => answer'.of = c /\ answer'.code = code
    BY DEF Say
  <2>1. ASSUME NEW c \in Capability, answer'.of = c, NEW r \in Listed(c), ~Verified(r)
        PROVE  \E s \in Revision : CapabilityOf[s] = answer'.of /\ Harmed(s)
    BY <2>1, UnverifiedIsHarmed
  <2>2. ASSUME NEW r \in Revision, Repeat(r)
        PROVE  \E s \in Revision : CapabilityOf[s] = answer'.of /\ Harmed(s)
    <3>1. CapabilityOf[r] \in Capability /\ answer'.of = CapabilityOf[r] /\ r \in Listed(CapabilityOf[r])
          /\ ~Verified(r)
      BY <2>0, <2>2, CapabilityAssumption DEF Repeat, Answers
    <3> QED
      BY <2>1, <3>1
  <2>3. ASSUME NEW r \in Revision, NEW kind \in {"install", "upgrade"}, Publish(kind, r)
        PROVE  \E s \in Revision : CapabilityOf[s] = answer'.of /\ Harmed(s)
    <3>1. answer'.of = CapabilityOf[r] /\ files[r] # "none" /\ ~Agrees(r)
      BY <2>0, <2>3 DEF Publish, Answers, Begin, FoundUsable
    <3>2. state[r] \in Metadata
      BY DEF IInv, CapabilityTypeOK
    <3> QED
      BY <3>1, <3>2 DEF Agrees, Loads, Paired, Metadata, Harmed
  <2>4. ASSUME NEW r \in Revision, NEW c \in Capability, Rollback(c, r)
        PROVE  \E s \in Revision : CapabilityOf[s] = answer'.of /\ Harmed(s)
    <3>1. answer'.of = c /\ r \in Listed(c) /\ ~Verified(r)
      BY <2>0, <2>4 DEF Rollback, Answers, Begin
    <3> QED
      BY <2>1, <3>1
  <2>5. ASSUME NEW r \in Revision, NEW c \in Capability, RemoveRevision(c, r)
        PROVE  \E s \in Revision : CapabilityOf[s] = answer'.of /\ Harmed(s)
    <3> DEFINE new == History!Dropped(index[c], Position(c, r))
    <3>1. answer'.of = c /\ r \in Listed(c) /\ (~Loads(r) \/ ~FallbackSound(c, new))
      BY <2>0, <2>5 DEF RemoveRevision, Answers, Begin
    <3>2. CASE ~Loads(r)
      BY <2>1, <3>1, <3>2 DEF Verified, Agrees
    <3>3. CASE ~FallbackSound(c, new)
      <4>1. PICK s \in new.selected : ~Verified(s)
        BY <3>3 DEF FallbackSound
      <4>2. EntryOK(c, index[c]) /\ Position(c, r) \in DOMAIN index[c].revisions
        BY <3>1, PositionOK DEF IInv, CapabilityTypeOK
      <4>3. EntryOK(c, new) /\ History!Listed(new) \subseteq History!Listed(index[c])
        BY <4>2, DroppedOK
      <4>4. s \in Listed(c)
        BY <4>1, <4>3, SelectedListed DEF Listed
      <4> QED
        BY <2>1, <3>1, <4>1, <4>4
    <3> QED
      BY <3>1, <3>2, <3>3
  <2>6. ASSUME NEW c \in Capability, Rebuild(c)
        PROVE  \E s \in Revision : CapabilityOf[s] = answer'.of /\ Harmed(s)
    <3>1. PICK r \in index[c].selected : files[r] # "whole" /\ answer'.of = c
      BY <2>0, <2>6 DEF Rebuild, Answers, Begin
    <3>2. r \in Listed(c)
      BY <3>1, SelectedListed DEF IInv, CapabilityTypeOK, Listed
    <3> QED
      BY <2>1, <3>1, <3>2 DEF Verified
  <2>7. ASSUME NEW c \in Capability, ListRevisions(c)
        PROVE  \E s \in Revision : CapabilityOf[s] = answer'.of /\ Harmed(s)
    <3>1. answer'.of = c /\ \E r \in Listed(c) : ~Loads(r)
      BY <2>0, <2>7 DEF ListRevisions, Answers
    <3> QED
      BY <2>1, <3>1 DEF Verified, Agrees
  <2>8. ~\E r \in Revision : Reject(r) \/ Drift(r) \/ \E kind \in {"install", "upgrade"} : Refuse(kind, r)
    BY <2>0 DEF Reject, Drift, Refuse, Answers
  <2>9. ~\E c \in Capability : RollbackRefused(c) \/ RemoveAbsent(c) \/ RebuildRefused(c)
    BY <2>0 DEF RollbackRefused, RemoveAbsent, RebuildRefused, Answers
  <2>10. ~Write /\ ~Crash /\ ~UNCHANGED vars
    BY <2>0 DEF Write, Rename, Hide, WriteIndex, WriteState, RemoveTree, WriteFails, RemovalFails, Restore,
       Proceed, Answers, Crash, vars
  <2> QED
    BY <2>2, <2>3, <2>4, <2>5, <2>6, <2>7, <2>8, <2>9, <2>10 DEF Next
<1>2. StoreInit => Paired
  BY DEF StoreInit, Paired
<1>3. Spec => []Paired
  BY <1>2, Inductive, PairedStep, PTL DEF Spec
<1>4. A => (answer' # answer /\ answer'.code = "damaged" =>
              \E r \in Revision :
                /\ CapabilityOf[r] = answer'.of
                /\ \/ files[r] = "drifted"
                   \/ state[r] \in {"altered", "unreadable"}
                   \/ r \in tombs)
  BY DEF Harmed
<1> QED
  BY <1>1, <1>3, <1>4, Inductive, PTL DEF Spec, NoFalseAlarm
=============================================================================
