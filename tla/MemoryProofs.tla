---------------------------- MODULE MemoryProofs ----------------------------
(***************************************************************************)
(* The records, the files, the index and the backups of the memory store,  *)
(* for any number of files, records, rows and backups and for any budget:  *)
(* each write may be the last one before a crash.                          *)
(*                                                                         *)
(* A consolidation is a chain of folds (the pass over the sorted records,  *)
(* their merge, the sentences of a summary).  Folds are recursive, and a   *)
(* lemma about all of them would take an operator as a parameter, which    *)
(* the provers cannot instantiate: FoldRun is about functions, and each    *)
(* fold is shown to be a run of the function of its step.                  *)
(***************************************************************************)
EXTENDS MemoryStore, MemoryApi, FiniteSetTheorems, SequenceTheorems, WellFoundedInduction,
        TLAPS

Agrees(r) == entry[r.file] = Junk \/ (Parses(r.file) /\ r.name = Name(entry[r.file]))

(* What the writer relies on between its writes: the journal names the     *)
(* file of the step, the payload saved for a rollback is of that file, and *)
(* once the index is written the rows of that file agree too.              *)
Underway ==
  /\ pc \in {"plan", "work"} => journal = NoFile
  /\ pc = "reconciled" => journal \in File
  /\ pc \in Publishing => (before \in Record => before.file = journal)
  /\ pc \in {"written", "indexed"} => entry[journal] = Head(job).value
  /\ pc \in {"indexed", "reconciled"} => \A r \in listing : r.file = journal => Agrees(r)

MInv == MemoryTypeOK /\ RowsAgree /\ PublishedHasRow /\ Underway

-----------------------------------------------------------------------------
(* The index after a store and after a deletion.                           *)

LEMMA RowFits ==
  ASSUME NEW e \in Record, e.file \in File
  PROVE  RowOf(e) \in Row
  BY DEF Record, Row, RowOf, Name

LEMMA RecordIsFile ==
  ASSUME NEW e \in Record PROVE e # Absent /\ e # Junk
  BY MemoryAssumption

(* A store writes a row that agrees with the file, and only drops others.  *)
LEMMA UpdatedAgrees ==
  ASSUME MemoryTypeOK, RowsAgree, journal \in File,
         NEW e \in Record, e.file = journal, entry[journal] = e
  PROVE  /\ Updated(e) \subseteq Row
         /\ \A r \in Updated(e) : Agrees(r)
         /\ \E r \in Updated(e) : r.file = journal
         /\ Parses(journal)
<1>1. Parses(journal)
  BY RecordIsFile DEF Parses
<1>2. RowOf(e) \in Row /\ RowOf(e).file = journal /\ RowOf(e).name = Name(e)
  BY RowFits DEF RowOf
<1>3. ASSUME NEW r \in listing, r.file # journal PROVE Agrees(r)
  BY <1>3 DEF RowsAgree, Agrees
<1>4. Agrees(RowOf(e))
  BY <1>1, <1>2 DEF Agrees
<1> QED
  BY <1>1, <1>2, <1>3, <1>4 DEF Updated, MemoryTypeOK

(* A deletion leaves no row of the file.                                   *)
LEMMA RemovedAgrees ==
  ASSUME MemoryTypeOK, RowsAgree, journal \in File
  PROVE  /\ Removed(journal) \subseteq Row
         /\ \A r \in Removed(journal) : Agrees(r) /\ r.file # journal
  BY DEF Removed, RowsAgree, Agrees, MemoryTypeOK

-----------------------------------------------------------------------------
(* The invariant is inductive.                                             *)

LEMMA LeaveOK ==
  ASSUME MemoryTypeOK, Leave
  PROVE  /\ pc' = "idle" /\ call' \in Call /\ before' \in Record \cup {Absent, Junk}
         /\ pc' \notin Publishing
  BY DEF Leave, NoCall, Call, Publishing

LEMMA InitMInv == MemoryInit => MInv
  BY MemoryAssumption
  DEF MemoryInit, MInv, MemoryTypeOK, RowsAgree, PublishedHasRow, Underway, Publishing,
      PC, NoCall, Call, Parses

\* Steps that write no file: the disk and what is published stay.
LEMMA QuietMInv ==
  ASSUME MInv, UNCHANGED disk, pc' \in PC \ (Publishing \cup {"reconciled"}),
         call' \in Call, before' \in Record \cup {Absent, Junk},
         pc' \in {"plan", "work"} => journal = NoFile
  PROVE  MInv'
  BY DEF MInv, disk, MemoryTypeOK, RowsAgree, PublishedHasRow, Underway, Publishing, PC,
         Parses, Agrees

LEMMA StepMInv ==
  ASSUME MInv, [MemoryNext]_mvars
  PROVE  MInv'
<1> USE DEF PC
<1>1. ASSUME NEW c \in Call, Enter(c) PROVE MInv'
  BY <1>1, QuietMInv DEF Enter, MInv, MemoryTypeOK, Publishing
<1>2. CASE NothingToRecover
  BY <1>2, QuietMInv DEF NothingToRecover, disk, MInv, MemoryTypeOK, Publishing
<1>3. CASE Reconcile
  <2>1. journal \in File /\ entry' = entry /\ journal' = journal /\ pc' = "reconciled"
    BY <1>3 DEF Reconcile, MInv, MemoryTypeOK
  <2>2. /\ listing' \subseteq Row
        /\ \A r \in listing' : Agrees(r)
        /\ entry[journal] # Junk =>
             (Parses(journal) <=> \E r \in listing' : r.file = journal)
    <3>1. CASE entry[journal] = Absent
      BY <1>3, <2>1, <3>1, RemovedAgrees, MemoryAssumption
      DEF Reconcile, Reconciled, MInv, Parses
    <3>2. CASE entry[journal] = Junk
      <4>1. listing' = listing
        BY <1>3, <3>2, MemoryAssumption DEF Reconcile, Reconciled, Parses
      <4> QED
        BY <4>1, <3>2 DEF MInv, MemoryTypeOK, RowsAgree, Agrees
    <3>3. CASE Parses(journal)
      <4>1. listing' = Updated(entry[journal])
        BY <1>3, <3>3 DEF Reconcile, Reconciled, Parses
      <4>2. entry[journal] \in Record /\ entry[journal].file = journal
        BY <2>1, <3>3 DEF MInv, MemoryTypeOK, Parses
      <4> QED
        BY <2>1, <4>1, <4>2, UpdatedAgrees DEF MInv
    <3> QED
      BY <3>1, <3>2, <3>3 DEF Parses
  <2>3. MemoryTypeOK'
    BY <1>3, <2>1, <2>2 DEF Reconcile, MInv, MemoryTypeOK, Publishing, Parses
  <2> QED
    BY <1>3, <2>1, <2>2, <2>3
    DEF Reconcile, MInv, RowsAgree, PublishedHasRow, Underway, Publishing, Agrees, Parses
<1>4. CASE Recovered
  <2>1. /\ UNCHANGED <<entry, listing, call, before>> /\ journal' = NoFile
        /\ pc = "reconciled" /\ pc' = "plan"
    BY <1>4 DEF Recovered
  <2>2. MemoryTypeOK'
    BY <2>1 DEF MInv, MemoryTypeOK, Publishing, Parses
  <2>3. RowsAgree'
    BY <2>1 DEF MInv, RowsAgree, Underway, Agrees, Parses
  <2> QED
    BY <2>1, <2>2, <2>3 DEF MInv, PublishedHasRow, Underway, Publishing
<1>5. CASE Plan
  BY <1>5, QuietMInv DEF Plan, MInv, MemoryTypeOK, Publishing, Underway
<1>6. CASE WriteJournal
  <2>1. /\ pc' = "journalled" /\ journal' = Head(job).file /\ before' = entry[Head(job).file]
        /\ UNCHANGED <<entry, listing, call, job>> /\ journal = NoFile
        /\ Head(job) \in Step /\ Head(job).file \in File
    BY <1>6 DEF WriteJournal, Publishable, Step
  <2>2. before' \in Record \cup {Absent, Junk} /\ (before' \in Record => before'.file = journal')
    BY <2>1, RecordIsFile DEF MInv, MemoryTypeOK, Parses
  <2>3. MemoryTypeOK'
    BY <2>1, <2>2 DEF MInv, MemoryTypeOK, Publishing, Parses
  <2>4. RowsAgree'
    BY <2>1, MemoryAssumption DEF MInv, MemoryTypeOK, Row, RowsAgree, Parses
  <2> QED
    BY <2>1, <2>2, <2>3, <2>4 DEF MInv, PublishedHasRow, Underway, Publishing
<1>7. CASE WriteEntry
  <2>1. /\ pc = "journalled" /\ pc' = "written"
        /\ entry' = [entry EXCEPT ![journal] = Head(job).value]
        /\ UNCHANGED <<listing, journal, call, job, before>>
    BY <1>7 DEF WriteEntry
  <2>2. /\ Head(job) \in Step /\ journal = Head(job).file /\ journal \in File
        /\ Head(job).value \in Record \cup {Absent}
        /\ Head(job).value \in Record => Head(job).value.file = journal
    BY <2>1, MemoryAssumption DEF MInv, MemoryTypeOK, Publishing, Step
  <2>3. entry' \in [File -> Record \cup {Absent, Junk}] /\ entry'[journal] = Head(job).value
    BY <2>1, <2>2 DEF MInv, MemoryTypeOK
  <2>4. ASSUME NEW f \in File, Parses(f)' PROVE entry'[f].file = f
    BY <2>1, <2>2, <2>4 DEF MInv, MemoryTypeOK, Parses
  <2>5. MemoryTypeOK'
    BY <2>1, <2>2, <2>3, <2>4 DEF MInv, MemoryTypeOK, Publishing
  <2>6. RowsAgree'
    BY <2>1, <2>2 DEF MInv, MemoryTypeOK, RowsAgree, Parses, Row
  <2> QED
    BY <2>1, <2>2, <2>3, <2>5, <2>6 DEF MInv, PublishedHasRow, Underway, Publishing
<1>8. CASE WriteListing
  <2>1. /\ pc = "written" /\ pc' = "indexed" /\ listing' = Indexed(Head(job))
        /\ UNCHANGED <<entry, journal, call, job, before>>
    BY <1>8 DEF WriteListing
  <2>2. /\ Head(job) \in Step /\ journal = Head(job).file /\ journal \in File
        /\ entry[journal] = Head(job).value
    BY <2>1 DEF MInv, MemoryTypeOK, Publishing, Step, Underway
  <2>3. /\ listing' \subseteq Row
        /\ \A r \in listing' : Agrees(r)
        /\ Parses(journal) <=> \E r \in listing' : r.file = journal
    <3>1. CASE Head(job).kind = "store"
      <4>1. Head(job).value \in Record /\ Head(job).value.file = journal
        BY <2>2, <3>1 DEF Step
      <4> QED
        BY <2>1, <2>2, <3>1, <4>1, UpdatedAgrees DEF Indexed, MInv
    <3>2. CASE Head(job).kind = "delete"
      <4>1. Head(job).value = Absent /\ listing' = Removed(journal)
        BY <2>1, <2>2, <3>2 DEF Step, Indexed
      <4> QED
        BY <2>2, <4>1, RemovedAgrees DEF MInv, Parses
    <3> QED
      BY <2>2, <3>1, <3>2 DEF Step
  <2>4. MemoryTypeOK'
    BY <2>1, <2>3 DEF MInv, MemoryTypeOK, Publishing, Parses
  <2> QED
    BY <2>1, <2>2, <2>3, <2>4
    DEF MInv, RowsAgree, PublishedHasRow, Underway, Publishing, Agrees, Parses
<1>9. CASE ClearJournal
  <2>1. /\ pc = "indexed" /\ pc' = "work" /\ journal' = NoFile /\ before' = Absent
        /\ UNCHANGED <<entry, listing, call>>
    BY <1>9 DEF ClearJournal
  <2>2. MemoryTypeOK'
    BY <2>1 DEF MInv, MemoryTypeOK, Publishing, Parses
  <2>3. RowsAgree'
    BY <2>1 DEF MInv, RowsAgree, Underway, Agrees, Parses
  <2> QED
    BY <2>1, <2>2, <2>3 DEF MInv, PublishedHasRow, Underway, Publishing
<1>10. CASE Return
  BY <1>10, QuietMInv, LeaveOK DEF Return, MInv
<1>11. CASE IndexFails
  <2>1. /\ pc = "written" /\ pc' = "rollback" /\ listing' \in {listing, Indexed(Head(job))}
        /\ UNCHANGED <<entry, journal, call, job, before>>
    BY <1>11 DEF IndexFails
  <2>2. /\ Head(job) \in Step /\ journal = Head(job).file /\ journal \in File
        /\ entry[journal] = Head(job).value
    BY <2>1 DEF MInv, MemoryTypeOK, Publishing, Step, Underway
  <2>3. listing' \subseteq Row /\ \A r \in listing' : r.file # journal => Agrees(r)
    <3>1. CASE listing' = listing
      BY <3>1 DEF MInv, MemoryTypeOK, RowsAgree, Agrees
    <3>2. CASE listing' = Indexed(Head(job)) /\ Head(job).kind = "store"
      <4>1. Head(job).value \in Record /\ Head(job).value.file = journal
        BY <2>2, <3>2 DEF Step
      <4> QED
        BY <2>2, <3>2, <4>1, UpdatedAgrees DEF Indexed, MInv
    <3>3. CASE listing' = Indexed(Head(job)) /\ Head(job).kind = "delete"
      BY <2>2, <3>3, RemovedAgrees DEF Indexed, MInv
    <3> QED
      BY <2>1, <2>2, <3>1, <3>2, <3>3 DEF Step
  <2>4. MemoryTypeOK'
    BY <2>1, <2>3 DEF MInv, MemoryTypeOK, Publishing, Parses
  <2> QED
    BY <2>1, <2>3, <2>4
    DEF MInv, RowsAgree, PublishedHasRow, Underway, Publishing, Agrees, Parses
<1>12. CASE RestoreEntry
  <2>1. /\ pc = "rollback" /\ entry' = [entry EXCEPT ![journal] = before]
        /\ Leave /\ UNCHANGED <<listing, journal>>
    BY <1>12 DEF RestoreEntry
  <2>2. /\ journal \in File /\ before \in Record \cup {Absent, Junk}
        /\ before \in Record => before.file = journal
    BY <2>1 DEF MInv, MemoryTypeOK, Publishing, Step, Underway
  <2>3. ASSUME NEW f \in File, Parses(f)' PROVE entry'[f].file = f
    BY <2>1, <2>2, <2>3 DEF MInv, MemoryTypeOK, Parses
  <2>4. MemoryTypeOK'
    BY <2>1, <2>2, <2>3, LeaveOK DEF MInv, MemoryTypeOK
  <2>5. RowsAgree'
    BY <2>1, <2>2 DEF MInv, MemoryTypeOK, RowsAgree, Parses, Row
  <2> QED
    BY <2>1, <2>4, <2>5, LeaveOK DEF MInv, PublishedHasRow, Underway
<1>13. CASE CutOff
  BY <1>13, QuietMInv, LeaveOK DEF CutOff, MInv
<1>14. CASE UNCHANGED mvars
  BY <1>14
  DEF mvars, disk, MInv, MemoryTypeOK, RowsAgree, PublishedHasRow, Underway, Publishing,
      Parses, Agrees
<1> QED
  BY <1>1, <1>2, <1>3, <1>4, <1>5, <1>6, <1>7, <1>8, <1>9, <1>10, <1>11, <1>12, <1>13,
     <1>14
  DEF MemoryNext

-----------------------------------------------------------------------------
(* Results.                                                                *)

(* The strengthened invariant holds throughout.                            *)
THEOREM MemoryInvariant == MemorySpec => []MInv
<1>1. MInv /\ [MemoryNext]_mvars => MInv'
  BY StepMInv
<1> QED
  BY InitMInv, <1>1, PTL DEF MemorySpec

(* Whatever the compressor returns and wherever a call is cut off, a file  *)
(* of the directory holds a record of its own name or is not the store's.  *)
THEOREM MemoryTypeCorrect == MemorySpec => []MemoryTypeOK
<1>1. MInv => MemoryTypeOK
  BY DEF MInv
<1> QED
  BY MemoryInvariant, <1>1, PTL

(* Every row but the journalled file's agrees with its file, and the       *)
(* journal is only cleared when that file has a row exactly if it parses.  *)
THEOREM IndexAgrees == MemorySpec => [](RowsAgree /\ PublishedHasRow)
<1>1. MInv => RowsAgree /\ PublishedHasRow
  BY DEF MInv
<1> QED
  BY MemoryInvariant, <1>1, PTL

-----------------------------------------------------------------------------
(* Numbers, sequences and folds.                                           *)

\* Every set of numbers has a least element.
LEMMA NatMin ==
  ASSUME NEW T \in SUBSET Nat, T # {}
  PROVE  \E x \in T : \A y \in T : x <= y
<1> DEFINE R == OpToRel(<, Nat)
<1>1. IsWellFoundedOn(R, Nat)
  BY NatLessThanWellFounded, Zenon
<1>2. \E x \in T : \A y \in T : <<y, x>> \notin R
  <2> HIDE DEF R
  <2> QED
    BY <1>1, WFMin
<1>3. ASSUME NEW x \in T, NEW y \in T, <<y, x>> \notin R PROVE x <= y
  <2>1. <<y, x>> \in Nat \X Nat
    OBVIOUS
  <2>2. ASSUME y < x PROVE <<y, x>> \in R
    <3>1. <<y, x>>[1] < <<y, x>>[2]
      BY <2>2
    <3> QED
      BY <2>1, <3>1, Zenon DEF OpToRel
  <2> HIDE DEF R
  <2> QED
    BY <1>3, <2>2
<1> HIDE DEF R
<1> QED
  BY <1>2, <1>3

(* Induction: a set of numbers with 0 and every successor is Nat.          *)
LEMMA Induct ==
  ASSUME NEW T \in SUBSET Nat, 0 \in T, \A n \in T : n + 1 \in T
  PROVE  T = Nat
<1>1. SUFFICES ASSUME Nat \ T # {} PROVE FALSE
  OBVIOUS
<1>2. PICK x \in Nat \ T : \A y \in Nat \ T : x <= y
  BY <1>1, NatMin
<1>3. x - 1 \in Nat /\ x - 1 \notin T
  BY <1>2
<1> QED
  BY <1>2, <1>3

(* A fold goes over the subsets of the positions; it has a value for each. *)
Folds(H, b, seq, D, g) ==
  \A s \in SUBSET D :
    IF s = {} THEN g[s] = b ELSE Max(s) \in s /\ g[s] = H[<<g[s \ {Max(s)}], seq[Max(s)]>>]

\* The positions up to n can be folded.
Foldable(S, H, b, seq, n) == \E g \in [SUBSET (1 .. n) -> S] : Folds(H, b, seq, 1 .. n, g)

\* The positions up to the next one, and their subsets.
LEMMA UpTo ==
  ASSUME NEW n \in Nat
  PROVE  /\ (1 .. n + 1) \ {n + 1} = 1 .. n /\ 1 .. n + 1 # {}
         /\ \A m \in Nat : n + 1 <= m => 1 .. n + 1 \in SUBSET (1 .. m)
         /\ \A s \in SUBSET (1 .. n + 1) :
              /\ n + 1 \in s => Max(s) = n + 1 /\ s \ {n + 1} \in SUBSET (1 .. n)
              /\ n + 1 \notin s => s \in SUBSET (1 .. n)
<1>1. ASSUME NEW s \in SUBSET (1 .. n + 1)
      PROVE  /\ n + 1 \in s => s \ {n + 1} \in SUBSET (1 .. n)
             /\ n + 1 \notin s => s \in SUBSET (1 .. n)
  OBVIOUS
<1>2. ASSUME NEW s \in SUBSET (1 .. n + 1), n + 1 \in s
      PROVE  Max(s) = n + 1
  <2>1. \A y \in s : n + 1 >= y
    OBVIOUS
  <2>2. ASSUME NEW x \in s, \A y \in s : x >= y PROVE x = n + 1
    BY <1>2, <2>2
  <2> QED
    BY <1>2, <2>1, <2>2 DEF Max
<1>3. (1 .. n + 1) \ {n + 1} = 1 .. n /\ 1 .. n + 1 # {}
  OBVIOUS
<1>4. \A m \in Nat : n + 1 <= m => 1 .. n + 1 \in SUBSET (1 .. m)
  OBVIOUS
<1> QED
  BY <1>1, <1>2, <1>3, <1>4

\* Max of a finite set of positions is its greatest element.
LEMMA MaxIn ==
  ASSUME NEW n \in Nat, NEW s \in SUBSET (1 .. n), s # {}
  PROVE  Max(s) \in s /\ \A y \in s : y <= Max(s)
<1> DEFINE T == {n - x : x \in s}
<1>1. T \in SUBSET Nat /\ T # {}
  <2>1. \A x \in s : n - x \in Nat /\ n - x \in T
    OBVIOUS
  <2>2. T \in SUBSET Nat
    BY <2>1
  <2> HIDE DEF T
  <2> QED
    BY <2>1, <2>2
<1>2. PICK y \in T : \A z \in T : y <= z
  <2> HIDE DEF T
  <2> QED
    BY <1>1, NatMin
<1>3. PICK x \in s : y = n - x
  OBVIOUS
<1>4. \A z \in s : x >= z
  <2>1. ASSUME NEW z \in s PROVE x >= z
    <3>1. n - z \in T /\ x \in Nat /\ z \in Nat
      OBVIOUS
    <3>2. y <= n - z
      BY <1>2, <3>1
    <3> QED
      BY <1>3, <3>1, <3>2
  <2> QED
    BY <2>1
<1> QED
  BY <1>3, <1>4 DEF Max

\* Every sequence can be folded: such a function exists.
LEMMA FoldExists ==
  ASSUME NEW S, NEW E, NEW b \in S, NEW H \in [S \X E -> S], NEW seq \in Seq(E)
  PROVE  \E g \in [SUBSET (DOMAIN seq) -> S] : Folds(H, b, seq, DOMAIN seq, g)
<1> DEFINE T == {n \in Nat : n <= Len(seq) => Foldable(S, H, b, seq, n)}
<1>1. Len(seq) \in Nat /\ DOMAIN seq = 1 .. Len(seq) /\ \A i \in 1 .. Len(seq) : seq[i] \in E
  BY LenProperties
<1>2. 0 \in T
  <2> DEFINE g == [s \in SUBSET (1 .. 0) |-> b]
  <2>1. g \in [SUBSET (1 .. 0) -> S]
    OBVIOUS
  <2>2. \A s \in SUBSET (1 .. 0) : s = {} /\ g[s] = b
    OBVIOUS
  <2>3. Folds(H, b, seq, 1 .. 0, g)
    <3> HIDE DEF g
    <3> QED
      BY <2>2 DEF Folds
  <2> HIDE DEF g
  <2>4. Foldable(S, H, b, seq, 0)
    BY <2>1, <2>3 DEF Foldable
  <2> QED
    BY <2>4
<1>3. ASSUME NEW n \in T PROVE n + 1 \in T
  <2>1. SUFFICES ASSUME n + 1 <= Len(seq)
                 PROVE  Foldable(S, H, b, seq, n + 1)
    OBVIOUS
  <2>0. n \in Nat /\ Foldable(S, H, b, seq, n)
    BY <1>1, <2>1
  <2>2. PICK g \in [SUBSET (1 .. n) -> S] : Folds(H, b, seq, 1 .. n, g)
    BY <2>0 DEF Foldable
  <2> DEFINE h == [s \in SUBSET (1 .. n + 1) |->
                     IF n + 1 \in s THEN H[<<g[s \ {n + 1}], seq[n + 1]>>] ELSE g[s]]
  <2> HIDE DEF T
  <2>3. ASSUME NEW s \in SUBSET (1 .. n + 1), n + 1 \in s
        PROVE  Max(s) = n + 1 /\ s \ {n + 1} \in SUBSET (1 .. n)
    BY <2>0, <2>3, UpTo
  <2>4. ASSUME NEW s \in SUBSET (1 .. n + 1), n + 1 \notin s PROVE s \in SUBSET (1 .. n)
    BY <2>0, <2>4, UpTo
  <2>5. ASSUME NEW s \in SUBSET (1 .. n + 1)
        PROVE  h[s] \in S
    <3>1. CASE n + 1 \in s
      <4>1. g[s \ {n + 1}] \in S /\ seq[n + 1] \in E
        BY <1>1, <2>1, <2>2, <2>3, <3>1, <2>0
      <4> QED
        BY <3>1, <4>1
    <3>2. CASE n + 1 \notin s
      BY <2>2, <2>4, <3>2
    <3> QED
      BY <3>1, <3>2
  <2>6. ASSUME NEW s \in SUBSET (1 .. n + 1)
        PROVE  IF s = {} THEN h[s] = b
               ELSE Max(s) \in s /\ h[s] = H[<<h[s \ {Max(s)}], seq[Max(s)]>>]
    <3>1. CASE n + 1 \in s
      <4>1. h[s \ {n + 1}] = g[s \ {n + 1}]
        BY <2>3, <3>1
      <4> QED
        BY <2>3, <3>1, <4>1
    <3>2. CASE n + 1 \notin s
      <4>1. s \in SUBSET (1 .. n) /\ s \ {Max(s)} \in SUBSET (1 .. n + 1) /\ n + 1 \notin s \ {Max(s)}
        BY <2>4, <3>2
      <4>2. h[s] = g[s] /\ h[s \ {Max(s)}] = g[s \ {Max(s)}]
        BY <3>2, <4>1
      <4>3. IF s = {} THEN g[s] = b
            ELSE Max(s) \in s /\ g[s] = H[<<g[s \ {Max(s)}], seq[Max(s)]>>]
        BY <2>2, <4>1 DEF Folds
      <4> HIDE DEF h
      <4> QED
        BY <4>2, <4>3
    <3> QED
      BY <3>1, <3>2
  <2>7. h \in [SUBSET (1 .. n + 1) -> S]
    BY <2>5
  <2>8. Folds(H, b, seq, 1 .. n + 1, h)
    <3> HIDE DEF h
    <3> QED
      BY <2>6 DEF Folds
  <2> HIDE DEF h
  <2> QED
    BY <2>7, <2>8 DEF Foldable
<1>4. T = Nat
  <2> HIDE DEF T
  <2>1. T \in SUBSET Nat
    BY DEF T
  <2> QED
    BY <1>2, <1>3, <2>1, Induct
<1>5. Foldable(S, H, b, seq, Len(seq))
  <2> HIDE DEF T
  <2>1. Len(seq) \in T
    BY <1>1, <1>4
  <2> QED
    BY <2>1 DEF T
<1> QED
  BY <1>1, <1>5 DEF Foldable

\* f folds as long as it stays in S.
FoldsIn(S, H, b, seq, f) ==
  /\ f[{}] = b
  /\ \A s \in SUBSET (DOMAIN seq) : s # {} /\ f[s \ {Max(s)}] \in S =>
       f[s] = H[<<f[s \ {Max(s)}], seq[Max(s)]>>]

\* The fold of H over seq, one element after the other, is v.
Run(S, H, b, seq, v) ==
  \E r \in [0 .. Len(seq) -> S] :
    /\ r[0] = b /\ r[Len(seq)] = v
    /\ \A n \in 0 .. Len(seq) - 1 : r[n + 1] = H[<<r[n], seq[n + 1]>>]

(* Such a fold, one element after the other.                               *)
LEMMA FoldRun ==
  ASSUME NEW S, NEW E, NEW b \in S, NEW H \in [S \X E -> S], NEW seq \in Seq(E), NEW f,
         FoldsIn(S, H, b, seq, f)
  PROVE  Run(S, H, b, seq, f[DOMAIN seq])
<1> DEFINE r == [n \in 0 .. Len(seq) |-> f[1 .. n]]
           T == {n \in Nat : n <= Len(seq) => f[1 .. n] \in S}
<1>1. Len(seq) \in Nat /\ DOMAIN seq = 1 .. Len(seq) /\ \A i \in 1 .. Len(seq) : seq[i] \in E
  BY LenProperties
<1>2. 1 .. 0 = {} /\ f[{}] = b
  BY DEF FoldsIn
<1>3. ASSUME NEW n \in Nat, n + 1 <= Len(seq), f[1 .. n] \in S
      PROVE  f[1 .. n + 1] = H[<<f[1 .. n], seq[n + 1]>>] /\ seq[n + 1] \in E
  <2>1. (1 .. n + 1) \ {n + 1} = 1 .. n /\ Max(1 .. n + 1) = n + 1
    <3>1. 1 .. n + 1 \in SUBSET (1 .. n + 1) /\ n + 1 \in 1 .. n + 1
      BY <1>3
    <3> HIDE DEF r, T
    <3> QED
      BY <1>3, <3>1, UpTo
  <2>2. 1 .. n + 1 \in SUBSET (1 .. Len(seq)) /\ 1 .. n + 1 # {} /\ n + 1 \in 1 .. Len(seq)
    <3> HIDE DEF r, T
    <3>1. n + 1 \in 1 .. Len(seq)
      BY <1>1, <1>3
    <3> QED
      BY <1>1, <1>3, <3>1, UpTo
  <2> QED
    BY <1>1, <1>3, <2>1, <2>2 DEF FoldsIn
<1>4. 0 \in T
  BY <1>2
<1>5. ASSUME NEW n \in T PROVE n + 1 \in T
  <2>1. n \in Nat /\ n + 1 \in Nat /\ (n <= Len(seq) => f[1 .. n] \in S)
    OBVIOUS
  <2>2. ASSUME n + 1 <= Len(seq) PROVE f[1 .. n + 1] \in S
    <3>1. f[1 .. n] \in S
      BY <1>1, <2>1, <2>2
    <3>2. seq[n + 1] \in E /\ f[1 .. n + 1] = H[<<f[1 .. n], seq[n + 1]>>]
      BY <1>3, <2>1, <2>2, <3>1
    <3> QED
      BY <3>1, <3>2
  <2> QED
    BY <2>1, <2>2
<1>6. T = Nat
  <2> HIDE DEF T
  <2>1. T \in SUBSET Nat
    BY DEF T
  <2> QED
    BY <1>4, <1>5, <2>1, Induct
<1>7. \A n \in 0 .. Len(seq) : f[1 .. n] \in S
  BY <1>1, <1>6
<1>8. r \in [0 .. Len(seq) -> S] /\ r[0] = b /\ r[Len(seq)] = f[DOMAIN seq]
  BY <1>1, <1>2, <1>7
<1>9. ASSUME NEW n \in 0 .. Len(seq) - 1 PROVE r[n + 1] = H[<<r[n], seq[n + 1]>>]
  <2>1. n \in Nat /\ n + 1 <= Len(seq) /\ n \in 0 .. Len(seq) /\ n + 1 \in 0 .. Len(seq)
    BY <1>1
  <2>2. f[1 .. n] \in S
    BY <1>7, <2>1
  <2>3. f[1 .. n + 1] = H[<<f[1 .. n], seq[n + 1]>>]
    BY <1>3, <2>1, <2>2
  <2> QED
    BY <2>1, <2>3
<1> QED
  BY <1>8, <1>9 DEF Run
\* A run ends in S.
LEMMA RunEnds ==
  ASSUME NEW S, NEW E, NEW H, NEW b, NEW seq \in Seq(E), NEW v, Run(S, H, b, seq, v)
  PROVE  v \in S
  BY LenProperties DEF Run

\* A function on 1 .. n is a sequence of length n.
LEMMA IsSeq ==
  ASSUME NEW S, NEW n \in Nat, NEW f \in [1 .. n -> S]
  PROVE  f \in Seq(S) /\ Len(f) = n
<1>1. f \in Seq(S)
  BY SeqDef
<1>2. DOMAIN f = 1 .. Len(f) /\ Len(f) \in Nat /\ DOMAIN f = 1 .. n
  BY <1>1, LenProperties
<1> QED
  BY <1>1, <1>2

\* Append adds one element and no other.
LEMMA AppendOnly ==
  ASSUME NEW S, NEW seq \in Seq(S), NEW e \in S
  PROVE  \A d : d \in ToSet(Append(seq, e)) <=> d \in ToSet(seq) \/ d = e
<1>1. /\ Len(seq) \in Nat /\ DOMAIN seq = 1 .. Len(seq)
      /\ DOMAIN Append(seq, e) = 1 .. Len(seq) + 1
      /\ Append(seq, e)[Len(seq) + 1] = e
      /\ \A i \in 1 .. Len(seq) : Append(seq, e)[i] = seq[i]
  BY AppendProperties, LenProperties
<1>2. \A i : i \in 1 .. Len(seq) + 1 <=> i \in 1 .. Len(seq) \/ i = Len(seq) + 1
  BY <1>1
<1> QED
  BY <1>1, <1>2 DEF ToSet

\* A sequence of one element.
LEMMA One ==
  ASSUME NEW P, NEW x \in P PROVE <<x>> \in Seq(P) \ {<<>>} /\ <<x>>[1] = x /\ Len(<<x>>) = 1
  OBVIOUS

-----------------------------------------------------------------------------
(* The transforms of one record keep its file and its title, and its new   *)
(* content says no other sentences.                                        *)

\* A piece ends up in some sentence; no sentence is empty.
LEMMA SplitType ==
  ASSUME NEW P
  PROVE  \A done \in Seq(Seq(P) \ {<<>>}), piece \in P : Split(done, piece) \in Seq(Seq(P) \ {<<>>})
<1> SUFFICES ASSUME NEW done \in Seq(Seq(P) \ {<<>>}), NEW piece \in P
             PROVE  Split(done, piece) \in Seq(Seq(P) \ {<<>>})
  OBVIOUS
<1> DEFINE Q == Seq(P) \ {<<>>}
<1>1. Append(done, <<piece>>) \in Seq(Q)
  BY One, AppendProperties
<1>2. ASSUME done # <<>> PROVE [done EXCEPT ![Len(done)] = Append(@, piece)] \in Seq(Q)
  <2>1. Len(done) \in 1 .. Len(done) /\ done[Len(done)] \in Q
    BY <1>2, EmptySeq, LenProperties
  <2>2. Append(done[Len(done)], piece) \in Q
    BY <2>1, AppendProperties
  <2>3. [done EXCEPT ![Len(done)] = Append(done[Len(done)], piece)] \in Seq(Q)
    <3> DEFINE last == Append(done[Len(done)], piece)
    <3> HIDE DEF Q, last
    <3>1. last \in Q /\ done \in [1 .. Len(done) -> Q] /\ Len(done) \in Nat
      BY <2>2, LenProperties DEF last, Q
    <3>2. [done EXCEPT ![Len(done)] = last] \in [1 .. Len(done) -> Q]
      BY <3>1
    <3>3. [done EXCEPT ![Len(done)] = last] \in Seq(Q)
      BY <3>1, <3>2, IsSeq
    <3> QED
      BY <3>3 DEF last
  <2> QED
    BY <2>3
<1> QED
  BY <1>1, <1>2 DEF Split

(* The sentences of a content, piece by piece.                             *)
LEMMA SplitRun ==
  ASSUME NEW P, NEW seq \in Seq(P)
  PROVE  Run(Seq(Seq(P) \ {<<>>}), [z \in Seq(Seq(P) \ {<<>>}) \X P |-> Split(z[1], z[2])],
             <<>>, seq, FoldLeft(Split, <<>>, seq))
<1> DEFINE H == [z \in Seq(Seq(P) \ {<<>>}) \X P |-> Split(z[1], z[2])]
           D == DOMAIN seq
           iter[s \in SUBSET D] ==
             IF s = {} THEN <<>> ELSE Split(iter[s \ {Max(s)}], seq[Max(s)])
<1>1. /\ Len(seq) \in Nat /\ D = 1 .. Len(seq)
      /\ \A i \in D : seq[i] \in P
      /\ <<>> \in Seq(Seq(P) \ {<<>>})
  BY LenProperties, EmptySeq
<1>2. /\ H \in [Seq(Seq(P) \ {<<>>}) \X P -> Seq(Seq(P) \ {<<>>})]
      /\ \A z \in Seq(Seq(P) \ {<<>>}), e \in P : H[<<z, e>>] = Split(z, e)
  BY SplitType
<1>3. FoldLeft(Split, <<>>, seq) = iter[D]
  BY DEF FoldLeft, MapThenFoldSet
<1>4. iter = [s \in SUBSET D |->
                IF s = {} THEN <<>>
                ELSE Split(iter[s \ {Max(s)}], seq[Max(s)])]
  <2>1. PICK g \in [SUBSET D -> Seq(Seq(P) \ {<<>>})] : Folds(H, <<>>, seq, D, g)
    <3> HIDE DEF H
    <3> QED
      BY <1>1, <1>2, FoldExists
  <2>2. ASSUME NEW s \in SUBSET D
        PROVE  g[s] = IF s = {} THEN <<>>
                      ELSE Split(g[s \ {Max(s)}], seq[Max(s)])
    <3> HIDE DEF H, iter
    <3>1. /\ s = {} => g[s] = <<>>
          /\ s # {} => Max(s) \in s /\ g[s] = H[<<g[s \ {Max(s)}], seq[Max(s)]>>]
      BY <2>1 DEF Folds
    <3>2. g[s \ {Max(s)}] \in Seq(Seq(P) \ {<<>>})
      BY <2>1
    <3> QED
      BY <1>1, <1>2, <3>1, <3>2
  <2>3. g = [s \in SUBSET D |->
                 IF s = {} THEN <<>> ELSE Split(g[s \ {Max(s)}], seq[Max(s)])]
    <3> HIDE DEF H, D, iter
    <3> QED
      BY <2>1, <2>2
  <2> QED
    BY <2>3, Zenon
<1> HIDE DEF H, iter
<1>5. FoldsIn(Seq(Seq(P) \ {<<>>}), H, <<>>, seq, iter)
  <2>1. ASSUME NEW s \in SUBSET D, s # {}, iter[s \ {Max(s)}] \in Seq(Seq(P) \ {<<>>})
        PROVE  iter[s] = H[<<iter[s \ {Max(s)}], seq[Max(s)]>>]
    <3>1. Max(s) \in D
      BY <1>1, <2>1, MaxIn
    <3> QED
      BY <1>1, <1>2, <1>4, <2>1, <3>1
  <2> QED
    BY <1>4, <2>1 DEF FoldsIn
<1>6. Run(Seq(Seq(P) \ {<<>>}), H, <<>>, seq, iter[DOMAIN seq])
  BY <1>1, <1>2, <1>5, FoldRun
<1> QED
  BY <1>3, <1>6 DEF H

\* Sentences are made of the pieces of the content.
LEMMA SentencesOK ==
  ASSUME NEW P, NEW content \in Seq(P) PROVE Sentences(content) \in Seq(Seq(P))
<1>1. Sentences(content) \in Seq(Seq(P) \ {<<>>})
  BY SplitRun, RunEnds DEF Sentences
<1> QED
  BY <1>1, SeqMonotonic

\* A step of Deciding keeps a list of sentences.
LEMMA ChooseType ==
  ASSUME NEW P
  PROVE  \A chosen \in Seq(Seq(P)), s \in Seq(P) : Choose(chosen, s) \in Seq(Seq(P))
  BY AppendProperties DEF Choose

(* The deciding sentences, one by one.                                     *)
LEMMA ChooseRun ==
  ASSUME NEW P, NEW seq \in Seq(Seq(P))
  PROVE  Run(Seq(Seq(P)), [z \in Seq(Seq(P)) \X Seq(P) |-> Choose(z[1], z[2])],
             <<>>, seq, FoldLeft(Choose, <<>>, seq))
<1> DEFINE H == [z \in Seq(Seq(P)) \X Seq(P) |-> Choose(z[1], z[2])]
           D == DOMAIN seq
           iter[s \in SUBSET D] ==
             IF s = {} THEN <<>> ELSE Choose(iter[s \ {Max(s)}], seq[Max(s)])
<1>1. /\ Len(seq) \in Nat /\ D = 1 .. Len(seq)
      /\ \A i \in D : seq[i] \in Seq(P)
      /\ <<>> \in Seq(Seq(P))
  BY LenProperties, EmptySeq
<1>2. /\ H \in [Seq(Seq(P)) \X Seq(P) -> Seq(Seq(P))]
      /\ \A z \in Seq(Seq(P)), e \in Seq(P) : H[<<z, e>>] = Choose(z, e)
  BY ChooseType
<1>3. FoldLeft(Choose, <<>>, seq) = iter[D]
  BY DEF FoldLeft, MapThenFoldSet
<1>4. iter = [s \in SUBSET D |->
                IF s = {} THEN <<>>
                ELSE Choose(iter[s \ {Max(s)}], seq[Max(s)])]
  <2>1. PICK g \in [SUBSET D -> Seq(Seq(P))] : Folds(H, <<>>, seq, D, g)
    <3> HIDE DEF H
    <3> QED
      BY <1>1, <1>2, FoldExists
  <2>2. ASSUME NEW s \in SUBSET D
        PROVE  g[s] = IF s = {} THEN <<>>
                      ELSE Choose(g[s \ {Max(s)}], seq[Max(s)])
    <3> HIDE DEF H, iter
    <3>1. /\ s = {} => g[s] = <<>>
          /\ s # {} => Max(s) \in s /\ g[s] = H[<<g[s \ {Max(s)}], seq[Max(s)]>>]
      BY <2>1 DEF Folds
    <3>2. g[s \ {Max(s)}] \in Seq(Seq(P))
      BY <2>1
    <3> QED
      BY <1>1, <1>2, <3>1, <3>2
  <2>3. g = [s \in SUBSET D |->
                 IF s = {} THEN <<>> ELSE Choose(g[s \ {Max(s)}], seq[Max(s)])]
    <3> HIDE DEF H, D, iter
    <3> QED
      BY <2>1, <2>2
  <2> QED
    BY <2>3, Zenon
<1> HIDE DEF H, iter
<1>5. FoldsIn(Seq(Seq(P)), H, <<>>, seq, iter)
  <2>1. ASSUME NEW s \in SUBSET D, s # {}, iter[s \ {Max(s)}] \in Seq(Seq(P))
        PROVE  iter[s] = H[<<iter[s \ {Max(s)}], seq[Max(s)]>>]
    <3>1. Max(s) \in D
      BY <1>1, <2>1, MaxIn
    <3> QED
      BY <1>1, <1>2, <1>4, <2>1, <3>1
  <2> QED
    BY <1>4, <2>1 DEF FoldsIn
<1>6. Run(Seq(Seq(P)), H, <<>>, seq, iter[DOMAIN seq])
  BY <1>1, <1>2, <1>5, FoldRun
<1> QED
  BY <1>3, <1>6 DEF H

\* The deciding sentences are made of the same pieces.
LEMMA DecidingOK ==
  ASSUME NEW P, NEW sentences \in Seq(Seq(P)) PROVE Deciding(sentences) \in Seq(Seq(P))
  BY ChooseRun, RunEnds DEF Deciding

\* A step of Joined adds the pieces of one sentence and inserted ones.
LEMMA JoinType ==
  ASSUME NEW P
  PROVE  \A text \in Seq(P \cup Inserted), s \in Seq(P) : Join(text, s) \in Seq(P \cup Inserted)
<1> SUFFICES ASSUME NEW text \in Seq(P \cup Inserted), NEW s \in Seq(P)
             PROVE  Join(text, s) \in Seq(P \cup Inserted)
  OBVIOUS
<1>1. Inline(s) \in Seq(P \cup Inserted)
  <2>1. Len(s) \in Nat /\ DOMAIN s = 1 .. Len(s) /\ \A i \in 1 .. Len(s) : s[i] \in P
    BY LenProperties
  <2>2. "note" \in Inserted
    BY DEF Inserted
  <2>3. Inline(s) \in [1 .. Len(s) -> P \cup Inserted]
    BY <2>1, <2>2 DEF Inline
  <2> QED
    BY <2>1, <2>3, SeqDef
<1>2. <<";">> \in Seq(P \cup Inserted)
  BY One DEF Inserted
<1>3. text \o <<";">> \o Inline(s) \in Seq(P \cup Inserted)
  BY <1>1, <1>2, ConcatProperties
<1> QED
  BY <1>1, <1>3 DEF Join

(* The text of a summary, sentence by sentence.                            *)
LEMMA JoinRun ==
  ASSUME NEW P, NEW seq \in Seq(Seq(P))
  PROVE  Run(Seq(P \cup Inserted), [z \in Seq(P \cup Inserted) \X Seq(P) |-> Join(z[1], z[2])],
             <<>>, seq, FoldLeft(Join, <<>>, seq))
<1> DEFINE H == [z \in Seq(P \cup Inserted) \X Seq(P) |-> Join(z[1], z[2])]
           D == DOMAIN seq
           iter[s \in SUBSET D] ==
             IF s = {} THEN <<>> ELSE Join(iter[s \ {Max(s)}], seq[Max(s)])
<1>1. /\ Len(seq) \in Nat /\ D = 1 .. Len(seq)
      /\ \A i \in D : seq[i] \in Seq(P)
      /\ <<>> \in Seq(P \cup Inserted)
  BY LenProperties, EmptySeq
<1>2. /\ H \in [Seq(P \cup Inserted) \X Seq(P) -> Seq(P \cup Inserted)]
      /\ \A z \in Seq(P \cup Inserted), e \in Seq(P) : H[<<z, e>>] = Join(z, e)
  BY JoinType
<1>3. FoldLeft(Join, <<>>, seq) = iter[D]
  BY DEF FoldLeft, MapThenFoldSet
<1>4. iter = [s \in SUBSET D |->
                IF s = {} THEN <<>>
                ELSE Join(iter[s \ {Max(s)}], seq[Max(s)])]
  <2>1. PICK g \in [SUBSET D -> Seq(P \cup Inserted)] : Folds(H, <<>>, seq, D, g)
    <3> HIDE DEF H
    <3> QED
      BY <1>1, <1>2, FoldExists
  <2>2. ASSUME NEW s \in SUBSET D
        PROVE  g[s] = IF s = {} THEN <<>>
                      ELSE Join(g[s \ {Max(s)}], seq[Max(s)])
    <3> HIDE DEF H, iter
    <3>1. /\ s = {} => g[s] = <<>>
          /\ s # {} => Max(s) \in s /\ g[s] = H[<<g[s \ {Max(s)}], seq[Max(s)]>>]
      BY <2>1 DEF Folds
    <3>2. g[s \ {Max(s)}] \in Seq(P \cup Inserted)
      BY <2>1
    <3> QED
      BY <1>1, <1>2, <3>1, <3>2
  <2>3. g = [s \in SUBSET D |->
                 IF s = {} THEN <<>> ELSE Join(g[s \ {Max(s)}], seq[Max(s)])]
    <3> HIDE DEF H, D, iter
    <3> QED
      BY <2>1, <2>2
  <2> QED
    BY <2>3, Zenon
<1> HIDE DEF H, iter
<1>5. FoldsIn(Seq(P \cup Inserted), H, <<>>, seq, iter)
  <2>1. ASSUME NEW s \in SUBSET D, s # {}, iter[s \ {Max(s)}] \in Seq(P \cup Inserted)
        PROVE  iter[s] = H[<<iter[s \ {Max(s)}], seq[Max(s)]>>]
    <3>1. Max(s) \in D
      BY <1>1, <2>1, MaxIn
    <3> QED
      BY <1>1, <1>2, <1>4, <2>1, <3>1
  <2> QED
    BY <1>4, <2>1 DEF FoldsIn
<1>6. Run(Seq(P \cup Inserted), H, <<>>, seq, iter[DOMAIN seq])
  BY <1>1, <1>2, <1>5, FoldRun
<1> QED
  BY <1>3, <1>6 DEF H

\* A summary is made of pieces of the sentences and of inserted ones.
LEMMA JoinedOK ==
  ASSUME NEW P, NEW sentences \in Seq(Seq(P)) PROVE Joined(sentences) \in Seq(P \cup Inserted)
<1> DEFINE n == IF Len(sentences) < 3 THEN Len(sentences) ELSE 3
<1>1. Len(sentences) \in Nat /\ \A i \in 1 .. n : sentences[i] \in Seq(P)
  BY LenProperties
<1>2. n \in Int
  BY <1>1
<1>3. SubSeq(sentences, 1, n) \in Seq(Seq(P))
  <2> HIDE DEF n
  <2> QED
    BY <1>1, <1>2, SubSeqProperties
<1>4. Joined(sentences) = FoldLeft(Join, <<>>, SubSeq(sentences, 1, n))
  BY DEF Joined
<1> HIDE DEF n
<1> QED
  BY <1>3, <1>4, JoinRun, RunEnds

\* A content made of pieces of another one and of inserted ones.
LEMMA NothingNew ==
  ASSUME NEW e \in Record, NEW content \in Seq(ToSet(e.content) \cup Inserted)
  PROVE  content \in Seq(Piece) /\ ToSet(content) \cap Body \subseteq Words(e)
<1>1. ToSet(e.content) \subseteq Piece
  <2>1. e.content \in Seq(Piece)
    BY DEF Record
  <2> QED
    BY <2>1, LenProperties DEF ToSet
<1>2. content \in Seq(Piece)
  <2>1. ToSet(e.content) \cup Inserted \subseteq Piece
    BY <1>1 DEF Piece
  <2> QED
    BY <2>1, SeqMonotonic
<1>3. ToSet(content) \subseteq ToSet(e.content) \cup Inserted
  BY LenProperties DEF ToSet
<1> QED
  BY <1>2, <1>3, CompressorAssumption DEF Words

\* d is e, shortened.
Shortens(d, e) ==
  /\ d \in Record /\ d.file = e.file /\ d.title = e.title /\ Words(d) \subseteq Words(e)

\* A summary says nothing the record did not say.
LEMMA SummarizedOK ==
  ASSUME NEW e \in Record PROVE Shortens(Summarized(e), e)
<1> DEFINE P == ToSet(e.content)
           all == Sentences(e.content)
           key == Deciding(all)
           text == <<"[summary]">> \o Joined(IF key = <<>> THEN all ELSE key)
<1>1. e.content \in Seq(P)
  <2>1. e.content \in Seq(Piece)
    BY DEF Record
  <2> QED
    BY <2>1, SeqOfRange DEF ToSet, Range
<1>2. all \in Seq(Seq(P))
  BY <1>1, SentencesOK
<1>3. key \in Seq(Seq(P))
  <2> HIDE DEF all
  <2> QED
    BY <1>2, DecidingOK
<1>4. text \in Seq(P \cup Inserted)
  <2> HIDE DEF all, key, P
  <2>1. Joined(IF key = <<>> THEN all ELSE key) \in Seq(P \cup Inserted)
    BY <1>2, <1>3, JoinedOK
  <2>2. <<"[summary]">> \in Seq(P \cup Inserted)
    BY One DEF Inserted
  <2> QED
    BY <2>1, <2>2, ConcatProperties
<1>5. text \in Seq(Piece) /\ ToSet(text) \cap Body \subseteq Words(e)
  <2> HIDE DEF text
  <2> QED
    BY <1>4, NothingNew
<1>6. Summarized(e) = [e EXCEPT !.marker = "summary", !.content = text,
                                !.importance = (e.importance * 9) \div 10]
  BY DEF Summarized
<1>7. (e.importance * 9) \div 10 \in Nat /\ "summary" \in Marker
  <2>1. \A n \in Nat : (n * 9) \div 10 \in Nat
    OBVIOUS
  <2>2. e.importance \in Nat
    BY DEF Record
  <2> QED
    BY <2>1, <2>2, Zenon DEF Marker
<1> HIDE DEF text
<1>8. Summarized(e) \in Record /\ Summarized(e).file = e.file /\ Summarized(e).title = e.title
      /\ Summarized(e).content = text
  BY <1>5, <1>6, <1>7 DEF Record
<1> QED
  BY <1>5, <1>8 DEF Shortens, Words

\* A truncation says nothing the record did not say.
LEMMA TruncatedOK ==
  ASSUME NEW e \in Record PROVE Shortens(Truncated(e), e)
<1>1. CASE Tokens(e) <= TruncateTokens
  BY <1>1 DEF Truncated, Shortens
<1>2. CASE ~ (Tokens(e) <= TruncateTokens)
  <2> DEFINE P == ToSet(e.content)
             kept == TruncateTokens - 1
             head == (kept * 6) \div 10
             tail == kept - head
             whole == e.content
             text == SubSeq(whole, 1, head) \o <<"cut">>
                       \o SubSeq(whole, Len(whole) - tail + 1, Len(whole))
  <2>1. whole \in Seq(Piece) /\ Len(whole) \in Nat /\ \A i \in 1 .. Len(whole) : whole[i] \in P
    <3>1. whole \in Seq(Piece)
      BY DEF Record
    <3> QED
      BY <3>1, LenProperties DEF ToSet
  <2>2. kept \in Nat /\ head \in 0 .. kept /\ kept < Len(whole)
    <3>1. kept \in Nat /\ kept < Len(whole)
      BY <1>2, <2>1, CompressorAssumption DEF Tokens
    <3> HIDE DEF kept
    <3>2. head \in 0 .. kept
      BY <3>1
    <3> QED
      BY <3>1, <3>2
  <2>3. SubSeq(whole, 1, head) \in Seq(P)
    <3> HIDE DEF head, whole, kept, P
    <3>1. head \in Int /\ \A i \in 1 .. head : whole[i] \in P
      BY <2>1, <2>2
    <3> QED
      BY <3>1, SubSeqProperties
  <2>4. SubSeq(whole, Len(whole) - tail + 1, Len(whole)) \in Seq(P)
    <3> DEFINE from == Len(whole) - tail + 1
    <3> HIDE DEF head, whole, kept, P
    <3>1. from \in Int /\ Len(whole) \in Int /\ from >= 1
      BY <2>1, <2>2
    <3>2. \A i \in from .. Len(whole) : whole[i] \in P
      BY <2>1, <3>1
    <3> HIDE DEF from
    <3>3. SubSeq(whole, from, Len(whole)) \in Seq(P)
      BY <3>1, <3>2, SubSeqProperties
    <3> QED
      BY <3>3 DEF from
  <2>5. text \in Seq(P \cup Inserted)
    <3> DEFINE a == SubSeq(whole, 1, head)
               c == SubSeq(whole, Len(whole) - tail + 1, Len(whole))
    <3> HIDE DEF P, a, c
    <3>1. a \in Seq(P \cup Inserted) /\ c \in Seq(P \cup Inserted)
      BY <2>3, <2>4, SeqMonotonic DEF a, c
    <3>2. <<"cut">> \in Seq(P \cup Inserted)
      BY One DEF Inserted, Line
    <3>3. a \o <<"cut">> \o c \in Seq(P \cup Inserted)
      BY <3>1, <3>2, ConcatProperties
    <3> QED
      BY <3>3 DEF a, c
  <2>6. text \in Seq(Piece) /\ ToSet(text) \cap Body \subseteq Words(e)
    <3> HIDE DEF text
    <3> QED
      BY <2>5, NothingNew
  <2>7. Truncated(e) = [e EXCEPT !.marker = "truncated", !.content = text]
    BY <1>2 DEF Truncated
  <2> HIDE DEF text
  <2>8. Truncated(e) \in Record /\ Truncated(e).file = e.file /\ Truncated(e).title = e.title
        /\ Truncated(e).content = text
    BY <2>6, <2>7 DEF Record, Marker
  <2> QED
    BY <2>6, <2>8 DEF Shortens, Words
<1> QED
  BY <1>1, <1>2

FitState == [kept : Seq(Record), used : Nat]

\* The tokens and the importance of a record are numbers.
LEMMA TokensOK ==
  ASSUME NEW e \in Record PROVE Tokens(e) \in Nat /\ e.importance \in Nat
<1>1. e.content \in Seq(Piece) /\ e.importance \in Nat
  BY DEF Record
<1> QED
  BY <1>1, LenProperties DEF Tokens

\* Keeping a record appends it and adds its tokens.
LEMMA KeepType ==
  ASSUME NEW z \in FitState, NEW e \in Record
  PROVE  /\ Keep(z, e) \in FitState
         /\ Keep(z, e).kept = Append(z.kept, e) /\ Keep(z, e).used = z.used + Tokens(e)
<1>1. z.kept \in Seq(Record) /\ z.used \in Nat
  BY DEF FitState
<1>2. Append(z.kept, e) \in Seq(Record) /\ z.used + Tokens(e) \in Nat
  BY <1>1, TokensOK, AppendProperties
<1> QED
  BY <1>2 DEF Keep, FitState

\* What one step of the pass does: the record is left out, or kept whole or shortened.
LEMMA FitCases ==
  ASSUME NEW z \in FitState, NEW e \in Record
  PROVE  \/ Fit(z, e) = z /\ (Outdated(e) \/ ~ (z.used + Tokens(e) <= Budget))
         \/ /\ ~Outdated(e)
            /\ \E d \in Record :
                 /\ Shortens(d, e) /\ Fit(z, e) = Keep(z, d)
                 /\ z.used + Tokens(e) <= Budget => d = e
<1>1. CASE Outdated(e)
  BY <1>1 DEF Fit
<1>2. CASE ~Outdated(e) /\ z.used + Tokens(e) <= Budget
  <2>1. Shortens(e, e) /\ Fit(z, e) = Keep(z, e)
    BY <1>2 DEF Shortens, Fit
  <2> QED
    BY <1>2, <2>1
<1>3. CASE ~Outdated(e) /\ ~ (z.used + Tokens(e) <= Budget)
  <2>1. CASE e.importance >= 700
    <3>1. Fit(z, e) = Keep(z, Truncated(e))
      BY <1>3, <2>1, TokensOK DEF Fit
    <3> QED
      BY <1>3, <3>1, TruncatedOK DEF Shortens
  <2>2. CASE e.importance \in 300 .. 699
    <3>1. Fit(z, e) = Keep(z, Summarized(e))
      BY <1>3, <2>2, TokensOK DEF Fit
    <3> QED
      BY <1>3, <3>1, SummarizedOK DEF Shortens
  <2>3. CASE e.importance < 300
    BY <1>3, <2>3, TokensOK DEF Fit
  <2> QED
    BY <2>1, <2>2, <2>3, TokensOK
<1> QED
  BY <1>1, <1>2, <1>3

\* A step of the pass leaves a list of records and a number of tokens.
LEMMA FitType == \A z \in FitState, e \in Record : Fit(z, e) \in FitState
  BY FitCases, KeepType

(* The records kept, one by one.                                           *)
LEMMA FitRun ==
  ASSUME NEW seq \in Seq(Record)
  PROVE  Run(FitState, [z \in FitState \X Record |-> Fit(z[1], z[2])],
             [kept |-> <<>>, used |-> 0], seq, FoldLeft(Fit, [kept |-> <<>>, used |-> 0], seq))
<1> DEFINE H == [z \in FitState \X Record |-> Fit(z[1], z[2])]
           D == DOMAIN seq
           iter[s \in SUBSET D] ==
             IF s = {} THEN [kept |-> <<>>, used |-> 0] ELSE Fit(iter[s \ {Max(s)}], seq[Max(s)])
<1>1. /\ Len(seq) \in Nat /\ D = 1 .. Len(seq)
      /\ \A i \in D : seq[i] \in Record
      /\ [kept |-> <<>>, used |-> 0] \in FitState
  BY LenProperties, EmptySeq DEF FitState
<1>2. /\ H \in [FitState \X Record -> FitState]
      /\ \A z \in FitState, e \in Record : H[<<z, e>>] = Fit(z, e)
  BY FitType
<1>3. FoldLeft(Fit, [kept |-> <<>>, used |-> 0], seq) = iter[D]
  BY DEF FoldLeft, MapThenFoldSet
<1>4. iter = [s \in SUBSET D |->
                IF s = {} THEN [kept |-> <<>>, used |-> 0]
                ELSE Fit(iter[s \ {Max(s)}], seq[Max(s)])]
  <2>1. PICK g \in [SUBSET D -> FitState] : Folds(H, [kept |-> <<>>, used |-> 0], seq, D, g)
    <3> HIDE DEF H
    <3> QED
      BY <1>1, <1>2, FoldExists
  <2>2. ASSUME NEW s \in SUBSET D
        PROVE  g[s] = IF s = {} THEN [kept |-> <<>>, used |-> 0]
                      ELSE Fit(g[s \ {Max(s)}], seq[Max(s)])
    <3> HIDE DEF H, iter
    <3>1. /\ s = {} => g[s] = [kept |-> <<>>, used |-> 0]
          /\ s # {} => Max(s) \in s /\ g[s] = H[<<g[s \ {Max(s)}], seq[Max(s)]>>]
      BY <2>1 DEF Folds
    <3>2. g[s \ {Max(s)}] \in FitState
      BY <2>1
    <3> QED
      BY <1>1, <1>2, <3>1, <3>2
  <2>3. g = [s \in SUBSET D |->
                 IF s = {} THEN [kept |-> <<>>, used |-> 0] ELSE Fit(g[s \ {Max(s)}], seq[Max(s)])]
    <3> HIDE DEF H, D, iter
    <3> QED
      BY <2>1, <2>2
  <2> QED
    BY <2>3, Zenon
<1> HIDE DEF H, iter
<1>5. FoldsIn(FitState, H, [kept |-> <<>>, used |-> 0], seq, iter)
  <2>1. ASSUME NEW s \in SUBSET D, s # {}, iter[s \ {Max(s)}] \in FitState
        PROVE  iter[s] = H[<<iter[s \ {Max(s)}], seq[Max(s)]>>]
    <3>1. Max(s) \in D
      BY <1>1, <2>1, MaxIn
    <3> QED
      BY <1>1, <1>2, <1>4, <2>1, <3>1
  <2> QED
    BY <1>4, <2>1 DEF FoldsIn
<1>6. Run(FitState, H, [kept |-> <<>>, used |-> 0], seq, iter[DOMAIN seq])
  BY <1>1, <1>2, <1>5, FoldRun
<1> QED
  BY <1>3, <1>6 DEF H

-----------------------------------------------------------------------------
(* A finite set put in order: below is what comes before each element.     *)

LinearOn(S, below) ==
  /\ below \in [S -> SUBSET S]
  /\ \A e \in S : e \notin below[e]
  /\ \A d, e \in S : d = e \/ d \in below[e] \/ e \in below[d]
  /\ \A d, e \in S : d \in below[e] => below[d] \subseteq below[e]

\* Each place is taken.
Filled(S, below) ==
  \A i \in 1 .. Cardinality(S) : \E e \in S : Cardinality(below[e]) = i - 1

\* In a finite linear order no two elements have as many before them, and each place is taken.
LEMMA Ranks ==
  ASSUME NEW S, IsFiniteSet(S), NEW below, LinearOn(S, below)
  PROVE  /\ Cardinality(S) \in Nat
         /\ \A d, e \in S : Cardinality(below[d]) = Cardinality(below[e]) => d = e
         /\ Filled(S, below)
<1> DEFINE n == Cardinality(S)
           rank == [e \in S |-> Cardinality(below[e])]
<1>1. n \in Nat
  BY FS_CardinalityType
<1>2. ASSUME NEW e \in S PROVE IsFiniteSet(below[e]) /\ rank[e] \in 0 .. n - 1
  <2>1. below[e] \in SUBSET S /\ e \notin below[e]
    BY DEF LinearOn
  <2>2. IsFiniteSet(below[e]) /\ Cardinality(below[e]) \in Nat
    BY <2>1, FS_Subset, FS_CardinalityType
  <2>3. Cardinality(below[e] \cup {e}) = Cardinality(below[e]) + 1
    BY <2>1, <2>2, FS_AddElement
  <2>4. below[e] \cup {e} \in SUBSET S
    BY <2>1
  <2>5. Cardinality(below[e] \cup {e}) <= n
    BY <2>4, FS_Subset
  <2> QED
    BY <1>1, <2>2, <2>3, <2>5
<1>3. ASSUME NEW d \in S, NEW e \in S, d \in below[e] PROVE rank[d] < rank[e]
  <2>1. below[d] \cup {d} \in SUBSET below[e] /\ d \notin below[d]
    BY <1>3 DEF LinearOn
  <2>2. Cardinality(below[d] \cup {d}) = Cardinality(below[d]) + 1
    BY <1>2, <2>1, FS_AddElement
  <2>3. Cardinality(below[d] \cup {d}) <= Cardinality(below[e])
    BY <1>2, <2>1, FS_Subset
  <2>4. rank[d] \in Nat /\ rank[e] \in Nat
    BY <1>1, <1>2
  <2> QED
    BY <2>2, <2>3, <2>4
<1>4. ASSUME NEW d \in S, NEW e \in S, rank[d] = rank[e] PROVE d = e
  <2>1. rank[d] \in Nat
    BY <1>1, <1>2
  <2>2. d = e \/ d \in below[e] \/ e \in below[d]
    BY DEF LinearOn
  <2> HIDE DEF rank
  <2> QED
    BY <1>3, <1>4, <2>1, <2>2
<1>5. rank \in Injection(S, 0 .. n - 1)
  <2>1. rank \in [S -> 0 .. n - 1]
    BY <1>2
  <2> HIDE DEF rank, n
  <2> QED
    BY <1>4, <2>1 DEF Injection, IsInjective
<1>6. IsFiniteSet(0 .. n - 1) /\ Cardinality(0 .. n - 1) = n
  <2> HIDE DEF n
  <2> QED
    BY <1>1, FS_Interval
<1>7. rank \in Surjection(S, 0 .. n - 1)
  <2> HIDE DEF rank
  <2> QED
    BY <1>5, <1>6, FS_Injection
<1>8. ASSUME NEW i \in 1 .. n PROVE \E e \in S : rank[e] = i - 1
  <2>1. i - 1 \in 0 .. n - 1
    BY <1>1
  <2> HIDE DEF rank, n
  <2> QED
    BY <1>7, <2>1 DEF Surjection
<1> QED
  BY <1>1, <1>4, <1>8 DEF Filled

\* Every element of S once.
Lists(seq, S) ==
  /\ seq \in Seq(S) /\ ToSet(seq) = S
  /\ \A i, j \in DOMAIN seq : seq[i] = seq[j] => i = j

\* A sequence that puts each element at its place lists the set.
LEMMA RankedLists ==
  ASSUME NEW S, IsFiniteSet(S), NEW below, LinearOn(S, below), NEW seq,
         seq \in [1 .. Cardinality(S) -> S],
         \A i \in 1 .. Cardinality(S) : Cardinality(below[seq[i]]) = i - 1
  PROVE  Lists(seq, S)
<1> DEFINE n == Cardinality(S)
<1>1. n \in Nat /\ \A d, e \in S : Cardinality(below[d]) = Cardinality(below[e]) => d = e
  BY Ranks
<1>2. seq \in [1 .. n -> S]
  OBVIOUS
<1>3. seq \in Seq(S) /\ DOMAIN seq = 1 .. n
  <2> HIDE DEF n
  <2> QED
    BY <1>1, <1>2, IsSeq
<1>4. ASSUME NEW i \in 1 .. n, NEW j \in 1 .. n, seq[i] = seq[j] PROVE i = j
  <2>1. i - 1 = j - 1
    BY <1>4
  <2> QED
    BY <1>1, <2>1
<1>5. ASSUME NEW e \in S PROVE \E i \in 1 .. n : seq[i] = e
  <2>1. IsFiniteSet(below[e]) /\ below[e] \cup {e} \in SUBSET S /\ e \notin below[e]
    <3>1. below[e] \in SUBSET S /\ e \notin below[e]
      BY DEF LinearOn
    <3> QED
      BY <3>1, FS_Subset
  <2>2. Cardinality(below[e]) \in Nat /\ Cardinality(below[e]) + 1 <= n
    <3>1. Cardinality(below[e] \cup {e}) = Cardinality(below[e]) + 1
      BY <2>1, FS_AddElement
    <3>2. Cardinality(below[e] \cup {e}) <= n
      BY <2>1, FS_Subset
    <3> QED
      BY <2>1, <3>1, <3>2, FS_CardinalityType
  <2> DEFINE i == Cardinality(below[e]) + 1
  <2>3. i \in 1 .. n /\ i - 1 = Cardinality(below[e])
    BY <1>1, <2>2
  <2>4. seq[i] \in S /\ Cardinality(below[seq[i]]) = Cardinality(below[e])
    <3> HIDE DEF i
    <3> QED
      BY <2>3
  <2> HIDE DEF i, n
  <2> QED
    BY <1>1, <2>3, <2>4
<1> HIDE DEF n
<1>6. ToSet(seq) = S
  BY <1>2, <1>3, <1>5 DEF ToSet
<1> QED
  BY <1>3, <1>4, <1>6 DEF Lists

Distinct(records) == \A e, d \in records : e.file = d.file => e = d

\* Records of different files are sorted without loss or repetition.
LEMMA SortedOK ==
  ASSUME NEW S \in SUBSET Record, IsFiniteSet(S), Distinct(S)
  PROVE  Lists(Sorted(S), S)
<1> DEFINE below == [e \in S |-> {d \in S : MoreImportant(d, e)}]
           seq == Sorted(S)
<1>1. \A e \in S : e.file \in Nat /\ e.importance \in Nat
  BY DEF Record
<1>2. LinearOn(S, below)
  <2>1. \A e \in S : e \notin below[e]
    BY <1>1 DEF MoreImportant
  <2>2. ASSUME NEW d \in S, NEW e \in S PROVE d = e \/ d \in below[e] \/ e \in below[d]
    BY <1>1 DEF MoreImportant, Distinct
  <2>3. ASSUME NEW d \in S, NEW e \in S, d \in below[e] PROVE below[d] \subseteq below[e]
    BY <1>1, <2>3 DEF MoreImportant
  <2> QED
    BY <2>1, <2>2, <2>3 DEF LinearOn
<1>3. seq = [i \in 1 .. Cardinality(S) |->
               CHOOSE e \in S : Cardinality({d \in S : MoreImportant(d, e)}) = i - 1]
  BY DEF Sorted, Ordered
<1>4. ASSUME NEW i \in 1 .. Cardinality(S)
      PROVE  seq[i] \in S /\ Cardinality(below[seq[i]]) = i - 1
  <2>1. PICK e \in S : Cardinality(below[e]) = i - 1
    <3> HIDE DEF below
    <3> QED
      BY <1>2, Ranks DEF Filled
  <2>2. Cardinality({d \in S : MoreImportant(d, e)}) = i - 1
    BY <2>1
  <2>3. seq[i] \in S /\ Cardinality({d \in S : MoreImportant(d, seq[i])}) = i - 1
    <3> HIDE DEF seq
    <3>1. seq[i] = CHOOSE x \in S : Cardinality({d \in S : MoreImportant(d, x)}) = i - 1
      BY <1>3
    <3> QED
      BY <2>2, <3>1
  <2> HIDE DEF seq
  <2> QED
    BY <2>3
<1>5. seq \in [1 .. Cardinality(S) -> S]
  <2> HIDE DEF seq, below
  <2> QED
    BY <1>3, <1>4
<1> HIDE DEF seq, below
<1>6. Lists(seq, S)
  BY <1>2, <1>4, <1>5, RankedLists
<1> QED
  BY <1>6 DEF seq

\* So are numbers.
LEMMA NumbersOK ==
  ASSUME NEW S \in SUBSET Nat, IsFiniteSet(S)
  PROVE  Lists(Ordered(S, <), S)
<1> DEFINE below == [e \in S |-> {d \in S : d < e}]
           seq == Ordered(S, <)
<1>1. LinearOn(S, below)
  <2>1. \A e \in S : e \notin below[e]
    OBVIOUS
  <2>2. ASSUME NEW d \in S, NEW e \in S PROVE d = e \/ d \in below[e] \/ e \in below[d]
    OBVIOUS
  <2>3. ASSUME NEW d \in S, NEW e \in S, d \in below[e] PROVE below[d] \subseteq below[e]
    <3>1. d < e /\ \A c \in below[d] : c \in S /\ c < d
      BY <2>3
    <3>2. \A c \in S : c < d => c \in below[e]
      BY <3>1
    <3> HIDE DEF below
    <3> QED
      BY <3>1, <3>2
  <2> QED
    BY <2>1, <2>2, <2>3 DEF LinearOn
<1>2. \A k \in 1 .. Cardinality(S) : \E e \in S : Cardinality(below[e]) = k - 1
  <2> HIDE DEF below, seq
  <2>1. Filled(S, below)
    BY <1>1, Ranks
  <2> QED
    BY <2>1 DEF Filled
<1>3. seq = [i \in 1 .. Cardinality(S) |-> CHOOSE e \in S : Cardinality({d \in S : d < e}) = i - 1]
  BY DEF Ordered
<1>4. ASSUME NEW i \in 1 .. Cardinality(S)
      PROVE  seq[i] \in S /\ Cardinality(below[seq[i]]) = i - 1
  <2>1. PICK e \in S : Cardinality(below[e]) = i - 1
    <3> HIDE DEF below
    <3> QED
      BY <1>2
  <2>2. Cardinality({d \in S : d < e}) = i - 1
    BY <2>1
  <2>3. seq[i] \in S /\ Cardinality({d \in S : d < seq[i]}) = i - 1
    <3> HIDE DEF seq
    <3>1. seq[i] = CHOOSE x \in S : Cardinality({d \in S : d < x}) = i - 1
      BY <1>3
    <3> QED
      BY <2>2, <3>1
  <2> HIDE DEF seq
  <2> QED
    BY <2>3
<1>5. seq \in [1 .. Cardinality(S) -> S]
  <2> HIDE DEF seq, below
  <2> QED
    BY <1>3, <1>4
<1> HIDE DEF seq, below
<1>6. Lists(seq, S)
  BY <1>1, <1>4, <1>5, RankedLists
<1> QED
  BY <1>6 DEF seq

-----------------------------------------------------------------------------
(* Merging two records of one title loses no sentence and adds none, and   *)
(* the result has the file of one of them.                                 *)

\* The fields of a record, and the sentences it says.
LEMMA WordsOf ==
  ASSUME NEW e \in Record
  PROVE  /\ e.content \in Seq(Piece) /\ e.file \in Nat /\ e.title \in Title
         /\ e.importance \in Nat /\ e.access \in Nat /\ e.fresh \in BOOLEAN
         /\ e.marker \in Marker
         /\ \A b : b \in Words(e) <=> b \in Body /\ \E i \in 1 .. Len(e.content) : e.content[i] = b
<1>1. e.content \in Seq(Piece) /\ e.file \in Nat /\ e.title \in Title /\ e.importance \in Nat
      /\ e.access \in Nat /\ e.fresh \in BOOLEAN /\ e.marker \in Marker
  BY DEF Record
<1>2. DOMAIN e.content = 1 .. Len(e.content)
  BY <1>1, LenProperties
<1> QED
  BY <1>1, <1>2 DEF Words, ToSet

\* What says a content says all its sentences.
LEMMA SaysOK ==
  ASSUME NEW p \in Record, NEW s \in Record, s.content = <<>> \/ Says(p.content, s.content)
  PROVE  Words(s) \subseteq Words(p)
<1>1. Len(s.content) \in Nat /\ Len(p.content) \in Nat
  BY WordsOf, LenProperties
<1>2. CASE s.content = <<>>
  BY <1>2, WordsOf
<1>3. CASE Says(p.content, s.content)
  <2>1. PICK i \in 1 .. Len(p.content) :
          /\ i + Len(s.content) - 1 <= Len(p.content)
          /\ SubSeq(p.content, i, i + Len(s.content) - 1) = s.content
    BY <1>3 DEF Says
  <2> DEFINE n == i + Len(s.content) - 1
  <2>2. i \in Int /\ n \in Int /\ n - i + 1 = Len(s.content) /\ n <= Len(p.content) /\ i >= 1
    BY <1>1, <2>1
  <2>3. \A k \in i .. n : p.content[k] \in Piece
    <3> HIDE DEF n
    <3>1. \A k \in 1 .. Len(p.content) : p.content[k] \in Piece
      BY WordsOf, LenProperties
    <3> QED
      BY <1>1, <2>2, <3>1
  <2>4. \A k \in 1 .. Len(s.content) : s.content[k] = p.content[i + k - 1]
    <3>1. \A k \in 1 .. n - i + 1 : SubSeq(p.content, i, n)[k] = p.content[i + k - 1]
      <4> HIDE DEF n
      <4> QED
        BY <2>2, <2>3, SubSeqProperties
    <3>2. SubSeq(p.content, i, n) = s.content
      BY <2>1
    <3> HIDE DEF n
    <3> QED
      BY <2>2, <3>1, <3>2
  <2>5. ASSUME NEW k \in 1 .. Len(s.content) PROVE i + k - 1 \in 1 .. Len(p.content)
    <3> HIDE DEF n
    <3> QED
      BY <1>1, <2>2
  <2> HIDE DEF n
  <2>6. ASSUME NEW b \in Words(s) PROVE b \in Words(p)
    <3>1. b \in Body /\ \E k \in 1 .. Len(s.content) : s.content[k] = b
      BY WordsOf
    <3>2. PICK k \in 1 .. Len(s.content) : s.content[k] = b
      BY <3>1
    <3>3. i + k - 1 \in 1 .. Len(p.content) /\ p.content[i + k - 1] = b
      BY <2>4, <2>5, <3>2
    <3>4. \E l \in 1 .. Len(p.content) : p.content[l] = b
      BY <3>3
    <3> QED
      BY <3>1, <3>4, WordsOf
  <2> QED
    BY <2>6
<1> QED
  BY <1>2, <1>3

\* r is what a and d of one title are folded into.
Folded(r, a, d) ==
  /\ r \in Record /\ r.title = a.title /\ r.file \in {a.file, d.file}
  /\ Words(r) = Words(a) \cup Words(d)
  /\ ~Outdated(a) /\ ~Outdated(d) => ~Outdated(r)

\* What is folded into one says what both said, under their title.
LEMMA AbsorbedOK ==
  ASSUME NEW a \in Record, NEW d \in Record, a.title = d.title, NEW r \in Absorbed(a, d)
  PROVE  Folded(r, a, d)
<1> DEFINE first == a.access >= d.access
           p == IF first THEN a ELSE d
           s == IF first THEN d ELSE a
           said == s.content = <<>> \/ Says(p.content, s.content)
           content == IF said THEN p.content ELSE p.content \o <<"separator">> \o s.content
           marker == IF p.marker = s.marker THEN p.marker ELSE ""
           importance == IF s.importance > p.importance THEN s.importance ELSE p.importance
           fresh == p.fresh \/ s.fresh
<1>1. p \in Record /\ s \in Record /\ p.title = a.title /\ s.title = a.title
      /\ {p, s} = {a, d}
  OBVIOUS
<1>2. s.access <= p.access
  BY WordsOf
<1>3. r = [p EXCEPT !.content = content, !.marker = marker, !.importance = importance,
                    !.fresh = fresh]
  BY DEF Absorbed
<1>4. content \in Seq(Piece) /\ ToSet(content) \cap Body = Words(p) \cup Words(s)
  <2>1. CASE said
    <3>1. Words(s) \subseteq Words(p)
      <4> HIDE DEF p, s
      <4> QED
        BY <1>1, <2>1, SaysOK
    <3>2. content = p.content
      BY <2>1
    <3> HIDE DEF p, s, said, content
    <3> QED
      BY <1>1, <3>1, <3>2, WordsOf DEF Words
  <2>2. CASE ~said
    <3>1. content = p.content \o <<"separator">> \o s.content
      BY <2>2
    <3> HIDE DEF p, s, said, content
    <3>2. /\ <<"separator">> \in Seq(Piece) /\ Range(<<"separator">>) = {"separator"}
          /\ "separator" \notin Body
      <4>1. "separator" \in Piece /\ "separator" \notin Body
        BY CompressorAssumption DEF Piece, Inserted, Line
      <4> QED
        BY <4>1, One DEF Range
    <3>3. p.content \in Seq(Piece) /\ s.content \in Seq(Piece)
      BY <1>1, WordsOf
    <3>4. p.content \o <<"separator">> \in Seq(Piece) /\ content \in Seq(Piece)
      BY <3>1, <3>2, <3>3, ConcatProperties
    <3>5. Range(content) = Range(p.content) \cup {"separator"} \cup Range(s.content)
      <4>1. Range(p.content \o <<"separator">>) = Range(p.content) \cup {"separator"}
        <5> DEFINE bar == <<"separator">>
        <5> HIDE DEF bar
        <5>1. bar \in Seq(Piece) /\ Range(bar) = {"separator"}
          BY <3>2 DEF bar
        <5>2. Range(p.content \o bar) = Range(p.content) \cup {"separator"}
          BY <3>3, <5>1, RangeConcatenation
        <5> QED
          BY <5>2 DEF bar
      <4> DEFINE front == p.content \o <<"separator">>
      <4>2. front \in Seq(Piece) /\ content = front \o s.content
        BY <3>1, <3>4
      <4> HIDE DEF front
      <4>3. Range(content) = Range(front) \cup Range(s.content)
        BY <3>3, <4>2, RangeConcatenation
      <4> QED
        BY <4>1, <4>3 DEF front
    <3>6. ToSet(content) = ToSet(p.content) \cup {"separator"} \cup ToSet(s.content)
      BY <3>5 DEF Range, ToSet
    <3> QED
      BY <3>2, <3>4, <3>6 DEF Words
  <2> QED
    BY <2>1, <2>2
<1>5. marker \in Marker /\ importance \in Nat /\ fresh \in BOOLEAN
  BY <1>1, WordsOf DEF Marker
<1>6. importance >= p.importance /\ importance >= s.importance
  BY <1>1, WordsOf
<1>7. fresh <=> p.fresh \/ s.fresh
  OBVIOUS
<1> HIDE DEF p, s, said, content, marker, importance, fresh, first
<1>8. /\ r \in Record /\ r.title = p.title /\ r.file = p.file /\ r.content = content
      /\ r.access = p.access /\ r.importance = importance /\ r.fresh = fresh
  BY <1>1, <1>3, <1>4, <1>5 DEF Record
<1>9. Words(r) = Words(p) \cup Words(s)
  BY <1>4, <1>8 DEF Words
<1>10. ASSUME Outdated(r) PROVE Outdated(p) /\ Outdated(s)
  <2>1. ~fresh /\ p.access < 5 /\ importance < 500
    BY <1>8, <1>10 DEF Outdated, Expired
  <2>2. p.access \in Nat /\ s.access \in Nat /\ p.importance \in Nat /\ s.importance \in Nat
    BY <1>1, WordsOf
  <2> QED
    BY <1>2, <1>5, <1>6, <1>7, <2>1, <2>2 DEF Outdated, Expired
<1> QED
  BY <1>1, <1>8, <1>9, <1>10 DEF Folded

\* Adding tokens leaves a number.
LEMMA AddType == \A n \in Nat, e \in Record : Adding(n, e) \in Nat
  BY TokensOK DEF Adding

(* The tokens of all records, one by one.                                  *)
LEMMA AddRun ==
  ASSUME NEW seq \in Seq(Record)
  PROVE  Run(Nat, [z \in Nat \X Record |-> Adding(z[1], z[2])],
             0, seq, FoldLeft(Adding, 0, seq))
<1> DEFINE H == [z \in Nat \X Record |-> Adding(z[1], z[2])]
           D == DOMAIN seq
           iter[s \in SUBSET D] ==
             IF s = {} THEN 0 ELSE Adding(iter[s \ {Max(s)}], seq[Max(s)])
<1>1. /\ Len(seq) \in Nat /\ D = 1 .. Len(seq)
      /\ \A i \in D : seq[i] \in Record
      /\ 0 \in Nat
  BY LenProperties
<1>2. /\ H \in [Nat \X Record -> Nat]
      /\ \A z \in Nat, e \in Record : H[<<z, e>>] = Adding(z, e)
  BY AddType
<1>3. FoldLeft(Adding, 0, seq) = iter[D]
  BY DEF FoldLeft, MapThenFoldSet
<1>4. iter = [s \in SUBSET D |->
                IF s = {} THEN 0
                ELSE Adding(iter[s \ {Max(s)}], seq[Max(s)])]
  <2>1. PICK g \in [SUBSET D -> Nat] : Folds(H, 0, seq, D, g)
    <3> HIDE DEF H
    <3> QED
      BY <1>1, <1>2, FoldExists
  <2>2. ASSUME NEW s \in SUBSET D
        PROVE  g[s] = IF s = {} THEN 0
                      ELSE Adding(g[s \ {Max(s)}], seq[Max(s)])
    <3> HIDE DEF H, iter
    <3>1. /\ s = {} => g[s] = 0
          /\ s # {} => Max(s) \in s /\ g[s] = H[<<g[s \ {Max(s)}], seq[Max(s)]>>]
      BY <2>1 DEF Folds
    <3>2. g[s \ {Max(s)}] \in Nat
      BY <2>1
    <3> QED
      BY <1>1, <1>2, <3>1, <3>2
  <2>3. g = [s \in SUBSET D |->
                 IF s = {} THEN 0 ELSE Adding(g[s \ {Max(s)}], seq[Max(s)])]
    <3> HIDE DEF H, D, iter
    <3> QED
      BY <2>1, <2>2
  <2> QED
    BY <2>3, Zenon
<1> HIDE DEF H, iter
<1>5. FoldsIn(Nat, H, 0, seq, iter)
  <2>1. ASSUME NEW s \in SUBSET D, s # {}, iter[s \ {Max(s)}] \in Nat
        PROVE  iter[s] = H[<<iter[s \ {Max(s)}], seq[Max(s)]>>]
    <3>1. Max(s) \in D
      BY <1>1, <2>1, MaxIn
    <3> QED
      BY <1>1, <1>2, <1>4, <2>1, <3>1
  <2> QED
    BY <1>4, <2>1 DEF FoldsIn
<1>6. Run(Nat, H, 0, seq, iter[DOMAIN seq])
  BY <1>1, <1>2, <1>5, FoldRun
<1> QED
  BY <1>3, <1>6 DEF H

\* What one step of the merge does: a record is added, or folded into one of its title.
LEMMA MergeCases ==
  ASSUME NEW m \in Seq(Record), NEW e \in Record
  PROVE  \/ Merge(m, e) = Append(m, e)
         \/ \E at \in 1 .. Len(m) : \E r :
              /\ m[at] \in Record /\ m[at].title = e.title /\ Folded(r, m[at], e)
              /\ Merge(m, e) = [m EXCEPT ![at] = r]
<1> DEFINE same == {i \in DOMAIN m : m[i].title = e.title}
           at == CHOOSE i \in same : \A j \in same : i <= j
           one == Absorbed(m[at], e)
<1>1. Merge(m, e) = IF same = {} \/ one = {} THEN Append(m, e)
                    ELSE [m EXCEPT ![at] = CHOOSE r \in one : TRUE]
  BY DEF Merge
<1>2. CASE same = {} \/ one = {}
  BY <1>1, <1>2
<1>3. CASE same # {} /\ one # {}
  <2>1. Len(m) \in Nat /\ DOMAIN m = 1 .. Len(m)
    BY LenProperties
  <2>2. same \in SUBSET Nat
    BY <2>1
  <2>3. at \in same
    <3>1. \E x \in same : \A y \in same : x <= y
      <4> HIDE DEF same
      <4> QED
        BY <1>3, <2>2, NatMin
    <3> HIDE DEF same
    <3> QED
      BY <3>1
  <2> HIDE DEF at
  <2>4. at \in 1 .. Len(m) /\ m[at].title = e.title /\ m[at] \in Record
    BY <2>1, <2>3, ElementOfSeq
  <2>5. PICK r : r = CHOOSE x \in one : TRUE
    OBVIOUS
  <2>6. r \in one
    BY <1>3, <2>5
  <2>7. Folded(r, m[at], e)
    BY <2>4, <2>6, AbsorbedOK
  <2>8. Merge(m, e) = [m EXCEPT ![at] = r]
    BY <1>1, <1>3, <2>5
  <2> QED
    BY <2>4, <2>7, <2>8
<1> QED
  BY <1>2, <1>3

\* A step of the merge leaves a list of records.
LEMMA MergeType == \A m \in Seq(Record), e \in Record : Merge(m, e) \in Seq(Record)
<1> SUFFICES ASSUME NEW m \in Seq(Record), NEW e \in Record PROVE Merge(m, e) \in Seq(Record)
  OBVIOUS
<1>1. CASE Merge(m, e) = Append(m, e)
  BY <1>1, AppendProperties
<1>2. ASSUME NEW at \in 1 .. Len(m), NEW r, Folded(r, m[at], e), Merge(m, e) = [m EXCEPT ![at] = r]
      PROVE  Merge(m, e) \in Seq(Record)
  <2>1. r \in Record
    BY <1>2 DEF Folded
  <2> QED
    BY <1>2, <2>1, ExceptSeq
<1> QED
  BY <1>1, <1>2, MergeCases

(* The merged records, one by one.                                         *)
LEMMA MergeRun ==
  ASSUME NEW seq \in Seq(Record)
  PROVE  Run(Seq(Record), [z \in Seq(Record) \X Record |-> Merge(z[1], z[2])],
             <<>>, seq, FoldLeft(Merge, <<>>, seq))
<1> DEFINE H == [z \in Seq(Record) \X Record |-> Merge(z[1], z[2])]
           D == DOMAIN seq
           iter[s \in SUBSET D] ==
             IF s = {} THEN <<>> ELSE Merge(iter[s \ {Max(s)}], seq[Max(s)])
<1>1. /\ Len(seq) \in Nat /\ D = 1 .. Len(seq)
      /\ \A i \in D : seq[i] \in Record
      /\ <<>> \in Seq(Record)
  BY LenProperties, EmptySeq
<1>2. /\ H \in [Seq(Record) \X Record -> Seq(Record)]
      /\ \A z \in Seq(Record), e \in Record : H[<<z, e>>] = Merge(z, e)
  BY MergeType
<1>3. FoldLeft(Merge, <<>>, seq) = iter[D]
  BY DEF FoldLeft, MapThenFoldSet
<1>4. iter = [s \in SUBSET D |->
                IF s = {} THEN <<>>
                ELSE Merge(iter[s \ {Max(s)}], seq[Max(s)])]
  <2>1. PICK g \in [SUBSET D -> Seq(Record)] : Folds(H, <<>>, seq, D, g)
    <3> HIDE DEF H
    <3> QED
      BY <1>1, <1>2, FoldExists
  <2>2. ASSUME NEW s \in SUBSET D
        PROVE  g[s] = IF s = {} THEN <<>>
                      ELSE Merge(g[s \ {Max(s)}], seq[Max(s)])
    <3> HIDE DEF H, iter
    <3>1. /\ s = {} => g[s] = <<>>
          /\ s # {} => Max(s) \in s /\ g[s] = H[<<g[s \ {Max(s)}], seq[Max(s)]>>]
      BY <2>1 DEF Folds
    <3>2. g[s \ {Max(s)}] \in Seq(Record)
      BY <2>1
    <3> QED
      BY <1>1, <1>2, <3>1, <3>2
  <2>3. g = [s \in SUBSET D |->
                 IF s = {} THEN <<>> ELSE Merge(g[s \ {Max(s)}], seq[Max(s)])]
    <3> HIDE DEF H, D, iter
    <3> QED
      BY <2>1, <2>2
  <2> QED
    BY <2>3, Zenon
<1> HIDE DEF H, iter
<1>5. FoldsIn(Seq(Record), H, <<>>, seq, iter)
  <2>1. ASSUME NEW s \in SUBSET D, s # {}, iter[s \ {Max(s)}] \in Seq(Record)
        PROVE  iter[s] = H[<<iter[s \ {Max(s)}], seq[Max(s)]>>]
    <3>1. Max(s) \in D
      BY <1>1, <2>1, MaxIn
    <3> QED
      BY <1>1, <1>2, <1>4, <2>1, <3>1
  <2> QED
    BY <1>4, <2>1 DEF FoldsIn
<1>6. Run(Seq(Record), H, <<>>, seq, iter[DOMAIN seq])
  BY <1>1, <1>2, <1>5, FoldRun
<1> QED
  BY <1>3, <1>6 DEF H

-----------------------------------------------------------------------------
(* What a pass over sorted records keeps: each record once at most, none   *)
(* that is outdated.                                                       *)

\* A list of records of different files.
Apart(seq) == \A i, j \in DOMAIN seq : seq[i].file = seq[j].file => i = j

\* k is one of the first n records, perhaps shortened.
Kept(sorted, n, d) == \E i \in 1 .. n : Shortens(d, sorted[i]) /\ ~Outdated(sorted[i])

FitInv(sorted, n, kept) ==
  /\ Apart(kept)
  /\ \A k \in DOMAIN kept : Kept(sorted, n, kept[k])

\* One record more.
LEMMA FitStep ==
  ASSUME NEW sorted \in Seq(Record), Apart(sorted), NEW n \in Nat, n + 1 <= Len(sorted),
         NEW z \in FitState, FitInv(sorted, n, z.kept)
  PROVE  FitInv(sorted, n + 1, Fit(z, sorted[n + 1]).kept)
<1>1. /\ Len(sorted) \in Nat /\ n + 1 \in 1 .. Len(sorted) /\ DOMAIN sorted = 1 .. Len(sorted)
      /\ n + 1 \in 1 .. n + 1 /\ n + 1 \notin 1 .. n /\ 1 .. n \subseteq 1 .. n + 1
      /\ 1 .. n \subseteq 1 .. Len(sorted)
  BY LenProperties
<1>2. sorted[n + 1] \in Record
  BY <1>1, LenProperties
<1>3. \A d : Kept(sorted, n, d) => Kept(sorted, n + 1, d)
  BY <1>1 DEF Kept
<1>4. CASE Fit(z, sorted[n + 1]) = z
  BY <1>3, <1>4 DEF FitInv
<1>5. ASSUME ~Outdated(sorted[n + 1]),
             NEW d \in Record, Shortens(d, sorted[n + 1]), Fit(z, sorted[n + 1]) = Keep(z, d)
      PROVE  FitInv(sorted, n + 1, Fit(z, sorted[n + 1]).kept)
  <2> DEFINE kept == z.kept
             new == Append(z.kept, d)
  <2>1. Fit(z, sorted[n + 1]).kept = new
    BY <1>5, KeepType
  <2>2. /\ kept \in Seq(Record) /\ Len(kept) \in Nat /\ DOMAIN kept = 1 .. Len(kept)
        /\ new \in Seq(Record) /\ DOMAIN new = 1 .. Len(kept) + 1
        /\ new[Len(kept) + 1] = d /\ \A i \in 1 .. Len(kept) : new[i] = kept[i]
    <3>1. kept \in Seq(Record)
      BY DEF FitState
    <3> HIDE DEF kept
    <3>2. Append(kept, d) \in Seq(Record) /\ Len(Append(kept, d)) = Len(kept) + 1
          /\ Append(kept, d)[Len(kept) + 1] = d
          /\ \A i \in 1 .. Len(kept) : Append(kept, d)[i] = kept[i]
      BY <3>1, AppendProperties
    <3>3. DOMAIN Append(kept, d) = 1 .. Len(kept) + 1 /\ Len(kept) \in Nat
          /\ DOMAIN kept = 1 .. Len(kept)
      BY <3>1, <3>2, LenProperties
    <3> QED
      BY <3>1, <3>2, <3>3 DEF kept
  <2> HIDE DEF new, kept
  <2>3. Kept(sorted, n + 1, d)
    BY <1>1, <1>5 DEF Kept
  <2>4. ASSUME NEW k \in 1 .. Len(kept)
        PROVE  Kept(sorted, n + 1, kept[k]) /\ kept[k].file # d.file
    <3>1. Kept(sorted, n, kept[k])
      BY <2>2 DEF FitInv, kept
    <3>2. PICK i \in 1 .. n : kept[k].file = sorted[i].file
      BY <3>1 DEF Kept, Shortens
    <3>3. sorted[i].file # sorted[n + 1].file
      BY <1>1, <3>2 DEF Apart
    <3> QED
      BY <1>3, <1>5, <3>1, <3>2, <3>3 DEF Shortens
  <2>5. \A k \in DOMAIN new : Kept(sorted, n + 1, new[k])
    BY <2>2, <2>3, <2>4
  <2>6. Apart(new)
    <3>1. \A i, j \in 1 .. Len(kept) : kept[i].file = kept[j].file => i = j
      BY <2>2 DEF FitInv, Apart, kept
    <3> QED
      BY <2>2, <2>4, <3>1 DEF Apart
  <2> QED
    BY <2>1, <2>5, <2>6 DEF FitInv
<1> QED
  BY <1>2, <1>4, <1>5, FitCases

\* The whole pass.
LEMMA FittedOK ==
  ASSUME NEW sorted \in Seq(Record), Apart(sorted)
  PROVE  Fitted(sorted) \in Seq(Record) /\ FitInv(sorted, Len(sorted), Fitted(sorted))
<1> DEFINE b == [kept |-> <<>>, used |-> 0]
           H == [z \in FitState \X Record |-> Fit(z[1], z[2])]
           N == Len(sorted)
<1>1. PICK r \in [0 .. N -> FitState] :
        /\ r[0] = b /\ r[N] = FoldLeft(Fit, b, sorted)
        /\ \A n \in 0 .. N - 1 : r[n + 1] = H[<<r[n], sorted[n + 1]>>]
  <2> HIDE DEF b, H
  <2> QED
    BY FitRun DEF Run, b, H
<1>2. N \in Nat /\ \A i \in 1 .. N : sorted[i] \in Record
  BY LenProperties
<1>3. ASSUME NEW n \in 0 .. N - 1
      PROVE  r[n] \in FitState /\ r[n + 1] = Fit(r[n], sorted[n + 1])
  <2>1. r[n] \in FitState /\ sorted[n + 1] \in Record
    BY <1>2
  <2>2. r[n + 1] = H[<<r[n], sorted[n + 1]>>]
    BY <1>1
  <2> QED
    BY <2>1, <2>2
<1> HIDE DEF H, N
<1> DEFINE T == {n \in Nat : n <= N => FitInv(sorted, n, r[n].kept)}
<1>4. 0 \in T
  <2>1. r[0].kept = <<>> /\ DOMAIN <<>> = {}
    BY <1>1
  <2>2. FitInv(sorted, 0, r[0].kept)
    BY <2>1 DEF FitInv, Apart
  <2> QED
    BY <2>2
<1>5. ASSUME NEW n \in T PROVE n + 1 \in T
  <2>1. n \in Nat /\ (n <= N => FitInv(sorted, n, r[n].kept))
    OBVIOUS
  <2>2. ASSUME n + 1 <= N PROVE FitInv(sorted, n + 1, r[n + 1].kept)
    <3>1. n \in 0 .. N - 1 /\ FitInv(sorted, n, r[n].kept)
      BY <1>2, <2>1, <2>2
    <3> QED
      BY <1>3, <2>1, <2>2, <3>1, FitStep DEF N
  <2> QED
    BY <2>1, <2>2
<1>6. T = Nat
  <2> HIDE DEF T
  <2>1. T \in SUBSET Nat
    BY DEF T
  <2> QED
    BY <1>4, <1>5, <2>1, Induct
<1>7. FitInv(sorted, N, r[N].kept)
  <2> HIDE DEF T
  <2>1. N \in T
    BY <1>2, <1>6
  <2> QED
    BY <1>2, <2>1 DEF T
<1>8. Fitted(sorted) = r[N].kept
  BY <1>1 DEF Fitted
<1>9. r[N] \in FitState
  BY <1>1, <1>2
<1> QED
  BY <1>7, <1>8, <1>9 DEF FitState, N

(* A list of records within the budget is kept whole, but for what is      *)
(* outdated.                                                               *)
LEMMA SumGrows ==
  ASSUME NEW sorted \in Seq(Record)
  PROVE  \E a \in [0 .. Len(sorted) -> Nat] :
           /\ a[0] = 0 /\ a[Len(sorted)] = FoldLeft(Adding, 0, sorted)
           /\ \A n \in 0 .. Len(sorted) - 1 :
                a[n + 1] = a[n] + Tokens(sorted[n + 1]) /\ a[n + 1] <= a[Len(sorted)]
<1> DEFINE H == [z \in Nat \X Record |-> Adding(z[1], z[2])]
           N == Len(sorted)
<1>1. PICK a \in [0 .. N -> Nat] :
        /\ a[0] = 0 /\ a[N] = FoldLeft(Adding, 0, sorted)
        /\ \A n \in 0 .. N - 1 : a[n + 1] = H[<<a[n], sorted[n + 1]>>]
  <2> HIDE DEF H
  <2> QED
    BY AddRun DEF Run, H
<1>2. N \in Nat /\ \A i \in 1 .. N : sorted[i] \in Record
  BY LenProperties
<1>3. ASSUME NEW n \in 0 .. N - 1
      PROVE  /\ a[n] \in Nat /\ a[n + 1] \in Nat /\ Tokens(sorted[n + 1]) \in Nat
             /\ a[n + 1] = a[n] + Tokens(sorted[n + 1])
  <2>1. a[n] \in Nat /\ a[n + 1] \in Nat /\ sorted[n + 1] \in Record
    BY <1>2
  <2>2. a[n + 1] = H[<<a[n], sorted[n + 1]>>]
    BY <1>1
  <2>3. a[n + 1] = a[n] + Tokens(sorted[n + 1])
    BY <2>1, <2>2 DEF Adding
  <2> QED
    BY <2>1, <2>3, TokensOK
<1> HIDE DEF H, N
<1> DEFINE T == {n \in Nat : n <= N => a[N - n] <= a[N]}
<1>4. 0 \in T
  <2>1. N - 0 = N /\ a[N] \in Nat
    BY <1>2
  <2> QED
    BY <2>1
<1>5. ASSUME NEW n \in T PROVE n + 1 \in T
  <2>1. n \in Nat /\ (n <= N => a[N - n] <= a[N])
    OBVIOUS
  <2>2. ASSUME n + 1 <= N PROVE a[N - (n + 1)] <= a[N]
    <3>1. N - (n + 1) \in 0 .. N - 1 /\ (N - (n + 1)) + 1 = N - n /\ n <= N
      BY <1>2, <2>1, <2>2
    <3>2. a[N - (n + 1)] \in Nat /\ a[N - n] \in Nat /\ a[N - (n + 1)] <= a[N - n]
      BY <1>3, <3>1
    <3>3. a[N] \in Nat
      BY <1>2
    <3> QED
      BY <2>1, <3>1, <3>2, <3>3
  <2> QED
    BY <2>1, <2>2
<1>6. T = Nat
  <2> HIDE DEF T
  <2>1. T \in SUBSET Nat
    BY DEF T
  <2> QED
    BY <1>4, <1>5, <2>1, Induct
<1>7. ASSUME NEW n \in 0 .. N - 1 PROVE a[n + 1] <= a[N]
  <2>1. N - (n + 1) \in Nat /\ N - (n + 1) <= N /\ N - (N - (n + 1)) = n + 1
    BY <1>2
  <2>2. N - (n + 1) \in T
    BY <1>6, <2>1
  <2> QED
    BY <2>1, <2>2
<1>8. \A n \in 0 .. N - 1 : a[n + 1] = a[n] + Tokens(sorted[n + 1]) /\ a[n + 1] <= a[N]
  BY <1>3, <1>7
<1> QED
  BY <1>1, <1>8 DEF N

\* The first n records but the outdated ones.
Whole(sorted, n, kept) ==
  \A d : d \in ToSet(kept) <=> \E i \in 1 .. n : d = sorted[i] /\ ~Outdated(d)

\* One record more that fits.
LEMMA WholeStep ==
  ASSUME NEW sorted \in Seq(Record), NEW n \in Nat, n + 1 <= Len(sorted),
         NEW z \in FitState, Whole(sorted, n, z.kept),
         z.used + Tokens(sorted[n + 1]) <= Budget
  PROVE  /\ Whole(sorted, n + 1, Fit(z, sorted[n + 1]).kept)
         /\ Fit(z, sorted[n + 1]).used <= z.used + Tokens(sorted[n + 1])
<1> DEFINE e == sorted[n + 1]
<1>1. e \in Record /\ Tokens(e) \in Nat /\ z.used \in Nat /\ z.kept \in Seq(Record)
  <2>1. n + 1 \in 1 .. Len(sorted)
    BY LenProperties
  <2> QED
    BY <2>1, ElementOfSeq, TokensOK DEF FitState
<1> HIDE DEF e
<1>2. \A i : i \in 1 .. n + 1 <=> i \in 1 .. n \/ i = n + 1
  OBVIOUS
<1>3. CASE Outdated(e) /\ Fit(z, e) = z
  <2>1. Whole(sorted, n + 1, z.kept)
    BY <1>2, <1>3 DEF Whole, e
  <2> QED
    BY <1>1, <1>3, <2>1 DEF e
<1>4. CASE ~Outdated(e) /\ Fit(z, e) = Keep(z, e)
  <2>1. Fit(z, e).kept = Append(z.kept, e) /\ Fit(z, e).used = z.used + Tokens(e)
    BY <1>1, <1>4, KeepType
  <2>2. \A d : d \in ToSet(Append(z.kept, e)) <=> d \in ToSet(z.kept) \/ d = e
    BY <1>1, AppendOnly
  <2>3. Whole(sorted, n + 1, Append(z.kept, e))
    BY <1>2, <1>4, <2>2 DEF Whole, e
  <2> QED
    BY <1>1, <2>1, <2>3 DEF e
<1> QED
  BY <1>1, <1>3, <1>4, FitCases DEF e

\* When all records fit, all that are not outdated are kept as they are.
LEMMA WholeOK ==
  ASSUME NEW sorted \in Seq(Record), FoldLeft(Adding, 0, sorted) <= Budget
  PROVE  Whole(sorted, Len(sorted), Fitted(sorted))
<1> DEFINE b == [kept |-> <<>>, used |-> 0]
           H == [z \in FitState \X Record |-> Fit(z[1], z[2])]
           N == Len(sorted)
<1>1. PICK r \in [0 .. N -> FitState] :
        /\ r[0] = b /\ r[N] = FoldLeft(Fit, b, sorted)
        /\ \A n \in 0 .. N - 1 : r[n + 1] = H[<<r[n], sorted[n + 1]>>]
  <2> HIDE DEF b, H
  <2> QED
    BY FitRun DEF Run, b, H
<1>2. N \in Nat /\ \A i \in 1 .. N : sorted[i] \in Record
  BY LenProperties
<1>3. ASSUME NEW n \in 0 .. N - 1
      PROVE  r[n] \in FitState /\ r[n + 1] = Fit(r[n], sorted[n + 1])
  <2>1. r[n] \in FitState /\ sorted[n + 1] \in Record
    BY <1>2
  <2>2. r[n + 1] = H[<<r[n], sorted[n + 1]>>]
    BY <1>1
  <2> QED
    BY <2>1, <2>2
<1>0. PICK a \in [0 .. N -> Nat] :
        /\ a[0] = 0 /\ a[N] <= Budget
        /\ \A n \in 0 .. N - 1 : a[n + 1] = a[n] + Tokens(sorted[n + 1]) /\ a[n + 1] <= a[N]
  <2> HIDE DEF H
  <2>1. PICK a \in [0 .. N -> Nat] :
          /\ a[0] = 0 /\ a[N] = FoldLeft(Adding, 0, sorted)
          /\ \A n \in 0 .. N - 1 : a[n + 1] = a[n] + Tokens(sorted[n + 1]) /\ a[n + 1] <= a[N]
    BY SumGrows
  <2>2. a[N] <= Budget
    BY <2>1
  <2> QED
    BY <2>1, <2>2
<1> HIDE DEF H, N
<1> DEFINE Good(n) == Whole(sorted, n, r[n].kept) /\ r[n].used <= a[n]
           T == {n \in Nat : n <= N => Good(n)}
<1>4. 0 \in T
  <2>1. r[0].kept = <<>> /\ r[0].used = 0 /\ ToSet(<<>>) = {} /\ 1 .. 0 = {}
    BY <1>1 DEF ToSet
  <2>2. Whole(sorted, 0, r[0].kept)
    BY <2>1 DEF Whole
  <2> QED
    BY <1>0, <2>1, <2>2
<1>5. ASSUME NEW n \in T PROVE n + 1 \in T
  <2>1. n \in Nat /\ (n <= N => Good(n))
    OBVIOUS
  <2>2. ASSUME n + 1 <= N PROVE Good(n + 1)
    <3>1. n \in 0 .. N - 1 /\ Good(n) /\ n + 1 \in 1 .. N /\ n + 1 \in 0 .. N
      BY <1>2, <2>1, <2>2
    <3>2. r[n] \in FitState /\ r[n].used \in Nat /\ r[n + 1] = Fit(r[n], sorted[n + 1])
      BY <1>3, <3>1 DEF FitState
    <3>3. /\ a[n + 1] = a[n] + Tokens(sorted[n + 1]) /\ a[n + 1] <= a[N]
          /\ a[n] \in Nat /\ a[N] \in Nat /\ Tokens(sorted[n + 1]) \in Nat /\ Budget \in Nat
      BY <1>0, <1>2, <3>1, TokensOK, CompressorAssumption
    <3>4. r[n].used + Tokens(sorted[n + 1]) <= a[n + 1] /\ r[n].used + Tokens(sorted[n + 1]) <= Budget
      BY <1>0, <3>1, <3>2, <3>3
    <3>5. /\ Whole(sorted, n + 1, Fit(r[n], sorted[n + 1]).kept)
          /\ Fit(r[n], sorted[n + 1]).used <= r[n].used + Tokens(sorted[n + 1])
      BY <2>1, <2>2, <3>1, <3>2, <3>4, WholeStep DEF N
    <3>6. r[n + 1].used \in Nat
      BY <3>1 DEF FitState
    <3> QED
      BY <3>2, <3>3, <3>4, <3>5, <3>6
  <2> QED
    BY <2>1, <2>2
<1>6. T = Nat
  <2> HIDE DEF T
  <2>1. T \in SUBSET Nat
    BY DEF T
  <2> QED
    BY <1>4, <1>5, <2>1, Induct
<1>7. Whole(sorted, N, r[N].kept)
  <2> HIDE DEF T
  <2>1. N \in T
    BY <1>2, <1>6
  <2> QED
    BY <1>2, <2>1 DEF T
<1>8. Fitted(sorted) = r[N].kept
  BY <1>1 DEF Fitted
<1> QED
  BY <1>7, <1>8 DEF N

-----------------------------------------------------------------------------
(* What the merge leaves: each record bears the file of one it was merged  *)
(* from, says nothing but what those of its title said, and every sentence *)
(* is still said.  A sentence comes from a record of the same file or of   *)
(* one that no merged record bears.                                        *)

Bears(m, f) == \E j \in DOMAIN m : m[j].file = f

Root(d, m, e, b) ==
  /\ d.title = e.title /\ b \in Words(d)
  /\ d.file = e.file \/ ~Bears(m, d.file)

Stems(kept, n, m, e, b) == \E i \in 1 .. n : Root(kept[i], m, e, b)

SaidBy(m, t, b) == \E k \in DOMAIN m : m[k].title = t /\ b \in Words(m[k])

Fresh(kept, n) == \A i \in 1 .. n : ~Outdated(kept[i])

MergeInv(kept, n, m) ==
  /\ Apart(m)
  /\ \A k \in DOMAIN m : \E i \in 1 .. n : m[k].file = kept[i].file
  /\ \A k \in DOMAIN m : \A b \in Words(m[k]) : Stems(kept, n, m, m[k], b)
  /\ \A i \in 1 .. n : \A b \in Words(kept[i]) : SaidBy(m, kept[i].title, b)
  /\ Fresh(kept, n) => \A k \in DOMAIN m : ~Outdated(m[k])

\* One record more.
LEMMA MergeStep ==
  ASSUME NEW kept \in Seq(Record), Apart(kept), NEW n \in Nat, n + 1 <= Len(kept),
         NEW m \in Seq(Record), MergeInv(kept, n, m)
  PROVE  MergeInv(kept, n + 1, Merge(m, kept[n + 1]))
<1> DEFINE e == kept[n + 1]
           L == Len(m)
<1>1. /\ e \in Record /\ L \in Nat /\ DOMAIN m = 1 .. L
      /\ \A i : i \in 1 .. n + 1 <=> i \in 1 .. n \/ i = n + 1
      /\ \A k \in 1 .. L : m[k] \in Record
  <2>1. n + 1 \in 1 .. Len(kept)
    BY LenProperties
  <2> QED
    BY <2>1, ElementOfSeq, LenProperties
<1>2. \A i \in 1 .. n : kept[i].file # e.file
  <2>1. Len(kept) \in Nat /\ DOMAIN kept = 1 .. Len(kept)
    BY LenProperties
  <2>2. ASSUME NEW i \in 1 .. n PROVE i \in DOMAIN kept /\ n + 1 \in DOMAIN kept /\ i # n + 1
    BY <2>1
  <2> QED
    BY <2>2 DEF Apart
<1>3. ~Bears(m, e.file)
  BY <1>2 DEF MergeInv, Bears
<1>4. ASSUME Merge(m, e) = Append(m, e) PROVE MergeInv(kept, n + 1, Merge(m, e))
  <2> DEFINE new == Append(m, e)
  <2>1. /\ DOMAIN new = 1 .. L + 1 /\ new[L + 1] = e
        /\ \A i \in 1 .. L : new[i] = m[i]
        /\ \A k : k \in 1 .. L + 1 <=> k \in 1 .. L \/ k = L + 1
        /\ L + 1 \notin 1 .. L
    <3>1. Append(m, e) \in Seq(Record) /\ Len(Append(m, e)) = L + 1
          /\ Append(m, e)[L + 1] = e /\ \A i \in 1 .. L : Append(m, e)[i] = m[i]
      BY <1>1, AppendProperties
    <3> QED
      BY <1>1, <3>1, LenProperties
  <2> HIDE DEF new, e, L
  <2>2. \A f : Bears(new, f) <=> Bears(m, f) \/ f = e.file
    BY <1>1, <2>1 DEF Bears
  <2>3. Apart(new)
    BY <1>1, <1>3, <2>1 DEF MergeInv, Apart, Bears
  <2>4. \A k \in DOMAIN new : \E i \in 1 .. n + 1 : new[k].file = kept[i].file
    BY <1>1, <2>1 DEF MergeInv, e
  <2>5. ASSUME NEW k \in 1 .. L, NEW b \in Words(m[k]) PROVE Stems(kept, n + 1, new, m[k], b)
    <3>1. PICK i \in 1 .. n : Root(kept[i], m, m[k], b)
      BY <1>1 DEF MergeInv, Stems
    <3>2. i \in 1 .. n + 1 /\ Root(kept[i], new, m[k], b)
      BY <1>1, <1>2, <2>2, <3>1 DEF Root
    <3> QED
      BY <3>2 DEF Stems
  <2>6. ASSUME NEW b \in Words(e) PROVE Stems(kept, n + 1, new, e, b)
    BY <1>1 DEF Stems, Root, e
  <2>7. \A k \in DOMAIN new : \A b \in Words(new[k]) : Stems(kept, n + 1, new, new[k], b)
    BY <2>1, <2>5, <2>6
  <2>8. \A t, b : SaidBy(new, t, b) <=> SaidBy(m, t, b) \/ (t = e.title /\ b \in Words(e))
    BY <1>1, <2>1 DEF SaidBy
  <2>9. \A i \in 1 .. n + 1 : \A b \in Words(kept[i]) : SaidBy(new, kept[i].title, b)
    BY <1>1, <2>8 DEF MergeInv, e
  <2>10. Fresh(kept, n + 1) => \A k \in DOMAIN new : ~Outdated(new[k])
    <3>1. Fresh(kept, n + 1) => Fresh(kept, n) /\ ~Outdated(e)
      BY <1>1 DEF Fresh, e
    <3> QED
      BY <1>1, <2>1, <3>1 DEF MergeInv
  <2>11. MergeInv(kept, n + 1, new)
    BY <2>3, <2>4, <2>7, <2>9, <2>10 DEF MergeInv
  <2> QED
    BY <1>4, <2>11 DEF new
<1>5. ASSUME NEW at \in 1 .. Len(m), NEW r, m[at].title = e.title, Folded(r, m[at], e),
             Merge(m, e) = [m EXCEPT ![at] = r]
      PROVE  MergeInv(kept, n + 1, Merge(m, e))
  <2> DEFINE new == [m EXCEPT ![at] = r]
  <2>1. /\ DOMAIN new = 1 .. L /\ at \in 1 .. L /\ new[at] = r
        /\ \A k \in 1 .. L : k # at => new[k] = m[k]
    BY <1>1
  <2> HIDE DEF new, e, L
  <2>2. /\ r \in Record /\ r.title = m[at].title /\ r.title = e.title
        /\ r.file \in {m[at].file, e.file}
        /\ Words(r) = Words(m[at]) \cup Words(e)
        /\ ~Outdated(m[at]) /\ ~Outdated(e) => ~Outdated(r)
    BY <1>5 DEF Folded
  <2>3. \A j, k \in 1 .. L : m[j].file = m[k].file => j = k
    BY <1>1 DEF MergeInv, Apart
  <2>4. \A k \in 1 .. L : m[k].file # e.file
    BY <1>1, <1>3 DEF Bears
  <2>5. Apart(new)
    BY <2>1, <2>2, <2>3, <2>4 DEF Apart
  <2>6. \A f : Bears(new, f) => Bears(m, f) \/ f = e.file
    BY <1>1, <2>1, <2>2 DEF Bears
  <2>7. r.file = e.file => ~Bears(new, m[at].file)
    BY <2>1, <2>3, <2>4 DEF Bears
  <2>8. r.file = m[at].file => ~Bears(new, e.file)
    BY <2>1, <2>2, <2>4 DEF Bears
  <2>9. \A k \in DOMAIN new : \E i \in 1 .. n + 1 : new[k].file = kept[i].file
    BY <1>1, <2>1, <2>2 DEF MergeInv, e
  <2>10. ASSUME NEW k \in 1 .. L, NEW b \in Words(m[k])
         PROVE  \E i \in 1 .. n : Root(kept[i], new, m[k], b)
    <3>1. PICK i \in 1 .. n : Root(kept[i], m, m[k], b)
      BY <1>1 DEF MergeInv, Stems
    <3>2. Root(kept[i], new, m[k], b)
      BY <1>2, <2>6, <3>1 DEF Root
    <3> QED
      BY <3>2
  <2>11. ASSUME NEW k \in 1 .. L, k # at, NEW b \in Words(m[k])
         PROVE  Stems(kept, n + 1, new, m[k], b)
    BY <1>1, <2>10 DEF Stems
  <2>12. ASSUME NEW b \in Words(m[at]) PROVE Stems(kept, n + 1, new, r, b)
    <3>1. PICK i \in 1 .. n : Root(kept[i], new, m[at], b)
      BY <2>1, <2>10
    <3>2. i \in 1 .. n + 1 /\ Root(kept[i], new, r, b)
      BY <1>1, <2>2, <2>7, <3>1 DEF Root
    <3> QED
      BY <3>2 DEF Stems
  <2>13. ASSUME NEW b \in Words(e) PROVE Stems(kept, n + 1, new, r, b)
    BY <1>1, <2>2, <2>8 DEF Stems, Root, e
  <2>14. \A k \in DOMAIN new : \A b \in Words(new[k]) : Stems(kept, n + 1, new, new[k], b)
    <3>1. \A b \in Words(r) : Stems(kept, n + 1, new, r, b)
      BY <2>2, <2>12, <2>13
    <3> QED
      BY <2>1, <2>11, <3>1
  <2>15. ASSUME NEW t, NEW b, SaidBy(m, t, b) \/ (t = e.title /\ b \in Words(e))
         PROVE  SaidBy(new, t, b)
    <3>1. CASE t = r.title /\ b \in Words(r)
      BY <2>1, <3>1 DEF SaidBy
    <3>2. ASSUME NEW k \in 1 .. L, k # at, m[k].title = t, b \in Words(m[k]) PROVE SaidBy(new, t, b)
      BY <2>1, <3>2 DEF SaidBy
    <3> QED
      BY <1>1, <2>1, <2>2, <2>15, <3>1, <3>2 DEF SaidBy
  <2>16. \A i \in 1 .. n + 1 : \A b \in Words(kept[i]) : SaidBy(new, kept[i].title, b)
    BY <1>1, <2>15 DEF MergeInv, e
  <2>17. Fresh(kept, n + 1) => \A k \in DOMAIN new : ~Outdated(new[k])
    <3>1. Fresh(kept, n + 1) => Fresh(kept, n) /\ ~Outdated(e)
      BY <1>1 DEF Fresh, e
    <3> QED
      BY <1>1, <2>1, <2>2, <3>1 DEF MergeInv
  <2>18. MergeInv(kept, n + 1, new)
    BY <2>5, <2>9, <2>14, <2>16, <2>17 DEF MergeInv
  <2> QED
    BY <1>5, <2>18 DEF new
<1> HIDE DEF e, L
<1>6. MergeInv(kept, n + 1, Merge(m, e))
  BY <1>1, <1>4, <1>5, MergeCases
<1> QED
  BY <1>6 DEF e

\* The whole merge.
LEMMA MergedOK ==
  ASSUME NEW kept \in Seq(Record), Apart(kept)
  PROVE  Merged(kept) \in Seq(Record) /\ MergeInv(kept, Len(kept), Merged(kept))
<1> DEFINE H == [z \in Seq(Record) \X Record |-> Merge(z[1], z[2])]
           N == Len(kept)
<1>1. PICK r \in [0 .. N -> Seq(Record)] :
        /\ r[0] = <<>> /\ r[N] = FoldLeft(Merge, <<>>, kept)
        /\ \A n \in 0 .. N - 1 : r[n + 1] = H[<<r[n], kept[n + 1]>>]
  <2> HIDE DEF H
  <2> QED
    BY MergeRun DEF Run, H
<1>2. N \in Nat /\ \A i \in 1 .. N : kept[i] \in Record
  BY LenProperties
<1>3. ASSUME NEW n \in 0 .. N - 1
      PROVE  r[n] \in Seq(Record) /\ r[n + 1] = Merge(r[n], kept[n + 1])
  <2>1. r[n] \in Seq(Record) /\ kept[n + 1] \in Record
    BY <1>2
  <2>2. r[n + 1] = H[<<r[n], kept[n + 1]>>]
    BY <1>1
  <2> QED
    BY <2>1, <2>2
<1> HIDE DEF H, N
<1> DEFINE T == {n \in Nat : n <= N => MergeInv(kept, n, r[n])}
<1>4. 0 \in T
  <2>1. r[0] = <<>> /\ DOMAIN <<>> = {} /\ 1 .. 0 = {}
    BY <1>1
  <2>2. MergeInv(kept, 0, r[0])
    BY <2>1 DEF MergeInv, Apart
  <2> QED
    BY <2>2
<1>5. ASSUME NEW n \in T PROVE n + 1 \in T
  <2>1. n \in Nat /\ (n <= N => MergeInv(kept, n, r[n]))
    OBVIOUS
  <2>2. ASSUME n + 1 <= N PROVE MergeInv(kept, n + 1, r[n + 1])
    <3>1. n \in 0 .. N - 1 /\ MergeInv(kept, n, r[n])
      BY <1>2, <2>1, <2>2
    <3> QED
      BY <1>3, <2>1, <2>2, <3>1, MergeStep DEF N
  <2> QED
    BY <2>1, <2>2
<1>6. T = Nat
  <2> HIDE DEF T
  <2>1. T \in SUBSET Nat
    BY DEF T
  <2> QED
    BY <1>4, <1>5, <2>1, Induct
<1>7. MergeInv(kept, N, r[N])
  <2> HIDE DEF T
  <2>1. N \in T
    BY <1>2, <1>6
  <2> QED
    BY <1>2, <2>1 DEF T
<1>8. Merged(kept) = r[N] /\ r[N] \in Seq(Record)
  BY <1>1, <1>2 DEF Merged
<1> QED
  BY <1>7, <1>8 DEF N

-----------------------------------------------------------------------------
(* What a consolidation of the records S leaves, c.                        *)

Sound(S, c) ==
  /\ Apart(c)
  /\ \A k \in DOMAIN c : \E d \in S : c[k].file = d.file
  /\ \A k \in DOMAIN c : \A b \in Words(c[k]) :
       \E d \in S : ~Outdated(d) /\ Root(d, c, c[k], b)
  /\ Size(S) <= Budget =>
       /\ \A d \in S : ~Outdated(d) => \A b \in Words(d) : SaidBy(c, d.title, b)
       /\ \A k \in DOMAIN c : ~Outdated(c[k])

(* Whatever is to be consolidated: no two survivors share a file, each has *)
(* the file of a record and says only what records of its title said; and  *)
(* while the records fit the budget, every sentence of a record that is    *)
(* not outdated is said.                                                   *)
THEOREM CompressSound ==
  ASSUME NEW S \in SUBSET Record, IsFiniteSet(S), Distinct(S)
  PROVE  Compress(S) \in Seq(Record) /\ Sound(S, Compress(S))
<1> DEFINE sorted == Sorted(S)
           kept == Fitted(sorted)
           c == Merged(kept)
<1>1. Lists(sorted, S)
  BY SortedOK
<1> HIDE DEF sorted
<1>2. sorted \in Seq(Record) /\ Len(sorted) \in Nat /\ DOMAIN sorted = 1 .. Len(sorted)
      /\ \A d : d \in S <=> \E i \in 1 .. Len(sorted) : d = sorted[i]
  <2>1. sorted \in Seq(S) /\ ToSet(sorted) = S
    BY <1>1 DEF Lists
  <2>2. sorted \in Seq(Record)
    BY <2>1, SeqMonotonic
  <2>3. Len(sorted) \in Nat /\ DOMAIN sorted = 1 .. Len(sorted)
    BY <2>2, LenProperties
  <2> QED
    BY <2>1, <2>2, <2>3 DEF ToSet
<1>3. Apart(sorted)
  <2>1. ASSUME NEW i \in 1 .. Len(sorted), NEW j \in 1 .. Len(sorted),
               sorted[i].file = sorted[j].file
        PROVE  i = j
    <3>1. sorted[i] \in S /\ sorted[j] \in S
      BY <1>2
    <3>2. sorted[i] = sorted[j]
      BY <2>1, <3>1 DEF Distinct
    <3> QED
      BY <1>1, <1>2, <3>2 DEF Lists
  <2> QED
    BY <1>2, <2>1 DEF Apart
<1>4. kept \in Seq(Record) /\ FitInv(sorted, Len(sorted), kept)
  BY <1>2, <1>3, FittedOK
<1> HIDE DEF kept
<1>5. Apart(kept) /\ Len(kept) \in Nat /\ DOMAIN kept = 1 .. Len(kept)
      /\ \A k \in 1 .. Len(kept) : Kept(sorted, Len(sorted), kept[k])
  <2>1. Len(kept) \in Nat /\ DOMAIN kept = 1 .. Len(kept)
    BY <1>4, LenProperties
  <2> QED
    BY <1>4, <2>1 DEF FitInv
<1>6. c \in Seq(Record) /\ MergeInv(kept, Len(kept), c)
  BY <1>4, <1>5, MergedOK
<1>7. Compress(S) = c
  BY DEF Compress, sorted, kept
<1> HIDE DEF c
<1>8. ASSUME NEW i \in 1 .. Len(kept)
      PROVE  \E d \in S : ~Outdated(d) /\ Shortens(kept[i], d)
  BY <1>2, <1>5 DEF Kept
<1>9. ASSUME NEW k \in DOMAIN c PROVE \E d \in S : c[k].file = d.file
  <2>1. PICK i \in 1 .. Len(kept) : c[k].file = kept[i].file
    BY <1>6 DEF MergeInv
  <2> QED
    BY <1>8, <2>1 DEF Shortens
<1>10. ASSUME NEW k \in DOMAIN c, NEW b \in Words(c[k])
       PROVE  \E d \in S : ~Outdated(d) /\ Root(d, c, c[k], b)
  <2>1. PICK i \in 1 .. Len(kept) : Root(kept[i], c, c[k], b)
    BY <1>6 DEF MergeInv, Stems
  <2>2. PICK d \in S : ~Outdated(d) /\ Shortens(kept[i], d)
    BY <1>8
  <2>3. Root(d, c, c[k], b)
    BY <2>1, <2>2 DEF Root, Shortens
  <2> QED
    BY <2>2, <2>3
<1>11. ASSUME Size(S) <= Budget
       PROVE  /\ \A d \in S : ~Outdated(d) => \A b \in Words(d) : SaidBy(c, d.title, b)
              /\ \A k \in DOMAIN c : ~Outdated(c[k])
  <2>1. Whole(sorted, Len(sorted), kept)
    <3>1. FoldLeft(Adding, 0, sorted) <= Budget
      BY <1>11 DEF Size, sorted
    <3> QED
      BY <1>2, <3>1, WholeOK DEF kept
  <2>2. \A d : d \in ToSet(kept) <=> d \in S /\ ~Outdated(d)
    BY <1>2, <2>1 DEF Whole
  <2>3. \A d : d \in ToSet(kept) <=> \E i \in 1 .. Len(kept) : d = kept[i]
    BY <1>5 DEF ToSet
  <2>4. ASSUME NEW d \in S, ~Outdated(d), NEW b \in Words(d) PROVE SaidBy(c, d.title, b)
    <3>1. PICK i \in 1 .. Len(kept) : d = kept[i]
      BY <2>2, <2>3, <2>4
    <3> QED
      BY <1>6, <3>1 DEF MergeInv
  <2>5. Fresh(kept, Len(kept))
    BY <2>2, <2>3 DEF Fresh
  <2> QED
    BY <1>6, <2>4, <2>5 DEF MergeInv
<1>12. Apart(c)
  BY <1>6 DEF MergeInv
<1> QED
  BY <1>6, <1>7, <1>9, <1>10, <1>11, <1>12 DEF Sound

\* What is said, of the records a list leaves.
LEMMA SaidOf ==
  ASSUME NEW c
  PROVE  \A t, b : <<t, b>> \in Said(ToSet(c)) <=> SaidBy(c, t, b)
  BY DEF Said, SaidBy, ToSet

\* What is said, of the records of a set.
LEMMA SaidIn ==
  ASSUME NEW records
  PROVE  /\ \A t, b : <<t, b>> \in Said(records) <=> \E e \in records : e.title = t /\ b \in Words(e)
         /\ \A p \in Said(records) : p = <<p[1], p[2]>>
  BY DEF Said

(* Within the budget, a consolidation says what the records said that were *)
(* not outdated.                                                           *)
THEOREM CompressSaysTheSame ==
  ASSUME NEW S \in SUBSET Record, IsFiniteSet(S), Distinct(S), Size(S) <= Budget
  PROVE  Said(ToSet(Compress(S))) = Said({d \in S : ~Outdated(d)})
<1> DEFINE c == Compress(S)
           live == {d \in S : ~Outdated(d)}
<1>1. Sound(S, c)
  BY CompressSound
<1> HIDE DEF c
<1>2. ASSUME NEW t, NEW b, SaidBy(c, t, b) PROVE \E e \in live : e.title = t /\ b \in Words(e)
  <2>1. PICK k \in DOMAIN c : c[k].title = t /\ b \in Words(c[k])
    BY <1>2 DEF SaidBy
  <2> QED
    BY <1>1, <2>1 DEF Sound, Root
<1>3. ASSUME NEW e \in live, NEW b \in Words(e) PROVE SaidBy(c, e.title, b)
  BY <1>1 DEF Sound
<1> HIDE DEF live
<1>4. \A t, b : <<t, b>> \in Said(ToSet(c)) <=> <<t, b>> \in Said(live)
  <2>1. \A t, b : <<t, b>> \in Said(live) <=> \E e \in live : e.title = t /\ b \in Words(e)
    BY SaidIn
  <2>2. \A t, b : <<t, b>> \in Said(ToSet(c)) <=> SaidBy(c, t, b)
    BY SaidOf
  <2> QED
    BY <1>2, <1>3, <2>1, <2>2
<1>5. Said(ToSet(c)) = Said(live)
  <2>1. \A p \in Said(ToSet(c)) : p = <<p[1], p[2]>>
    BY SaidIn
  <2>2. \A p \in Said(live) : p = <<p[1], p[2]>>
    BY SaidIn
  <2> QED
    BY <1>4, <2>1, <2>2
<1> QED
  BY <1>5 DEF c, live

-----------------------------------------------------------------------------
(* What a consolidation needs to be cut off anywhere.  t is its target, en *)
(* the entry files, rows the rows, j the job.                              *)

Files(records) == {e.file : e \in records}
In(en, f) == en[f] \notin {Absent, Junk}

Goal(t) ==
  /\ t.left \subseteq Record /\ Files(t.left) \subseteq File /\ Distinct(t.left)
  /\ t.roomy => \A e \in t.left : ~Outdated(e)

Source(t, en, e, b, f) ==
  /\ In(en, f) /\ en[f].title = e.title /\ b \in Words(en[f])
  /\ t.roomy => ~Outdated(en[f])
  /\ f = e.file \/ f \notin Files(t.left)

\* Every sentence to be left is said: in the file of the survivor that is to say it, or in
\* one that no survivor is to replace.
Sourced(t, en) == \A e \in t.left : \A b \in Words(e) : \E f \in File : Source(t, en, e, b, f)

\* Nothing else is said, but by records that are outdated.
Covered(t, en) ==
  t.roomy => \A f \in File : In(en, f) =>
    Outdated(en[f]) \/ \A b \in Words(en[f]) : <<en[f].title, b>> \in Said(t.left)

Holds(t, en) == Sourced(t, en) /\ Covered(t, en)

\* The entry files as a rollback leaves them.
Old == [entry EXCEPT ![journal] = before]

TargetSound ==
  target # None =>
    /\ Goal(target) /\ Holds(target, entry)
    /\ pc \in Publishing => Holds(target, Old)

Stores(t, s) == \E e \in t.left : s = Put(e)
Drops(t, s) == \E f \in File \ Files(t.left) : s = Drop(f)
Pending(j, s) == \E i \in DOMAIN j : j[i] = s

\* The survivors come before the others.
Planned(t, j) ==
  /\ \A i \in DOMAIN j : Stores(t, j[i]) \/ Drops(t, j[i])
  /\ \A i, k \in DOMAIN j : i < k /\ Stores(t, j[k]) => Stores(t, j[i])

\* A survivor's title has a row, at the file of one of its title.
Rowed(t, rows, e) ==
  \E r \in rows, d \in t.left : r.name = Name(e) /\ r.file = d.file /\ Name(d) = Name(e)

\* What is not pending is done.
Done(t, en, rows, j) ==
  /\ \A e \in t.left : Pending(j, Put(e)) \/ (en[e.file] = e /\ Rowed(t, rows, e))
  /\ \A f \in File : In(en, f) => f \in Files(t.left) \/ Pending(j, Drop(f))

Consolidating == call.kind = "consolidate" /\ pc \in {"work", "journalled", "written", "indexed"}

JobSound ==
  Consolidating =>
    /\ target # None
    /\ Planned(target, job) /\ Done(target, entry, listing, job)
    /\ pc = "indexed" => \A e \in target.left : Head(job) = Put(e) => Rowed(target, listing, e)

Task == {Put(e) : e \in Record} \cup {Drop(f) : f \in File}

JobShape ==
  /\ job \in Seq(Task)
  /\ pc \in Publishing => job # <<>>
  /\ pc \in {"idle", "recover", "reconciled", "plan"} => job = <<>>
  /\ call.kind # "consolidate" /\ job # <<>> => target = None

FewFiles == IsFiniteSet({f \in File : Parses(f)})

KeptInv == TargetSound /\ JobSound /\ JobShape /\ FewFiles

-----------------------------------------------------------------------------
(* The files that hold the records; a plan.                                *)

\* The records on disk are finitely many, one per file.
LEMMA LoadedOK ==
  ASSUME MemoryTypeOK, FewFiles
  PROVE  /\ Loaded \subseteq Record /\ IsFiniteSet(Loaded) /\ Distinct(Loaded)
         /\ \A f \in File : In(entry, f) => entry[f] \in Loaded /\ entry[f].file = f
         /\ \A e \in Loaded : e.file \in File /\ In(entry, e.file) /\ entry[e.file] = e
<1> DEFINE F == {f \in File : Parses(f)}
           m == [f \in F |-> entry[f]]
<1>1. \A f \in F : entry[f] \in Record /\ entry[f].file = f
  BY DEF MemoryTypeOK, Parses
<1>2. Loaded = {entry[f] : f \in F}
  BY DEF Loaded
<1>3. m \in Surjection(F, Loaded)
  <2>1. m \in [F -> Loaded] /\ \A e \in Loaded : \E f \in F : m[f] = e
    BY <1>2
  <2> HIDE DEF F, m
  <2> QED
    BY <2>1 DEF Surjection
<1>4. IsFiniteSet(Loaded)
  <2>1. IsFiniteSet(F)
    BY DEF FewFiles
  <2> HIDE DEF F, m
  <2> QED
    BY <1>3, <2>1, FS_Surjection
<1>5. \A f \in File : In(entry, f) => f \in F
  BY DEF In, Parses
<1>6. \A f \in F : f \in File /\ In(entry, f)
  BY DEF In, Parses
<1> HIDE DEF F
<1>7. \A e \in Loaded : e \in Record /\ e.file \in F /\ entry[e.file] = e
  BY <1>1, <1>2
<1>8. Distinct(Loaded)
  BY <1>7 DEF Distinct
<1>9. \A f \in File : In(entry, f) => entry[f] \in Loaded /\ entry[f].file = f
  BY <1>1, <1>2, <1>5
<1> QED
  BY <1>4, <1>6, <1>7, <1>8, <1>9

\* Where a survivor's sentence is said before anything is written.
LEMMA PlanSound ==
  ASSUME MemoryTypeOK, FewFiles, NEW t,
         t = [left |-> ToSet(Compress(Loaded)), roomy |-> Size(Loaded) <= Budget]
  PROVE  Goal(t) /\ Holds(t, entry) /\ t # None
<1> DEFINE c == Compress(Loaded)
<1>1. /\ Loaded \subseteq Record /\ IsFiniteSet(Loaded) /\ Distinct(Loaded)
      /\ \A f \in File : In(entry, f) => entry[f] \in Loaded /\ entry[f].file = f
      /\ \A e \in Loaded : e.file \in File /\ In(entry, e.file) /\ entry[e.file] = e
  BY LoadedOK
<1>2. c \in Seq(Record) /\ Sound(Loaded, c)
  BY <1>1, CompressSound
<1>3. t.left = ToSet(c) /\ t.roomy = (Size(Loaded) <= Budget)
  OBVIOUS
<1> HIDE DEF c
<1>4. \A k \in DOMAIN c : c[k] \in Record /\ c[k] \in t.left
  BY <1>2, <1>3, LenProperties DEF ToSet
<1>5. \A e \in t.left : \E k \in DOMAIN c : e = c[k]
  BY <1>3 DEF ToSet
<1>6. Goal(t)
  <2>1. t.left \subseteq Record /\ Files(t.left) \subseteq File
    BY <1>1, <1>2, <1>4, <1>5 DEF Sound, Files
  <2>2. Distinct(t.left)
    BY <1>2, <1>5 DEF Sound, Apart, Distinct
  <2>3. t.roomy => \A e \in t.left : ~Outdated(e)
    BY <1>2, <1>3, <1>5 DEF Sound
  <2> QED
    BY <2>1, <2>2, <2>3 DEF Goal
<1>7. \A f : Bears(c, f) <=> f \in Files(t.left)
  BY <1>4, <1>5 DEF Bears, Files
<1>8. ASSUME NEW e \in t.left, NEW b \in Words(e) PROVE \E f \in File : Source(t, entry, e, b, f)
  <2>1. PICK k \in DOMAIN c : e = c[k]
    BY <1>5
  <2>2. PICK d \in Loaded : ~Outdated(d) /\ Root(d, c, e, b)
    BY <1>2, <2>1 DEF Sound
  <2>3. Source(t, entry, e, b, d.file)
    BY <1>1, <1>7, <2>2 DEF Source, Root
  <2> QED
    BY <1>1, <2>3
<1>9. ASSUME t.roomy, NEW f \in File, In(entry, f), ~Outdated(entry[f]), NEW b \in Words(entry[f])
      PROVE  <<entry[f].title, b>> \in Said(t.left)
  <2>1. SaidBy(c, entry[f].title, b)
    BY <1>1, <1>2, <1>3, <1>9 DEF Sound
  <2> QED
    BY <1>3, <2>1, SaidOf
<1>10. Holds(t, entry)
  BY <1>8, <1>9 DEF Holds, Sourced, Covered
<1>11. t \in [left : SUBSET Record, roomy : BOOLEAN]
  <2>1. t.left \in SUBSET Record
    BY <1>6 DEF Goal
  <2>2. (Size(Loaded) <= Budget) \in BOOLEAN
    OBVIOUS
  <2> QED
    BY <1>3, <2>1
<1> QED
  BY <1>6, <1>10, <1>11, MemoryAssumption

-----------------------------------------------------------------------------
(* What one write does to the sentences: a survivor replaces its file, a   *)
(* file no survivor has goes once all survivors are stored.                *)

EntryFiles == [File -> Record \cup {Absent, Junk}]

\* Storing a survivor loses no sentence.
LEMMA StoreKeeps ==
  ASSUME NEW t, Goal(t), NEW en \in EntryFiles, Holds(t, en), NEW e \in t.left
  PROVE  Holds(t, [en EXCEPT ![e.file] = e])
<1> DEFINE new == [en EXCEPT ![e.file] = e]
<1>1. e \in Record /\ e.file \in File /\ e.file \in Files(t.left) /\ e # Absent /\ e # Junk
  BY RecordIsFile DEF Goal, Files
<1>2. new[e.file] = e /\ In(new, e.file) /\ \A f \in File : f # e.file => new[f] = en[f]
  BY <1>1 DEF EntryFiles, In
<1> HIDE DEF new
<1>3. ASSUME NEW d \in t.left, NEW b \in Words(d) PROVE \E f \in File : Source(t, new, d, b, f)
  <2>1. CASE d = e
    <3>1. Source(t, new, d, b, e.file)
      BY <1>2, <1>3, <2>1 DEF Source, Goal
    <3> QED
      BY <1>1, <3>1
  <2>2. CASE d # e
    <3>1. PICK f \in File : Source(t, en, d, b, f)
      BY DEF Holds, Sourced
    <3>2. d.file # e.file
      BY <2>2 DEF Goal, Distinct
    <3>3. f # e.file
      BY <1>1, <3>1, <3>2 DEF Source
    <3>4. Source(t, new, d, b, f)
      BY <1>2, <3>1, <3>3 DEF Source, In
    <3> QED
      BY <3>4
  <2> QED
    BY <2>1, <2>2
<1>4. ASSUME t.roomy, NEW f \in File, In(new, f), ~Outdated(new[f]), NEW b \in Words(new[f])
      PROVE  <<new[f].title, b>> \in Said(t.left)
  <2>1. CASE f = e.file
    BY <1>2, <1>4, <2>1, SaidIn
  <2>2. CASE f # e.file
    <3>1. new[f] = en[f] /\ In(en, f)
      BY <1>2, <1>4, <2>2 DEF In
    <3> QED
      BY <1>4, <3>1 DEF Holds, Covered
  <2> QED
    BY <2>1, <2>2
<1>5. Holds(t, new)
  BY <1>3, <1>4 DEF Holds, Sourced, Covered
<1> QED
  BY <1>5 DEF new

\* Nor does deleting a file of none, once all survivors are stored.
LEMMA DropKeeps ==
  ASSUME NEW t, Goal(t), NEW en \in EntryFiles, Holds(t, en), NEW g \in File \ Files(t.left),
         \A e \in t.left : en[e.file] = e
  PROVE  Holds(t, [en EXCEPT ![g] = Absent])
<1> DEFINE new == [en EXCEPT ![g] = Absent]
<1>1. new[g] = Absent /\ ~In(new, g) /\ \A f \in File : f # g => new[f] = en[f]
  BY DEF EntryFiles, In
<1> HIDE DEF new
<1>2. ASSUME NEW d \in t.left, NEW b \in Words(d) PROVE Source(t, new, d, b, d.file)
  <2>1. d \in Record /\ d.file \in File /\ d.file # g /\ d # Absent /\ d # Junk
    BY RecordIsFile DEF Goal, Files
  <2>2. new[d.file] = d
    BY <1>1, <2>1
  <2> QED
    BY <1>2, <2>1, <2>2 DEF Source, In, Goal
<1>3. ASSUME t.roomy, NEW f \in File, In(new, f), ~Outdated(new[f]), NEW b \in Words(new[f])
      PROVE  <<new[f].title, b>> \in Said(t.left)
  <2>1. new[f] = en[f] /\ In(en, f)
    BY <1>1, <1>3 DEF In
  <2> QED
    BY <1>3, <2>1 DEF Holds, Covered
<1>4. Sourced(t, new)
  BY <1>2 DEF Sourced, Goal, Files
<1>5. Holds(t, new)
  BY <1>3, <1>4 DEF Holds, Covered
<1> QED
  BY <1>5 DEF new

\* Stores and deletions differ, and show what they are of.
LEMMA PutNotDrop ==
  \A e, f : /\ Put(e) # Drop(f) /\ Put(e).value = e /\ Put(e).file = e.file
            /\ Drop(f).file = f /\ Drop(f).value = Absent
            /\ Put(e).kind = "store" /\ Drop(f).kind = "delete"
  BY DEF Put, Drop

\* j is a, of length p, then b, of length d.
Joins(j, a, b, p, d) ==
  /\ DOMAIN j = 1 .. p + d
  /\ \A i \in 1 .. p : i \in 1 .. p + d /\ j[i] = a[i]
  /\ \A k \in 1 .. d : p + k \in 1 .. p + d /\ j[p + k] = b[k]
  /\ \A i \in 1 .. p + d : i \in 1 .. p \/ \E k \in 1 .. d : i = p + k
  /\ \A i \in 1 .. p + d : \A k \in 1 .. p : i < k => i \in 1 .. p

\* Two sequences, one behind the other.
LEMMA Halves ==
  ASSUME NEW S, NEW a \in Seq(S), NEW b \in Seq(S), NEW p \in Nat, NEW d \in Nat,
         Len(a) = p, Len(b) = d, NEW j, j = a \o b
  PROVE  j \in Seq(S) /\ Joins(j, a, b, p, d)
<1>1. /\ j \in Seq(S) /\ Len(j) = p + d
      /\ \A i \in 1 .. p + d : j[i] = IF i <= p THEN a[i] ELSE b[i - p]
  BY ConcatProperties
<1>2. DOMAIN j = 1 .. p + d
  BY <1>1, LenProperties
<1>3. ASSUME NEW i \in 1 .. p PROVE i \in 1 .. p + d /\ j[i] = a[i]
  <2>1. i \in 1 .. p + d /\ i <= p
    OBVIOUS
  <2> QED
    BY <1>1, <2>1
<1>4. ASSUME NEW k \in 1 .. d PROVE p + k \in 1 .. p + d /\ j[p + k] = b[k]
  <2>1. p + k \in 1 .. p + d /\ ~ (p + k <= p) /\ (p + k) - p = k
    OBVIOUS
  <2> QED
    BY <1>1, <2>1
<1>5. ASSUME NEW i \in 1 .. p + d, i \notin 1 .. p PROVE i - p \in 1 .. d /\ i = p + (i - p)
  BY <1>5
<1>6. \A i \in 1 .. p + d : \A k \in 1 .. p : i < k => i \in 1 .. p
  OBVIOUS
<1> QED
  BY <1>1, <1>2, <1>3, <1>4, <1>5, <1>6 DEF Joins

\* The job of a consolidation stores every survivor, then deletes every other file.
LEMMA PlanJob ==
  ASSUME MemoryTypeOK, FewFiles, NEW t, t.left = ToSet(Compress(Loaded)), Goal(t),
         NEW c, c = Compress(Loaded),
         NEW gone, gone = Ordered(Files(Loaded) \ Files(t.left), <),
         NEW j, j = PutsFirst([i \in DOMAIN c |-> Put(c[i])], [i \in DOMAIN gone |-> Drop(gone[i])])
  PROVE  j \in Seq(Task) /\ Planned(t, j) /\ Done(t, entry, listing, j)
<1> DEFINE G == Files(Loaded) \ Files(t.left)
           puts == [i \in DOMAIN c |-> Put(c[i])]
           drops == [i \in DOMAIN gone |-> Drop(gone[i])]
           P == Len(c)
           D == Len(gone)
<1>1. /\ Loaded \subseteq Record /\ IsFiniteSet(Loaded) /\ Distinct(Loaded)
      /\ \A f \in File : In(entry, f) => entry[f] \in Loaded /\ entry[f].file = f
      /\ \A e \in Loaded : e.file \in File
  BY LoadedOK
<1>2. c \in Seq(Record) /\ P \in Nat /\ DOMAIN c = 1 .. P
      /\ \A k \in 1 .. P : c[k] \in Record /\ c[k] \in t.left
  <2>1. c \in Seq(Record)
    BY <1>1, CompressSound
  <2> QED
    BY <2>1, LenProperties DEF ToSet
<1>3. \A e \in t.left : \E k \in 1 .. P : c[k] = e
  BY <1>2 DEF ToSet
<1>4. IsFiniteSet(G) /\ G \in SUBSET Nat /\ G \subseteq File \ Files(t.left)
  <2> DEFINE m == [e \in Loaded |-> e.file]
  <2>1. m \in Surjection(Loaded, Files(Loaded))
    <3>1. m \in [Loaded -> Files(Loaded)] /\ \A f \in Files(Loaded) : \E e \in Loaded : m[e] = f
      BY DEF Files
    <3> HIDE DEF m
    <3> QED
      BY <3>1 DEF Surjection
  <2>2. IsFiniteSet(Files(Loaded))
    <3> HIDE DEF m
    <3> QED
      BY <1>1, <2>1, FS_Surjection
  <2>3. G \in SUBSET Files(Loaded) /\ Files(Loaded) \subseteq File
    BY <1>1 DEF Files
  <2>4. IsFiniteSet(G)
    <3> HIDE DEF G
    <3> QED
      BY <2>2, <2>3, FS_Subset
  <2> QED
    BY <2>3, <2>4, MemoryAssumption
<1>5. Lists(gone, G)
  <2> HIDE DEF G
  <2>1. Lists(Ordered(G, <), G)
    BY <1>4, NumbersOK
  <2> QED
    BY <2>1 DEF G
<1>6. gone \in Seq(G) /\ D \in Nat /\ DOMAIN gone = 1 .. D /\ (\A k \in 1 .. D : gone[k] \in G)
      /\ \A f \in G : \E k \in 1 .. D : gone[k] = f
  <2> HIDE DEF G
  <2>1. gone \in Seq(G) /\ ToSet(gone) = G
    BY <1>5 DEF Lists
  <2>2. D \in Nat /\ DOMAIN gone = 1 .. D
    BY <2>1, LenProperties
  <2> QED
    BY <2>1, <2>2 DEF ToSet
<1> HIDE DEF G, P, D
<1>7. puts \in Seq(Task) /\ Len(puts) = P /\ \A i \in 1 .. P : puts[i] = Put(c[i])
  <2>1. puts \in [1 .. P -> Task] /\ \A i \in 1 .. P : puts[i] = Put(c[i])
    BY <1>2 DEF Task
  <2> HIDE DEF puts
  <2> QED
    BY <1>2, <2>1, IsSeq
<1>8. drops \in Seq(Task) /\ Len(drops) = D /\ \A i \in 1 .. D : drops[i] = Drop(gone[i])
  <2>1. drops \in [1 .. D -> Task] /\ \A i \in 1 .. D : drops[i] = Drop(gone[i])
    BY <1>4, <1>6 DEF Task
  <2> HIDE DEF drops
  <2> QED
    BY <1>6, <2>1, IsSeq
<1>9. j = puts \o drops
  BY DEF PutsFirst
<1> HIDE DEF puts, drops
<1>10. /\ j \in Seq(Task) /\ DOMAIN j = 1 .. P + D
       /\ \A i \in 1 .. P : i \in 1 .. P + D /\ j[i] = puts[i]
       /\ \A k \in 1 .. D : P + k \in 1 .. P + D /\ j[P + k] = drops[k]
       /\ \A i \in 1 .. P + D : i \in 1 .. P \/ \E k \in 1 .. D : i = P + k
       /\ \A i \in 1 .. P + D : \A k \in 1 .. P : i < k => i \in 1 .. P
  <2>1. P \in Nat /\ D \in Nat
    BY <1>2, <1>6
  <2>2. j \in Seq(Task) /\ Joins(j, puts, drops, P, D)
    BY <1>7, <1>8, <1>9, <2>1, Halves
  <2> QED
    BY <2>2 DEF Joins
<1>15. ASSUME NEW i \in 1 .. P PROVE Stores(t, j[i])
  <2>1. j[i] = Put(c[i]) /\ c[i] \in t.left
    BY <1>2, <1>7, <1>10
  <2> QED
    BY <2>1 DEF Stores
<1>16. ASSUME NEW k \in 1 .. D PROVE Drops(t, j[P + k]) /\ ~Stores(t, j[P + k])
  <2>1. j[P + k] = Drop(gone[k]) /\ gone[k] \in File \ Files(t.left)
    BY <1>4, <1>6, <1>8, <1>10
  <2> QED
    BY <2>1, PutNotDrop DEF Drops, Stores
<1>18. Planned(t, j)
  <2>1. \A i \in DOMAIN j : Stores(t, j[i]) \/ Drops(t, j[i])
    <3>1. ASSUME NEW i \in 1 .. P + D PROVE Stores(t, j[i]) \/ Drops(t, j[i])
      <4>1. CASE i \in 1 .. P
        BY <1>15, <4>1
      <4>2. ASSUME NEW k \in 1 .. D, i = P + k PROVE Drops(t, j[i])
        BY <1>16, <4>2
      <4> QED
        BY <1>10, <4>1, <4>2
    <3> QED
      BY <1>10, <3>1
  <2>2. ASSUME NEW i \in DOMAIN j, NEW k \in DOMAIN j, i < k, Stores(t, j[k]) PROVE Stores(t, j[i])
    <3>1. k \in 1 .. P
      BY <1>10, <1>16, <2>2
    <3>2. i \in 1 .. P
      BY <1>10, <2>2, <3>1
    <3> QED
      BY <1>15, <3>2
  <2> QED
    BY <2>1, <2>2 DEF Planned
<1>19. ASSUME NEW e \in t.left PROVE Pending(j, Put(e))
  <2>1. PICK k \in 1 .. P : c[k] = e
    BY <1>3
  <2>2. k \in DOMAIN j /\ j[k] = Put(e)
    BY <1>7, <1>10, <2>1
  <2> QED
    BY <2>2 DEF Pending
<1>20. ASSUME NEW f \in File, In(entry, f), f \notin Files(t.left) PROVE Pending(j, Drop(f))
  <2>1. f \in G
    BY <1>1, <1>20 DEF G, Files
  <2>2. PICK k \in 1 .. D : gone[k] = f
    BY <1>6, <2>1
  <2>3. P + k \in DOMAIN j /\ j[P + k] = Drop(f)
    BY <1>8, <1>10, <2>2
  <2> QED
    BY <2>3 DEF Pending
<1>21. Done(t, entry, listing, j)
  BY <1>19, <1>20 DEF Done
<1> QED
  BY <1>10, <1>18, <1>21

-----------------------------------------------------------------------------
(* The invariant is inductive.                                             *)

\* Nothing is under way at first.
LEMMA InitKeptInv == MemoryInit => KeptInv
<1> SUFFICES ASSUME MemoryInit PROVE KeptInv
  OBVIOUS
<1>1. job = <<>> /\ pc = "idle" /\ target = None /\ \A f \in File : ~Parses(f)
  BY MemoryAssumption DEF MemoryInit, Parses
<1>2. {f \in File : Parses(f)} = {}
  BY <1>1
<1>3. FewFiles
  BY <1>2, FS_EmptySet DEF FewFiles
<1>4. JobShape
  BY <1>1, EmptySeq DEF JobShape, Publishing
<1> QED
  BY <1>1, <1>3, <1>4 DEF KeptInv, TargetSound, JobSound, Consolidating

\* Steps between jobs, or that end one: the files and the target stay.
LEMMA AsideKeptInv ==
  ASSUME KeptInv, UNCHANGED <<entry, target>>, pc' \in {"idle", "recover", "reconciled", "plan"},
         job' = <<>>
  PROVE  KeptInv'
<1>1. TargetSound'
  BY DEF KeptInv, TargetSound, Publishing, Holds, Sourced, Covered, Source, In, Goal, Files
<1>2. JobSound'
  BY DEF JobSound, Consolidating
<1>3. JobShape'
  BY EmptySeq DEF JobShape, Publishing
<1>4. FewFiles'
  BY DEF KeptInv, FewFiles, Parses
<1> QED
  BY <1>1, <1>2, <1>3, <1>4 DEF KeptInv

\* A job of one file that is not a consolidation.
LEMMA OtherPlan ==
  ASSUME KeptInv, pc = "plan", pc' = "work", UNCHANGED <<disk, call>>, call.kind # "consolidate",
         target' = target \/ target' = None, job' \in Seq(Task), job' # <<>> => target' = None
  PROVE  KeptInv'
<1>1. TargetSound'
  BY DEF KeptInv, TargetSound, Publishing, Holds, Sourced, Covered, Source, In, Goal, Files, disk
<1>2. JobSound'
  BY DEF JobSound, Consolidating
<1>3. JobShape'
  BY DEF JobShape, Publishing
<1>4. FewFiles'
  BY DEF KeptInv, FewFiles, Parses, disk
<1> QED
  BY <1>1, <1>2, <1>3, <1>4 DEF KeptInv

\* A job is planned.
LEMMA PlanKeptInv ==
  ASSUME MInv, KeptInv, Plan
  PROVE  KeptInv'
<1>0. /\ pc = "plan" /\ pc' = "work" /\ UNCHANGED <<disk, call>> /\ MemoryTypeOK /\ job = <<>>
      /\ entry' = entry /\ listing' = listing
  BY DEF Plan, MInv, KeptInv, JobShape, disk
<1>1. CASE PlanOpen
  <2>1. call.kind # "consolidate" /\ job' = <<>> /\ target' = target
    BY <1>0, <1>1 DEF PlanOpen
  <2> QED
    BY <1>0, <2>1, OtherPlan, EmptySeq
<1>2. CASE PlanStore
  <2>1. call.kind = "store" /\ call.value \in Record /\ job' = <<Put(call.value)>> /\ target' = None
    BY <1>0, <1>2, MemoryAssumption DEF PlanStore, MemoryTypeOK, Call
  <2>2. job' \in Seq(Task)
    BY <2>1, One DEF Task
  <2> QED
    BY <1>0, <2>1, <2>2, OtherPlan
<1>3. CASE PlanDelete
  <2>1. call.kind \in {"delete", "probe"} /\ call.file \in File
    BY <1>0, <1>3 DEF PlanDelete, MemoryTypeOK, Call
  <2>2. \/ job' = <<Drop(call.file)>> /\ target' = None
        \/ job' = <<>> /\ target' = target
    BY <1>3 DEF PlanDelete
  <2>3. job' \in Seq(Task)
    <3>1. Drop(call.file) \in Task
      BY <2>1 DEF Task
    <3>2. <<Drop(call.file)>> \in Seq(Task) /\ <<>> \in Seq(Task)
      BY <3>1, One, EmptySeq
    <3> QED
      BY <2>2, <3>2
  <2> QED
    BY <1>0, <2>1, <2>2, <2>3, OtherPlan
<1>4. CASE PlanConsolidate
  <2>1. /\ call.kind = "consolidate"
        /\ target' = [left |-> ToSet(Compress(Loaded)), roomy |-> Size(Loaded) <= Budget]
    BY <1>4 DEF PlanConsolidate
  <2>2. PICK t : t = target'
    OBVIOUS
  <2>3. FewFiles /\ MemoryTypeOK
    BY <1>0 DEF KeptInv
  <2>4. Goal(t) /\ Holds(t, entry) /\ t # None /\ t.left = ToSet(Compress(Loaded))
    BY <2>1, <2>2, <2>3, PlanSound
  <2>5. PICK c : c = Compress(Loaded)
    OBVIOUS
  <2>6. {c[i].file : i \in DOMAIN c} = Files(t.left)
    BY <2>4, <2>5 DEF Files, ToSet
  <2>7. PICK gone : gone = Ordered(Files(Loaded) \ Files(t.left), <)
    OBVIOUS
  <2>8. job' = PutsFirst([i \in DOMAIN c |-> Put(c[i])], [i \in DOMAIN gone |-> Drop(gone[i])])
    BY <1>4, <2>5, <2>6, <2>7 DEF PlanConsolidate, Files
  <2>9. PICK j : j = job'
    OBVIOUS
  <2>10. j \in Seq(Task) /\ Planned(t, j) /\ Done(t, entry, listing, j)
    BY <2>3, <2>4, <2>5, <2>7, <2>8, <2>9, PlanJob
  <2>11. TargetSound'
    BY <1>0, <2>2, <2>4 DEF TargetSound, Publishing
  <2>12. JobSound'
    BY <1>0, <2>2, <2>4, <2>9, <2>10 DEF JobSound
  <2>13. JobShape'
    BY <1>0, <2>1, <2>9, <2>10 DEF JobShape, Publishing
  <2>14. FewFiles'
    BY <1>0 DEF KeptInv, FewFiles, Parses
  <2> QED
    BY <2>11, <2>12, <2>13, <2>14 DEF KeptInv
<1> QED
  BY <1>1, <1>2, <1>3, <1>4 DEF Plan
-----------------------------------------------------------------------------
(* The job, step by step.                                                  *)

\* The head of a job is done first; the tail is planned in the same way.
LEMMA FirstAndRest ==
  ASSUME NEW j \in Seq(Task), j # <<>>, NEW t
  PROVE  /\ Head(j) \in Task /\ Tail(j) \in Seq(Task) /\ Pending(j, Head(j))
         /\ \A s : Pending(j, s) => s = Head(j) \/ Pending(Tail(j), s)
         /\ Planned(t, j) => /\ Planned(t, Tail(j))
                             /\ Stores(t, Head(j)) \/ Drops(t, Head(j))
                             /\ Drops(t, Head(j)) => \A e \in t.left : ~Pending(j, Put(e))
<1> DEFINE r == Tail(j)
<1>1. /\ Head(j) \in Task /\ r \in Seq(Task) /\ Len(r) = Len(j) - 1
      /\ \A i \in 1 .. Len(r) : r[i] = j[i + 1]
      /\ Len(j) \in Nat /\ Len(j) # 0 /\ DOMAIN j = 1 .. Len(j) /\ DOMAIN r = 1 .. Len(r)
  BY HeadTailProperties, EmptySeq, LenProperties
<1>2. Head(j) = j[1]
  OBVIOUS
<1> HIDE DEF r
<1>3. PICK n \in Nat : n = Len(r)
  BY <1>1, LenProperties
<1>4. DOMAIN j = 1 .. n + 1 /\ DOMAIN r = 1 .. n /\ \A i \in 1 .. n : r[i] = j[i + 1]
  <2>1. Len(j) = n + 1
    BY <1>1, <1>3
  <2> QED
    BY <1>1, <1>3, <2>1
<1>5. 1 \in DOMAIN j /\ \A i \in 1 .. n : i + 1 \in DOMAIN j
  BY <1>4
<1>6. ASSUME NEW s, Pending(j, s), s # Head(j) PROVE Pending(r, s)
  <2>1. PICK i \in 1 .. n + 1 : j[i] = s
    BY <1>4, <1>6 DEF Pending
  <2>2. i # 1
    BY <1>2, <1>6, <2>1
  <2>3. i - 1 \in 1 .. n /\ (i - 1) + 1 = i
    BY <2>2
  <2>4. i - 1 \in DOMAIN r /\ r[i - 1] = s
    BY <1>4, <2>1, <2>3
  <2> QED
    BY <2>4 DEF Pending
<1>7. ASSUME Planned(t, j) PROVE Planned(t, r)
  <2>1. \A i \in 1 .. n : Stores(t, r[i]) \/ Drops(t, r[i])
    BY <1>4, <1>5, <1>7 DEF Planned
  <2>2. ASSUME NEW i \in 1 .. n, NEW k \in 1 .. n, i < k, Stores(t, r[k]) PROVE Stores(t, r[i])
    <3>1. i + 1 < k + 1
      BY <2>2
    <3>2. r[i] = j[i + 1] /\ r[k] = j[k + 1] /\ i + 1 \in DOMAIN j /\ k + 1 \in DOMAIN j
      BY <1>4, <1>5
    <3> QED
      BY <1>7, <2>2, <3>1, <3>2 DEF Planned
  <2> QED
    BY <1>4, <2>1, <2>2 DEF Planned
<1>8. ASSUME Planned(t, j) PROVE Stores(t, Head(j)) \/ Drops(t, Head(j))
  BY <1>2, <1>5, <1>8 DEF Planned
<1>9. ASSUME Planned(t, j), Drops(t, Head(j)), NEW e \in t.left, Pending(j, Put(e)) PROVE FALSE
  <2>1. PICK i \in 1 .. n + 1 : j[i] = Put(e)
    BY <1>4, <1>9 DEF Pending
  <2>2. Stores(t, j[i]) /\ ~Stores(t, Head(j))
    BY <1>9, <2>1, PutNotDrop DEF Stores, Drops
  <2>3. i # 1
    BY <1>2, <2>2
  <2>4. 1 < i
    BY <2>3
  <2> QED
    BY <1>2, <1>4, <1>5, <1>9, <2>2, <2>4 DEF Planned
<1>10. Pending(j, Head(j))
  BY <1>2, <1>5 DEF Pending
<1> QED
  BY <1>1, <1>6, <1>7, <1>8, <1>9, <1>10 DEF r

(* What is being published is a survivor or a file no survivor has, and    *)
(* then every survivor is on disk.                                         *)
LEMMA HeadIs ==
  ASSUME MInv, KeptInv, Consolidating, pc # "work"
  PROVE  /\ target # None /\ Goal(target) /\ journal \in File /\ journal = Head(job).file
         /\ \/ \E e \in target.left : Head(job) = Put(e) /\ journal = e.file
            \/ /\ Head(job) = Drop(journal) /\ journal \notin Files(target.left)
               /\ \A e \in target.left : entry[e.file] = e
<1>1. /\ pc \in Publishing /\ job # <<>> /\ job \in Seq(Task) /\ target # None
      /\ Goal(target) /\ Planned(target, job) /\ Done(target, entry, listing, job)
  BY DEF KeptInv, JobShape, JobSound, TargetSound, Consolidating, Publishing
<1>2. journal \in File /\ journal = Head(job).file
  BY <1>1 DEF MInv, MemoryTypeOK, Step
<1>3. CASE Stores(target, Head(job))
  BY <1>1, <1>2, <1>3, PutNotDrop DEF Stores
<1>4. CASE Drops(target, Head(job))
  <2>1. PICK f \in File \ Files(target.left) : Head(job) = Drop(f)
    BY <1>4 DEF Drops
  <2>2. f = journal
    BY <1>2, <2>1, PutNotDrop
  <2>3. \A e \in target.left : ~Pending(job, Put(e))
    BY <1>1, <1>4, FirstAndRest
  <2> QED
    BY <1>1, <1>2, <2>1, <2>2, <2>3 DEF Done
<1> QED
  BY <1>1, <1>2, <1>3, <1>4, FirstAndRest

\* The journal names the file; the payload saved is its own.
LEMMA WriteJournalKeptInv ==
  ASSUME MInv, KeptInv, WriteJournal
  PROVE  KeptInv'
<1>1. /\ UNCHANGED <<entry, listing, call, job, target>> /\ pc = "work" /\ pc' = "journalled"
      /\ journal' = Head(job).file /\ before' = entry[Head(job).file] /\ job # <<>>
      /\ Head(job).file \in File
  BY DEF WriteJournal, Publishable, Step
<1>2. Old' = entry
  BY <1>1 DEF Old, MInv, MemoryTypeOK
<1>3. TargetSound'
  <2>1. PICK o : o = Old'
    OBVIOUS
  <2>2. target # None => Goal(target) /\ Holds(target, entry) /\ Holds(target, o)
    BY <1>2, <2>1 DEF KeptInv, TargetSound
  <2>3. target' # None => Goal(target') /\ Holds(target', entry') /\ Holds(target', o)
    BY <1>1, <2>2
  <2> QED
    BY <2>1, <2>3 DEF TargetSound
<1>4. JobSound'
  BY <1>1 DEF KeptInv, JobSound, Consolidating, Done, Rowed, In, Files
<1>5. JobShape'
  BY <1>1 DEF KeptInv, JobShape, Publishing
<1>6. FewFiles'
  BY <1>1 DEF KeptInv, FewFiles, Parses
<1> QED
  BY <1>3, <1>4, <1>5, <1>6 DEF KeptInv

\* One more file at most.
LEMMA OneMoreFile ==
  ASSUME FewFiles, MemoryTypeOK, NEW f \in File, NEW v, entry' = [entry EXCEPT ![f] = v]
  PROVE  FewFiles'
<1> DEFINE A == {g \in File : Parses(g)}
           B == {g \in File : Parses(g)'}
<1>1. \A g \in File : g # f => entry'[g] = entry[g]
  BY DEF MemoryTypeOK
<1>2. B \in SUBSET (A \cup {f})
  BY <1>1 DEF Parses
<1>3. IsFiniteSet(A)
  BY DEF FewFiles
<1>4. IsFiniteSet(B)
  <2> HIDE DEF A, B
  <2>1. IsFiniteSet(A \cup {f})
    BY <1>3, FS_AddElement
  <2> QED
    BY <1>2, <2>1, FS_Subset
<1> QED
  BY <1>4 DEF FewFiles

\* The file is replaced or removed.
LEMMA WriteEntryKeptInv ==
  ASSUME MInv, KeptInv, WriteEntry
  PROVE  KeptInv'
<1>1. /\ UNCHANGED <<listing, journal, call, job, before, target>>
      /\ pc = "journalled" /\ pc' = "written" /\ journal \in File /\ journal = Head(job).file
      /\ entry' = [entry EXCEPT ![journal] = Head(job).value] /\ entry \in EntryFiles
      /\ MemoryTypeOK /\ FewFiles /\ job # <<>>
  BY DEF WriteEntry, MInv, KeptInv, MemoryTypeOK, JobShape, Publishing, Step, EntryFiles
<1>2. /\ entry'[journal] = Head(job).value
      /\ \A f \in File : f # journal => entry'[f] = entry[f]
      /\ Old' = Old
  BY <1>1 DEF EntryFiles, Old
<1>3. FewFiles'
  BY <1>1, OneMoreFile
<1>4. JobShape'
  BY <1>1 DEF KeptInv, JobShape, Publishing
<1>5. CASE call.kind # "consolidate"
  <2>1. target' = None
    BY <1>1, <1>5 DEF KeptInv, JobShape
  <2>2. TargetSound'
    BY <2>1 DEF TargetSound
  <2>3. JobSound'
    BY <1>1, <1>5 DEF JobSound, Consolidating
  <2> QED
    BY <1>3, <1>4, <2>2, <2>3 DEF KeptInv
<1>6. CASE call.kind = "consolidate"
  <2>1. Consolidating
    BY <1>1, <1>6 DEF Consolidating
  <2>2. /\ target # None /\ Goal(target)
        /\ \/ \E e \in target.left : Head(job) = Put(e) /\ journal = e.file
           \/ /\ Head(job) = Drop(journal) /\ journal \notin Files(target.left)
              /\ \A e \in target.left : entry[e.file] = e
    BY <1>1, <2>1, HeadIs
  <2>3. Holds(target, entry) /\ Holds(target, Old)
    BY <1>1, <2>2 DEF KeptInv, TargetSound, Publishing
  <2>4. Done(target, entry, listing, job) /\ Planned(target, job)
    BY <2>1 DEF KeptInv, JobSound
  <2>5. PICK en : en = entry'
    OBVIOUS
  <2>6. Holds(target, en) /\ Done(target, en, listing, job)
    <3>1. CASE \E e \in target.left : Head(job) = Put(e) /\ journal = e.file
      <4>1. PICK x \in target.left : Head(job) = Put(x) /\ journal = x.file
        BY <3>1
      <4>2. en = [entry EXCEPT ![x.file] = x] /\ en[x.file] = x
        BY <1>1, <1>2, <2>5, <4>1, PutNotDrop
      <4>3. Holds(target, en)
        BY <1>1, <2>2, <2>3, <4>2, StoreKeeps
      <4>4. ASSUME NEW e \in target.left
            PROVE  Pending(job, Put(e)) \/ (en[e.file] = e /\ Rowed(target, listing, e))
        <5>1. e.file = x.file => e = x
          BY <2>2 DEF Goal, Distinct
        <5>2. e.file \in File
          BY <2>2 DEF Goal, Files
        <5>3. e.file # x.file => en[e.file] = entry[e.file]
          BY <1>2, <2>5, <4>1, <5>2
        <5> QED
          BY <2>4, <4>2, <5>1, <5>3 DEF Done
      <4>5. ASSUME NEW f \in File, In(en, f) PROVE f \in Files(target.left) \/ Pending(job, Drop(f))
        BY <1>2, <2>4, <2>5, <4>1, <4>5 DEF Done, In, Files
      <4> QED
        BY <4>3, <4>4, <4>5 DEF Done
    <3>2. CASE /\ Head(job) = Drop(journal) /\ journal \notin Files(target.left)
               /\ \A e \in target.left : entry[e.file] = e
      <4>0. Head(job).value = Absent
        BY <3>2, PutNotDrop
      <4>1. en = [entry EXCEPT ![journal] = Absent] /\ en[journal] = Absent
        BY <1>1, <1>2, <2>5, <4>0
      <4>2. Holds(target, en)
        BY <1>1, <2>2, <2>3, <3>2, <4>1, DropKeeps
      <4>3. ASSUME NEW e \in target.left
            PROVE  Pending(job, Put(e)) \/ (en[e.file] = e /\ Rowed(target, listing, e))
        <5>1. e.file \in File /\ e.file # journal
          BY <2>2, <3>2 DEF Goal, Files
        <5> QED
          BY <1>2, <2>4, <2>5, <5>1 DEF Done
      <4>4. ASSUME NEW f \in File, In(en, f) PROVE f \in Files(target.left) \/ Pending(job, Drop(f))
        BY <1>2, <2>4, <2>5, <4>1, <4>4 DEF Done, In
      <4> QED
        BY <4>2, <4>3, <4>4 DEF Done
    <3> QED
      BY <2>2, <3>1, <3>2
  <2>7. PICK o : o = Old'
    OBVIOUS
  <2>8. TargetSound'
    <3>1. Goal(target') /\ Holds(target', entry') /\ Holds(target', o)
      BY <1>1, <1>2, <2>2, <2>3, <2>5, <2>6, <2>7
    <3> QED
      BY <2>7, <3>1 DEF TargetSound
  <2>9. JobSound'
    <3>1. target' # None /\ Planned(target', job') /\ Done(target', entry', listing', job')
      BY <1>1, <2>2, <2>4, <2>5, <2>6
    <3> QED
      BY <1>1, <3>1 DEF JobSound
  <2> QED
    BY <1>3, <1>4, <2>8, <2>9 DEF KeptInv
<1> QED
  BY <1>5, <1>6

(* A row of a survivor's title stays, or the new one takes its place.      *)
LEMMA RowsStay ==
  ASSUME NEW t, Goal(t), NEW e \in t.left, Rowed(t, listing, e)
  PROVE  /\ \A x \in t.left : Rowed(t, Updated(x), e)
         /\ \A f : f \notin Files(t.left) => Rowed(t, Removed(f), e)
<1>1. PICK r \in listing, d \in t.left : r.name = Name(e) /\ r.file = d.file /\ Name(d) = Name(e)
  BY DEF Rowed
<1>2. ASSUME NEW x \in t.left PROVE Rowed(t, Updated(x), e)
  <2>1. RowOf(x) \in Updated(x) /\ RowOf(x).name = Name(x) /\ RowOf(x).file = x.file
    BY DEF Updated, RowOf
  <2>2. CASE r.file # x.file /\ r.name # Name(x)
    <3>1. r \in Updated(x)
      BY <2>2 DEF Updated
    <3> QED
      BY <1>1, <3>1 DEF Rowed
  <2>3. CASE r.file = x.file
    <3>1. d = x
      BY <1>1, <2>3 DEF Goal, Distinct
    <3> QED
      BY <1>1, <2>1, <3>1 DEF Rowed
  <2>4. CASE r.name = Name(x)
    BY <1>1, <2>1, <2>4 DEF Rowed
  <2> QED
    BY <2>2, <2>3, <2>4
<1>3. ASSUME NEW f, f \notin Files(t.left) PROVE Rowed(t, Removed(f), e)
  <2>1. r \in Removed(f)
    BY <1>1, <1>3 DEF Removed, Files
  <2> QED
    BY <1>1, <2>1 DEF Rowed
<1> QED
  BY <1>2, <1>3

\* A survivor stored has a row.
LEMMA NewRow ==
  ASSUME NEW t, NEW x \in t.left
  PROVE  Rowed(t, Updated(x), x)
<1>1. RowOf(x) \in Updated(x) /\ RowOf(x).name = Name(x) /\ RowOf(x).file = x.file
  BY DEF Updated, RowOf
<1> QED
  BY <1>1 DEF Rowed

\* The index is replaced.
LEMMA WriteListingKeptInv ==
  ASSUME MInv, KeptInv, WriteListing
  PROVE  KeptInv'
<1>1. /\ UNCHANGED <<entry, journal, call, job, before, target>>
      /\ pc = "written" /\ pc' = "indexed" /\ listing' = Indexed(Head(job))
  BY DEF WriteListing
<1>2. TargetSound'
  <2>1. PICK o : o = Old
    OBVIOUS
  <2>2. Old' = o
    BY <1>1, <2>1 DEF Old
  <2>3. target # None => Goal(target) /\ Holds(target, entry) /\ Holds(target, o)
    BY <1>1, <2>1 DEF KeptInv, TargetSound, Publishing
  <2>4. target' # None => Goal(target') /\ Holds(target', entry') /\ Holds(target', o)
    BY <1>1, <2>3
  <2> QED
    BY <2>2, <2>4 DEF TargetSound
<1>3. JobShape'
  BY <1>1 DEF KeptInv, JobShape, Publishing
<1>4. FewFiles'
  BY <1>1 DEF KeptInv, FewFiles, Parses
<1>5. ASSUME call.kind = "consolidate" PROVE JobSound'
  <2>1. Consolidating
    BY <1>1, <1>5 DEF Consolidating
  <2>2. /\ target # None /\ Goal(target)
        /\ \/ \E e \in target.left : Head(job) = Put(e) /\ journal = e.file
           \/ /\ Head(job) = Drop(journal) /\ journal \notin Files(target.left)
              /\ \A e \in target.left : entry[e.file] = e
    BY <1>1, <2>1, HeadIs
  <2>3. Done(target, entry, listing, job) /\ Planned(target, job)
    BY <2>1 DEF KeptInv, JobSound
  <2>4. PICK rows : rows = listing'
    OBVIOUS
  <2>5. /\ \A e \in target.left : Rowed(target, listing, e) => Rowed(target, rows, e)
        /\ \A e \in target.left : Head(job) = Put(e) => Rowed(target, rows, e)
    <3>1. ASSUME NEW x \in target.left, Head(job) = Put(x), journal = x.file
          PROVE  rows = Updated(x)
      BY <1>1, <2>4, <3>1, PutNotDrop DEF Indexed
    <3>2. ASSUME Head(job) = Drop(journal)
          PROVE  rows = Removed(journal)
      BY <1>1, <2>4, <3>2, PutNotDrop DEF Indexed
    <3>3. CASE \E e \in target.left : Head(job) = Put(e) /\ journal = e.file
      <4>1. PICK x \in target.left : Head(job) = Put(x) /\ journal = x.file
        BY <3>3
      <4>2. rows = Updated(x) /\ Rowed(target, rows, x)
        BY <3>1, <4>1, NewRow
      <4>3. \A e : Put(e) = Put(x) => e = x
        BY PutNotDrop
      <4> QED
        BY <2>2, <4>1, <4>2, <4>3, RowsStay
    <3>4. CASE /\ Head(job) = Drop(journal) /\ journal \notin Files(target.left)
      <4>1. rows = Removed(journal)
        BY <3>2, <3>4
      <4>2. \A e : Head(job) # Put(e)
        BY <3>4, PutNotDrop
      <4> QED
        BY <2>2, <3>4, <4>1, <4>2, RowsStay
    <3> QED
      BY <2>2, <3>3, <3>4
  <2>6. Done(target, entry, rows, job)
    BY <2>3, <2>5 DEF Done
  <2>7. /\ target' # None /\ Planned(target', job') /\ Done(target', entry', listing', job')
        /\ \A e \in target'.left : Head(job') = Put(e) => Rowed(target', listing', e)
    BY <1>1, <2>2, <2>3, <2>4, <2>5, <2>6
  <2> QED
    BY <2>7 DEF JobSound
<1>6. ASSUME call.kind # "consolidate" PROVE JobSound'
  BY <1>1, <1>6 DEF JobSound, Consolidating
<1> QED
  BY <1>2, <1>3, <1>4, <1>5, <1>6 DEF KeptInv

\* The step is done and leaves the job.
LEMMA ClearJournalKeptInv ==
  ASSUME MInv, KeptInv, ClearJournal
  PROVE  KeptInv'
<1>1. /\ UNCHANGED <<entry, listing, call, target>>
      /\ pc = "indexed" /\ pc' = "work" /\ job' = Tail(job)
      /\ job # <<>> /\ job \in Seq(Task)
  BY DEF ClearJournal, KeptInv, JobShape, Publishing
<1>2. TargetSound'
  BY <1>1 DEF KeptInv, TargetSound, Publishing, Holds, Sourced, Covered, Source, In, Goal, Files
<1>3. JobShape'
  <2>1. Tail(job) \in Seq(Task)
    BY <1>1, FirstAndRest
  <2> QED
    BY <1>1, <2>1 DEF KeptInv, JobShape, Publishing
<1>4. FewFiles'
  BY <1>1 DEF KeptInv, FewFiles, Parses
<1>5. ASSUME call.kind = "consolidate" PROVE JobSound'
  <2>1. Consolidating
    BY <1>1, <1>5 DEF Consolidating
  <2>2. journal \in File /\ journal = Head(job).file /\ target # None
    BY <1>1, <2>1, HeadIs
  <2>3. /\ Done(target, entry, listing, job) /\ Planned(target, job)
        /\ \A e \in target.left : Head(job) = Put(e) => Rowed(target, listing, e)
    BY <1>1, <2>1 DEF KeptInv, JobSound
  <2>4. entry[journal] = Head(job).value
    BY <1>1 DEF MInv, Underway
  <2>5. ASSUME NEW e \in target.left
        PROVE  Pending(Tail(job), Put(e)) \/ (entry[e.file] = e /\ Rowed(target, listing, e))
    <3>1. CASE Head(job) = Put(e)
      BY <2>2, <2>3, <2>4, <3>1, PutNotDrop
    <3>2. CASE Head(job) # Put(e)
      BY <1>1, <2>3, <3>2, FirstAndRest DEF Done
    <3> QED
      BY <3>1, <3>2
  <2>6. ASSUME NEW f \in File, In(entry, f)
        PROVE  f \in Files(target.left) \/ Pending(Tail(job), Drop(f))
    <3>1. CASE Head(job) = Drop(f)
      BY <2>2, <2>4, <2>6, <3>1, PutNotDrop DEF In
    <3>2. CASE Head(job) # Drop(f)
      BY <1>1, <2>3, <2>6, <3>2, FirstAndRest DEF Done
    <3> QED
      BY <3>1, <3>2
  <2>7. Planned(target, Tail(job)) /\ Done(target, entry, listing, Tail(job))
    BY <1>1, <2>3, <2>5, <2>6, FirstAndRest DEF Done
  <2>8. target' # None /\ Planned(target', job') /\ Done(target', entry', listing', job')
    BY <1>1, <2>2, <2>7
  <2> QED
    BY <1>1, <2>8 DEF JobSound
<1>6. ASSUME call.kind # "consolidate" PROVE JobSound'
  BY <1>1, <1>6 DEF JobSound, Consolidating
<1> QED
  BY <1>2, <1>3, <1>4, <1>5, <1>6 DEF KeptInv

\* The index is not replaced: the file is still as it was or as it is to be.
LEMMA IndexFailsKeptInv ==
  ASSUME KeptInv, IndexFails
  PROVE  KeptInv'
<1>1. /\ UNCHANGED <<entry, journal, call, job, before, target>>
      /\ pc = "written" /\ pc' = "rollback"
  BY DEF IndexFails
<1>2. TargetSound'
  <2>1. PICK o : o = Old
    OBVIOUS
  <2>2. Old' = o
    BY <1>1, <2>1 DEF Old
  <2>3. target # None => Goal(target) /\ Holds(target, entry) /\ Holds(target, o)
    BY <1>1, <2>1 DEF KeptInv, TargetSound, Publishing
  <2>4. target' # None => Goal(target') /\ Holds(target', entry') /\ Holds(target', o)
    BY <1>1, <2>3
  <2> QED
    BY <2>2, <2>4 DEF TargetSound
<1>3. JobSound'
  BY <1>1 DEF JobSound, Consolidating
<1>4. JobShape'
  BY <1>1 DEF KeptInv, JobShape, Publishing
<1>5. FewFiles'
  BY <1>1 DEF KeptInv, FewFiles, Parses
<1> QED
  BY <1>2, <1>3, <1>4, <1>5 DEF KeptInv

\* A rollback leaves the files as they were before the step.
LEMMA RestoreEntryKeptInv ==
  ASSUME MInv, KeptInv, RestoreEntry
  PROVE  KeptInv'
<1>1. /\ pc = "rollback" /\ pc' = "idle" /\ job' = <<>> /\ target' = target
      /\ entry' = [entry EXCEPT ![journal] = before] /\ entry' = Old
      /\ journal \in File /\ MemoryTypeOK /\ FewFiles
  BY DEF RestoreEntry, Leave, Old, MInv, KeptInv, MemoryTypeOK, Publishing, Step
<1>2. PICK en : en = entry'
  OBVIOUS
<1>3. target # None => Goal(target) /\ Holds(target, en)
  BY <1>1, <1>2 DEF KeptInv, TargetSound, Publishing
<1>4. target' # None => Goal(target') /\ Holds(target', entry')
  BY <1>1, <1>2, <1>3
<1>5. TargetSound'
  BY <1>1, <1>4 DEF TargetSound, Publishing
<1>6. JobSound' /\ JobShape'
  BY <1>1, EmptySeq DEF JobSound, JobShape, Consolidating, Publishing
<1>7. FewFiles'
  BY <1>1, OneMoreFile
<1> QED
  BY <1>5, <1>6, <1>7 DEF KeptInv

\* Nothing changes.
LEMMA SameKeptInv ==
  ASSUME KeptInv, UNCHANGED mvars
  PROVE  KeptInv'
<1>1. UNCHANGED <<entry, listing, journal, pc, call, job, before, target>>
  BY DEF mvars, disk
<1>2. Old' = Old
  BY <1>1 DEF Old
<1>3. TargetSound'
  BY <1>1, <1>2 DEF KeptInv, TargetSound
<1>4. JobSound'
  BY <1>1 DEF KeptInv, JobSound, Consolidating
<1>5. JobShape' /\ FewFiles'
  BY <1>1 DEF KeptInv, JobShape, FewFiles, Parses
<1> QED
  BY <1>3, <1>4, <1>5 DEF KeptInv

\* Each step keeps the invariant.
LEMMA StepKeptInv ==
  ASSUME MInv, KeptInv, [MemoryNext]_mvars
  PROVE  KeptInv'
<1>1. ASSUME NEW c \in Call, Enter(c) PROVE KeptInv'
  <2>1. job = <<>>
    BY <1>1 DEF Enter, KeptInv, JobShape
  <2> QED
    BY <1>1, <2>1, AsideKeptInv DEF Enter, disk
<1>2. CASE NothingToRecover \/ Reconcile \/ Recovered
  <2>1. job = <<>>
    BY <1>2 DEF NothingToRecover, Reconcile, Recovered, KeptInv, JobShape
  <2> QED
    BY <1>2, <2>1, AsideKeptInv DEF NothingToRecover, Reconcile, Recovered, disk
<1>3. CASE Return \/ CutOff
  BY <1>3, AsideKeptInv DEF Return, CutOff, Leave, disk
<1>4. CASE UNCHANGED mvars
  BY <1>4, SameKeptInv
<1> QED
  BY <1>1, <1>2, <1>3, <1>4, PlanKeptInv, WriteJournalKeptInv, WriteEntryKeptInv,
     WriteListingKeptInv, ClearJournalKeptInv, IndexFailsKeptInv, RestoreEntryKeptInv
  DEF MemoryNext

(* A consolidation may be cut off anywhere: its target stays within reach. *)
THEOREM ConsolidationInvariant == MemorySpec => [](MInv /\ KeptInv)
<1>1. MemoryInit => MInv /\ KeptInv
  BY InitMInv, InitKeptInv
<1>2. MInv /\ KeptInv /\ [MemoryNext]_mvars => (MInv /\ KeptInv)'
  BY StepMInv, StepKeptInv
<1> QED
  BY <1>1, <1>2, PTL DEF MemorySpec

-----------------------------------------------------------------------------
(* What is promised of the records.                                        *)

\* A consolidation that has run to its end has listed every title.
LEMMA KeepsListed ==
  ASSUME MInv, KeptInv
  PROVE  ConsolidatedListed
<1> SUFFICES ASSUME pc = "work", job = <<>>, call.kind = "consolidate",
                    NEW f \in File, Parses(f)
             PROVE  \E r \in listing : r.name = Name(entry[f])
  BY DEF ConsolidatedListed
<1>1. Done(target, entry, listing, job)
  BY DEF KeptInv, JobSound, Consolidating
<1>2. \A s : ~Pending(job, s)
  BY EmptySeq DEF Pending
<1>3. f \in Files(target.left)
  BY <1>1, <1>2 DEF Done, In, Parses
<1>4. PICK e \in target.left : e.file = f
  BY <1>3 DEF Files
<1>5. entry[f] = e /\ Rowed(target, listing, e)
  BY <1>1, <1>2, <1>4 DEF Done
<1> QED
  BY <1>5 DEF Rowed

\* No sentence to be left is lost.
LEMMA KeepsBodies ==
  ASSUME MInv, KeptInv
  PROVE  BodiesKept
<1> SUFFICES ASSUME target # None, NEW p \in Said(target.left)
             PROVE  p \in Said(Loaded)
  BY DEF BodiesKept
<1>1. Sourced(target, entry)
  BY DEF KeptInv, TargetSound, Holds
<1>2. PICK e \in target.left : e.title = p[1] /\ p[2] \in Words(e)
  BY SaidIn
<1>3. PICK f \in File : Source(target, entry, e, p[2], f)
  BY <1>1, <1>2 DEF Sourced
<1>4. entry[f] \in Loaded
  BY <1>3, LoadedOK DEF Source, MInv, KeptInv
<1>5. entry[f].title = p[1] /\ p[2] \in Words(entry[f]) /\ p = <<p[1], p[2]>>
  BY <1>2, <1>3, SaidIn DEF Source
<1> QED
  BY <1>4, <1>5, SaidIn

\* Consolidating again says the same.
LEMMA KeepsSaying ==
  ASSUME MInv, KeptInv
  PROVE  Converges
<1> SUFFICES ASSUME target # None, target.roomy, Size(Loaded) <= Budget
             PROVE  Said(ToSet(Compress(Loaded))) = Said(target.left)
  BY DEF Converges
<1> DEFINE live == {d \in Loaded : ~Outdated(d)}
<1>1. /\ Loaded \subseteq Record /\ IsFiniteSet(Loaded) /\ Distinct(Loaded)
      /\ \A f \in File : In(entry, f) => entry[f] \in Loaded /\ entry[f].file = f
      /\ \A e \in Loaded : e.file \in File /\ In(entry, e.file) /\ entry[e.file] = e
  BY LoadedOK DEF MInv, KeptInv
<1>2. Said(ToSet(Compress(Loaded))) = Said(live)
  BY <1>1, CompressSaysTheSame
<1>3. Sourced(target, entry) /\ Covered(target, entry)
  BY DEF KeptInv, TargetSound, Holds
<1>4. ASSUME NEW p \in Said(live) PROVE p \in Said(target.left)
  <2>1. PICK d \in Loaded :
          ~Outdated(d) /\ d.title = p[1] /\ p[2] \in Words(d) /\ p = <<p[1], p[2]>>
    BY <1>4, SaidIn
  <2> QED
    BY <1>1, <1>3, <2>1 DEF Covered
<1>5. ASSUME NEW p \in Said(target.left) PROVE p \in Said(live)
  <2>1. PICK e \in target.left : e.title = p[1] /\ p[2] \in Words(e) /\ p = <<p[1], p[2]>>
    BY <1>5, SaidIn
  <2>2. PICK f \in File : Source(target, entry, e, p[2], f)
    BY <1>3, <2>1 DEF Sourced
  <2>3. entry[f] \in live /\ entry[f].title = p[1] /\ p[2] \in Words(entry[f])
    BY <1>1, <2>1, <2>2 DEF Source
  <2> QED
    BY <2>1, <2>3, SaidIn
<1> QED
  BY <1>2, <1>4, <1>5

(* RecordsKept, for every set of files, records and sentences and every    *)
(* budget: wherever an operation of the store is cut off, MEMORY.md        *)
(* follows the files, no sentence a consolidation was to leave is lost     *)
(* and, while the records fit the budget, consolidating again says the     *)
(* same.                                                                   *)
THEOREM RecordsAreKept == MemorySpec => []RecordsKept
<1>1. MInv /\ KeptInv => RecordsKept
  BY KeepsListed, KeepsBodies, KeepsSaying DEF RecordsKept, IndexFollows, MInv
<1> QED
  BY <1>1, ConsolidationInvariant, PTL

-----------------------------------------------------------------------------
(* The search index and the backups of MemoryApi.                          *)
DbShape ==
  /\ db = [version |-> db.version, print |-> db.print, rows |-> db.rows, fts |-> db.fts,
           vectors |-> db.vectors]
  /\ db.version \in {"none", "old", "current"}

ReqShape ==
  req = [pc |-> req.pc, mode |-> req.mode, snap |-> req.snap, rows |-> req.rows,
         todo |-> req.todo, hits |-> req.hits, keep |-> req.keep, stamp |-> req.stamp]

\* Which version a search has found or made, step by step of the upgrade.
UpgradeInOrder ==
  /\ db.version = "none" => db.rows = {} /\ db.fts = {} /\ db.print = <<>>
  /\ req.pc \in {"drop", "reset"} => db.version = "old"
  /\ req.pc = "reset" => db.rows = {} /\ db.fts = {}
  /\ req.pc = "version" => db.version = "none"
  /\ req.pc \in {"reconcile", "fetch", "backlog", "embed", "query"} => db.version = "current"
  /\ link => db.version = "current"

\* A vector is of the text whose hash it is stored with.
VectorsTrue == \A v \in db.vectors : v.of = v.hash

IndexInv == DbShape /\ ReqShape /\ UpgradeInOrder /\ VectorsTrue /\ IndexIsTrue

\* The backups are ordered by their stamps, and there is a newest one.
Dated == \A b \in backups : b.stamp \in Nat
Newest == backups = {} \/ \E n \in backups : \A b \in backups : b.stamp <= n.stamp

\* What is about to be retired is older than a whole backup.
RetireSafe ==
  /\ req.pc \in {"write", "verify", "retire"} => req.keep \in Nat \ {0}
  /\ req.pc \in {"verify", "retire"} =>
       req.stamp \in Nat /\ \A b \in backups : b.stamp <= req.stamp
  /\ req.pc = "retire" => \E b \in backups : b.stamp = req.stamp /\ b.intact

BackupInv == ReqShape /\ Dated /\ Newest /\ RetireSafe

-----------------------------------------------------------------------------
\* A request that ends, or a service that starts again, holds nothing.
LEMMA FreeOK ==
  /\ Free = [pc |-> Free.pc, mode |-> Free.mode, snap |-> Free.snap, rows |-> Free.rows,
             todo |-> Free.todo, hits |-> Free.hits, keep |-> Free.keep, stamp |-> Free.stamp]
  /\ Free.pc = "idle" /\ Free.hits = {} /\ Free.keep = 0 /\ Free.stamp = 0
BY DEF Free

LEMMA IndexInvInit == ApiInit => IndexInv
<1> SUFFICES ASSUME ApiInit PROVE IndexInv
  OBVIOUS
<1>1. ReqShape /\ HitsAreCurrent /\ req.pc = "idle" /\ link = FALSE
  BY FreeOK DEF ApiInit, ReqShape, HitsAreCurrent
<1>2. CASE db = Database("none")
  BY <1>1, <1>2
  DEF Database, IndexInv, DbShape, UpgradeInOrder, VectorsTrue, IndexIsTrue, FingerprintTrue
<1>3. CASE db = OldDatabase(Snapshot)
  <2>1. db = [version |-> "old", print |-> <<Snapshot>>, rows |-> Snapshot, fts |-> Snapshot, vectors |-> {}]
    BY <1>3 DEF OldDatabase, Database
  <2> QED
    BY <1>1, <2>1
    DEF IndexInv, DbShape, UpgradeInOrder, VectorsTrue, IndexIsTrue, FingerprintTrue
<1> QED
  BY <1>2, <1>3 DEF ApiInit

\* A request that goes on, or another one.
Served(r) ==
  r = [pc |-> r.pc, mode |-> r.mode, snap |-> r.snap, rows |-> r.rows,
       todo |-> r.todo, hits |-> r.hits, keep |-> r.keep, stamp |-> r.stamp]

Upgrading == {"drop", "reset", "version", "reconcile", "fetch", "backlog", "embed", "query"}

\* What leaves the database alone keeps the index true, unless a search
\* that goes on relies on more of the database than before.
LEMMA SameDatabaseKeepsInv ==
  ASSUME IndexInv, UNCHANGED db, ReqShape', HitsAreCurrent',
         link' => db.version = "current",
         req'.pc \in Upgrading => req'.pc = req.pc
  PROVE  IndexInv'
BY DEF IndexInv, DbShape, UpgradeInOrder, VectorsTrue, IndexIsTrue, FingerprintTrue, Upgrading

LEMMA EndsKeepsInv ==
  ASSUME IndexInv, UNCHANGED db, req' = Free, link' = link \/ link' = FALSE
  PROVE  IndexInv'
<1>1. ReqShape' /\ HitsAreCurrent' /\ req'.pc \notin Upgrading
  BY FreeOK DEF ReqShape, HitsAreCurrent, Upgrading
<1> QED
  BY <1>1, SameDatabaseKeepsInv DEF IndexInv, UpgradeInOrder

-----------------------------------------------------------------------------
LEMMA SearchKeepsInv ==
  ASSUME IndexInv, NEW mode, Search(mode)
  PROVE  IndexInv'
<1>1. req' = [pc |-> IF link THEN "reconcile" ELSE "schema", mode |-> mode, snap |-> Snapshot,
              rows |-> {}, todo |-> {}, hits |-> {}, keep |-> 0, stamp |-> 0]
  BY DEF Search, Free
<1>2. ReqShape' /\ HitsAreCurrent'
  BY <1>1 DEF ReqShape, HitsAreCurrent
<1>4. UNCHANGED <<db, link>>
  BY DEF Search
<1>3. req'.pc = "schema" \/ (req'.pc = "reconcile" /\ link)
  BY <1>1
<1> QED
  BY <1>2, <1>3, <1>4
  DEF IndexInv, DbShape, UpgradeInOrder, VectorsTrue, IndexIsTrue, FingerprintTrue

\* req goes to another step.
LEMMA GoesOK ==
  ASSUME ReqShape, NEW step, Goes(step)
  PROVE  /\ ReqShape' /\ req'.pc = step /\ req'.hits = req.hits /\ req'.snap = req.snap
         /\ req'.keep = req.keep /\ req'.stamp = req.stamp
BY DEF ReqShape, Goes

LEMMA UpgradeKeepsInv ==
  ASSUME IndexInv, EnsureSchema \/ DropTables \/ ResetMeta \/ WriteVersion
  PROVE  IndexInv'
<1>1. CASE EnsureSchema
  <2>1. \/ db.version = "none" /\ Goes("version") /\ UNCHANGED link
        \/ db.version = "old" /\ Goes("drop") /\ UNCHANGED link
        \/ db.version = "current" /\ Goes("reconcile") /\ link' = TRUE
    BY <1>1 DEF EnsureSchema, IndexInv, DbShape
  <2>2. UNCHANGED db
    BY <1>1 DEF EnsureSchema
  <2> QED
    BY <2>1, <2>2, GoesOK
    DEF IndexInv, DbShape, UpgradeInOrder, VectorsTrue, IndexIsTrue, FingerprintTrue, HitsAreCurrent
<1>2. CASE DropTables
  <2>1. db' = [version |-> db.version, print |-> db.print, rows |-> {}, fts |-> {}, vectors |-> {}]
    BY <1>2 DEF DropTables, IndexInv, DbShape
  <2>2. Goes("reset") /\ db.version = "old" /\ UNCHANGED link
    BY <1>2 DEF DropTables, IndexInv, UpgradeInOrder
  <2> QED
    BY <2>1, <2>2, GoesOK
    DEF IndexInv, DbShape, UpgradeInOrder, VectorsTrue, IndexIsTrue, FingerprintTrue, HitsAreCurrent
<1>3. CASE ResetMeta
  <2>1. db' = [version |-> "none", print |-> <<>>, rows |-> db.rows, fts |-> db.fts,
               vectors |-> db.vectors]
    BY <1>3 DEF ResetMeta, IndexInv, DbShape
  <2>2. Goes("version") /\ db.rows = {} /\ db.fts = {} /\ db.version = "old" /\ UNCHANGED link
    BY <1>3 DEF ResetMeta, IndexInv, UpgradeInOrder
  <2> QED
    BY <2>1, <2>2, GoesOK
    DEF IndexInv, DbShape, UpgradeInOrder, VectorsTrue, IndexIsTrue, FingerprintTrue, HitsAreCurrent
<1>4. CASE WriteVersion
  <2>1. db' = [version |-> "current", print |-> db.print, rows |-> db.rows, fts |-> db.fts,
               vectors |-> db.vectors]
    BY <1>4 DEF WriteVersion, IndexInv, DbShape
  <2>2. Goes("reconcile") /\ db.rows = {} /\ db.fts = {} /\ db.print = <<>>
    BY <1>4 DEF WriteVersion, IndexInv, UpgradeInOrder
  <2> QED
    BY <2>1, <2>2, GoesOK
    DEF IndexInv, DbShape, UpgradeInOrder, VectorsTrue, IndexIsTrue, FingerprintTrue, HitsAreCurrent
<1> QED
  BY <1>1, <1>2, <1>3, <1>4

LEMMA ReconcileKeepsInv ==
  ASSUME IndexInv, ReconcileIndex
  PROVE  IndexInv'
<1>1. CASE ~Unique(req.snap)
  BY <1>1, EndsKeepsInv DEF ReconcileIndex, Ends
<1>2. CASE Unique(req.snap)
  <2>1. Goes("fetch") /\ UNCHANGED link /\ db.version = "current"
    BY <1>2 DEF ReconcileIndex, IndexInv, UpgradeInOrder
  <2>2. CASE UNCHANGED db
    BY <2>1, <2>2, GoesOK
    DEF IndexInv, DbShape, UpgradeInOrder, VectorsTrue, IndexIsTrue, FingerprintTrue, HitsAreCurrent
  <2>3. CASE db' = Rewritten(req.snap)
    <3> DEFINE kept == {v \in db.vectors : v.id \in Ids(req.snap)}
    <3>1. db' = [version |-> "current", print |-> <<req.snap>>, rows |-> req.snap,
                 fts |-> req.snap, vectors |-> kept]
      BY <2>1, <2>3 DEF Rewritten, IndexInv, DbShape
    <3>2. \A v \in kept : v.of = v.hash
      BY DEF IndexInv, VectorsTrue
    <3> HIDE DEF kept
    <3>3. <<req.snap>> # <<>>
      OBVIOUS
    <3> QED
      BY <2>1, <3>1, <3>2, <3>3, GoesOK
      DEF IndexInv, DbShape, UpgradeInOrder, VectorsTrue, IndexIsTrue, FingerprintTrue, HitsAreCurrent
  <2> QED
    BY <1>2, <2>2, <2>3 DEF ReconcileIndex
<1> QED
  BY <1>1, <1>2

LEMMA FetchKeepsInv ==
  ASSUME IndexInv, FetchEntries \/ TakeBatch
  PROVE  IndexInv'
<1>1. UNCHANGED <<db, link>>
  BY DEF FetchEntries, TakeBatch
<1>2. CASE req' = Free
  BY <1>1, <1>2, EndsKeepsInv
<1>3. CASE req' # Free
  <2>1. db.version = "current"
    BY DEF FetchEntries, TakeBatch, IndexInv, UpgradeInOrder
  <2>2. ReqShape' /\ req'.hits = req.hits /\ req'.pc \in {"backlog", "query", "embed"}
    BY <1>3 DEF IndexInv, ReqShape, FetchEntries, TakeBatch
  <2> QED
    BY <1>1, <2>1, <2>2
    DEF IndexInv, DbShape, UpgradeInOrder, VectorsTrue, IndexIsTrue, FingerprintTrue, HitsAreCurrent
<1> QED
  BY <1>2, <1>3

LEMMA StoreVectorsKeepsInv ==
  ASSUME IndexInv, StoreVectors
  PROVE  IndexInv'
<1> DEFINE stored == {v \in db.vectors : v.id \notin Ids(req.todo)}
                       \cup {[id |-> r.id, hash |-> r.text, of |-> r.text] : r \in req.todo}
<1>1. db' = [version |-> db.version, print |-> db.print, rows |-> db.rows, fts |-> db.fts,
             vectors |-> stored]
  BY DEF StoreVectors, IndexInv, DbShape
<1>2. \A v \in stored : v.of = v.hash
  BY DEF IndexInv, VectorsTrue
<1>3. Goes("query") /\ db.version = "current" /\ UNCHANGED link
  BY DEF StoreVectors, IndexInv, UpgradeInOrder
<1> HIDE DEF stored
<1> QED
  BY <1>1, <1>2, <1>3, GoesOK
  DEF IndexInv, DbShape, UpgradeInOrder, VectorsTrue, IndexIsTrue, FingerprintTrue, HitsAreCurrent

LEMMA SearchSemanticKeepsInv ==
  ASSUME IndexInv, SearchSemantic
  PROVE  IndexInv'
<1> DEFINE hits == {[id |-> p[1].id, text |-> p[1].text, of |-> p[2].of] :
                      p \in {q \in db.rows \X db.vectors : Matched(q[1], q[2])}}
<1>1. req' = [pc |-> "answer", mode |-> "", snap |-> {}, rows |-> {}, todo |-> {}, hits |-> hits,
              keep |-> 0, stamp |-> 0]
  BY DEF SearchSemantic, Free
<1>2. \A h \in hits : h.of = h.text
  BY DEF Matched, IndexInv, VectorsTrue
<1> HIDE DEF hits
<1>3. ReqShape' /\ HitsAreCurrent' /\ req'.pc \notin Upgrading
  BY <1>1, <1>2 DEF ReqShape, HitsAreCurrent, Upgrading
<1> QED
  BY <1>3, SameDatabaseKeepsInv DEF SearchSemantic, IndexInv, UpgradeInOrder

\* Imports, backups, restores and retention, and what happens to the store.
Others ==
  \/ OtherStep \/ EmbedFails \/ SearchAnswers \/ ServiceCrash
  \/ \E retained \in 1 .. MaxRetained : Backup(retained)
  \/ \E b \in backups : RestoreBackup(b)
  \/ Import(Snapshot)
  \/ \E victims \in SUBSET Snapshot : PruneEntries(victims)
  \/ \E f \in MemFile : DeleteRecord(f) \/ \E t \in Text : StoreRecord(f, t)

LEMMA OthersKeepInv ==
  ASSUME IndexInv, Others
  PROVE  IndexInv'
<1>1. UNCHANGED db /\ (link' = link \/ link' = FALSE)
  BY Zenon DEF Others, OtherStep, ImportRecord, ImportEnds, WriteBackup, VerifyBackup, PruneBackups,
         PruneEntry, PruneEnds, EmbedFails, SearchAnswers, ServiceCrash, Backup, RestoreBackup,
         Import, PruneEntries, DeleteRecord, StoreRecord
<1>10. link' => db.version = "current"
  BY <1>1, Zenon DEF IndexInv, UpgradeInOrder
<1>2. CASE req' = req \/ req' = Free
  BY <1>1, <1>10, <1>2, EndsKeepsInv, SameDatabaseKeepsInv
  DEF IndexInv, ReqShape, IndexIsTrue, HitsAreCurrent
<1>3. ASSUME Served(req'), req'.pc \notin Upgrading, req'.hits \in {{}, req.hits}
      PROVE  IndexInv'
  BY <1>1, <1>10, <1>3, SameDatabaseKeepsInv
  DEF Served, IndexInv, ReqShape, IndexIsTrue, HitsAreCurrent
<1>4. CASE OtherStep
  <2> USE DEF IndexInv, ReqShape, Served, Upgrading
  <2>1. CASE ImportRecord
    BY <1>3, <2>1 DEF ImportRecord
  <2>2. CASE WriteBackup
    BY <1>2, <1>3, <2>2 DEF WriteBackup, Ends
  <2>3. CASE VerifyBackup
    BY <1>2, <1>3, <2>3 DEF VerifyBackup, Ends, Goes
  <2>4. CASE PruneEntry
    BY <1>3, <2>4 DEF PruneEntry
  <2>5. CASE ImportEnds \/ PruneEnds \/ PruneBackups
    BY <1>2, <2>5 DEF ImportEnds, PruneEnds, PruneBackups, Ends
  <2> QED
    BY <1>4, <2>1, <2>2, <2>3, <2>4, <2>5 DEF OtherStep
<1>5. CASE \E retained \in 1 .. MaxRetained : Backup(retained)
  BY <1>3, <1>5 DEF Backup, Free, Served, Upgrading
<1>6. CASE \E b \in backups : RestoreBackup(b)
  BY <1>2, <1>3, <1>6 DEF RestoreBackup, ImportFrom, Free, Served, Upgrading
<1>7. CASE Import(Snapshot)
  BY <1>3, <1>7 DEF Import, ImportFrom, Free, Served, Upgrading
<1>8. CASE \E victims \in SUBSET Snapshot : PruneEntries(victims)
  BY <1>3, <1>8 DEF PruneEntries, Free, Served, Upgrading
<1>9. CASE EmbedFails \/ SearchAnswers \/ ServiceCrash
           \/ \E f \in MemFile : DeleteRecord(f) \/ \E t \in Text : StoreRecord(f, t)
  BY <1>2, <1>9 DEF EmbedFails, SearchAnswers, ServiceCrash, DeleteRecord, StoreRecord, Ends
<1> QED
  BY <1>4, <1>5, <1>6, <1>7, <1>8, <1>9 DEF Others

LEMMA IndexInvStep == IndexInv /\ [ApiNext]_apiVars => IndexInv'
<1> SUFFICES ASSUME IndexInv, [ApiNext]_apiVars PROVE IndexInv'
  OBVIOUS
<1>1. CASE UNCHANGED apiVars
  BY <1>1, SameDatabaseKeepsInv
  DEF apiVars, IndexInv, UpgradeInOrder, ReqShape, IndexIsTrue, HitsAreCurrent
<1>2. CASE ApiNext
  <2>1. \/ \E mode \in {"lexical", "semantic"} : Search(mode)
        \/ EnsureSchema \/ DropTables \/ ResetMeta \/ WriteVersion
        \/ ReconcileIndex \/ FetchEntries \/ TakeBatch \/ SearchSemantic \/ StoreVectors
        \/ Others
    BY <1>2, Zenon DEF ApiNext, Requests, SearchStep, Others
  <2> QED
    BY <2>1, SearchKeepsInv, UpgradeKeepsInv, ReconcileKeepsInv, FetchKeepsInv,
       SearchSemanticKeepsInv, StoreVectorsKeepsInv, OthersKeepInv
<1> QED
  BY <1>1, <1>2

(* For every store, window and batch, and any trouble.                      *)
THEOREM TrueIndex == ApiSpec => []IndexIsTrue
<1>1. IndexInv => IndexIsTrue
  BY DEF IndexInv
<1> QED
  BY <1>1, IndexInvInit, IndexInvStep, PTL DEF ApiSpec

-----------------------------------------------------------------------------
(* Backups                                                                  *)

LEMMA BackupInvInit == ApiInit => BackupInv
BY FreeOK DEF ApiInit, BackupInv, ReqShape, Dated, Newest, RetireSafe

\* Latest is the newest stamp, or 0.
LEMMA LatestOK ==
  ASSUME Dated, Newest
  PROVE  Latest \in Nat /\ \A b \in backups : b.stamp <= Latest
<1> DEFINE stamps == {0} \cup {b.stamp : b \in backups}
<1>1. \E x \in stamps : \A y \in stamps : x >= y
  <2>1. CASE backups = {}
    BY <2>1
  <2>2. CASE backups # {}
    <3>1. PICK n \in backups : \A b \in backups : b.stamp <= n.stamp
      BY <2>2 DEF Newest
    <3>2. n.stamp \in stamps /\ \A y \in stamps : n.stamp >= y
      BY <3>1 DEF Dated
    <3> QED
      BY <3>2
  <2> QED
    BY <2>1, <2>2
<1>2. Latest \in stamps /\ \A y \in stamps : Latest >= y
  BY <1>1, Zenon DEF Latest, Max
<1> QED
  BY <1>2 DEF Dated

\* The oldest backup beyond the newest is older than the newest.
LEMMA SurplusIsOlder ==
  ASSUME NEW b \in Surplus, req.keep \in Nat \ {0}
  PROVE  \E c \in backups : c.stamp > b.stamp
<1>1. CASE {c \in backups : c.stamp > b.stamp} = {}
  BY <1>1, FS_EmptySet DEF Surplus
<1> QED
  BY <1>1

LEMMA PruneKeepsInv ==
  ASSUME BackupInv, PruneBackups
  PROVE  BackupInv' /\ ((\E b \in backups : b.intact) => \E b \in backups' : b.intact)
<1>1. CASE Ends /\ UNCHANGED backups
  BY <1>1, FreeOK DEF BackupInv, ReqShape, Dated, Newest, RetireSafe, Ends
<1>2. ASSUME NEW b \in Surplus, backups' = backups \ {b}, UNCHANGED req
      PROVE  BackupInv' /\ ((\E c \in backups : c.intact) => \E c \in backups' : c.intact)
  <2>1. /\ req.pc = "retire" /\ req.keep \in Nat \ {0} /\ req.stamp \in Nat
        /\ \A c \in backups : c.stamp <= req.stamp /\ c.stamp \in Nat
    BY DEF PruneBackups, BackupInv, Dated, RetireSafe
  <2>2. PICK c \in backups : c.stamp > b.stamp
    BY <2>1, SurplusIsOlder
  <2>3. b \in backups /\ b.stamp < req.stamp
    BY <2>1, <2>2 DEF Surplus
  <2>4. \E w \in backups' : w.stamp = req.stamp /\ w.intact
    BY <1>2, <2>1, <2>3 DEF BackupInv, RetireSafe
  <2>5. Newest'
    BY <1>2, <2>1, <2>4 DEF Newest, Surplus
  <2> QED
    BY <1>2, <2>1, <2>4, <2>5 DEF BackupInv, ReqShape, Dated, RetireSafe
<1> QED
  BY <1>1, <1>2 DEF PruneBackups

LEMMA WriteKeepsInv ==
  ASSUME BackupInv, WriteBackup
  PROVE  BackupInv' /\ backups \subseteq backups'
<1>1. CASE Ends /\ UNCHANGED backups
  BY <1>1, FreeOK DEF BackupInv, ReqShape, Dated, Newest, RetireSafe, Ends
<1>2. ASSUME NEW intact \in BOOLEAN,
             backups' = backups \cup {[stamp |-> Latest + 1, payload |-> req.snap, intact |-> intact]},
             req' = [req EXCEPT !.pc = "verify", !.stamp = Latest + 1]
      PROVE  BackupInv' /\ backups \subseteq backups'
  <2> DEFINE stamp == Latest + 1
             new == [stamp |-> stamp, payload |-> req.snap, intact |-> intact]
  <2>1. stamp \in Nat /\ \A b \in backups : b.stamp <= stamp /\ b.stamp \in Nat
    BY LatestOK DEF BackupInv, Dated
  <2>2. backups' = backups \cup {new} /\ new.stamp = stamp
    BY <1>2
  <2>3. req' = [req EXCEPT !.pc = "verify", !.stamp = stamp]
    BY <1>2
  <2> HIDE DEF new, stamp
  <2>4. ReqShape' /\ req'.pc = "verify" /\ req'.stamp = stamp /\ req'.keep \in Nat \ {0}
    BY <2>3 DEF BackupInv, ReqShape, RetireSafe, WriteBackup
  <2>5. \A b \in backups' : b.stamp <= stamp /\ b.stamp \in Nat
    BY <2>1, <2>2
  <2> QED
    BY <2>1, <2>2, <2>4, <2>5 DEF BackupInv, Dated, Newest, RetireSafe
<1> QED
  BY <1>1, <1>2 DEF WriteBackup

LEMMA VerifyKeepsInv ==
  ASSUME BackupInv, VerifyBackup
  PROVE  BackupInv' /\ UNCHANGED backups
<1>1. CASE Ends
  BY <1>1, FreeOK DEF BackupInv, ReqShape, Dated, Newest, RetireSafe, Ends, VerifyBackup
<1>2. CASE Goes("retire") /\ \E b \in backups : b.stamp = req.stamp /\ BackupWhole(b)
  <2>1. /\ ReqShape' /\ req'.pc = "retire" /\ req'.stamp = req.stamp /\ req'.keep = req.keep
        /\ UNCHANGED backups /\ req.pc = "verify"
    BY <1>2, GoesOK DEF BackupInv, VerifyBackup
  <2> QED
    BY <1>2, <2>1 DEF BackupInv, Dated, Newest, RetireSafe, BackupWhole
<1> QED
  BY <1>1, <1>2 DEF VerifyBackup

Retaining == {"write", "verify", "retire"}

\* Requests other than a backup neither write nor remove one.
LEMMA SameBackupsKeepInv ==
  ASSUME BackupInv, UNCHANGED backups, ReqShape',
         req'.pc \in Retaining => req'.pc = "write" /\ req'.keep \in Nat \ {0}
  PROVE  BackupInv'
BY DEF BackupInv, Dated, Newest, RetireSafe, Retaining

LEMMA SearchesKeepBackups ==
  ASSUME IndexInv, BackupInv,
         \/ SearchStep \/ StoreVectors \/ EmbedFails
         \/ \E mode \in {"lexical", "semantic"} : Search(mode)
  PROVE  BackupInv' /\ UNCHANGED backups
<1>1. UNCHANGED backups
  BY DEF SearchStep, EnsureSchema, DropTables, ResetMeta, WriteVersion, ReconcileIndex,
         FetchEntries, TakeBatch, SearchSemantic, SearchAnswers, StoreVectors, EmbedFails, Search
<1>2. CASE \E step \in Upgrading : Goes(step)
  BY <1>1, <1>2, GoesOK, SameBackupsKeepInv DEF BackupInv, Upgrading, Retaining
<1>3. CASE req' = Free
  BY <1>1, <1>3, FreeOK, SameBackupsKeepInv DEF ReqShape, Retaining
<1>4. ASSUME Served(req'), req'.pc \notin Retaining PROVE BackupInv'
  BY <1>1, <1>4, SameBackupsKeepInv DEF Served, ReqShape
<1>5. CASE FetchEntries
  <2>1. CASE req' = [req EXCEPT !.pc = "backlog", !.rows = db.rows]
    <3>1. Served(req') /\ req'.pc \notin Retaining
      BY <2>1 DEF BackupInv, ReqShape, Served, Retaining
    <3> QED
      BY <1>1, <1>4, <3>1
  <2> QED
    BY <1>3, <1>5, <2>1 DEF FetchEntries
<1>6. CASE TakeBatch
  <2>1. PICK step \in {"query", "embed"} : req' = [req EXCEPT !.pc = step, !.todo = Batch(req.rows)]
    BY <1>6 DEF TakeBatch
  <2>2. Served(req') /\ req'.pc \notin Retaining
    BY <2>1 DEF BackupInv, ReqShape, Served, Retaining
  <2> QED
    BY <1>1, <1>4, <2>2
<1>7. CASE SearchSemantic
  <2> DEFINE hits == {[id |-> p[1].id, text |-> p[1].text, of |-> p[2].of] :
                        p \in {q \in db.rows \X db.vectors : Matched(q[1], q[2])}}
  <2>1. req' = [Free EXCEPT !.pc = "answer", !.hits = hits]
    BY <1>7 DEF SearchSemantic
  <2> HIDE DEF hits
  <2>2. Served(req') /\ req'.pc \notin Retaining
    BY <2>1 DEF Free, Served, Retaining
  <2> QED
    BY <1>1, <1>4, <2>2
<1>8. ASSUME NEW mode, Search(mode) PROVE BackupInv'
  <2>1. PICK step \in {"reconcile", "schema"} :
          req' = [Free EXCEPT !.pc = step, !.mode = mode, !.snap = Snapshot]
    BY <1>8 DEF Search
  <2>2. Served(req') /\ req'.pc \notin Retaining
    BY <2>1 DEF Free, Served, Retaining
  <2> QED
    BY <1>4, <2>2
<1>9. CASE EnsureSchema
  BY <1>2, <1>9 DEF IndexInv, DbShape, EnsureSchema, Upgrading
<1>10. CASE DropTables \/ ResetMeta \/ WriteVersion \/ StoreVectors
  BY <1>2, <1>10 DEF DropTables, ResetMeta, WriteVersion, StoreVectors, Upgrading
<1>11. CASE ReconcileIndex
  <2>1. Ends \/ Goes("fetch")
    BY <1>11 DEF ReconcileIndex
  <2> QED
    BY <1>2, <1>3, <2>1 DEF Ends, Upgrading
<1>12. CASE SearchAnswers \/ EmbedFails
  BY <1>3, <1>12 DEF SearchAnswers, EmbedFails, Ends
<1> QED
  BY <1>1, <1>5, <1>6, <1>7, <1>8, <1>9, <1>10, <1>11, <1>12, Zenon DEF SearchStep

LEMMA OthersKeepBackups ==
  ASSUME BackupInv, Others, ~WriteBackup, ~VerifyBackup, ~PruneBackups
  PROVE  BackupInv' /\ UNCHANGED backups
<1>1. UNCHANGED backups
  BY DEF Others, OtherStep, ImportRecord, ImportEnds, PruneEntry, PruneEnds, EmbedFails,
         SearchAnswers, ServiceCrash, Backup, RestoreBackup, Import, PruneEntries, DeleteRecord,
         StoreRecord
<1>2. CASE req' = req
  BY <1>1, <1>2 DEF BackupInv, ReqShape, Dated, Newest, RetireSafe
<1>3. ASSUME Served(req'), req'.pc \in Retaining => req'.pc = "write" /\ req'.keep \in Nat \ {0}
      PROVE  BackupInv'
  BY <1>1, <1>3, SameBackupsKeepInv DEF Served, ReqShape
<1>4. CASE req' = Free
  <2>1. Served(req') /\ req'.pc \notin Retaining
    BY <1>4 DEF Free, Served, Retaining
  <2> QED
    BY <1>1, <1>3, <2>1
<1>5. CASE \E retained \in 1 .. MaxRetained : Backup(retained)
  <2>1. MaxRetained \in Nat
    BY MemoryApiAssumption
  <2>2. PICK retained \in 1 .. MaxRetained : Backup(retained)
    BY <1>5
  <2>3. req' = [pc |-> "write", mode |-> "", snap |-> Snapshot, rows |-> {}, todo |-> {},
                hits |-> {}, keep |-> retained, stamp |-> 0]
    BY <2>2 DEF Backup, Free
  <2>4. Served(req') /\ req'.pc = "write" /\ req'.keep = retained
    BY <2>3 DEF Served
  <2>5. retained \in Nat \ {0}
    BY <2>1
  <2> QED
    BY <1>1, <1>3, <2>4, <2>5
<1>6. CASE ImportRecord \/ PruneEntry
  BY <1>3, <1>6 DEF BackupInv, ReqShape, ImportRecord, PruneEntry, Served, Retaining
<1>7. CASE \/ \E b \in backups : RestoreBackup(b)
           \/ Import(Snapshot)
           \/ \E victims \in SUBSET Snapshot : PruneEntries(victims)
  BY <1>2, <1>3, <1>7 DEF RestoreBackup, Import, ImportFrom, PruneEntries, Free, Served, Retaining
<1>8. CASE \/ ImportEnds \/ PruneEnds \/ EmbedFails \/ SearchAnswers \/ ServiceCrash
           \/ \E f \in MemFile : DeleteRecord(f) \/ \E t \in Text : StoreRecord(f, t)
  BY <1>2, <1>4, <1>8
  DEF ImportEnds, PruneEnds, EmbedFails, SearchAnswers, ServiceCrash, DeleteRecord, StoreRecord, Ends
<1> QED
  BY <1>5, <1>6, <1>7, <1>8, Zenon DEF Others, OtherStep

KeptIntact == (\E b \in backups : b.intact) => \E b \in backups' : b.intact

LEMMA BackupInvStep ==
  ASSUME IndexInv, BackupInv, [ApiNext]_apiVars
  PROVE  BackupInv' /\ KeptIntact
<1>1. CASE UNCHANGED apiVars
  BY <1>1 DEF apiVars, BackupInv, ReqShape, Dated, Newest, RetireSafe, KeptIntact
<1>2. CASE ApiNext
  <2>1. \/ SearchStep \/ StoreVectors \/ EmbedFails \/ \E mode \in {"lexical", "semantic"} : Search(mode)
        \/ Others
    BY <1>2, Zenon DEF ApiNext, Requests, Others
  <2> QED
    BY <2>1, SearchesKeepBackups, OthersKeepBackups, WriteKeepsInv, VerifyKeepsInv, PruneKeepsInv
    DEF KeptIntact
<1> QED
  BY <1>1, <1>2

(* For every retention and any number of backups, crashes and writes.       *)
THEOREM WholeBackupKept == ApiSpec => BackupKept
<1>1. IndexInv /\ BackupInv /\ [ApiNext]_apiVars => BackupInv'
  BY BackupInvStep
<1>2. IndexInv /\ BackupInv /\ [ApiNext]_apiVars => [KeptIntact]_apiVars
  BY BackupInvStep
<1> QED
  BY <1>1, <1>2, IndexInvInit, IndexInvStep, BackupInvInit, PTL DEF ApiSpec, BackupKept, KeptIntact

=============================================================================
