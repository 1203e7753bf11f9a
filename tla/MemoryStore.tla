----------------------------- MODULE MemoryStore -----------------------------
(***************************************************************************)
(* MemoryStore (core/brain/context_compressor.py): one file per memory     *)
(* record, the index MEMORY.md and a journal naming the one file that a    *)
(* mutation is publishing.                                                 *)
(*                                                                         *)
(* Every writable call runs in _mutation_transaction, under a thread lock  *)
(* and a process lock: one call is under way at a time, and it may be cut  *)
(* off after any write, by an exception or by a crash.  A file is replaced *)
(* and flushed as one step.  Rows of the index are a set: their order and  *)
(* repetitions are left out, as are the summaries they quote.              *)
(***************************************************************************)
EXTENDS SemanticCompressor

CONSTANTS
  File,    \* the file numbers
  Input,   \* the records a caller may store
  Absent,  \* no such file
  Junk,    \* a file that does not parse, left by somebody else
  NoFile,  \* no journal
  None,    \* no consolidation yet, or the records were changed since
  Legacy   \* the files found when the directory is first opened

ASSUME MemoryAssumption ==
  /\ File \subseteq Nat /\ Input \subseteq Record
  /\ \A e \in Input : e.file \in File
  /\ Absent \notin Record /\ Junk \notin Record /\ Absent # Junk
  /\ NoFile \notin File /\ None \notin [left : SUBSET Record, roomy : BOOLEAN]
  /\ Legacy \in [File -> {Absent, Junk}]

VARIABLES
  entry,    \* the entry files
  listing,  \* the rows of MEMORY.md
  journal,  \* the file named by .memory-journal
  pc,       \* where the transaction is; "idle" when the locks are free
  call,     \* the call it serves
  job,      \* the stores and deletions it has still to publish
  before,   \* the payload of the file being published, for a rollback
  target    \* what the latest consolidation set out to leave

disk == <<entry, listing, journal>>
mvars == <<disk, pc, call, job, before, target>>

Parses(f) == entry[f] \notin {Absent, Junk}
Loaded == {entry[f] : f \in {g \in File : Parses(g)}}

\* The tokens of all records.
Adding(n, e) == n + Tokens(e)
Size(records) == FoldLeft(Adding, 0, Sorted(records))

\* The full title, as a row shows it.
Name(e) == <<e.title, e.marker>>
Row     == [name : Title \X Marker, file : File]
RowOf(e) == [name |-> Name(e), file |-> e.file]

Step == {s \in [kind : {"store"}, file : File, value : Record] : s.value.file = s.file}
          \cup [kind : {"delete"}, file : File, value : {Absent}]
Call == [kind : {"open", "consolidate"}]
          \cup [kind : {"store"}, value : Input]
          \cup [kind : {"delete", "probe"}, file : File]
NoCall == [kind |-> "open"]

PC == {"idle", "recover", "reconciled", "plan", "work", "journalled", "written",
       "indexed", "rollback"}

\* Where a step of the job is being published.
Publishing == {"journalled", "written", "indexed", "rollback"}

MemoryTypeOK ==
  /\ entry \in [File -> Record \cup {Absent, Junk}]
  /\ \A f \in File : Parses(f) => entry[f].file = f
  /\ listing \subseteq Row
  /\ journal \in File \cup {NoFile}
  /\ pc \in PC
  /\ call \in Call
  /\ pc \in Publishing => Head(job) \in Step /\ journal = Head(job).file
  /\ before \in Record \cup {Absent, Junk}

MemoryInit ==
  /\ entry = Legacy /\ listing = {} /\ journal = NoFile
  /\ pc = "idle" /\ call = NoCall /\ job = <<>>
  /\ before = Absent /\ target = None

-----------------------------------------------------------------------------
(* The index as it is after a store or a deletion.  A row is replaced when *)
(* it points at the file or bears the title of the new row.                *)

Updated(e) == {r \in listing : r.file # e.file /\ r.name # Name(e)} \cup {RowOf(e)}
Removed(f) == {r \in listing : r.file # f}
Indexed(s) == IF s.kind = "store" THEN Updated(s.value) ELSE Removed(s.file)

\* The index brought in line with the journalled file.
Reconciled(f) == CASE entry[f] = Absent -> Removed(f)
                   [] entry[f] = Junk   -> listing
                   [] Parses(f)         -> Updated(entry[f])

-----------------------------------------------------------------------------
(* A transaction.                                                          *)

\* The call takes the locks; a constructor and a writable load only recover.
Enter(c) ==
  /\ pc = "idle"
  /\ pc' = "recover" /\ call' = c
  /\ UNCHANGED <<disk, job, before, target>>

\* No journal: nothing was cut off.
NothingToRecover ==
  /\ pc = "recover" /\ journal = NoFile
  /\ pc' = "plan"
  /\ UNCHANGED <<disk, call, job, before, target>>

Reconcile ==
  /\ pc = "recover" /\ journal # NoFile
  /\ listing' = Reconciled(journal)
  /\ pc' = "reconciled"
  /\ UNCHANGED <<entry, journal, call, job, before, target>>

Recovered ==
  /\ pc = "reconciled"
  /\ journal' = NoFile
  /\ pc' = "plan"
  /\ UNCHANGED <<entry, listing, call, job, before, target>>

Put(e) == [kind |-> "store", file |-> e.file, value |-> e]
Drop(f) == [kind |-> "delete", file |-> f, value |-> Absent]

PlanOpen ==
  /\ call.kind = "open"
  /\ UNCHANGED <<job, target>>

PlanStore ==
  /\ call.kind = "store"
  /\ job' = <<Put(call.value)>> /\ target' = None

(* delete refuses the probes of the integration tests, delete_probe any    *)
(* other record; neither touches a file that does not parse.               *)
PlanDelete ==
  /\ call.kind \in {"delete", "probe"}
  /\ LET found == Parses(call.file) /\ entry[call.file].probe = (call.kind = "probe")
     IN /\ job' = IF found THEN <<Drop(call.file)>> ELSE <<>>
        /\ target' = IF found THEN None ELSE target

\* Mutant of PutsFirst: room is made first.
DropsFirst(puts, drops) == drops \o puts

\* The survivors are stored before the others are deleted.
PutsFirst(puts, drops) == puts \o drops

(* Every survivor is stored, and every loaded file that none of them has   *)
(* is deleted.                                                             *)
PlanConsolidate ==
  /\ call.kind = "consolidate"
  /\ LET survivors == Compress(Loaded)
         kept == {survivors[i].file : i \in DOMAIN survivors}
         gone == Ordered({e.file : e \in Loaded} \ kept, <)
     IN /\ job' = PutsFirst([i \in DOMAIN survivors |-> Put(survivors[i])],
                            [i \in DOMAIN gone |-> Drop(gone[i])])
        /\ target' = [left |-> ToSet(survivors), roomy |-> Size(Loaded) <= Budget]

Plan ==
  /\ pc = "plan"
  /\ (PlanOpen \/ PlanStore \/ PlanDelete \/ PlanConsolidate)
  /\ pc' = "work"
  /\ UNCHANGED <<disk, call, before>>

-----------------------------------------------------------------------------
(* Publishing one step: journal, entry, index, journal.                    *)

(* A record is validated before it is stored; only an existing file of     *)
(* this store is deleted.                                                  *)
Publishable(s) == s \in Step /\ (s.kind = "delete" => entry[s.file] # Absent)

WriteJournal ==
  /\ pc = "work" /\ job # <<>> /\ Publishable(Head(job))
  /\ journal = NoFile
  /\ journal' = Head(job).file
  /\ before' = entry[Head(job).file]
  /\ pc' = "journalled"
  /\ UNCHANGED <<entry, listing, call, job, target>>

\* The entry file is replaced or unlinked.
WriteEntry ==
  /\ pc = "journalled"
  /\ entry' = [entry EXCEPT ![journal] = Head(job).value]
  /\ pc' = "written"
  /\ UNCHANGED <<listing, journal, call, job, before, target>>

WriteListing ==
  /\ pc = "written"
  /\ listing' = Indexed(Head(job))
  /\ pc' = "indexed"
  /\ UNCHANGED <<entry, journal, call, job, before, target>>

ClearJournal ==
  /\ pc = "indexed"
  /\ journal' = NoFile
  /\ job' = Tail(job)
  /\ before' = Absent
  /\ pc' = "work"
  /\ UNCHANGED <<entry, listing, call, target>>

Leave ==
  /\ pc' = "idle"
  /\ call' = NoCall /\ job' = <<>> /\ before' = Absent
  /\ UNCHANGED target

Return ==
  /\ pc = "work" /\ job = <<>>
  /\ Leave
  /\ UNCHANGED disk

(* The index cannot be replaced, or the replacement cannot be flushed: the *)
(* entry is to be put back.                                                *)
IndexFails ==
  /\ pc = "written"
  /\ listing' \in {listing, Indexed(Head(job))}
  /\ pc' = "rollback"
  /\ UNCHANGED <<entry, journal, call, job, before, target>>

\* The entry is put back, the journal is left, and the call raises.
RestoreEntry ==
  /\ pc = "rollback"
  /\ entry' = [entry EXCEPT ![journal] = before]
  /\ Leave
  /\ UNCHANGED <<listing, journal>>

(* Any other write fails and the call raises, or the process dies.         *)
CutOff ==
  /\ pc # "idle"
  /\ Leave
  /\ UNCHANGED disk

MemoryNext ==
  \/ \E c \in Call : Enter(c)
  \/ NothingToRecover \/ Reconcile \/ Recovered
  \/ Plan
  \/ WriteJournal \/ WriteEntry \/ WriteListing \/ ClearJournal \/ Return
  \/ IndexFails \/ RestoreEntry \/ CutOff

MemorySpec == MemoryInit /\ [][MemoryNext]_mvars

-----------------------------------------------------------------------------
(* Properties.                                                             *)

RowsAgree ==
  \A r \in listing : r.file # journal =>
    entry[r.file] = Junk \/ (Parses(r.file) /\ r.name = Name(entry[r.file]))

PublishedHasRow ==
  pc \in {"indexed", "reconciled"} /\ entry[journal] # Junk =>
    (Parses(journal) <=> \E r \in listing : r.file = journal)

ConsolidatedListed ==
  pc = "work" /\ job = <<>> /\ call.kind = "consolidate" =>
    \A f \in File : Parses(f) => \E r \in listing : r.name = Name(entry[f])

(* MEMORY.md follows the entry files.  Only the row of the journalled file *)
(* may disagree with its file; before the journal is cleared the file has  *)
(* a row exactly when it exists and parses; and a consolidation that runs  *)
(* to its end lists every title again, whatever was cut off before.        *)
IndexFollows == RowsAgree /\ PublishedHasRow /\ ConsolidatedListed

\* Which sentences are said, and under which titles.
Words(e) == ToSet(e.content) \cap Body
Said(records) == UNION {{e.title} \X Words(e) : e \in records}

(* However a consolidation is cut off, every sentence its survivors were   *)
(* to say is still in some file, under the same title: a merged record is  *)
(* on disk before the file it absorbed is deleted.                         *)
BodiesKept ==
  target # None => Said(target.left) \subseteq Said(Loaded)

(* Wherever a consolidation stands or was cut off, consolidating what is   *)
(* on disk says the same sentences under the same titles, and so does      *)
(* consolidating its result again, for as long as the records fit the      *)
(* token budget and none has to be truncated, summarized or dropped for    *)
(* room.  The records need not be the same ones.                           *)
Converges ==
  target # None /\ target.roomy /\ Size(Loaded) <= Budget =>
    Said(ToSet(Compress(Loaded))) = Said(target.left)

(* What the memory store promises of its records, wherever an operation is  *)
(* cut off: MEMORY.md follows the files, no sentence is lost, and the next  *)
(* consolidation says what this one was to say.                             *)
RecordsKept == IndexFollows /\ BodiesKept /\ Converges

(* The same at the end of every consolidation, whatever the budget: what   *)
(* the README says and the code does not do.                               *)
FixedPoint ==
  pc = "work" /\ job = <<>> /\ call.kind = "consolidate" =>
    ToSet(Compress(Loaded)) = target.left

=============================================================================
