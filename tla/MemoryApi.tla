------------------------------- MODULE MemoryApi -------------------------------
(***************************************************************************)
(* The memory endpoints (src/src/app/memory_api.py, routed by main.py and  *)
(* main_fastapi.py): search through the SQLite index that is derived from  *)
(* the Markdown store (adapters/sqlite_memory_index.py), export and        *)
(* import, backups and restore, and retention.                             *)
(*                                                                         *)
(* A service answers one request at a time, but a request is many steps:   *)
(* every load of the store, store or deletion of a record, transaction of  *)
(* the database and file operation is one.  Between them another process   *)
(* may write the store, whose locks are per mutation, and the service may  *)
(* crash.  MemoryStore models what happens inside a mutation.              *)
(***************************************************************************)
EXTENDS Integers, FiniteSets, FiniteSetsExt

CONSTANTS
  MemFile,     \* the record files, numbered in the order of their names
  IdOf,        \* the record id a file name ends with
  Text,        \* what a record may contain
  Found,       \* the records there are when the service is first started
  Window,      \* MEMORY_API_MAX_FILES
  MaxEmbeds,   \* MEMORY_API_SEMANTIC_MAX_EMBEDS
  MaxRetained, \* the largest retention a backup is asked for
  MaxBackups,  \* bound on the backups
  MaxTrouble   \* bound on writes to the store and crashes

ASSUME MemoryApiAssumption ==
  /\ MemFile \subseteq Nat /\ IsFiniteSet(MemFile)
  /\ Found \in [MemFile -> Text \cup {"missing"}]
  /\ {Window, MaxEmbeds, MaxRetained} \subseteq Nat \ {0}
  /\ {MaxBackups, MaxTrouble} \subseteq Nat

VARIABLES
  markdown, \* the store: the text of every record file there is
  db,       \* the index database
  link,     \* the service's connection to it, kept from search to search
  req,      \* the request being served
  backups,  \* the files in backups/
  tally     \* writes and crashes so far

apiVars == <<markdown, db, link, req, backups, tally>>

Missing == "missing"
Here == {f \in MemFile : markdown[f] # Missing}
Rec(f) == [file |-> f, id |-> IdOf[f], text |-> markdown[f]]

\* load_memory_entries_for_api: the first files in the order of their names.
FirstFiles(n, fs) == {f \in fs : Cardinality({g \in fs : g < f}) < n}
Snapshot == {Rec(f) : f \in FirstFiles(Window, Here)}

Ids(records) == {r.id : r \in records}
Unique(records) == Cardinality(Ids(records)) = Cardinality(records)

\* A database: its version, entry_fingerprint (<<>> or of one record set), and
\* the three derived tables.
Database(version) ==
  [version |-> version, print |-> <<>>, rows |-> {}, fts |-> {}, vectors |-> {}]

Free == [pc |-> "idle", mode |-> "", snap |-> {}, rows |-> {}, todo |-> {}, hits |-> {}, keep |-> 0, stamp |-> 0]

\* Before the upgrade to version 3 the database may hold rows of any store.
OldDatabase(records) ==
  [Database("old") EXCEPT !.print = <<records>>, !.rows = records, !.fts = records]

ApiInit ==
  /\ markdown = Found
  /\ db \in {Database("none"), OldDatabase(Snapshot)}
  /\ link = FALSE /\ req = Free /\ backups = {}
  /\ tally = 0

Goes(pc) == req' = [req EXCEPT !.pc = pc]
Ends == req' = Free
Troubled == tally < MaxTrouble /\ tally' = tally + 1

-----------------------------------------------------------------------------
(* The store, by its own API and from elsewhere.                            *)

StoreRecord(f, t) ==
  /\ Troubled
  /\ markdown' = [markdown EXCEPT ![f] = t]
  /\ UNCHANGED <<db, link, req, backups>>

DeleteRecord(f) ==
  /\ markdown[f] # Missing /\ Troubled
  /\ markdown' = [markdown EXCEPT ![f] = Missing]
  /\ UNCHANGED <<db, link, req, backups>>

-----------------------------------------------------------------------------
(* Search                                                                   *)

Search(mode) ==
  /\ req.pc = "idle"
  /\ req' = [Free EXCEPT !.pc = IF link THEN "reconcile" ELSE "schema", !.mode = mode, !.snap = Snapshot]
  /\ UNCHANGED <<markdown, db, link, backups, tally>>

\* _connect and the first half of _ensure_schema.
EnsureSchema ==
  /\ req.pc = "schema"
  /\ CASE db.version = "none" -> Goes("version") /\ UNCHANGED link
       [] db.version = "old" -> Goes("drop") /\ UNCHANGED link
       [] db.version = "current" -> Goes("reconcile") /\ link' = TRUE
  /\ UNCHANGED <<markdown, db, backups, tally>>

\* _reset_schema: the tables are dropped one by one, outside of the
\* transaction that empties index_meta and creates them again.
DropTables ==
  /\ req.pc = "drop"
  /\ db' = [db EXCEPT !.rows = {}, !.fts = {}, !.vectors = {}]
  /\ Goes("reset")
  /\ UNCHANGED <<markdown, link, backups, tally>>

ResetMeta ==
  /\ req.pc = "reset"
  /\ db' = [db EXCEPT !.version = "none", !.print = <<>>]
  /\ Goes("version")
  /\ UNCHANGED <<markdown, link, backups, tally>>

WriteVersion ==
  /\ req.pc = "version"
  /\ db' = [db EXCEPT !.version = "current"] /\ link' = TRUE
  /\ Goes("reconcile")
  /\ UNCHANGED <<markdown, backups, tally>>

\* Every table is rewritten, in one transaction; vectors of records that are
\* still there are kept.
Rewritten(records) ==
  [db EXCEPT !.print = <<records>>, !.rows = records, !.fts = records,
             !.vectors = {v \in @ : v.id \in Ids(records)}]

ReconcileIndex ==
  /\ req.pc = "reconcile"
  /\ IF Unique(req.snap)
     THEN /\ db' = IF db.print = <<req.snap>> THEN db ELSE Rewritten(req.snap)
          /\ Goes("fetch")
     ELSE Ends /\ UNCHANGED db
  /\ UNCHANGED <<markdown, link, backups, tally>>

\* fetch_entries; the lexical and full-text searches answer from what they read.
FetchEntries ==
  /\ req.pc = "fetch"
  /\ req' = IF req.mode = "semantic" THEN [req EXCEPT !.pc = "backlog", !.rows = db.rows] ELSE Free
  /\ UNCHANGED <<markdown, db, link, backups, tally>>

\* vector_backlog: rows without a vector for their content.
Backlog(rows) == {r \in rows : ~ \E v \in db.vectors : v.id = r.id /\ v.hash = r.text}

\* The first of the backlog, in the order of the rows.  Mutant: the first rows.
FirstRows(rows) == {r \in rows \cap Backlog(rows) : Cardinality({q \in rows : q.file < r.file}) < MaxEmbeds}
Batch(rows) == {r \in Backlog(rows) :
                  Cardinality({q \in Backlog(rows) : q.file < r.file}) < MaxEmbeds}

TakeBatch ==
  /\ req.pc = "backlog"
  /\ req' = [req EXCEPT !.pc = IF Backlog(req.rows) = {} THEN "query" ELSE "embed",
                        !.todo = Batch(req.rows)]
  /\ UNCHANGED <<markdown, db, link, backups, tally>>

\* The provider answers for the whole batch, and the vectors are stored with
\* the hash of the text they were made from.
StoreVectors ==
  /\ req.pc = "embed"
  /\ db' = [db EXCEPT !.vectors = {v \in @ : v.id \notin Ids(req.todo)}
              \cup {[id |-> r.id, hash |-> r.text, of |-> r.text] : r \in req.todo}]
  /\ Goes("query")
  /\ UNCHANGED <<markdown, link, backups, tally>>

\* The provider is unreachable, or its answer violates the port.
EmbedFails ==
  /\ req.pc \in {"embed", "query"}
  /\ Ends
  /\ UNCHANGED <<markdown, db, link, backups, tally>>

\* search_semantic joins the vectors to the rows on the id and the hash.
\* Mutant: on the id alone.
MatchedById(r, v) == r.id = v.id
Matched(r, v) == r.id = v.id /\ r.text = v.hash

SearchSemantic ==
  /\ req.pc = "query"
  /\ req' = [Free EXCEPT !.pc = "answer",
       !.hits = {[id |-> p[1].id, text |-> p[1].text, of |-> p[2].of] :
                   p \in {q \in db.rows \X db.vectors : Matched(q[1], q[2])}}]
  /\ UNCHANGED <<markdown, db, link, backups, tally>>

SearchAnswers ==
  /\ req.pc = "answer"
  /\ Ends
  /\ UNCHANGED <<markdown, db, link, backups, tally>>

-----------------------------------------------------------------------------
(* Export and import                                                        *)

\* import_memory_entries_for_api reads the ids there are, once.
ImportFrom(payload) ==
  req' = [Free EXCEPT !.pc = "import", !.rows = payload, !.snap = Snapshot]

Import(payload) ==
  /\ req.pc = "idle" /\ Troubled
  /\ ImportFrom(payload)
  /\ UNCHANGED <<markdown, db, link, backups>>

\* One record of the batch is skipped, rejected, or stored by its own file
\* name; the ids seen before it are skipped as well.
Skipped(r) == r.id \in Ids(req.snap)

ImportRecord ==
  /\ req.pc = "import" /\ req.rows # {}
  /\ LET r == CHOOSE q \in req.rows : \A p \in req.rows : q.file <= p.file IN
       \/ /\ req' = [req EXCEPT !.rows = @ \ {r}, !.snap = @ \cup {r}]
          /\ markdown' = IF Skipped(r) THEN markdown ELSE [markdown EXCEPT ![r.file] = r.text]
       \/ /\ ~Skipped(r) /\ UNCHANGED markdown
          /\ req' = [req EXCEPT !.rows = @ \ {r}]
  /\ UNCHANGED <<db, link, backups, tally>>

ImportEnds ==
  /\ req.pc = "import" /\ req.rows = {}
  /\ Ends
  /\ UNCHANGED <<markdown, db, link, backups, tally>>

-----------------------------------------------------------------------------
(* Backups: a file is named by its time, and whole or not.                  *)

Latest == Max({0} \cup {b.stamp : b \in backups})

Backup(retained) ==
  /\ req.pc = "idle" /\ Latest < MaxBackups
  /\ req' = [Free EXCEPT !.pc = "write", !.snap = Snapshot, !.keep = retained]
  /\ UNCHANGED <<markdown, db, link, backups, tally>>

\* The file is renamed into place: its write failed, or it is there.  What the
\* disk kept may not be what was written.
WriteBackup ==
  /\ req.pc = "write"
  /\ \/ Ends /\ UNCHANGED backups
     \/ \E intact \in BOOLEAN :
          /\ backups' = backups \cup {[stamp |-> Latest + 1, payload |-> req.snap, intact |-> intact]}
          /\ req' = [req EXCEPT !.pc = "verify", !.stamp = Latest + 1]
  /\ UNCHANGED <<markdown, db, link, tally>>

\* _read_backup_envelope: the checksum is that of the payload.  Mutant: a file
\* that is there is taken as it is.
BackupUnchecked(b) == TRUE
BackupWhole(b) == b.intact

\* What was just written is read back before older backups are removed.
VerifyBackup ==
  /\ req.pc = "verify"
  /\ IF \E b \in backups : b.stamp = req.stamp /\ BackupWhole(b) THEN Goes("retire") ELSE Ends
  /\ UNCHANGED <<markdown, db, link, backups, tally>>

\* _prune_old_backups: the files beyond the newest are removed, oldest first;
\* one that cannot be removed stays.
Surplus == {b \in backups : Cardinality({c \in backups : c.stamp > b.stamp}) >= req.keep}

PruneBackups ==
  /\ req.pc = "retire"
  /\ \/ \E b \in Surplus :
          /\ \A c \in Surplus : b.stamp <= c.stamp
          /\ backups' = backups \ {b} /\ UNCHANGED req
     \/ Ends /\ UNCHANGED backups
  /\ UNCHANGED <<markdown, db, link, tally>>

\* restore_memory_backup_for_api: a verified payload is imported.
RestoreBackup(b) ==
  /\ req.pc = "idle" /\ Troubled
  /\ IF BackupWhole(b) THEN ImportFrom(b.payload) ELSE UNCHANGED req
  /\ UNCHANGED <<markdown, db, link, backups>>

-----------------------------------------------------------------------------
(* Retention: the policy picks victims from one snapshot, which are then    *)
(* deleted one by one.                                                      *)

PruneEntries(victims) ==
  /\ req.pc = "idle" /\ Troubled
  /\ req' = [Free EXCEPT !.pc = "prune", !.todo = victims]
  /\ UNCHANGED <<markdown, db, link, backups>>

PruneEntry ==
  /\ req.pc = "prune" /\ req.todo # {}
  /\ \E r \in req.todo :
       /\ req' = [req EXCEPT !.todo = @ \ {r}]
       /\ markdown' \in {markdown, [markdown EXCEPT ![r.file] = Missing]}
  /\ UNCHANGED <<db, link, backups, tally>>

PruneEnds ==
  /\ req.pc = "prune" /\ req.todo = {}
  /\ Ends
  /\ UNCHANGED <<markdown, db, link, backups, tally>>

-----------------------------------------------------------------------------
\* The service stops anywhere; what is not committed is not there.
ServiceCrash ==
  /\ Troubled
  /\ req' = Free /\ link' = FALSE
  /\ UNCHANGED <<markdown, db, backups>>

SearchStep ==
  \/ EnsureSchema \/ DropTables \/ ResetMeta \/ WriteVersion \/ ReconcileIndex \/ FetchEntries
  \/ TakeBatch \/ SearchSemantic \/ SearchAnswers

OtherStep ==
  \/ ImportRecord \/ ImportEnds \/ WriteBackup \/ VerifyBackup \/ PruneBackups
  \/ PruneEntry \/ PruneEnds

Requests ==
  \/ \E mode \in {"lexical", "semantic"} : Search(mode)
  \/ \E retained \in 1 .. MaxRetained : Backup(retained)
  \/ \E b \in backups : RestoreBackup(b)
  \/ Import(Snapshot)
  \/ \E victims \in SUBSET Snapshot : PruneEntries(victims)

ApiNext ==
  \/ Requests \/ SearchStep \/ OtherStep \/ StoreVectors \/ EmbedFails \/ ServiceCrash
  \/ \E f \in MemFile : DeleteRecord(f) \/ \E t \in Text : StoreRecord(f, t)

ApiSpec == ApiInit /\ [][ApiNext]_apiVars

\* A request that is being served goes on; semantic searches keep coming, and
\* the provider does not fail for ever.
ApiFairness ==
  /\ WF_apiVars(SearchStep) /\ WF_apiVars(OtherStep)
  /\ SF_apiVars(Search("semantic")) /\ SF_apiVars(StoreVectors)

FairApiSpec == ApiSpec /\ ApiFairness

-----------------------------------------------------------------------------
(* A database that is in use says of itself what it holds: the fingerprint *)
(* that lets a search skip the rewrite is that of the rows and of the      *)
(* full-text table, however an upgrade or a reconciliation was cut off.    *)
FingerprintTrue ==
  db.version = "current" =>
    db.fts = db.rows /\ db.print = IF db.print = <<>> /\ db.rows = {} THEN <<>> ELSE <<db.rows>>

(* A semantic hit was ranked by a vector of the text it is shown with,     *)
(* whatever was stored, embedded and indexed while the search waited for   *)
(* its provider.                                                           *)
HitsAreCurrent == \A h \in req.hits : h.of = h.text

(* The derived database never answers for other records than it holds.     *)
IndexIsTrue == FingerprintTrue /\ HitsAreCurrent

(* Once a backup was written whole, a whole backup is on disk, whatever    *)
(* later backups, their retention and failing writes do.                   *)
BackupKept == [][(\E b \in backups : b.intact) => \E b \in backups' : b.intact]_apiVars

(* When the store comes to rest, repeated semantic searches embed all that *)
(* is indexed, a batch at a time, though batches fail and the service      *)
(* restarts.                                                               *)
CatchesUp == <>[](Backlog(db.rows) = {})
=============================================================================
