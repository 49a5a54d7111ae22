------------------------------- MODULE Documents -------------------------------
(***************************************************************************)
(* One document of a workspace (services/documents.py): upload and scan,   *)
(* indexing by workers, replacement, rebuilding, deletion, and the         *)
(* tombstones by which unused vectors and originals are removed.           *)
(*                                                                         *)
(* The process that holds `guard` is inside db.guard("documents:<user>").  *)
(* Reads of a worker before it, its failure handler, and the read of the   *)
(* tombstones are outside.  An original is stored under "<id>.v<version>"; *)
(* that key is the version's number here, and 0 the empty string.          *)
(***************************************************************************)
EXTENDS Naturals

CONSTANTS
  Procs,        \* requests, workers and recovery loops, of any replica
  Contents,     \* what a file may contain, by hash
  Clean,        \* the contents the scanner lets pass
  MaxAttempts,  \* max_job_retries + 1
  MaxVersion,   \* bound of the model: index versions
  MaxFaults,    \* bound of the model: processes that stop, calls that fail
  None

Versions == 1..MaxVersion
Keys == 0..MaxVersion

Scannable == {"scanning", "scan_failed"}
Searchable == {"ready", "rebuilding"}
Indexable == {"indexing", "rebuilding"}
Resendable == {"scan_failed", "quarantined", "failed", "deleted"}
Statuses == Scannable \union Searchable \union Indexable \union Resendable \union {"absent"}

Document == [status : Statuses, version : Keys, hash : Contents \union {None}, key : Keys,
             pver : Keys, phash : Contents \union {None}, pkey : Keys]
ScanJob == [state : {"none", "pending", "failed", "completed"}, attempts : 0..MaxAttempts, key : Keys]
Snapshot == [version : Keys, hash : Contents \union {None}]
Archived == [hash : Contents \union {None}, key : Keys]

ASSUME DocumentsAssumption ==
  /\ Clean \subseteq Contents
  /\ MaxAttempts \in Nat \ {0} /\ MaxVersion \in Nat /\ MaxFaults \in Nat
  /\ None \notin Contents /\ None \notin Nat /\ None \notin Procs
  /\ None \notin Snapshot /\ None \notin Archived

VARIABLES
  doc,         \* the row in documents
  job,         \* its row in document_scan_jobs
  tries,       \* metadata "index-attempt:<id>:<version>"
  chunks,      \* what the table chunks holds of it
  archive,     \* document_versions: version -> content and key
  revision,    \* workspace_corpus_revisions
  cleanup,     \* document_cleanup: version -> key
  quarantine, uploads,  \* the object store: key -> content
  vectors,     \* the vector store: version -> content
  guard,       \* who holds the document lock
  pc,          \* where each process is
  seen,        \* the row a worker read before it took the lock
  given,       \* the content a replacement brings
  row,         \* the tombstone a cleaner has read
  faults

tables == <<doc, job, tries, chunks, archive, revision, cleanup>>
stores == <<quarantine, uploads, vectors>>
process == <<guard, pc, seen, given, row>>
documentVars == <<tables, stores, process, faults>>

Steps == {"idle", "enrol", "put", "scan", "check", "accept", "giveUp", "stage", "vet",
          "offer", "claim", "embed", "publish", "upsert", "commit",
          "fail", "restore", "list", "sweep"}

Absent == [status |-> "absent", version |-> 0, hash |-> None, key |-> 0,
           pver |-> 0, phash |-> None, pkey |-> 0]
NoJob == [state |-> "none", attempts |-> 0, key |-> 0]
Nothing == [v \in Versions |-> None]

TypeOK ==
  /\ doc \in Document
  /\ job \in ScanJob
  /\ tries \in [Versions -> 0..MaxAttempts]
  /\ chunks \in Snapshot \union {None}
  /\ archive \in [Versions -> Archived \union {None}]
  /\ revision \in Nat
  /\ cleanup \in [Versions -> Keys \union {None}]
  /\ quarantine \in [Versions -> Contents \union {None}]
  /\ uploads \in [Versions -> Contents \union {None}]
  /\ vectors \in [Versions -> Contents \union {None}]
  /\ guard \in Procs \union {None}
  /\ pc \in [Procs -> Steps]
  /\ seen \in [Procs -> Document]
  /\ given \in [Procs -> Contents \union {None}]
  /\ row \in [Procs -> (Versions \X Keys) \union {None}]
  /\ faults \in Nat

Init ==
  /\ doc = Absent /\ job = NoJob /\ chunks = None /\ revision = 0
  /\ tries = [v \in Versions |-> 0]
  /\ archive = Nothing /\ cleanup = Nothing
  /\ quarantine = Nothing /\ uploads = Nothing /\ vectors = Nothing
  /\ guard = None
  /\ pc = [p \in Procs |-> "idle"]
  /\ seen = [p \in Procs |-> Absent]
  /\ given = [p \in Procs |-> None]
  /\ row = [p \in Procs |-> None]
  /\ faults = 0

Fault == faults < MaxFaults /\ faults' = faults + 1

-----------------------------------------------------------------------------
\* Entering and leaving the document lock.
Enter(p, from, to) ==
  /\ pc[p] = from /\ guard = None
  /\ guard' = p /\ pc' = [pc EXCEPT ![p] = to]

Within(p, from, to) ==
  /\ pc[p] = from
  /\ pc' = [pc EXCEPT ![p] = to]
  /\ UNCHANGED guard

Leave(p, from, to) ==
  /\ pc[p] = from
  /\ guard' = None /\ pc' = [pc EXCEPT ![p] = to]

\* A critical section that is one step.
Hold(p, from, to) ==
  /\ guard = None
  /\ Within(p, from, to)

\* INSERT OR IGNORE INTO document_cleanup: the first key noted for a version stays.
WithTombstone(table, v, k) == [table EXCEPT ![v] = IF @ = None THEN k ELSE @]

\* INSERT OR IGNORE INTO document_versions.
WithArchived(table, v, hash, key) ==
  [table EXCEPT ![v] = IF @ = None THEN [hash |-> hash, key |-> key] ELSE @]

NoPending(d) == [d EXCEPT !.pver = 0, !.phash = None, !.pkey = 0]

Upcoming == doc.version + 1

\* Scans of an upload and indexings of a version are limited alike.
HasAttempt(n) == n < MaxAttempts

Live == doc.status \notin {"absent", "deleted"}

-----------------------------------------------------------------------------
\* Upload: add, _add.  The tombstone of the version that is given up and the
\* row of the new one are written before anything is stored.
Upload(p, c) ==
  /\ Enter(p, "idle", "enrol")
  /\ doc.version < MaxVersion
  /\ doc.status = "absent" \/ (doc.status \in Resendable /\ doc.hash = c)
  /\ cleanup' = IF doc.status = "absent" THEN cleanup
                ELSE WithTombstone(cleanup, doc.version, doc.key)
  /\ doc' = [Absent EXCEPT !.status = "scanning", !.version = Upcoming,
                           !.hash = c, !.key = Upcoming]
  /\ UNCHANGED <<job, tries, chunks, archive, revision, stores, seen, given, row, faults>>

Enrol(p) ==
  /\ Within(p, "enrol", "put")
  /\ job' = [state |-> "pending", attempts |-> 0, key |-> doc.key]
  /\ UNCHANGED <<doc, tries, chunks, archive, revision, cleanup, stores, seen, given, row, faults>>

Store(p) ==
  /\ Within(p, "put", "scan")
  /\ quarantine' = [quarantine EXCEPT ![doc.key] = doc.hash]
  /\ UNCHANGED <<tables, uploads, vectors, seen, given, row, faults>>

\* The store reports an error; it may have kept the object all the same.
StoreFails(p) ==
  /\ Fault
  /\ Leave(p, "put", "list")
  /\ quarantine' \in {quarantine, [quarantine EXCEPT ![doc.key] = doc.hash]}
  /\ doc' = [doc EXCEPT !.status = "scan_failed"]
  /\ UNCHANGED <<job, tries, chunks, archive, revision, cleanup, uploads, vectors, seen, given, row>>

-----------------------------------------------------------------------------
\* recover_scans.  A document without a scan job gets one.
AdoptScan ==
  /\ doc.status = "scanning" /\ job.state = "none"
  /\ job' = [state |-> "pending", attempts |-> 0, key |-> doc.key]
  /\ UNCHANGED <<doc, tries, chunks, archive, revision, cleanup, stores, process, faults>>

\* The persisted cooldown between two attempts is any delay.
RecoverScan(p) ==
  /\ Enter(p, "idle", "scan")
  /\ job.state = "pending" /\ doc.status \in Scannable
  /\ UNCHANGED <<tables, stores, seen, given, row, faults>>

\* _finish_scan, in the lock of its caller.
CountScan(p) ==
  /\ Within(p, "scan", "check")
  /\ HasAttempt(job.attempts)
  /\ job' = [job EXCEPT !.attempts = @ + 1]
  /\ UNCHANGED <<doc, tries, chunks, archive, revision, cleanup, stores, seen, given, row, faults>>

Original == IF quarantine[job.key] # None THEN quarantine[job.key] ELSE uploads[job.key]

\* No attempt is left, or there is nothing to scan.
ScanImpossible(p) ==
  /\ \/ Within(p, "scan", "giveUp") /\ ~HasAttempt(job.attempts)
     \/ Within(p, "check", "giveUp") /\ Original = None
  /\ job' = [job EXCEPT !.state = "failed"]
  /\ UNCHANGED <<doc, tries, chunks, archive, revision, cleanup, stores, seen, given, row, faults>>

\* The second of the two updates of a scan that is given up.
GiveUp(p) ==
  /\ Leave(p, "giveUp", "list")
  /\ doc' = [doc EXCEPT !.status = "scan_failed"]
  /\ UNCHANGED <<job, tries, chunks, archive, revision, cleanup, stores, seen, given, row, faults>>

\* Mutant: the verdict of the scanner is ignored.
PassesAlways(content) == content \in Contents

\* What the scanner lets pass.
Passes(content) == content \in Clean

Rejected(p) ==
  /\ Leave(p, "check", "list")
  /\ Original # None
  /\ Original # doc.hash \/ ~Passes(Original)
  /\ doc' = [doc EXCEPT !.status = "quarantined"]
  /\ job' = [job EXCEPT !.state = "failed"]
  /\ UNCHANGED <<tries, chunks, archive, revision, cleanup, stores, seen, given, row, faults>>

Verified == Original # None /\ Original = doc.hash /\ Passes(Original)

\* Storage or scanner unavailable; a move may have copied and not deleted.
ScanUnavailable(p) ==
  /\ Fault
  /\ Leave(p, "check", "list")
  /\ doc' = [doc EXCEPT !.status = "scan_failed"]
  /\ \/ UNCHANGED uploads
     \/ Verified /\ uploads' = [uploads EXCEPT ![job.key] = Original]
  /\ UNCHANGED <<job, tries, chunks, archive, revision, cleanup, quarantine, vectors, seen, given, row>>

Release(p) ==
  /\ Within(p, "check", "accept")
  /\ Verified
  /\ uploads' = [uploads EXCEPT ![job.key] = Original]
  /\ quarantine' = [quarantine EXCEPT ![job.key] = None]
  /\ UNCHANGED <<tables, vectors, seen, given, row, faults>>

Accept(p) ==
  /\ Leave(p, "accept", "list")
  /\ doc' = IF doc.status \in Scannable THEN [doc EXCEPT !.status = "indexing"] ELSE doc
  /\ job' = [job EXCEPT !.state = "completed"]
  /\ UNCHANGED <<tries, chunks, archive, revision, cleanup, stores, seen, given, row, faults>>

-----------------------------------------------------------------------------
\* replace: a new content for a ready document, staged under the next version.
\* The document in use is not touched until a worker publishes the new one.
Replace(p, c) ==
  /\ doc.status = "ready" /\ c # doc.hash /\ doc.version < MaxVersion
  /\ Enter(p, "idle", "stage")
  /\ cleanup' = WithTombstone(cleanup, Upcoming, Upcoming)
  /\ given' = [given EXCEPT ![p] = c]
  /\ UNCHANGED <<doc, job, tries, chunks, archive, revision, stores, seen, row, faults>>

Stage(p) ==
  /\ Within(p, "stage", "vet")
  /\ quarantine' = [quarantine EXCEPT ![Upcoming] = given[p]]
  /\ UNCHANGED <<tables, uploads, vectors, seen, given, row, faults>>

Vet(p) ==
  /\ Within(p, "vet", "offer")
  /\ Passes(given[p])
  /\ uploads' = [uploads EXCEPT ![Upcoming] = given[p]]
  /\ quarantine' = [quarantine EXCEPT ![Upcoming] = None]
  /\ UNCHANGED <<tables, vectors, seen, given, row, faults>>

Withdraw(p, from) ==
  /\ Leave(p, from, "list")
  /\ cleanup' = WithTombstone(cleanup, Upcoming, Upcoming)
  /\ given' = [given EXCEPT ![p] = None]
  /\ UNCHANGED <<doc, job, tries, chunks, archive, revision, vectors, seen, row>>

VetRejects(p) ==
  /\ Withdraw(p, "vet")
  /\ ~Passes(given[p])
  /\ UNCHANGED <<quarantine, uploads, faults>>

\* The store may have kept the object, the move may have copied and not deleted.
StageFails(p) ==
  /\ Fault
  /\ Withdraw(p, "stage")
  /\ quarantine' \in {quarantine, [quarantine EXCEPT ![Upcoming] = given[p]]}
  /\ UNCHANGED uploads

VetFails(p) ==
  /\ Fault
  /\ Withdraw(p, "vet")
  /\ \/ UNCHANGED uploads
     \/ Passes(given[p]) /\ uploads' = [uploads EXCEPT ![Upcoming] = given[p]]
  /\ UNCHANGED quarantine

Offer(p) ==
  /\ Leave(p, "offer", "idle")
  /\ doc' = [doc EXCEPT !.status = "rebuilding", !.pver = Upcoming, !.phash = given[p], !.pkey = Upcoming]
  /\ given' = [given EXCEPT ![p] = None]
  /\ UNCHANGED <<job, tries, chunks, archive, revision, cleanup, stores, seen, row, faults>>

\* reindex: the same original under a new version.
Reindex(p) ==
  /\ Hold(p, "idle", "idle")
  /\ doc.status \in {"ready", "failed"} /\ doc.version < MaxVersion
  /\ uploads[doc.key] # None
  /\ tries' = [tries EXCEPT ![Upcoming] = 0]
  /\ doc' = IF doc.status = "ready"
            THEN [doc EXCEPT !.status = "rebuilding", !.pver = Upcoming,
                             !.phash = doc.hash, !.pkey = doc.key]
            ELSE [doc EXCEPT !.status = "indexing", !.version = Upcoming]
  /\ UNCHANGED <<job, chunks, archive, revision, cleanup, stores, seen, given, row, faults>>

\* Mutant: a document under replacement does not count as visible.
VisibleReady == doc.status = "ready"

\* A search reads the document's chunks.
Visible == doc.status \in Searchable

\* delete, one transaction.
Delete(p) ==
  /\ Hold(p, "idle", "list")
  /\ doc.status # "absent" /\ doc.version < MaxVersion
  /\ LET own == WithTombstone(cleanup, doc.version, doc.key) IN
       cleanup' = IF doc.pver # 0 THEN WithTombstone(own, doc.pver, doc.pkey) ELSE own
  /\ doc' = [NoPending(doc) EXCEPT !.status = "deleted", !.version = Upcoming]
  /\ IF Visible
     THEN /\ archive' = WithArchived(archive, doc.version, doc.hash, doc.key)
          /\ revision' = revision + 1
     ELSE UNCHANGED <<archive, revision>>
  /\ chunks' = None
  /\ job' = NoJob
  /\ UNCHANGED <<tries, stores, seen, given, row, faults>>

-----------------------------------------------------------------------------
\* Indexing: _ingest.  A queue may hand a document to several workers.
Rebuilding(d) == d.status = "rebuilding"
TargetVersion(d) == IF d.pver # 0 THEN d.pver ELSE d.version
TargetHash(d) == IF Rebuilding(d) THEN d.phash ELSE d.hash
TargetKey(d) == IF Rebuilding(d) THEN d.pkey ELSE d.key

TakeDocument(p) ==
  /\ Within(p, "idle", "claim")
  /\ doc.status \in Indexable
  /\ seen' = [seen EXCEPT ![p] = doc]
  /\ UNCHANGED <<tables, stores, given, row, faults>>

Attempt(p) ==
  LET v == TargetVersion(seen[p]) IN
  /\ Hold(p, "claim", "embed")
  /\ HasAttempt(tries[v])
  /\ tries' = [tries EXCEPT ![v] = @ + 1]
  /\ UNCHANGED <<doc, job, chunks, archive, revision, cleanup, stores, seen, given, row, faults>>

AttemptsExhausted(p) ==
  /\ Hold(p, "claim", "fail")
  /\ ~HasAttempt(tries[TargetVersion(seen[p])])
  /\ UNCHANGED <<tables, stores, seen, given, row, faults>>

\* The original is read, parsed and embedded outside the lock.
Embed(p) ==
  /\ Within(p, "embed", "publish")
  /\ uploads[TargetKey(seen[p])] = TargetHash(seen[p])
  /\ UNCHANGED <<tables, stores, seen, given, row, faults>>

SourceChanged(p) ==
  /\ Within(p, "embed", "fail")
  /\ uploads[TargetKey(seen[p])] # TargetHash(seen[p])
  /\ UNCHANGED <<tables, stores, seen, given, row, faults>>

\* Mutant: only the version is compared.
CurrentByVersion(d) == TargetVersion(doc) = TargetVersion(d)

\* The row still asks for what the worker has prepared.
Current(d) ==
  /\ doc.status = d.status
  /\ TargetVersion(doc) = TargetVersion(d)
  /\ Rebuilding(d) => doc.phash = d.phash

\* Parsing or a model call fails, or the corpus has no room left.
IndexFails(p) ==
  /\ Fault
  /\ \/ Within(p, "embed", "fail")
     \/ Hold(p, "publish", "fail") /\ Current(seen[p])
  /\ UNCHANGED <<tables, stores, seen, given, row>>

Outdated(p) ==
  /\ Hold(p, "publish", "idle")
  /\ ~Current(seen[p])
  /\ seen' = [seen EXCEPT ![p] = Absent]
  /\ UNCHANGED <<tables, stores, given, row, faults>>

BeginPublish(p) ==
  LET d == seen[p] IN
  /\ Enter(p, "publish", "upsert")
  /\ Current(d)
  /\ cleanup' = WithTombstone(cleanup, TargetVersion(d), TargetKey(d))
  /\ UNCHANGED <<doc, job, tries, chunks, archive, revision, stores, seen, given, row, faults>>

WithVectors(d) == [vectors EXCEPT ![TargetVersion(d)] = TargetHash(d)]

Upsert(p) ==
  /\ Within(p, "upsert", "commit")
  /\ vectors' = WithVectors(seen[p])
  /\ UNCHANGED <<tables, quarantine, uploads, seen, given, row, faults>>

\* The vector store or the transaction fails.
UpsertFails(p) ==
  /\ Fault
  /\ Leave(p, "upsert", "fail")
  /\ vectors' \in {vectors, WithVectors(seen[p])}
  /\ UNCHANGED <<tables, quarantine, uploads, seen, given, row>>

\* The row is one that the UPDATE of the publishing transaction changes.
Affected(d) ==
  /\ doc.status = d.status /\ doc.version = d.version
  /\ Rebuilding(d) => doc.pver = TargetVersion(d) /\ doc.phash = d.phash

Publish(p) ==
  LET d == seen[p]
      v == TargetVersion(d)
      old == IF Rebuilding(d) THEN WithArchived(archive, d.version, d.hash, d.key) ELSE archive
      kept == [cleanup EXCEPT ![v] = None]
  IN
  /\ Leave(p, "commit", "list")
  /\ Affected(d)
  /\ doc' = IF Rebuilding(d)
            THEN [NoPending(doc) EXCEPT !.status = "ready", !.version = v,
                                        !.hash = d.phash, !.key = d.pkey]
            ELSE [doc EXCEPT !.status = "ready", !.version = v, !.pver = 0]
  /\ archive' = WithArchived(old, v, TargetHash(d), TargetKey(d))
  /\ revision' = revision + 1
  /\ cleanup' = IF ~Rebuilding(d) THEN kept
                ELSE WithTombstone(kept, d.version, IF d.key # d.pkey THEN d.key ELSE 0)
  /\ chunks' = [version |-> v, hash |-> TargetHash(d)]
  /\ seen' = [seen EXCEPT ![p] = Absent]
  /\ UNCHANGED <<job, tries, stores, given, row, faults>>

PublishNothing(p) ==
  LET d == seen[p] IN
  /\ Leave(p, "commit", "list")
  /\ ~Affected(d)
  /\ cleanup' = WithTombstone(cleanup, TargetVersion(d), TargetKey(d))
  /\ seen' = [seen EXCEPT ![p] = Absent]
  /\ UNCHANGED <<doc, job, tries, chunks, archive, revision, stores, given, row, faults>>

\* Mutant: an outcome is recorded whatever has become of the document since.
StillIndexingVersion(d) == doc.version = d.version

\* The conditions of the failure handler's updates; it does not take the lock.
StillIndexing(d) == doc.status = "indexing" /\ doc.version = d.version

\* Mutant: the row is found by its id alone.
StillPendingById(d) == d \in Document

StillPending(d) ==
  /\ Rebuilding(doc) /\ doc.version = d.version
  /\ doc.pver = TargetVersion(d)

RecordFailure(p) ==
  LET d == seen[p] IN
  /\ Within(p, "fail", "idle")
  /\ ~Rebuilding(d)
  /\ doc' = IF StillIndexing(d)
            THEN [doc EXCEPT !.status = "failed", !.pver = 0] ELSE doc
  /\ seen' = [seen EXCEPT ![p] = Absent]
  /\ UNCHANGED <<job, tries, chunks, archive, revision, cleanup, stores, given, row, faults>>

GiveBack(p) ==
  LET d == seen[p] IN
  /\ Within(p, "fail", "restore")
  /\ Rebuilding(d)
  /\ cleanup' = WithTombstone(cleanup, TargetVersion(d), TargetKey(d))
  /\ UNCHANGED <<doc, job, tries, chunks, archive, revision, stores, seen, given, row, faults>>

Restore(p) ==
  LET d == seen[p] IN
  /\ Within(p, "restore", "list")
  /\ doc' = IF StillPending(d)
            THEN [NoPending(doc) EXCEPT !.status = "ready"] ELSE doc
  /\ seen' = [seen EXCEPT ![p] = Absent]
  /\ UNCHANGED <<job, tries, chunks, archive, revision, cleanup, stores, given, row, faults>>

-----------------------------------------------------------------------------
\* cleanup_pending: at the end of most operations, and in the recovery loop.
Tombstones == {<<v, cleanup[v]>> : v \in {u \in Versions : cleanup[u] # None}}

\* The rows of one read are independent of each other: a cleaner that has read
\* several is as many cleaners with one.
ReadTombstone(p) ==
  /\ \/ Tombstones = {} /\ Within(p, "list", "idle") /\ UNCHANGED row
     \/ /\ Within(p, "list", "sweep") \/ Within(p, "idle", "sweep")
        /\ \E tombstone \in Tombstones : row' = [row EXCEPT ![p] = tombstone]
  /\ UNCHANGED <<tables, stores, seen, given, faults>>

InUse(v) == Live /\ v \in {doc.version, doc.pver}

\* Mutant: a key is removed even when an archived version has its original there.
DisposableLoose(k) == k # 0 /\ (Live => k \notin {doc.key, doc.pkey})

Disposable(k) ==
  /\ k # 0
  /\ \A v \in Versions : archive[v] # None => archive[v].key # k
  /\ Live => k \notin {doc.key, doc.pkey}

Without(store, k) == IF Disposable(k) THEN [store EXCEPT ![k] = None] ELSE store

\* Mutant: the rows are handled without the lock.
RowDoneUnlocked(p) ==
  /\ Within(p, "sweep", "idle")
  /\ row' = [row EXCEPT ![p] = None]

RowDone(p) ==
  /\ Hold(p, "sweep", "idle")
  /\ row' = [row EXCEPT ![p] = None]

Keep(p) ==
  /\ RowDone(p)
  /\ InUse(row[p][1])
  /\ UNCHANGED <<tables, stores, seen, given, faults>>

Sweep(p) ==
  LET v == row[p][1]
      k == row[p][2]
  IN
  /\ RowDone(p)
  /\ ~InUse(v)
  /\ vectors' = [vectors EXCEPT ![v] = None]
  /\ uploads' = Without(uploads, k)
  /\ quarantine' = Without(quarantine, k)
  /\ cleanup' = [cleanup EXCEPT ![v] = None]
  /\ UNCHANGED <<doc, job, tries, chunks, archive, revision, seen, given, faults>>

\* One of the deletions fails; the tombstone stays for the next sweep.
SweepFails(p) ==
  LET v == row[p][1]
      k == row[p][2]
  IN
  /\ Fault
  /\ RowDone(p)
  /\ ~InUse(v)
  /\ \/ UNCHANGED stores
     \/ /\ vectors' = [vectors EXCEPT ![v] = None]
        /\ uploads' \in {uploads, Without(uploads, k)}
        /\ UNCHANGED quarantine
  /\ UNCHANGED <<tables, seen, given>>

-----------------------------------------------------------------------------
\* A process stops, or its request is cancelled; the lock is released.
Stop(p) ==
  /\ Fault
  /\ pc[p] # "idle"
  /\ pc' = [pc EXCEPT ![p] = "idle"]
  /\ guard' = IF guard = p THEN None ELSE guard
  /\ seen' = [seen EXCEPT ![p] = Absent]
  /\ given' = [given EXCEPT ![p] = None]
  /\ row' = [row EXCEPT ![p] = None]
  /\ UNCHANGED <<tables, stores>>

ScanStep(p) ==
  \/ CountScan(p) \/ ScanImpossible(p) \/ GiveUp(p)
  \/ Rejected(p) \/ ScanUnavailable(p) \/ Release(p) \/ Accept(p)

ReplaceStep(p) ==
  \/ Stage(p) \/ StageFails(p) \/ Vet(p) \/ VetRejects(p) \/ VetFails(p) \/ Offer(p)

IndexStep(p) ==
  \/ Attempt(p) \/ AttemptsExhausted(p) \/ Embed(p) \/ SourceChanged(p)
  \/ IndexFails(p) \/ Outdated(p)
  \/ BeginPublish(p) \/ Upsert(p) \/ UpsertFails(p) \/ Publish(p) \/ PublishNothing(p)
  \/ RecordFailure(p) \/ GiveBack(p) \/ Restore(p)

CleanStep(p) == ReadTombstone(p) \/ Keep(p) \/ Sweep(p) \/ SweepFails(p)

Next ==
  \/ AdoptScan
  \/ \E p \in Procs :
       \/ \E c \in Contents : Upload(p, c) \/ Replace(p, c)
       \/ Enrol(p) \/ Store(p) \/ StoreFails(p)
       \/ RecoverScan(p) \/ ScanStep(p)
       \/ ReplaceStep(p) \/ Reindex(p) \/ Delete(p)
       \/ TakeDocument(p) \/ IndexStep(p)
       \/ CleanStep(p) \/ Stop(p)

Spec == Init /\ [][Next]_documentVars

-----------------------------------------------------------------------------
\* The version a search reads is complete: its original is stored, its vectors
\* and its chunks are there and belong to the same content.  Failed and late
\* replacements, their clean-up and stale readers of tombstones leave it alone.
UseReadable ==
  doc.status \in Searchable =>
    /\ uploads[doc.key] = doc.hash
    /\ vectors[doc.version] = doc.hash
    /\ chunks = [version |-> doc.version, hash |-> doc.hash]

\* The original of an accepted replacement stays until a worker has published it
\* or given it up, although its version has a tombstone all the while.
PendingReadable == doc.status = "rebuilding" => uploads[doc.pkey] = doc.phash

\* Published versions can be read for ever: neither the clean-up of a version nor
\* a later upload under a key touches their originals.
OriginalsKept ==
  \A v \in Versions : archive[v] # None => uploads[archive[v].key] = archive[v].hash

\* Nothing reaches the area that indexing and downloads read before it has passed
\* the scanner, whichever step stopped or was repeated.
ScannedBeforeUse == \A k \in Versions : uploads[k] \in Clean \union {None}

\* A document that is not searchable has no chunks left.
OnlyLiveSearchable == chunks # None => doc.status \in Searchable

\* Whatever changes what a search returns changes the corpus revision with it,
\* by which reports and caches notice.
RevisionFences == [][chunks' # chunks => revision' # revision]_documentVars

\* A deleted document comes back only by a new upload, never by the worker, the
\* scan or the failure handler that was under way when it was deleted.
DeleteWins ==
  [][doc.status = "deleted" => doc'.status \in {"deleted", "scanning"}]_documentVars

=============================================================================
