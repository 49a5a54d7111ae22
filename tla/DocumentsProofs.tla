---------------------------- MODULE DocumentsProofs ----------------------------
(***************************************************************************)
(* Theorems about Documents, for any contents, processes and versions.     *)
(***************************************************************************)
EXTENDS Documents, TLAPS

Guarded == {"enrol", "put", "scan", "check", "accept", "giveUp", "stage", "vet",
            "offer", "upsert", "commit"}
Indexing == {"claim", "embed", "publish", "upsert", "commit", "fail", "restore"}

\* Only the holder of the lock is inside a critical section.
GuardInv == \A p \in Procs : pc[p] \in Guarded => guard = p

\* What a process in the middle of an operation knows of the row.  Steps that do
\* not take the lock change a row only while it is being indexed.
Knows(p) ==
  /\ pc[p] \in {"enrol", "put"} => doc.status = "scanning"
  /\ pc[p] \in {"scan", "check", "accept", "giveUp"} => doc.status \in Scannable
  /\ pc[p] \in {"stage", "vet", "offer"} => doc.status = "ready" /\ doc.version < MaxVersion
  /\ pc[p] \in Indexing => seen[p].status \in Indexable

WhereInv == \A p \in Procs : Knows(p)

DocumentInv == TypeOK /\ GuardInv /\ WhereInv

-----------------------------------------------------------------------------
(* Types.                                                                  *)

LEMMA BoundsAreNumbers == MaxAttempts \in Nat \ {0} /\ MaxVersion \in Nat
  BY DocumentsAssumption

LEMMA ZeroIsKey == 0 \in Keys
  BY BoundsAreNumbers DEF Keys

LEMMA StatusNames ==
  {"absent", "scanning", "scan_failed", "quarantined", "indexing", "failed", "ready",
   "rebuilding", "deleted"} \subseteq Statuses
  BY DEF Statuses, Scannable, Searchable, Indexable, Resendable

\* The operators that compute new rows have the types of their results.
LEMMA AbsentType == Absent \in Document
  BY ZeroIsKey, StatusNames DEF Absent, Document

LEMMA ClearedType ==
  ASSUME NEW d \in Document PROVE NoPending(d) \in Document
  BY ZeroIsKey DEF Document, NoPending

LEMMA TombstoneType ==
  ASSUME NEW t \in [Versions -> Keys \union {None}], NEW v, NEW k \in Keys
  PROVE  WithTombstone(t, v, k) \in [Versions -> Keys \union {None}]
  BY DEF WithTombstone

LEMMA ArchivedType ==
  ASSUME NEW t \in [Versions -> Archived \union {None}], NEW v,
         NEW h \in Contents \union {None}, NEW k \in Keys
  PROVE  WithArchived(t, v, h, k) \in [Versions -> Archived \union {None}]
  BY DEF WithArchived, Archived

LEMMA TargetTypes ==
  ASSUME NEW d \in Document
  PROVE  /\ TargetVersion(d) \in Keys /\ TargetKey(d) \in Keys
         /\ TargetHash(d) \in Contents \union {None}
  BY DEF TargetVersion, TargetKey, TargetHash, Document

LEMMA UpcomingType ==
  ASSUME doc \in Document, doc.version < MaxVersion
  PROVE  Upcoming \in Keys
  BY BoundsAreNumbers DEF Upcoming, Document, Keys

\* An attempt that is left can be counted.
LEMMA CountType ==
  ASSUME NEW n \in 0..MaxAttempts, HasAttempt(n) PROVE n + 1 \in 0..MaxAttempts
  BY BoundsAreNumbers DEF HasAttempt

\* The contents of a scanned original are those of a file.
LEMMA OriginalType ==
  ASSUME TypeOK PROVE Verified => Original \in Contents
  BY DocumentsAssumption DEF Verified, Passes

\* Uploads keep the types.
LEMMA UploadTypes ==
  ASSUME TypeOK, WhereInv, NEW p \in Procs,
         \/ (\E c \in Contents : Upload(p, c)) \/ Enrol(p) \/ Store(p) \/ StoreFails(p)
  PROVE  TypeOK'
<1>1. CASE \E c \in Contents : Upload(p, c)
  <2>1. PICK c \in Contents : Upload(p, c)
    BY <1>1
  <2>2. doc' \in Document
    BY <2>1, AbsentType, StatusNames, UpcomingType DEF Upload, Document, TypeOK
  <2>3. cleanup' \in [Versions -> Keys \union {None}]
    BY <2>1, TombstoneType DEF Upload, Document, TypeOK
  <2> QED
    BY <2>1, <2>2, <2>3 DEF Upload, Enter, stores, TypeOK, Steps
<1>2. CASE Enrol(p)
  BY <1>2, BoundsAreNumbers DEF Enrol, Within, ScanJob, Document, stores, TypeOK, Steps
<1>3. CASE Store(p)
  BY <1>3 DEF Store, Within, Document, tables, stores, TypeOK, Steps
<1>4. CASE StoreFails(p)
  BY <1>4, StatusNames DEF StoreFails, Fault, Leave, Document, stores, TypeOK, Steps
<1> QED BY <1>1, <1>2, <1>3, <1>4

\* So do scans.
LEMMA ScanTypes ==
  ASSUME TypeOK, WhereInv, NEW p \in Procs,
         \/ RecoverScan(p) \/ CountScan(p) \/ ScanImpossible(p) \/ GiveUp(p)
         \/ Rejected(p) \/ ScanUnavailable(p) \/ Release(p) \/ Accept(p)
  PROVE  TypeOK'
<1>1. CASE RecoverScan(p)
  BY <1>1 DEF RecoverScan, Enter, tables, stores, TypeOK, Steps
<1>2. CASE CountScan(p)
  BY <1>2, CountType DEF CountScan, Within, ScanJob, stores, TypeOK, Steps
<1>3. CASE ScanImpossible(p)
  BY <1>3 DEF ScanImpossible, Within, ScanJob, stores, TypeOK, Steps
<1>4. CASE GiveUp(p)
  BY <1>4, StatusNames DEF GiveUp, Leave, Document, stores, TypeOK, Steps
<1>5. CASE Rejected(p)
  BY <1>5, StatusNames DEF Rejected, Leave, ScanJob, Document, stores, TypeOK, Steps
<1>6. CASE ScanUnavailable(p)
  <2>1. doc' \in Document
    BY <1>6, StatusNames DEF ScanUnavailable, Document, TypeOK
  <2>2. uploads' \in [Versions -> Contents \union {None}]
    BY <1>6, OriginalType DEF ScanUnavailable, TypeOK
  <2> QED
    BY <1>6, <2>1, <2>2 DEF ScanUnavailable, Fault, Leave, TypeOK, Steps
<1>7. CASE Release(p)
  BY <1>7, OriginalType DEF Release, Within, tables, stores, TypeOK, Steps
<1>8. CASE Accept(p)
  BY <1>8, StatusNames DEF Accept, Leave, ScanJob, Document, stores, TypeOK, Steps
<1> QED BY <1>1, <1>2, <1>3, <1>4, <1>5, <1>6, <1>7, <1>8

\* Replacing, rebuilding and deleting.
LEMMA ReplaceTypes ==
  ASSUME TypeOK, WhereInv, NEW p \in Procs,
         \/ (\E c \in Contents : Replace(p, c)) \/ Stage(p) \/ StageFails(p) \/ Vet(p) \/ VetRejects(p)
         \/ VetFails(p) \/ Offer(p) \/ Reindex(p) \/ Delete(p)
  PROVE  TypeOK'
<1>1. CASE \E c \in Contents : Replace(p, c)
  BY <1>1, UpcomingType, TombstoneType DEF Replace, Enter, stores, TypeOK, Steps
<1>2. CASE Stage(p)
  BY <1>2 DEF Stage, Within, tables, stores, TypeOK, Steps
<1>3. CASE StageFails(p)
  BY <1>3, UpcomingType, TombstoneType DEF StageFails, Fault, Withdraw, WhereInv, Knows, Leave,
       stores, TypeOK, Steps
<1>4. CASE Vet(p)
  BY <1>4 DEF Vet, Within, tables, stores, TypeOK, Steps
<1>5. CASE VetRejects(p)
  BY <1>5, UpcomingType, TombstoneType DEF VetRejects, Withdraw, WhereInv, Knows, Leave, stores,
       TypeOK, Steps
<1>6. CASE VetFails(p)
  BY <1>6, UpcomingType, TombstoneType DEF VetFails, Fault, Withdraw, WhereInv, Knows, Leave,
       stores, TypeOK, Steps
<1>7. CASE Offer(p)
  BY <1>7, UpcomingType, StatusNames DEF Offer, Leave, WhereInv, Knows, Document, stores, TypeOK,
       Steps
<1>8. CASE Reindex(p)
  <2>1. Upcoming \in Keys /\ doc \in Document
    BY <1>8, UpcomingType DEF Reindex, TypeOK
  <2>2. doc' \in Document
    BY <1>8, <2>1, StatusNames DEF Reindex, Document
  <2>3. tries' \in [Versions -> 0..MaxAttempts]
    <3>1. 0 \in 0..MaxAttempts /\ tries \in [Versions -> 0..MaxAttempts]
      BY BoundsAreNumbers DEF TypeOK
    <3>2. tries' = [tries EXCEPT ![Upcoming] = 0]
      BY <1>8 DEF Reindex
    <3> QED BY <3>1, <3>2
  <2>4. pc' \in [Procs -> Steps] /\ UNCHANGED guard
    BY <1>8 DEF Reindex, Hold, Within, TypeOK, Steps
  <2>5. UNCHANGED <<job, chunks, archive, revision, cleanup, quarantine, uploads, vectors,
                    seen, given, row, faults>>
    BY <1>8 DEF Reindex, stores
  <2> QED
    BY <2>2, <2>3, <2>4, <2>5 DEF TypeOK
<1>9. CASE Delete(p)
  <2>1. doc \in Document /\ Upcoming \in Keys /\ doc.version \in Keys /\ doc.key \in Keys
        /\ doc.pver \in Keys /\ doc.pkey \in Keys /\ doc.hash \in Contents \union {None}
    BY <1>9, UpcomingType DEF Delete, TypeOK, Document
  <2>2. doc' \in Document
    BY <1>9, <2>1, ClearedType, StatusNames DEF Delete, Document
  <2>3. cleanup' \in [Versions -> Keys \union {None}]
    BY <1>9, <2>1, TombstoneType DEF Delete, TypeOK
  <2>4. archive' \in [Versions -> Archived \union {None}]
    <3>1. archive' \in {archive, WithArchived(archive, doc.version, doc.hash, doc.key)}
      BY <1>9 DEF Delete
    <3>2. archive \in [Versions -> Archived \union {None}]
      BY DEF TypeOK
    <3>3. WithArchived(archive, doc.version, doc.hash, doc.key) \in [Versions -> Archived \union {None}]
      BY <2>1, <3>2, ArchivedType
    <3> QED BY <3>1, <3>2, <3>3
  <2>5. revision' \in Nat
    BY <1>9 DEF Delete, TypeOK
  <2>6. job' \in ScanJob
    BY <1>9, ZeroIsKey, BoundsAreNumbers DEF Delete, NoJob, ScanJob
  <2> QED
    BY <1>9, <2>2, <2>3, <2>4, <2>5, <2>6 DEF Delete, Hold, Within, stores, TypeOK, Steps
<1> QED BY <1>1, <1>2, <1>3, <1>4, <1>5, <1>6, <1>7, <1>8, <1>9

\* Indexing.
LEMMA IndexTypes ==
  ASSUME TypeOK, WhereInv, NEW p \in Procs,
         \/ TakeDocument(p) \/ Attempt(p) \/ AttemptsExhausted(p) \/ Embed(p)
         \/ SourceChanged(p) \/ IndexFails(p) \/ Outdated(p) \/ BeginPublish(p)
         \/ Upsert(p) \/ UpsertFails(p) \/ Publish(p) \/ PublishNothing(p)
         \/ RecordFailure(p) \/ GiveBack(p) \/ Restore(p)
  PROVE  TypeOK'
<1>1. CASE TakeDocument(p)
  BY <1>1 DEF TakeDocument, Within, tables, stores, TypeOK, Steps
<1>2. CASE Attempt(p)
  BY <1>2, CountType DEF Attempt, Hold, Within, stores, TypeOK, Steps
<1>3. CASE AttemptsExhausted(p)
  BY <1>3 DEF AttemptsExhausted, Hold, Within, tables, stores, TypeOK, Steps
<1>4. CASE Embed(p)
  BY <1>4 DEF Embed, Within, tables, stores, TypeOK, Steps
<1>5. CASE SourceChanged(p)
  BY <1>5 DEF SourceChanged, Within, tables, stores, TypeOK, Steps
<1>6. CASE IndexFails(p)
  BY <1>6 DEF IndexFails, Fault, Hold, Within, tables, stores, TypeOK, Steps
<1>7. CASE Outdated(p)
  BY <1>7, AbsentType DEF Outdated, Hold, Within, tables, stores, TypeOK, Steps
<1>8. CASE BeginPublish(p)
  BY <1>8, TargetTypes, TombstoneType DEF BeginPublish, Enter, stores, TypeOK, Steps
<1>9. CASE Upsert(p)
  BY <1>9, TargetTypes DEF Upsert, Within, WithVectors, tables, stores, TypeOK, Steps
<1>10. CASE UpsertFails(p)
  BY <1>10, TargetTypes DEF UpsertFails, Fault, Leave, WithVectors, tables, stores, TypeOK, Steps
<1>11. CASE Publish(p)
  <2> DEFINE d == seen[p]
  <2>1. /\ d \in Document /\ doc \in Document
        /\ d.version \in Keys /\ d.key \in Keys /\ d.pkey \in Keys
        /\ {d.hash, d.phash} \subseteq Contents \union {None}
        /\ TargetVersion(d) \in Keys /\ TargetKey(d) \in Keys
        /\ TargetHash(d) \in Contents \union {None}
    BY TargetTypes DEF TypeOK, Document
  <2>2. doc' \in Document
    BY <1>11, <2>1, ClearedType, StatusNames, ZeroIsKey DEF Publish, Document
  <2>3. archive' \in [Versions -> Archived \union {None}]
    BY <1>11, <2>1, ArchivedType DEF Publish, TypeOK
  <2>4. cleanup' \in [Versions -> Keys \union {None}]
    BY <1>11, <2>1, TombstoneType, ZeroIsKey DEF Publish, TypeOK
  <2>5. chunks' \in Snapshot \union {None}
    BY <1>11, <2>1 DEF Publish, Snapshot
  <2>6. seen' \in [Procs -> Document]
    BY <1>11, AbsentType DEF Publish, TypeOK
  <2>7. /\ pc' \in [Procs -> Steps] /\ guard' \in Procs \union {None}
        /\ revision' \in Nat
    BY <1>11 DEF Publish, Leave, TypeOK, Steps
  <2>8. UNCHANGED <<job, tries, quarantine, uploads, vectors, given, row, faults>>
    BY <1>11 DEF Publish, stores
  <2> QED
    BY <2>2, <2>3, <2>4, <2>5, <2>6, <2>7, <2>8 DEF TypeOK
<1>12. CASE PublishNothing(p)
  BY <1>12, AbsentType, TargetTypes, TombstoneType DEF PublishNothing, Leave, stores, TypeOK, Steps
<1>13. CASE RecordFailure(p)
  BY <1>13, AbsentType, StatusNames, ZeroIsKey DEF RecordFailure, Within, Document, stores,
       TypeOK, Steps
<1>14. CASE GiveBack(p)
  BY <1>14, TargetTypes, TombstoneType DEF GiveBack, Within, stores, TypeOK, Steps
<1>15. CASE Restore(p)
  BY <1>15, AbsentType, StatusNames, ClearedType DEF Restore, Within, Document, stores, TypeOK,
       Steps
<1> QED BY <1>1, <1>2, <1>3, <1>4, <1>5, <1>6, <1>7, <1>8, <1>9, <1>10, <1>11, <1>12, <1>13,
     <1>14, <1>15

\* Cleaning up, and stopping.
LEMMA CleanTypes ==
  ASSUME TypeOK, WhereInv, NEW p \in Procs,
         \/ ReadTombstone(p) \/ Keep(p) \/ Sweep(p) \/ SweepFails(p) \/ Stop(p)
  PROVE  TypeOK'
<1>1. CASE ReadTombstone(p)
  BY <1>1 DEF ReadTombstone, Within, Tombstones, tables, stores, TypeOK, Steps
<1>2. CASE Keep(p)
  BY <1>2 DEF Keep, RowDone, Hold, Within, tables, stores, TypeOK, Steps
<1>3. CASE Sweep(p)
  BY <1>3 DEF Sweep, RowDone, Hold, Within, Without, stores, TypeOK, Steps
<1>4. CASE SweepFails(p)
  BY <1>4 DEF SweepFails, Fault, RowDone, Hold, Within, Without, tables, stores, TypeOK, Steps
<1>5. CASE Stop(p)
  BY <1>5, AbsentType DEF Stop, Fault, tables, stores, TypeOK, Steps
<1> QED BY <1>1, <1>2, <1>3, <1>4, <1>5

-----------------------------------------------------------------------------
(* The lock, and what its holder knows.                                    *)

\* What a step of p does to the places of the processes, the lock and the row.
Moved(p) ==
  /\ \A q \in Procs \ {p} : pc'[q] = pc[q] /\ seen'[q] = seen[q]
  /\ \/ guard' = guard /\ (pc'[p] \in Guarded => pc[p] \in Guarded)
     \/ guard = None /\ guard' = p
     \/ guard = p /\ guard' = None /\ pc'[p] \notin Guarded
  /\ doc' = doc \/ guard \in {None, p} \/ doc.status \in Indexable
  /\ Knows(p)'

\* Uploads move so.
LEMMA UploadMoves ==
  ASSUME DocumentInv, NEW p \in Procs,
         \/ (\E c \in Contents : Upload(p, c)) \/ Enrol(p) \/ Store(p) \/ StoreFails(p)
  PROVE  Moved(p)
<1>1. CASE \E c \in Contents : Upload(p, c)
  <2>1. /\ pc[p] = "idle" /\ guard = None /\ guard' = p
        /\ pc' = [pc EXCEPT ![p] = "enrol"] /\ seen' = seen
    BY <1>1 DEF Upload, Enter
  <2>2. doc'.status = "scanning"
    BY <1>1 DEF Upload, Absent
  <2> QED
    BY <2>1, <2>2 DEF Knows, DocumentInv, TypeOK, Guarded, Indexing, Moved
<1>2. CASE Enrol(p)
  BY <1>2 DEF Enrol, Within, stores, DocumentInv, GuardInv, WhereInv, Knows, TypeOK, Guarded,
       Indexing, Scannable, Indexable, Moved
<1>3. CASE Store(p)
  BY <1>3 DEF Store, Within, tables, DocumentInv, GuardInv, WhereInv, Knows, TypeOK, Guarded,
       Indexing, Scannable, Indexable, Moved
<1>4. CASE StoreFails(p)
  BY <1>4 DEF StoreFails, Leave, DocumentInv, GuardInv, WhereInv, Knows, TypeOK, Guarded,
       Indexing, Scannable, Indexable, Moved
<1> QED BY <1>1, <1>2, <1>3, <1>4

\* Scans move so.
LEMMA ScanMoves ==
  ASSUME DocumentInv, NEW p \in Procs,
         \/ RecoverScan(p) \/ CountScan(p) \/ ScanImpossible(p) \/ GiveUp(p)
         \/ Rejected(p) \/ ScanUnavailable(p) \/ Release(p) \/ Accept(p)
  PROVE  Moved(p)
<1>1. CASE RecoverScan(p)
  BY <1>1 DEF RecoverScan, Enter, tables, stores, DocumentInv, GuardInv, WhereInv, Knows, TypeOK,
       Guarded, Indexing, Scannable, Indexable, Moved
<1>2. CASE CountScan(p)
  BY <1>2 DEF CountScan, Within, stores, DocumentInv, GuardInv, WhereInv, Knows, TypeOK, Guarded,
       Indexing, Scannable, Indexable, Moved
<1>3. CASE ScanImpossible(p)
  BY <1>3 DEF ScanImpossible, Within, stores, DocumentInv, GuardInv, WhereInv, Knows, TypeOK,
       Guarded, Indexing, Scannable, Indexable, Moved
<1>4. CASE GiveUp(p)
  BY <1>4 DEF GiveUp, Leave, stores, DocumentInv, GuardInv, WhereInv, Knows, TypeOK, Guarded,
       Indexing, Scannable, Indexable, Moved
<1>5. CASE Rejected(p)
  BY <1>5 DEF Rejected, Leave, stores, DocumentInv, GuardInv, WhereInv, Knows, TypeOK, Guarded,
       Indexing, Scannable, Indexable, Moved
<1>6. CASE ScanUnavailable(p)
  BY <1>6 DEF ScanUnavailable, Leave, DocumentInv, GuardInv, WhereInv, Knows, TypeOK, Guarded,
       Indexing, Scannable, Indexable, Moved
<1>7. CASE Release(p)
  BY <1>7 DEF Release, Within, tables, DocumentInv, GuardInv, WhereInv, Knows, TypeOK, Guarded,
       Indexing, Scannable, Indexable, Moved
<1>8. CASE Accept(p)
  BY <1>8 DEF Accept, Leave, stores, DocumentInv, GuardInv, WhereInv, Knows, TypeOK, Guarded,
       Indexing, Scannable, Indexable, Moved
<1> QED BY <1>1, <1>2, <1>3, <1>4, <1>5, <1>6, <1>7, <1>8

\* Replacing, rebuilding and deleting.
LEMMA ReplaceMoves ==
  ASSUME DocumentInv, NEW p \in Procs,
         \/ (\E c \in Contents : Replace(p, c)) \/ Stage(p) \/ StageFails(p) \/ Vet(p)
         \/ VetRejects(p) \/ VetFails(p) \/ Offer(p) \/ Reindex(p)
         \/ Delete(p)
  PROVE  Moved(p)
<1>1. CASE \E c \in Contents : Replace(p, c)
  BY <1>1 DEF Replace, Enter, stores, DocumentInv, GuardInv, WhereInv, Knows, TypeOK, Guarded,
       Indexing, Scannable, Indexable, Moved
<1>2. CASE Stage(p)
  BY <1>2 DEF Stage, Within, tables, DocumentInv, GuardInv, WhereInv, Knows, TypeOK, Guarded,
       Indexing, Scannable, Indexable, Moved
<1>3. CASE StageFails(p)
  BY <1>3 DEF StageFails, Withdraw, Leave, DocumentInv, GuardInv, WhereInv, Knows, TypeOK,
       Guarded, Indexing, Scannable, Indexable, Moved
<1>4. CASE Vet(p)
  BY <1>4 DEF Vet, Within, tables, DocumentInv, GuardInv, WhereInv, Knows, TypeOK, Guarded,
       Indexing, Scannable, Indexable, Moved
<1>5. CASE VetRejects(p)
  BY <1>5 DEF VetRejects, Withdraw, Leave, DocumentInv, GuardInv, WhereInv, Knows, TypeOK,
       Guarded, Indexing, Scannable, Indexable, Moved
<1>6. CASE VetFails(p)
  BY <1>6 DEF VetFails, Withdraw, Leave, DocumentInv, GuardInv, WhereInv, Knows, TypeOK, Guarded,
       Indexing, Scannable, Indexable, Moved
<1>7. CASE Offer(p)
  BY <1>7 DEF Offer, Leave, stores, DocumentInv, GuardInv, WhereInv, Knows, TypeOK, Guarded,
       Indexing, Scannable, Indexable, Moved
<1>8. CASE Reindex(p)
  BY <1>8 DEF Reindex, Hold, Within, stores, DocumentInv, GuardInv, WhereInv, Knows, TypeOK,
       Guarded, Indexing, Scannable, Indexable, Moved
<1>9. CASE Delete(p)
  BY <1>9 DEF Delete, Hold, Within, stores, DocumentInv, GuardInv, WhereInv, Knows, TypeOK,
       Guarded, Indexing, Scannable, Indexable, Moved
<1> QED BY <1>1, <1>2, <1>3, <1>4, <1>5, <1>6, <1>7, <1>8, <1>9

\* Indexing.
LEMMA IndexMoves ==
  ASSUME DocumentInv, NEW p \in Procs,
         \/ TakeDocument(p) \/ Attempt(p) \/ AttemptsExhausted(p) \/ Embed(p)
         \/ SourceChanged(p) \/ IndexFails(p) \/ Outdated(p)
         \/ BeginPublish(p) \/ Upsert(p) \/ UpsertFails(p) \/ Publish(p)
         \/ PublishNothing(p) \/ RecordFailure(p) \/ GiveBack(p) \/ Restore(p)
  PROVE  Moved(p)
<1>1. CASE TakeDocument(p)
  BY <1>1 DEF TakeDocument, Within, tables, stores, DocumentInv, GuardInv, WhereInv, Knows,
       TypeOK, Guarded, Indexing, Scannable, Indexable, Moved
<1>2. CASE Attempt(p)
  BY <1>2 DEF Attempt, Hold, Within, stores, DocumentInv, GuardInv, WhereInv, Knows, TypeOK,
       Guarded, Indexing, Scannable, Indexable, Moved
<1>3. CASE AttemptsExhausted(p)
  BY <1>3 DEF AttemptsExhausted, Hold, Within, tables, stores, DocumentInv, GuardInv, WhereInv,
       Knows, TypeOK, Guarded, Indexing, Scannable, Indexable, Moved
<1>4. CASE Embed(p)
  BY <1>4 DEF Embed, Within, tables, stores, DocumentInv, GuardInv, WhereInv, Knows, TypeOK,
       Guarded, Indexing, Scannable, Indexable, Moved
<1>5. CASE SourceChanged(p)
  BY <1>5 DEF SourceChanged, Within, tables, stores, DocumentInv, GuardInv, WhereInv, Knows,
       TypeOK, Guarded, Indexing, Scannable, Indexable, Moved
<1>6. CASE IndexFails(p)
  BY <1>6 DEF IndexFails, Within, Hold, tables, stores, DocumentInv, GuardInv, WhereInv, Knows,
       TypeOK, Guarded, Indexing, Scannable, Indexable, Moved
<1>7. CASE Outdated(p)
  BY <1>7 DEF Outdated, Hold, Within, tables, stores, DocumentInv, GuardInv, WhereInv, Knows,
       TypeOK, Guarded, Indexing, Scannable, Indexable, Moved
<1>8. CASE BeginPublish(p)
  BY <1>8 DEF BeginPublish, Enter, stores, DocumentInv, GuardInv, WhereInv, Knows, TypeOK,
       Guarded, Indexing, Scannable, Indexable, Moved
<1>9. CASE Upsert(p)
  BY <1>9 DEF Upsert, Within, tables, DocumentInv, GuardInv, WhereInv, Knows, TypeOK, Guarded,
       Indexing, Scannable, Indexable, Moved
<1>10. CASE UpsertFails(p)
  BY <1>10 DEF UpsertFails, Leave, tables, DocumentInv, GuardInv, WhereInv, Knows, TypeOK,
       Guarded, Indexing, Scannable, Indexable, Moved
<1>11. CASE Publish(p)
  BY <1>11 DEF Publish, Leave, stores, DocumentInv, GuardInv, WhereInv, Knows, TypeOK, Guarded,
       Indexing, Scannable, Indexable, Moved
<1>12. CASE PublishNothing(p)
  BY <1>12 DEF PublishNothing, Leave, stores, DocumentInv, GuardInv, WhereInv, Knows, TypeOK,
       Guarded, Indexing, Scannable, Indexable, Moved
<1>13. CASE RecordFailure(p)
  BY <1>13 DEF RecordFailure, Within, StillIndexing, stores, DocumentInv, GuardInv, WhereInv,
       Knows, TypeOK, Guarded, Indexing, Scannable, Indexable, Moved
<1>14. CASE GiveBack(p)
  <2>1. /\ pc[p] = "fail" /\ guard' = guard
        /\ pc' = [pc EXCEPT ![p] = "restore"]
        /\ UNCHANGED <<doc, seen>>
    BY <1>14 DEF GiveBack, Within
  <2> QED
    BY <2>1 DEF DocumentInv, WhereInv, Knows, TypeOK, Guarded, Indexing, Moved
<1>15. CASE Restore(p)
  <2>1. /\ pc[p] = "restore" /\ guard' = guard
        /\ pc' = [pc EXCEPT ![p] = "list"]
        /\ seen' = [seen EXCEPT ![p] = Absent]
    BY <1>15 DEF Restore, Within
  <2>2. doc' = doc \/ doc.status \in Indexable
    BY <1>15 DEF Restore, StillPending, Rebuilding, Indexable
  <2> QED
    BY <2>1, <2>2 DEF DocumentInv, WhereInv, Knows, TypeOK, Guarded, Indexing, Moved
<1> QED BY <1>1, <1>2, <1>3, <1>4, <1>5, <1>6, <1>7, <1>8, <1>9, <1>10, <1>11, <1>12, <1>13,
     <1>14, <1>15

\* Cleaning up, and stopping.
LEMMA CleanMoves ==
  ASSUME DocumentInv, NEW p \in Procs,
         \/ ReadTombstone(p) \/ Keep(p) \/ Sweep(p) \/ SweepFails(p)
         \/ Stop(p)
  PROVE  Moved(p)
<1>1. CASE ReadTombstone(p)
  BY <1>1 DEF ReadTombstone, Within, tables, stores, DocumentInv, GuardInv, WhereInv, Knows,
       TypeOK, Guarded, Indexing, Scannable, Indexable, Moved
<1>2. CASE Keep(p)
  BY <1>2 DEF Keep, RowDone, Hold, Within, tables, stores, DocumentInv, GuardInv, WhereInv, Knows,
       TypeOK, Guarded, Indexing, Scannable, Indexable, Moved
<1>3. CASE Sweep(p)
  BY <1>3 DEF Sweep, RowDone, Hold, Within, DocumentInv, GuardInv, WhereInv, Knows, TypeOK,
       Guarded, Indexing, Scannable, Indexable, Moved
<1>4. CASE SweepFails(p)
  BY <1>4 DEF SweepFails, RowDone, Hold, Within, tables, stores, DocumentInv, GuardInv, WhereInv,
       Knows, TypeOK, Guarded, Indexing, Scannable, Indexable, Moved
<1>5. CASE Stop(p)
  BY <1>5 DEF Stop, tables, stores, DocumentInv, GuardInv, WhereInv, Knows, TypeOK, Guarded,
       Indexing, Scannable, Indexable, Moved
<1> QED BY <1>1, <1>2, <1>3, <1>4, <1>5

\* A step of p that moves so keeps the lock and what its holder knows.
LEMMA MovedKeeps ==
  ASSUME DocumentInv, NEW p \in Procs, Moved(p)
  PROVE  GuardInv' /\ WhereInv'
<1>1. None \notin Procs
  BY DocumentsAssumption
<1>2. GuardInv'
  BY <1>1 DEF DocumentInv, GuardInv, Moved
<1>3. ASSUME NEW q \in Procs \ {p} PROVE Knows(q)'
  <2>1. pc'[q] = pc[q] /\ seen'[q] = seen[q] /\ Knows(q)
    BY DEF Moved, DocumentInv, WhereInv
  <2>2. CASE doc' = doc
    BY <2>1, <2>2 DEF Knows
  <2>3. CASE guard \in {None, p}
    BY <1>1, <2>1, <2>3 DEF Knows, DocumentInv, GuardInv, Guarded
  <2>4. CASE doc.status \in Indexable
    BY <2>1, <2>4 DEF Knows, Indexable, Scannable
  <2> QED BY <2>2, <2>3, <2>4 DEF Moved
<1> QED BY <1>2, <1>3 DEF WhereInv, Moved

\* The invariant is inductive.
LEMMA DocumentInductive == DocumentInv /\ [Next]_documentVars => DocumentInv'
<1> SUFFICES ASSUME DocumentInv, [Next]_documentVars PROVE DocumentInv'
  OBVIOUS
<1>1. CASE UNCHANGED documentVars
  BY <1>1 DEF documentVars, tables, stores, process, DocumentInv, TypeOK, GuardInv, WhereInv, Knows
<1>2. CASE AdoptScan
  <2>1. TypeOK'
    BY <1>2, BoundsAreNumbers DEF AdoptScan, ScanJob, Document, stores, process, DocumentInv, TypeOK
  <2> QED
    BY <1>2, <2>1 DEF AdoptScan, process, DocumentInv, GuardInv, WhereInv, Knows
<1>3. ASSUME NEW p \in Procs,
             \/ (\E c \in Contents : Upload(p, c)) \/ Enrol(p) \/ Store(p) \/ StoreFails(p)
      PROVE  DocumentInv'
  BY <1>3, UploadTypes, UploadMoves, MovedKeeps DEF DocumentInv
<1>4. ASSUME NEW p \in Procs, RecoverScan(p) \/ ScanStep(p)
      PROVE  DocumentInv'
  BY <1>4, ScanTypes, ScanMoves, MovedKeeps DEF DocumentInv, ScanStep
<1>5. ASSUME NEW p \in Procs,
             \/ (\E c \in Contents : Replace(p, c)) \/ ReplaceStep(p)
             \/ Reindex(p) \/ Delete(p)
      PROVE  DocumentInv'
  BY <1>5, ReplaceTypes, ReplaceMoves, MovedKeeps DEF DocumentInv, ReplaceStep
<1>6. ASSUME NEW p \in Procs, TakeDocument(p) \/ IndexStep(p)
      PROVE  DocumentInv'
  BY <1>6, IndexTypes, IndexMoves, MovedKeeps DEF DocumentInv, IndexStep
<1>7. ASSUME NEW p \in Procs, CleanStep(p) \/ Stop(p)
      PROVE  DocumentInv'
  BY <1>7, CleanTypes, CleanMoves, MovedKeeps DEF DocumentInv, CleanStep
<1> QED
  BY <1>1, <1>2, <1>3, <1>4, <1>5, <1>6, <1>7 DEF Next

\* The initial state satisfies it.
LEMMA InitiallyInvariant == Init => DocumentInv
<1> SUFFICES ASSUME Init PROVE DocumentInv
  OBVIOUS
<1>1. doc \in Document /\ seen \in [Procs -> Document]
  BY AbsentType DEF Init
<1>2. job \in ScanJob /\ tries \in [Versions -> 0..MaxAttempts]
  BY ZeroIsKey, BoundsAreNumbers DEF Init, NoJob, ScanJob
<1>3. TypeOK
  BY <1>1, <1>2 DEF Init, Nothing, TypeOK, Steps
<1> QED
  BY <1>3 DEF Init, DocumentInv, GuardInv, WhereInv, Knows, Guarded, Indexing

\* Rows, tombstones, objects and lock always have their types, only the holder of
\* the lock is inside a critical section, and the row is what it was entered for.
THEOREM Guards == Spec => []DocumentInv
<1> QED BY InitiallyInvariant, DocumentInductive, PTL DEF Spec

\* Every reachable state is well typed: versions, keys and attempts keep their bounds.
THEOREM TypeCorrect == Spec => []TypeOK
<1>1. DocumentInv => TypeOK
  BY DEF DocumentInv
<1> QED BY <1>1, Guards, PTL

-----------------------------------------------------------------------------
(* What a search may read, and what a deletion means.                      *)

\* A step leaves chunks only with a searchable row, advances the revision with
\* them, and does not bring a deleted document back unless it is an upload.
Serves ==
  /\ OnlyLiveSearchable'
  /\ chunks' # chunks => revision' # revision
  /\ doc.status = "deleted" => doc'.status \in {"deleted", "scanning"}

\* Uploads serve so.
LEMMA UploadServes ==
  ASSUME DocumentInv, OnlyLiveSearchable, NEW p \in Procs,
         \/ (\E c \in Contents : Upload(p, c)) \/ Enrol(p) \/ Store(p)
         \/ StoreFails(p)
  PROVE  Serves
<1>1. CASE \E c \in Contents : Upload(p, c)
  BY <1>1 DEF Upload, stores, Enter, Absent, Resendable, DocumentInv, TypeOK, Document, Scannable,
       Searchable, Serves, OnlyLiveSearchable
<1>2. CASE Enrol(p)
  BY <1>2 DEF Enrol, stores, Serves, OnlyLiveSearchable
<1>3. CASE Store(p)
  BY <1>3 DEF Store, tables, Serves, OnlyLiveSearchable
<1>4. CASE StoreFails(p)
  BY <1>4 DEF StoreFails, Leave, DocumentInv, WhereInv, Knows, TypeOK, Document, Scannable,
       Searchable, Serves, OnlyLiveSearchable
<1> QED BY <1>1, <1>2, <1>3, <1>4

\* Scans.
LEMMA ScanServes ==
  ASSUME DocumentInv, OnlyLiveSearchable, NEW p \in Procs,
         \/ RecoverScan(p) \/ CountScan(p) \/ ScanImpossible(p) \/ GiveUp(p)
         \/ Rejected(p) \/ ScanUnavailable(p) \/ Release(p) \/ Accept(p)
  PROVE  Serves
<1>1. CASE RecoverScan(p)
  BY <1>1 DEF RecoverScan, tables, stores, Serves, OnlyLiveSearchable
<1>2. CASE CountScan(p)
  BY <1>2 DEF CountScan, stores, Serves, OnlyLiveSearchable
<1>3. CASE ScanImpossible(p)
  BY <1>3 DEF ScanImpossible, stores, Serves, OnlyLiveSearchable
<1>4. CASE GiveUp(p)
  BY <1>4 DEF GiveUp, stores, Leave, DocumentInv, WhereInv, Knows, TypeOK, Document, Scannable,
       Searchable, Serves, OnlyLiveSearchable
<1>5. CASE Rejected(p)
  BY <1>5 DEF Rejected, stores, Leave, DocumentInv, WhereInv, Knows, TypeOK, Document, Scannable,
       Searchable, Serves, OnlyLiveSearchable
<1>6. CASE ScanUnavailable(p)
  BY <1>6 DEF ScanUnavailable, Leave, DocumentInv, WhereInv, Knows, TypeOK, Document, Scannable,
       Searchable, Serves, OnlyLiveSearchable
<1>7. CASE Release(p)
  BY <1>7 DEF Release, tables, Serves, OnlyLiveSearchable
<1>8. CASE Accept(p)
  BY <1>8 DEF Accept, stores, Leave, DocumentInv, WhereInv, Knows, TypeOK, Document, Scannable,
       Searchable, Serves, OnlyLiveSearchable
<1> QED BY <1>1, <1>2, <1>3, <1>4, <1>5, <1>6, <1>7, <1>8

\* Replacing, rebuilding and deleting.
LEMMA ReplaceServes ==
  ASSUME DocumentInv, OnlyLiveSearchable, NEW p \in Procs,
         \/ (\E c \in Contents : Replace(p, c)) \/ Stage(p) \/ StageFails(p)
         \/ Vet(p) \/ VetRejects(p) \/ VetFails(p) \/ Offer(p) \/ Reindex(p)
         \/ Delete(p)
  PROVE  Serves
<1>1. CASE \E c \in Contents : Replace(p, c)
  BY <1>1 DEF Replace, stores, Serves, OnlyLiveSearchable
<1>2. CASE Stage(p)
  BY <1>2 DEF Stage, tables, Serves, OnlyLiveSearchable
<1>3. CASE StageFails(p)
  BY <1>3 DEF StageFails, Withdraw, Serves, OnlyLiveSearchable
<1>4. CASE Vet(p)
  BY <1>4 DEF Vet, tables, Serves, OnlyLiveSearchable
<1>5. CASE VetRejects(p)
  BY <1>5 DEF VetRejects, Withdraw, Serves, OnlyLiveSearchable
<1>6. CASE VetFails(p)
  BY <1>6 DEF VetFails, Withdraw, Serves, OnlyLiveSearchable
<1>7. CASE Offer(p)
  BY <1>7 DEF Offer, stores, Leave, DocumentInv, WhereInv, Knows, TypeOK, Document, Scannable,
       Searchable, Serves, OnlyLiveSearchable
<1>8. CASE Reindex(p)
  BY <1>8 DEF Reindex, stores, Hold, Within, DocumentInv, TypeOK, Document, Scannable, Searchable,
       Serves, OnlyLiveSearchable
<1>9. CASE Delete(p)
  BY <1>9 DEF Delete, stores, Hold, Within, NoPending, Visible, DocumentInv, TypeOK, Document,
       Scannable, Searchable, Serves, OnlyLiveSearchable
<1> QED BY <1>1, <1>2, <1>3, <1>4, <1>5, <1>6, <1>7, <1>8, <1>9

\* Indexing.
LEMMA IndexServes ==
  ASSUME DocumentInv, OnlyLiveSearchable, NEW p \in Procs,
         \/ TakeDocument(p) \/ Attempt(p) \/ AttemptsExhausted(p) \/ Embed(p)
         \/ SourceChanged(p) \/ IndexFails(p) \/ Outdated(p)
         \/ BeginPublish(p) \/ Upsert(p) \/ UpsertFails(p) \/ Publish(p)
         \/ PublishNothing(p) \/ RecordFailure(p) \/ GiveBack(p) \/ Restore(p)
  PROVE  Serves
<1>1. CASE TakeDocument(p)
  BY <1>1 DEF TakeDocument, tables, stores, Serves, OnlyLiveSearchable
<1>2. CASE Attempt(p)
  BY <1>2 DEF Attempt, stores, Serves, OnlyLiveSearchable
<1>3. CASE AttemptsExhausted(p)
  BY <1>3 DEF AttemptsExhausted, tables, stores, Serves, OnlyLiveSearchable
<1>4. CASE Embed(p)
  BY <1>4 DEF Embed, tables, stores, Serves, OnlyLiveSearchable
<1>5. CASE SourceChanged(p)
  BY <1>5 DEF SourceChanged, tables, stores, Serves, OnlyLiveSearchable
<1>6. CASE IndexFails(p)
  BY <1>6 DEF IndexFails, tables, stores, Serves, OnlyLiveSearchable
<1>7. CASE Outdated(p)
  BY <1>7 DEF Outdated, tables, stores, Serves, OnlyLiveSearchable
<1>8. CASE BeginPublish(p)
  BY <1>8 DEF BeginPublish, stores, Serves, OnlyLiveSearchable
<1>9. CASE Upsert(p)
  BY <1>9 DEF Upsert, tables, Serves, OnlyLiveSearchable
<1>10. CASE UpsertFails(p)
  BY <1>10 DEF UpsertFails, tables, Serves, OnlyLiveSearchable
<1>11. CASE Publish(p)
  BY <1>11 DEF Publish, stores, Leave, DocumentInv, WhereInv, Knows, Indexing, Affected,
       NoPending, Indexable, TypeOK, Document, Scannable, Searchable, Serves, OnlyLiveSearchable
<1>12. CASE PublishNothing(p)
  BY <1>12 DEF PublishNothing, stores, Serves, OnlyLiveSearchable
<1>13. CASE RecordFailure(p)
  BY <1>13 DEF RecordFailure, stores, Within, StillIndexing, DocumentInv, TypeOK, Document,
       Scannable, Searchable, Serves, OnlyLiveSearchable
<1>14. CASE GiveBack(p)
  BY <1>14 DEF GiveBack, stores, Serves, OnlyLiveSearchable
<1>15. CASE Restore(p)
  BY <1>15 DEF Restore, stores, Within, StillPending, Rebuilding, NoPending, DocumentInv, TypeOK,
       Document, Scannable, Searchable, Serves, OnlyLiveSearchable
<1> QED BY <1>1, <1>2, <1>3, <1>4, <1>5, <1>6, <1>7, <1>8, <1>9, <1>10, <1>11, <1>12, <1>13,
     <1>14, <1>15

\* Cleaning up, and stopping.
LEMMA CleanServes ==
  ASSUME DocumentInv, OnlyLiveSearchable, NEW p \in Procs,
         \/ ReadTombstone(p) \/ Keep(p) \/ Sweep(p) \/ SweepFails(p)
         \/ Stop(p)
  PROVE  Serves
<1>1. CASE ReadTombstone(p)
  BY <1>1 DEF ReadTombstone, tables, stores, Serves, OnlyLiveSearchable
<1>2. CASE Keep(p)
  BY <1>2 DEF Keep, tables, stores, Serves, OnlyLiveSearchable
<1>3. CASE Sweep(p)
  BY <1>3 DEF Sweep, Serves, OnlyLiveSearchable
<1>4. CASE SweepFails(p)
  BY <1>4 DEF SweepFails, tables, stores, Serves, OnlyLiveSearchable
<1>5. CASE Stop(p)
  BY <1>5 DEF Stop, tables, stores, Serves, OnlyLiveSearchable
<1> QED BY <1>1, <1>2, <1>3, <1>4, <1>5

\* Every step serves so.
LEMMA StepServes ==
  ASSUME DocumentInv, OnlyLiveSearchable, [Next]_documentVars PROVE Serves
<1>1. CASE UNCHANGED documentVars
  BY <1>1 DEF documentVars, tables, Serves, OnlyLiveSearchable
<1>2. CASE AdoptScan
  BY <1>2 DEF AdoptScan, Serves, OnlyLiveSearchable
<1>3. ASSUME NEW p \in Procs,
             \/ (\E c \in Contents : Upload(p, c)) \/ Enrol(p) \/ Store(p) \/ StoreFails(p)
      PROVE  Serves
  BY <1>3, UploadServes
<1>4. ASSUME NEW p \in Procs, RecoverScan(p) \/ ScanStep(p) PROVE Serves
  BY <1>4, ScanServes DEF ScanStep
<1>5. ASSUME NEW p \in Procs,
             \/ (\E c \in Contents : Replace(p, c)) \/ ReplaceStep(p)
             \/ Reindex(p) \/ Delete(p)
      PROVE  Serves
  BY <1>5, ReplaceServes DEF ReplaceStep
<1>6. ASSUME NEW p \in Procs, TakeDocument(p) \/ IndexStep(p) PROVE Serves
  BY <1>6, IndexServes DEF IndexStep
<1>7. ASSUME NEW p \in Procs, CleanStep(p) \/ Stop(p) PROVE Serves
  BY <1>7, CleanServes DEF CleanStep
<1> QED
  BY <1>1, <1>2, <1>3, <1>4, <1>5, <1>6, <1>7 DEF Next

\* No document that cannot be searched has chunks.
THEOREM SearchableOnly == Spec => []OnlyLiveSearchable
<1>1. Init => OnlyLiveSearchable
  BY DEF Init, OnlyLiveSearchable
<1>2. DocumentInv /\ OnlyLiveSearchable /\ [Next]_documentVars => OnlyLiveSearchable'
  BY StepServes DEF Serves
<1> QED BY <1>1, <1>2, Guards, PTL DEF Spec

\* No step changes what a search reads and leaves the corpus revision as it was.
THEOREM RevisionMoves == Spec => RevisionFences
<1>1. DocumentInv /\ OnlyLiveSearchable /\ [Next]_documentVars
      => [chunks' # chunks => revision' # revision]_documentVars
  BY StepServes DEF Serves
<1> QED BY <1>1, Guards, SearchableOnly, PTL DEF Spec, RevisionFences

\* Only an upload brings a deleted document back.
THEOREM DeletedStays == Spec => DeleteWins
<1>1. DocumentInv /\ OnlyLiveSearchable /\ [Next]_documentVars
      => [doc.status = "deleted" => doc'.status \in {"deleted", "scanning"}]_documentVars
  BY StepServes DEF Serves
<1> QED BY <1>1, Guards, SearchableOnly, PTL DEF Spec, DeleteWins

-----------------------------------------------------------------------------
(* The area of scanned originals.                                          *)

\* A step takes originals away, or puts one there that has passed the scanner.
LEMMA ScannedStep ==
  ASSUME TypeOK, [Next]_documentVars
  PROVE  \/ uploads' = uploads
         \/ \E k : uploads' = [uploads EXCEPT ![k] = None]
         \/ \E k : \E c \in Clean : uploads' = [uploads EXCEPT ![k] = c]
<1> DEFINE Goal == \/ uploads' = uploads
                   \/ \E k : uploads' = [uploads EXCEPT ![k] = None]
                   \/ \E k : \E c \in Clean : uploads' = [uploads EXCEPT ![k] = c]
<1>1. CASE UNCHANGED documentVars
  BY <1>1 DEF documentVars, stores
<1>2. CASE AdoptScan
  BY <1>2 DEF AdoptScan, stores
<1>3. ASSUME NEW p \in Procs,
             \/ (\E c \in Contents : Upload(p, c)) \/ Enrol(p) \/ Store(p)
             \/ StoreFails(p)
      PROVE  Goal
  BY <1>3 DEF Upload, stores, Enrol, Store, StoreFails
<1>4. ASSUME NEW p \in Procs,
             \/ RecoverScan(p) \/ CountScan(p) \/ ScanImpossible(p) \/ GiveUp(p)
             \/ Rejected(p) \/ Accept(p)
      PROVE  Goal
  BY <1>4 DEF RecoverScan, stores, CountScan, ScanImpossible, GiveUp, Rejected, Accept
<1>5. ASSUME NEW p \in Procs,
             \/ (\E c \in Contents : Replace(p, c)) \/ Stage(p) \/ StageFails(p)
             \/ VetRejects(p) \/ Offer(p) \/ Reindex(p) \/ Delete(p)
      PROVE  Goal
  BY <1>5 DEF Replace, stores, Stage, StageFails, Withdraw, VetRejects, Offer, Reindex, Delete
<1>6. ASSUME NEW p \in Procs,
             \/ TakeDocument(p) \/ Attempt(p) \/ AttemptsExhausted(p) \/ Embed(p)
             \/ SourceChanged(p) \/ IndexFails(p) \/ Outdated(p)
             \/ BeginPublish(p) \/ Upsert(p) \/ UpsertFails(p) \/ Publish(p)
             \/ PublishNothing(p) \/ RecordFailure(p) \/ GiveBack(p) \/ Restore(p)
      PROVE  Goal
  BY <1>6 DEF TakeDocument, stores, Attempt, AttemptsExhausted, Embed, SourceChanged, IndexFails,
       Outdated, BeginPublish, Upsert, UpsertFails, Publish, PublishNothing, RecordFailure,
       GiveBack, Restore
<1>7. ASSUME NEW p \in Procs,
             \/ ReadTombstone(p) \/ Keep(p) \/ Stop(p)
      PROVE  Goal
  BY <1>7 DEF ReadTombstone, stores, Keep, Stop
<1>8. ASSUME NEW p \in Procs, ScanUnavailable(p) \/ Release(p) PROVE Goal
  BY <1>8 DEF ScanUnavailable, Release, Verified, Passes
<1>9. ASSUME NEW p \in Procs, Vet(p) \/ VetFails(p) PROVE Goal
  BY <1>9 DEF Vet, VetFails, Passes
<1>10. ASSUME NEW p \in Procs, Sweep(p) \/ SweepFails(p) PROVE Goal
  BY <1>10 DEF Sweep, SweepFails, Without, stores
<1> QED
  BY <1>1, <1>2, <1>3, <1>4, <1>5, <1>6, <1>7, <1>8, <1>9, <1>10 DEF Next, ScanStep, ReplaceStep,
       IndexStep, CleanStep

\* Whatever indexing and downloads can read has passed the scanner.
THEOREM ScannedOnly == Spec => []ScannedBeforeUse
<1>1. Init => ScannedBeforeUse
  BY DEF Init, Nothing, ScannedBeforeUse
<1>2. DocumentInv /\ ScannedBeforeUse /\ [Next]_documentVars => ScannedBeforeUse'
  <2> SUFFICES ASSUME DocumentInv, ScannedBeforeUse, [Next]_documentVars,
                      NEW j \in Versions
               PROVE  uploads'[j] \in Clean \union {None}
    BY DEF ScannedBeforeUse
  <2>1. TypeOK /\ uploads[j] \in Clean \union {None} /\ j \in DOMAIN uploads
    BY DEF DocumentInv, TypeOK, ScannedBeforeUse
  <2>2. CASE uploads' = uploads
    BY <2>1, <2>2
  <2>3. CASE \E k : uploads' = [uploads EXCEPT ![k] = None]
    BY <2>1, <2>3
  <2>4. CASE \E k : \E c \in Clean : uploads' = [uploads EXCEPT ![k] = c]
    BY <2>1, <2>4
  <2> QED BY <2>1, <2>2, <2>3, <2>4, ScannedStep
<1> QED BY <1>1, <1>2, Guards, PTL DEF Spec

-----------------------------------------------------------------------------
(* What can be read of the document.                                       *)

Indexed == {"indexing", "failed", "ready", "rebuilding"}

\* A row that is pending asks for the next version, of the same original or of a new one.
RowOK(d) ==
  /\ d.status # "absent" => d.hash \in Contents /\ d.key \in 1..d.version
  /\ d.status = "rebuilding" =>
       /\ d.pver = d.version + 1 /\ d.phash \in Contents
       /\ d.pkey = IF d.phash = d.hash THEN d.key ELSE d.pver
  /\ d.status # "rebuilding" => d.pver = 0

\* The key has never been that of a published version.
Fresh(k, table) == \A v \in Versions : table[v] # None => table[v].key # k

\* What a scan or a replacement is about to store is the original of no published version.
RowInv ==
  /\ RowOK(doc)
  /\ doc.status \in Scannable => Fresh(doc.key, archive)
  /\ job.state = "pending" => doc.status \in Scannable /\ Fresh(job.key, archive)
  /\ \A v \in Versions : archive[v] # None => archive[v].key \in 1..doc.version

\* The row d that was read earlier and the present one, r: a version stands for one content
\* and key, and is not scanned again once it is indexed.
Follows(d, r) ==
  /\ RowOK(d) /\ d.version <= r.version
  /\ d.version = r.version =>
       /\ d.key = r.key /\ d.hash = r.hash
       /\ r.status \in Indexed
       /\ d.status = "rebuilding" => r.status \in Searchable

\* What an indexing worker has found in the store is there as long as the row is the same.
Prepared(d, r, store) ==
  d.status = "indexing" /\ r.status = "indexing" /\ d.version = r.version =>
    store[r.key] = r.hash

Reads(p) ==
  /\ pc[p] \in {"put", "scan", "check", "accept"} => job.state = "pending"
  /\ pc[p] \in {"stage", "vet", "offer"} => given[p] \in Contents \ {doc.hash}
  /\ pc[p] = "offer" => uploads[Upcoming] = given[p]
  /\ pc[p] \in Indexing => Follows(seen[p], doc)
  /\ pc[p] \in {"publish", "upsert", "commit"} => Prepared(seen[p], doc, uploads)
  /\ pc[p] \in {"upsert", "commit"} =>
       /\ doc.version = seen[p].version
       /\ seen[p].status = "indexing" => doc.status \notin Searchable
  /\ pc[p] = "commit" => vectors[TargetVersion(seen[p])] = TargetHash(seen[p])

Readable == UseReadable /\ PendingReadable /\ OriginalsKept

ReadInv == RowInv /\ (\A p \in Procs : Reads(p)) /\ Readable

\* A step from row r to row s, and from one state of the store to the next, that leaves what
\* workers have seen of a version true.
Advances(r, s, store, next) ==
  /\ r.version <= s.version
  /\ s.version = r.version =>
       /\ s.key = r.key /\ s.hash = r.hash
       /\ r.status \in Indexed => s.status \in Indexed
       /\ r.status \in Searchable => s.status \in Searchable
       /\ r.status \in Indexed /\ s.status = "indexing" =>
            r.status = "indexing" /\ next[r.key] = store[r.key]

\* A row that advances so is still the one that was seen, or a later version.
LEMMA AdvanceFollows ==
  ASSUME NEW d \in Document, NEW r \in Document, NEW s \in Document, NEW store, NEW next,
         Follows(d, r), Advances(r, s, store, next)
  PROVE  Follows(d, s) /\ (Prepared(d, r, store) => Prepared(d, s, next))
<1>1. d.version \in Nat /\ r.version \in Nat /\ s.version \in Nat
  BY BoundsAreNumbers DEF Document, Keys
<1> QED BY <1>1 DEF Follows, Advances, Prepared

\* What the processes that do not take part in a step know stays true.
LEMMA OthersRead ==
  ASSUME DocumentInv, DocumentInv', ReadInv, NEW p \in Procs, NEW q \in Procs \ {p},
         pc'[q] = pc[q], seen'[q] = seen[q], given'[q] = given[q],
         Advances(doc, doc', uploads, uploads'),
         \/ guard \in {None, p}
         \/ /\ UNCHANGED <<job, uploads, vectors>>
            /\ \/ doc' = doc
               \/ /\ doc.status \in Indexable /\ doc'.version = doc.version
                  /\ doc'.status \in Searchable => doc.status \in Searchable
  PROVE  Reads(q)'
<1>1. Reads(q) /\ seen[q] \in Document /\ doc \in Document /\ doc' \in Document
  BY DEF ReadInv, DocumentInv, TypeOK
<1>2. pc[q] \in Indexing => /\ Follows(seen[q], doc')
                            /\ Prepared(seen[q], doc, uploads) => Prepared(seen[q], doc', uploads')
  BY <1>1, AdvanceFollows DEF Reads
<1>3. CASE guard \in {None, p}
  <2>1. pc[q] \notin Guarded
    BY <1>3, DocumentsAssumption DEF DocumentInv, GuardInv
  <2> QED BY <1>1, <1>2, <2>1 DEF Reads, Guarded, Indexing
<1>4. CASE UNCHANGED <<job, uploads, vectors>> /\ doc' = doc
  BY <1>1, <1>2, <1>4 DEF Reads, Indexing, Upcoming
<1>5. CASE /\ UNCHANGED <<job, uploads, vectors>>
           /\ doc.status \in Indexable /\ doc'.version = doc.version
           /\ doc'.status \in Searchable => doc.status \in Searchable
  <2>1. pc[q] \notin {"stage", "vet", "offer"}
    BY <1>5 DEF DocumentInv, WhereInv, Knows, Indexable
  <2> QED BY <1>1, <1>2, <1>5, <2>1 DEF Reads, Indexing
<1> QED BY <1>3, <1>4, <1>5

\* What a step of p changes that another process may rely on: of the row, only what leaves
\* what was seen of it true, and the store and the scan job only under the lock.
Acts(p) ==
  /\ \A q \in Procs \ {p} : pc'[q] = pc[q] /\ seen'[q] = seen[q] /\ given'[q] = given[q]
  /\ Advances(doc, doc', uploads, uploads')
  /\ \/ guard \in {None, p}
     \/ /\ UNCHANGED <<job, uploads, vectors>>
        /\ \/ doc' = doc
           \/ /\ doc.status \in Indexable /\ doc'.version = doc.version
              /\ doc'.status \in Searchable => doc.status \in Searchable

\* A step of p keeps the invariant when it acts so and keeps what is said of p and the data.
ReadsOn(p) == Acts(p) /\ RowInv' /\ Reads(p)' /\ Readable'

\* Such steps keep what every other process relies on.
LEMMA ReadsOnKeeps ==
  ASSUME DocumentInv, DocumentInv', ReadInv, NEW p \in Procs, ReadsOn(p)
  PROVE  ReadInv'
<1>1. ASSUME NEW q \in Procs \ {p} PROVE Reads(q)'
  BY OthersRead DEF ReadsOn, Acts
<1> QED BY <1>1 DEF ReadInv, ReadsOn

\* A step that changes neither the row, its data nor the scan job.
Quiet(p) ==
  /\ \A q \in Procs \ {p} : pc'[q] = pc[q] /\ seen'[q] = seen[q] /\ given'[q] = given[q]
  /\ UNCHANGED <<doc, job, chunks, archive, uploads, vectors>>

\* It need only keep what is said of p.
LEMMA QuietReadsOn ==
  ASSUME DocumentInv, ReadInv, NEW p \in Procs, Quiet(p), Reads(p)' PROVE ReadsOn(p)
<1>1. RowInv' /\ Readable'
  BY DEF Quiet, ReadInv, RowInv, Readable, UseReadable, PendingReadable, OriginalsKept
<1>2. doc \in Document
  BY DEF DocumentInv, TypeOK
<1>3. Advances(doc, doc', uploads, uploads')
  BY <1>2, BoundsAreNumbers DEF Quiet, Advances, Document, Keys
<1> QED BY <1>1, <1>3 DEF Quiet, Acts, ReadsOn

\* The row an indexing worker has seen, if the present row still asks for it, has the
\* version, the content and the key of the present one.
LEMMA CurrentSame ==
  ASSUME NEW d \in Document, NEW r \in Document, r.status = d.status, d.status \in Indexable,
         TargetVersion(r) = TargetVersion(d), RowOK(d), RowOK(r)
  PROVE  r.version = d.version
  BY BoundsAreNumbers DEF Document, Keys, Indexable, TargetVersion, RowOK

\* Steps that only read, queue and vet: what p knows stays true or is read now.
LEMMA QuietSteps ==
  ASSUME DocumentInv, ReadInv, NEW p \in Procs,
         \/ Store(p) \/ RecoverScan(p) \/ (\E c \in Contents : Replace(p, c))
         \/ Stage(p) \/ StageFails(p) \/ VetRejects(p)
  PROVE  ReadsOn(p)
<1> USE DEF DocumentInv, TypeOK, ReadInv, Reads, Indexing, Quiet
<1>1. CASE Store(p)
  BY <1>1, QuietReadsOn DEF Store, Within, tables
<1>2. CASE RecoverScan(p)
  BY <1>2, QuietReadsOn DEF RecoverScan, Enter, tables, stores
<1>3. CASE \E c \in Contents : Replace(p, c)
  BY <1>3, QuietReadsOn DEF Replace, Enter, stores
<1>4. CASE Stage(p)
  BY <1>4, QuietReadsOn DEF Stage, Within, tables
<1>5. CASE StageFails(p)
  BY <1>5, QuietReadsOn DEF StageFails, Withdraw, Leave
<1>6. CASE VetRejects(p)
  BY <1>6, QuietReadsOn DEF VetRejects, Withdraw, Leave
<1> QED BY <1>1, <1>2, <1>3, <1>4, <1>5, <1>6

\* Steps of an indexing worker, of a cleaner and of a process that stops, likewise.
LEMMA QuietIndexSteps ==
  ASSUME DocumentInv, ReadInv, NEW p \in Procs,
         \/ TakeDocument(p) \/ Attempt(p) \/ AttemptsExhausted(p) \/ Embed(p)
         \/ SourceChanged(p) \/ IndexFails(p) \/ Outdated(p) \/ BeginPublish(p)
         \/ PublishNothing(p) \/ GiveBack(p) \/ ReadTombstone(p) \/ Keep(p) \/ Stop(p)
  PROVE  ReadsOn(p)
<1> USE DEF DocumentInv, TypeOK, ReadInv, Reads, Indexing, Quiet
<1>0. Reads(p) /\ seen[p] \in Document /\ doc \in Document /\ RowOK(doc) /\ Knows(p)
  BY DEF RowInv, WhereInv
<1>1. CASE TakeDocument(p)
  BY <1>0, <1>1, BoundsAreNumbers, QuietReadsOn
     DEF TakeDocument, Within, tables, stores, Follows, Indexable, Indexed, Searchable, Document,
         Keys
<1>2. CASE Attempt(p)
  BY <1>0, <1>2, QuietReadsOn DEF Attempt, Hold, Within, stores
<1>3. CASE AttemptsExhausted(p)
  BY <1>0, <1>3, QuietReadsOn DEF AttemptsExhausted, Hold, Within, tables, stores
<1>4. CASE Embed(p)
  BY <1>0, <1>4, QuietReadsOn
     DEF Embed, Within, tables, stores, Prepared, Follows, TargetKey, TargetHash, Rebuilding
<1>5. CASE SourceChanged(p)
  BY <1>0, <1>5, QuietReadsOn DEF SourceChanged, Within, tables, stores
<1>6. CASE IndexFails(p)
  BY <1>0, <1>6, QuietReadsOn DEF IndexFails, Hold, Within, tables, stores
<1>7. CASE Outdated(p)
  BY <1>0, <1>7, QuietReadsOn DEF Outdated, Hold, Within, tables, stores
<1>8. CASE BeginPublish(p)
  <2>1. doc.version = seen[p].version /\ doc.status = seen[p].status
    BY <1>0, <1>8, CurrentSame DEF BeginPublish, Enter, Current, Follows, Knows
  <2> QED
    BY <1>0, <1>8, <2>1, QuietReadsOn DEF BeginPublish, Enter, stores, Searchable
<1>9. CASE PublishNothing(p)
  BY <1>0, <1>9, QuietReadsOn DEF PublishNothing, Leave, stores
<1>10. CASE GiveBack(p)
  BY <1>0, <1>10, QuietReadsOn DEF GiveBack, Within, stores
<1>11. CASE ReadTombstone(p)
  BY <1>0, <1>11, QuietReadsOn DEF ReadTombstone, Within, tables, stores
<1>12. CASE Keep(p)
  BY <1>0, <1>12, QuietReadsOn DEF Keep, RowDone, Hold, Within, tables, stores
<1>13. CASE Stop(p)
  BY <1>0, <1>13, QuietReadsOn DEF Stop, tables, stores
<1> QED BY <1>1, <1>2, <1>3, <1>4, <1>5, <1>6, <1>7, <1>8, <1>9, <1>10, <1>11, <1>12, <1>13

\* What the proofs about a step need of the types.
LEMMA RowTypes ==
  ASSUME DocumentInv
  PROVE  /\ doc \in Document /\ doc.version \in Nat /\ doc.version <= MaxVersion
         /\ doc.key \in Nat /\ doc.pver \in Nat /\ doc.pkey \in Nat /\ MaxVersion \in Nat
         /\ DOMAIN doc = {"status", "version", "hash", "key", "pver", "phash", "pkey"}
         /\ uploads \in [Versions -> Contents \union {None}]
         /\ vectors \in [Versions -> Contents \union {None}]
         /\ archive \in [Versions -> Archived \union {None}]
         /\ pc \in [Procs -> Steps] /\ seen \in [Procs -> Document]
         /\ given \in [Procs -> Contents \union {None}]
  BY BoundsAreNumbers DEF DocumentInv, TypeOK, Document, Keys

\* An upload gives its original a key of its own.
LEMMA UploadReads ==
  ASSUME DocumentInv, ReadInv, NEW p \in Procs, NEW c \in Contents, Upload(p, c)
  PROVE  ReadsOn(p)
<1>1. /\ guard = None /\ pc' = [pc EXCEPT ![p] = "enrol"]
      /\ doc' = [Absent EXCEPT !.status = "scanning", !.version = doc.version + 1,
                               !.hash = c, !.key = doc.version + 1]
      /\ UNCHANGED <<job, chunks, archive, uploads, vectors, seen, given>>
  BY DEF Upload, Enter, Upcoming, stores
<1>2. /\ doc'.status = "scanning" /\ doc'.version = doc.version + 1 /\ doc'.hash = c
      /\ doc'.key = doc.version + 1 /\ doc'.pver = 0
  BY <1>1 DEF Absent
<1>3. Acts(p)
  BY <1>1, <1>2, RowTypes DEF Acts, Advances
<1>4. RowInv'
  <2>1. RowOK(doc')
    BY <1>2, RowTypes DEF RowOK
  <2>2. \A v \in Versions : archive[v] # None => archive[v].key \in 1..doc.version
    BY DEF ReadInv, RowInv
  <2>3. Fresh(doc'.key, archive)
    BY <1>2, <2>2, RowTypes DEF Fresh
  <2>4. \A v \in Versions : archive[v] # None => archive[v].key \in 1..doc'.version
    BY <1>2, <2>2, RowTypes
  <2> QED BY <1>1, <1>2, <2>1, <2>3, <2>4 DEF RowInv, ReadInv, Scannable
<1>5. Reads(p)'
  BY <1>1, RowTypes DEF Reads, Indexing
<1>6. Readable'
  BY <1>1, <1>2 DEF ReadInv, Readable, UseReadable, PendingReadable, OriginalsKept, Searchable
<1> QED BY <1>3, <1>4, <1>5, <1>6 DEF ReadsOn

\* The steps of an upload, a scan or a recovery that change nothing but the status, the job
\* and the area of scanned originals, while the row is still scannable.
ScanActs(p) ==
  /\ \A q \in Procs \ {p} : pc'[q] = pc[q] /\ seen'[q] = seen[q] /\ given'[q] = given[q]
  /\ guard = p /\ pc'[p] \in {"put", "check", "accept", "giveUp", "list"}
  /\ doc.status \in Scannable /\ UNCHANGED <<chunks, archive, vectors>>
  /\ \E s \in {"scanning", "scan_failed", "quarantined", "indexing"} :
       doc' = [doc EXCEPT !.status = s]
  /\ job' = job \/ job' = [job EXCEPT !.attempts = job'.attempts]
     \/ job'.state # "pending" \/ (doc.status = "scanning" /\ job'.key = doc.key)
  /\ pc'[p] \in {"put", "check", "accept"} => job'.state = "pending"
  /\ job'.state = "pending" => doc'.status \in Scannable
  /\ \/ uploads' = uploads
     \/ job.state = "pending" /\ \E c : uploads' = [uploads EXCEPT ![job.key] = c]

\* They touch only an original that no published version has.
LEMMA ScanReads ==
  ASSUME DocumentInv, ReadInv, NEW p \in Procs, ScanActs(p)
  PROVE  ReadsOn(p)
<1>1. PICK s \in {"scanning", "scan_failed", "quarantined", "indexing"} :
        doc' = [doc EXCEPT !.status = s]
  BY DEF ScanActs
<1>2. /\ doc'.status = s /\ doc'.version = doc.version /\ doc'.hash = doc.hash
      /\ doc'.key = doc.key /\ doc'.pver = doc.pver
  BY <1>1, RowTypes DEF Document
<1>3. doc.status \in Scannable /\ guard = p /\ UNCHANGED <<chunks, archive, vectors>>
  BY DEF ScanActs
<1>4. Acts(p)
  BY <1>2, <1>3, RowTypes DEF ScanActs, Acts, Advances, Scannable, Indexed, Searchable
<1>5. RowInv'
  <2>1. RowOK(doc')
    BY <1>2, <1>3 DEF ReadInv, RowInv, RowOK, Scannable
  <2>2. job'.state = "pending" => Fresh(job'.key, archive)
    BY <1>3 DEF ScanActs, ReadInv, RowInv, DocumentInv, TypeOK, ScanJob
  <2> QED BY <1>2, <1>3, <2>1, <2>2 DEF ReadInv, RowInv, ScanActs
<1>6. Reads(p)'
  BY DEF ScanActs, Reads, Indexing
<1>7. OriginalsKept'
  <2>1. CASE uploads' = uploads
    BY <1>3, <2>1 DEF ReadInv, Readable, OriginalsKept
  <2>2. CASE job.state = "pending" /\ \E c : uploads' = [uploads EXCEPT ![job.key] = c]
    BY <1>3, <2>2 DEF ReadInv, RowInv, Fresh, Readable, OriginalsKept
  <2> QED BY <2>1, <2>2 DEF ScanActs
<1> QED
  BY <1>2, <1>4, <1>5, <1>6, <1>7 DEF ReadsOn, Readable, UseReadable, PendingReadable, Searchable

\* The steps of uploads and scans act so.
LEMMA ScanSteps ==
  ASSUME DocumentInv, ReadInv, NEW p \in Procs,
         Enrol(p) \/ StoreFails(p) \/ ScanStep(p)
  PROVE  ScanActs(p)
<1> USE RowTypes DEF DocumentInv, GuardInv, WhereInv, Knows, ReadInv, RowInv, Reads, Guarded,
        Scannable, stores, tables, ScanActs
<1>0. Knows(p) /\ Reads(p) /\ job \in ScanJob /\ (pc[p] \in Guarded => guard = p)
  BY DEF TypeOK
<1>d. doc = [doc EXCEPT !.status = doc.status]
  BY DEF Document
<1>1. CASE Enrol(p)
  BY <1>0, <1>d, <1>1 DEF Enrol, Within
<1>2. CASE StoreFails(p)
  BY <1>0, <1>2 DEF StoreFails, Leave
<1>3. CASE CountScan(p)
  BY <1>0, <1>d, <1>3 DEF CountScan, Within, ScanJob
<1>4. CASE ScanImpossible(p)
  BY <1>0, <1>d, <1>4 DEF ScanImpossible, Within, ScanJob
<1>5. CASE GiveUp(p)
  BY <1>0, <1>5 DEF GiveUp, Leave
<1>6. CASE Rejected(p)
  BY <1>0, <1>6 DEF Rejected, Leave, ScanJob
<1>7. CASE ScanUnavailable(p)
  BY <1>0, <1>7 DEF ScanUnavailable, Leave
<1>8. CASE Release(p)
  BY <1>0, <1>d, <1>8 DEF Release, Within
<1>9. CASE Accept(p)
  BY <1>0, <1>9 DEF Accept, Leave, ScanJob
<1> QED BY <1>1, <1>2, <1>3, <1>4, <1>5, <1>6, <1>7, <1>8, <1>9 DEF ScanStep

\* A document without a scan job gets one; no process takes part.
LEMMA AdoptReads ==
  ASSUME DocumentInv, ReadInv, AdoptScan PROVE ReadInv'
<1>1. /\ doc.status = "scanning" /\ job' = [state |-> "pending", attempts |-> 0, key |-> doc.key]
      /\ UNCHANGED <<doc, chunks, archive, uploads, vectors, pc, seen, given>>
  BY DEF AdoptScan, stores, process
<1>2. RowInv'
  BY <1>1 DEF ReadInv, RowInv, Scannable
<1>3. ASSUME NEW q \in Procs PROVE Reads(q)'
  BY <1>1 DEF ReadInv, Reads, Upcoming
<1>4. Readable'
  BY <1>1 DEF ReadInv, Readable, UseReadable, PendingReadable, OriginalsKept
<1> QED BY <1>2, <1>3, <1>4 DEF ReadInv

\* Vetting stores the next version's original, which is that of no version in use.
LEMMA VetReads ==
  ASSUME DocumentInv, ReadInv, NEW p \in Procs, Vet(p) \/ VetFails(p)
  PROVE  ReadsOn(p)
<1>1. /\ guard = p /\ doc.status = "ready" /\ doc.version < MaxVersion /\ pc[p] = "vet"
      /\ pc' \in {[pc EXCEPT ![p] = "offer"], [pc EXCEPT ![p] = "list"]}
      /\ \A q \in Procs \ {p} : given'[q] = given[q]
      /\ UNCHANGED <<doc, job, chunks, archive, vectors, seen>>
  BY RowTypes DEF Vet, VetFails, Withdraw, Within, Leave, tables, DocumentInv, GuardInv, WhereInv,
       Knows, Guarded
<1>2. uploads' \in {uploads, [uploads EXCEPT ![doc.version + 1] = given[p]]}
  BY DEF Vet, VetFails, Upcoming
<1>3. Acts(p)
  BY <1>1, RowTypes DEF Acts, Advances
<1>4. RowInv'
  BY <1>1 DEF ReadInv, RowInv
<1>5. Reads(p)'
  <2>1. CASE Vet(p)
    BY <1>1, <2>1, RowTypes DEF Vet, Within, Versions, ReadInv, Reads, Indexing, Upcoming
  <2>2. CASE VetFails(p)
    BY <2>2, RowTypes DEF VetFails, Withdraw, Leave, Reads, Indexing
  <2> QED BY <2>1, <2>2
<1>6. Readable'
  <2>1. doc.key \in Versions \ {doc.version + 1}
    BY <1>1, RowTypes DEF ReadInv, RowInv, RowOK, Versions
  <2>2. \A v \in Versions : archive[v] # None => archive[v].key \in Versions \ {doc.version + 1}
    BY RowTypes DEF ReadInv, RowInv, Versions
  <2>3. \A k \in Versions \ {doc.version + 1} : uploads'[k] = uploads[k]
    BY <1>2, RowTypes
  <2>4. UseReadable' /\ PendingReadable'
    BY <1>1, <2>1, <2>3 DEF ReadInv, Readable, UseReadable, PendingReadable
  <2>5. OriginalsKept'
    BY <1>1, <2>2, <2>3 DEF ReadInv, Readable, OriginalsKept
  <2> QED BY <2>4, <2>5 DEF Readable
<1> QED BY <1>3, <1>4, <1>5, <1>6 DEF ReadsOn

\* An offered replacement has been stored under its key.
LEMMA OfferReads ==
  ASSUME DocumentInv, ReadInv, NEW p \in Procs, Offer(p)
  PROVE  ReadsOn(p)
<1>1. /\ guard = p /\ doc.status = "ready" /\ pc' = [pc EXCEPT ![p] = "idle"]
      /\ given[p] \in Contents \ {doc.hash} /\ uploads[doc.version + 1] = given[p]
      /\ \A q \in Procs \ {p} : given'[q] = given[q]
      /\ UNCHANGED <<job, chunks, archive, uploads, vectors, seen>>
  BY RowTypes DEF Offer, Leave, stores, DocumentInv, GuardInv, WhereInv, Knows, Guarded, ReadInv,
       Reads, Upcoming
<1>2. /\ doc'.status = "rebuilding" /\ doc'.version = doc.version /\ doc'.hash = doc.hash
      /\ doc'.key = doc.key /\ doc'.pver = doc.version + 1 /\ doc'.phash = given[p]
      /\ doc'.pkey = doc.version + 1
  BY RowTypes DEF Offer, Upcoming
<1>3. Acts(p)
  BY <1>1, <1>2, RowTypes DEF Acts, Advances, Searchable, Indexed
<1>4. RowInv'
  BY <1>1, <1>2, RowTypes DEF ReadInv, RowInv, RowOK, Scannable
<1>5. Reads(p)'
  BY <1>1, RowTypes DEF Reads, Indexing
<1>6. Readable'
  BY <1>1, <1>2 DEF ReadInv, Readable, UseReadable, PendingReadable, OriginalsKept, Searchable
<1> QED BY <1>3, <1>4, <1>5, <1>6 DEF ReadsOn

\* A rebuild asks for the original that is in use, under the next version.
LEMMA ReindexReads ==
  ASSUME DocumentInv, ReadInv, NEW p \in Procs, Reindex(p)
  PROVE  ReadsOn(p)
<1>1. /\ guard = None /\ doc.status \in {"ready", "failed"} /\ pc' = [pc EXCEPT ![p] = "idle"]
      /\ UNCHANGED <<job, chunks, archive, uploads, vectors, seen, given>>
  BY DEF Reindex, Hold, Within, stores
<1>2. /\ doc'.hash = doc.hash /\ doc'.key = doc.key
      /\ \/ /\ doc.status = "ready" /\ doc'.status = "rebuilding" /\ doc'.version = doc.version
            /\ doc'.pver = doc.version + 1 /\ doc'.phash = doc.hash /\ doc'.pkey = doc.key
         \/ /\ doc.status = "failed" /\ doc'.status = "indexing"
            /\ doc'.version = doc.version + 1 /\ doc'.pver = doc.pver
  BY <1>1, RowTypes DEF Reindex, Upcoming
<1>3. Acts(p)
  BY <1>1, <1>2, RowTypes DEF Acts, Advances, Searchable, Indexed
<1>4. RowInv'
  <2>1. RowOK(doc')
    BY <1>1, <1>2, RowTypes DEF ReadInv, RowInv, RowOK
  <2>2. \A v \in Versions : archive[v] # None => archive[v].key \in 1..doc'.version
    BY <1>2, RowTypes DEF ReadInv, RowInv
  <2> QED BY <1>1, <1>2, <2>1, <2>2 DEF ReadInv, RowInv, Scannable
<1>5. Reads(p)'
  BY <1>1, RowTypes DEF Reads, Indexing
<1>6. Readable'
  BY <1>1, <1>2 DEF ReadInv, Readable, UseReadable, PendingReadable, OriginalsKept, Searchable
<1> QED BY <1>3, <1>4, <1>5, <1>6 DEF ReadsOn

\* INSERT OR IGNORE leaves the versions that are archived and adds at most the one given.
LEMMA ArchivedOnce ==
  ASSUME NEW table \in [Versions -> Archived \union {None}], NEW u, NEW h, NEW k,
         NEW v \in Versions, WithArchived(table, u, h, k)[v] # table[v]
  PROVE  v = u /\ table[v] = None /\ WithArchived(table, u, h, k)[v] = [hash |-> h, key |-> k]
  BY DEF WithArchived

\* A deletion archives the version in use, whose original is stored.
LEMMA DeleteReads ==
  ASSUME DocumentInv, ReadInv, NEW p \in Procs, Delete(p)
  PROVE  ReadsOn(p)
<1>1. /\ guard = None /\ doc.status # "absent" /\ pc' = [pc EXCEPT ![p] = "list"]
      /\ doc' = [NoPending(doc) EXCEPT !.status = "deleted", !.version = doc.version + 1]
      /\ UNCHANGED <<uploads, vectors, seen, given>> /\ job' = NoJob
  BY DEF Delete, Hold, Within, Upcoming, stores
<1>2. /\ doc'.status = "deleted" /\ doc'.version = doc.version + 1 /\ doc'.hash = doc.hash
      /\ doc'.key = doc.key /\ doc'.pver = 0
  BY <1>1, RowTypes DEF NoPending
<1>3. /\ archive' # archive => doc.status \in Searchable
      /\ archive' \in {archive, WithArchived(archive, doc.version, doc.hash, doc.key)}
  BY DEF Delete, Visible
<1>4. Acts(p)
  BY <1>1, <1>2, RowTypes DEF Acts, Advances
<1>5. ASSUME NEW v \in Versions, archive'[v] # None
      PROVE  archive'[v].key \in 1..doc.version /\ uploads[archive'[v].key] = archive'[v].hash
  <2>1. CASE archive'[v] = archive[v]
    BY <1>5, <2>1 DEF ReadInv, RowInv, Readable, OriginalsKept
  <2>2. CASE archive'[v] # archive[v]
    <3>1. archive'[v] = [hash |-> doc.hash, key |-> doc.key] /\ doc.status \in Searchable
      BY <1>3, <2>2, ArchivedOnce, RowTypes
    <3> QED
      BY <1>1, <3>1 DEF ReadInv, RowInv, RowOK, Readable, UseReadable
  <2> QED BY <2>1, <2>2
<1>6. RowInv'
  <2>1. \A v \in Versions : archive'[v] # None => archive'[v].key \in 1..doc'.version
    BY <1>2, <1>5, RowTypes
  <2>2. RowOK(doc')
    BY <1>1, <1>2, RowTypes DEF ReadInv, RowInv, RowOK
  <2> QED BY <1>1, <1>2, <2>1, <2>2 DEF RowInv, Scannable, NoJob
<1>7. Reads(p)'
  BY <1>1, RowTypes DEF Reads, Indexing
<1>8. Readable'
  BY <1>1, <1>2, <1>5 DEF Readable, UseReadable, PendingReadable, OriginalsKept, Searchable
<1> QED BY <1>4, <1>6, <1>7, <1>8 DEF ReadsOn

\* What the worker that publishes knows of the row it has seen.
LEMMA SeenFacts ==
  ASSUME DocumentInv, ReadInv, NEW p \in Procs, pc[p] \in {"upsert", "commit"}
  PROVE  /\ guard = p /\ doc.version = seen[p].version /\ Follows(seen[p], doc)
         /\ seen[p].status \in Indexable /\ seen[p] \in Document
         /\ TargetVersion(seen[p]) \in Versions
         /\ IF Rebuilding(seen[p])
            THEN TargetVersion(seen[p]) = doc.version + 1
            ELSE TargetVersion(seen[p]) = doc.version /\ doc.status \notin Searchable
<1> DEFINE d == seen[p]
<1>1. guard = p /\ Knows(p) /\ Reads(p) /\ d \in Document
  BY RowTypes DEF DocumentInv, GuardInv, WhereInv, Guarded, ReadInv
<1>2. doc.version = d.version /\ Follows(d, doc) /\ d.status \in Indexable
      /\ (d.status = "indexing" => doc.status \notin Searchable)
  BY <1>1 DEF Reads, Knows, Indexing
<1>3. d.version \in Nat /\ d.pver \in Nat /\ d.pver <= MaxVersion /\ d.version <= MaxVersion
      /\ MaxVersion \in Nat
  BY <1>1, BoundsAreNumbers DEF Document, Keys
<1>4. d.version >= 1
  BY <1>2, <1>3 DEF Follows, RowOK, Indexable
<1>5. IF Rebuilding(d) THEN d.pver = d.version + 1 ELSE d.pver = 0 /\ d.status = "indexing"
  BY <1>2 DEF Follows, RowOK, Indexable, Rebuilding
<1>6. TargetVersion(d) = IF Rebuilding(d) THEN d.version + 1 ELSE d.version
  BY <1>3, <1>5 DEF TargetVersion
<1>7. TargetVersion(d) \in Versions
  BY <1>3, <1>4, <1>5, <1>6 DEF Versions
<1> QED BY <1>1, <1>2, <1>5, <1>6, <1>7

\* Vectors are written for a version that is not in use.
LEMMA UpsertReads ==
  ASSUME DocumentInv, ReadInv, NEW p \in Procs, Upsert(p) \/ UpsertFails(p)
  PROVE  ReadsOn(p)
<1> DEFINE v == TargetVersion(seen[p])
<1>1. /\ pc[p] = "upsert" /\ vectors' \in {vectors, WithVectors(seen[p])}
      /\ \/ pc' = [pc EXCEPT ![p] = "commit"] /\ vectors' = WithVectors(seen[p])
         \/ pc' = [pc EXCEPT ![p] = "fail"]
      /\ UNCHANGED <<doc, job, chunks, archive, uploads, seen, given>>
  BY DEF Upsert, UpsertFails, Within, Leave, tables
<1>2. /\ guard = p /\ v \in Versions /\ (v = doc.version => doc.status \notin Searchable)
  BY <1>1, SeenFacts, RowTypes
<1>3. Acts(p)
  BY <1>1, <1>2, RowTypes DEF Acts, Advances
<1>4. RowInv'
  BY <1>1 DEF ReadInv, RowInv
<1>5. Reads(p)'
  <2>1. Reads(p) /\ DOMAIN vectors = Versions
    BY RowTypes DEF ReadInv
  <2>2. CASE pc' = [pc EXCEPT ![p] = "fail"]
    BY <1>1, <2>1, <2>2, RowTypes DEF Reads, Indexing
  <2>3. CASE pc' = [pc EXCEPT ![p] = "commit"] /\ vectors' = WithVectors(seen[p])
    <3>1. vectors'[v] = TargetHash(seen[p])
      BY <1>2, <2>1, <2>3 DEF WithVectors
    <3> QED
      BY <1>1, <2>1, <2>3, <3>1, RowTypes DEF Reads, Indexing
  <2> QED BY <1>1, <2>2, <2>3
<1>6. Readable'
  <2>1. doc.status \in Searchable => vectors'[doc.version] = vectors[doc.version]
    <3>1. doc.status \in Searchable => doc.version \in Versions
      BY RowTypes DEF ReadInv, RowInv, RowOK, Searchable, Versions
    <3> QED BY <1>1, <1>2, <3>1, RowTypes DEF WithVectors
  <2> QED
    BY <1>1, <2>1 DEF ReadInv, Readable, UseReadable, PendingReadable, OriginalsKept
<1> QED BY <1>3, <1>4, <1>5, <1>6 DEF ReadsOn

\* A new document is published with the original and the vectors it was prepared from.
LEMMA FirstPublishReads ==
  ASSUME DocumentInv, ReadInv, NEW p \in Procs, Publish(p), ~Rebuilding(seen[p])
  PROVE  ReadsOn(p)
<1>1. /\ pc[p] = "commit" /\ pc' = [pc EXCEPT ![p] = "list"] /\ Affected(seen[p])
      /\ seen' = [seen EXCEPT ![p] = Absent]
      /\ UNCHANGED <<job, uploads, vectors, given>>
  BY DEF Publish, Leave, stores
<1>2. /\ guard = p /\ TargetVersion(seen[p]) = doc.version /\ doc.version \in Versions
      /\ seen[p].status = "indexing" /\ doc.status = "indexing"
      /\ doc.key = seen[p].key /\ doc.hash = seen[p].hash
      /\ doc.version = seen[p].version
  BY <1>1, SeenFacts DEF Rebuilding, Indexable, Affected, Follows
<1>3. TargetHash(seen[p]) = doc.hash /\ TargetKey(seen[p]) = doc.key
  BY <1>2 DEF TargetHash, TargetKey, Rebuilding
<1>4. /\ doc' = [doc EXCEPT !.status = "ready", !.version = doc.version, !.pver = 0]
      /\ archive' = WithArchived(archive, doc.version, doc.hash, doc.key)
      /\ chunks' = [version |-> doc.version, hash |-> doc.hash]
  BY <1>2, <1>3 DEF Publish, Rebuilding
<1>5. /\ doc'.status = "ready" /\ doc'.version = doc.version /\ doc'.hash = doc.hash
      /\ doc'.key = doc.key /\ doc'.pver = 0
  BY <1>4, RowTypes
<1>6. uploads[doc.key] = doc.hash /\ vectors[doc.version] = doc.hash
  BY <1>1, <1>2, <1>3 DEF ReadInv, Reads, Prepared
<1>7. doc.key \in 1..doc.version /\ doc.hash \in Contents
  BY <1>2 DEF ReadInv, RowInv, RowOK
<1>8. Acts(p)
  BY <1>1, <1>2, <1>5, RowTypes DEF Acts, Advances, Indexed, Searchable
<1>9. ASSUME NEW v \in Versions, archive'[v] # None
      PROVE  archive'[v].key \in 1..doc.version /\ uploads[archive'[v].key] = archive'[v].hash
  <2>1. CASE archive'[v] = archive[v]
    BY <1>9, <2>1 DEF ReadInv, RowInv, Readable, OriginalsKept
  <2>2. CASE archive'[v] # archive[v]
    <3>1. archive'[v] = [hash |-> doc.hash, key |-> doc.key]
      BY <1>4, <2>2, ArchivedOnce, RowTypes
    <3> QED BY <1>6, <1>7, <3>1
  <2> QED BY <2>1, <2>2
<1>10. RowInv'
  BY <1>1, <1>2, <1>5, <1>7, <1>9 DEF RowInv, RowOK, ReadInv, Scannable
<1>11. Reads(p)'
  BY <1>1, RowTypes DEF Reads, Indexing
<1>12. Readable'
  BY <1>1, <1>4, <1>5, <1>6, <1>9 DEF Readable, UseReadable, PendingReadable, OriginalsKept
<1> QED BY <1>8, <1>10, <1>11, <1>12 DEF ReadsOn

\* A replacement is published with the original that was pending; the version it follows
\* keeps its own in the archive.
LEMMA NextPublishReads ==
  ASSUME DocumentInv, ReadInv, NEW p \in Procs, Publish(p), Rebuilding(seen[p])
  PROVE  ReadsOn(p)
<1> DEFINE w == doc.version + 1
           old == WithArchived(archive, doc.version, doc.hash, doc.key)
<1>1. /\ pc[p] = "commit" /\ pc' = [pc EXCEPT ![p] = "list"] /\ Affected(seen[p])
      /\ seen' = [seen EXCEPT ![p] = Absent]
      /\ UNCHANGED <<job, uploads, vectors, given>>
  BY DEF Publish, Leave, stores
<1>2. /\ guard = p /\ TargetVersion(seen[p]) = w /\ w \in Versions
      /\ doc.status = "rebuilding"
      /\ doc.version = seen[p].version /\ doc.phash = seen[p].phash
      /\ doc.key = seen[p].key /\ doc.hash = seen[p].hash
      /\ RowOK(seen[p]) /\ RowOK(doc)
  BY <1>1, SeenFacts DEF Rebuilding, Affected, Follows, ReadInv, RowInv
<1>3. seen[p].pver = doc.pver /\ seen[p].pkey = doc.pkey
  BY <1>2 DEF RowOK, Rebuilding
<1>4. TargetHash(seen[p]) = doc.phash /\ TargetKey(seen[p]) = doc.pkey
  BY <1>2, <1>3 DEF TargetHash, TargetKey
<1>5. /\ doc' = [NoPending(doc) EXCEPT !.status = "ready", !.version = w,
                                       !.hash = doc.phash, !.key = doc.pkey]
      /\ archive' = WithArchived(old, w, doc.phash, doc.pkey)
      /\ chunks' = [version |-> w, hash |-> doc.phash]
  BY <1>2, <1>3, <1>4 DEF Publish
<1>6. /\ doc'.status = "ready" /\ doc'.version = w /\ doc'.hash = doc.phash
      /\ doc'.key = doc.pkey /\ doc'.pver = 0
  BY <1>5, RowTypes DEF NoPending
<1>7. /\ uploads[doc.key] = doc.hash /\ uploads[doc.pkey] = doc.phash
      /\ vectors[w] = doc.phash
  BY <1>1, <1>2, <1>4 DEF ReadInv, Reads, Readable, UseReadable, PendingReadable, Searchable
<1>8. doc.key \in 1..w /\ doc.pkey \in 1..w /\ doc.phash \in Contents
  BY <1>2, RowTypes DEF RowOK
<1>9. Acts(p)
  BY <1>1, <1>2, <1>6, RowTypes DEF Acts, Advances
<1>10. old \in [Versions -> Archived \union {None}]
  BY ArchivedType, RowTypes DEF Document
<1>11. ASSUME NEW v \in Versions, archive'[v] # None
       PROVE  archive'[v].key \in 1..w /\ uploads[archive'[v].key] = archive'[v].hash
  <2>1. CASE archive'[v] = archive[v]
    BY <1>11, <2>1, RowTypes DEF ReadInv, RowInv, Readable, OriginalsKept
  <2>2. CASE archive'[v] = old[v] /\ old[v] # archive[v]
    <3>1. old[v] = [hash |-> doc.hash, key |-> doc.key]
      BY <2>2, ArchivedOnce, RowTypes
    <3> QED BY <1>7, <1>8, <2>2, <3>1
  <2>3. CASE archive'[v] # old[v]
    <3>1. archive'[v] = [hash |-> doc.phash, key |-> doc.pkey]
      BY <1>5, <1>10, <2>3, ArchivedOnce
    <3> QED BY <1>7, <1>8, <3>1
  <2> QED BY <2>1, <2>2, <2>3
<1>12. RowInv'
  <2>1. doc.status \notin Scannable /\ doc'.status \notin Scannable
    BY <1>2, <1>6 DEF Scannable
  <2> QED BY <1>1, <1>6, <1>8, <1>11, <2>1 DEF RowInv, RowOK, ReadInv
<1>13. Reads(p)'
  BY <1>1, RowTypes DEF Reads, Indexing
<1>14. Readable'
  BY <1>1, <1>5, <1>6, <1>7, <1>11 DEF Readable, UseReadable, PendingReadable, OriginalsKept
<1> QED BY <1>9, <1>12, <1>13, <1>14 DEF ReadsOn

\* The failure handler, which does not take the lock, changes only a row that still asks for
\* what failed, and of it only the status and what is pending.
LEMMA FailureReads ==
  ASSUME DocumentInv, ReadInv, NEW p \in Procs, RecordFailure(p) \/ Restore(p)
  PROVE  ReadsOn(p)
<1>1. /\ pc' \in {[pc EXCEPT ![p] = "idle"], [pc EXCEPT ![p] = "list"]}
      /\ seen' = [seen EXCEPT ![p] = Absent]
      /\ UNCHANGED <<job, chunks, archive, uploads, vectors, given>>
  BY DEF RecordFailure, Restore, Within, stores
<1>2. \/ doc' = doc
      \/ /\ doc.status = "indexing" /\ doc'.status = "failed" /\ doc'.pver = 0
         /\ doc'.version = doc.version /\ doc'.hash = doc.hash /\ doc'.key = doc.key
      \/ /\ doc.status = "rebuilding" /\ doc'.status = "ready" /\ doc'.pver = 0
         /\ doc'.version = doc.version /\ doc'.hash = doc.hash /\ doc'.key = doc.key
  BY RowTypes DEF RecordFailure, Restore, StillIndexing, StillPending, Rebuilding, NoPending
<1>3. Acts(p)
  BY <1>1, <1>2, RowTypes DEF Acts, Advances, Indexed, Searchable, Indexable
<1>4. RowInv'
  BY <1>1, <1>2 DEF ReadInv, RowInv, RowOK, Scannable
<1>5. Reads(p)'
  BY <1>1, RowTypes DEF Reads, Indexing
<1>6. Readable'
  BY <1>1, <1>2 DEF ReadInv, Readable, UseReadable, PendingReadable, OriginalsKept, Searchable
<1> QED BY <1>3, <1>4, <1>5, <1>6 DEF ReadsOn

\* Sweeping removes no vectors of a version in use and no original that a row or an archived
\* version has.
LEMMA SweepReads ==
  ASSUME DocumentInv, ReadInv, NEW p \in Procs, Sweep(p) \/ SweepFails(p)
  PROVE  ReadsOn(p)
<1> DEFINE v == row[p][1]  k == row[p][2]
<1>1. /\ guard = None /\ ~InUse(v) /\ pc' = [pc EXCEPT ![p] = "idle"]
      /\ vectors' \in {vectors, [vectors EXCEPT ![v] = None]}
      /\ uploads' \in {uploads, Without(uploads, k)}
      /\ UNCHANGED <<doc, job, chunks, archive, seen, given>>
  BY DEF Sweep, SweepFails, RowDone, Hold, Within, stores, tables
<1>2. ASSUME NEW j \in Versions, ~Disposable(k) \/ j # k
      PROVE  uploads'[j] = uploads[j]
  BY <1>1, <1>2, RowTypes DEF Without
<1>3. Live => (doc.key \in Versions => uploads'[doc.key] = uploads[doc.key])
              /\ (doc.pkey \in Versions => uploads'[doc.pkey] = uploads[doc.pkey])
              /\ (doc.version \in Versions => vectors'[doc.version] = vectors[doc.version])
  <2>1. Live /\ Disposable(k) => doc.key # k /\ doc.pkey # k
    BY DEF Disposable
  <2>2. Live => doc.version # v
    BY <1>1 DEF InUse
  <2> QED BY <1>1, <1>2, <2>1, <2>2, RowTypes
<1>4. RowOK(doc)
  BY DEF ReadInv, RowInv
<1>5. doc.status # "absent" => doc.key \in Versions /\ doc.version \in Versions
  BY <1>4, RowTypes DEF RowOK, Versions
<1>6. doc.status = "rebuilding" => doc.pkey \in Versions
  <2> SUFFICES ASSUME doc.status = "rebuilding" PROVE doc.pkey \in Versions
    OBVIOUS
  <2>1. doc.pver <= MaxVersion
    BY BoundsAreNumbers DEF DocumentInv, TypeOK, Document, Keys
  <2> QED BY <1>4, <2>1, RowTypes DEF RowOK, Versions
<1>7. Acts(p)
  BY <1>1, <1>3, <1>5, RowTypes DEF Acts, Advances, Live
<1>8. RowInv'
  BY <1>1 DEF ReadInv, RowInv
<1>9. Reads(p)'
  BY <1>1, RowTypes DEF Reads, Indexing
<1>10. Readable'
  <2>1. UseReadable' /\ PendingReadable'
    BY <1>1, <1>3, <1>5, <1>6 DEF ReadInv, Readable, UseReadable, PendingReadable, Searchable, Live
  <2>2. OriginalsKept'
    <3> SUFFICES ASSUME NEW u \in Versions, archive[u] # None
                 PROVE  uploads'[archive[u].key] = archive[u].hash
      BY <1>1 DEF OriginalsKept
    <3>1. archive[u].key \in Versions
      BY RowTypes DEF ReadInv, RowInv, Versions
    <3>2. Disposable(k) => archive[u].key # k
      BY DEF Disposable
    <3> QED BY <1>2, <3>1, <3>2 DEF ReadInv, Readable, OriginalsKept
  <2> QED BY <2>1, <2>2 DEF Readable
<1> QED BY <1>7, <1>8, <1>9, <1>10 DEF ReadsOn

\* The invariant is inductive, given the one on types, lock and row.
LEMMA ReadInductive ==
  ASSUME DocumentInv, DocumentInv', ReadInv, [Next]_documentVars PROVE ReadInv'
<1>1. CASE UNCHANGED documentVars
  BY <1>1 DEF documentVars, tables, stores, process, ReadInv, RowInv, Reads, Upcoming, Readable,
       UseReadable, PendingReadable, OriginalsKept
<1>2. CASE AdoptScan
  BY <1>2, AdoptReads
<1>3. ASSUME NEW p \in Procs, NEW c \in Contents, Upload(p, c) \/ Replace(p, c) PROVE ReadInv'
  BY <1>3, UploadReads, QuietSteps, ReadsOnKeeps
<1>4. ASSUME NEW p \in Procs,
             Enrol(p) \/ Store(p) \/ StoreFails(p) \/ RecoverScan(p) \/ ScanStep(p)
      PROVE  ReadInv'
  BY <1>4, QuietSteps, ScanSteps, ScanReads, ReadsOnKeeps
<1>5. ASSUME NEW p \in Procs, ReplaceStep(p) \/ Reindex(p) \/ Delete(p) PROVE ReadInv'
  BY <1>5, QuietSteps, VetReads, OfferReads, ReindexReads, DeleteReads, ReadsOnKeeps DEF ReplaceStep
<1>6. ASSUME NEW p \in Procs, TakeDocument(p) \/ IndexStep(p) PROVE ReadInv'
  BY <1>6, QuietIndexSteps, UpsertReads, FirstPublishReads, NextPublishReads, FailureReads,
     ReadsOnKeeps DEF IndexStep
<1>7. ASSUME NEW p \in Procs, CleanStep(p) \/ Stop(p) PROVE ReadInv'
  BY <1>7, QuietIndexSteps, SweepReads, ReadsOnKeeps DEF CleanStep
<1> QED BY <1>1, <1>2, <1>3, <1>4, <1>5, <1>6, <1>7 DEF Next

\* The initial state satisfies it.
LEMMA InitiallyReadable == Init => ReadInv
<1> SUFFICES ASSUME Init PROVE ReadInv
  OBVIOUS
<1>1. RowInv
  BY DEF Init, Absent, NoJob, Nothing, RowInv, RowOK, Scannable
<1>2. ASSUME NEW p \in Procs PROVE Reads(p)
  BY DEF Init, Reads, Indexing
<1>3. Readable
  BY DEF Init, Absent, Nothing, Readable, UseReadable, PendingReadable, OriginalsKept, Searchable
<1> QED BY <1>1, <1>2, <1>3 DEF ReadInv

\* What rows, scan jobs, workers and replacements rely on in the store is always there.
THEOREM ReadsHold == Spec => []ReadInv
<1>1. DocumentInv /\ DocumentInv' /\ ReadInv /\ [Next]_documentVars => ReadInv'
  BY ReadInductive
<1> QED BY <1>1, InitiallyReadable, Guards, PTL DEF Spec

\* The version a search reads is complete, whatever fails, stops or is cleaned up around it.
THEOREM UseStaysReadable == Spec => []UseReadable
<1>1. ReadInv => UseReadable
  BY DEF ReadInv, Readable
<1> QED BY <1>1, ReadsHold, PTL

\* The original of an accepted replacement is there for as long as it is pending.
THEOREM PendingStaysReadable == Spec => []PendingReadable
<1>1. ReadInv => PendingReadable
  BY DEF ReadInv, Readable
<1> QED BY <1>1, ReadsHold, PTL

\* Every version that was ever published keeps its original.
THEOREM OriginalsStay == Spec => []OriginalsKept
<1>1. ReadInv => OriginalsKept
  BY DEF ReadInv, Readable
<1> QED BY <1>1, ReadsHold, PTL

=============================================================================
