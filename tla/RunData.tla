------------------------------- MODULE RunData -------------------------------
(***************************************************************************)
(* The data one workspace keeps outside its rows, and how it is deleted:   *)
(* the checkpoints of its research runs, and the images sent with them.    *)
(*                                                                         *)
(* Deleting a conversation, or all research of the workspace, is one SQL   *)
(* transaction that takes the execution lock of every run it has listed    *)
(* and leaves an intent (a row of run_cleanup) for each.  The recovery     *)
(* loops of all replicas read the intents, take the execution lock again   *)
(* and delete checkpoint, objects and attachment rows before the intent.   *)
(* Beside them the attachment loops sweep the images marked deleted,       *)
(* workers write checkpoints under the same lock, and uploads and new runs *)
(* go on.  Any process may stop between two statements: it loses its locks *)
(* and an open transaction is rolled back.                                 *)
(*                                                                         *)
(* run_cleanup.py, attachments.py, retention and deletion in runtime.py,   *)
(* checkpoints.py, and the binding of images in ResearchCommandService.    *)
(***************************************************************************)
EXTENDS Naturals, FiniteSets

CONSTANTS Runs, Threads,
          ThreadOf,           \* the conversation a run would be created in
          Images,
          Cleaners,           \* recovery loops, and callers of cleanup_runs
          Sweepers,           \* attachment loops, and callers of cleanup
          Batch,              \* retention_cleanup_batch_size
          MaxFaults,          \* bound: failing deletes and stopped processes
          CreateDuringPurge,  \* may a run be created while a purge waits for locks
          Worker, None        \* model values

ASSUME DataAssumption ==
    /\ ThreadOf \in [Runs -> Threads]
    /\ Batch \in Nat \ {0} /\ MaxFaults \in Nat
    /\ CreateDuringPurge \in BOOLEAN
    /\ Worker \notin Cleaners /\ None \notin Cleaners /\ Worker # None
    /\ None \notin Runs /\ None \notin Images /\ None \notin Threads

VARIABLES
    run,         \* runs: status of each row, "none" before and "gone" after it
    threads,     \* threads: conversations already deleted
    intents,     \* run_cleanup: runs with a committed deletion intent
    checkpoints, \* runs with something in the checkpoint store
    lock,        \* the advisory lock execution:<run>
    row, bound,  \* attachments: status and run_id
    upload,      \* how far Attachments.add has come for an image
    objects,     \* the object store: the images stored in each area
    deleter,     \* the deletion under way; publication:<workspace> admits one
    cleaner,     \* RunCleanup.reconcile in each recovery loop
    sweeper,     \* Attachments.cleanup in each attachment loop
    faults

runVars == <<run, threads, intents, checkpoints, lock>>
imageVars == <<row, bound, upload, objects>>
vars == <<runVars, imageVars, deleter, cleaner, sweeper, faults>>

Active == {"queued", "running"}
Existing == {r \in Runs : run[r] \notin {"none", "gone"}}
Areas == {"uploads", "quarantine"}

\* An image row that is still in the table.
Kept(i) == row[i] \notin {"none", "gone"}

NoDeletion == [pc |-> "idle", thread |-> None, ids |-> {}]
Rest == [pc |-> "idle", todo |-> {}, run |-> None, images |-> {}, image |-> None]
Asleep == [pc |-> "idle", todo |-> {}, image |-> None]

Deletion == [pc : {"idle", "thread", "cancelled", "purge"},
             thread : Threads \cup {None}, ids : SUBSET Runs]
Cleaning == [pc : {"idle", "next", "checkpoint", "images", "uploads", "quarantine", "row"},
             todo : SUBSET Runs, run : Runs \cup {None},
             images : SUBSET Images, image : Images \cup {None}]
Sweeping == [pc : {"idle", "next", "uploads", "quarantine", "row"},
             todo : SUBSET Images, image : Images \cup {None}]

TypeOK ==
    /\ run \in [Runs -> {"none", "queued", "running", "settled", "gone"}]
    /\ threads \subseteq Threads /\ intents \subseteq Runs /\ checkpoints \subseteq Runs
    /\ lock \in [Runs -> Cleaners \cup {Worker, None}]
    /\ row \in [Images -> {"none", "scanning", "ready", "quarantined", "deleted", "gone"}]
    /\ bound \in [Images -> Runs \cup {None}]
    /\ upload \in [Images -> {"none", "put", "copy", "drop", "publish", "over"}]
    /\ objects \in [Areas -> SUBSET Images]
    /\ deleter \in Deletion
    /\ cleaner \in [Cleaners -> Cleaning] /\ sweeper \in [Sweepers -> Sweeping]
    /\ faults \in 0 .. MaxFaults

Init ==
    /\ run = [r \in Runs |-> "none"] /\ threads = {} /\ intents = {} /\ checkpoints = {}
    /\ lock = [r \in Runs |-> None]
    /\ row = [i \in Images |-> "none"] /\ bound = [i \in Images |-> None]
    /\ upload = [i \in Images |-> "none"] /\ objects = [a \in Areas |-> {}]
    /\ deleter = NoDeletion
    /\ cleaner = [c \in Cleaners |-> Rest] /\ sweeper = [k \in Sweepers |-> Asleep]
    /\ faults = 0

-----------------------------------------------------------------------------
(***************************************************************************)
(* Uploads: Attachments.add.  The row comes first; every later failure     *)
(* leaves it, and the object that may have been stored, for the sweep.     *)
(***************************************************************************)
UploadStart(i) ==
    /\ upload[i] = "none"
    /\ upload' = [upload EXCEPT ![i] = "put"]
    /\ row' = [row EXCEPT ![i] = "scanning"]
    /\ UNCHANGED <<runVars, bound, objects, deleter, cleaner, sweeper, faults>>

\* store.put into quarantine; then the scan and the parser accept the image,
\* and store.move copies it before it deletes the copy in quarantine.
UploadStore(i) ==
    /\ \/ /\ upload[i] = "put"
          /\ objects' = [objects EXCEPT !.quarantine = @ \cup {i}]
          /\ upload' = [upload EXCEPT ![i] = "copy"]
       \/ /\ upload[i] = "copy"
          /\ objects' = [objects EXCEPT !.uploads = @ \cup {i}]
          /\ upload' = [upload EXCEPT ![i] = "drop"]
       \/ /\ upload[i] = "drop"
          /\ objects' = [objects EXCEPT !.quarantine = @ \ {i}]
          /\ upload' = [upload EXCEPT ![i] = "publish"]
    /\ UNCHANGED <<runVars, row, bound, deleter, cleaner, sweeper, faults>>

UploadReady(i) ==
    /\ upload[i] = "publish"
    /\ upload' = [upload EXCEPT ![i] = "over"]
    /\ row' = [row EXCEPT ![i] = IF Kept(i) THEN "ready" ELSE @]
    /\ UNCHANGED <<runVars, bound, objects, deleter, cleaner, sweeper, faults>>

\* The image is refused, the store fails (its last call may have taken effect
\* all the same), or the process stops and the row stays as it is.
UploadFails(i) ==
    /\ upload[i] \in {"put", "copy", "drop", "publish"}
    /\ upload' = [upload EXCEPT ![i] = "over"]
    /\ \/ UNCHANGED objects
       \/ upload[i] = "put" /\ objects' = [objects EXCEPT !.quarantine = @ \cup {i}]
       \/ upload[i] = "copy" /\ objects' = [objects EXCEPT !.uploads = @ \cup {i}]
       \/ upload[i] = "drop" /\ objects' = [objects EXCEPT !.quarantine = @ \ {i}]
    /\ row' \in {row, [row EXCEPT ![i] = IF Kept(i) THEN "quarantined" ELSE @]}
    /\ UNCHANGED <<runVars, bound, deleter, cleaner, sweeper, faults>>

\* Mutant: an image that was sent with a run can be removed as well.
UnbindSent(i) ==
    /\ upload[i] = "over" /\ Kept(i) /\ row[i] # "deleted"
    /\ row' = [row EXCEPT ![i] = "deleted"]
    /\ UNCHANGED <<runVars, bound, upload, objects, deleter, cleaner, sweeper, faults>>

\* Attachments.remove, and the part of cleanup that marks the unbound images of
\* a day ago: both under the lock of the workspace, which create takes as well.
Unbind(i) ==
    /\ upload[i] = "over" /\ Kept(i) /\ row[i] # "deleted" /\ bound[i] = None
    /\ row' = [row EXCEPT ![i] = "deleted"]
    /\ UNCHANGED <<runVars, bound, upload, objects, deleter, cleaner, sweeper, faults>>

-----------------------------------------------------------------------------
(***************************************************************************)
(* Runs, as far as deletion cares.                                         *)
(***************************************************************************)
\* Images a new run may take: uploaded, ready and not sent before.
Sendable(i) == row[i] = "ready" /\ bound[i] = None

Create(r, S) ==
    /\ run[r] = "none" /\ ThreadOf[r] \notin threads
    /\ deleter.thread # ThreadOf[r]               \* its row is locked
    /\ deleter.pc = "purge" => CreateDuringPurge
    /\ \A q \in Runs : ThreadOf[q] = ThreadOf[r] => run[q] \notin Active
    /\ \A i \in S : Sendable(i)
    /\ run' = [run EXCEPT ![r] = "queued"]
    /\ bound' = [i \in Images |-> IF i \in S THEN r ELSE bound[i]]
    /\ UNCHANGED <<threads, intents, checkpoints, lock, row, upload, objects, deleter, cleaner,
                   sweeper, faults>>

SetStatus(r, status) ==
    /\ run' = [run EXCEPT ![r] = status]
    /\ UNCHANGED <<threads, intents, checkpoints, lock, imageVars, deleter, cleaner, sweeper,
                   faults>>

\* Only the claim takes the execution lock.  A member cancels and resumes a run,
\* a failure ends it and the recovery loop puts it back without the lock.
Claim(r) == run[r] = "queued" /\ lock[r] = None /\ SetStatus(r, "running")
Settle(r) == run[r] \in Active /\ SetStatus(r, "settled")
Resume(r) == /\ run[r] = "settled"
             /\ \A q \in Runs : ThreadOf[q] = ThreadOf[r] => run[q] \notin Active
             /\ SetStatus(r, "queued")

\* Mutant: the lock is taken, but the run is not looked at again.
WriteUnchecked(r) ==
    /\ run[r] # "none" /\ lock[r] = None
    /\ lock' = [lock EXCEPT ![r] = Worker]
    /\ UNCHANGED <<run, threads, intents, checkpoints, imageVars, deleter, cleaner, sweeper,
                   faults>>

\* A worker writes a checkpoint: it takes the lock, checks that its run is
\* still the running one, and writes.
WriteBegin(r) ==
    /\ run[r] = "running" /\ lock[r] = None
    /\ lock' = [lock EXCEPT ![r] = Worker]
    /\ UNCHANGED <<run, threads, intents, checkpoints, imageVars, deleter, cleaner, sweeper,
                   faults>>

\* The write arrives, or the worker stops before.
WriteEnd(r) ==
    /\ lock[r] = Worker
    /\ lock' = [lock EXCEPT ![r] = None]
    /\ checkpoints' \in {checkpoints, checkpoints \cup {r}}
    /\ UNCHANGED <<run, threads, intents, imageVars, deleter, cleaner, sweeper, faults>>

-----------------------------------------------------------------------------
(***************************************************************************)
(* Deletion: runtime.delete_thread and purge_user(scope="reports").        *)
(***************************************************************************)
\* RunCleanup.stage for the listed runs that still exist, DELETE FROM runs for
\* all runs that match, and COMMIT: one transaction, which has waited for the
\* execution locks of the listed runs.
DeleteRuns(listed, matching, closed) ==
    LET staged == listed \cap Existing
        erased == matching \cap Existing IN
    /\ \A r \in listed : lock[r] = None
    /\ intents' = intents \cup staged
    /\ row' = [i \in Images |-> IF bound[i] \in staged /\ Kept(i) THEN "deleted" ELSE row[i]]
    /\ run' = [r \in Runs |-> IF r \in erased THEN "gone" ELSE run[r]]
    /\ threads' = threads \cup closed
    /\ deleter' = NoDeletion
    /\ UNCHANGED <<checkpoints, lock, bound, upload, objects, cleaner, sweeper, faults>>

RunsOf(t) == {r \in Runs : ThreadOf[r] = t}

\* DELETE FROM threads locks the row, so that no run can join; then the list.
DeleteThreadBegin(t) ==
    /\ deleter.pc = "idle" /\ t \notin threads /\ RunsOf(t) \cap Existing # {}
    /\ deleter' = [pc |-> "thread", thread |-> t, ids |-> RunsOf(t) \cap Existing]
    /\ UNCHANGED <<runVars, imageVars, cleaner, sweeper, faults>>

DeleteThreadCommit ==
    /\ deleter.pc = "thread"
    /\ DeleteRuns(deleter.ids, RunsOf(deleter.thread), {deleter.thread})

\* Active runs are cancelled, each under its execution lock, before the
\* transaction begins.
PurgeBegin ==
    /\ deleter.pc = "idle" /\ Existing # {}
    /\ \A r \in Runs : run[r] \in Active => lock[r] = None
    /\ run' = [r \in Runs |-> IF run[r] \in Active THEN "settled" ELSE run[r]]
    /\ deleter' = [NoDeletion EXCEPT !.pc = "cancelled"]
    /\ UNCHANGED <<threads, intents, checkpoints, lock, imageVars, cleaner, sweeper, faults>>

\* The list is read under an advisory lock that nothing else takes.
PurgeList ==
    /\ deleter.pc = "cancelled"
    /\ deleter' = [NoDeletion EXCEPT !.pc = "purge", !.ids = Existing]
    /\ UNCHANGED <<runVars, imageVars, cleaner, sweeper, faults>>

PurgeCommit ==
    /\ deleter.pc = "purge"
    /\ DeleteRuns(deleter.ids, Runs, {ThreadOf[r] : r \in Existing})

\* The connection is lost, or the process stops: rolled back.
DeleterStops ==
    /\ deleter.pc # "idle" /\ faults < MaxFaults
    /\ deleter' = NoDeletion /\ faults' = faults + 1
    /\ UNCHANGED <<runVars, imageVars, cleaner, sweeper>>

-----------------------------------------------------------------------------
(***************************************************************************)
(* RunCleanup.reconcile.                                                   *)
(***************************************************************************)
\* One batch of intents; which come first (created_at) matters only when some
\* of them fail for ever.
CleanupRead(c, S) ==
    /\ cleaner[c].pc = "idle" /\ S # {}
    /\ S \subseteq intents /\ Cardinality(S) <= Batch
    /\ cleaner' = [cleaner EXCEPT ![c] = [@ EXCEPT !.pc = "next", !.todo = S]]
    /\ UNCHANGED <<runVars, imageVars, deleter, sweeper, faults>>

Due(r) == r \in intents /\ r \notin Existing

\* Under the lock the intent and the absence of the run are read again.
CleanupTake(c, r) ==
    /\ cleaner[c].pc = "next" /\ r \in cleaner[c].todo
    /\ lock[r] = None /\ Due(r)
    /\ lock' = [lock EXCEPT ![r] = c]
    /\ cleaner' = [cleaner EXCEPT ![c] =
                     [@ EXCEPT !.pc = "checkpoint", !.todo = cleaner[c].todo \ {r},
                                !.run = r]]
    /\ UNCHANGED <<run, threads, intents, checkpoints, imageVars, deleter, sweeper, faults>>

\* What a loop goes on to when it has finished with a run, or given it up.
Onward(c, left) ==
    cleaner' = [cleaner EXCEPT ![c] = IF left = {} THEN Rest
                                      ELSE [Rest EXCEPT !.pc = "next", !.todo = left]]

CleanupSkip(c, r) ==
    /\ cleaner[c].pc = "next" /\ r \in cleaner[c].todo
    /\ lock[r] = None /\ ~Due(r)
    /\ Onward(c, cleaner[c].todo \ {r})
    /\ UNCHANGED <<runVars, imageVars, deleter, sweeper, faults>>

\* adelete_thread, and the list of images read after it.
CleanupCheckpoint(c) ==
    LET r == cleaner[c].run
        marked == {i \in Images : bound[i] = r /\ row[i] = "deleted"} IN
    /\ cleaner[c].pc = "checkpoint"
    /\ checkpoints' = checkpoints \ {r}
    /\ cleaner' = [cleaner EXCEPT ![c] = [@ EXCEPT !.pc = "images", !.images = marked]]
    /\ UNCHANGED <<run, threads, intents, lock, imageVars, deleter, sweeper, faults>>

\* The object store and the attachments row of one image, in this order.
EraseUpload(i) == objects' = [objects EXCEPT !.uploads = @ \ {i}] /\ UNCHANGED row
EraseQuarantine(i) == objects' = [objects EXCEPT !.quarantine = @ \ {i}] /\ UNCHANGED row
EraseRow(i) == /\ row' = [row EXCEPT ![i] = IF @ = "deleted" THEN "gone" ELSE @]
               /\ UNCHANGED objects

CleanupImage(c) ==
    LET i == cleaner[c].image IN
    /\ \/ /\ cleaner[c].pc = "images" /\ UNCHANGED <<objects, row>>
          /\ \E j \in cleaner[c].images :
                cleaner' = [cleaner EXCEPT ![c] = [@ EXCEPT !.pc = "uploads", !.image = j]]
       \/ /\ cleaner[c].pc = "uploads" /\ EraseUpload(i)
          /\ cleaner' = [cleaner EXCEPT ![c] = [@ EXCEPT !.pc = "quarantine"]]
       \/ /\ cleaner[c].pc = "quarantine" /\ EraseQuarantine(i)
          /\ cleaner' = [cleaner EXCEPT ![c] = [@ EXCEPT !.pc = "row"]]
       \/ /\ cleaner[c].pc = "row" /\ EraseRow(i)
          /\ cleaner' = [cleaner EXCEPT ![c] =
                           [@ EXCEPT !.pc = "images", !.image = None,
                                      !.images = cleaner[c].images \ {i}]]
    /\ UNCHANGED <<runVars, bound, upload, deleter, sweeper, faults>>

\* Everything is gone: the intent goes last.
CleanupDone(c) ==
    LET r == cleaner[c].run IN
    /\ cleaner[c].pc = "images" /\ cleaner[c].images = {}
    /\ intents' = intents \ {r}
    /\ lock' = [lock EXCEPT ![r] = None]
    /\ Onward(c, cleaner[c].todo)
    /\ UNCHANGED <<run, threads, checkpoints, imageVars, deleter, sweeper, faults>>

\* Mutant: a failing delete leaves the execution lock behind.
CleanupFailsLocked(c) ==
    /\ cleaner[c].run # None /\ faults < MaxFaults
    /\ \E left \in {cleaner[c].todo, {}} : Onward(c, left)
    /\ faults' = faults + 1
    /\ UNCHANGED <<runVars, imageVars, deleter, sweeper>>

\* A delete fails and the loop goes on to the next intent, or the process
\* stops; the intent stays either way.
CleanupFails(c) ==
    LET r == cleaner[c].run IN
    /\ cleaner[c].run # None /\ faults < MaxFaults
    /\ lock' = [lock EXCEPT ![r] = None]
    /\ \E left \in {cleaner[c].todo, {}} : Onward(c, left)
    /\ faults' = faults + 1
    /\ UNCHANGED <<run, threads, intents, checkpoints, imageVars, deleter, sweeper>>

-----------------------------------------------------------------------------
(***************************************************************************)
(* Attachments.cleanup: every image marked deleted, bound or not, without  *)
(* a lock.  A failure ends the pass.                                       *)
(***************************************************************************)
SweepRead(k) ==
    LET marked == {i \in Images : row[i] = "deleted"} IN
    /\ sweeper[k].pc = "idle" /\ marked # {}
    /\ sweeper' = [sweeper EXCEPT ![k] = [@ EXCEPT !.pc = "next", !.todo = marked]]
    /\ UNCHANGED <<runVars, imageVars, deleter, cleaner, faults>>

SweepImage(k) ==
    LET i == sweeper[k].image IN
    /\ \/ /\ sweeper[k].pc = "next" /\ sweeper[k].todo = {}
          /\ UNCHANGED <<objects, row>>
          /\ sweeper' = [sweeper EXCEPT ![k] = Asleep]
       \/ /\ sweeper[k].pc = "next" /\ UNCHANGED <<objects, row>>
          /\ \E j \in sweeper[k].todo :
                sweeper' = [sweeper EXCEPT ![k] =
                              [@ EXCEPT !.pc = "uploads", !.todo = sweeper[k].todo \ {j},
                                         !.image = j]]
       \/ /\ sweeper[k].pc = "uploads" /\ EraseUpload(i)
          /\ sweeper' = [sweeper EXCEPT ![k] = [@ EXCEPT !.pc = "quarantine"]]
       \/ /\ sweeper[k].pc = "quarantine" /\ EraseQuarantine(i)
          /\ sweeper' = [sweeper EXCEPT ![k] = [@ EXCEPT !.pc = "row"]]
       \/ /\ sweeper[k].pc = "row" /\ EraseRow(i)
          /\ sweeper' = [sweeper EXCEPT ![k] = [@ EXCEPT !.pc = "next", !.image = None]]
    /\ UNCHANGED <<runVars, bound, upload, deleter, cleaner, faults>>

SweepFails(k) ==
    /\ sweeper[k].pc # "idle" /\ faults < MaxFaults
    /\ sweeper' = [sweeper EXCEPT ![k] = Asleep]
    /\ faults' = faults + 1
    /\ UNCHANGED <<runVars, imageVars, deleter, cleaner>>

-----------------------------------------------------------------------------
Uploads(i) == UploadStart(i) \/ UploadStore(i) \/ UploadReady(i) \/ UploadFails(i) \/ Unbind(i)

RunSteps(r) ==
    \/ \E S \in SUBSET Images : Create(r, S)
    \/ Claim(r) \/ Settle(r) \/ Resume(r) \/ WriteBegin(r) \/ WriteEnd(r)

Deletions ==
    \/ \E t \in Threads : DeleteThreadBegin(t)
    \/ DeleteThreadCommit \/ PurgeBegin \/ PurgeList \/ PurgeCommit \/ DeleterStops

\* One pass of a loop, its failures aside.
CleanerStep(c) ==
    \/ \E S \in SUBSET Runs : CleanupRead(c, S)
    \/ \E r \in Runs : CleanupTake(c, r) \/ CleanupSkip(c, r)
    \/ CleanupCheckpoint(c) \/ CleanupImage(c) \/ CleanupDone(c)

SweeperStep(k) == SweepRead(k) \/ SweepImage(k)

Next ==
    \/ \E i \in Images : Uploads(i)
    \/ \E r \in Runs : RunSteps(r)
    \/ Deletions
    \/ \E c \in Cleaners : CleanerStep(c) \/ CleanupFails(c)
    \/ \E k \in Sweepers : SweeperStep(k) \/ SweepFails(k)

\* The loops of a live process never end, and a checkpoint write returns.
Fairness ==
    /\ \A r \in Runs : WF_vars(WriteEnd(r))
    /\ \A c \in Cleaners : WF_vars(CleanerStep(c))
    /\ \A k \in Sweepers : WF_vars(SweeperStep(k))

Spec == Init /\ [][Next]_vars /\ Fairness

-----------------------------------------------------------------------------
(* A deleted run whose intent is gone, or was never written, has left       *)
(* nothing behind: no checkpoint, and no row of an image sent with it.  A   *)
(* worker that is late, two loops that clean the same run, a delete that    *)
(* fails half way: the intent outlives them all.                            *)
DeletedRunsTracked ==
    \A r \in Runs : run[r] = "gone" /\ r \notin intents =>
        /\ r \notin checkpoints
        /\ \A i \in Images : bound[i] = r => row[i] = "gone"

(* No object without its row: whoever deletes an image, and wherever an     *)
(* upload stops, the row that leads to the object is the last to go; and    *)
(* what a run that exists was sent with is there to read.                   *)
ObjectsReachable ==
    /\ \A a \in Areas : \A i \in objects[a] : Kept(i)
    /\ \A i \in Images : bound[i] \in Existing => row[i] = "ready" /\ i \in objects["uploads"]

(* What is deleted goes away: each intent is worked off, and each image     *)
(* marked deleted is removed, provided deletes do not fail for ever.        *)
DeletedDataGoes ==
    /\ \A r \in Runs : r \in intents ~> r \notin intents
    /\ \A i \in Images : row[i] = "deleted" ~> row[i] = "gone"

=============================================================================
