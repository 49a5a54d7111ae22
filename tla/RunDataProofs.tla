----------------------------- MODULE RunDataProofs -----------------------------
(***************************************************************************)
(* Theorems about RunData, for any runs, conversations, images, loops and  *)
(* number of faults.                                                       *)
(***************************************************************************)
EXTENDS RunData, TLAPS

\* Who holds the execution lock: a worker only while the run exists, and a
\* recovery loop for the intent it is working on.
LockInv ==
    /\ \A r \in Runs : lock[r] = Worker => r \in Existing
    /\ \A c \in Cleaners : cleaner[c].run # None =>
          /\ lock[cleaner[c].run] = c /\ cleaner[c].run \in intents

\* Nothing is known of a run before it is created, and an intent means that it
\* is gone; the images of a deleted run are marked or gone.
RunInv ==
    /\ \A r \in intents : run[r] = "gone"
    /\ \A r \in Runs : run[r] = "none" =>
          r \notin checkpoints /\ \A i \in Images : bound[i] # r
    /\ \A i \in Images : bound[i] # None /\ run[bound[i]] = "gone" => row[i] \in {"deleted",
       "gone"}

\* A deletion has listed all that it is going to delete.
DeleterInv ==
    /\ deleter.pc = "thread" => /\ deleter.thread \in Threads
                                /\ deleter.ids \subseteq RunsOf(deleter.thread)
                                /\ RunsOf(deleter.thread) \cap Existing \subseteq deleter.ids
    /\ deleter.pc = "purge" => Existing \subseteq deleter.ids

\* What a recovery loop has already deleted of its run, and has still to delete.
CleanerInv ==
    \A c \in Cleaners :
        /\ cleaner[c].pc \in {"idle", "next"} <=> cleaner[c].run = None
        /\ cleaner[c].pc \in {"images", "uploads", "quarantine", "row"} =>
              /\ cleaner[c].run \notin checkpoints
              /\ \A i \in Images : bound[i] = cleaner[c].run =>
                    row[i] = "gone" \/ i \in cleaner[c].images
              /\ \A i \in cleaner[c].images : bound[i] = cleaner[c].run
        /\ cleaner[c].pc \in {"uploads", "quarantine", "row"} =>
              cleaner[c].image \in Images /\ bound[cleaner[c].image] = cleaner[c].run

\* The images an eraser reads are marked deleted and stay so until they are gone.
Marked(i) == upload[i] = "over" /\ row[i] \in {"deleted", "gone"}

\* How far an eraser has come with the objects of its image.
Erased(pc, i) ==
    /\ pc \in {"uploads", "quarantine", "row"} => i \in Images /\ Marked(i)
    /\ pc \in {"quarantine", "row"} => i \notin objects["uploads"]
    /\ pc = "row" => i \notin objects["quarantine"]

EraserInv ==
    /\ \A c \in Cleaners : /\ \A i \in cleaner[c].images : Marked(i)
                           /\ Erased(cleaner[c].pc, cleaner[c].image)
    /\ \A k \in Sweepers : /\ \A i \in sweeper[k].todo : Marked(i)
                           /\ Erased(sweeper[k].pc, sweeper[k].image)

\* How an upload, the row and the objects of an image go together.
UploadInv ==
    \A i \in Images :
        /\ upload[i] = "none" => row[i] = "none"
        /\ upload[i] \in {"put", "copy", "drop", "publish"} => row[i] = "scanning" /\ bound[i] =
           None
        /\ upload[i] \in {"drop", "publish"} => i \in objects["uploads"]
        /\ row[i] \in {"none", "gone"} => \A a \in Areas : i \notin objects[a]
        /\ row[i] = "none" => bound[i] = None
        /\ row[i] = "ready" => i \in objects["uploads"]
        /\ bound[i] \in Existing => row[i] = "ready"

DataInv ==
    /\ TypeOK /\ LockInv /\ RunInv /\ DeleterInv /\ CleanerInv /\ EraserInv /\ UploadInv
    /\ DeletedRunsTracked

LEMMA Distinct ==
    /\ None \notin Runs /\ None \notin Images /\ None \notin Cleaners
    /\ Worker \notin Cleaners /\ Worker # None /\ MaxFaults \in Nat
    /\ ThreadOf \in [Runs -> Threads]
BY DataAssumption

LEMMA DataInit == Init => DataInv
BY Distinct DEF Init, NoDeletion, Rest, Asleep, DataInv, TypeOK, LockInv, RunInv, DeleterInv,
    CleanerInv, EraserInv, Erased, Marked, UploadInv, Areas, Existing, DeletedRunsTracked, Deletion, Cleaning, Sweeping

LEMMA CleanupImageStep ==
    ASSUME TypeOK, CleanerInv, NEW c \in Cleaners, CleanupImage(c)
    PROVE  /\ cleaner' = [cleaner EXCEPT ![c] = cleaner'[c]]
           /\ cleaner'[c] \in Cleaning /\ cleaner'[c].run = cleaner[c].run
           /\ \/ /\ cleaner[c].pc = "images" /\ cleaner'[c].pc = "uploads"
                 /\ cleaner'[c].image \in cleaner[c].images
                 /\ cleaner'[c].images = cleaner[c].images
                 /\ UNCHANGED <<objects, row>>
              \/ /\ cleaner[c].pc = "uploads" /\ cleaner'[c].pc = "quarantine"
                 /\ cleaner'[c].image = cleaner[c].image
                 /\ cleaner'[c].images = cleaner[c].images
                 /\ EraseUpload(cleaner[c].image)
              \/ /\ cleaner[c].pc = "quarantine" /\ cleaner'[c].pc = "row"
                 /\ cleaner'[c].image = cleaner[c].image
                 /\ cleaner'[c].images = cleaner[c].images
                 /\ EraseQuarantine(cleaner[c].image)
              \/ /\ cleaner[c].pc = "row" /\ cleaner'[c].pc = "images"
                 /\ cleaner'[c].images = cleaner[c].images \ {cleaner[c].image}
                 /\ EraseRow(cleaner[c].image)
<1> DEFINE old == cleaner[c]
<1>1. old \in Cleaning /\ old.images \subseteq Images
  BY DEF TypeOK, Cleaning
<1>2. CASE old.pc = "images"
  <2>1. PICK j \in old.images : cleaner' = [cleaner EXCEPT ![c] = [old EXCEPT !.pc = "uploads", !.image = j]]
    BY <1>2 DEF CleanupImage
  <2> QED
    BY <1>1, <1>2, <2>1 DEF CleanupImage, TypeOK, Cleaning
<1>3. CASE old.pc = "uploads"
  <2>1. cleaner' = [cleaner EXCEPT ![c] = [old EXCEPT !.pc = "quarantine"]]
    BY <1>3 DEF CleanupImage
  <2> QED
    BY <1>1, <1>3, <2>1 DEF CleanupImage, TypeOK, Cleaning
<1>4. CASE old.pc = "quarantine"
  <2>1. cleaner' = [cleaner EXCEPT ![c] = [old EXCEPT !.pc = "row"]]
    BY <1>4 DEF CleanupImage
  <2> QED
    BY <1>1, <1>4, <2>1 DEF CleanupImage, TypeOK, Cleaning
<1>5. CASE old.pc = "row"
  <2>1. cleaner' = [cleaner EXCEPT ![c] = [old EXCEPT !.pc = "images", !.image = None,
                                                       !.images = old.images \ {old.image}]]
    BY <1>5 DEF CleanupImage
  <2> QED
    BY <1>1, <1>5, <2>1 DEF CleanupImage, TypeOK, Cleaning
<1> QED
  BY <1>2, <1>3, <1>4, <1>5 DEF CleanupImage

LEMMA SweepImageStep ==
    ASSUME TypeOK, NEW k \in Sweepers, SweepImage(k)
    PROVE  /\ sweeper' = [sweeper EXCEPT ![k] = sweeper'[k]] /\ sweeper'[k] \in Sweeping
           /\ sweeper'[k].todo \subseteq sweeper[k].todo
           /\ \/ /\ sweeper[k].pc = "next" /\ sweeper'[k].pc = "idle"
                 /\ UNCHANGED <<objects, row>>
              \/ /\ sweeper[k].pc = "next" /\ sweeper'[k].pc = "uploads"
                 /\ sweeper'[k].image \in sweeper[k].todo
                 /\ UNCHANGED <<objects, row>>
              \/ /\ sweeper[k].pc = "uploads" /\ sweeper'[k].pc = "quarantine"
                 /\ sweeper'[k].image = sweeper[k].image
                 /\ EraseUpload(sweeper[k].image)
              \/ /\ sweeper[k].pc = "quarantine" /\ sweeper'[k].pc = "row"
                 /\ sweeper'[k].image = sweeper[k].image
                 /\ EraseQuarantine(sweeper[k].image)
              \/ /\ sweeper[k].pc = "row" /\ sweeper'[k].pc = "next"
                 /\ EraseRow(sweeper[k].image)
<1> DEFINE old == sweeper[k]
<1>1. old \in Sweeping /\ old.todo \subseteq Images
  BY DEF TypeOK, Sweeping
<1>2. CASE old.pc = "next" /\ sweeper' = [sweeper EXCEPT ![k] = Asleep]
  BY <1>1, <1>2 DEF SweepImage, TypeOK, Sweeping, Asleep
<1>3. CASE /\ old.pc = "next"
           /\ \E j \in old.todo : sweeper' = [sweeper EXCEPT ![k] =
                 [old EXCEPT !.pc = "uploads", !.todo = old.todo \ {j}, !.image = j]]
  <2>1. PICK j \in old.todo : sweeper' = [sweeper EXCEPT ![k] =
                 [old EXCEPT !.pc = "uploads", !.todo = old.todo \ {j}, !.image = j]]
    BY <1>3
  <2> QED
    BY <1>1, <1>3, <2>1 DEF SweepImage, TypeOK, Sweeping
<1>4. CASE old.pc = "uploads"
  <2>1. sweeper' = [sweeper EXCEPT ![k] = [old EXCEPT !.pc = "quarantine"]]
    BY <1>4 DEF SweepImage
  <2> QED
    BY <1>1, <1>4, <2>1 DEF SweepImage, TypeOK, Sweeping
<1>5. CASE old.pc = "quarantine"
  <2>1. sweeper' = [sweeper EXCEPT ![k] = [old EXCEPT !.pc = "row"]]
    BY <1>5 DEF SweepImage
  <2> QED
    BY <1>1, <1>5, <2>1 DEF SweepImage, TypeOK, Sweeping
<1>6. CASE old.pc = "row"
  <2>1. sweeper' = [sweeper EXCEPT ![k] = [old EXCEPT !.pc = "next", !.image = None]]
    BY <1>6 DEF SweepImage
  <2> QED
    BY <1>1, <1>6, <2>1, Distinct DEF SweepImage, TypeOK, Sweeping
<1> QED
  BY <1>2, <1>3, <1>4, <1>5, <1>6 DEF SweepImage

\* What one step of an eraser does to rows and objects, whoever takes it.
Erasing ==
    /\ objects' \in [Areas -> SUBSET Images]
    /\ row' \in [Images -> {"none", "scanning", "ready", "quarantined", "deleted", "gone"}]
    /\ \A i \in Images : \/ row'[i] = row[i]
                         \/ /\ row[i] = "deleted" /\ row'[i] = "gone"
                            /\ \A a \in Areas : i \notin objects[a]
    /\ \A i \in Images, a \in Areas :
          /\ i \in objects'[a] => i \in objects[a]
          /\ i \in objects[a] /\ ~Marked(i) => i \in objects'[a]

LEMMA Erases ==
    ASSUME TypeOK, NEW pc, NEW i, Erased(pc, i),
           \/ UNCHANGED <<objects, row>>
           \/ pc = "uploads" /\ EraseUpload(i)
           \/ pc = "quarantine" /\ EraseQuarantine(i)
           \/ pc = "row" /\ EraseRow(i)
    PROVE  Erasing
<1>1. CASE UNCHANGED <<objects, row>>
  BY <1>1 DEF Erasing, TypeOK, Marked
<1>2. CASE pc = "uploads" /\ EraseUpload(i)
  BY <1>2 DEF EraseUpload, Erasing, Erased, TypeOK, Marked, Areas
<1>3. CASE pc = "quarantine" /\ EraseQuarantine(i)
  BY <1>3 DEF EraseQuarantine, Erasing, Erased, TypeOK, Marked, Areas
<1>4. CASE pc = "row" /\ EraseRow(i)
  BY <1>4 DEF EraseRow, Erasing, Erased, TypeOK, Marked, Areas
<1> QED
  BY <1>1, <1>2, <1>3, <1>4

LEMMA ErasingKeeps ==
    ASSUME DataInv, Erasing, UNCHANGED <<run, intents, checkpoints, bound, upload>>
    PROVE  /\ RunInv' /\ UploadInv' /\ DeletedRunsTracked'
           /\ \A i \in Images : Marked(i) => Marked(i)'
           /\ \A pc, i : Erased(pc, i) => Erased(pc, i)'
<1> USE DEF DataInv
<1>1. RunInv'
  BY DEF Erasing, RunInv, TypeOK
<1>2. UploadInv'
  BY DEF Erasing, UploadInv, Existing, Marked, Areas, TypeOK
<1>3. DeletedRunsTracked'
  BY DEF Erasing, DeletedRunsTracked
<1>4. \A i \in Images : Marked(i) => Marked(i)'
  BY DEF Erasing, Marked
<1>5. \A pc, i : Erased(pc, i) => Erased(pc, i)'
  BY <1>4 DEF Erasing, Erased, Areas
<1> QED
  BY <1>1, <1>2, <1>3, <1>4, <1>5

-----------------------------------------------------------------------------
(* Every step keeps the invariant: one step for each action, and under it  *)
(* one for each part that reads what the action changes.                   *)

LEMMA DataStep ==
    ASSUME DataInv, [Next]_vars, CreateDuringPurge = FALSE
    PROVE  DataInv'
<1> USE Distinct DEF DataInv
<1>1. ASSUME NEW i \in Images, UploadStart(i) PROVE DataInv'
  <2>1. TypeOK'
    BY <1>1 DEF UploadStart, runVars, TypeOK, Areas, Deletion, Cleaning, Sweeping
  <2>2. RunInv'
    BY <1>1 DEF UploadStart, runVars, RunInv, TypeOK, Cleaning, Sweeping, Deletion, Areas,
       UploadInv
  <2>3. CleanerInv'
    BY <1>1 DEF UploadStart, runVars, CleanerInv, TypeOK, Cleaning, Sweeping, Deletion, Areas,
       UploadInv
  <2>4. EraserInv'
    BY <1>1 DEF UploadStart, runVars, EraserInv, Erased, Marked, TypeOK, Cleaning, Sweeping,
       Deletion, Areas
  <2>5. UploadInv'
    BY <1>1 DEF UploadStart, runVars, UploadInv, Areas, Existing, TypeOK, Cleaning, Sweeping,
       Deletion
  <2>6. DeletedRunsTracked'
    BY <1>1 DEF UploadStart, runVars, DeletedRunsTracked, TypeOK, Cleaning, Sweeping, Deletion,
       Areas, UploadInv
  <2>7. LockInv' /\ DeleterInv'
    BY <1>1 DEF UploadStart, runVars, LockInv, Existing, DeleterInv, RunsOf
  <2> QED
    BY <2>1, <2>2, <2>3, <2>4, <2>5, <2>6, <2>7
<1>2. ASSUME NEW i \in Images, UploadStore(i) PROVE DataInv'
  <2>1. TypeOK'
    BY <1>2 DEF UploadStore, runVars, TypeOK, Areas, Deletion, Cleaning, Sweeping
  <2>2. EraserInv'
    BY <1>2 DEF UploadStore, runVars, EraserInv, Erased, Marked, TypeOK, Cleaning, Sweeping,
       Deletion, Areas
  <2>3. UploadInv'
    BY <1>2 DEF UploadStore, runVars, UploadInv, Areas, Existing, TypeOK, Cleaning, Sweeping,
       Deletion
  <2>4. LockInv' /\ RunInv' /\ DeleterInv' /\ CleanerInv' /\ DeletedRunsTracked'
    BY <1>2 DEF UploadStore, runVars, LockInv, Existing, RunInv, DeleterInv, RunsOf, CleanerInv,
       DeletedRunsTracked
  <2> QED
    BY <2>1, <2>2, <2>3, <2>4
<1>3. ASSUME NEW i \in Images, UploadReady(i) PROVE DataInv'
  <2>1. TypeOK'
    BY <1>3 DEF UploadReady, Kept, runVars, TypeOK, Areas, Deletion, Cleaning, Sweeping
  <2>2. RunInv'
    BY <1>3 DEF UploadReady, Kept, runVars, RunInv, TypeOK, Cleaning, Sweeping, Deletion, Areas,
       UploadInv
  <2>3. CleanerInv'
    BY <1>3 DEF UploadReady, Kept, runVars, CleanerInv, TypeOK, Cleaning, Sweeping, Deletion,
       Areas
  <2>4. EraserInv'
    BY <1>3 DEF UploadReady, Kept, runVars, EraserInv, Erased, Marked, TypeOK, Cleaning, Sweeping,
       Deletion, Areas
  <2>5. UploadInv'
    BY <1>3 DEF UploadReady, Kept, runVars, UploadInv, Areas, Existing, TypeOK, Cleaning,
       Sweeping, Deletion
  <2>6. DeletedRunsTracked'
    BY <1>3 DEF UploadReady, Kept, runVars, DeletedRunsTracked, TypeOK, Cleaning, Sweeping,
       Deletion, Areas
  <2>7. LockInv' /\ DeleterInv'
    BY <1>3 DEF UploadReady, Kept, runVars, LockInv, Existing, DeleterInv, RunsOf
  <2> QED
    BY <2>1, <2>2, <2>3, <2>4, <2>5, <2>6, <2>7
<1>4. ASSUME NEW i \in Images, UploadFails(i) PROVE DataInv'
  <2>1. TypeOK'
    BY <1>4 DEF UploadFails, Kept, runVars, TypeOK, Areas, Deletion, Cleaning, Sweeping
  <2>2. RunInv'
    BY <1>4 DEF UploadFails, Kept, runVars, RunInv, TypeOK, Cleaning, Sweeping, Deletion, Areas,
       UploadInv
  <2>3. CleanerInv'
    BY <1>4 DEF UploadFails, Kept, runVars, CleanerInv, TypeOK, Cleaning, Sweeping, Deletion,
       Areas
  <2>4. EraserInv'
    BY <1>4 DEF UploadFails, Kept, runVars, EraserInv, Erased, Marked, TypeOK, Cleaning, Sweeping,
       Deletion, Areas
  <2>5. UploadInv'
    BY <1>4 DEF UploadFails, Kept, runVars, UploadInv, Areas, Existing, TypeOK, Cleaning,
       Sweeping, Deletion
  <2>6. DeletedRunsTracked'
    BY <1>4 DEF UploadFails, Kept, runVars, DeletedRunsTracked, TypeOK, Cleaning, Sweeping,
       Deletion, Areas
  <2>7. LockInv' /\ DeleterInv'
    BY <1>4 DEF UploadFails, Kept, runVars, LockInv, Existing, DeleterInv, RunsOf
  <2> QED
    BY <2>1, <2>2, <2>3, <2>4, <2>5, <2>6, <2>7
<1>5. ASSUME NEW i \in Images, Unbind(i) PROVE DataInv'
  <2>1. TypeOK'
    BY <1>5 DEF Unbind, Kept, runVars, TypeOK, Areas, Deletion, Cleaning, Sweeping
  <2>2. RunInv'
    BY <1>5 DEF Unbind, Kept, runVars, RunInv, TypeOK, Cleaning, Sweeping, Deletion, Areas
  <2>3. CleanerInv'
    BY <1>5 DEF Unbind, Kept, runVars, CleanerInv, TypeOK, Cleaning, Sweeping, Deletion, Areas
  <2>4. EraserInv'
    BY <1>5 DEF Unbind, Kept, runVars, EraserInv, Erased, Marked, TypeOK, Cleaning, Sweeping,
       Deletion, Areas
  <2>5. UploadInv'
    BY <1>5 DEF Unbind, Kept, runVars, UploadInv, Areas, Existing, TypeOK, Cleaning, Sweeping,
       Deletion
  <2>6. DeletedRunsTracked'
    BY <1>5 DEF Unbind, Kept, runVars, DeletedRunsTracked, TypeOK, Cleaning, Sweeping, Deletion,
       Areas
  <2>7. LockInv' /\ DeleterInv'
    BY <1>5 DEF Unbind, Kept, runVars, LockInv, Existing, DeleterInv, RunsOf
  <2> QED
    BY <2>1, <2>2, <2>3, <2>4, <2>5, <2>6, <2>7
<1>6. ASSUME NEW r \in Runs, NEW S \in SUBSET Images, Create(r, S) PROVE DataInv'
  <2>1. TypeOK'
    BY <1>6 DEF Create, Sendable, TypeOK, Areas, Deletion, Cleaning, Sweeping
  <2>2. LockInv'
    BY <1>6 DEF Create, Sendable, LockInv, Existing, TypeOK, Cleaning, Sweeping, Deletion, Areas
  <2>3. RunInv'
    BY <1>6 DEF Create, Sendable, RunInv, TypeOK, Cleaning, Sweeping, Deletion, Areas
  <2>4. DeleterInv'
    BY <1>6 DEF Create, Sendable, DeleterInv, RunsOf, Existing, TypeOK, Cleaning, Sweeping,
       Deletion, Areas
  <2>5. CleanerInv'
    BY <1>6 DEF Create, Sendable, CleanerInv, TypeOK, Cleaning, Sweeping, Deletion, Areas, RunInv,
       LockInv, UploadInv
  <2>6. UploadInv'
    BY <1>6 DEF Create, Sendable, UploadInv, Areas, Existing, TypeOK, Cleaning, Sweeping,
       Deletion, RunInv
  <2>7. DeletedRunsTracked'
    BY <1>6 DEF Create, Sendable, DeletedRunsTracked, TypeOK, Cleaning, Sweeping, Deletion, Areas
  <2>8. EraserInv'
    BY <1>6 DEF Create, Sendable, EraserInv, Erased, Marked
  <2> QED
    BY <2>1, <2>2, <2>3, <2>4, <2>5, <2>6, <2>7, <2>8
<1>7. ASSUME NEW r \in Runs, Claim(r) PROVE DataInv'
  <2>1. TypeOK'
    BY <1>7 DEF Claim, SetStatus, imageVars, TypeOK, Areas, Deletion, Cleaning, Sweeping
  <2>2. LockInv'
    BY <1>7 DEF Claim, SetStatus, imageVars, LockInv, Existing, TypeOK, Cleaning, Sweeping,
       Deletion, Areas
  <2>3. RunInv'
    BY <1>7 DEF Claim, SetStatus, imageVars, RunInv, TypeOK, Cleaning, Sweeping, Deletion, Areas
  <2>4. DeleterInv'
    BY <1>7 DEF Claim, SetStatus, imageVars, DeleterInv, RunsOf, Existing, TypeOK, Cleaning,
       Sweeping, Deletion, Areas
  <2>5. UploadInv'
    BY <1>7 DEF Claim, SetStatus, imageVars, UploadInv, Areas, Existing, TypeOK, Cleaning,
       Sweeping, Deletion
  <2>6. DeletedRunsTracked'
    BY <1>7 DEF Claim, SetStatus, imageVars, DeletedRunsTracked, TypeOK, Cleaning, Sweeping,
       Deletion, Areas
  <2>7. CleanerInv' /\ EraserInv'
    BY <1>7 DEF Claim, SetStatus, imageVars, CleanerInv, EraserInv, Erased, Marked
  <2> QED
    BY <2>1, <2>2, <2>3, <2>4, <2>5, <2>6, <2>7
<1>8. ASSUME NEW r \in Runs, Settle(r) PROVE DataInv'
  <2>1. TypeOK'
    BY <1>8 DEF Settle, SetStatus, Active, imageVars, TypeOK, Areas, Deletion, Cleaning, Sweeping
  <2>2. LockInv'
    BY <1>8 DEF Settle, SetStatus, Active, imageVars, LockInv, Existing, TypeOK, Cleaning,
       Sweeping, Deletion, Areas
  <2>3. RunInv'
    BY <1>8 DEF Settle, SetStatus, Active, imageVars, RunInv, TypeOK, Cleaning, Sweeping,
       Deletion, Areas
  <2>4. DeleterInv'
    BY <1>8 DEF Settle, SetStatus, Active, imageVars, DeleterInv, RunsOf, Existing, TypeOK,
       Cleaning, Sweeping, Deletion, Areas
  <2>5. UploadInv'
    BY <1>8 DEF Settle, SetStatus, Active, imageVars, UploadInv, Areas, Existing, TypeOK,
       Cleaning, Sweeping, Deletion
  <2>6. DeletedRunsTracked'
    BY <1>8 DEF Settle, SetStatus, Active, imageVars, DeletedRunsTracked, TypeOK, Cleaning,
       Sweeping, Deletion, Areas
  <2>7. CleanerInv' /\ EraserInv'
    BY <1>8 DEF Settle, SetStatus, Active, imageVars, CleanerInv, EraserInv, Erased, Marked
  <2> QED
    BY <2>1, <2>2, <2>3, <2>4, <2>5, <2>6, <2>7
<1>9. ASSUME NEW r \in Runs, Resume(r) PROVE DataInv'
  <2>1. TypeOK'
    BY <1>9 DEF Resume, SetStatus, imageVars, TypeOK, Areas, Deletion, Cleaning, Sweeping
  <2>2. LockInv'
    BY <1>9 DEF Resume, SetStatus, imageVars, LockInv, Existing, TypeOK, Cleaning, Sweeping,
       Deletion, Areas
  <2>3. RunInv'
    BY <1>9 DEF Resume, SetStatus, imageVars, RunInv, TypeOK, Cleaning, Sweeping, Deletion, Areas
  <2>4. DeleterInv'
    BY <1>9 DEF Resume, SetStatus, imageVars, DeleterInv, RunsOf, Existing, TypeOK, Cleaning,
       Sweeping, Deletion, Areas
  <2>5. UploadInv'
    BY <1>9 DEF Resume, SetStatus, imageVars, UploadInv, Areas, Existing, TypeOK, Cleaning,
       Sweeping, Deletion
  <2>6. DeletedRunsTracked'
    BY <1>9 DEF Resume, SetStatus, imageVars, DeletedRunsTracked, TypeOK, Cleaning, Sweeping,
       Deletion, Areas
  <2>7. CleanerInv' /\ EraserInv'
    BY <1>9 DEF Resume, SetStatus, imageVars, CleanerInv, EraserInv, Erased, Marked
  <2> QED
    BY <2>1, <2>2, <2>3, <2>4, <2>5, <2>6, <2>7
<1>10. ASSUME NEW r \in Runs, WriteBegin(r) PROVE DataInv'
  <2>1. TypeOK'
    BY <1>10 DEF WriteBegin, imageVars, TypeOK, Areas, Deletion, Cleaning, Sweeping
  <2>2. LockInv'
    BY <1>10 DEF WriteBegin, imageVars, LockInv, Existing, TypeOK, Cleaning, Sweeping, Deletion,
       Areas
  <2>3. RunInv' /\ DeleterInv' /\ CleanerInv' /\ EraserInv' /\ UploadInv' /\ DeletedRunsTracked'
    BY <1>10 DEF WriteBegin, imageVars, RunInv, DeleterInv, RunsOf, Existing, CleanerInv,
       EraserInv, Erased, Marked, UploadInv, Areas, DeletedRunsTracked
  <2> QED
    BY <2>1, <2>2, <2>3
<1>11. ASSUME NEW r \in Runs, WriteEnd(r) PROVE DataInv'
  <2>1. TypeOK'
    BY <1>11 DEF WriteEnd, imageVars, TypeOK, Areas, Deletion, Cleaning, Sweeping
  <2>2. LockInv'
    BY <1>11 DEF WriteEnd, imageVars, LockInv, Existing, TypeOK, Cleaning, Sweeping, Deletion,
       Areas
  <2>3. RunInv'
    BY <1>11 DEF WriteEnd, imageVars, RunInv, TypeOK, Cleaning, Sweeping, Deletion, Areas,
       LockInv, Existing
  <2>4. CleanerInv'
    BY <1>11 DEF WriteEnd, imageVars, CleanerInv, TypeOK, Cleaning, Sweeping, Deletion, Areas,
       LockInv, Existing
  <2>5. DeletedRunsTracked'
    BY <1>11 DEF WriteEnd, imageVars, DeletedRunsTracked, TypeOK, Cleaning, Sweeping, Deletion,
       Areas, LockInv, Existing
  <2>6. DeleterInv' /\ EraserInv' /\ UploadInv'
    BY <1>11 DEF WriteEnd, imageVars, DeleterInv, RunsOf, Existing, EraserInv, Erased, Marked,
       UploadInv, Areas
  <2> QED
    BY <2>1, <2>2, <2>3, <2>4, <2>5, <2>6
<1>12. ASSUME NEW t \in Threads, DeleteThreadBegin(t) PROVE DataInv'
  <2>1. TypeOK'
    <3>1. RunsOf(t) \cap Existing \in SUBSET Runs
      BY DEF Existing, RunsOf
    <3>2. deleter' \in Deletion
      BY <1>12, <3>1 DEF DeleteThreadBegin, Deletion
    <3> QED
      BY <1>12, <3>2 DEF DeleteThreadBegin, runVars, imageVars, TypeOK
  <2>2. DeleterInv'
    BY <1>12 DEF DeleteThreadBegin, runVars, imageVars, DeleterInv, RunsOf, Existing, TypeOK,
       Cleaning, Sweeping, Deletion, Areas
  <2>3. LockInv' /\ RunInv' /\ CleanerInv' /\ EraserInv' /\ UploadInv' /\ DeletedRunsTracked'
    BY <1>12 DEF DeleteThreadBegin, runVars, imageVars, LockInv, Existing, RunInv, CleanerInv,
       EraserInv, Erased, Marked, UploadInv, Areas, DeletedRunsTracked
  <2> QED
    BY <2>1, <2>2, <2>3
<1>13. ASSUME DeleteThreadCommit PROVE DataInv'
  <2>1. TypeOK'
    <3>1. {deleter.thread} \subseteq Threads
      BY <1>13 DEF DeleteThreadCommit, DeleterInv
    <3>2. deleter' \in Deletion /\ intents' \subseteq Runs /\ threads' \subseteq Threads
      BY <1>13, <3>1 DEF DeleteThreadCommit, DeleteRuns, NoDeletion, Deletion, Existing, TypeOK
    <3>3. run' \in [Runs -> {"none", "queued", "running", "settled", "gone"}]
      BY <1>13 DEF DeleteThreadCommit, DeleteRuns, TypeOK
    <3>4. row' \in [Images -> {"none", "scanning", "ready", "quarantined", "deleted", "gone"}]
      BY <1>13 DEF DeleteThreadCommit, DeleteRuns, TypeOK
    <3> QED
      BY <1>13, <3>2, <3>3, <3>4 DEF DeleteThreadCommit, DeleteRuns, TypeOK
  <2>2. LockInv'
    BY <1>13 DEF DeleteThreadCommit, DeleteRuns, Kept, NoDeletion, LockInv, Existing, TypeOK,
       Cleaning, Sweeping, Deletion, Areas, DeleterInv, RunsOf, RunInv
  <2>3. RunInv'
    BY <1>13 DEF DeleteThreadCommit, DeleteRuns, Kept, NoDeletion, RunInv, TypeOK, Cleaning,
       Sweeping, Deletion, Areas, DeleterInv, RunsOf, Existing, UploadInv
  <2>4. DeleterInv'
    BY <1>13 DEF DeleteThreadCommit, DeleteRuns, Kept, NoDeletion, DeleterInv, RunsOf, Existing,
       TypeOK, Cleaning, Sweeping, Deletion, Areas
  <2>5. CleanerInv'
    BY <1>13 DEF DeleteThreadCommit, DeleteRuns, Kept, NoDeletion, CleanerInv, TypeOK, Cleaning,
       Sweeping, Deletion, Areas
  <2>6. EraserInv'
    BY <1>13 DEF DeleteThreadCommit, DeleteRuns, Kept, NoDeletion, EraserInv, Erased, Marked,
       TypeOK, Cleaning, Sweeping, Deletion, Areas
  <2>7. UploadInv'
    BY <1>13 DEF DeleteThreadCommit, DeleteRuns, Kept, NoDeletion, UploadInv, Areas, Existing,
       TypeOK, Cleaning, Sweeping, Deletion, DeleterInv, RunsOf
  <2>8. DeletedRunsTracked'
    BY <1>13 DEF DeleteThreadCommit, DeleteRuns, Kept, NoDeletion, DeletedRunsTracked, TypeOK,
       Cleaning, Sweeping, Deletion, Areas, DeleterInv, RunsOf, Existing
  <2> QED
    BY <2>1, <2>2, <2>3, <2>4, <2>5, <2>6, <2>7, <2>8
<1>14. ASSUME PurgeBegin PROVE DataInv'
  <2>1. TypeOK'
    BY <1>14 DEF PurgeBegin, NoDeletion, Active, imageVars, TypeOK, Areas, Deletion, Cleaning,
       Sweeping
  <2>2. LockInv'
    BY <1>14 DEF PurgeBegin, NoDeletion, Active, imageVars, LockInv, Existing, TypeOK, Cleaning,
       Sweeping, Deletion, Areas
  <2>3. RunInv'
    BY <1>14 DEF PurgeBegin, NoDeletion, Active, imageVars, RunInv, TypeOK, Cleaning, Sweeping,
       Deletion, Areas
  <2>4. DeleterInv'
    BY <1>14 DEF PurgeBegin, NoDeletion, Active, imageVars, DeleterInv, RunsOf, Existing, TypeOK,
       Cleaning, Sweeping, Deletion, Areas
  <2>5. UploadInv'
    BY <1>14 DEF PurgeBegin, NoDeletion, Active, imageVars, UploadInv, Areas, Existing, TypeOK,
       Cleaning, Sweeping, Deletion
  <2>6. DeletedRunsTracked'
    BY <1>14 DEF PurgeBegin, NoDeletion, Active, imageVars, DeletedRunsTracked, TypeOK, Cleaning,
       Sweeping, Deletion, Areas
  <2>7. CleanerInv' /\ EraserInv'
    BY <1>14 DEF PurgeBegin, NoDeletion, Active, imageVars, CleanerInv, EraserInv, Erased, Marked
  <2> QED
    BY <2>1, <2>2, <2>3, <2>4, <2>5, <2>6, <2>7
<1>15. ASSUME PurgeList PROVE DataInv'
  <2>1. TypeOK'
    <3>1. deleter' \in Deletion
      BY <1>15 DEF PurgeList, NoDeletion, Deletion, Existing
    <3> QED
      BY <1>15, <3>1 DEF PurgeList, runVars, imageVars, TypeOK
  <2>2. DeleterInv'
    BY <1>15 DEF PurgeList, NoDeletion, runVars, imageVars, DeleterInv, RunsOf, Existing, TypeOK,
       Cleaning, Sweeping, Deletion, Areas
  <2>3. LockInv' /\ RunInv' /\ CleanerInv' /\ EraserInv' /\ UploadInv' /\ DeletedRunsTracked'
    BY <1>15 DEF PurgeList, NoDeletion, runVars, imageVars, LockInv, Existing, RunInv, CleanerInv,
       EraserInv, Erased, Marked, UploadInv, Areas, DeletedRunsTracked
  <2> QED
    BY <2>1, <2>2, <2>3
<1>16. ASSUME PurgeCommit PROVE DataInv'
  <2>1. TypeOK'
    <3>1. {ThreadOf[r] : r \in Existing} \subseteq Threads
      BY <1>16 DEF PurgeCommit, Existing
    <3>2. deleter' \in Deletion /\ intents' \subseteq Runs /\ threads' \subseteq Threads
      BY <1>16, <3>1 DEF PurgeCommit, DeleteRuns, NoDeletion, Deletion, Existing, TypeOK
    <3>3. run' \in [Runs -> {"none", "queued", "running", "settled", "gone"}]
      BY <1>16 DEF PurgeCommit, DeleteRuns, TypeOK
    <3>4. row' \in [Images -> {"none", "scanning", "ready", "quarantined", "deleted", "gone"}]
      BY <1>16 DEF PurgeCommit, DeleteRuns, TypeOK
    <3> QED
      BY <1>16, <3>2, <3>3, <3>4 DEF PurgeCommit, DeleteRuns, TypeOK
  <2>2. LockInv'
    BY <1>16 DEF PurgeCommit, DeleteRuns, Kept, NoDeletion, LockInv, Existing, TypeOK, Cleaning,
       Sweeping, Deletion, Areas, DeleterInv, RunInv
  <2>3. RunInv'
    BY <1>16 DEF PurgeCommit, DeleteRuns, Kept, NoDeletion, RunInv, TypeOK, Cleaning, Sweeping,
       Deletion, Areas, DeleterInv, Existing, UploadInv
  <2>4. DeleterInv'
    BY <1>16 DEF PurgeCommit, DeleteRuns, Kept, NoDeletion, DeleterInv, RunsOf, Existing, TypeOK,
       Cleaning, Sweeping, Deletion, Areas
  <2>5. CleanerInv'
    BY <1>16 DEF PurgeCommit, DeleteRuns, Kept, NoDeletion, CleanerInv, TypeOK, Cleaning,
       Sweeping, Deletion, Areas
  <2>6. EraserInv'
    BY <1>16 DEF PurgeCommit, DeleteRuns, Kept, NoDeletion, EraserInv, Erased, Marked, TypeOK,
       Cleaning, Sweeping, Deletion, Areas
  <2>7. UploadInv'
    BY <1>16 DEF PurgeCommit, DeleteRuns, Kept, NoDeletion, UploadInv, Areas, Existing, TypeOK,
       Cleaning, Sweeping, Deletion
  <2>8. DeletedRunsTracked'
    BY <1>16 DEF PurgeCommit, DeleteRuns, Kept, NoDeletion, DeletedRunsTracked, TypeOK, Cleaning,
       Sweeping, Deletion, Areas, DeleterInv, Existing
  <2> QED
    BY <2>1, <2>2, <2>3, <2>4, <2>5, <2>6, <2>7, <2>8
<1>17. ASSUME DeleterStops PROVE DataInv'
  <2>1. TypeOK'
    BY <1>17 DEF DeleterStops, NoDeletion, runVars, imageVars, TypeOK, Areas, Deletion, Cleaning,
       Sweeping
  <2>2. DeleterInv'
    BY <1>17 DEF DeleterStops, NoDeletion, runVars, imageVars, DeleterInv, RunsOf, Existing,
       TypeOK, Cleaning, Sweeping, Deletion, Areas
  <2>3. LockInv' /\ RunInv' /\ CleanerInv' /\ EraserInv' /\ UploadInv' /\ DeletedRunsTracked'
    BY <1>17 DEF DeleterStops, NoDeletion, runVars, imageVars, LockInv, Existing, RunInv,
       CleanerInv, EraserInv, Erased, Marked, UploadInv, Areas, DeletedRunsTracked
  <2> QED
    BY <2>1, <2>2, <2>3
<1>18. ASSUME NEW c \in Cleaners, NEW S \in SUBSET Runs, CleanupRead(c, S) PROVE DataInv'
  <2>1. TypeOK'
    <3> DEFINE new == [cleaner[c] EXCEPT !.pc = "next", !.todo = S]
    <3>1. new \in Cleaning
      <4>1. cleaner[c] \in Cleaning
        BY DEF TypeOK
      <4> QED
        BY <4>1 DEF Cleaning
    <3>2. cleaner' = [cleaner EXCEPT ![c] = new]
      BY <1>18 DEF CleanupRead
    <3> QED
      BY <1>18, <3>1, <3>2 DEF CleanupRead, runVars, imageVars, TypeOK
  <2>2. LockInv'
    BY <1>18 DEF CleanupRead, runVars, imageVars, LockInv, Existing, TypeOK, Cleaning, Sweeping,
       Deletion, Areas
  <2>3. CleanerInv'
    BY <1>18 DEF CleanupRead, runVars, imageVars, CleanerInv, TypeOK, Cleaning, Sweeping,
       Deletion, Areas
  <2>4. EraserInv'
    BY <1>18 DEF CleanupRead, runVars, imageVars, EraserInv, Erased, Marked, TypeOK, Cleaning,
       Sweeping, Deletion, Areas
  <2>5. RunInv' /\ DeleterInv' /\ UploadInv' /\ DeletedRunsTracked'
    BY <1>18 DEF CleanupRead, runVars, imageVars, RunInv, DeleterInv, RunsOf, Existing, UploadInv,
       Areas, DeletedRunsTracked
  <2> QED
    BY <2>1, <2>2, <2>3, <2>4, <2>5
<1>19. ASSUME NEW c \in Cleaners, NEW r \in Runs, CleanupTake(c, r) PROVE DataInv'
  <2>1. TypeOK'
    <3> DEFINE new == [cleaner[c] EXCEPT !.pc = "checkpoint", !.todo = cleaner[c].todo \ {r},
                                         !.run = r]
    <3>1. cleaner[c] \in Cleaning /\ cleaner[c].todo \ {r} \in SUBSET Runs
      BY DEF TypeOK, Cleaning
    <3>2. new \in Cleaning
      BY <3>1 DEF Cleaning
    <3>3. cleaner' = [cleaner EXCEPT ![c] = new]
      BY <1>19 DEF CleanupTake
    <3>4. lock' \in [Runs -> Cleaners \cup {Worker, None}]
      BY <1>19 DEF CleanupTake, TypeOK
    <3> QED
      BY <1>19, <3>2, <3>3, <3>4 DEF CleanupTake, imageVars, TypeOK
  <2>2. LockInv'
    BY <1>19 DEF CleanupTake, Due, imageVars, LockInv, Existing, TypeOK, Cleaning, Sweeping,
       Deletion, Areas
  <2>3. CleanerInv'
    BY <1>19 DEF CleanupTake, Due, imageVars, CleanerInv, TypeOK, Cleaning, Sweeping, Deletion,
       Areas
  <2>4. EraserInv'
    BY <1>19 DEF CleanupTake, Due, imageVars, EraserInv, Erased, Marked, TypeOK, Cleaning,
       Sweeping, Deletion, Areas
  <2>5. RunInv' /\ DeleterInv' /\ UploadInv' /\ DeletedRunsTracked'
    BY <1>19 DEF CleanupTake, Due, imageVars, RunInv, DeleterInv, RunsOf, Existing, UploadInv,
       Areas, DeletedRunsTracked
  <2> QED
    BY <2>1, <2>2, <2>3, <2>4, <2>5
<1>20. ASSUME NEW c \in Cleaners, NEW r \in Runs, CleanupSkip(c, r) PROVE DataInv'
  <2>1. TypeOK'
    BY <1>20 DEF CleanupSkip, Onward, Rest, runVars, imageVars, TypeOK, Areas, Deletion, Cleaning,
       Sweeping
  <2>2. LockInv'
    BY <1>20 DEF CleanupSkip, Onward, Rest, runVars, imageVars, LockInv, Existing, TypeOK,
       Cleaning, Sweeping, Deletion, Areas
  <2>3. CleanerInv'
    BY <1>20 DEF CleanupSkip, Onward, Rest, runVars, imageVars, CleanerInv, TypeOK, Cleaning,
       Sweeping, Deletion, Areas
  <2>4. EraserInv'
    BY <1>20 DEF CleanupSkip, Onward, Rest, runVars, imageVars, EraserInv, Erased, Marked, TypeOK,
       Cleaning, Sweeping, Deletion, Areas
  <2>5. RunInv' /\ DeleterInv' /\ UploadInv' /\ DeletedRunsTracked'
    BY <1>20 DEF CleanupSkip, Onward, Rest, runVars, imageVars, RunInv, DeleterInv, RunsOf,
       Existing, UploadInv, Areas, DeletedRunsTracked
  <2> QED
    BY <2>1, <2>2, <2>3, <2>4, <2>5
<1>21. ASSUME NEW c \in Cleaners, CleanupCheckpoint(c) PROVE DataInv'
  <2>1. TypeOK'
    <3> DEFINE new == [cleaner[c] EXCEPT !.pc = "images",
                 !.images = {i \in Images : bound[i] = cleaner[c].run /\ row[i] = "deleted"}]
    <3>1. new \in Cleaning
      <4>1. cleaner[c] \in Cleaning
        BY DEF TypeOK
      <4>2. {i \in Images : bound[i] = cleaner[c].run /\ row[i] = "deleted"} \in SUBSET Images
        OBVIOUS
      <4> QED
        BY <4>1, <4>2 DEF Cleaning
    <3>2. cleaner' = [cleaner EXCEPT ![c] = new]
      BY <1>21 DEF CleanupCheckpoint
    <3> QED
      BY <1>21, <3>1, <3>2 DEF CleanupCheckpoint, imageVars, TypeOK
  <2>2. LockInv'
    BY <1>21 DEF CleanupCheckpoint, imageVars, LockInv, Existing, TypeOK, Cleaning, Sweeping,
       Deletion, Areas
  <2>3. RunInv'
    BY <1>21 DEF CleanupCheckpoint, imageVars, RunInv, TypeOK, Cleaning, Sweeping, Deletion, Areas
  <2>4. CleanerInv'
    BY <1>21 DEF CleanupCheckpoint, imageVars, CleanerInv, TypeOK, Cleaning, Sweeping, Deletion,
       Areas, LockInv, RunInv
  <2>5. EraserInv'
    BY <1>21 DEF CleanupCheckpoint, imageVars, EraserInv, Erased, Marked, TypeOK, Cleaning,
       Sweeping, Deletion, Areas, UploadInv
  <2>6. DeletedRunsTracked'
    BY <1>21 DEF CleanupCheckpoint, imageVars, DeletedRunsTracked, TypeOK, Cleaning, Sweeping,
       Deletion, Areas
  <2>7. DeleterInv' /\ UploadInv'
    BY <1>21 DEF CleanupCheckpoint, imageVars, DeleterInv, RunsOf, Existing, UploadInv, Areas
  <2> QED
    BY <2>1, <2>2, <2>3, <2>4, <2>5, <2>6, <2>7
<1>22. ASSUME NEW c \in Cleaners, CleanupImage(c) PROVE DataInv'
  <2> DEFINE old == cleaner[c]
             new == cleaner'[c]
  <2>1. /\ UNCHANGED <<run, threads, intents, checkpoints, lock, bound, upload, deleter,
                       sweeper, faults>>
        /\ cleaner' = [cleaner EXCEPT ![c] = new] /\ new \in Cleaning /\ new.run = old.run
    BY <1>22, CleanupImageStep DEF CleanupImage, runVars
  <2>2. old \in Cleaning /\ Erased(old.pc, old.image) /\ \A i \in old.images : Marked(i)
    BY DEF TypeOK, EraserInv
  <2>3. Erasing
    BY <1>22, <2>2, CleanupImageStep, Erases
  <2>4. /\ RunInv' /\ UploadInv' /\ DeletedRunsTracked'
        /\ \A i \in Images : Marked(i) => Marked(i)'
        /\ \A pc, i : Erased(pc, i) => Erased(pc, i)'
    BY <2>1, <2>3, ErasingKeeps
  <2>5. TypeOK'
    BY <2>1, <2>3 DEF Erasing, TypeOK
  <2>6. LockInv' /\ DeleterInv'
    BY <2>1 DEF LockInv, DeleterInv, RunsOf, Existing, TypeOK
  <2>7. CleanerInv'
    <3> SUFFICES ASSUME NEW d \in Cleaners PROVE
            /\ cleaner'[d].pc \in {"idle", "next"} <=> cleaner'[d].run = None
            /\ cleaner'[d].pc \in {"images", "uploads", "quarantine", "row"} =>
                  /\ cleaner'[d].run \notin checkpoints
                  /\ \A i \in Images : bound[i] = cleaner'[d].run =>
                        row'[i] = "gone" \/ i \in cleaner'[d].images
                  /\ \A i \in cleaner'[d].images : bound[i] = cleaner'[d].run
            /\ cleaner'[d].pc \in {"uploads", "quarantine", "row"} =>
                  cleaner'[d].image \in Images /\ bound[cleaner'[d].image] = cleaner'[d].run
      BY <2>1 DEF CleanerInv
    <3>1. CASE d # c
      BY <2>1, <2>3, <3>1 DEF CleanerInv, Erasing, TypeOK
    <3>2. CASE d = c /\ old.pc # "row"
      <4>1. /\ old.pc \in {"images", "uploads", "quarantine"}
            /\ new.pc \in {"uploads", "quarantine", "row"} /\ new.images = old.images
            /\ new.image \in old.images \/ (old.pc # "images" /\ new.image = old.image)
        BY <1>22, <3>2, CleanupImageStep
      <4>2. old.run \in Runs /\ old.images \subseteq Images
        <5>1. old.run \in Runs \cup {None} /\ old.images \subseteq Images
          BY <2>2 DEF Cleaning
        <5>2. old.run # None
          BY <4>1 DEF CleanerInv
        <5> QED
          BY <5>1, <5>2
      <4>3. /\ old.run \notin checkpoints
            /\ \A i \in Images : bound[i] = old.run => row[i] = "gone" \/ i \in old.images
            /\ \A i \in old.images : bound[i] = old.run
            /\ old.pc # "images" => old.image \in Images /\ bound[old.image] = old.run
        BY <4>1 DEF CleanerInv
      <4>4. \A i \in Images : row[i] = "gone" => row'[i] = "gone"
        BY <2>3 DEF Erasing
      <4>5. new.image \in Images /\ bound[new.image] = old.run
        BY <4>1, <4>2, <4>3
      <4> QED
        BY <2>1, <3>2, <4>1, <4>2, <4>3, <4>4, <4>5
    <3>3. CASE d = c /\ old.pc = "row"
      <4>1. row'[old.image] = "gone" /\ new.pc = "images" /\ new.images = old.images \ {old.image}
        BY <1>22, <2>2, <3>3, CleanupImageStep DEF EraseRow, Erased, Marked, TypeOK
      <4> QED
        BY <2>1, <2>3, <3>3, <4>1 DEF CleanerInv, Erasing, TypeOK
    <3> QED
      BY <3>1, <3>2, <3>3
  <2>8. EraserInv'
    <3>1. \A d \in Cleaners \ {c} : cleaner'[d] = cleaner[d]
      BY <2>1 DEF TypeOK
    <3>2. \A d \in Cleaners \ {c} : /\ \A i \in cleaner'[d].images : Marked(i)'
                                    /\ Erased(cleaner[d].pc, cleaner[d].image)'
      BY <2>4, <3>1 DEF EraserInv, TypeOK, Cleaning
    <3>3. \A k \in Sweepers : /\ \A i \in sweeper'[k].todo : Marked(i)'
                              /\ Erased(sweeper[k].pc, sweeper[k].image)'
      BY <2>1, <2>4 DEF EraserInv, TypeOK, Sweeping
    <3>4. \A i \in new.images : Marked(i)'
      BY <1>22, <2>2, <2>4, CleanupImageStep DEF Cleaning
    <3>5. Erased(cleaner[c].pc, cleaner[c].image)'
      <4>1. CASE old.pc = "images"
        BY <1>22, <2>2, <2>4, <4>1, CleanupImageStep DEF Erased, Cleaning
      <4>2. CASE old.pc = "uploads"
        BY <1>22, <2>2, <2>4, <4>2, CleanupImageStep DEF Erased, EraseUpload, TypeOK, Areas
      <4>3. CASE old.pc = "quarantine"
        BY <1>22, <2>2, <2>4, <4>3, CleanupImageStep DEF Erased, EraseQuarantine, TypeOK, Areas
      <4>4. CASE old.pc = "row"
        BY <1>22, <4>4, CleanupImageStep DEF Erased
      <4> QED
        BY <1>22, <4>1, <4>2, <4>3, <4>4, CleanupImageStep
    <3> QED
      BY <3>2, <3>3, <3>4, <3>5 DEF EraserInv
  <2> QED
    BY <2>4, <2>5, <2>6, <2>7, <2>8
<1>23. ASSUME NEW c \in Cleaners, CleanupDone(c) PROVE DataInv'
  <2>1. TypeOK'
    BY <1>23 DEF CleanupDone, Onward, Rest, imageVars, TypeOK, Areas, Deletion, Cleaning, Sweeping
  <2>2. LockInv'
    BY <1>23 DEF CleanupDone, Onward, Rest, imageVars, LockInv, Existing, TypeOK, Cleaning,
       Sweeping, Deletion, Areas
  <2>3. RunInv'
    BY <1>23 DEF CleanupDone, Onward, Rest, imageVars, RunInv, TypeOK, Cleaning, Sweeping,
       Deletion, Areas
  <2>4. CleanerInv'
    BY <1>23 DEF CleanupDone, Onward, Rest, imageVars, CleanerInv, TypeOK, Cleaning, Sweeping,
       Deletion, Areas
  <2>5. EraserInv'
    BY <1>23 DEF CleanupDone, Onward, Rest, imageVars, EraserInv, Erased, Marked, TypeOK,
       Cleaning, Sweeping, Deletion, Areas
  <2>6. DeletedRunsTracked'
    BY <1>23 DEF CleanupDone, Onward, Rest, imageVars, DeletedRunsTracked, TypeOK, Cleaning,
       Sweeping, Deletion, Areas, CleanerInv
  <2>7. DeleterInv' /\ UploadInv'
    BY <1>23 DEF CleanupDone, Onward, Rest, imageVars, DeleterInv, RunsOf, Existing, UploadInv,
       Areas
  <2> QED
    BY <2>1, <2>2, <2>3, <2>4, <2>5, <2>6, <2>7
<1>24. ASSUME NEW c \in Cleaners, CleanupFails(c) PROVE DataInv'
  <2>1. TypeOK'
    <3>1. PICK left \in {cleaner[c].todo, {}} : Onward(c, left)
      BY <1>24 DEF CleanupFails
    <3>2. left \in SUBSET Runs
      BY <3>1 DEF TypeOK, Cleaning
    <3>3. Rest \in Cleaning /\ [Rest EXCEPT !.pc = "next", !.todo = left] \in Cleaning
      BY <3>2 DEF Rest, Cleaning
    <3>4. cleaner' \in [Cleaners -> Cleaning]
      BY <3>1, <3>3 DEF Onward, TypeOK
    <3>5. faults' \in 0 .. MaxFaults
      BY <1>24 DEF CleanupFails, TypeOK
    <3>6. lock' \in [Runs -> Cleaners \cup {Worker, None}]
      <4>1. lock' = [lock EXCEPT ![cleaner[c].run] = None]
        BY <1>24 DEF CleanupFails
      <4> QED
        BY <4>1 DEF TypeOK
    <3> QED
      BY <1>24, <3>4, <3>5, <3>6 DEF CleanupFails, imageVars, TypeOK
  <2>2. LockInv'
    BY <1>24 DEF CleanupFails, Onward, Rest, imageVars, LockInv, Existing, TypeOK, Cleaning,
       Sweeping, Deletion, Areas
  <2>3. CleanerInv'
    BY <1>24 DEF CleanupFails, Onward, Rest, imageVars, CleanerInv, TypeOK, Cleaning, Sweeping,
       Deletion, Areas
  <2>4. EraserInv'
    BY <1>24 DEF CleanupFails, Onward, Rest, imageVars, EraserInv, Erased, Marked, TypeOK,
       Cleaning, Sweeping, Deletion, Areas
  <2>5. RunInv' /\ DeleterInv' /\ UploadInv' /\ DeletedRunsTracked'
    BY <1>24 DEF CleanupFails, Onward, Rest, imageVars, RunInv, DeleterInv, RunsOf, Existing,
       UploadInv, Areas, DeletedRunsTracked
  <2> QED
    BY <2>1, <2>2, <2>3, <2>4, <2>5
<1>25. ASSUME NEW k \in Sweepers, SweepRead(k) PROVE DataInv'
  <2>1. TypeOK'
    <3> DEFINE new == [sweeper[k] EXCEPT !.pc = "next", !.todo = {i \in Images : row[i] = "deleted"}]
    <3>1. new \in Sweeping
      BY DEF TypeOK, Sweeping
    <3>2. sweeper' = [sweeper EXCEPT ![k] = new]
      BY <1>25 DEF SweepRead
    <3> QED
      BY <1>25, <3>1, <3>2 DEF SweepRead, runVars, imageVars, TypeOK
  <2>2. EraserInv'
    BY <1>25 DEF SweepRead, runVars, imageVars, EraserInv, Erased, Marked, TypeOK, Cleaning,
       Sweeping, Deletion, Areas, UploadInv
  <2>3. LockInv' /\ RunInv' /\ DeleterInv' /\ CleanerInv' /\ UploadInv' /\ DeletedRunsTracked'
    BY <1>25 DEF SweepRead, runVars, imageVars, LockInv, Existing, RunInv, DeleterInv, RunsOf,
       CleanerInv, UploadInv, Areas, DeletedRunsTracked
  <2> QED
    BY <2>1, <2>2, <2>3
<1>26. ASSUME NEW k \in Sweepers, SweepImage(k) PROVE DataInv'
  <2> DEFINE old == sweeper[k]
             new == sweeper'[k]
  <2>1. /\ UNCHANGED <<run, threads, intents, checkpoints, lock, bound, upload, deleter,
                       cleaner, faults>>
        /\ sweeper' = [sweeper EXCEPT ![k] = new] /\ new \in Sweeping
    BY <1>26, SweepImageStep DEF SweepImage, runVars
  <2>2. old \in Sweeping /\ Erased(old.pc, old.image) /\ \A i \in old.todo : Marked(i)
    BY DEF TypeOK, EraserInv
  <2>3. Erasing
    BY <1>26, <2>2, SweepImageStep, Erases
  <2>4. /\ RunInv' /\ UploadInv' /\ DeletedRunsTracked'
        /\ \A i \in Images : Marked(i) => Marked(i)'
        /\ \A pc, i : Erased(pc, i) => Erased(pc, i)'
    BY <2>1, <2>3, ErasingKeeps
  <2>5. TypeOK'
    BY <2>1, <2>3 DEF Erasing, TypeOK
  <2>6. LockInv' /\ DeleterInv'
    BY <2>1 DEF LockInv, DeleterInv, RunsOf, Existing
  <2>7. CleanerInv'
    BY <2>1, <2>3 DEF CleanerInv, Erasing
  <2>8. EraserInv'
    <3>1. \A d \in Sweepers \ {k} : sweeper'[d] = sweeper[d]
      BY <2>1 DEF TypeOK
    <3>2. \A d \in Sweepers \ {k} : /\ \A i \in sweeper'[d].todo : Marked(i)'
                                    /\ Erased(sweeper[d].pc, sweeper[d].image)'
      BY <2>4, <3>1 DEF EraserInv, TypeOK, Sweeping
    <3>3. \A c \in Cleaners : /\ \A i \in cleaner'[c].images : Marked(i)'
                              /\ Erased(cleaner[c].pc, cleaner[c].image)'
      BY <2>1, <2>4 DEF EraserInv, TypeOK, Cleaning
    <3>4. \A i \in new.todo : Marked(i)'
      BY <1>26, <2>1, <2>2, <2>4, SweepImageStep DEF Sweeping
    <3>5. Erased(sweeper[k].pc, sweeper[k].image)'
      <4>1. CASE old.pc = "next"
        BY <1>26, <2>2, <2>4, <4>1, SweepImageStep DEF Erased, Sweeping
      <4>2. CASE old.pc = "uploads"
        BY <1>26, <2>2, <2>4, <4>2, SweepImageStep DEF Erased, EraseUpload, TypeOK, Areas
      <4>3. CASE old.pc = "quarantine"
        BY <1>26, <2>2, <2>4, <4>3, SweepImageStep DEF Erased, EraseQuarantine, TypeOK, Areas
      <4>4. CASE old.pc = "row"
        BY <1>26, <4>4, SweepImageStep DEF Erased
      <4> QED
        BY <1>26, <4>1, <4>2, <4>3, <4>4, SweepImageStep
    <3> QED
      BY <3>2, <3>3, <3>4, <3>5 DEF EraserInv
  <2> QED
    BY <2>4, <2>5, <2>6, <2>7, <2>8
<1>27. ASSUME NEW k \in Sweepers, SweepFails(k) PROVE DataInv'
  <2>1. TypeOK'
    BY <1>27 DEF SweepFails, Asleep, runVars, imageVars, TypeOK, Areas, Deletion, Cleaning,
       Sweeping
  <2>2. EraserInv'
    BY <1>27 DEF SweepFails, Asleep, runVars, imageVars, EraserInv, Erased, Marked, TypeOK,
       Cleaning, Sweeping, Deletion, Areas
  <2>3. LockInv' /\ RunInv' /\ DeleterInv' /\ CleanerInv' /\ UploadInv' /\ DeletedRunsTracked'
    BY <1>27 DEF SweepFails, Asleep, runVars, imageVars, LockInv, Existing, RunInv, DeleterInv,
       RunsOf, CleanerInv, UploadInv, Areas, DeletedRunsTracked
  <2> QED
    BY <2>1, <2>2, <2>3
<1>28. CASE UNCHANGED vars
  BY <1>28 DEF vars, runVars, imageVars, TypeOK, Areas, Deletion, Cleaning, Sweeping, LockInv,
     Existing, RunInv, DeleterInv, RunsOf, CleanerInv, EraserInv, Erased, Marked, UploadInv,
     DeletedRunsTracked
<1> QED
  BY <1>1, <1>2, <1>3, <1>4, <1>5, <1>6, <1>7, <1>8, <1>9, <1>10, <1>11, <1>12, <1>13,
     <1>14, <1>15, <1>16, <1>17, <1>18, <1>19, <1>20, <1>21, <1>22, <1>23, <1>24, <1>25, <1>26,
     <1>27, <1>28
     DEF Next, Uploads, RunSteps, Deletions, CleanerStep, SweeperStep

LEMMA Invariance ==
    ASSUME CreateDuringPurge = FALSE
    PROVE  Spec => []DataInv
<1>1. DataInv /\ [Next]_vars => DataInv'
  BY DataStep
<1> QED
  BY <1>1, DataInit, PTL DEF Spec

-----------------------------------------------------------------------------
(* The theorems.                                                           *)

(* Whatever fails or stops, and however many loops clean at once: a deleted *)
(* run without an intent has left neither a checkpoint nor an image row,    *)
(* provided that no run is created between the list of a purge and its      *)
(* commit.  run_cleanup.py relies on it when it forgets the intent.         *)
THEOREM DeletionsAreTracked ==
    ASSUME CreateDuringPurge = FALSE
    PROVE  Spec => []DeletedRunsTracked
<1>1. DataInv => DeletedRunsTracked
  BY DEF DataInv
<1> QED
  BY <1>1, Invariance, PTL

(* The row of an image outlives its objects, and the image of a run that    *)
(* exists is ready and stored.                                              *)
THEOREM ObjectsAreReachable ==
    ASSUME CreateDuringPurge = FALSE
    PROVE  Spec => []ObjectsReachable
<1>1. DataInv => ObjectsReachable
  BY Distinct DEF DataInv, UploadInv, TypeOK, Areas, Kept, Existing, ObjectsReachable
<1> QED
  BY <1>1, Invariance, PTL

=============================================================================
