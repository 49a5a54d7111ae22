----------------------------- MODULE ResearchRuns -----------------------------
(***************************************************************************)
(* The life of a research run in deployed mode: the shared table `runs`,   *)
(* the Java commands that create, cancel and resume a run, the outbox that *)
(* carries them to the agent, the ARQ job queue, the workers that claim    *)
(* and execute runs, and the agent's recovery loop.                        *)
(*                                                                         *)
(* Every column of `runs` that decides a transition is a variable; report, *)
(* sources, events, metrics and dead_letter_runs rows are written after a  *)
(* transition and read by none, so they are left out.  The call and token  *)
(* budgets that resume also checks are part of another module.             *)
(*                                                                         *)
(* The outbox is an at-least-once channel here: a pending command may be   *)
(* delivered any number of times and is removed when its delivery is       *)
(* recorded, or without delivery when its attempts are exhausted.          *)
(***************************************************************************)
EXTENDS Naturals, FiniteSets

CONSTANTS
  Runs,            \* ids of runs
  Workers,         \* job slots of all research worker processes
  Replicas,        \* agent API processes, each with a recovery loop
  Accounts,        \* subjects of platform_users that create runs
  Workspaces, Threads,
  OwnerOf,         \* runs.created_by
  WorkspaceOf,     \* runs.user_id
  ThreadOf,        \* runs.thread_id
  PlatformLimit,   \* platform_active_run_limit
  WorkspaceLimit,  \* workspace_limits.concurrent_run_limit
  MaxQueued,       \* max_queued_runs
  MaxRecoveries,   \* max_job_retries
  MaxResumes,      \* bound of the model: user resumes of one run
  MaxFaults,       \* bound of the model: crashes, losses, failed claims
  None

Waiting   == {"queued", "interrupted"}
Active    == {"queued", "running", "interrupted"}
Resumable == {"failed", "interrupted", "cancelled"}
Finished  == {"completed", "insufficient"}
Statuses  == {"absent", "failed", "cancelled"} \union Active \union Finished

Job == [run : Runs, expected : Nat, resume : BOOLEAN]
Row == [status : {"queued", "interrupted", "requeued"},
        resume : BOOLEAN, recoveries : Nat]
Resumption == [run : Runs, attempt : Nat, seen : Resumable]

ASSUME ConstantsAssumption ==
  /\ IsFiniteSet(Runs) /\ IsFiniteSet(Workers)
  /\ OwnerOf \in [Runs -> Accounts]
  /\ WorkspaceOf \in [Runs -> Workspaces]
  /\ ThreadOf \in [Runs -> Threads]
  /\ PlatformLimit \in Nat \ {0} /\ WorkspaceLimit \in Nat \ {0}
  /\ MaxQueued \in Nat \ {0} /\ MaxRecoveries \in Nat
  /\ MaxResumes \in Nat /\ MaxFaults \in Nat
  /\ None \notin Job /\ None \notin Row /\ None \notin Resumption

VARIABLES
  status,      \* runs.status, "absent" before the run is created
  attempt,     \* runs.attempt_count
  recoveries,  \* runs.auto_recoveries
  retryable,   \* runs.error_info.retryable is not false
  expired,     \* runs.deadline_at has passed
  disabled,    \* accounts with platform_users.status = 'disabled'
  outbox,      \* pending or processing rows of business_outbox
  command,     \* the resume transaction between its read and its commit
  jobs,        \* ARQ jobs not finished yet, taken or not
  marks,       \* ARQ abort marks, each a job id <<run, number>>
  worker,      \* what each job slot does
  scan,        \* rows each recovery loop has read and not processed yet
  resumed,     \* how often a user resumed each run
  faults       \* how many faults have occurred

runVars == <<status, attempt, recoveries, retryable, expired>>
vars == <<status, attempt, recoveries, retryable, expired, disabled, outbox,
          command, jobs, marks, worker, scan, resumed, faults>>

-----------------------------------------------------------------------------
Idle == [pc |-> "idle", job |-> None, attempt |-> 0]

Command == [run : Runs, type : {"schedule", "resume", "abort"}, expected : Nat]

TypeOK ==
  /\ status \in [Runs -> Statuses]
  /\ attempt \in [Runs -> Nat]
  /\ recoveries \in [Runs -> Nat]
  /\ retryable \in [Runs -> BOOLEAN]
  /\ expired \in [Runs -> BOOLEAN]
  /\ disabled \subseteq Accounts
  /\ outbox \subseteq Command
  /\ command \in Resumption \union {None}
  /\ jobs \subseteq Job
  /\ marks \subseteq Runs \X Nat
  /\ worker \in [Workers -> {Idle} \union
        [pc : {"claiming", "executing"}, job : Job, attempt : Nat]]
  /\ scan \in [Replicas -> [Runs -> Row \union {None}]]
  /\ resumed \in [Runs -> Nat]
  /\ faults \in Nat

Init ==
  /\ status = [r \in Runs |-> "absent"]
  /\ attempt = [r \in Runs |-> 0]
  /\ recoveries = [r \in Runs |-> 0]
  /\ retryable = [r \in Runs |-> TRUE]
  /\ expired = [r \in Runs |-> FALSE]
  /\ disabled = {}
  /\ outbox = {}
  /\ command = None
  /\ jobs = {}
  /\ marks = {}
  /\ worker = [w \in Workers |-> Idle]
  /\ scan = [p \in Replicas |-> [r \in Runs |-> None]]
  /\ resumed = [r \in Runs |-> 0]
  /\ faults = 0

-----------------------------------------------------------------------------
(* What the guards of the code ask of the tables, queue and locks.         *)

Running == {r \in Runs : status[r] = "running"}
RunningIn(s) == {r \in Running : WorkspaceOf[r] = s}
WaitingRuns == {r \in Runs : status[r] \in Waiting}
ActiveRuns == {r \in Runs : status[r] \in Active}

\* Mutant: an off-by-one in the comparison with platform_active_run_limit.
PlatformHasRoomLessOne == Cardinality(Running) + 1 < PlatformLimit

PlatformHasRoom == Cardinality(Running) < PlatformLimit

WorkspaceHasRoom(r) == Cardinality(RunningIn(WorkspaceOf[r])) < WorkspaceLimit

\* Mutant: interrupted runs are left out of the count.
QueuedHaveRoom(r) ==
  Cardinality({q \in Runs \ {r} : status[q] = "queued"}) < MaxQueued

\* Waiting runs other than r itself, which a resume does not count.
QueueHasRoom(r) == Cardinality(WaitingRuns \ {r}) < MaxQueued

\* The unique index one_active_thread forbids r to become queued or running.
ThreadBusy(r) ==
  \E q \in Runs \ {r} : /\ ThreadOf[q] = ThreadOf[r]
                        /\ status[q] \in {"queued", "running"}

\* Mutant: the lock is not taken.
WorkspaceUnlocked(r) == r \in Runs

\* The advisory lock workspace:<id> is not held by a resume transaction.
WorkspaceFree(r) ==
  command # None => WorkspaceOf[command.run] # WorkspaceOf[r]

\* Mutant: the claim reads and updates without its lock.
ClaimUnlocked == \A v \in Workers : worker[v].pc \in {"idle", "claiming", "executing"}

\* The advisory lock platform-run-admission is free.
ClaimFree == \A v \in Workers : worker[v].pc # "claiming"

JobId(j) == <<j.run, j.expected + 1>>

\* ARQ drops a job whose id is already queued or in progress.
WithJob(r, resume) ==
  IF \E j \in jobs : j.run = r /\ j.expected = attempt[r]
  THEN jobs
  ELSE jobs \union {[run |-> r, expected |-> attempt[r], resume |-> resume]}

Available(j) ==
  /\ j \in jobs
  /\ \A v \in Workers : worker[v].job # j

\* A pending command of the same type stays; an abort replaces its payload.
WithCommand(r, type, expected) ==
  IF \E c \in outbox : c.run = r /\ c.type = type
  THEN outbox
  ELSE outbox \union {[run |-> r, type |-> type, expected |-> expected]}

WithAborts(S) ==
  {c \in outbox : ~(c.type = "abort" /\ c.run \in S)}
    \union {[run |-> r, type |-> "abort", expected |-> attempt[r]] : r \in S}

\* Mutant: the update is fenced by the status alone.
OwnsByStatus(w) == status[worker[w].job.run] = "running"

\* Execution.check and the predicate of every fenced update.
Owns(w) ==
  /\ status[worker[w].job.run] = "running"
  /\ attempt[worker[w].job.run] = worker[w].attempt

Fault == faults < MaxFaults /\ faults' = faults + 1

-----------------------------------------------------------------------------
(* Commands of the business service.                                       *)

\* A new run enters the queue together with its schedule command, under the
\* global admission lock that an open resume holds.
CreateRun(r) ==
  /\ status[r] = "absent"
  /\ command = None
  /\ OwnerOf[r] \notin disabled
  /\ QueueHasRoom(r)
  /\ ~ThreadBusy(r)
  /\ status' = [status EXCEPT ![r] = "queued"]
  /\ outbox' = WithCommand(r, "schedule", 0)
  /\ UNCHANGED <<attempt, recoveries, retryable, expired, disabled, command,
                 jobs, marks, worker, scan, resumed, faults>>

\* Cancel the runs of S that are active and queue an abort for each.
StopRuns(S) ==
  /\ status' = [r \in Runs |-> IF r \in S THEN "cancelled" ELSE status[r]]
  /\ outbox' = WithAborts(S)

CancelRun(r) ==
  /\ WorkspaceFree(r)
  /\ status[r] \in Active
  /\ StopRuns({r})
  /\ UNCHANGED <<attempt, recoveries, retryable, expired, disabled, command,
                 jobs, marks, worker, scan, resumed, faults>>

\* The platform operator cancels without the workspace lock.
AdminCancelRun(r) ==
  /\ status[r] \in Active
  /\ StopRuns({r})
  /\ UNCHANGED <<attempt, recoveries, retryable, expired, disabled, command,
                 jobs, marks, worker, scan, resumed, faults>>

\* Disabling an account cancels its active runs in the same transaction.
DisableAccount(u) ==
  /\ u \notin disabled
  /\ disabled' = disabled \union {u}
  /\ StopRuns({r \in ActiveRuns : OwnerOf[r] = u})
  /\ UNCHANGED <<attempt, recoveries, retryable, expired, command, jobs, marks,
                 worker, scan, resumed, faults>>

EnableAccount(u) ==
  /\ u \in disabled
  /\ disabled' = disabled \ {u}
  /\ UNCHANGED <<runVars, outbox, command, jobs, marks, worker, scan, resumed,
                 faults>>

\* Resume takes the admission and workspace locks, then reads the run ...
BeginResume(r) ==
  /\ command = None
  /\ status[r] \in Resumable
  /\ retryable[r] /\ ~expired[r]
  /\ QueueHasRoom(r)
  /\ resumed[r] < MaxResumes
  /\ command' = [run |-> r, attempt |-> attempt[r], seen |-> status[r]]
  /\ UNCHANGED <<runVars, disabled, outbox, jobs, marks, worker, scan, resumed,
                 faults>>

\* ... and queues it by id alone, with the attempt it read.  The unique index
\* rolls the transaction back when the thread is busy.
CommitResume ==
  LET r == command.run IN
  /\ command # None
  /\ command' = None
  /\ IF ThreadBusy(r)
     THEN UNCHANGED <<status, outbox, resumed>>
     ELSE /\ status' = [status EXCEPT ![r] = "queued"]
          /\ outbox' = WithCommand(r, "resume", command.attempt)
          /\ resumed' = [resumed EXCEPT ![r] = @ + 1]
  /\ UNCHANGED <<attempt, recoveries, retryable, expired, disabled, jobs, marks,
                 worker, scan, faults>>

-----------------------------------------------------------------------------
(* The agent endpoints the outbox calls.  A lost response leaves the        *)
(* command pending, so that it is delivered again.                         *)

Recorded(c) == outbox' \in {outbox, outbox \ {c}}

DeliverSchedule(c) ==
  /\ c.type \in {"schedule", "resume"}
  /\ jobs' = IF status[c.run] = "queued" /\ attempt[c.run] = c.expected
             THEN WithJob(c.run, c.type = "resume")
             ELSE jobs
  /\ Recorded(c)
  /\ UNCHANGED <<runVars, disabled, command, marks, worker, scan, resumed,
                 faults>>

\* Mutant: an abort of a run that never ran marks its first job.
AbortAppliesUnstarted(c) ==
  /\ attempt[c.run] = c.expected
  /\ status[c.run] = "cancelled"

\* The attempt an abort may stop: the one it names, while it is the last one.
AbortApplies(c) ==
  /\ attempt[c.run] = c.expected
  /\ status[c.run] = "cancelled"
  /\ attempt[c.run] > 0

AbortedJob(r) == <<r, IF attempt[r] = 0 THEN 1 ELSE attempt[r]>>

DeliverAbort(c) ==
  /\ c.type = "abort"
  /\ marks' = IF AbortApplies(c)
              THEN marks \union {AbortedJob(c.run)}
              ELSE marks
  /\ Recorded(c)
  /\ UNCHANGED <<runVars, disabled, command, jobs, worker, scan, resumed,
                 faults>>

\* The attempts of the command are exhausted before the agent answers.
DeadLetterCommand(c) ==
  /\ Fault
  /\ outbox' = outbox \ {c}
  /\ UNCHANGED <<runVars, disabled, command, jobs, marks, worker, scan,
                 resumed>>

-----------------------------------------------------------------------------
(* A worker slot takes a job and claims its run.                           *)

Takes(w, j) ==
  /\ worker[w] = Idle
  /\ Available(j)
  /\ JobId(j) \notin marks

Consumed(j) ==
  /\ jobs' = jobs \ {j}
  /\ marks' = marks \ {JobId(j)}

\* The statuses a job may claim; only a resuming job takes an interrupted run.
Eligible(j) == IF j.resume THEN Waiting ELSE {"queued"}

Claimable(j) ==
  /\ status[j.run] \in Eligible(j)
  /\ attempt[j.run] = j.expected

\* Mutant: the update has no status predicate.
ExhaustedAlways(r) ==
  /\ status' = [status EXCEPT ![r] = "failed"]
  /\ retryable' = [retryable EXCEPT ![r] = FALSE]

\* Waiting runs out of time or of automatic recoveries fail for good.
Exhausted(r) ==
  IF status[r] \in Waiting
  THEN /\ status' = [status EXCEPT ![r] = "failed"]
       /\ retryable' = [retryable EXCEPT ![r] = FALSE]
  ELSE UNCHANGED <<status, retryable>>

HasRoom(r) == PlatformHasRoom /\ WorkspaceHasRoom(r)

\* All that the claim reads under the platform lock lets it go on.
BeginClaim(w, j) ==
  /\ Takes(w, j) /\ ClaimFree
  /\ Claimable(j)
  /\ ~expired[j.run]
  /\ OwnerOf[j.run] \notin disabled
  /\ HasRoom(j.run)
  /\ worker' = [worker EXCEPT
                  ![w] = [pc |-> "claiming", job |-> j, attempt |-> 0]]
  /\ UNCHANGED <<runVars, disabled, outbox, command, jobs, marks, scan, resumed,
                 faults>>

\* Not eligible, not the expected attempt, or no room: the job is used up.
RefuseClaim(w, j) ==
  /\ Takes(w, j) /\ ClaimFree
  /\ \/ ~Claimable(j)
     \/ /\ ~expired[j.run]
        /\ OwnerOf[j.run] \notin disabled
        /\ ~HasRoom(j.run)
  /\ Consumed(j)
  /\ UNCHANGED <<runVars, disabled, outbox, command, worker, scan, resumed,
                 faults>>

ClaimExpired(w, j) ==
  /\ Takes(w, j) /\ ClaimFree
  /\ Claimable(j)
  /\ expired[j.run]
  /\ Exhausted(j.run)
  /\ Consumed(j)
  /\ UNCHANGED <<attempt, recoveries, expired, disabled, outbox, command,
                 worker, scan, resumed, faults>>

ClaimDisabled(w, j) ==
  /\ Takes(w, j) /\ ClaimFree
  /\ Claimable(j)
  /\ ~expired[j.run]
  /\ OwnerOf[j.run] \in disabled
  /\ status' = [status EXCEPT ![j.run] = "cancelled"]
  /\ retryable' = [retryable EXCEPT ![j.run] = FALSE]
  /\ Consumed(j)
  /\ UNCHANGED <<attempt, recoveries, expired, disabled, outbox, command,
                 worker, scan, resumed, faults>>

FinishJob(w) ==
  /\ Consumed(worker[w].job)
  /\ worker' = [worker EXCEPT ![w] = Idle]

\* The claiming update asks for the status alone, and the thread index
\* refuses an interrupted run of a busy thread.
Admissible(j) ==
  /\ status[j.run] \in Eligible(j)
  /\ status[j.run] = "interrupted" => ~ThreadBusy(j.run)

\* Mutant: a recovered run goes on under the attempt it was interrupted in.
SameAttempt(r) == IF attempt[r] = 0 THEN 1 ELSE attempt[r]

NextAttempt(r) == attempt[r] + 1

AdmitClaim(w) ==
  LET r == worker[w].job.run IN
  /\ worker[w].pc = "claiming"
  /\ Admissible(worker[w].job)
  /\ status' = [status EXCEPT ![r] = "running"]
  /\ attempt' = [attempt EXCEPT ![r] = NextAttempt(r)]
  /\ retryable' = [retryable EXCEPT ![r] = TRUE]
  /\ worker' = [worker EXCEPT ![w] = [pc |-> "executing",
                                      job |-> worker[w].job,
                                      attempt |-> NextAttempt(r)]]
  /\ UNCHANGED <<recoveries, expired, disabled, outbox, command, jobs, marks,
                 scan, resumed, faults>>

AbandonClaim(w) ==
  /\ worker[w].pc = "claiming"
  /\ ~Admissible(worker[w].job)
  /\ FinishJob(w)
  /\ UNCHANGED <<runVars, disabled, outbox, command, scan, resumed, faults>>

\* A draining worker, or one behind the migration barrier, lets the job go.
DropJob(w, j) ==
  /\ Takes(w, j)
  /\ Fault
  /\ Consumed(j)
  /\ UNCHANGED <<runVars, disabled, outbox, command, worker, scan, resumed>>

\* A claim that raises fails the run whatever attempt is running.
ClaimRaises(w, j) ==
  /\ Takes(w, j)
  /\ Fault
  /\ IF status[j.run] = "running"
     THEN /\ status' = [status EXCEPT ![j.run] = "failed"]
          /\ retryable' = [retryable EXCEPT ![j.run] = TRUE]
     ELSE UNCHANGED <<status, retryable>>
  /\ Consumed(j)
  /\ UNCHANGED <<attempt, recoveries, expired, disabled, outbox, command,
                 worker, scan, resumed>>

-----------------------------------------------------------------------------
(* An executing worker.  Every update it makes is fenced by Owns.          *)

\* Mutant: the account is not checked again.
MayPublishForAnyone(w) == Owns(w) /\ ~expired[worker[w].job.run]

\* The conditions checked under the workspace, documents and execution locks
\* and again by the update that publishes the result.
MayPublish(w) ==
  /\ Owns(w)
  /\ ~expired[worker[w].job.run]
  /\ OwnerOf[worker[w].job.run] \notin disabled

CompleteRun(w, result) ==
  /\ worker[w].pc = "executing"
  /\ WorkspaceFree(worker[w].job.run)
  /\ MayPublish(w)
  /\ status' = [status EXCEPT ![worker[w].job.run] = result]
  /\ FinishJob(w)
  /\ UNCHANGED <<attempt, recoveries, retryable, expired, disabled, outbox,
                 command, scan, resumed, faults>>

\* An exception in the execution or its heartbeat: source changed, permission
\* revoked and budget exhausted are not retryable, other failures are.
FailRun(w, again) ==
  /\ worker[w].pc = "executing"
  /\ Owns(w)
  /\ status' = [status EXCEPT ![worker[w].job.run] = "failed"]
  /\ retryable' = [retryable EXCEPT ![worker[w].job.run] = again]
  /\ FinishJob(w)
  /\ UNCHANGED <<attempt, recoveries, expired, disabled, outbox, command, scan,
                 resumed, faults>>

\* Timeout, drain, or a heartbeat that cannot reach the database.
InterruptRun(w) ==
  /\ worker[w].pc = "executing"
  /\ Owns(w)
  /\ status' = [status EXCEPT ![worker[w].job.run] = "interrupted"]
  /\ retryable' = [retryable EXCEPT ![worker[w].job.run] = TRUE]
  /\ FinishJob(w)
  /\ UNCHANGED <<attempt, recoveries, expired, disabled, outbox, command, scan,
                 resumed, faults>>

\* The heartbeat or a fenced write finds another owner and the worker stops.
LoseExecution(w) ==
  /\ worker[w].pc = "executing"
  /\ ~Owns(w)
  /\ FinishJob(w)
  /\ UNCHANGED <<runVars, disabled, outbox, command, scan, resumed, faults>>

\* ARQ cancels the task of a marked job; a job not yet started is dropped.
AbortTask(w) ==
  /\ worker[w].pc = "executing"
  /\ JobId(worker[w].job) \in marks
  /\ status' = IF Owns(w)
               THEN [status EXCEPT ![worker[w].job.run] = "interrupted"]
               ELSE status
  /\ FinishJob(w)
  /\ UNCHANGED <<attempt, recoveries, retryable, expired, disabled, outbox,
                 command, scan, resumed, faults>>

DropMarkedJob(j) ==
  /\ Available(j)
  /\ JobId(j) \in marks
  /\ Consumed(j)
  /\ UNCHANGED <<runVars, disabled, outbox, command, worker, scan, resumed,
                 faults>>

\* The process dies; ARQ hands the unfinished job out again later.
CrashWorker(w) ==
  /\ worker[w] # Idle
  /\ Fault
  /\ worker' = [worker EXCEPT ![w] = Idle]
  /\ UNCHANGED <<runVars, disabled, outbox, command, jobs, marks, scan,
                 resumed>>

\* Redis loses a job nobody is executing.
LoseJob(j) ==
  /\ Available(j)
  /\ Fault
  /\ jobs' = jobs \ {j}
  /\ UNCHANGED <<runVars, disabled, outbox, command, marks, worker, scan,
                 resumed>>

-----------------------------------------------------------------------------
(* Time and the recovery loop of an agent replica.                         *)

ExpireRun(r) ==
  /\ status[r] # "absent"
  /\ ~expired[r]
  /\ expired' = [expired EXCEPT ![r] = TRUE]
  /\ UNCHANGED <<status, attempt, recoveries, retryable, disabled, outbox,
                 command, jobs, marks, worker, scan, resumed, faults>>

\* No heartbeat for RUN_STALE_SECONDS.  The worker may be dead or only slow.
InterruptStale(r) ==
  /\ status[r] = "running"
  /\ status' = [status EXCEPT ![r] = "interrupted"]
  /\ UNCHANGED <<attempt, recoveries, retryable, expired, disabled, outbox,
                 command, jobs, marks, worker, scan, resumed, faults>>

\* Mutant: interrupted runs are not read.
ReadQueuedRow(r) ==
  IF status[r] = "queued"
  THEN [status |-> status[r], recoveries |-> recoveries[r],
        resume |-> attempt[r] > 0]
  ELSE None

ReadRow(r) ==
  IF status[r] \in Waiting
  THEN [status |-> status[r], recoveries |-> recoveries[r],
        resume |-> status[r] = "interrupted" \/ attempt[r] > 0]
  ELSE None

NoRows == [r \in Runs |-> None]

BeginScan(p) ==
  /\ scan[p] = NoRows
  /\ WaitingRuns # {}
  /\ scan' = [scan EXCEPT ![p] = [r \in Runs |-> ReadRow(r)]]
  /\ UNCHANGED <<runVars, disabled, outbox, command, jobs, marks, worker,
                 resumed, faults>>

\* The loop handles its rows one by one, in the order the query returned them: a
\* row it has requeued is enqueued before it turns to another.
Handles(p, r) ==
  /\ scan[p][r] # None
  /\ \A q \in Runs \ {r} : scan[p][q] # None => scan[p][q].status # "requeued"

RowDone(p, r) == scan' = [scan EXCEPT ![p][r] = None]

\* Mutant: one recovery too many.
RowExhaustedLate(p, r) ==
  \/ scan[p][r].status # "requeued" /\ expired[r]
  \/ scan[p][r].status = "interrupted" /\ scan[p][r].recoveries > MaxRecoveries

RowExhausted(p, r) ==
  \/ /\ scan[p][r].status # "requeued"
     /\ expired[r]
  \/ /\ scan[p][r].status = "interrupted"
     /\ scan[p][r].recoveries >= MaxRecoveries

ExhaustRow(p, r) ==
  /\ Handles(p, r)
  /\ RowExhausted(p, r)
  /\ Exhausted(r)
  /\ RowDone(p, r)
  /\ UNCHANGED <<attempt, recoveries, expired, disabled, outbox, command, jobs,
                 marks, worker, resumed, faults>>

\* Mutant: the update has no status predicate.
RecoveriesUnchanged(p, r) == recoveries[r] = scan[p][r].recoveries

\* The compare-and-swap that puts an interrupted run back in the queue.
RowUnchanged(p, r) ==
  /\ status[r] = "interrupted"
  /\ recoveries[r] = scan[p][r].recoveries

RequeueRow(p, r) ==
  /\ Handles(p, r)
  /\ scan[p][r].status = "interrupted"
  /\ ~RowExhausted(p, r)
  /\ RowUnchanged(p, r)
  /\ ~ThreadBusy(r)
  /\ status' = [status EXCEPT ![r] = "queued"]
  /\ recoveries' = [recoveries EXCEPT ![r] = @ + 1]
  /\ scan' = [scan EXCEPT ![p][r] = [status |-> "requeued",
                                     resume |-> scan[p][r].resume,
                                     recoveries |-> scan[p][r].recoveries]]
  /\ UNCHANGED <<attempt, retryable, expired, disabled, outbox, command, jobs,
                 marks, worker, resumed, faults>>

SkipRow(p, r) ==
  /\ Handles(p, r)
  /\ scan[p][r].status = "interrupted"
  /\ ~RowExhausted(p, r)
  /\ ~RowUnchanged(p, r)
  /\ RowDone(p, r)
  /\ UNCHANGED <<runVars, disabled, outbox, command, jobs, marks, worker,
                 resumed, faults>>

\* The thread index makes the update raise; the loop ends with rows unread.
AbortScan(p, r) ==
  /\ Handles(p, r)
  /\ scan[p][r].status = "interrupted"
  /\ ~RowExhausted(p, r)
  /\ RowUnchanged(p, r)
  /\ ThreadBusy(r)
  /\ scan' = [scan EXCEPT ![p] = NoRows]
  /\ UNCHANGED <<runVars, disabled, outbox, command, jobs, marks, worker,
                 resumed, faults>>

\* schedule() reads the attempt anew and does not look at the status again.
EnqueueRow(p, r) ==
  /\ Handles(p, r)
  /\ scan[p][r].status # "interrupted"
  /\ ~RowExhausted(p, r)
  /\ jobs' = WithJob(r, scan[p][r].resume)
  /\ RowDone(p, r)
  /\ UNCHANGED <<runVars, disabled, outbox, command, marks, worker, resumed,
                 faults>>

RestartReplica(p) ==
  /\ scan[p] # NoRows
  /\ Fault
  /\ scan' = [scan EXCEPT ![p] = NoRows]
  /\ UNCHANGED <<runVars, disabled, outbox, command, jobs, marks, worker,
                 resumed>>

-----------------------------------------------------------------------------
UserStep ==
  \/ \E r \in Runs : CreateRun(r) \/ CancelRun(r) \/ AdminCancelRun(r)
                     \/ BeginResume(r)
  \/ \E u \in Accounts : DisableAccount(u) \/ EnableAccount(u)

OutboxStep ==
  \E c \in outbox : DeliverSchedule(c) \/ DeliverAbort(c) \/ DeadLetterCommand(c)

TakeJob(w) ==
  \E j \in jobs : \/ BeginClaim(w, j) \/ RefuseClaim(w, j)
                  \/ ClaimExpired(w, j) \/ ClaimDisabled(w, j)

LeaveRun(w) ==
  \/ \E result \in Finished \union {"failed"} : CompleteRun(w, result)
  \/ \E again \in BOOLEAN : FailRun(w, again)
  \/ InterruptRun(w) \/ LoseExecution(w) \/ AbortTask(w)

WorkerStep(w) ==
  \/ TakeJob(w)
  \/ AdmitClaim(w) \/ AbandonClaim(w)
  \/ LeaveRun(w)
  \/ \E j \in jobs : DropJob(w, j) \/ ClaimRaises(w, j)
  \/ CrashWorker(w)

ScanRow(p) ==
  \E r \in Runs : \/ ExhaustRow(p, r) \/ RequeueRow(p, r) \/ SkipRow(p, r)
                  \/ AbortScan(p, r) \/ EnqueueRow(p, r)

Next ==
  \/ UserStep
  \/ CommitResume
  \/ OutboxStep
  \/ \E w \in Workers : WorkerStep(w)
  \/ \E j \in jobs : DropMarkedJob(j) \/ LoseJob(j)
  \/ \E r \in Runs : ExpireRun(r) \/ InterruptStale(r)
  \/ \E p \in Replicas : BeginScan(p) \/ ScanRow(p) \/ RestartReplica(p)

Spec == Init /\ [][Next]_vars

\* A run whose worker is gone is found by its heartbeat.
Orphaned(r) == \A w \in Workers : worker[w].pc = "executing"
                                   => ~(worker[w].job.run = r /\ Owns(w))

\* Commits, the two loops, ARQ's polling, and the time limit of every
\* execution.  Nothing is assumed of users, of outbox deliveries or of faults.
Fairness ==
  /\ WF_vars(CommitResume)
  /\ \A w \in Workers : /\ WF_vars(TakeJob(w))
                        /\ WF_vars(AdmitClaim(w) \/ AbandonClaim(w))
                        /\ WF_vars(LeaveRun(w))
  /\ \A p \in Replicas : WF_vars(BeginScan(p)) /\ WF_vars(ScanRow(p))
  /\ \A r \in Runs : WF_vars(Orphaned(r) /\ InterruptStale(r))

FairSpec == Spec /\ Fairness

-----------------------------------------------------------------------------
(* Safety.                                                                 *)

\* The platform and workspace counts read by a claim still hold when its
\* update runs, so that neither limit is exceeded by concurrent claims.
RunningWithinLimits ==
  /\ Cardinality(Running) <= PlatformLimit
  /\ \A s \in Workspaces : Cardinality(RunningIn(s)) <= WorkspaceLimit

\* Interruptions can lift the waiting runs above max_queued_runs, but never by
\* more than the runs that may execute: create and resume count both kinds.
AdmissionBounded == Cardinality(ActiveRuns) <= MaxQueued + PlatformLimit

\* No run is recovered automatically more than max_job_retries times, although
\* several recovery loops act on rows they read before the run was recovered,
\* executed and interrupted again.
RecoveriesBounded == \A r \in Runs : recoveries[r] <= MaxRecoveries

\* Duplicate jobs, redelivery after a crash and recovery never make two workers
\* execute the same attempt, and no worker is ahead of the table.
OneExecutorPerAttempt ==
  \A v, w \in Workers :
    /\ worker[v].pc = "executing"
         => worker[v].attempt \in 1..attempt[worker[v].job.run]
    /\ (/\ v # w
        /\ worker[v].pc = "executing" /\ worker[w].pc = "executing"
        /\ worker[v].job.run = worker[w].job.run)
         => worker[v].attempt # worker[w].attempt

\* A delayed abort never names a job that has yet to run or the attempt that is
\* running now: it stops only the execution that was cancelled.
AbortSparesLiveAttempt ==
  \A m \in marks : /\ m[2] <= attempt[m[1]]
                   /\ status[m[1]] = "running" => m[2] # attempt[m[1]]

\* A completed or insufficient run is never changed again, not even by a resume
\* that read the run before it was claimed and completed.
FinishedIsFinal ==
  [][\A r \in Runs : status[r] \in Finished => status'[r] = status[r]]_vars

\* A report is published only by the worker of the attempt the table holds: the
\* late result of a replaced worker never shows.
OnlyOwnerPublishes ==
  [][\A r \in Runs : status'[r] \in Finished /\ status[r] # status'[r]
       => /\ status[r] = "running"
          /\ \E w \in Workers : /\ worker[w].pc = "executing"
                                /\ worker[w].job.run = r
                                /\ worker[w].attempt = attempt[r]
                                /\ worker'[w] = Idle]_vars

\* No report of a disabled account is published, even when an administrator
\* resumed the run between the claim's account check and its update.
DisabledAccountPublishesNothing ==
  [][\A r \in Runs : status'[r] \in Finished /\ status[r] # status'[r]
       => OwnerOf[r] \notin disabled]_vars

\* Once cancelled, a run is brought back only by the commit of a user's resume,
\* never by recovery, a late worker or a redelivered command.
CancelledStaysCancelled ==
  [][\A r \in Runs : status[r] = "cancelled" /\ status'[r] # "cancelled"
       => /\ status'[r] = "queued"
          /\ command # None /\ command' = None /\ command.run = r]_vars

\* The table the components share keeps the promises of RunLedger.
Ledger == INSTANCE RunLedger WITH
  Concurrency <- PlatformLimit, Capacity <- MaxQueued + PlatformLimit
LedgerSpec == Ledger!Spec

(* Liveness.                                                               *)

\* Whatever is lost in Redis, in the outbox or with a worker, the recovery loop
\* brings every run to an end.
EveryRunSettles ==
  \A r \in Runs : status[r] \in Active ~> status[r] \notin Active

-----------------------------------------------------------------------------
(* Stated by documentation or comments, and not kept by the code.          *)

\* docs/java-python-ownership.md: status updates carry a condition, so that
\* cancel, resume and results do not overwrite each other.  A resume changes
\* the status it read.
ResumeActsOnWhatItRead ==
  [][command # None /\ command' = None /\ resumed' # resumed
       => status[command.run] = command.seen]_vars

=============================================================================
