-------------------------- MODULE ResearchRunsProofs --------------------------
(***************************************************************************)
(* Theorems about ResearchRuns for every number of runs, workers and       *)
(* replicas, and every limit.                                              *)
(***************************************************************************)
EXTENDS ResearchRuns, FiniteSetTheorems, TLAPS

\* Every record of a slot that is not idle holds a job.
LEMMA BusySlot ==
  ASSUME TypeOK, NEW w \in Workers, worker[w].pc \in {"claiming", "executing"}
  PROVE  /\ worker[w].job \in Job
         /\ worker[w].job.run \in Runs
         /\ worker[w].attempt \in Nat
         /\ worker[w] # Idle
  BY DEF TypeOK, Idle, Job

\* The limits are numbers.
LEMMA Limits == PlatformLimit \in Nat /\ WorkspaceLimit \in Nat /\ MaxQueued \in Nat
  BY ConstantsAssumption

\* Enqueuing a job leaves a set of jobs.
LEMMA WithJobType ==
  ASSUME TypeOK, NEW r \in Runs, NEW resume \in BOOLEAN
  PROVE  WithJob(r, resume) \subseteq Job
  BY DEF TypeOK, WithJob, Job

\* The users' commands keep the types.
LEMMA UserTypes == ASSUME TypeOK, UserStep PROVE TypeOK'
<1>1. ASSUME NEW r \in Runs, CreateRun(r) PROVE TypeOK'
  BY <1>1, ConstantsAssumption
     DEF TypeOK, CreateRun, WithCommand, Command, Statuses, Active
<1>2. ASSUME NEW S \in SUBSET Runs, StopRuns(S),
             UNCHANGED <<attempt, recoveries, retryable, expired, command, jobs,
                         marks, worker, scan, resumed, faults>>,
             disabled' \subseteq Accounts
      PROVE  TypeOK'
  BY <1>2 DEF TypeOK, StopRuns, WithAborts, Command, Statuses
<1>3. ASSUME NEW r \in Runs, CancelRun(r) \/ AdminCancelRun(r) PROVE TypeOK'
  <2>1. StopRuns({r}) /\ disabled' \subseteq Accounts
    BY <1>3 DEF CancelRun, AdminCancelRun, TypeOK
  <2> QED BY <1>2, <1>3, <2>1 DEF CancelRun, AdminCancelRun
<1>4. ASSUME NEW u \in Accounts, DisableAccount(u) PROVE TypeOK'
  <2>1. disabled' \subseteq Accounts
    BY <1>4 DEF DisableAccount, TypeOK
  <2> QED BY <1>2, <1>4, <2>1 DEF DisableAccount, ActiveRuns
<1>5. ASSUME NEW u \in Accounts, EnableAccount(u) PROVE TypeOK'
  BY <1>5 DEF EnableAccount, TypeOK, runVars
<1>6. ASSUME NEW r \in Runs, BeginResume(r) PROVE TypeOK'
  BY <1>6 DEF BeginResume, TypeOK, runVars, Resumption, Resumable
<1> QED BY <1>1, <1>3, <1>4, <1>5, <1>6 DEF UserStep

\* So do the commit of a resume and the endpoints the outbox calls.
LEMMA CommandTypes == ASSUME TypeOK, CommitResume \/ OutboxStep PROVE TypeOK'
<1>1. ASSUME CommitResume PROVE TypeOK'
  <2>1. command \in Resumption
    BY <1>1 DEF CommitResume, TypeOK
  <2> QED BY <1>1, <2>1 DEF CommitResume, TypeOK, WithCommand, Command, Statuses,
                            Active, Resumption
<1>2. ASSUME NEW c \in outbox, DeliverSchedule(c) PROVE TypeOK'
  <2>1. c \in Command /\ outbox' \subseteq outbox
    BY <1>2 DEF DeliverSchedule, Recorded, TypeOK
  <2>2. jobs' \subseteq Job
    <3>1. c.run \in Runs
      BY <2>1 DEF Command
    <3>2. WithJob(c.run, c.type = "resume") \subseteq Job
      BY <3>1, WithJobType
    <3> QED BY <1>2, <3>2 DEF DeliverSchedule, TypeOK
  <2> QED BY <1>2, <2>1, <2>2 DEF DeliverSchedule, TypeOK, runVars
<1>3. ASSUME NEW c \in outbox, DeliverAbort(c) PROVE TypeOK'
  <2>1. c \in Command /\ outbox' \subseteq outbox
    BY <1>3 DEF DeliverAbort, Recorded, TypeOK
  <2>2. marks' \subseteq Runs \X Nat
    BY <1>3, <2>1 DEF DeliverAbort, AbortedJob, Command, TypeOK
  <2> QED BY <1>3, <2>1, <2>2 DEF DeliverAbort, TypeOK, runVars
<1>4. ASSUME NEW c \in outbox, DeadLetterCommand(c) PROVE TypeOK'
  BY <1>4 DEF DeadLetterCommand, Fault, TypeOK, runVars
<1> QED BY <1>1, <1>2, <1>3, <1>4 DEF OutboxStep

\* So does every step of a worker and of the job queue.
LEMMA WorkerTypes ==
  ASSUME TypeOK, NEW w \in Workers, WorkerStep(w) PROVE TypeOK'
<1>1. ASSUME NEW j \in jobs, BeginClaim(w, j) PROVE TypeOK'
  BY <1>1 DEF BeginClaim, TypeOK, runVars
<1>2. ASSUME NEW j \in jobs, RefuseClaim(w, j) PROVE TypeOK'
  BY <1>2 DEF RefuseClaim, Consumed, TypeOK, runVars
<1>3. ASSUME NEW j \in jobs, ClaimExpired(w, j) PROVE TypeOK'
  BY <1>3 DEF ClaimExpired, Consumed, Exhausted, TypeOK, Statuses, Job
<1>4. ASSUME NEW j \in jobs, ClaimDisabled(w, j) PROVE TypeOK'
  BY <1>4 DEF ClaimDisabled, Consumed, TypeOK, Statuses, Job
<1>5. ASSUME AdmitClaim(w) PROVE TypeOK'
  <2>1. worker[w] \in [pc : {"claiming", "executing"}, job : Job, attempt : Nat]
    BY <1>5 DEF AdmitClaim, TypeOK, Idle
  <2> DEFINE r == worker[w].job.run
  <2>2. r \in Runs /\ NextAttempt(r) \in Nat
    BY <2>1 DEF TypeOK, Job, NextAttempt
  <2>3. worker' \in [Workers -> {Idle} \union
          [pc : {"claiming", "executing"}, job : Job, attempt : Nat]]
    BY <1>5, <2>1, <2>2 DEF AdmitClaim, TypeOK
  <2> QED BY <1>5, <2>2, <2>3 DEF AdmitClaim, TypeOK, Statuses, Active
<1>6. ASSUME AbandonClaim(w) PROVE TypeOK'
  BY <1>6 DEF AbandonClaim, FinishJob, Consumed, TypeOK, runVars
<1>7. ASSUME LeaveRun(w) PROVE TypeOK'
  <2>1. worker[w].pc = "executing" /\ FinishJob(w)
    BY <1>7 DEF LeaveRun, CompleteRun, FailRun, InterruptRun, LoseExecution, AbortTask
  <2>2. worker[w].job.run \in Runs
    BY <2>1, BusySlot
  <2>3. worker' \in [Workers -> {Idle} \union
          [pc : {"claiming", "executing"}, job : Job, attempt : Nat]]
    BY <2>1 DEF FinishJob, TypeOK
  <2>4. jobs' \subseteq Job /\ marks' \subseteq Runs \X Nat
    BY <2>1 DEF FinishJob, Consumed, TypeOK
  <2>5. status' \in [Runs -> Statuses] /\ retryable' \in [Runs -> BOOLEAN]
    BY <1>7, <2>2 DEF LeaveRun, CompleteRun, FailRun, InterruptRun, LoseExecution,
                      AbortTask, TypeOK, Statuses, Finished, Active, runVars
  <2>6. UNCHANGED <<attempt, recoveries, expired, disabled, outbox, command, scan,
                    resumed, faults>>
    BY <1>7 DEF LeaveRun, CompleteRun, FailRun, InterruptRun, LoseExecution,
                AbortTask, runVars
  <2> QED BY <2>3, <2>4, <2>5, <2>6 DEF TypeOK
<1>8. ASSUME NEW j \in jobs, DropJob(w, j) PROVE TypeOK'
  BY <1>8 DEF DropJob, Fault, Consumed, TypeOK, runVars
<1>9. ASSUME NEW j \in jobs, ClaimRaises(w, j) PROVE TypeOK'
  <2>1. j \in Job /\ jobs' \subseteq Job /\ marks' \subseteq Runs \X Nat
    BY <1>9 DEF ClaimRaises, Consumed, TypeOK
  <2>2. status' \in [Runs -> Statuses] /\ retryable' \in [Runs -> BOOLEAN]
    BY <1>9, <2>1 DEF ClaimRaises, TypeOK, Statuses, Job
  <2> QED BY <1>9, <2>1, <2>2 DEF ClaimRaises, Fault, TypeOK
<1>10. ASSUME CrashWorker(w) PROVE TypeOK'
  BY <1>10 DEF CrashWorker, Fault, TypeOK, runVars
<1> QED BY <1>1, <1>2, <1>3, <1>4, <1>5, <1>6, <1>7, <1>8, <1>9, <1>10
           DEF WorkerStep, TakeJob

\* So do the loss of a job, the clock and the recovery loop.
LEMMA RecoveryTypes ==
  ASSUME TypeOK, NEW p \in Replicas, BeginScan(p) \/ ScanRow(p) \/ RestartReplica(p)
  PROVE  TypeOK'
<1> DEFINE Rows == [Runs -> Row \union {None}]
<1>1. ASSUME NEW r \in Runs PROVE ReadRow(r) \in Row \union {None}
  BY DEF ReadRow, Row, Waiting, TypeOK
<1>2. ASSUME NEW r \in Runs, RowDone(p, r) PROVE scan' \in [Replicas -> Rows]
  BY <1>2 DEF RowDone, TypeOK
<1>3. ASSUME BeginScan(p) PROVE TypeOK'
  <2>1. [r \in Runs |-> ReadRow(r)] \in Rows
    BY <1>1
  <2> QED BY <1>3, <2>1 DEF BeginScan, TypeOK, runVars
<1>4. ASSUME NEW r \in Runs, ExhaustRow(p, r) PROVE TypeOK'
  BY <1>2, <1>4 DEF ExhaustRow, Exhausted, TypeOK, Statuses
<1>5. ASSUME NEW r \in Runs, RequeueRow(p, r) PROVE TypeOK'
  <2>1. scan[p][r] \in Row
    BY <1>5 DEF RequeueRow, Handles, TypeOK
  <2>2. scan' \in [Replicas -> Rows]
    BY <1>5, <2>1 DEF RequeueRow, TypeOK, Row
  <2> QED BY <1>5, <2>2 DEF RequeueRow, TypeOK, Statuses, Active
<1>6. ASSUME NEW r \in Runs, SkipRow(p, r) PROVE TypeOK'
  BY <1>2, <1>6 DEF SkipRow, TypeOK, runVars
<1>7. ASSUME NEW r \in Runs, AbortScan(p, r) PROVE TypeOK'
  BY <1>7 DEF AbortScan, NoRows, TypeOK, runVars
<1>8. ASSUME NEW r \in Runs, EnqueueRow(p, r) PROVE TypeOK'
  <2>1. scan[p][r] \in Row
    BY <1>8 DEF EnqueueRow, Handles, TypeOK
  <2>2. jobs' \subseteq Job
    BY <1>8, <2>1, WithJobType DEF EnqueueRow, Row
  <2> QED BY <1>2, <1>8, <2>2 DEF EnqueueRow, TypeOK, runVars
<1>9. ASSUME RestartReplica(p) PROVE TypeOK'
  BY <1>9 DEF RestartReplica, Fault, NoRows, TypeOK, runVars
<1> QED BY <1>3, <1>4, <1>5, <1>6, <1>7, <1>8, <1>9 DEF ScanRow

\* TypeOK is an invariant: every reachable state of the tables, the queue and
\* the processes has the types of TypeOK.
THEOREM TypeCorrect == Spec => []TypeOK
<1>1. Init => TypeOK
  BY ConstantsAssumption DEF Init, TypeOK, Statuses
<1>2. TypeOK /\ [Next]_vars => TypeOK'
  <2> SUFFICES ASSUME TypeOK, [Next]_vars PROVE TypeOK'
    OBVIOUS
  <2>1. CASE UNCHANGED vars
    BY <2>1 DEF vars, TypeOK
  <2>2. ASSUME NEW j \in jobs, DropMarkedJob(j) \/ LoseJob(j) PROVE TypeOK'
    BY <2>2 DEF DropMarkedJob, LoseJob, Consumed, Fault, TypeOK, runVars
  <2>3. ASSUME NEW r \in Runs, ExpireRun(r) \/ InterruptStale(r) PROVE TypeOK'
    BY <2>3 DEF ExpireRun, InterruptStale, TypeOK, Statuses, Active
  <2> QED BY <2>1, <2>2, <2>3, UserTypes, CommandTypes, WorkerTypes, RecoveryTypes
             DEF Next
<1> QED BY <1>1, <1>2, PTL DEF Spec

-----------------------------------------------------------------------------
(* How the status of one run may change, and by whose step.                *)

Moves(r) ==
  \/ CreateRun(r)
  \/ status[r] \in Active /\ status'[r] \in {"cancelled", "failed"}
  \/ status[r] = "running" /\ status'[r] = "interrupted"
  \/ status[r] = "interrupted" /\ status'[r] = "queued"
  \/ command # None /\ command' = None /\ command.run = r /\ status'[r] = "queued"
  \/ \E w \in Workers : AdmitClaim(w) /\ worker[w].job.run = r
  \/ \E w \in Workers : \E result \in Finished :
       CompleteRun(w, result) /\ worker[w].job.run = r

\* A user's step creates or cancels.
LEMMA UserMoves ==
  ASSUME TypeOK, UserStep, NEW r \in Runs, status'[r] # status[r]
  PROVE  Moves(r)
<1>1. ASSUME NEW q \in Runs, CreateRun(q) PROVE Moves(r)
  BY <1>1 DEF CreateRun, TypeOK, Moves
<1>2. ASSUME NEW q \in Runs, CancelRun(q) \/ AdminCancelRun(q) PROVE Moves(r)
  BY <1>2 DEF CancelRun, AdminCancelRun, StopRuns, TypeOK, Moves
<1>3. ASSUME NEW u \in Accounts, DisableAccount(u) PROVE Moves(r)
  BY <1>3 DEF DisableAccount, StopRuns, ActiveRuns, TypeOK, Moves
<1>4. ASSUME NEW u \in Accounts, EnableAccount(u) PROVE Moves(r)
  BY <1>4 DEF EnableAccount, runVars
<1>5. ASSUME NEW q \in Runs, BeginResume(q) PROVE Moves(r)
  BY <1>5 DEF BeginResume, runVars
<1> QED BY <1>1, <1>2, <1>3, <1>4, <1>5 DEF UserStep

\* The commit of a resume moves its run, a delivery none.
LEMMA CommandMoves ==
  ASSUME TypeOK, CommitResume \/ OutboxStep, NEW r \in Runs,
         status'[r] # status[r]
  PROVE  Moves(r)
<1>1. CASE CommitResume
  <2>1. command # None /\ command' = None /\ command.run \in Runs
    BY <1>1 DEF CommitResume, TypeOK, Resumption
  <2>2. status' = [status EXCEPT ![command.run] = "queued"]
    BY <1>1 DEF CommitResume
  <2> QED BY <2>1, <2>2 DEF TypeOK, Moves
<1>2. CASE OutboxStep
  BY <1>2 DEF OutboxStep, DeliverSchedule, DeliverAbort, DeadLetterCommand, runVars
<1> QED BY <1>1, <1>2

\* A worker moves the run of its job.
LEMMA WorkerMoves ==
  ASSUME TypeOK, NEW w \in Workers, WorkerStep(w), NEW r \in Runs,
         status'[r] # status[r]
  PROVE  Moves(r)
<1>1. ASSUME NEW j \in jobs, ClaimExpired(w, j) \/ ClaimDisabled(w, j) PROVE Moves(r)
  <2>1. j.run \in Runs /\ status[j.run] \in Waiting
    BY <1>1 DEF ClaimExpired, ClaimDisabled, Claimable, Eligible, Waiting, TypeOK, Job
  <2> QED BY <1>1, <2>1 DEF ClaimExpired, ClaimDisabled, Exhausted, Waiting, Active,
                            TypeOK, Moves
<1>2. ASSUME NEW j \in jobs, ClaimRaises(w, j) PROVE Moves(r)
  <2>1. j.run \in Runs
    BY <1>2 DEF TypeOK, Job
  <2> QED BY <1>2, <2>1 DEF ClaimRaises, Active, TypeOK, Moves
<1>3. CASE AdmitClaim(w)
  <2>1. worker[w].job.run \in Runs /\ worker[w].job.run = r
    BY <1>3, BusySlot DEF AdmitClaim, TypeOK
  <2> QED BY <1>3, <2>1 DEF Moves
<1>4. CASE LeaveRun(w)
  <2>1. worker[w].pc = "executing" /\ worker[w].job.run \in Runs
    BY <1>4, BusySlot DEF LeaveRun, CompleteRun, FailRun, InterruptRun,
                          LoseExecution, AbortTask
  <2>2. worker[w].job.run = r /\ status[r] = "running"
    BY <1>4, <2>1 DEF LeaveRun, CompleteRun, FailRun, InterruptRun, LoseExecution,
                      AbortTask, MayPublish, Owns, runVars, TypeOK
  <2>3. ASSUME NEW result \in Finished \union {"failed"}, CompleteRun(w, result)
        PROVE  Moves(r)
    BY <2>1, <2>2, <2>3 DEF CompleteRun, Active, Moves, TypeOK
  <2>4. ASSUME NEW again \in BOOLEAN, FailRun(w, again) PROVE Moves(r)
    BY <2>1, <2>2, <2>4 DEF FailRun, Active, Moves, TypeOK
  <2>5. ASSUME InterruptRun(w) \/ LoseExecution(w) \/ AbortTask(w) PROVE Moves(r)
    BY <2>1, <2>2, <2>5 DEF InterruptRun, LoseExecution, AbortTask, Moves, TypeOK,
                            runVars
  <2> QED BY <1>4, <2>3, <2>4, <2>5 DEF LeaveRun
<1>5. ASSUME NEW j \in jobs, BeginClaim(w, j) \/ RefuseClaim(w, j) \/ DropJob(w, j)
      PROVE  Moves(r)
  BY <1>5 DEF BeginClaim, RefuseClaim, DropJob, runVars
<1>6. CASE AbandonClaim(w) \/ CrashWorker(w)
  BY <1>6 DEF AbandonClaim, CrashWorker, runVars
<1> QED BY <1>1, <1>2, <1>3, <1>4, <1>5, <1>6 DEF WorkerStep, TakeJob

\* Every change of a status is one of Moves.
LEMMA StatusMoves ==
  ASSUME TypeOK, [Next]_vars, NEW r \in Runs, status'[r] # status[r]
  PROVE  Moves(r)
<1>1. ASSUME NEW p \in Replicas, BeginScan(p) \/ ScanRow(p) \/ RestartReplica(p)
      PROVE  Moves(r)
  <2>1. ASSUME NEW q \in Runs, ExhaustRow(p, q) PROVE Moves(r)
    BY <2>1 DEF ExhaustRow, Exhausted, Waiting, Active, TypeOK, Moves
  <2>2. ASSUME NEW q \in Runs, RequeueRow(p, q) PROVE Moves(r)
    BY <2>2 DEF RequeueRow, RowUnchanged, TypeOK, Moves
  <2> QED BY <1>1, <2>1, <2>2 DEF ScanRow, BeginScan, RestartReplica, SkipRow,
                                  AbortScan, EnqueueRow, runVars
<1>2. ASSUME NEW q \in Runs, ExpireRun(q) \/ InterruptStale(q) PROVE Moves(r)
  BY <1>2 DEF ExpireRun, InterruptStale, TypeOK, Moves
<1>3. ASSUME NEW j \in jobs, DropMarkedJob(j) \/ LoseJob(j) PROVE Moves(r)
  BY <1>3 DEF DropMarkedJob, LoseJob, runVars
<1>4. Next
  BY DEF vars
<1> QED BY <1>1, <1>2, <1>3, <1>4, UserMoves, CommandMoves, WorkerMoves DEF Next

-----------------------------------------------------------------------------
(* A finished run stays finished.  The workspace lock is what makes it so:  *)
(* while a resume is open no worker of its workspace can publish.          *)

Unresumable == Finished \union {"absent"}
ResumeSparesFinished == command # None => status[command.run] \notin Unresumable

FinalInv == TypeOK /\ ResumeSparesFinished

\* An open resume stays, commits, or is the one a user just began.
LEMMA CommandSteps ==
  ASSUME TypeOK, [Next]_vars
  PROVE  \/ command' = command
         \/ CommitResume /\ command' = None
         \/ \E r \in Runs : BeginResume(r)
<1>2. ASSUME NEW w \in Workers, WorkerStep(w) PROVE command' = command
  BY <1>2 DEF WorkerStep, TakeJob, LeaveRun, BeginClaim, RefuseClaim, ClaimExpired,
              ClaimDisabled, AdmitClaim, AbandonClaim, DropJob, ClaimRaises,
              CrashWorker, CompleteRun, FailRun, InterruptRun, LoseExecution, AbortTask
<1>3. ASSUME UserStep PROVE command' = command \/ \E r \in Runs : BeginResume(r)
  BY <1>3 DEF UserStep, CreateRun, CancelRun, AdminCancelRun, DisableAccount,
              EnableAccount
<1>4. ASSUME NEW p \in Replicas, BeginScan(p) \/ ScanRow(p) \/ RestartReplica(p)
      PROVE  command' = command
  BY <1>4 DEF BeginScan, ScanRow, RestartReplica, ExhaustRow, RequeueRow, SkipRow,
              AbortScan, EnqueueRow
<1>5. ASSUME CommitResume PROVE command' = None
  BY <1>5 DEF CommitResume
<1>6. ASSUME OutboxStep \/ (\E j \in jobs : DropMarkedJob(j) \/ LoseJob(j))
               \/ (\E r \in Runs : ExpireRun(r) \/ InterruptStale(r))
      PROVE  command' = command
  BY <1>6 DEF OutboxStep, DeliverSchedule, DeliverAbort, DeadLetterCommand,
              DropMarkedJob, LoseJob, ExpireRun, InterruptStale
<1> QED BY <1>2, <1>3, <1>4, <1>5, <1>6 DEF Next, vars

\* A status becomes one of Finished only by the worker that completes the run.
LEMMA FinishedMoves ==
  ASSUME TypeOK, [Next]_vars, NEW r \in Runs,
         status'[r] \in Finished, status'[r] # status[r]
  PROVE  \E w \in Workers : \E result \in Finished :
           CompleteRun(w, result) /\ worker[w].job.run = r
<1>1. Moves(r)
  BY StatusMoves
<1>2. ASSUME NEW w \in Workers, AdmitClaim(w), worker[w].job.run = r
      PROVE  status'[r] = "running"
  BY <1>2 DEF AdmitClaim, TypeOK
<1> QED BY <1>1, <1>2 DEF Moves, CreateRun, TypeOK, Finished

\* No run disappears.
LEMMA NeverAbsentAgain ==
  ASSUME TypeOK, [Next]_vars, NEW r \in Runs, status[r] # "absent"
  PROVE  status'[r] # "absent"
<1> SUFFICES ASSUME status'[r] = "absent" PROVE FALSE
  OBVIOUS
<1>1. Moves(r)
  BY StatusMoves
<1>2. ASSUME NEW w \in Workers, AdmitClaim(w), worker[w].job.run = r PROVE FALSE
  BY <1>2 DEF AdmitClaim, TypeOK
<1>3. ASSUME NEW w \in Workers, NEW result \in Finished, CompleteRun(w, result),
             worker[w].job.run = r
      PROVE  FALSE
  BY <1>3 DEF CompleteRun, TypeOK, Finished
<1> QED BY <1>1, <1>2, <1>3 DEF Moves, CreateRun, TypeOK

\* The invariant holds initially and is kept by every step.
LEMMA FinalInvInductive ==
  /\ Init => FinalInv
  /\ FinalInv /\ [Next]_vars /\ TypeOK' => FinalInv'
<1>1. Init => FinalInv
  <2>1. Init => TypeOK
    BY ConstantsAssumption DEF Init, TypeOK, Statuses
  <2> QED BY <2>1 DEF Init, FinalInv, ResumeSparesFinished
<1>2. ASSUME FinalInv, [Next]_vars, TypeOK', command' # None
      PROVE  status'[command'.run] \notin Unresumable
  <2> USE <1>2
  <2>1. TypeOK
    BY DEF FinalInv
  <2>2. CASE command' = command
    <3>1. command \in Resumption /\ command.run \in Runs
      BY <2>1, <2>2 DEF TypeOK, Resumption
    <3>2. status[command.run] \notin Unresumable
      BY <2>2 DEF FinalInv, ResumeSparesFinished
    <3>3. ASSUME status'[command.run] \in Finished PROVE FALSE
      <4>1. PICK w \in Workers : \E result \in Finished :
              CompleteRun(w, result) /\ worker[w].job.run = command.run
        BY <2>1, <3>1, <3>2, <3>3, FinishedMoves DEF Unresumable
      <4>2. WorkspaceFree(command.run)
        BY <4>1 DEF CompleteRun
      <4> QED BY <2>2, <4>2 DEF WorkspaceFree
    <3> QED BY <2>1, <2>2, <3>1, <3>2, <3>3, NeverAbsentAgain DEF Unresumable
  <2>3. ASSUME NEW r \in Runs, BeginResume(r)
        PROVE  status'[command'.run] \notin Unresumable
    BY <2>1, <2>3 DEF BeginResume, Resumable, Unresumable, Finished, runVars
  <2> QED BY <2>1, <2>2, <2>3, CommandSteps
<1> QED BY <1>1, <1>2 DEF FinalInv, ResumeSparesFinished

\* ResumeSparesFinished is an invariant: no open resume has read a run that is
\* finished, or unknown, when the resume commits.
THEOREM FinalInvariant == Spec => []FinalInv
<1>1. FinalInv /\ TypeOK' /\ [Next]_vars => FinalInv'
  BY FinalInvInductive
<1> QED BY <1>1, TypeCorrect, FinalInvInductive, PTL DEF Spec

\* A completed or insufficient run is never changed again.
THEOREM FinishedStays == Spec => FinishedIsFinal
<1> DEFINE Stays == \A r \in Runs : status[r] \in Finished => status'[r] = status[r]
<1>1. FinalInv /\ [Next]_vars => [Stays]_vars
  <2> SUFFICES ASSUME FinalInv, [Next]_vars, NEW r \in Runs,
                      status[r] \in Finished, status'[r] # status[r]
               PROVE  FALSE
    OBVIOUS
  <2>1. TypeOK /\ Moves(r)
    BY StatusMoves DEF FinalInv
  <2>2. ~(command # None /\ command.run = r)
    BY DEF FinalInv, ResumeSparesFinished, Unresumable
  <2>3. ASSUME NEW w \in Workers, AdmitClaim(w), worker[w].job.run = r PROVE FALSE
    BY <2>3 DEF AdmitClaim, Admissible, Eligible, Waiting, Finished
  <2>4. ASSUME NEW w \in Workers, NEW result \in Finished,
               CompleteRun(w, result), worker[w].job.run = r
        PROVE  FALSE
    BY <2>4 DEF CompleteRun, MayPublish, Owns, Finished
  <2> QED BY <2>1, <2>2, <2>3, <2>4 DEF Moves, CreateRun, Active, Finished
<1> QED BY <1>1, FinalInvariant, PTL DEF Spec, FinishedIsFinal

\* A report is published only by the worker of the attempt the table holds, and
\* never for a disabled account.
THEOREM PublicationFenced ==
  Spec => OnlyOwnerPublishes /\ DisabledAccountPublishesNothing
<1> DEFINE Owned == \A r \in Runs : status'[r] \in Finished /\ status[r] # status'[r]
               => /\ status[r] = "running"
                  /\ \E w \in Workers : /\ worker[w].pc = "executing"
                                        /\ worker[w].job.run = r
                                        /\ worker[w].attempt = attempt[r]
                                        /\ worker'[w] = Idle
           Enabled == \A r \in Runs : status'[r] \in Finished /\ status[r] # status'[r]
               => OwnerOf[r] \notin disabled
<1>1. TypeOK /\ [Next]_vars => [Owned]_vars /\ [Enabled]_vars
  <2> SUFFICES ASSUME TypeOK, [Next]_vars, NEW r \in Runs,
                      status'[r] \in Finished, status[r] # status'[r]
               PROVE  /\ status[r] = "running"
                      /\ \E w \in Workers : /\ worker[w].pc = "executing"
                                            /\ worker[w].job.run = r
                                            /\ worker[w].attempt = attempt[r]
                                            /\ worker'[w] = Idle
                      /\ OwnerOf[r] \notin disabled
    OBVIOUS
  <2>1. PICK w \in Workers : \E result \in Finished :
          CompleteRun(w, result) /\ worker[w].job.run = r
    BY FinishedMoves
  <2>2. worker[w].pc = "executing" /\ worker[w].job.run = r /\ MayPublish(w)
    BY <2>1 DEF CompleteRun
  <2>3. worker'[w] = Idle
    BY <2>1 DEF CompleteRun, FinishJob, TypeOK
  <2> QED BY <2>2, <2>3 DEF MayPublish, Owns
<1> QED BY <1>1, TypeCorrect, PTL
           DEF Spec, OnlyOwnerPublishes, DisabledAccountPublishesNothing

\* A cancelled run is brought back only by the commit of a user's resume.
THEOREM CancelledStays == Spec => CancelledStaysCancelled
<1> DEFINE Stays == \A r \in Runs : status[r] = "cancelled" /\ status'[r] # "cancelled"
               => /\ status'[r] = "queued"
                  /\ command # None /\ command' = None /\ command.run = r
<1>1. TypeOK /\ [Next]_vars => [Stays]_vars
  <2> SUFFICES ASSUME TypeOK, [Next]_vars, NEW r \in Runs,
                      status[r] = "cancelled", status'[r] # "cancelled"
               PROVE  /\ status'[r] = "queued"
                      /\ command # None /\ command' = None /\ command.run = r
    OBVIOUS
  <2>1. Moves(r)
    BY StatusMoves
  <2>2. ASSUME NEW w \in Workers, AdmitClaim(w), worker[w].job.run = r PROVE FALSE
    BY <2>2 DEF AdmitClaim, Admissible, Eligible, Waiting
  <2>3. ASSUME NEW w \in Workers, NEW result \in Finished,
               CompleteRun(w, result), worker[w].job.run = r
        PROVE  FALSE
    BY <2>3 DEF CompleteRun, MayPublish, Owns
  <2> QED BY <2>1, <2>2, <2>3 DEF Moves, CreateRun, Active
<1> QED BY <1>1, TypeCorrect, PTL DEF Spec, CancelledStaysCancelled

-----------------------------------------------------------------------------
(* One executor per attempt.                                               *)

\* A slot is kept or emptied, unless its worker begins or is admitted a claim.
LEMMA SlotSteps ==
  ASSUME TypeOK, [Next]_vars
  PROVE  \/ attempt' = attempt /\ \A v \in Workers : worker'[v] \in {worker[v], Idle}
         \/ \E w \in Workers : AdmitClaim(w)
         \/ \E w \in Workers : \E j \in jobs : BeginClaim(w, j)
<1> DEFINE Kept == /\ attempt' = attempt
                   /\ \A v \in Workers : worker'[v] \in {worker[v], Idle}
<1>1. ASSUME attempt' = attempt, worker' = worker PROVE Kept
  BY <1>1
<1>2. ASSUME NEW w \in Workers, WorkerStep(w), ~AdmitClaim(w),
             ~ \E j \in jobs : BeginClaim(w, j)
      PROVE  Kept
  <2>1. ASSUME attempt' = attempt, worker' = [worker EXCEPT ![w] = Idle] PROVE Kept
    BY <2>1 DEF TypeOK
  <2>2. ASSUME NEW j \in jobs,
               \/ RefuseClaim(w, j) \/ ClaimExpired(w, j) \/ ClaimDisabled(w, j)
               \/ DropJob(w, j) \/ ClaimRaises(w, j)
        PROVE  Kept
    BY <1>1, <2>2 DEF RefuseClaim, ClaimExpired, ClaimDisabled, DropJob, ClaimRaises,
                      runVars
  <2>3. ASSUME AbandonClaim(w) \/ LeaveRun(w) \/ CrashWorker(w) PROVE Kept
    BY <2>1, <2>3 DEF AbandonClaim, LeaveRun, CrashWorker, CompleteRun, FailRun,
                      InterruptRun, LoseExecution, AbortTask, FinishJob, runVars
  <2> QED BY <1>2, <2>2, <2>3 DEF WorkerStep, TakeJob
<1>3. ASSUME UserStep PROVE Kept
  BY <1>1, <1>3 DEF UserStep, CreateRun, CancelRun, AdminCancelRun, DisableAccount,
                    EnableAccount, BeginResume, runVars
<1>4. ASSUME CommitResume \/ OutboxStep PROVE Kept
  BY <1>1, <1>4 DEF CommitResume, OutboxStep, DeliverSchedule, DeliverAbort,
                    DeadLetterCommand, runVars
<1>5. ASSUME NEW p \in Replicas, BeginScan(p) \/ ScanRow(p) \/ RestartReplica(p)
      PROVE  Kept
  BY <1>1, <1>5 DEF BeginScan, ScanRow, RestartReplica, ExhaustRow, RequeueRow,
                    SkipRow, AbortScan, EnqueueRow, runVars
<1>6. ASSUME \/ \E j \in jobs : DropMarkedJob(j) \/ LoseJob(j)
             \/ \E r \in Runs : ExpireRun(r) \/ InterruptStale(r)
      PROVE  Kept
  BY <1>1, <1>6 DEF DropMarkedJob, LoseJob, ExpireRun, InterruptStale, runVars
<1>7. ASSUME UNCHANGED vars PROVE Kept
  BY <1>1, <1>7 DEF vars
<1> QED BY <1>2, <1>3, <1>4, <1>5, <1>6, <1>7 DEF Next

\* No two workers execute the same attempt, and none is ahead of the table: the
\* attempt a claim takes is above the attempt of every worker that executes.
THEOREM OneExecutor == Spec => []OneExecutorPerAttempt
<1>1. Init => OneExecutorPerAttempt
  BY DEF Init, OneExecutorPerAttempt, Idle
<1>2. TypeOK /\ OneExecutorPerAttempt /\ [Next]_vars => OneExecutorPerAttempt'
  <2> SUFFICES ASSUME TypeOK, OneExecutorPerAttempt, [Next]_vars
               PROVE  OneExecutorPerAttempt'
    OBVIOUS
  <2>1. CASE attempt' = attempt /\ \A v \in Workers : worker'[v] \in {worker[v], Idle}
    <3>1. \A v \in Workers : worker'[v].pc = "executing" => worker'[v] = worker[v]
      BY <2>1 DEF Idle
    <3> QED BY <2>1, <3>1 DEF OneExecutorPerAttempt
  <2>2. ASSUME NEW w \in Workers, AdmitClaim(w) PROVE OneExecutorPerAttempt'
    <3> DEFINE q == worker[w].job.run
    <3>1. q \in Runs
      BY <2>2, BusySlot DEF AdmitClaim
    <3>2. /\ attempt' = [attempt EXCEPT ![q] = attempt[q] + 1]
          /\ worker' = [worker EXCEPT ![w] = [pc |-> "executing",
                          job |-> worker[w].job, attempt |-> attempt[q] + 1]]
      BY <2>2 DEF AdmitClaim, NextAttempt
    <3>3. worker'[w].job.run = q /\ worker'[w].attempt = attempt[q] + 1
      BY <3>2 DEF TypeOK
    <3>4. attempt \in [Runs -> Nat] /\ attempt'[q] = attempt[q] + 1
      BY <3>1, <3>2 DEF TypeOK
    <3>5. ASSUME NEW v \in Workers, v # w, worker'[v].pc = "executing"
          PROVE  /\ worker'[v] = worker[v]
                 /\ worker'[v].job.run \in Runs
                 /\ worker'[v].attempt \in 1..attempt[worker'[v].job.run]
      <4>1. worker'[v] = worker[v]
        BY <3>2, <3>5 DEF TypeOK
      <4> QED BY <3>5, <4>1, BusySlot DEF OneExecutorPerAttempt
    <3> HIDE DEF q
    <3>6. ASSUME NEW v \in Workers, worker'[v].pc = "executing"
          PROVE  worker'[v].attempt \in 1..attempt'[worker'[v].job.run]
      BY <3>1, <3>2, <3>3, <3>4, <3>5, <3>6
    <3>7. ASSUME NEW u \in Workers, NEW v \in Workers, u # v,
                 worker'[u].pc = "executing", worker'[v].pc = "executing",
                 worker'[u].job.run = worker'[v].job.run
          PROVE  worker'[u].attempt # worker'[v].attempt
      <4>1. CASE u # w /\ v # w
        BY <3>5, <3>7, <4>1 DEF OneExecutorPerAttempt
      <4>2. CASE u = w \/ v = w
        BY <3>1, <3>3, <3>4, <3>5, <3>7, <4>2
      <4> QED BY <4>1, <4>2
    <3> QED BY <3>6, <3>7 DEF OneExecutorPerAttempt
  <2>3. ASSUME NEW w \in Workers, NEW j \in jobs, BeginClaim(w, j)
        PROVE  OneExecutorPerAttempt'
    <3>1. /\ attempt' = attempt
          /\ \A v \in Workers : worker'[v].pc = "executing" => worker'[v] = worker[v]
      BY <2>3 DEF BeginClaim, TypeOK, runVars
    <3> QED BY <3>1 DEF OneExecutorPerAttempt
  <2> QED BY <2>1, <2>2, <2>3, SlotSteps
<1> QED BY <1>1, <1>2, TypeCorrect, PTL DEF Spec

-----------------------------------------------------------------------------
(* Aborts.                                                                 *)

\* Only the delivery of an abort leaves a mark; jobs take theirs with them.
LEMMA MarkSteps ==
  ASSUME [Next]_vars
  PROVE  marks' \subseteq marks \/ \E c \in outbox : DeliverAbort(c)
<1>1. ASSUME NEW w \in Workers, WorkerStep(w) PROVE marks' \subseteq marks
  <2>1. ASSUME NEW j \in jobs,
               \/ BeginClaim(w, j) \/ RefuseClaim(w, j) \/ ClaimExpired(w, j)
               \/ ClaimDisabled(w, j) \/ DropJob(w, j) \/ ClaimRaises(w, j)
        PROVE  marks' \subseteq marks
    BY <2>1 DEF BeginClaim, RefuseClaim, ClaimExpired, ClaimDisabled, DropJob, ClaimRaises,
                Consumed
  <2>2. ASSUME AdmitClaim(w) \/ AbandonClaim(w) \/ LeaveRun(w) \/ CrashWorker(w)
        PROVE  marks' \subseteq marks
    BY <2>2 DEF AdmitClaim, AbandonClaim, LeaveRun, CrashWorker, CompleteRun, FailRun,
                InterruptRun, LoseExecution, AbortTask, FinishJob, Consumed
  <2> QED BY <1>1, <2>1, <2>2 DEF WorkerStep, TakeJob
<1>2. ASSUME UserStep \/ CommitResume PROVE marks' = marks
  BY <1>2 DEF UserStep, CreateRun, CancelRun, AdminCancelRun, DisableAccount,
              EnableAccount, BeginResume, CommitResume
<1>3. ASSUME OutboxStep, ~ \E c \in outbox : DeliverAbort(c) PROVE marks' = marks
  BY <1>3 DEF OutboxStep, DeliverSchedule, DeadLetterCommand
<1>4. ASSUME NEW p \in Replicas, BeginScan(p) \/ ScanRow(p) \/ RestartReplica(p)
      PROVE  marks' = marks
  BY <1>4 DEF BeginScan, ScanRow, RestartReplica, ExhaustRow, RequeueRow, SkipRow,
              AbortScan, EnqueueRow
<1>5. ASSUME \/ \E j \in jobs : DropMarkedJob(j) \/ LoseJob(j)
             \/ \E r \in Runs : ExpireRun(r) \/ InterruptStale(r)
             \/ UNCHANGED vars
      PROVE  marks' \subseteq marks
  BY <1>5 DEF DropMarkedJob, LoseJob, ExpireRun, InterruptStale, Consumed, vars
<1> QED BY <1>1, <1>2, <1>3, <1>4, <1>5 DEF Next

\* A run begins to execute only with the next attempt.
LEMMA AttemptSteps ==
  ASSUME TypeOK, [Next]_vars, NEW r \in Runs
  PROVE  \/ /\ attempt'[r] = attempt[r]
            /\ status'[r] = "running" => status[r] = "running"
         \/ attempt'[r] = attempt[r] + 1
<1>1. ASSUME NEW w \in Workers, AdmitClaim(w)
      PROVE  \/ attempt'[r] = attempt[r] /\ status'[r] = status[r]
             \/ attempt'[r] = attempt[r] + 1
  <2>1. worker[w].job.run \in Runs
    BY <1>1, BusySlot DEF AdmitClaim
  <2> QED BY <1>1, <2>1 DEF AdmitClaim, NextAttempt, TypeOK
<1>2. ASSUME ~ \E w \in Workers : AdmitClaim(w)
      PROVE  attempt' = attempt
  BY <1>2, SlotSteps DEF BeginClaim, runVars
<1>3. ASSUME ~ \E w \in Workers : AdmitClaim(w), status'[r] # status[r]
      PROVE  status'[r] # "running"
  <2>1. Moves(r)
    BY <1>3, StatusMoves
  <2>2. ASSUME CreateRun(r) PROVE status'[r] = "queued"
    BY <2>2 DEF CreateRun, TypeOK
  <2>3. ASSUME NEW w \in Workers, NEW result \in Finished, CompleteRun(w, result),
               worker[w].job.run = r
        PROVE  status'[r] \in Finished
    BY <2>3 DEF CompleteRun, TypeOK
  <2> QED BY <1>3, <2>1, <2>2, <2>3 DEF Moves, Finished
<1> QED BY <1>1, <1>2, <1>3

\* An abort mark names the attempt that was cancelled, never one that runs or is still to
\* come: a mark is left only for a cancelled run, and what executes later has a new number.
THEOREM AbortsSpare == Spec => []AbortSparesLiveAttempt
<1>1. Init => AbortSparesLiveAttempt
  BY DEF Init, AbortSparesLiveAttempt
<1>2. TypeOK /\ AbortSparesLiveAttempt /\ TypeOK' /\ [Next]_vars => AbortSparesLiveAttempt'
  <2> SUFFICES ASSUME TypeOK, AbortSparesLiveAttempt, TypeOK', [Next]_vars, NEW m \in marks'
               PROVE  /\ m[2] <= attempt'[m[1]]
                      /\ status'[m[1]] = "running" => m[2] # attempt'[m[1]]
    BY DEF AbortSparesLiveAttempt
  <2>1. m[1] \in Runs /\ m[2] \in Nat /\ attempt[m[1]] \in Nat
    BY DEF TypeOK
  <2>2. CASE m \in marks
    <3>1. m[2] <= attempt[m[1]] /\ (status[m[1]] = "running" => m[2] # attempt[m[1]])
      BY <2>2 DEF AbortSparesLiveAttempt
    <3> QED BY <2>1, <3>1, AttemptSteps
  <2>3. ASSUME m \notin marks, NEW c \in outbox, DeliverAbort(c)
        PROVE  m[2] = attempt'[m[1]] /\ status'[m[1]] = "cancelled"
    BY <2>3 DEF DeliverAbort, AbortApplies, AbortedJob, runVars, TypeOK
  <2> QED BY <2>1, <2>2, <2>3, MarkSteps
<1> QED BY <1>1, <1>2, TypeCorrect, PTL DEF Spec

-----------------------------------------------------------------------------
(* Concurrent runs.  What a claim counted still holds when it is admitted: *)
(* one worker claims at a time, and only an admitted claim adds a run.     *)

OneClaim ==
  \A v, w \in Workers : worker[v].pc = "claiming" /\ worker[w].pc = "claiming" => v = w

ClaimHasRoom ==
  \A w \in Workers : worker[w].pc = "claiming" => HasRoom(worker[w].job.run)

LimitInv == TypeOK /\ OneClaim /\ ClaimHasRoom /\ RunningWithinLimits

\* The counts of the limits are natural numbers, and they fall with the set.
LEMMA RunningCounts ==
  ASSUME NEW S \in SUBSET Runs, NEW T \in SUBSET S
  PROVE  /\ IsFiniteSet(S) /\ Cardinality(S) \in Nat
         /\ Cardinality(T) \in Nat /\ Cardinality(T) <= Cardinality(S)
  BY ConstantsAssumption, FS_Subset, FS_CardinalityType

\* A set below a limit stays within it when one element is added.
LEMMA AddOne ==
  ASSUME NEW S, IsFiniteSet(S), NEW x, NEW n \in Nat, Cardinality(S) < n
  PROVE  Cardinality(S \union {x}) <= n
<1>1. Cardinality(S) \in Nat
  BY FS_CardinalityType
<1>2. Cardinality(S \union {x}) = IF x \in S THEN Cardinality(S) ELSE Cardinality(S) + 1
  BY FS_AddElement
<1> QED BY <1>1, <1>2

\* Every other step leaves the running runs running or stops some.
LEMMA RunningShrinks ==
  ASSUME TypeOK, [Next]_vars, ~ \E w \in Workers : AdmitClaim(w)
  PROVE  Running' \subseteq Running
<1> SUFFICES ASSUME NEW r \in Runs, status'[r] = "running", status[r] # "running"
             PROVE  FALSE
  BY DEF Running
<1>1. Moves(r)
  BY StatusMoves
<1>2. ASSUME NEW w \in Workers, NEW result \in Finished, CompleteRun(w, result),
             worker[w].job.run = r
      PROVE  status'[r] # "running"
  BY <1>2 DEF CompleteRun, TypeOK, Finished
<1> QED BY <1>1, <1>2 DEF Moves, CreateRun, TypeOK

\* Fewer running runs keep the limits and the room of every claim.
LEMMA FewerRunning ==
  ASSUME Running' \subseteq Running
  PROVE  /\ RunningWithinLimits => RunningWithinLimits'
         /\ \A r \in Runs : HasRoom(r) => HasRoom(r)'
<1>1. Running \subseteq Runs
  BY DEF Running
<1>2. /\ Cardinality(Running') \in Nat /\ Cardinality(Running) \in Nat
      /\ Cardinality(Running') <= Cardinality(Running)
  BY <1>1, RunningCounts
<1>3. ASSUME NEW s PROVE
        /\ Cardinality(RunningIn(s)') \in Nat /\ Cardinality(RunningIn(s)) \in Nat
        /\ Cardinality(RunningIn(s)') <= Cardinality(RunningIn(s))
  <2>1. RunningIn(s) \in SUBSET Runs /\ RunningIn(s)' \in SUBSET RunningIn(s)
    BY <1>1 DEF RunningIn
  <2> QED BY <2>1, RunningCounts
<1>4. RunningWithinLimits => RunningWithinLimits'
  BY <1>2, <1>3, ConstantsAssumption DEF RunningWithinLimits
<1>5. ASSUME NEW r \in Runs, HasRoom(r) PROVE HasRoom(r)'
  BY <1>2, <1>3, <1>5, ConstantsAssumption
     DEF HasRoom, PlatformHasRoom, WorkspaceHasRoom
<1> QED BY <1>4, <1>5

\* An admitted claim adds its run, for which there was room.
LEMMA AdmitKeepsLimits ==
  ASSUME TypeOK, RunningWithinLimits, NEW w \in Workers, AdmitClaim(w),
         HasRoom(worker[w].job.run)
  PROVE  RunningWithinLimits'
<1> DEFINE r == worker[w].job.run
<1>1. r \in Runs
  BY BusySlot DEF AdmitClaim
<1>2. status' = [status EXCEPT ![r] = "running"]
  BY DEF AdmitClaim
<1> HIDE DEF r
<1>3. Running' = Running \union {r}
  BY <1>1, <1>2 DEF Running, TypeOK
<1>4. IsFiniteSet(Running) /\ Cardinality(Running) \in Nat
  BY RunningCounts DEF Running
<1>5. Cardinality(Running') <= PlatformLimit
  <2>1. Cardinality(Running) < PlatformLimit
    BY DEF HasRoom, PlatformHasRoom, r
  <2>2. Cardinality(Running \union {r}) <= PlatformLimit
    BY <1>4, <2>1, AddOne, Limits
  <2> QED BY <1>3, <2>2
<1>6. ASSUME NEW s \in Workspaces
      PROVE  Cardinality(RunningIn(s)') <= WorkspaceLimit
  <2> DEFINE S == RunningIn(s)
  <2>1. IsFiniteSet(S) /\ Cardinality(S) \in Nat
    <3>1. RunningIn(s) \in SUBSET Runs
      BY DEF Running, RunningIn
    <3> QED BY <3>1, RunningCounts
  <2>2. CASE WorkspaceOf[r] = s
    <3>1. S' = S \union {r}
      BY <1>3, <2>2 DEF RunningIn
    <3>2. Cardinality(S) < WorkspaceLimit
      BY <2>2 DEF HasRoom, WorkspaceHasRoom, r
    <3> HIDE DEF S
    <3>3. Cardinality(S \union {r}) <= WorkspaceLimit
      BY <2>1, <3>2, AddOne, Limits
    <3> QED BY <3>1, <3>3 DEF S
  <2>3. CASE WorkspaceOf[r] # s
    <3>1. S' = S
      BY <1>3, <2>3 DEF RunningIn
    <3> QED BY <3>1 DEF RunningWithinLimits
  <2> QED BY <2>2, <2>3
<1> QED BY <1>5, <1>6 DEF RunningWithinLimits

\* LimitInv is inductive.
LEMMA LimitInvInductive ==
  /\ Init => LimitInv
  /\ LimitInv /\ [Next]_vars /\ TypeOK' => LimitInv'
<1>1. ASSUME Init PROVE LimitInv
  <2>1. TypeOK
    BY <1>1, ConstantsAssumption DEF Init, TypeOK, Statuses
  <2>2. Running = {} /\ \A s : RunningIn(s) = {}
    BY <1>1 DEF Init, Running, RunningIn
  <2>3. RunningWithinLimits
    BY <2>2, FS_EmptySet, ConstantsAssumption DEF RunningWithinLimits
  <2> QED BY <1>1, <2>1, <2>3 DEF LimitInv, Init, OneClaim, ClaimHasRoom, Idle
<1>2. ASSUME LimitInv, [Next]_vars, TypeOK' PROVE LimitInv'
  <2> USE <1>2
  <2>1. TypeOK /\ OneClaim /\ ClaimHasRoom /\ RunningWithinLimits
    BY DEF LimitInv
  <2>2. ASSUME NEW w \in Workers, AdmitClaim(w) PROVE LimitInv'
    <3>1. RunningWithinLimits'
      BY <2>1, <2>2, AdmitKeepsLimits DEF ClaimHasRoom, AdmitClaim
    <3>2. \A v \in Workers : worker'[v].pc # "claiming"
      BY <2>1, <2>2 DEF AdmitClaim, OneClaim, TypeOK
    <3> QED BY <3>1, <3>2 DEF LimitInv, OneClaim, ClaimHasRoom
  <2>3. ASSUME NEW w \in Workers, NEW j \in jobs, BeginClaim(w, j) PROVE LimitInv'
    <3>1. /\ \A v \in Workers : worker[v].pc # "claiming"
          /\ worker' = [worker EXCEPT ![w] = [pc |-> "claiming", job |-> j,
                                              attempt |-> 0]]
          /\ HasRoom(j.run) /\ status' = status
      BY <2>3 DEF BeginClaim, ClaimFree, runVars
    <3>2. \A v \in Workers : worker'[v].pc = "claiming" => v = w
      BY <2>1, <3>1 DEF TypeOK
    <3>3. /\ Running' = Running /\ worker'[w].job.run = j.run
          /\ \A s : RunningIn(s)' = RunningIn(s)
      BY <2>1, <3>1 DEF Running, RunningIn, TypeOK
    <3>4. OneClaim'
      BY <3>2 DEF OneClaim
    <3>5. ClaimHasRoom'
      BY <3>1, <3>2, <3>3 DEF ClaimHasRoom, HasRoom, PlatformHasRoom, WorkspaceHasRoom
    <3> QED BY <2>1, <3>3, <3>4, <3>5 DEF LimitInv, RunningWithinLimits
  <2>4. ASSUME ~ \E w \in Workers : AdmitClaim(w),
               \A v \in Workers : worker'[v] \in {worker[v], Idle}
        PROVE  LimitInv'
    <3>1. Running' \subseteq Running
      BY <2>1, <2>4, RunningShrinks
    <3>2. \A v \in Workers : worker'[v].pc = "claiming" => worker'[v] = worker[v]
      BY <2>4 DEF Idle
    <3>3. OneClaim'
      BY <2>1, <3>2 DEF OneClaim
    <3>4. RunningWithinLimits' /\ \A r \in Runs : HasRoom(r) => HasRoom(r)'
      BY <2>1, <3>1, FewerRunning
    <3>5. ASSUME NEW v \in Workers, worker'[v].pc = "claiming"
          PROVE  HasRoom(worker[v].job.run)'
      <4>1. worker'[v] = worker[v] /\ worker[v].job.run \in Runs
        BY <2>1, <3>2, <3>5, BusySlot
      <4>2. HasRoom(worker[v].job.run)
        BY <2>1, <3>5, <4>1 DEF ClaimHasRoom
      <4> QED BY <3>4, <4>1, <4>2 DEF HasRoom, PlatformHasRoom, WorkspaceHasRoom
    <3> QED BY <3>3, <3>4, <3>5 DEF LimitInv, ClaimHasRoom
  <2> QED BY <2>1, <2>2, <2>3, <2>4, SlotSteps
<1> QED BY <1>1, <1>2

\* No interleaving of claims exceeds the platform's or a workspace's limit.
THEOREM LimitsHold == Spec => []RunningWithinLimits
<1>1. LimitInv /\ TypeOK' /\ [Next]_vars => LimitInv'
  BY LimitInvInductive
<1>2. LimitInv => RunningWithinLimits
  BY DEF LimitInv
<1> QED BY <1>1, <1>2, TypeCorrect, LimitInvInductive, PTL DEF Spec

-----------------------------------------------------------------------------
(* Admission.  Between the count of a resume and its commit, interruptions *)
(* add waiting runs, but no run becomes active: creating one needs the     *)
(* admission lock that the resume holds.                                   *)

ResumeHasRoom ==
  command # None => Cardinality(ActiveRuns \ {command.run}) < MaxQueued + PlatformLimit

AdmissionInv == TypeOK /\ RunningWithinLimits /\ AdmissionBounded /\ ResumeHasRoom

\* Room in the queue is room among the active runs, which include those running.
LEMMA QueueRoom ==
  ASSUME TypeOK, RunningWithinLimits, NEW r \in Runs, QueueHasRoom(r)
  PROVE  Cardinality(ActiveRuns \ {r}) < MaxQueued + PlatformLimit
<1> DEFINE W == WaitingRuns \ {r}
<1>1. /\ W \in SUBSET Runs /\ Running \in SUBSET Runs
      /\ W \cap Running \in SUBSET Runs /\ W \union Running \in SUBSET Runs
      /\ ActiveRuns \ {r} \in SUBSET (W \union Running)
  BY DEF WaitingRuns, Running, ActiveRuns, Waiting, Active
<1>2. Cardinality(W) < MaxQueued
  BY DEF QueueHasRoom
<1> HIDE DEF W
<1>3. /\ IsFiniteSet(W) /\ IsFiniteSet(Running)
      /\ Cardinality(W) \in Nat /\ Cardinality(Running) \in Nat
      /\ Cardinality(W \cap Running) \in Nat
      /\ Cardinality(W \union Running) \in Nat
      /\ Cardinality(ActiveRuns \ {r}) \in Nat
      /\ Cardinality(ActiveRuns \ {r}) <= Cardinality(W \union Running)
  BY <1>1, RunningCounts
<1>4. Cardinality(W \union Running)
        = Cardinality(W) + Cardinality(Running) - Cardinality(W \cap Running)
  BY <1>3, FS_Union
<1>5. Cardinality(Running) <= PlatformLimit
  BY DEF RunningWithinLimits
<1> QED BY <1>2, <1>3, <1>4, <1>5, Limits

\* Only a new run or a committed resume makes a run active.
LEMMA ActiveSteps ==
  ASSUME TypeOK, [Next]_vars
  PROVE  \/ ActiveRuns' \subseteq ActiveRuns
         \/ \E r \in Runs : CreateRun(r)
         \/ CommitResume
<1> SUFFICES ASSUME NEW r \in Runs, status'[r] \in Active, status[r] \notin Active,
                    ~ \E q \in Runs : CreateRun(q), ~CommitResume
             PROVE  FALSE
  BY DEF ActiveRuns
<1>1. Moves(r)
  BY StatusMoves DEF Active
<1>2. ASSUME NEW w \in Workers, AdmitClaim(w), worker[w].job.run = r
      PROVE  status[r] \in Active
  BY <1>2 DEF AdmitClaim, Admissible, Eligible, Waiting, Active
<1>3. ASSUME NEW w \in Workers, NEW result \in Finished, CompleteRun(w, result),
             worker[w].job.run = r
      PROVE  status[r] \in Active
  BY <1>3 DEF CompleteRun, MayPublish, Owns, Active
<1>4. ASSUME command # None, command' = None PROVE FALSE
  BY <1>4, CommandSteps DEF BeginResume
<1> QED BY <1>1, <1>2, <1>3, <1>4 DEF Moves, Active

\* AdmissionInv is inductive, given the limit on running runs.
LEMMA AdmissionInvInductive ==
  /\ Init => AdmissionInv
  /\ AdmissionInv /\ [Next]_vars /\ TypeOK' /\ RunningWithinLimits' => AdmissionInv'
<1>1. ASSUME Init PROVE AdmissionInv
  <2>1. TypeOK /\ RunningWithinLimits
    BY <1>1, LimitInvInductive DEF LimitInv
  <2>2. ActiveRuns = {} /\ command = None
    BY <1>1 DEF Init, ActiveRuns, Active
  <2> QED BY <2>1, <2>2, FS_EmptySet, Limits
          DEF AdmissionInv, AdmissionBounded, ResumeHasRoom
<1>2. ASSUME AdmissionInv, [Next]_vars PROVE AdmissionBounded' /\ ResumeHasRoom'
  <2> USE <1>2
  <2> DEFINE n == MaxQueued + PlatformLimit
  <2>1. TypeOK /\ RunningWithinLimits /\ AdmissionBounded /\ ResumeHasRoom /\ n \in Nat
    BY Limits DEF AdmissionInv
  <2>2. ActiveRuns \in SUBSET Runs /\ ActiveRuns' \in SUBSET Runs
    BY DEF ActiveRuns
  <2>3. ASSUME NEW r \in Runs, Cardinality(ActiveRuns \ {r}) < n,
               ActiveRuns' \subseteq ActiveRuns \union {r}
        PROVE  AdmissionBounded'
    <3>1. IsFiniteSet(ActiveRuns \ {r})
      BY <2>2, RunningCounts
    <3>2. Cardinality((ActiveRuns \ {r}) \union {r}) <= n
      BY <2>1, <2>3, <3>1, AddOne
    <3>3. /\ (ActiveRuns \ {r}) \union {r} \in SUBSET Runs
          /\ ActiveRuns' \in SUBSET ((ActiveRuns \ {r}) \union {r})
      BY <2>2, <2>3
    <3>4. Cardinality(ActiveRuns') <= Cardinality((ActiveRuns \ {r}) \union {r})
      BY <3>3, RunningCounts
    <3>5. Cardinality(ActiveRuns') \in Nat
             /\ Cardinality((ActiveRuns \ {r}) \union {r}) \in Nat
      BY <3>3, RunningCounts
    <3> QED BY <2>1, <3>2, <3>4, <3>5 DEF AdmissionBounded
  <2>4. ASSUME NEW r \in Runs, CreateRun(r) PROVE AdmissionBounded' /\ ResumeHasRoom'
    <3>1. Cardinality(ActiveRuns \ {r}) < n
      BY <2>1, <2>4, QueueRoom DEF CreateRun
    <3>2. ActiveRuns' \subseteq ActiveRuns \union {r}
      BY <2>1, <2>4 DEF CreateRun, ActiveRuns, TypeOK
    <3>3. command' = None
      BY <2>4 DEF CreateRun
    <3> QED BY <2>3, <3>1, <3>2, <3>3 DEF ResumeHasRoom
  <2>5. ASSUME CommitResume PROVE AdmissionBounded' /\ ResumeHasRoom'
    <3>1. command # None /\ command' = None /\ command.run \in Runs
      BY <2>1, <2>5 DEF CommitResume, TypeOK, Resumption
    <3>2. \/ status' = status
          \/ status' = [status EXCEPT ![command.run] = "queued"]
      BY <2>5 DEF CommitResume
    <3>3. ActiveRuns' \subseteq ActiveRuns \union {command.run}
      BY <2>1, <3>1, <3>2 DEF ActiveRuns, TypeOK
    <3>4. Cardinality(ActiveRuns \ {command.run}) < n
      BY <2>1, <3>1 DEF ResumeHasRoom
    <3> QED BY <2>3, <3>1, <3>3, <3>4 DEF ResumeHasRoom
  <2>6. ASSUME ActiveRuns' \subseteq ActiveRuns, ~CommitResume
        PROVE  AdmissionBounded' /\ ResumeHasRoom'
    <3>1. AdmissionBounded'
      <4>1. /\ Cardinality(ActiveRuns') <= Cardinality(ActiveRuns)
            /\ Cardinality(ActiveRuns') \in Nat /\ Cardinality(ActiveRuns) \in Nat
        BY <2>2, <2>6, RunningCounts
      <4> QED BY <2>1, <4>1 DEF AdmissionBounded
    <3>2. CASE command' = command
      <4>1. ASSUME NEW r PROVE
              /\ Cardinality(ActiveRuns' \ {r}) <= Cardinality(ActiveRuns \ {r})
              /\ Cardinality(ActiveRuns' \ {r}) \in Nat
              /\ Cardinality(ActiveRuns \ {r}) \in Nat
        <5>1. /\ ActiveRuns \ {r} \in SUBSET Runs
              /\ ActiveRuns' \ {r} \in SUBSET (ActiveRuns \ {r})
          BY <2>2, <2>6
        <5> QED BY <5>1, RunningCounts
      <4>2. ASSUME command # None
            PROVE  Cardinality(ActiveRuns' \ {command.run}) < n
        <5>1. Cardinality(ActiveRuns \ {command.run}) < n
          BY <2>1, <4>2 DEF ResumeHasRoom
        <5> DEFINE a == Cardinality(ActiveRuns \ {command.run})
                   b == Cardinality(ActiveRuns' \ {command.run})
        <5>2. a \in Nat /\ b \in Nat /\ b <= a
          BY <4>1
        <5> HIDE DEF a, b, n
        <5>3. b < n
          BY <2>1, <5>1, <5>2 DEF a
        <5> QED BY <5>3 DEF b
      <4> QED BY <3>1, <3>2, <4>2 DEF ResumeHasRoom
    <3>3. ASSUME NEW r \in Runs, BeginResume(r) PROVE ResumeHasRoom'
      <4>1. /\ QueueHasRoom(r) /\ status' = status
            /\ command' = [run |-> r, attempt |-> attempt[r], seen |-> status[r]]
        BY <3>3 DEF BeginResume, runVars
      <4>2. command'.run = r /\ ActiveRuns' = ActiveRuns
        BY <4>1 DEF ActiveRuns
      <4> QED BY <2>1, <4>1, <4>2, QueueRoom DEF ResumeHasRoom
    <3> QED BY <2>1, <2>6, <3>1, <3>2, <3>3, CommandSteps
  <2> QED BY <2>1, <2>4, <2>5, <2>6, ActiveSteps
<1> QED BY <1>1, <1>2 DEF AdmissionInv

\* However creations, resumes and interruptions interleave, the active runs
\* stay within max_queued_runs and platform_active_run_limit together.
THEOREM AdmissionHolds == Spec => []AdmissionBounded
<1>1. AdmissionInv /\ TypeOK' /\ RunningWithinLimits' /\ [Next]_vars => AdmissionInv'
  BY AdmissionInvInductive
<1>2. AdmissionInv => AdmissionBounded
  BY DEF AdmissionInv
<1> QED BY <1>1, <1>2, TypeCorrect, LimitsHold, AdmissionInvInductive, PTL DEF Spec

-----------------------------------------------------------------------------
(* Automatic recoveries.  The compare-and-swap makes the count a loop read   *)
(* the count of the table, so a stale row cannot exceed the limit.           *)

\* Only the compare-and-swap of a recovery loop counts a recovery.
LEMMA RecoveriesCounted ==
  ASSUME [Next]_vars
  PROVE  \/ recoveries' = recoveries
         \/ \E p \in Replicas, r \in Runs : RequeueRow(p, r)
<1>1. CASE UserStep \/ CommitResume \/ OutboxStep \/ UNCHANGED vars
  BY <1>1 DEF UserStep, CreateRun, CancelRun, AdminCancelRun, BeginResume, DisableAccount,
              EnableAccount, CommitResume, OutboxStep, DeliverSchedule, DeliverAbort,
              DeadLetterCommand, runVars, vars
<1>2. ASSUME NEW w \in Workers, WorkerStep(w) PROVE recoveries' = recoveries
  BY <1>2 DEF WorkerStep, TakeJob, BeginClaim, RefuseClaim, ClaimExpired, ClaimDisabled,
              AdmitClaim, AbandonClaim, LeaveRun, CompleteRun, FailRun, InterruptRun,
              LoseExecution, AbortTask, DropJob, ClaimRaises, CrashWorker, runVars
<1>3. ASSUME NEW j \in jobs, DropMarkedJob(j) \/ LoseJob(j) PROVE recoveries' = recoveries
  BY <1>3 DEF DropMarkedJob, LoseJob, runVars
<1>4. ASSUME NEW r \in Runs, ExpireRun(r) \/ InterruptStale(r) PROVE recoveries' = recoveries
  BY <1>4 DEF ExpireRun, InterruptStale
<1>5. ASSUME NEW p \in Replicas, BeginScan(p) \/ ScanRow(p) \/ RestartReplica(p)
      PROVE  recoveries' = recoveries \/ \E r \in Runs : RequeueRow(p, r)
  BY <1>5 DEF BeginScan, ScanRow, RestartReplica, ExhaustRow, SkipRow, AbortScan,
              EnqueueRow, runVars
<1> QED BY <1>1, <1>2, <1>3, <1>4, <1>5 DEF Next

\* No run is recovered automatically more than MaxRecoveries times, however many
\* loops act on rows they read earlier.
THEOREM RecoveriesLimited == Spec => []RecoveriesBounded
<1>1. Init => RecoveriesBounded
  BY ConstantsAssumption DEF Init, RecoveriesBounded
<1>2. TypeOK /\ RecoveriesBounded /\ [Next]_vars => RecoveriesBounded'
  <2> SUFFICES ASSUME TypeOK, RecoveriesBounded, [Next]_vars PROVE RecoveriesBounded'
    OBVIOUS
  <2>1. CASE recoveries' = recoveries
    BY <2>1 DEF RecoveriesBounded
  <2>2. ASSUME NEW p \in Replicas, NEW r \in Runs, RequeueRow(p, r)
        PROVE  RecoveriesBounded'
    <3>1. recoveries[r] < MaxRecoveries
      <4>1. ~(scan[p][r].recoveries >= MaxRecoveries)
        BY <2>2 DEF RequeueRow, RowExhausted
      <4>2. recoveries[r] = scan[p][r].recoveries
        BY <2>2 DEF RequeueRow, RowUnchanged
      <4> QED BY <4>1, <4>2, ConstantsAssumption DEF TypeOK
    <3>2. recoveries' = [recoveries EXCEPT ![r] = recoveries[r] + 1]
      BY <2>2 DEF RequeueRow
    <3> QED BY <3>1, <3>2, ConstantsAssumption DEF RecoveriesBounded, TypeOK
  <2> QED BY <2>1, <2>2, RecoveriesCounted
<1> QED BY <1>1, <1>2, TypeCorrect, PTL DEF Spec

-----------------------------------------------------------------------------
(* ResearchRuns implements RunLedger: every step of a command, a worker or *)
(* the recovery loop is a step of the ledger, or changes nothing a reader  *)
(* of the table sees.                                                      *)


Implements == [Ledger!Next]_(Ledger!ledger)

\* What the steps rely on: the invariants of the other theorems.
StepInv == FinalInv /\ LimitInv /\ AdmissionInv

\* The ledger counts as the table does: the two instances of FiniteSets agree.
LEMMA SameCount == \A S : Ledger!Cardinality(S) = Cardinality(S)
  BY Zenon DEF Ledger!Cardinality, Cardinality

\* The runs that load the ledger are the active ones.
LEMMA LoadIsActive == Ledger!Load = Cardinality(ActiveRuns)
  BY SameCount DEF Ledger!Load, Ledger!Unsettled, ActiveRuns, Active

\* A step that moves one run and no attempt is a step of the ledger, if it is
\* one of the ledger's moves of a single run.
LEMMA SingleMoves ==
  ASSUME NEW r \in Runs, NEW to, attempt' = attempt,
         status' = [status EXCEPT ![r] = to],
         \/ /\ status[r] = "absent" /\ to = "queued"
            /\ Cardinality(ActiveRuns) < MaxQueued + PlatformLimit
         \/ /\ status[r] \in {"failed", "cancelled"} /\ to = "queued"
            /\ Cardinality(ActiveRuns) < MaxQueued + PlatformLimit
         \/ status[r] \in Active /\ to = "queued"
         \/ status[r] = "running" /\ to \in Finished \union {"failed", "interrupted"}
         \/ status[r] \in Waiting /\ to = "failed"
  PROVE  Implements
<1> USE DEF Ledger!Move
<1>1. CASE status[r] = "absent"
  <2>1. Ledger!Submit(r)
    BY <1>1, LoadIsActive DEF Ledger!Submit, Active, Waiting
  <2> QED BY <2>1 DEF Implements, Ledger!Next
<1>2. CASE to = "queued" /\ status[r] # "absent"
  <2>1. Ledger!Reopen(r)
    BY <1>2, LoadIsActive DEF Ledger!Reopen, Ledger!Unsettled, Active, Waiting, Finished
  <2> QED BY <2>1 DEF Implements, Ledger!Next
<1>3. CASE status[r] = "running" /\ to \in Finished \union {"failed"}
  <2>1. Ledger!Deliver(r)
    BY <1>3 DEF Ledger!Deliver, Finished
  <2> QED BY <2>1 DEF Implements, Ledger!Next
<1>4. CASE status[r] = "running" /\ to = "interrupted"
  <2>1. Ledger!Interrupt(r)
    BY <1>4 DEF Ledger!Interrupt
  <2> QED BY <2>1 DEF Implements, Ledger!Next
<1>5. CASE status[r] \in Waiting /\ to = "failed"
  <2>1. Ledger!GiveUp(r)
    BY <1>5 DEF Ledger!GiveUp, Waiting
  <2> QED BY <2>1 DEF Implements, Ledger!Next
<1> QED BY <1>1, <1>2, <1>3, <1>4, <1>5 DEF Active, Waiting

\* Stopping active runs is the ledger's Cancel.
LEMMA Stops ==
  ASSUME NEW S \in SUBSET Runs, \A r \in S : status[r] \in Active, attempt' = attempt,
         status' = [r \in Runs |-> IF r \in S THEN "cancelled" ELSE status[r]]
  PROVE  Implements
<1>1. Ledger!Cancel(S)
  BY DEF Ledger!Cancel, Ledger!Unsettled, Active
<1> QED BY <1>1 DEF Implements, Ledger!Next

\* A step that leaves both variables alone is a stutter.
LEMMA Stutters == ASSUME UNCHANGED <<status, attempt>> PROVE Implements
  BY DEF Implements, Ledger!ledger

\* The users' commands.
LEMMA UserImplements == ASSUME StepInv, UserStep PROVE Implements
<1>1. ASSUME NEW r \in Runs, CreateRun(r) PROVE Implements
  <2>1. status[r] = "absent" /\ QueueHasRoom(r) /\ attempt' = attempt
         /\ status' = [status EXCEPT ![r] = "queued"]
    BY <1>1 DEF CreateRun
  <2>2. ActiveRuns \ {r} = ActiveRuns
    BY <2>1 DEF ActiveRuns, Active
  <2>3. Cardinality(ActiveRuns) < MaxQueued + PlatformLimit
    BY <2>1, <2>2, QueueRoom DEF StepInv, AdmissionInv
  <2> QED BY <2>1, <2>3, SingleMoves
<1>2. ASSUME NEW r \in Runs, CancelRun(r) \/ AdminCancelRun(r) PROVE Implements
  <2>1. {r} \in SUBSET Runs /\ status[r] \in Active /\ attempt' = attempt /\ StopRuns({r})
    BY <1>2 DEF CancelRun, AdminCancelRun
  <2> QED BY <2>1, Stops DEF StopRuns
<1>3. ASSUME NEW u \in Accounts, DisableAccount(u) PROVE Implements
  <2> DEFINE S == {r \in ActiveRuns : OwnerOf[r] = u}
  <2>1. S \in SUBSET Runs /\ \A r \in S : status[r] \in Active
    BY DEF ActiveRuns
  <2>2. attempt' = attempt /\ StopRuns(S)
    BY <1>3 DEF DisableAccount
  <2> HIDE DEF S
  <2> QED BY <2>1, <2>2, Stops DEF StopRuns
<1>4. ASSUME NEW u \in Accounts, EnableAccount(u) PROVE Implements
  BY <1>4, Stutters DEF EnableAccount, runVars
<1>5. ASSUME NEW r \in Runs, BeginResume(r) PROVE Implements
  BY <1>5, Stutters DEF BeginResume, runVars
<1> QED BY <1>1, <1>2, <1>3, <1>4, <1>5 DEF UserStep

\* A resume reopens a run that has stopped, for which its lock kept room, or puts
\* a run that is under way again back in the queue.
LEMMA ResumeImplements == ASSUME StepInv, CommitResume PROVE Implements
<1> DEFINE r == command.run
<1>1. command # None /\ r \in Runs /\ attempt' = attempt
  BY DEF CommitResume, StepInv, FinalInv, TypeOK, Resumption
<1>2. CASE status' = status
  BY <1>1, <1>2, Stutters
<1>3. CASE status' = [status EXCEPT ![r] = "queued"]
  <2>1. status[r] \in Statuses /\ status[r] \notin Unresumable
    BY <1>1 DEF StepInv, FinalInv, ResumeSparesFinished, TypeOK
  <2>2. CASE status[r] \in Active
    BY <1>1, <1>3, <2>2, SingleMoves
  <2>3. CASE status[r] \in {"failed", "cancelled"}
    <3>1. ActiveRuns \ {r} = ActiveRuns
      BY <2>3 DEF ActiveRuns, Active
    <3>2. Cardinality(ActiveRuns) < MaxQueued + PlatformLimit
      BY <1>1, <3>1 DEF StepInv, AdmissionInv, ResumeHasRoom
    <3> QED BY <1>1, <1>3, <2>3, <3>2, SingleMoves
  <2> QED BY <2>1, <2>2, <2>3 DEF Statuses, Unresumable
<1> QED BY <1>2, <1>3 DEF CommitResume

\* A worker's claim executes its run; its other steps end an execution.
LEMMA WorkerImplements ==
  ASSUME StepInv, NEW w \in Workers, WorkerStep(w) PROVE Implements
<1>1. TypeOK
  BY DEF StepInv, FinalInv
<1>2. ASSUME NEW j \in jobs, ClaimExpired(w, j) PROVE Implements
  <2>1. j.run \in Runs /\ status[j.run] \in Waiting /\ attempt' = attempt
         /\ status' = [status EXCEPT ![j.run] = "failed"]
    BY <1>1, <1>2 DEF ClaimExpired, Claimable, Eligible, Waiting, Exhausted, TypeOK, Job
  <2> QED BY <2>1, SingleMoves
<1>3. ASSUME NEW j \in jobs, ClaimDisabled(w, j) PROVE Implements
  <2>1. j.run \in Runs /\ status[j.run] \in Waiting /\ attempt' = attempt
         /\ status' = [status EXCEPT ![j.run] = "cancelled"]
    BY <1>1, <1>3 DEF ClaimDisabled, Claimable, Eligible, Waiting, TypeOK, Job
  <2>2. status' = [r \in Runs |-> IF r \in {j.run} THEN "cancelled" ELSE status[r]]
    BY <1>1, <2>1 DEF TypeOK
  <2>3. {j.run} \in SUBSET Runs /\ \A r \in {j.run} : status[r] \in Active
    BY <2>1 DEF Waiting, Active
  <2> QED BY <2>1, <2>2, <2>3, Stops
<1>4. CASE AdmitClaim(w)
  <2> DEFINE r == worker[w].job.run
  <2>1. r \in Runs
    BY <1>1, <1>4, BusySlot DEF AdmitClaim
  <2>2. status[r] \in Waiting
    BY <1>4 DEF AdmitClaim, Admissible, Eligible, Waiting
  <2>3. Cardinality(Running) < PlatformLimit
    BY <1>4 DEF StepInv, LimitInv, ClaimHasRoom, AdmitClaim, HasRoom, PlatformHasRoom
  <2>4. Ledger!Execute(r)
    BY <1>4, <2>1, <2>2, <2>3, SameCount
       DEF AdmitClaim, NextAttempt, Ledger!Execute, Waiting, Running
  <2> QED BY <2>1, <2>4 DEF Implements, Ledger!Next
<1>5. ASSUME NEW j \in jobs, ClaimRaises(w, j) PROVE Implements
  <2>1. j.run \in Runs /\ attempt' = attempt
    BY <1>1, <1>5 DEF ClaimRaises, TypeOK, Job
  <2>2. CASE status[j.run] = "running"
    BY <1>5, <2>1, <2>2, SingleMoves DEF ClaimRaises
  <2>3. CASE status[j.run] # "running"
    BY <1>5, <2>3, Stutters DEF ClaimRaises
  <2> QED BY <2>2, <2>3
<1>6. CASE LeaveRun(w)
  <2> DEFINE r == worker[w].job.run
  <2>1. worker[w].pc = "executing" /\ attempt' = attempt
    BY <1>6 DEF LeaveRun, CompleteRun, FailRun, InterruptRun, LoseExecution, AbortTask,
                runVars
  <2>2. r \in Runs
    BY <1>1, <2>1, BusySlot
  <2>3. \/ status' = status
        \/ /\ status[r] = "running"
           /\ \E to \in Finished \union {"failed", "interrupted"} :
                status' = [status EXCEPT ![r] = to]
    BY <1>6 DEF LeaveRun, CompleteRun, FailRun, InterruptRun, LoseExecution, AbortTask,
                MayPublish, Owns, runVars
  <2> HIDE DEF r
  <2> QED BY <2>1, <2>2, <2>3, SingleMoves, Stutters
<1>7. ASSUME NEW j \in jobs, BeginClaim(w, j) \/ RefuseClaim(w, j) \/ DropJob(w, j)
      PROVE  Implements
  BY <1>7, Stutters DEF BeginClaim, RefuseClaim, DropJob, runVars
<1>8. CASE AbandonClaim(w) \/ CrashWorker(w)
  BY <1>8, Stutters DEF AbandonClaim, CrashWorker, runVars
<1> QED BY <1>2, <1>3, <1>4, <1>5, <1>6, <1>7, <1>8 DEF WorkerStep, TakeJob

\* The recovery loop gives a run up, requeues it, or changes no row.
LEMMA ScanImplements ==
  ASSUME StepInv, NEW p \in Replicas,
         BeginScan(p) \/ ScanRow(p) \/ RestartReplica(p)
  PROVE  Implements
<1>1. ASSUME NEW r \in Runs, ExhaustRow(p, r) PROVE Implements
  BY <1>1, SingleMoves, Stutters DEF ExhaustRow, Exhausted
<1>2. ASSUME NEW r \in Runs, RequeueRow(p, r) PROVE Implements
  BY <1>2, SingleMoves DEF RequeueRow, RowUnchanged, Active
<1> QED BY <1>1, <1>2, Stutters
        DEF ScanRow, BeginScan, RestartReplica, SkipRow, AbortScan, EnqueueRow, runVars

\* The table promises its readers what RunLedger says, whatever the interleaving
\* of commands, workers and recovery loops.
THEOREM LedgerImplemented == Spec => LedgerSpec
<1>1. Init => Ledger!Init
  BY DEF Init, Ledger!Init
<1>2. StepInv /\ [Next]_vars => Implements
  <2> SUFFICES ASSUME StepInv, [Next]_vars PROVE Implements
    OBVIOUS
  <2>1. CASE UNCHANGED vars
    BY <2>1, Stutters DEF vars
  <2>2. ASSUME OutboxStep PROVE Implements
    BY <2>2, Stutters DEF OutboxStep, DeliverSchedule, DeliverAbort,
                          DeadLetterCommand, runVars
  <2>3. ASSUME NEW j \in jobs, DropMarkedJob(j) \/ LoseJob(j) PROVE Implements
    BY <2>3, Stutters DEF DropMarkedJob, LoseJob, runVars
  <2>4. ASSUME NEW r \in Runs, ExpireRun(r) PROVE Implements
    BY <2>4, Stutters DEF ExpireRun
  <2>5. ASSUME NEW r \in Runs, InterruptStale(r) PROVE Implements
    BY <2>5, SingleMoves DEF InterruptStale
  <2> QED BY <2>1, <2>2, <2>3, <2>4, <2>5, UserImplements, ResumeImplements,
             WorkerImplements, ScanImplements DEF Next
<1>3. FinalInv /\ TypeOK' /\ [Next]_vars => FinalInv'
  BY FinalInvInductive
<1>4. LimitInv /\ TypeOK' /\ [Next]_vars => LimitInv'
  BY LimitInvInductive
<1>5. AdmissionInv /\ TypeOK' /\ RunningWithinLimits' /\ [Next]_vars => AdmissionInv'
  BY AdmissionInvInductive
<1>6. Spec => []StepInv
  BY <1>3, <1>4, <1>5, TypeCorrect, LimitsHold, FinalInvInductive, LimitInvInductive,
     AdmissionInvInductive, PTL DEF Spec, StepInv
<1> QED BY <1>1, <1>2, <1>6, PTL DEF Spec, LedgerSpec, Ledger!Spec, Implements

=============================================================================
