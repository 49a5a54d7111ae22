------------------------------- MODULE RunLedger -------------------------------
(***************************************************************************)
(* What the table `runs` promises its readers, whoever writes it: the      *)
(* status a run may move to, that an execution is a new attempt, and how   *)
(* much work the platform admits and executes at a time.                   *)
(***************************************************************************)
EXTENDS Naturals, FiniteSets

CONSTANTS
  Runs,
  Concurrency,  \* runs executing at a time
  Capacity      \* runs admitted and not settled at a time

VARIABLES status, attempt

ledger == <<status, attempt>>

Unsettled == {"queued", "running", "interrupted"}
Load == Cardinality({r \in Runs : status[r] \in Unsettled})

Init ==
  /\ status = [r \in Runs |-> "absent"]
  /\ attempt = [r \in Runs |-> 0]

Move(r, from, to) ==
  /\ status[r] \in from
  /\ status' = [status EXCEPT ![r] = to]
  /\ UNCHANGED attempt

Submit(r) == Load < Capacity /\ Move(r, {"absent"}, "queued")

Execute(r) ==
  /\ status[r] \in {"queued", "interrupted"}
  /\ Cardinality({q \in Runs : status[q] = "running"}) < Concurrency
  /\ status' = [status EXCEPT ![r] = "running"]
  /\ attempt' = [attempt EXCEPT ![r] = @ + 1]

Deliver(r) ==
  \E result \in {"completed", "insufficient", "failed"} :
    Move(r, {"running"}, result)

Interrupt(r) == Move(r, {"running"}, "interrupted")

Requeue(r) == Move(r, {"interrupted"}, "queued")

GiveUp(r) == Move(r, {"queued", "interrupted"}, "failed")

\* The user asks for a stopped run, or one that is still under way, again.
Reopen(r) ==
  \/ Load < Capacity /\ Move(r, {"failed", "cancelled"}, "queued")
  \/ Move(r, Unsettled, "queued")

Cancel(S) ==
  /\ \A r \in S : status[r] \in Unsettled
  /\ status' = [r \in Runs |-> IF r \in S THEN "cancelled" ELSE status[r]]
  /\ UNCHANGED attempt

Next ==
  \/ \E r \in Runs : \/ Submit(r) \/ Execute(r) \/ Deliver(r) \/ Interrupt(r)
                     \/ Requeue(r) \/ GiveUp(r) \/ Reopen(r)
  \/ \E S \in SUBSET Runs : Cancel(S)

Spec == Init /\ [][Next]_ledger

=============================================================================
