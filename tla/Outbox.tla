--------------------------------- MODULE Outbox ---------------------------------
(***************************************************************************)
(* The table business_outbox: commands committed with a change of a run    *)
(* and posted to the agent by the dispatcher of every service instance,    *)
(* under leases that may run out while an answer is still awaited.         *)
(*                                                                         *)
(* Time is abstract: `due` says that a row's next_attempt_at (pending) or  *)
(* lease_until (processing) has passed.  Runs, and with them their rows,   *)
(* are not deleted here.                                                   *)
(***************************************************************************)
EXTENDS Naturals

CONSTANTS
  Runs,
  Types,          \* kinds of commands: "schedule", "resume", "abort"
  Dispatchers,    \* instances of the business service
  MaxAttempts,    \* outbox-max-attempts
  MaxMessages,    \* bound of the model: rows
  MaxExecutions,  \* bound of the model: attempts of a run
  MaxIncidents,   \* bound of the model: dispatchers that stop, dead letters retried
  None

Messages == 1..MaxMessages

Undelivered == {"pending", "processing"}

Message == [run : Runs, type : Types, payload : Nat, attempts : 0..MaxAttempts, due : BOOLEAN,
            status : Undelivered \union {"delivered", "dead"},
            holder : Dispatchers \union {None}]
Answer == {"handled", "refused", "unanswered"}
Delivery == [id : Messages, payload : Nat, attempts : 1..MaxAttempts, answer : Answer \union {None}]

ASSUME OutboxAssumption ==
  /\ "abort" \in Types
  /\ MaxAttempts \in Nat \ {0}
  /\ MaxMessages \in Nat /\ MaxExecutions \in Nat
  /\ MaxIncidents \in Nat
  /\ None \notin Message /\ None \notin Delivery /\ None \notin Nat
  /\ None \notin Dispatchers /\ None \notin Answer

VARIABLES
  execution,  \* runs.attempt_count
  row,        \* business_outbox
  sending,    \* the row each dispatcher has claimed, and the agent's answer
  lastAbort,  \* history: the attempt the latest abort of a run names
  handled,    \* history: the commands the agent has handled
  incidents

outboxVars == <<execution, row, sending, lastAbort, handled, incidents>>

TypeOK ==
  /\ execution \in [Runs -> Nat]
  /\ row \in [Messages -> Message \union {None}]
  /\ sending \in [Dispatchers -> Delivery \union {None}]
  /\ lastAbort \in [Runs -> Nat \union {None}]
  /\ handled \subseteq Runs \X Types \X Nat
  /\ incidents \in Nat

Init ==
  /\ execution = [r \in Runs |-> 0]
  /\ row = [m \in Messages |-> None]
  /\ sending = [d \in Dispatchers |-> None]
  /\ lastAbort = [r \in Runs |-> None]
  /\ handled = {}
  /\ incidents = 0

Incident == incidents < MaxIncidents /\ incidents' = incidents + 1

-----------------------------------------------------------------------------
Stored == {m \in Messages : row[m] # None}

\* The row, if any, that the unique index on active commands compares with.
Active(r, t) ==
  {m \in Stored : /\ row[m].run = r /\ row[m].type = t
                  /\ row[m].status \in Undelivered}

Command(m) == <<row[m].run, row[m].type, row[m].payload>>

\* The columns every reset of a row sets: due at once, unclaimed, never tried.
Fresh(r, t, payload) ==
  [run |-> r, type |-> t, payload |-> payload, attempts |-> 0, due |-> TRUE,
   status |-> "pending", holder |-> None]

\* Mutant: an abort, too, leaves the active command of its run alone.
SupersedesNever(m, t, payload) == FALSE

\* ON CONFLICT: an abort of a later attempt takes the row over, everything else
\* leaves the active command alone.
Supersedes(m, t, payload) == t = "abort" /\ row[m].payload # payload

\* The transaction of a command reads attempt_count and inserts its row.
Enqueue(r, t) ==
  /\ \/ /\ Active(r, t) = {}
        /\ \E m \in Messages \ Stored :
             /\ \A n \in Messages \ Stored : m <= n
             /\ row' = [row EXCEPT ![m] = Fresh(r, t, execution[r])]
     \/ \E m \in Active(r, t) :
          row' = IF Supersedes(m, t, execution[r])
                 THEN [row EXCEPT ![m] = Fresh(r, t, execution[r])]
                 ELSE row
  /\ lastAbort' = IF t = "abort" THEN [lastAbort EXCEPT ![r] = execution[r]] ELSE lastAbort
  /\ UNCHANGED <<execution, sending, handled, incidents>>

\* A worker claims the run: later commands name a later attempt.
Execute(r) ==
  /\ execution[r] < MaxExecutions
  /\ execution' = [execution EXCEPT ![r] = @ + 1]
  /\ UNCHANGED <<row, sending, lastAbort, handled, incidents>>

\* next_attempt_at or lease_until passes.
Elapse(m) ==
  /\ m \in Stored
  /\ row[m].status \in Undelivered /\ ~row[m].due
  /\ row' = [row EXCEPT ![m].due = TRUE]
  /\ UNCHANGED <<execution, sending, lastAbort, handled, incidents>>

-----------------------------------------------------------------------------
(* A dispatcher works through due rows one at a time.                      *)

\* Mutant: a row is claimed although its attempts are exhausted.
ClaimableAgain(m) ==
  /\ m \in Stored
  /\ row[m].status \in Undelivered /\ row[m].due

Claimable(m) ==
  /\ m \in Stored
  /\ row[m].status \in Undelivered /\ row[m].due
  /\ row[m].attempts < MaxAttempts

Leased(m, d) ==
  [row[m] EXCEPT !.status = "processing", !.attempts = @ + 1, !.holder = d, !.due = FALSE]

\* A due row gets a new lease.  It is the oldest of those no other transaction has
\* locked (SKIP LOCKED), so it may be any of them.
Claim(d, m) ==
  /\ sending[d] = None
  /\ Claimable(m)
  /\ row' = [row EXCEPT ![m] = Leased(m, d)]
  /\ sending' = [sending EXCEPT ![d] = [id |-> m, payload |-> row[m].payload,
                                        attempts |-> row[m].attempts + 1,
                                        answer |-> None]]
  /\ UNCHANGED <<execution, lastAbort, handled, incidents>>

\* The agent handles the command, refuses it for good, or gives no answer: then
\* it may have handled it all the same.
Post(d, answer) ==
  /\ sending[d] # None
  /\ sending[d].answer = None
  /\ sending' = [sending EXCEPT ![d].answer = answer]
  /\ LET m == sending[d].id
         command == <<row[m].run, row[m].type, sending[d].payload>>
     IN CASE answer = "handled" -> handled' = handled \union {command}
          [] answer = "refused" -> UNCHANGED handled
          [] answer = "unanswered" -> handled' \in {handled, handled \union {command}}
  /\ UNCHANGED <<execution, row, lastAbort, incidents>>

\* Mutant: the result is recorded for whatever the row holds by now.
Processing(d) == row[sending[d].id].status = "processing"

\* Mutant: the result is recorded by id and payload.
SamePayload(d) == row[sending[d].id].payload = sending[d].payload

\* The predicate of the three updates that record a result.
Holds(d) ==
  LET m == row[sending[d].id] IN
  /\ m.status = "processing"
  /\ m.holder = d
  /\ m.payload = sending[d].payload

Result(d) ==
  CASE sending[d].answer = "handled" -> "delivered"
    [] sending[d].answer = "refused" -> "dead"
    [] sending[d].answer = "unanswered" ->
         IF sending[d].attempts >= MaxAttempts THEN "dead" ELSE "pending"

\* A retried row is not due before its back-off has passed.
Released(m, status) == [row[m] EXCEPT !.status = status, !.holder = None, !.due = FALSE]

Record(d) ==
  /\ sending[d] # None
  /\ sending[d].answer # None
  /\ row' = IF Holds(d)
            THEN [row EXCEPT ![sending[d].id] = Released(sending[d].id, Result(d))]
            ELSE row
  /\ sending' = [sending EXCEPT ![d] = None]
  /\ UNCHANGED <<execution, lastAbort, handled, incidents>>

\* The instance stops, or cannot reach the database, between claim and record.
Crash(d) ==
  /\ sending[d] # None
  /\ Incident
  /\ sending' = [sending EXCEPT ![d] = None]
  /\ UNCHANGED <<execution, row, lastAbort, handled>>

\* Mutant: a row whose dispatcher is gone is not looked at.
PendingExhausted(m) ==
  /\ m \in Stored
  /\ row[m].attempts >= MaxAttempts /\ row[m].status = "pending"

Exhausted(m) ==
  /\ m \in Stored
  /\ row[m].attempts >= MaxAttempts
  /\ \/ row[m].status = "pending"
     \/ row[m].status = "processing" /\ row[m].due

\* Every pass of a dispatcher starts with the rows whose last lease has run out.
ExpireExhausted(d) ==
  /\ sending[d] = None
  /\ \E m \in Messages : Exhausted(m)
  /\ row' = [m \in Messages |->
               IF Exhausted(m)
               THEN Released(m, "dead")
               ELSE row[m]]
  /\ UNCHANGED <<execution, sending, lastAbort, handled, incidents>>

\* An administrator retries a dead letter no active command has replaced.
RetryDead(m) ==
  /\ m \in Stored
  /\ row[m].status = "dead"
  /\ Active(row[m].run, row[m].type) = {}
  /\ Incident
  /\ row' = [row EXCEPT ![m] = Fresh(row[m].run, row[m].type, row[m].payload)]
  /\ UNCHANGED <<execution, sending, lastAbort, handled>>

-----------------------------------------------------------------------------
Dispatch(d) == ExpireExhausted(d) \/ \E m \in Messages : Claim(d, m)

Next ==
  \/ \E r \in Runs : Execute(r) \/ \E t \in Types : Enqueue(r, t)
  \/ \E m \in Messages : Elapse(m) \/ RetryDead(m)
  \/ \E d \in Dispatchers : \/ Dispatch(d) \/ Record(d) \/ Crash(d)
                            \/ \E answer \in Answer : Post(d, answer)

Spec == Init /\ [][Next]_outboxVars

\* Every instance schedules its dispatcher again and again, the HTTP client has a
\* time limit, and time passes.
Fairness ==
  /\ \A d \in Dispatchers :
       /\ WF_outboxVars(ExpireExhausted(d))
       /\ WF_outboxVars(\E m \in Messages : Claim(d, m))
       /\ WF_outboxVars(\E answer \in Answer : Post(d, answer))
       /\ WF_outboxVars(Record(d))
  /\ \A m \in Messages : WF_outboxVars(Elapse(m))

FairSpec == Spec /\ Fairness

-----------------------------------------------------------------------------
(* Properties.                                                             *)

\* A row is marked delivered only if the agent handled the command it holds: the
\* late result of an earlier lease or of a replaced payload never counts.
DeliveredWasHandled ==
  \A m \in Stored : row[m].status = "delivered" => Command(m) \in handled

\* The latest abort of a run has been handled, is under way, or is a dead letter
\* that administrators see: no older or retried command swallows it.
AbortNeverForgotten ==
  \A r \in Runs : lastAbort[r] # None =>
    \/ <<r, "abort", lastAbort[r]>> \in handled
    \/ \E m \in Stored : /\ Command(m) = <<r, "abort", lastAbort[r]>>
                         /\ row[m].status # "delivered"

\* A settled command stays settled: late results and expired leases change
\* neither a delivered row nor a dead letter, which only a retry brings back.
SettledStays ==
  [][\A m \in Stored :
       /\ row[m].status = "delivered" => row'[m] = row[m]
       /\ row[m].status = "dead" => row'[m] = row[m] \/ RetryDead(m)]_outboxVars

\* Every command is delivered or becomes a dead letter, although dispatchers stop
\* and answers are lost.
EveryCommandSettles ==
  \A m \in Messages : m \in Stored ~> (m \in Stored /\ row[m].status \in {"delivered", "dead"})

\* What Delivery sees of the table and of the dispatchers.
StateOf(m) ==
  IF m \notin Stored THEN "none"
  ELSE IF row[m].status \in Undelivered THEN "waiting" ELSE row[m].status

Posted(d) == <<row[sending[d].id].run, row[sending[d].id].type, sending[d].payload>>

Commands == [m \in Messages |-> IF m \in Stored THEN Command(m) ELSE None]
States == [m \in Messages |-> StateOf(m)]
Underway == {Posted(d) : d \in {e \in Dispatchers : sending[e] # None}}

Promises == INSTANCE Delivery WITH command <- Commands, state <- States, underway <- Underway

\* The table keeps the promises of Delivery, whatever leases, late results and retries do:
\* one command of a kind waits for a run, only what waited is sent, and only what was
\* handled is delivered (the unique index, enqueue, claimNext, deliver, fail, retryDeadLetter).
DeliverySpec == Promises!Spec

=============================================================================
