------------------------------ MODULE OutboxProofs ------------------------------
(***************************************************************************)
(* Theorems about Outbox, for any numbers of runs, rows, dispatchers and   *)
(* attempts.                                                               *)
(***************************************************************************)
EXTENDS Outbox, TLAPS

\* What a dispatcher works on is a row of the table, and what the agent has
\* confirmed to it has been handled.
SendInv ==
  \A d \in Dispatchers : sending[d] # None =>
    LET m == sending[d].id IN
    /\ row[m] # None
    /\ sending[d].answer = "handled"
         => <<row[m].run, row[m].type, sending[d].payload>> \in handled

-----------------------------------------------------------------------------
(* Types.                                                                  *)

\* The empty row is not a row.
LEMMA RowsAreReal == \A x \in Message : x # None
  BY OutboxAssumption

LEMMA AttemptsAreNumbers == MaxAttempts \in Nat \ {0}
  BY OutboxAssumption

\* A reset row has the type of a row.
LEMMA FreshType ==
  ASSUME NEW r \in Runs, NEW t \in Types, NEW p \in Nat
  PROVE  Fresh(r, t, p) \in Message
  BY OutboxAssumption DEF Fresh, Message, Undelivered

\* So has a leased one.
LEMMA LeasedType ==
  ASSUME NEW m \in Messages, NEW d \in Dispatchers, row[m] \in Message,
         row[m].attempts < MaxAttempts
  PROVE  Leased(m, d) \in Message
<1>1. row[m].attempts \in 0..MaxAttempts
  BY DEF Message
<1>2. row[m].attempts + 1 \in 0..MaxAttempts
  BY <1>1, AttemptsAreNumbers
<1>3. "processing" \in Undelivered \union {"delivered", "dead"}
  BY DEF Undelivered
<1> QED BY <1>2, <1>3 DEF Leased, Message

\* Commands keep the types.
LEMMA EnqueueTypes ==
  ASSUME TypeOK, NEW r \in Runs, NEW t \in Types, Enqueue(r, t) PROVE TypeOK'
<1>1. execution[r] \in Nat /\ Fresh(r, t, execution[r]) \in Message
  BY FreshType DEF TypeOK
<1>2. row' \in [Messages -> Message \union {None}]
  BY <1>1 DEF Enqueue, TypeOK
<1>3. lastAbort' \in [Runs -> Nat \union {None}]
  BY <1>1 DEF Enqueue, TypeOK
<1> QED BY <1>2, <1>3 DEF Enqueue, TypeOK

\* So do the steps of a dispatcher.
LEMMA DispatcherTypes ==
  ASSUME TypeOK, SendInv, NEW d \in Dispatchers,
         \/ Dispatch(d) \/ Record(d) \/ Crash(d)
         \/ \E answer \in Answer : Post(d, answer)
  PROVE  TypeOK'
<1>1. ASSUME NEW m \in Messages, Claim(d, m) PROVE TypeOK'
  <2>1. row[m] \in Message /\ row[m].attempts + 1 \in 1..MaxAttempts
    BY <1>1, OutboxAssumption DEF Claim, Claimable, Stored, TypeOK, Message
  <2>2. Leased(m, d) \in Message
    BY <1>1, <2>1, LeasedType DEF Claim, Claimable
  <2>3. row' \in [Messages -> Message \union {None}]
    BY <1>1, <2>1, <2>2 DEF Claim, TypeOK, Message
  <2>4. sending' \in [Dispatchers -> Delivery \union {None}]
    BY <1>1, <2>1 DEF Claim, TypeOK, Delivery, Message
  <2> QED BY <1>1, <2>3, <2>4 DEF Claim, TypeOK
<1>2. CASE ExpireExhausted(d)
  <2>1. ASSUME NEW m \in Messages, Exhausted(m)
        PROVE  Released(m, "dead") \in Message
    BY <2>1 DEF Exhausted, Stored, Released, TypeOK, Message
  <2>2. row' \in [Messages -> Message \union {None}]
    BY <1>2, <2>1 DEF ExpireExhausted, TypeOK
  <2> QED BY <1>2, <2>2 DEF ExpireExhausted, TypeOK
<1>3. ASSUME NEW answer \in Answer, Post(d, answer) PROVE TypeOK'
  <2>1. sending[d] \in Delivery
    BY <1>3 DEF Post, TypeOK
  <2>2. sending' \in [Dispatchers -> Delivery \union {None}]
    BY <1>3, <2>1 DEF Post, TypeOK, Delivery
  <2>3. <<row[sending[d].id].run, row[sending[d].id].type, sending[d].payload>>
          \in Runs \X Types \X Nat
    BY <1>3, <2>1 DEF SendInv, Post, TypeOK, Delivery, Message
  <2>4. handled' \subseteq Runs \X Types \X Nat
    BY <1>3, <2>3 DEF Post, Answer, TypeOK
  <2> QED BY <1>3, <2>2, <2>4 DEF Post, TypeOK
<1>4. CASE Record(d)
  <2>1. sending[d] \in Delivery /\ sending[d].answer \in Answer
    BY <1>4 DEF Record, TypeOK, Delivery
  <2>2. row[sending[d].id] \in Message
    BY <1>4, <2>1 DEF Record, SendInv, TypeOK, Delivery
  <2>3. Result(d) \in Undelivered \union {"delivered", "dead"}
    BY <2>1 DEF Result, Answer, Undelivered
  <2>4. Released(sending[d].id, Result(d)) \in Message
    BY <2>2, <2>3 DEF Released, Message
  <2>5. row' \in [Messages -> Message \union {None}]
    BY <1>4, <2>1, <2>2, <2>4 DEF Record, TypeOK, Message
  <2> QED BY <1>4, <2>5 DEF Record, TypeOK
<1>5. CASE Crash(d)
  BY <1>5 DEF Crash, Incident, TypeOK
<1> QED BY <1>1, <1>2, <1>3, <1>4, <1>5 DEF Dispatch

-----------------------------------------------------------------------------
(* What a step may do to a row.                                            *)

\* A row keeps its command, and becomes delivered only when a dispatcher records
\* that the agent handled the very payload the row holds ...
Keeps(m) ==
  /\ row'[m] # None
  /\ row'[m].run = row[m].run /\ row'[m].type = row[m].type
  /\ row'[m].payload = row[m].payload
  /\ row'[m].status = "delivered" =>
       \/ row[m].status = "delivered"
       \/ \E d \in Dispatchers : /\ sending[d] # None /\ sending[d].id = m
                                 /\ sending[d].answer = "handled"
                                 /\ sending[d].payload = row[m].payload

\* ... or a later abort of its run takes it over.
Superseded(m) ==
  /\ row[m].type = "abort"
  /\ row'[m] = Fresh(row[m].run, "abort", execution[row[m].run])
  /\ lastAbort' = [lastAbort EXCEPT ![row[m].run] = execution[row[m].run]]

LEMMA RowSteps ==
  ASSUME TypeOK, [Next]_outboxVars, NEW m \in Stored
  PROVE  Keeps(m) \/ Superseded(m)
<1>1. m \in Messages /\ row[m] \in Message /\ row[m] # None
  BY DEF Stored, TypeOK
<1>2. ASSUME row'[m] = row[m] PROVE Keeps(m)
  BY <1>1, <1>2 DEF Keeps
<1>3. ASSUME NEW r \in Runs, NEW t \in Types, Enqueue(r, t)
      PROVE  Keeps(m) \/ Superseded(m)
  <2>1. CASE row'[m] = row[m]
    BY <1>2, <2>1
  <2>2. CASE row'[m] # row[m]
    <3>1. m \in Active(r, t) /\ Supersedes(m, t, execution[r])
          /\ row'[m] = Fresh(r, t, execution[r])
      BY <1>1, <1>3, <2>2 DEF Enqueue, Stored, TypeOK
    <3> QED BY <1>3, <3>1 DEF Enqueue, Active, Supersedes, Superseded
  <2> QED BY <2>1, <2>2
<1>4. ASSUME NEW n \in Messages, Elapse(n) \/ RetryDead(n) PROVE Keeps(m)
  <2>1. CASE n # m
    BY <1>1, <1>2, <1>4, <2>1 DEF Elapse, RetryDead, TypeOK
  <2>2. CASE n = m /\ Elapse(m)
    <3>1. row'[m] = [row[m] EXCEPT !.due = TRUE]
      BY <1>1, <2>2 DEF Elapse, TypeOK
    <3>2. row'[m] \in Message
      BY <1>1, <3>1 DEF Message
    <3> QED BY <1>1, <3>1, <3>2, RowsAreReal DEF Keeps, Message
  <2>3. CASE n = m /\ RetryDead(m)
    <3>1. row'[m] = Fresh(row[m].run, row[m].type, row[m].payload)
      BY <1>1, <2>3 DEF RetryDead, TypeOK
    <3>2. row[m].run \in Runs /\ row[m].type \in Types /\ row[m].payload \in Nat
      BY <1>1 DEF Message
    <3>3. row'[m] \in Message
      BY <3>1, <3>2, FreshType
    <3>4. row'[m] # None
      BY <3>3, RowsAreReal
    <3>5. /\ row'[m].run = row[m].run /\ row'[m].type = row[m].type
          /\ row'[m].payload = row[m].payload /\ row'[m].status = "pending"
      BY <3>1 DEF Fresh
    <3> QED BY <3>4, <3>5 DEF Keeps
  <2> QED BY <1>4, <2>1, <2>2, <2>3
<1>5. ASSUME NEW d \in Dispatchers, NEW n \in Messages, Claim(d, n) PROVE Keeps(m)
  <2>1. CASE n # m
    BY <1>1, <1>2, <1>5, <2>1 DEF Claim, TypeOK
  <2>2. CASE n = m
    <3>1. row'[m] = Leased(m, d) /\ row[m].attempts < MaxAttempts
      BY <1>1, <1>5, <2>2 DEF Claim, Claimable, TypeOK
    <3>2. row'[m] \in Message
      BY <1>1, <3>1, LeasedType
    <3> QED BY <1>1, <3>1, <3>2, RowsAreReal DEF Keeps, Leased, Message
  <2> QED BY <2>1, <2>2
<1>6. ASSUME NEW d \in Dispatchers, ExpireExhausted(d) PROVE Keeps(m)
  <2>1. CASE ~Exhausted(m)
    BY <1>1, <1>2, <1>6, <2>1 DEF ExpireExhausted
  <2>2. CASE Exhausted(m)
    <3>1. row'[m] = Released(m, "dead")
      BY <1>1, <1>6, <2>2 DEF ExpireExhausted
    <3>2. row'[m] \in Message
      BY <1>1, <3>1 DEF Released, Message
    <3> QED BY <1>1, <3>1, <3>2, RowsAreReal DEF Keeps, Released, Message
  <2> QED BY <2>1, <2>2
<1>7. ASSUME NEW d \in Dispatchers, Record(d) PROVE Keeps(m)
  <2>1. CASE sending[d].id # m \/ ~Holds(d)
    BY <1>1, <1>2, <1>7, <2>1 DEF Record, TypeOK
  <2>2. CASE sending[d].id = m /\ Holds(d)
    <3>1. row'[m] = Released(m, Result(d))
      BY <1>1, <1>7, <2>2 DEF Record, TypeOK
    <3>2. sending[d].answer \in Answer /\ sending[d] # None
      BY <1>7 DEF Record, TypeOK, Delivery
    <3>3. row'[m] \in Message
      BY <1>1, <3>1, <3>2 DEF Released, Result, Answer, Message, Undelivered
    <3>4. row'[m].status = "delivered" => sending[d].answer = "handled"
      BY <1>1, <3>1, <3>2 DEF Released, Result, Answer, Message
    <3>5. sending[d].payload = row[m].payload
      BY <2>2 DEF Holds
    <3> QED BY <1>1, <2>2, <3>1, <3>2, <3>3, <3>4, <3>5, RowsAreReal
            DEF Keeps, Released, Message
  <2> QED BY <2>1, <2>2
<1>8. ASSUME NEW d \in Dispatchers, Crash(d) \/ \E answer \in Answer : Post(d, answer)
      PROVE  Keeps(m)
  BY <1>2, <1>8 DEF Crash, Post
<1>9. ASSUME NEW r \in Runs, Execute(r) PROVE Keeps(m)
  BY <1>2, <1>9 DEF Execute
<1>10. CASE UNCHANGED outboxVars
  BY <1>2, <1>10 DEF outboxVars
<1> QED BY <1>3, <1>4, <1>5, <1>6, <1>7, <1>8, <1>9, <1>10 DEF Next, Dispatch

\* What was handled is never forgotten.
LEMMA HandledGrows == ASSUME [Next]_outboxVars PROVE handled \subseteq handled'
  BY DEF Next, Dispatch, Enqueue, Execute, Elapse, Claim, Post, Record, Crash,
         ExpireExhausted, RetryDead, Answer, outboxVars

\* A stored row stays, with its run and type.
LEMMA RowsStay ==
  ASSUME TypeOK, [Next]_outboxVars, NEW m \in Stored
  PROVE  /\ row'[m] # None
         /\ row'[m].run = row[m].run /\ row'[m].type = row[m].type
<1>1. CASE Keeps(m)
  BY <1>1 DEF Keeps
<1>2. CASE Superseded(m)
  <2>1. row[m].run \in Runs /\ row[m].type = "abort"
    BY <1>2 DEF Superseded, Stored, TypeOK, Message
  <2>2. row'[m] \in Message
    BY <1>2, <2>1, FreshType, OutboxAssumption DEF Superseded, TypeOK
  <2>3. row'[m] # None
    BY <2>2, RowsAreReal
  <2>4. row'[m].run = row[m].run /\ row'[m].type = row[m].type
    BY <1>2 DEF Superseded, Fresh
  <2> QED BY <2>3, <2>4
<1> QED BY <1>1, <1>2, RowSteps

\* The actions that write the table.
LEMMA RowWriters ==
  ASSUME [Next]_outboxVars
  PROVE  \/ row' = row
         \/ \E r \in Runs, t \in Types : Enqueue(r, t)
         \/ \E m \in Messages : Elapse(m) \/ RetryDead(m)
         \/ \E d \in Dispatchers : \/ ExpireExhausted(d) \/ Record(d)
                                   \/ \E m \in Messages : Claim(d, m)
  BY DEF Next, Dispatch, Execute, Crash, Post, outboxVars

\* A row appears as a fresh command.
LEMMA NewRows ==
  ASSUME TypeOK, SendInv, [Next]_outboxVars, NEW m \in Messages, row[m] = None
  PROVE  \/ row'[m] = None
         \/ \E r \in Runs, t \in Types : row'[m] = Fresh(r, t, execution[r])
<1>1. ASSUME NEW r \in Runs, NEW t \in Types, Enqueue(r, t)
      PROVE  row'[m] = None \/ row'[m] = Fresh(r, t, execution[r])
  BY <1>1 DEF Enqueue, TypeOK
<1>2. ASSUME NEW n \in Messages, Elapse(n) \/ RetryDead(n) PROVE row'[m] = None
  BY <1>2 DEF Elapse, RetryDead, Stored, TypeOK
<1>3. ASSUME NEW d \in Dispatchers, NEW n \in Messages, Claim(d, n) PROVE row'[m] = None
  BY <1>3 DEF Claim, Claimable, Stored, TypeOK
<1>4. ASSUME NEW d \in Dispatchers, ExpireExhausted(d) PROVE row'[m] = None
  BY <1>4 DEF ExpireExhausted, Exhausted, Stored
<1>5. ASSUME NEW d \in Dispatchers, Record(d) PROVE row'[m] = None
  BY <1>5 DEF Record, SendInv, TypeOK
<1>6. CASE row' = row
  BY <1>6
<1> QED BY <1>1, <1>2, <1>3, <1>4, <1>5, <1>6, RowWriters

-----------------------------------------------------------------------------
(* What dispatchers know.                                                  *)

\* A dispatcher keeps its delivery, ends it, claims a row or hears an answer.
LEMMA SendingSteps ==
  ASSUME TypeOK, [Next]_outboxVars, NEW d \in Dispatchers
  PROVE  \/ sending'[d] = sending[d]
         \/ sending'[d] = None
         \/ \E m \in Messages : Claim(d, m)
         \/ \E answer \in Answer : Post(d, answer)
<1>1. ASSUME NEW e \in Dispatchers, e # d,
             \/ Dispatch(e) \/ Record(e) \/ Crash(e)
             \/ \E answer \in Answer : Post(e, answer)
      PROVE  sending'[d] = sending[d]
  BY <1>1 DEF Dispatch, Claim, ExpireExhausted, Record, Crash, Post, TypeOK
<1>2. CASE Dispatch(d) \/ Record(d) \/ Crash(d)
  BY <1>2 DEF Dispatch, ExpireExhausted, Record, Crash, TypeOK
<1> QED BY <1>1, <1>2 DEF Next, Enqueue, Execute, Elapse, RetryDead, outboxVars

\* SendInv is kept: rows stay and what was handled stays handled.
LEMMA SendStep == ASSUME TypeOK, SendInv, [Next]_outboxVars PROVE SendInv'
<1> SUFFICES ASSUME NEW d \in Dispatchers, sending'[d] # None
             PROVE  /\ row'[sending'[d].id] # None
                    /\ sending'[d].answer = "handled"
                         => <<row'[sending'[d].id].run, row'[sending'[d].id].type,
                              sending'[d].payload>> \in handled'
  BY DEF SendInv
<1>1. CASE sending'[d] = sending[d]
  <2> DEFINE m == sending[d].id
  <2>1. m \in Stored
    BY <1>1 DEF SendInv, Stored, TypeOK, Delivery
  <2>2. /\ row'[m] # None
        /\ row'[m].run = row[m].run /\ row'[m].type = row[m].type
    BY <2>1, RowsStay
  <2> QED BY <1>1, <2>2, HandledGrows DEF SendInv
<1>2. ASSUME NEW m \in Messages, Claim(d, m) PROVE sending'[d].id = m /\ sending'[d].answer = None
  BY <1>2 DEF Claim, TypeOK
<1>3. ASSUME NEW m \in Messages, Claim(d, m)
      PROVE  row'[m] # None
  BY <1>3, RowsStay DEF Claim, Claimable
<1>4. ASSUME NEW answer \in Answer, Post(d, answer)
      PROVE  /\ row'[sending'[d].id] # None
             /\ sending'[d].answer = "handled"
                  => <<row'[sending'[d].id].run, row'[sending'[d].id].type,
                       sending'[d].payload>> \in handled'
  <2>1. sending[d] \in Delivery /\ row' = row
    BY <1>4 DEF Post, TypeOK
  <2>2. /\ sending'[d].id = sending[d].id /\ sending'[d].payload = sending[d].payload
        /\ sending'[d].answer = answer
    BY <1>4, <2>1 DEF Post, TypeOK, Delivery
  <2>3. answer = "handled" =>
          <<row[sending[d].id].run, row[sending[d].id].type, sending[d].payload>> \in handled'
    BY <1>4 DEF Post
  <2>4. row[sending[d].id] # None
    BY <1>4 DEF Post, SendInv
  <2> QED BY <2>1, <2>2, <2>3, <2>4
<1>5. None # "handled"
  BY OutboxAssumption DEF Answer
<1> QED BY <1>1, <1>2, <1>3, <1>4, <1>5, SendingSteps

\* Rows, deliveries and histories have their types, and dispatchers know what
\* SendInv says.
THEOREM TypeCorrect == Spec => [](TypeOK /\ SendInv)
<1>1. Init => TypeOK /\ SendInv
  BY DEF Init, TypeOK, SendInv
<1>2. TypeOK /\ SendInv /\ [Next]_outboxVars => (TypeOK /\ SendInv)'
  <2> SUFFICES ASSUME TypeOK, SendInv, [Next]_outboxVars PROVE TypeOK' /\ SendInv'
    OBVIOUS
  <2>1. ASSUME NEW r \in Runs, NEW t \in Types, Enqueue(r, t) PROVE TypeOK'
    BY <2>1, EnqueueTypes
  <2>2. ASSUME NEW r \in Runs, Execute(r) PROVE TypeOK'
    BY <2>2 DEF Execute, TypeOK
  <2>3. ASSUME NEW m \in Messages, Elapse(m) PROVE TypeOK'
    <3>1. [row[m] EXCEPT !.due = TRUE] \in Message
      BY <2>3 DEF Elapse, Stored, TypeOK, Message
    <3>2. row' = [row EXCEPT ![m] = [row[m] EXCEPT !.due = TRUE]]
      BY <2>3 DEF Elapse
    <3>3. row' \in [Messages -> Message \union {None}]
      BY <3>1, <3>2 DEF TypeOK
    <3> QED BY <2>3, <3>3 DEF Elapse, TypeOK
  <2>4. ASSUME NEW m \in Messages, RetryDead(m) PROVE TypeOK'
    <3>1. row[m].run \in Runs /\ row[m].type \in Types /\ row[m].payload \in Nat
      BY <2>4 DEF RetryDead, Stored, TypeOK, Message
    <3>2. row' \in [Messages -> Message \union {None}]
      BY <2>4, <3>1, FreshType DEF RetryDead, TypeOK
    <3> QED BY <2>4, <3>2 DEF RetryDead, Incident, TypeOK
  <2>5. ASSUME UNCHANGED outboxVars PROVE TypeOK'
    BY <2>5 DEF outboxVars, TypeOK
  <2> QED BY <2>1, <2>2, <2>3, <2>4, <2>5, DispatcherTypes, SendStep DEF Next
<1> QED BY <1>1, <1>2, PTL DEF Spec

-----------------------------------------------------------------------------
(* The properties.                                                         *)

\* No late result marks a command delivered that the agent has not handled.
THEOREM DeliveredOnlyHandled == Spec => []DeliveredWasHandled
<1>1. Init => DeliveredWasHandled
  BY DEF Init, DeliveredWasHandled, Stored
<1>2. TypeOK /\ SendInv /\ DeliveredWasHandled /\ [Next]_outboxVars => DeliveredWasHandled'
  <2> SUFFICES ASSUME TypeOK, SendInv, DeliveredWasHandled, [Next]_outboxVars,
                      NEW m \in Messages, row'[m] # None, row'[m].status = "delivered"
               PROVE  <<row'[m].run, row'[m].type, row'[m].payload>> \in handled'
    BY DEF DeliveredWasHandled, Stored, Command
  <2>1. m \in Stored
    <3> SUFFICES ASSUME row[m] = None PROVE FALSE
      BY DEF Stored
    <3>1. PICK r \in Runs, t \in Types : row'[m] = Fresh(r, t, execution[r])
      BY NewRows
    <3> QED BY <3>1 DEF Fresh
  <2>2. CASE Keeps(m)
    <3>1. row[m].status = "delivered" => Command(m) \in handled
      BY <2>1 DEF DeliveredWasHandled
    <3>2. row[m].status # "delivered" => Command(m) \in handled
      BY <2>2 DEF Keeps, SendInv, Command
    <3> QED BY <2>2, <3>1, <3>2, HandledGrows DEF Keeps, Command
  <2>3. CASE Superseded(m)
    BY <2>3 DEF Superseded, Fresh
  <2> QED BY <2>1, <2>2, <2>3, RowSteps
<1> QED BY <1>1, <1>2, TypeCorrect, PTL DEF Spec

\* The latest abort of a run changes with an abort only.
LEMMA LastAbortSteps ==
  ASSUME TypeOK, [Next]_outboxVars, NEW r \in Runs
  PROVE  lastAbort'[r] = lastAbort[r] \/ Enqueue(r, "abort")
<1>1. ASSUME NEW q \in Runs, NEW t \in Types, Enqueue(q, t)
      PROVE  lastAbort'[r] = lastAbort[r] \/ Enqueue(r, "abort")
  BY <1>1 DEF Enqueue, TypeOK
<1> QED BY <1>1 DEF Next, Dispatch, Execute, Elapse, RetryDead, Claim, ExpireExhausted,
                    Record, Crash, Post, outboxVars

\* The latest abort of a run is handled, under way, or a dead letter.
THEOREM AbortKept == Spec => []AbortNeverForgotten
<1> DEFINE Waits(m, r, n) == /\ Command(m) = <<r, "abort", n>>
                             /\ row[m].status # "delivered"
<1>1. Init => AbortNeverForgotten
  BY DEF Init, AbortNeverForgotten
<1>2. TypeOK /\ SendInv /\ AbortNeverForgotten /\ [Next]_outboxVars => AbortNeverForgotten'
  <2> SUFFICES ASSUME TypeOK, SendInv, AbortNeverForgotten, [Next]_outboxVars,
                      NEW r \in Runs, lastAbort'[r] # None,
                      <<r, "abort", lastAbort'[r]>> \notin handled'
               PROVE  \E m \in Messages :
                        /\ row'[m] # None
                        /\ <<row'[m].run, row'[m].type, row'[m].payload>>
                             = <<r, "abort", lastAbort'[r]>>
                        /\ row'[m].status # "delivered"
    BY DEF AbortNeverForgotten, Stored, Command
  <2>1. CASE lastAbort'[r] = lastAbort[r]
    <3>1. PICK m \in Stored : Waits(m, r, lastAbort[r])
      BY <2>1, HandledGrows DEF AbortNeverForgotten
    <3>2. m \in Messages /\ row'[m] # None
      BY RowsStay DEF Stored
    <3>3. CASE Keeps(m)
      <4>1. row'[m].status # "delivered"
        <5> SUFFICES ASSUME row'[m].status = "delivered" PROVE FALSE
          OBVIOUS
        <5>1. Command(m) \in handled
          BY <3>1, <3>3 DEF Keeps, SendInv, Command
        <5> QED BY <2>1, <3>1, <5>1, HandledGrows
      <4> QED BY <2>1, <3>1, <3>2, <3>3, <4>1 DEF Keeps, Command
    <3>4. CASE Superseded(m)
      <4>1. row[m].run = r /\ row[m].type = "abort"
        BY <3>1 DEF Command
      <4>2. lastAbort'[r] = execution[r]
        BY <3>4, <4>1 DEF Superseded, TypeOK
      <4> QED BY <3>2, <3>4, <4>1, <4>2 DEF Superseded, Fresh
    <3> QED BY <3>3, <3>4, RowSteps
  <2>2. CASE Enqueue(r, "abort")
    <3>1. lastAbort'[r] = execution[r] /\ execution[r] \in Nat
      BY <2>2 DEF Enqueue, TypeOK
    <3>2. Fresh(r, "abort", execution[r]) # None
      BY <3>1, FreshType, RowsAreReal, OutboxAssumption
    <3>3. CASE \E m \in Messages : row'[m] = Fresh(r, "abort", execution[r])
      BY <3>1, <3>2, <3>3 DEF Fresh
    <3>4. CASE \E m \in Active(r, "abort") : row' = row /\ row[m].payload = execution[r]
      <4>1. PICK m \in Active(r, "abort") : row' = row /\ row[m].payload = execution[r]
        BY <3>4
      <4> QED BY <3>1, <4>1 DEF Active, Stored, Undelivered
    <3>5. \/ \E m \in Messages : row'[m] = Fresh(r, "abort", execution[r])
          \/ \E m \in Active(r, "abort") : row' = row /\ row[m].payload = execution[r]
      BY <2>2 DEF Enqueue, Supersedes, Active, Stored, TypeOK
    <3> QED BY <3>3, <3>4, <3>5
  <2> QED BY <2>1, <2>2, LastAbortSteps
<1> QED BY <1>1, <1>2, TypeCorrect, PTL DEF Spec

\* A delivered row is final, and a dead letter waits for a retry.
THEOREM SettledIsFinal == Spec => SettledStays
<1> DEFINE Stays == \A m \in Stored :
       /\ row[m].status = "delivered" => row'[m] = row[m]
       /\ row[m].status = "dead" => row'[m] = row[m] \/ RetryDead(m)
<1>1. TypeOK /\ [Next]_outboxVars => [Stays]_outboxVars
  <2> SUFFICES ASSUME TypeOK, [Next]_outboxVars, NEW m \in Stored,
                      row[m].status \notin Undelivered
               PROVE  row'[m] = row[m] \/ (row[m].status = "dead" /\ RetryDead(m))
    BY DEF Undelivered
  <2> USE DEF Stored
  <2>1. ASSUME NEW r \in Runs, NEW t \in Types, Enqueue(r, t) PROVE row'[m] = row[m]
    BY <2>1 DEF Enqueue, Active, TypeOK
  <2>2. ASSUME NEW n \in Messages, Elapse(n) PROVE row'[m] = row[m]
    BY <2>2 DEF Elapse, TypeOK
  <2>3. ASSUME NEW n \in Messages, RetryDead(n)
        PROVE  row'[m] = row[m] \/ (row[m].status = "dead" /\ RetryDead(m))
    <3>1. CASE n = m
      BY <2>3, <3>1 DEF RetryDead
    <3>2. CASE n # m
      BY <2>3, <3>2 DEF RetryDead, TypeOK
    <3> QED BY <3>1, <3>2
  <2>4. ASSUME NEW d \in Dispatchers, NEW n \in Messages, Claim(d, n) PROVE row'[m] = row[m]
    BY <2>4 DEF Claim, Claimable, TypeOK
  <2>5. ASSUME NEW d \in Dispatchers, ExpireExhausted(d) PROVE row'[m] = row[m]
    BY <2>5 DEF ExpireExhausted, Exhausted, Undelivered
  <2>6. ASSUME NEW d \in Dispatchers, Record(d) PROVE row'[m] = row[m]
    BY <2>6 DEF Record, Holds, Undelivered, TypeOK
  <2>7. ASSUME row' = row PROVE row'[m] = row[m]
    BY <2>7
  <2>8. \/ row' = row
        \/ \E r \in Runs, t \in Types : Enqueue(r, t)
        \/ \E n \in Messages : Elapse(n) \/ RetryDead(n)
        \/ \E d \in Dispatchers : \/ ExpireExhausted(d) \/ Record(d)
                                  \/ \E n \in Messages : Claim(d, n)
    BY RowWriters
  <2> QED BY <2>1, <2>2, <2>3, <2>4, <2>5, <2>6, <2>7, <2>8
<1> QED BY <1>1, TypeCorrect, PTL DEF Spec, SettledStays

-----------------------------------------------------------------------------
(* Outbox implements Delivery.                                             *)

\* The agent's view of a dispatcher stays as long as its delivery does.
LEMMA PostedStays ==
  ASSUME TypeOK, SendInv, [Next]_outboxVars, NEW d \in Dispatchers,
         sending[d] # None, sending'[d] = sending[d]
  PROVE  Posted(d)' = Posted(d)
<1>1. sending[d].id \in Stored
  BY DEF SendInv, Stored, TypeOK, Delivery
<1> QED BY <1>1, RowsStay DEF Posted

LEMMA UnderwayKept ==
  ASSUME TypeOK, SendInv, [Next]_outboxVars, UNCHANGED sending
  PROVE  Underway' = Underway
<1>1. \A d \in Dispatchers : sending[d] # None => Posted(d)' = Posted(d)
  BY PostedStays
<1>2. \A d \in Dispatchers : sending'[d] = sending[d]
  OBVIOUS
<1> QED BY <1>1, <1>2 DEF Underway

LEMMA UnderwayShrinks ==
  ASSUME TypeOK, SendInv, [Next]_outboxVars, NEW d \in Dispatchers,
         sending' = [sending EXCEPT ![d] = None]
  PROVE  Underway' \subseteq Underway
<1>1. \A e \in Dispatchers :
        sending'[e] # None => sending[e] # None /\ Posted(e)' = Posted(e)
  BY PostedStays DEF TypeOK
<1> QED BY <1>1 DEF Underway

\* A step that rewrites one row, with the command it had, leaves the commands alone.
Rewritten(m, x) ==
  /\ row' = [row EXCEPT ![m] = x]
  /\ x # None
  /\ x.run = row[m].run /\ x.type = row[m].type /\ x.payload = row[m].payload

LEMMA RewrittenRows ==
  ASSUME TypeOK, NEW m \in Stored, NEW x, Rewritten(m, x)
  PROVE  /\ Commands' = Commands
         /\ States' = [States EXCEPT ![m] = IF x.status \in Undelivered THEN "waiting"
                                            ELSE x.status]
<1>1. m \in Messages /\ row[m] # None /\ row'[m] = x
      /\ \A n \in Messages : n # m => row'[n] = row[n]
  BY DEF Rewritten, Stored, TypeOK
<1>2. \A n \in Messages : n \in Stored' <=> n \in Stored
  BY <1>1 DEF Rewritten, Stored
<1>3. \A n \in Stored : Command(n)' = Command(n)
  BY <1>1 DEF Rewritten, Command, Stored
<1>4. \A n \in Messages \ {m} : StateOf(n)' = StateOf(n)
  BY <1>1, <1>2 DEF StateOf
<1>5. StateOf(m)' = IF x.status \in Undelivered THEN "waiting" ELSE x.status
  BY <1>1, <1>2 DEF StateOf
<1>6. Commands' = Commands
  BY <1>2, <1>3 DEF Commands
<1> QED BY <1>4, <1>5, <1>6 DEF States

\* What a step of the outbox is to Delivery.
Delivers == [Promises!Next]_Promises!deliveryVars

LEMMA EnqueueDelivers ==
  ASSUME TypeOK, SendInv, NEW r \in Runs, NEW t \in Types, Enqueue(r, t)
  PROVE  Delivers
<1> DEFINE f == Fresh(r, t, execution[r])
<1>0. [Next]_outboxVars
  BY DEF Next
<1>1. execution[r] \in Nat /\ f \in Message /\ f # None
  BY FreshType, RowsAreReal DEF TypeOK
<1>2. f.run = r /\ f.type = t /\ f.payload = execution[r] /\ f.status = "pending"
  BY DEF Fresh
<1>3. <<r, t, execution[r]>> \in Promises!Command
  BY <1>1 DEF Promises!Command
<1>4. Underway' = Underway /\ UNCHANGED handled
  BY <1>0, UnderwayKept DEF Enqueue
<1>5. ASSUME NEW m \in Messages, row' = [row EXCEPT ![m] = f]
      PROVE  /\ Commands' = [Commands EXCEPT ![m] = <<r, t, execution[r]>>]
             /\ States' = [States EXCEPT ![m] = "waiting"]
  <2>1. row'[m] = f /\ \A n \in Messages : n # m => row'[n] = row[n]
    BY <1>5 DEF TypeOK
  <2>2. m \in Stored' /\ Command(m)' = <<r, t, execution[r]>> /\ StateOf(m)' = "waiting"
    BY <1>1, <1>2, <2>1 DEF Stored, Command, StateOf, Undelivered
  <2>3. \A n \in Messages \ {m} : (n \in Stored' <=> n \in Stored) /\ Command(n)' = Command(n)
                                    /\ StateOf(n)' = StateOf(n)
    BY <2>1 DEF Stored, Command, StateOf
  <2> QED BY <2>2, <2>3 DEF Commands, States
<1>6. ASSUME Active(r, t) = {}, NEW m \in Messages \ Stored, row' = [row EXCEPT ![m] = f]
      PROVE  Promises!Accept(m)
  <2>1. Commands'[m] = <<r, t, execution[r]>> /\ States[m] = "none"
    BY <1>5, <1>6 DEF Commands, States, StateOf
  <2>2. ASSUME NEW n \in Messages \ {m}, States[n] = "waiting",
               Commands[n][1] = r, Commands[n][2] = t
        PROVE  FALSE
    <3>1. n \in Stored /\ row[n].status \in Undelivered
      BY <2>2 DEF States, StateOf, Stored, TypeOK, Message
    <3>2. row[n].run = r /\ row[n].type = t
      BY <2>2, <3>1 DEF Commands, Command
    <3> QED BY <1>6, <3>1, <3>2 DEF Active
  <2>3. Commands' = [Commands EXCEPT ![m] = <<r, t, execution[r]>>]
        /\ States' = [States EXCEPT ![m] = "waiting"]
    BY <1>5, <1>6
  <2>4. Promises!Replace(m)
    BY <1>3, <1>4, <2>1, <2>3 DEF Promises!Replace
  <2>5. Promises!Alone(m, Commands'[m])
    BY <2>1, <2>2 DEF Promises!Alone, Promises!Waiting
  <2> QED BY <2>1, <2>3, <2>4, <2>5 DEF Promises!Accept
<1>7. ASSUME NEW m \in Active(r, t), Supersedes(m, t, execution[r]),
             row' = [row EXCEPT ![m] = f]
      PROVE  Promises!Supersede(m)
  <2>1. m \in Messages /\ t = "abort" /\ Commands[m][1] = r /\ Commands[m][2] = t
        /\ States[m] = "waiting"
    BY <1>7 DEF Active, Stored, Supersedes, Commands, Command, States, StateOf
  <2>2. Commands' = [Commands EXCEPT ![m] = <<r, t, execution[r]>>]
        /\ States' = [States EXCEPT ![m] = "waiting"]
    BY <1>5, <1>7, <2>1
  <2>3. States' = States /\ Commands'[m] = <<r, t, execution[r]>>
    BY <2>1, <2>2 DEF States, Commands
  <2>4. Promises!Replace(m)
    BY <1>3, <1>4, <2>2, <2>3 DEF Promises!Replace
  <2> QED BY <2>1, <2>3, <2>4 DEF Promises!Supersede, Promises!Waiting
<1>8. CASE row' = row
  <2>1. Commands' = Commands /\ States' = States
    BY <1>8 DEF Commands, States, StateOf, Stored, Command
  <2> QED BY <1>4, <2>1 DEF Delivers, Promises!deliveryVars
<1>9. \/ Active(r, t) = {} /\ \E m \in Messages \ Stored : row' = [row EXCEPT ![m] = f]
      \/ \E m \in Active(r, t) : Supersedes(m, t, execution[r]) /\ row' = [row EXCEPT ![m] = f]
      \/ row' = row
  BY DEF Enqueue
<1> QED BY <1>6, <1>7, <1>8, <1>9 DEF Delivers, Promises!Next, Active, Stored

\* A step that gives up some waiting commands, and that may end a delivery.
LEMMA GivesUp ==
  ASSUME NEW S \in SUBSET Messages, \A m \in S : States[m] = "waiting",
         \A m \in Messages : States'[m] = IF m \in S THEN "dead" ELSE States[m],
         Commands' = Commands, Underway' \subseteq Underway, UNCHANGED handled
  PROVE  Delivers
<1>1. States' = [m \in Messages |-> IF m \in S THEN "dead" ELSE States[m]]
  BY DEF States
<1>2. Promises!GiveUp(S)
  BY <1>1 DEF Promises!GiveUp, Promises!Waiting, Promises!Forget
<1> QED BY <1>2 DEF Delivers, Promises!Next

\* A step that at most ends deliveries.
LEMMA Forgets ==
  ASSUME UNCHANGED <<Commands, States, handled>>, Underway' \subseteq Underway
  PROVE  Delivers
<1>1. States' = [m \in Messages |-> IF m \in {} THEN "dead" ELSE States[m]]
  BY DEF States
<1>2. Promises!GiveUp({})
  BY <1>1 DEF Promises!GiveUp, Promises!Forget
<1> QED BY <1>2 DEF Delivers, Promises!Next

LEMMA DispatchDelivers ==
  ASSUME TypeOK, SendInv, NEW d \in Dispatchers, Dispatch(d)
  PROVE  Delivers
<1>0. [Next]_outboxVars
  BY DEF Next
<1>1. ASSUME NEW m \in Messages, Claim(d, m) PROVE Delivers
  <2>1. m \in Stored /\ row[m] \in Message /\ row[m].status \in Undelivered
        /\ row[m].attempts < MaxAttempts
    BY <1>1 DEF Claim, Claimable, Stored, TypeOK
  <2>2. Leased(m, d) \in Message
    BY <2>1, LeasedType
  <2>3. Rewritten(m, Leased(m, d)) /\ Leased(m, d).status = "processing"
    BY <1>1, <2>1, <2>2, RowsAreReal DEF Claim, Rewritten, Leased, Message
  <2>4. Commands' = Commands /\ States' = States /\ States[m] = "waiting"
    <3>1. Commands' = Commands /\ States' = [States EXCEPT ![m] = "waiting"]
      BY <2>1, <2>3, RewrittenRows DEF Undelivered
    <3>2. States[m] = "waiting"
      BY <2>1 DEF States, StateOf, Stored
    <3> QED BY <3>1, <3>2 DEF States
  <2>5. \A e \in Dispatchers \ {d} : sending'[e] = sending[e]
    BY <1>1 DEF Claim, TypeOK
  <2>6. /\ sending'[d] # None /\ sending'[d].id = m /\ sending'[d].payload = row[m].payload
    <3>1. sending' \in [Dispatchers -> Delivery \union {None}]
      BY <1>0, <1>1, DispatcherTypes DEF Dispatch, TypeOK
    <3>2. sending'[d] = [id |-> m, payload |-> row[m].payload, attempts |-> row[m].attempts + 1,
                         answer |-> None]
      BY <1>1 DEF Claim, TypeOK
    <3>3. row[m].payload \in Nat /\ row[m].attempts + 1 \in 1..MaxAttempts
      BY <2>1, AttemptsAreNumbers DEF Message
    <3>4. sending'[d] \in Delivery
      BY <3>2, <3>3 DEF Delivery
    <3> QED BY <3>2, <3>4, OutboxAssumption
  <2>7. Posted(d)' = Command(m)
    <3>1. row'[m].run = row[m].run /\ row'[m].type = row[m].type
      BY <2>1, <1>0, RowsStay
    <3> QED BY <2>6, <3>1 DEF Posted, Command
  <2>8. sending[d] = None
    BY <1>1 DEF Claim
  <2>9. \A e \in Dispatchers \ {d} : sending[e] # None => Posted(e)' = Posted(e)
    BY <1>0, <2>5, PostedStays
  <2>10. Underway' = Underway \union {Commands[m]}
    <3>1. Commands[m] = Command(m)
      BY <2>1 DEF Commands
    <3> QED BY <2>5, <2>6, <2>7, <2>8, <2>9, <3>1 DEF Underway
  <2>11. Promises!Send(m)
    BY <1>1, <2>4, <2>10 DEF Promises!Send, Promises!Waiting, Claim
  <2> QED BY <2>11 DEF Delivers, Promises!Next
<1>2. CASE ExpireExhausted(d)
  <2> DEFINE S == {m \in Messages : Exhausted(m)}
  <2>1. \A m \in Messages : row'[m] = IF m \in S THEN Released(m, "dead") ELSE row[m]
    BY <1>2 DEF ExpireExhausted
  <2>2. \A m \in S : /\ m \in Stored /\ row[m] \in Message /\ row[m].status \in Undelivered
    BY DEF Exhausted, Stored, TypeOK, Undelivered
  <2>3. \A m \in S : /\ Released(m, "dead") \in Message
                     /\ Released(m, "dead").run = row[m].run
                     /\ Released(m, "dead").type = row[m].type
                     /\ Released(m, "dead").payload = row[m].payload
                     /\ Released(m, "dead").status = "dead"
    BY <2>2 DEF Released, Message
  <2>4. \A m \in Messages : m \in Stored' <=> m \in Stored
    BY <2>1, <2>2, <2>3, RowsAreReal DEF Stored
  <2>5. \A m \in Stored : Command(m)' = Command(m)
    BY <2>1, <2>2, <2>3 DEF Command, Stored
  <2>6. Commands' = Commands
    BY <2>4, <2>5 DEF Commands
  <2>7. \A m \in Messages : States'[m] = IF m \in S THEN "dead" ELSE States[m]
    BY <2>1, <2>2, <2>3, <2>4 DEF States, StateOf, Undelivered
  <2>8. \A m \in S : States[m] = "waiting"
    BY <2>2 DEF States, StateOf
  <2>9. Underway' \subseteq Underway /\ UNCHANGED handled
    BY <1>0, <1>2, UnderwayKept DEF ExpireExhausted
  <2> HIDE DEF S
  <2>10. S \in SUBSET Messages
    BY DEF S
  <2> QED BY <2>6, <2>7, <2>8, <2>9, <2>10, GivesUp
<1> QED BY <1>1, <1>2 DEF Dispatch

LEMMA RecordDelivers ==
  ASSUME TypeOK, SendInv, NEW d \in Dispatchers, Record(d) \/ Crash(d)
  PROVE  Delivers
<1>0. [Next]_outboxVars
  BY DEF Next
<1>1. sending' = [sending EXCEPT ![d] = None] /\ UNCHANGED handled
  BY DEF Record, Crash
<1>2. Underway' \subseteq Underway
  BY <1>0, <1>1, UnderwayShrinks
<1>3. ASSUME row' = row PROVE Delivers
  <2>1. Commands' = Commands /\ States' = States
    BY <1>3 DEF Commands, States, StateOf, Stored, Command
  <2> QED BY <1>1, <1>2, <2>1, Forgets
<1>4. CASE Record(d) /\ Holds(d)
  <2> DEFINE m == sending[d].id
             x == Released(m, Result(d))
  <2>1. sending[d] # None /\ sending[d] \in Delivery /\ sending[d].answer \in Answer
    BY <1>4 DEF Record, TypeOK, Delivery
  <2>2. m \in Stored /\ row[m] \in Message
    BY <2>1 DEF SendInv, Stored, TypeOK, Delivery
  <2>3. Result(d) \in {"delivered", "dead", "pending"}
        /\ (Result(d) = "delivered" => sending[d].answer = "handled")
    BY <2>1 DEF Result, Answer
  <2>4. x \in Message /\ x.run = row[m].run /\ x.type = row[m].type
        /\ x.payload = row[m].payload /\ x.status = Result(d)
    BY <2>2, <2>3 DEF Released, Message, Undelivered
  <2>5. Rewritten(m, x)
    BY <1>4, <2>4, RowsAreReal DEF Record, Rewritten
  <2>6. Commands' = Commands
        /\ States' = [States EXCEPT ![m] = IF Result(d) \in Undelivered THEN "waiting"
                                           ELSE Result(d)]
    BY <2>2, <2>4, <2>5, RewrittenRows
  <2>7. States[m] = "waiting"
    BY <1>4, <2>2 DEF Holds, States, StateOf, Undelivered, Stored
  <2>8. m \in Messages /\ States = [n \in Messages |-> States[n]]
    BY <2>2 DEF Stored, States
  <2>9. CASE Result(d) = "delivered"
    <3>1. Commands[m] \in handled
      <4>1. <<row[m].run, row[m].type, sending[d].payload>> \in handled
        BY <2>1, <2>3, <2>9 DEF SendInv
      <4>2. sending[d].payload = row[m].payload
        BY <1>4 DEF Holds
      <4> QED BY <2>2, <4>1, <4>2 DEF Commands, Command, Stored
    <3>2. States' = [States EXCEPT ![m] = "delivered"]
      BY <2>6, <2>9 DEF Undelivered
    <3>3. Promises!Settle(m)
      BY <1>1, <1>2, <2>6, <2>7, <3>1, <3>2
      DEF Promises!Settle, Promises!Waiting, Promises!Forget
    <3> QED BY <2>8, <3>3 DEF Delivers, Promises!Next
  <2>10. CASE Result(d) = "dead"
    <3>1. \A n \in Messages : States'[n] = IF n \in {m} THEN "dead" ELSE States[n]
      BY <2>6, <2>8, <2>10 DEF Undelivered
    <3> QED BY <1>1, <1>2, <2>6, <2>7, <2>8, <3>1, GivesUp
  <2>11. CASE Result(d) = "pending"
    <3>1. States' = States
      BY <2>6, <2>7, <2>8, <2>11 DEF Undelivered
    <3> QED BY <1>1, <1>2, <2>6, <3>1, Forgets
  <2> QED BY <2>3, <2>9, <2>10, <2>11
<1> QED BY <1>3, <1>4 DEF Record, Crash

LEMMA RetryDelivers ==
  ASSUME TypeOK, SendInv, NEW m \in Messages, RetryDead(m)
  PROVE  Delivers
<1>0. [Next]_outboxVars
  BY DEF Next
<1> DEFINE x == Fresh(row[m].run, row[m].type, row[m].payload)
<1>1. m \in Stored /\ row[m] \in Message /\ row[m].status = "dead"
  BY DEF RetryDead, Stored, TypeOK
<1>2. x \in Message
  BY <1>1, FreshType DEF Message
<1>3. Rewritten(m, x) /\ x.status = "pending"
  BY <1>1, <1>2, RowsAreReal DEF RetryDead, Rewritten, Fresh
<1>4. Commands' = Commands /\ States' = [States EXCEPT ![m] = "waiting"]
  BY <1>1, <1>3, RewrittenRows DEF Undelivered
<1>5. States[m] = "dead" /\ Commands[m] = Command(m)
  BY <1>1 DEF States, StateOf, Undelivered, Commands
<1>6. ASSUME NEW n \in Messages \ {m}, States[n] = "waiting",
             Commands[n][1] = Commands[m][1], Commands[n][2] = Commands[m][2]
      PROVE  FALSE
  <2>1. n \in Stored /\ row[n].status \in Undelivered
    BY <1>6 DEF States, StateOf, Stored, TypeOK, Message
  <2>2. row[n].run = row[m].run /\ row[n].type = row[m].type
    BY <1>5, <1>6, <2>1 DEF Commands, Command
  <2> QED BY <2>1, <2>2 DEF RetryDead, Active
<1>7. Underway' = Underway /\ UNCHANGED handled
  BY <1>0, UnderwayKept DEF RetryDead
<1>8. Promises!Retry(m)
  BY <1>4, <1>5, <1>6, <1>7 DEF Promises!Retry, Promises!Alone, Promises!Waiting
<1> QED BY <1>8 DEF Delivers, Promises!Next

LEMMA PostDelivers ==
  ASSUME TypeOK, SendInv, NEW d \in Dispatchers, NEW answer \in Answer, Post(d, answer)
  PROVE  Delivers
<1>1. sending[d] # None /\ sending[d] \in Delivery /\ row' = row
  BY DEF Post, TypeOK
<1>2. Commands' = Commands /\ States' = States
  BY <1>1 DEF Commands, States, StateOf, Stored, Command
<1>3. \A e \in Dispatchers \ {d} : sending'[e] = sending[e]
  BY DEF Post, TypeOK
<1>4. sending'[d] = [sending[d] EXCEPT !.answer = answer]
  BY DEF Post, TypeOK
<1>5. sending'[d] \in Delivery /\ sending'[d].id = sending[d].id
      /\ sending'[d].payload = sending[d].payload
  BY <1>1, <1>4 DEF Delivery
<1>6. sending'[d] # None
  BY <1>5, OutboxAssumption
<1>7. \A e \in Dispatchers : /\ sending'[e] # None <=> sending[e] # None
                             /\ Posted(e)' = Posted(e)
  BY <1>1, <1>3, <1>5, <1>6 DEF Posted
<1>8. Underway' = Underway /\ Posted(d) \in Underway
  BY <1>1, <1>7 DEF Underway
<1>9. handled' = handled \/ handled' = handled \union {Posted(d)}
  BY DEF Post, Answer, Posted
<1>10. CASE handled' = handled
  BY <1>2, <1>8, <1>10 DEF Delivers, Promises!deliveryVars
<1>11. CASE handled' = handled \union {Posted(d)}
  <2>1. Promises!Handle(Posted(d))
    BY <1>2, <1>8, <1>11 DEF Promises!Handle
  <2> QED BY <1>8, <2>1 DEF Delivers, Promises!Next
<1> QED BY <1>9, <1>10, <1>11

\* The outbox implements Delivery: one command of a kind waits for a run, only what waited is
\* sent, and only what was handled is marked delivered.
THEOREM DeliveryImplemented == Spec => DeliverySpec
<1>1. Init => Promises!Init
  <2> SUFFICES ASSUME Init PROVE Promises!Init
    OBVIOUS
  <2>1. Stored = {} /\ Underway = {} /\ handled = {}
    BY DEF Init, Stored, Underway
  <2>2. Commands = [m \in Messages |-> None] /\ States = [m \in Messages |-> "none"]
    BY <2>1 DEF Commands, States, StateOf
  <2> QED BY <2>1, <2>2 DEF Promises!Init
<1>2. TypeOK /\ SendInv /\ [Next]_outboxVars => Delivers
  <2> SUFFICES ASSUME TypeOK, SendInv, [Next]_outboxVars PROVE Delivers
    OBVIOUS
  <2>1. ASSUME row' = row, UNCHANGED <<sending, handled>> PROVE Delivers
    <3>1. Commands' = Commands /\ States' = States /\ Underway' = Underway
      BY <2>1, UnderwayKept DEF Commands, States, StateOf, Stored, Command
    <3> QED BY <2>1, <3>1 DEF Delivers, Promises!deliveryVars
  <2>2. ASSUME NEW r \in Runs, Execute(r) PROVE Delivers
    BY <2>1, <2>2 DEF Execute
  <2>3. ASSUME NEW m \in Messages, Elapse(m) PROVE Delivers
    <3>1. m \in Stored /\ row[m] \in Message /\ row[m].status \in Undelivered
      BY <2>3 DEF Elapse, Stored, TypeOK
    <3>2. [row[m] EXCEPT !.due = TRUE] \in Message
      BY <3>1 DEF Message
    <3>3. Rewritten(m, [row[m] EXCEPT !.due = TRUE])
      BY <2>3, <3>1, <3>2, RowsAreReal DEF Elapse, Rewritten, Message
    <3>4. [row[m] EXCEPT !.due = TRUE].status = row[m].status
      BY <3>1 DEF Message
    <3>5. Commands' = Commands
          /\ States' = [States EXCEPT ![m] = IF row[m].status \in Undelivered THEN "waiting"
                                             ELSE row[m].status]
      BY <3>1, <3>3, <3>4, RewrittenRows
    <3>7. States' = States
      BY <3>1, <3>5 DEF States, StateOf
    <3>6. Underway' = Underway /\ UNCHANGED handled
      BY <2>3, UnderwayKept DEF Elapse
    <3> QED BY <3>5, <3>6, <3>7 DEF Delivers, Promises!deliveryVars
  <2>4. CASE UNCHANGED outboxVars
    BY <2>1, <2>4 DEF outboxVars
  <2> QED BY <2>2, <2>3, <2>4, EnqueueDelivers, RetryDelivers, DispatchDelivers,
             RecordDelivers, PostDelivers DEF Next
<1>3. Spec => [][Promises!Next]_Promises!deliveryVars
  BY <1>2, TypeCorrect, PTL DEF Spec, Delivers
<1> QED BY <1>1, <1>3, PTL DEF Spec, DeliverySpec, Promises!Spec

=============================================================================
