---------------------------- MODULE PaidCallsProofs ----------------------------
(***************************************************************************)
(* Proofs about PaidCalls, for any callers, runs, scopes and limits: its   *)
(* types, the sums of the ledger, the budgets of scopes and runs, and that *)
(* a circuit is closed only when its cooldown is over.                     *)
(***************************************************************************)
EXTENDS PaidCalls, FiniteSetTheorems, TLAPS

USE PaidCallsAssumption

\* A caller has not begun in the future, stays within its repetitions, and has a row of
\* the ledger while its request is under way.
CallersSound ==
  \A c \in Callers :
    /\ caller[c].n <= Retries[c]
    /\ caller[c].started <= now
    /\ caller[c].pc \in {"sent", "finally"} => paid[Request(c)] \in Paid

PaidCallsInv == TypeOK /\ CallersSound

\* A caller's request is one of the requests.
LEMMA RequestType ==
  ASSUME PaidCallsInv, NEW c \in Callers
  PROVE  Request(c) \in Requests
<1>1. caller[c].n \in 0..Retries[c]
  BY DEF PaidCallsInv, TypeOK, CallersSound, Caller
<1> QED
  BY <1>1 DEF Request, Requests

\* A request names its caller.
LEMMA RequestsDiffer ==
  ASSUME NEW c \in Callers, NEW d \in Callers, Request(c) = Request(d)
  PROVE  c = d
BY DEF Request

\* The present period is one of the periods.
LEMMA PeriodType ==
  ASSUME now \in Times
  PROVE  Period \in Periods
BY DEF Times, Period, Periods

\* Callers that a step leaves alone stay sound.
LEMMA OneCaller ==
  ASSUME PaidCallsInv, TypeOK', NEW c \in Callers,
         NEW row \in Caller, caller' = [caller EXCEPT ![c] = row],
         row.n <= Retries[c], row.started <= now, now' = now,
         row.pc \in {"sent", "finally"} => paid'[<<c, row.n>>] \in Paid,
         \A q \in Requests : q[1] # c => paid'[q] = paid[q]
  PROVE  PaidCallsInv'
<1>1. SUFFICES ASSUME NEW d \in Callers
               PROVE  /\ caller'[d].n <= Retries[d]
                      /\ caller'[d].started <= now'
                      /\ caller'[d].pc \in {"sent", "finally"} => paid'[<<d, caller'[d].n>>] \in Paid
  BY DEF PaidCallsInv, CallersSound, Request
<1>2. CASE d = c
  BY <1>2 DEF PaidCallsInv, TypeOK
<1>3. CASE d # c
  <2>1. caller'[d] = caller[d]
    BY <1>3 DEF PaidCallsInv, TypeOK
  <2>2. Request(d) \in Requests /\ Request(d)[1] = d /\ Request(d) = <<d, caller[d].n>>
    BY RequestType DEF Request
  <2> QED
    BY <1>3, <2>1, <2>2 DEF PaidCallsInv, CallersSound
<1> QED
  BY <1>2, <1>3

\* A settled request leaves a row of the ledger.
LEMMA SettledRow ==
  ASSUME NEW row \in Row, NEW held \in Int, NEW unknown \in Int, NEW actual \in Int
  PROVE  [row EXCEPT !.pending = @ - held, !.unknown = @ + unknown, !.actual = @ + actual] \in Row
<1>1. row.pending - held \in Int /\ row.unknown + unknown \in Int /\ row.actual + actual \in Int
  BY DEF Row
<1> QED
  BY <1>1 DEF Row

\* Settling touches the row of the request only, and keeps the types.
LEMMA SettleOnceType ==
  ASSUME PaidCallsInv, NEW c \in Callers, NEW kind, NEW usage \in Usages \union {None},
         paid[Request(c)] \in Paid, SettleOnce(c, kind, usage)
  PROVE  /\ ledger' \in [Scopes \X Periods -> Row]
         /\ paid' \in [Requests -> Paid \union {None}]
         /\ paid'[Request(c)] \in Paid
         /\ \A q \in Requests : q # Request(c) => paid'[q] = paid[q]
<1>1. Request(c) \in Requests /\ paid \in [Requests -> Paid \union {None}]
      /\ ledger \in [Scopes \X Periods -> Row]
  BY RequestType DEF PaidCallsInv, TypeOK
<1>2. ASSUME NEW state \in {"unknown", "known"}, NEW actual \in Nat, SettleAs(c, state, actual)
      PROVE  /\ ledger' \in [Scopes \X Periods -> Row]
             /\ paid' \in [Requests -> Paid \union {None}]
             /\ paid'[Request(c)] \in Paid
             /\ \A q \in Requests : q # Request(c) => paid'[q] = paid[q]
  <2>1. paid' = [paid EXCEPT ![Request(c)] = [@ EXCEPT !.state = state, !.actual = actual]]
    BY <1>2 DEF SettleAs
  <2>2. [paid[Request(c)] EXCEPT !.state = state, !.actual = actual] \in Paid
    BY <1>2 DEF Paid
  <2>3. Cost[c] \in Nat
    OBVIOUS
  <2>4. PICK charged : ledger' = [sp \in Scopes \X Periods |->
                  IF sp \in charged
                  THEN [ledger[sp] EXCEPT !.pending = @ - Cost[c],
                                          !.unknown = @ + (IF state = "unknown" THEN Cost[c] ELSE 0),
                                          !.actual = @ + actual]
                  ELSE ledger[sp]]
    BY <1>2 DEF SettleAs
  <2>5. ledger' \in [Scopes \X Periods -> Row]
    <3> DEFINE unknown == IF state = "unknown" THEN Cost[c] ELSE 0
               settled(sp) == [ledger[sp] EXCEPT !.pending = @ - Cost[c], !.unknown = @ + unknown,
                                                 !.actual = @ + actual]
    <3>1. unknown \in Int /\ Cost[c] \in Int /\ actual \in Int
      BY <2>3
    <3>2. ledger' = [sp \in Scopes \X Periods |-> IF sp \in charged THEN settled(sp) ELSE ledger[sp]]
      BY <2>4
    <3> HIDE DEF unknown
    <3>3. ASSUME NEW sp \in Scopes \X Periods PROVE settled(sp) \in Row /\ ledger[sp] \in Row
      BY <1>1, <3>1, SettledRow
    <3> HIDE DEF settled
    <3> QED
      BY <3>2, <3>3
  <2> QED
    BY <1>1, <2>1, <2>2, <2>5
<1>3. CASE UNCHANGED <<ledger, paid>>
  BY <1>1, <1>3
<1>4. CASE SettleAs(c, "known", 0)
  BY <1>2, <1>4
<1>5. CASE SettleAs(c, "unknown", 0)
  BY <1>2, <1>5
<1>6. CASE usage # None /\ SettleAs(c, "known", usage)
  <2>1. usage \in Nat
    BY <1>6
  <2> QED
    BY <1>2, <1>6, <2>1
<1> QED
  BY <1>3, <1>4, <1>5, <1>6 DEF SettleOnce

\* The caller's row after it goes on or leaves.
LEMMA RowType ==
  ASSUME PaidCallsInv, NEW c \in Callers, NEW pc \in PC
  PROVE  /\ At("over") \in Caller
         /\ [caller[c] EXCEPT !.pc = pc] \in Caller
         /\ caller[c] \in Caller
         /\ Retries[c] \in Nat /\ now \in Nat
<1>1. 0 \in Times /\ 0 \in 0..MaxAttempts /\ "over" \in PC
  BY DEF Times, PC
<1>2. At("over") \in Caller
  BY <1>1 DEF At, Caller
<1>3. caller[c] \in Caller /\ Retries[c] \in Nat /\ now \in Nat
  BY DEF PaidCallsInv, TypeOK, Times
<1>4. [caller[c] EXCEPT !.pc = pc] \in Caller
  BY <1>3 DEF Caller
<1> QED
  BY <1>2, <1>3, <1>4

\* A caller that leaves keeps the invariant, whatever else changes within its types.
LEMMA LeaveInv ==
  ASSUME PaidCallsInv, NEW c \in Callers, Leave(c), now' = now,
         run' \in [Runs -> Run], ledger' \in [Scopes \X Periods -> Row],
         paid' \in [Requests -> Paid \union {None}], health' \in Health \union {None},
         \A q \in Requests : q[1] # c => paid'[q] = paid[q]
  PROVE  PaidCallsInv'
<1>1. At("over") \in Caller /\ At("over").n <= Retries[c] /\ At("over").started <= now
      /\ At("over").pc \notin {"sent", "finally"}
  <2>1. At("over") \in Caller /\ Retries[c] \in Nat /\ now \in Nat
    BY RowType DEF PC
  <2>2. At("over").n = 0 /\ At("over").started = 0 /\ At("over").pc = "over"
    BY DEF At
  <2> QED
    BY <2>1, <2>2
<1>2. caller' = [caller EXCEPT ![c] = At("over")]
  BY DEF Leave
<1>3. TypeOK'
  BY <1>1, <1>2 DEF PaidCallsInv, TypeOK
<1> QED
  BY <1>1, <1>2, <1>3, OneCaller

\* So does one that goes on, if it has a row of the ledger when it needs one.
LEMMA GotoInv ==
  ASSUME PaidCallsInv, NEW c \in Callers, NEW pc \in PC, Goto(c, pc), now' = now,
         run' \in [Runs -> Run], ledger' \in [Scopes \X Periods -> Row],
         paid' \in [Requests -> Paid \union {None}], health' \in Health \union {None},
         \A q \in Requests : q[1] # c => paid'[q] = paid[q],
         pc \in {"sent", "finally"} => paid'[Request(c)] \in Paid
  PROVE  PaidCallsInv'
<1> DEFINE row == [caller[c] EXCEPT !.pc = pc]
<1>1. row \in Caller /\ caller[c] \in Caller
  BY RowType
<1>2. caller' = [caller EXCEPT ![c] = row]
  BY DEF Goto
<1>3. row.n = caller[c].n /\ row.started = caller[c].started /\ row.pc = pc
  BY <1>1 DEF Caller
<1>4. row.n <= Retries[c] /\ row.started <= now
  BY <1>3 DEF PaidCallsInv, CallersSound
<1>5. TypeOK'
  BY <1>1, <1>2 DEF PaidCallsInv, TypeOK
<1>6. row.pc \in {"sent", "finally"} => paid'[<<c, row.n>>] \in Paid
  BY <1>3 DEF Request
<1> HIDE DEF row
<1> QED
  BY <1>1, <1>2, <1>4, <1>5, <1>6, OneCaller

-----------------------------------------------------------------------------
(* One lemma for each action.                                              *)

LEMMA StartInv ==
  ASSUME PaidCallsInv, NEW c \in Callers, Start(c)
  PROVE  PaidCallsInv'
<1>1. PICK attempt \in 0..MaxAttempts :
        caller' = [caller EXCEPT ![c] = [@ EXCEPT !.pc = "check", !.attempt = attempt, !.started = now]]
  BY DEF Start
<1> DEFINE row == [caller[c] EXCEPT !.pc = "check", !.attempt = attempt, !.started = now]
<1>2. row \in Caller /\ row.n = caller[c].n /\ row.started = now /\ row.pc = "check"
  <2>1. caller[c] \in Caller /\ now \in Times
    BY DEF PaidCallsInv, TypeOK
  <2> QED
    BY <2>1 DEF Caller, PC
<1>3. row.n <= Retries[c] /\ row.started <= now
  BY <1>2 DEF PaidCallsInv, CallersSound, TypeOK, Times
<1>4. UNCHANGED <<run, ledger, paid, health, now>>
  BY DEF Start
<1>5. caller' = [caller EXCEPT ![c] = row]
  BY <1>1
<1>6. TypeOK'
  BY <1>2, <1>4, <1>5 DEF PaidCallsInv, TypeOK
<1>7. row.pc \notin {"sent", "finally"}
  BY <1>2
<1> HIDE DEF row
<1> QED
  BY <1>2, <1>3, <1>4, <1>5, <1>6, <1>7, OneCaller

LEMMA CheckProviderInv ==
  ASSUME PaidCallsInv, NEW c \in Callers, CheckProvider(c)
  PROVE  PaidCallsInv'
<1>1. UNCHANGED <<run, ledger, paid, now>>
  BY DEF CheckProvider
<1>2. run' \in [Runs -> Run] /\ ledger' \in [Scopes \X Periods -> Row]
      /\ paid' \in [Requests -> Paid \union {None}] /\ \A q \in Requests : paid'[q] = paid[q]
  BY <1>1 DEF PaidCallsInv, TypeOK
<1>3. health' \in Health \union {None}
  <2>1. now + Lease \in Int
    BY DEF PaidCallsInv, TypeOK, Times
  <2> QED
    BY <2>1 DEF CheckProvider, PaidCallsInv, TypeOK, Health
<1>4. CASE Leave(c)
  BY <1>1, <1>2, <1>3, <1>4, LeaveInv
<1>5. CASE Goto(c, "try")
  BY <1>1, <1>2, <1>3, <1>5, GotoInv DEF PC
<1> QED
  BY <1>4, <1>5 DEF CheckProvider

LEMMA ReserveRunInv ==
  ASSUME PaidCallsInv, NEW c \in Callers, ReserveRun(c)
  PROVE  PaidCallsInv'
<1>1. UNCHANGED <<ledger, paid, health, now>>
  BY DEF ReserveRun
<1>2. health' \in Health \union {None} /\ ledger' \in [Scopes \X Periods -> Row]
      /\ paid' \in [Requests -> Paid \union {None}] /\ \A q \in Requests : paid'[q] = paid[q]
  BY <1>1 DEF PaidCallsInv, TypeOK
<1>3. run' \in [Runs -> Run]
  <2>1. run \in [Runs -> Run]
    BY DEF PaidCallsInv, TypeOK
  <2>2. CASE RunOf[c] # None
             /\ run' = [run EXCEPT ![RunOf[c]].calls = @ + 1, ![RunOf[c]].tokens = @ + Cost[c]]
    <3>1. RunOf[c] \in Runs /\ run[RunOf[c]] \in Run /\ Cost[c] \in Nat
      BY <2>1, <2>2
    <3>2. run[RunOf[c]].calls + 1 \in Nat /\ run[RunOf[c]].tokens + Cost[c] \in Nat
      BY <3>1 DEF Run
    <3>3. [run[RunOf[c]] EXCEPT !.calls = run[RunOf[c]].calls + 1,
                                !.tokens = run[RunOf[c]].tokens + Cost[c]] \in Run
      BY <3>1, <3>2 DEF Run
    <3>4. run' = [run EXCEPT ![RunOf[c]] = [run[RunOf[c]] EXCEPT !.calls = run[RunOf[c]].calls + 1,
                                !.tokens = run[RunOf[c]].tokens + Cost[c]]]
      BY <2>1, <2>2
    <3> QED
      BY <2>1, <3>3, <3>4
  <2> QED
    BY <2>1, <2>2 DEF ReserveRun
<1>4. CASE Leave(c)
  BY <1>1, <1>2, <1>3, <1>4, LeaveInv
<1>5. CASE Goto(c, "charge")
  BY <1>1, <1>2, <1>3, <1>5, GotoInv DEF PC
<1> QED
  BY <1>4, <1>5 DEF ReserveRun

LEMMA ChargeInv ==
  ASSUME PaidCallsInv, NEW c \in Callers, Charge(c)
  PROVE  PaidCallsInv'
<1>1. UNCHANGED <<run, health, now>> /\ Request(c) \in Requests
  BY RequestType DEF Charge
<1>2. run' \in [Runs -> Run] /\ health' \in Health \union {None}
      /\ ledger \in [Scopes \X Periods -> Row] /\ paid \in [Requests -> Paid \union {None}]
  BY <1>1 DEF PaidCallsInv, TypeOK
<1>3. CASE Leave(c) /\ UNCHANGED <<ledger, paid>>
  BY <1>1, <1>2, <1>3, LeaveInv
<1>4. CASE ~(Leave(c) /\ UNCHANGED <<ledger, paid>>)
  <2> DEFINE row == [period |-> Period, state |-> "pending", actual |-> 0]
  <2>1. paid' = [paid EXCEPT ![Request(c)] = row] /\ Goto(c, "sent")
    BY <1>4 DEF Charge
  <2> DEFINE charged == ScopesOf[c] \X {Period}
  <2>2. ledger' = [sp \in Scopes \X Periods |->
                        IF sp \in charged
                        THEN [ledger[sp] EXCEPT !.calls = @ + 1, !.pending = @ + Cost[c]]
                        ELSE ledger[sp]]
    BY <1>4 DEF Charge
  <2> HIDE DEF charged
  <2>3. row \in Paid
    BY PeriodType DEF PaidCallsInv, TypeOK, Paid
  <2>4. ledger' \in [Scopes \X Periods -> Row]
    <3> DEFINE charge(sp) == [ledger[sp] EXCEPT !.calls = @ + 1, !.pending = @ + Cost[c]]
    <3>1. ASSUME NEW sp \in Scopes \X Periods PROVE charge(sp) \in Row /\ ledger[sp] \in Row
      <4>1. ledger[sp] \in Row
        BY <1>2
      <4>2. ledger[sp].calls + 1 \in Nat /\ ledger[sp].pending + Cost[c] \in Int
        BY <4>1 DEF Row
      <4> QED
        BY <4>1, <4>2 DEF Row
    <3>2. ledger' = [sp \in Scopes \X Periods |-> IF sp \in charged THEN charge(sp) ELSE ledger[sp]]
      BY <2>2
    <3> HIDE DEF charge
    <3> QED
      BY <3>1, <3>2
  <2>5. paid' \in [Requests -> Paid \union {None}] /\ paid'[Request(c)] \in Paid
        /\ \A q \in Requests : q # Request(c) => paid'[q] = paid[q]
    BY <1>1, <1>2, <2>1, <2>3
  <2>6. \A q \in Requests : q[1] # c => paid'[q] = paid[q]
    BY <2>5 DEF Request
  <2> QED
    BY <1>1, <1>2, <2>1, <2>4, <2>5, <2>6, GotoInv DEF PC
<1> QED
  BY <1>3, <1>4

LEMMA SettleInv ==
  ASSUME PaidCallsInv, NEW c \in Callers, NEW kind \in Kinds, NEW usage \in Usages \union {None},
         Settle(c, kind, usage)
  PROVE  PaidCallsInv'
<1>1. caller[c].pc = "sent" /\ SettleOnce(c, kind, usage) /\ UNCHANGED <<run, health, now>>
  BY DEF Settle
<1>2. paid[Request(c)] \in Paid
  BY <1>1 DEF PaidCallsInv, CallersSound
<1>3. /\ ledger' \in [Scopes \X Periods -> Row]
      /\ paid' \in [Requests -> Paid \union {None}]
      /\ paid'[Request(c)] \in Paid
      /\ \A q \in Requests : q # Request(c) => paid'[q] = paid[q]
  BY <1>1, <1>2, SettleOnceType
<1>4. PICK pc \in {"settled", "finally"} :
        caller' = [caller EXCEPT ![c] = [@ EXCEPT !.pc = pc, !.reply = kind]]
  BY DEF Settle
<1> DEFINE row == [caller[c] EXCEPT !.pc = pc, !.reply = kind]
<1>5. row \in Caller /\ row.n = caller[c].n /\ row.started = caller[c].started
  <2>1. caller[c] \in Caller
    BY DEF PaidCallsInv, TypeOK
  <2> QED
    BY <2>1 DEF Caller, PC
<1>6. row.n <= Retries[c] /\ row.started <= now /\ <<c, row.n>> = Request(c)
  BY <1>5 DEF PaidCallsInv, CallersSound, Request
<1>7. caller' = [caller EXCEPT ![c] = row]
  BY <1>4
<1>8. TypeOK'
  BY <1>1, <1>3, <1>5, <1>7 DEF PaidCallsInv, TypeOK
<1>9. \A q \in Requests : q[1] # c => paid'[q] = paid[q]
  BY <1>3 DEF Request
<1> HIDE DEF row
<1> QED
  BY <1>1, <1>3, <1>5, <1>6, <1>7, <1>8, <1>9, OneCaller

LEMMA FinallyInv ==
  ASSUME PaidCallsInv, NEW c \in Callers, Finally(c)
  PROVE  PaidCallsInv'
<1>1. caller[c].pc = "finally" /\ SettleOnce(c, "lost", None) /\ Leave(c) /\ UNCHANGED <<run, health, now>>
  BY DEF Finally
<1>2. paid[Request(c)] \in Paid /\ run' \in [Runs -> Run] /\ health' \in Health \union {None}
  BY <1>1 DEF PaidCallsInv, CallersSound, TypeOK
<1>3. /\ ledger' \in [Scopes \X Periods -> Row]
      /\ paid' \in [Requests -> Paid \union {None}]
      /\ \A q \in Requests : q # Request(c) => paid'[q] = paid[q]
  BY <1>1, <1>2, SettleOnceType
<1>4. \A q \in Requests : q[1] # c => paid'[q] = paid[q]
  BY <1>3 DEF Request
<1> QED
  BY <1>1, <1>2, <1>3, <1>4, LeaveInv

\* A caller that stops, is stopped or goes to its finally clause.
LEMMA InterruptInv ==
  ASSUME PaidCallsInv, NEW c \in Callers, Interrupt(c) \/ Crash(c)
  PROVE  PaidCallsInv'
<1>1. UNCHANGED <<run, ledger, paid, health, now>>
  BY DEF Interrupt, Crash
<1>2. /\ run' \in [Runs -> Run] /\ ledger' \in [Scopes \X Periods -> Row]
      /\ paid' \in [Requests -> Paid \union {None}] /\ health' \in Health \union {None}
      /\ \A q \in Requests : paid'[q] = paid[q]
  BY <1>1 DEF PaidCallsInv, TypeOK
<1>3. CASE Leave(c)
  BY <1>1, <1>2, <1>3, LeaveInv
<1>4. CASE caller[c].pc = "sent" /\ Goto(c, "finally")
  <2>1. paid'[Request(c)] \in Paid
    BY <1>1, <1>4 DEF PaidCallsInv, CallersSound
  <2> QED
    BY <1>1, <1>2, <1>4, <2>1, GotoInv DEF PC
<1> QED
  BY <1>3, <1>4 DEF Interrupt, Crash

LEMMA ConcludeInv ==
  ASSUME PaidCallsInv, NEW c \in Callers, Conclude(c)
  PROVE  PaidCallsInv'
<1>1. UNCHANGED <<run, ledger, paid, now>>
  BY DEF Conclude
<1>2. run' \in [Runs -> Run] /\ ledger' \in [Scopes \X Periods -> Row]
      /\ paid' \in [Requests -> Paid \union {None}] /\ \A q \in Requests : paid'[q] = paid[q]
  BY <1>1 DEF PaidCallsInv, TypeOK
<1>3. health \in Health \union {None} /\ now \in Nat
  BY DEF PaidCallsInv, TypeOK, Times
<1>4. CASE Retry(c)
  <2> DEFINE row == [caller[c] EXCEPT !.pc = "try", !.n = caller[c].n + 1, !.reply = None]
  <2>1. caller[c].n < Retries[c] /\ UNCHANGED health /\ caller' = [caller EXCEPT ![c] = row]
    BY <1>4 DEF Retry
  <2>2. caller[c] \in Caller /\ caller[c].started <= now /\ Retries[c] \in Nat
    BY DEF PaidCallsInv, TypeOK, CallersSound
  <2>3. caller[c].n + 1 \in Nat /\ caller[c].n + 1 <= Retries[c]
    BY <2>1, <2>2 DEF Caller
  <2>4. row \in Caller /\ row.n <= Retries[c] /\ row.started <= now /\ row.pc \notin {"sent", "finally"}
    BY <2>2, <2>3 DEF Caller, PC
  <2>5. TypeOK'
    BY <1>1, <1>2, <2>1, <2>4 DEF PaidCallsInv, TypeOK
  <2> HIDE DEF row
  <2> QED
    BY <1>1, <1>2, <2>1, <2>4, <2>5, OneCaller
<1>5. CASE Leave(c) /\ health' \in Health \union {None}
  BY <1>1, <1>2, <1>5, LeaveInv
<1>6. CASE GiveUp(c)
  <2>1. PICK d \in Cooldowns :
          health' = [blocked |-> caller[c].reply = "denied", open |-> now + d, probe |-> 0]
    BY <1>6 DEF GiveUp, ProviderFailure
  <2>2. now + d \in Int
    BY <1>3
  <2>3. health' \in Health /\ Leave(c)
    BY <1>6, <2>1, <2>2 DEF Health, GiveUp
  <2> QED
    BY <1>5, <2>3
<1>7. CASE CloseCircuit(caller[c].started) /\ Leave(c)
  BY <1>3, <1>5, <1>7 DEF CloseCircuit
<1>8. CASE Leave(c) /\ UNCHANGED health
  BY <1>3, <1>5, <1>8
<1> QED
  BY <1>4, <1>6, <1>7, <1>8 DEF Conclude

\* What happens around the callers.
LEMMA SurroundingsInv ==
  ASSUME PaidCallsInv, (\E r \in Runs : TakeOver(r) \/ EndRun(r)) \/ Tick
  PROVE  PaidCallsInv'
<1>1. ASSUME NEW r \in Runs, TakeOver(r) \/ EndRun(r)
      PROVE  PaidCallsInv'
  <2>1. run \in [Runs -> Run] /\ UNCHANGED <<caller, ledger, paid, health, now>>
    BY <1>1 DEF TakeOver, EndRun, PaidCallsInv, TypeOK
  <2>2. run' \in [Runs -> Run]
    <3>1. run[r] \in Run /\ [run[r] EXCEPT !.live = FALSE] \in Run
      BY <2>1 DEF Run
    <3>2. CASE EndRun(r)
      BY <2>1, <3>1, <3>2 DEF EndRun
    <3>3. CASE TakeOver(r)
      <4>1. run[r].attempt + 1 \in 1..MaxAttempts
        BY <3>1, <3>3 DEF TakeOver, Run
      <4>2. [run[r] EXCEPT !.attempt = run[r].attempt + 1] \in Run
        BY <3>1, <4>1 DEF Run
      <4>3. run' = [run EXCEPT ![r] = [run[r] EXCEPT !.attempt = run[r].attempt + 1]]
        BY <3>3, <2>1 DEF TakeOver
      <4> QED
        BY <2>1, <4>2, <4>3
    <3> QED
      BY <1>1, <3>2, <3>3
  <2> QED
    BY <2>1, <2>2 DEF PaidCallsInv, TypeOK, CallersSound, Request
<1>2. CASE Tick
  <2>1. UNCHANGED <<run, caller, ledger, paid, health>> /\ now \in Times /\ now' = now + 1 /\ now' \in Times
    BY <1>2 DEF Tick, PaidCallsInv, TypeOK, Times
  <2>2. ASSUME NEW c \in Callers PROVE caller[c].started <= now'
    BY <2>1 DEF PaidCallsInv, CallersSound, TypeOK, Caller, Times
  <2> QED
    BY <2>1, <2>2 DEF PaidCallsInv, TypeOK, CallersSound, Request
<1> QED
  BY <1>1, <1>2

\* The invariant is inductive.
LEMMA InvStep ==
  ASSUME PaidCallsInv, [Next]_paidVars
  PROVE  PaidCallsInv'
<1>1. ASSUME NEW c \in Callers, CallerStep(c) PROVE PaidCallsInv'
  BY <1>1, StartInv, CheckProviderInv, ReserveRunInv, ChargeInv, SettleInv, InterruptInv, FinallyInv,
     ConcludeInv DEF CallerStep
<1>2. CASE UNCHANGED paidVars
  BY <1>2 DEF paidVars, PaidCallsInv, TypeOK, CallersSound, Request
<1> QED
  BY <1>1, <1>2, SurroundingsInv DEF Next

LEMMA InvInit == Init => PaidCallsInv
<1> SUFFICES ASSUME Init PROVE PaidCallsInv
  OBVIOUS
<1>1. At("idle") \in Caller /\ At("idle").n = 0 /\ At("idle").started = 0 /\ At("idle").pc = "idle"
  BY DEF At, Caller, PC, Times
<1>2. [live |-> TRUE, attempt |-> 1, calls |-> 0, tokens |-> 0] \in Run
      /\ [calls |-> 0, pending |-> 0, unknown |-> 0, actual |-> 0] \in Row
  BY DEF Run, Row
<1>3. TypeOK
  BY <1>1, <1>2 DEF Init, TypeOK, Times
<1>4. CallersSound
  BY <1>1 DEF Init, CallersSound
<1> QED
  BY <1>3, <1>4 DEF PaidCallsInv

LEMMA Invariance == Spec => []PaidCallsInv
<1>1. PaidCallsInv /\ [Next]_paidVars => PaidCallsInv'
  BY InvStep
<1> QED
  BY <1>1, InvInit, PTL DEF Spec

-----------------------------------------------------------------------------
(* Theorems.                                                               *)

\* The variables keep their types.
THEOREM TypeCorrect == Spec => []TypeOK
<1>1. PaidCallsInv => TypeOK
  BY DEF PaidCallsInv
<1> QED
  BY <1>1, Invariance, PTL

\* A success closes a circuit only when its cooldown is over and it is not blocked, for
\* any number of callers, retries and cooldowns (post).
THEOREM CooldownIsRespected == Spec => CooldownRespected
<1>1. PaidCallsInv /\ [Next]_paidVars =>
        (health # None /\ health' = None => ~health.blocked /\ health.open <= now)
  <2> SUFFICES ASSUME PaidCallsInv, [Next]_paidVars, health # None, health' = None
               PROVE  ~health.blocked /\ health.open <= now
    OBVIOUS
  <2>1. health \in Health /\ health' # health
    BY DEF PaidCallsInv, TypeOK
  <2>2. PICK c \in Callers : CheckProvider(c) \/ Conclude(c)
    BY <2>1 DEF Next, CallerStep, Start, ReserveRun, Charge, Settle, Interrupt, Finally, Crash, TakeOver,
                EndRun, Tick, paidVars
  <2>3. CASE CheckProvider(c)
    <3>1. health' = [health EXCEPT !.probe = now + Lease]
      BY <2>1, <2>3 DEF CheckProvider
    <3>2. health' \in Health
      BY <2>1, <3>1 DEF Health, PaidCallsInv, TypeOK, Times
    <3> QED
      BY <3>2
  <2>4. CASE Conclude(c)
    <3>1. ~GiveUp(c)
      <4>1. SUFFICES ASSUME GiveUp(c) PROVE FALSE
        OBVIOUS
      <4>2. PICK d \in Cooldowns :
              health' = [blocked |-> caller[c].reply = "denied", open |-> now + d, probe |-> 0]
        BY <4>1 DEF GiveUp, ProviderFailure
      <4>3. health' \in Health
        BY <4>2 DEF Health, PaidCallsInv, TypeOK, Times
      <4> QED
        BY <4>3
    <3>2. CloseCircuit(caller[c].started)
      BY <2>1, <2>4, <3>1 DEF Conclude, Retry
    <3>3. ~health.blocked /\ health.open <= caller[c].started
      BY <2>1, <3>2 DEF CloseCircuit
    <3>4. caller[c].started <= now /\ caller[c].started \in Nat /\ now \in Nat /\ health.open \in Int
      BY <2>1 DEF PaidCallsInv, CallersSound, TypeOK, Caller, Times, Health
    <3> QED
      BY <3>3, <3>4
  <2> QED
    BY <2>2, <2>3, <2>4
<1> QED
  BY <1>1, Invariance, PTL DEF Spec, CooldownRespected

-----------------------------------------------------------------------------
(* Sums.                                                                   *)

HIDE PaidCallsAssumption

\* Amounts that agree on a set have the same tokens.
LEMMA SameTokens ==
  ASSUME NEW S, NEW f, NEW g, \A q \in S : f[q] = g[q]
  PROVE  Tokens(S, f) = Tokens(S, g)
  BY DEF Tokens

\* A token of a request names it.
LEMMA TokenNames ==
  ASSUME NEW S, NEW f, NEW t \in Tokens(S, f)
  PROVE  t[1] \in S /\ t[2] \in 1..f[t[1]]
  BY DEF Tokens

\* Amounts g are f with one more request, or with another amount for one request.
Extends(S, q, f, g) ==
  /\ q \notin S /\ IsFiniteSet(Tokens(S, f))
  /\ g[q] \in Nat /\ \A p \in S : g[p] = f[p]

Changes(S, q, f, g) ==
  /\ q \in S /\ IsFiniteSet(Tokens(S, f))
  /\ f[q] \in Nat /\ g[q] \in Nat /\ \A p \in S \ {q} : g[p] = f[p]

\* One more request adds its amount.
LEMMA TotalGrows ==
  ASSUME NEW S, NEW q, NEW f, NEW g, Extends(S, q, f, g)
  PROVE  /\ IsFiniteSet(Tokens(S \union {q}, g))
         /\ Total(S \union {q}, g) = Total(S, f) + g[q]
<1>0. /\ q \notin S /\ IsFiniteSet(Tokens(S, f))
      /\ g[q] \in Nat /\ \A p \in S : g[p] = f[p]
  BY DEF Extends
<1> DEFINE A == Tokens(S, f)
           B == {q} \X (1..g[q])
<1>1. Tokens(S \union {q}, g) = A \union B
  <2>1. Tokens(S \union {q}, g) = Tokens(S, g) \union B
    BY DEF Tokens
  <2> QED BY <1>0, <2>1, SameTokens
<1>2. A \intersect B = {}
  BY <1>0, TokenNames
<1>3. IsFiniteSet(B) /\ Cardinality(B) = g[q]
  <2>1. IsFiniteSet({q}) /\ Cardinality({q}) = 1
    BY FS_Singleton
  <2>2. PICK k \in Nat : k = g[q]
    BY <1>0
  <2>3. IsFiniteSet(1..k) /\ Cardinality(1..k) = k
    BY FS_Interval
  <2>4. IsFiniteSet({q} \X (1..k)) /\ Cardinality({q} \X (1..k)) = Cardinality({q}) * Cardinality(1..k)
    BY <2>1, <2>3, FS_Product
  <2> QED BY <2>1, <2>2, <2>3, <2>4
<1> HIDE DEF A, B
<1>4. /\ IsFiniteSet(A \union B)
      /\ Cardinality(A \union B) = Cardinality(A) + Cardinality(B) - Cardinality(A \intersect B)
  BY <1>0, <1>3, FS_Union DEF A
<1>5. Cardinality(A) \in Nat /\ Cardinality({}) = 0
  BY <1>0, FS_CardinalityType, FS_EmptySet DEF A
<1>6. IsFiniteSet(A \union B) /\ Cardinality(A \union B) = Cardinality(A) + g[q]
  <2>1. Cardinality(A \intersect B) = 0
    BY <1>2, <1>5
  <2> QED BY <1>0, <1>3, <1>4, <1>5, <2>1
<1> QED BY <1>1, <1>6 DEF A, Total

\* Another amount for one request changes the total by the difference.
LEMMA TotalChanges ==
  ASSUME NEW S, NEW q, NEW f, NEW g, Changes(S, q, f, g)
  PROVE  /\ IsFiniteSet(Tokens(S, g))
         /\ Total(S, g) = Total(S, f) - f[q] + g[q]
<1> DEFINE R == S \ {q}
<1>1. /\ R \union {q} = S /\ q \notin R
      /\ f[q] \in Nat /\ g[q] \in Nat /\ IsFiniteSet(Tokens(S, f))
  BY DEF Changes
<1>2. IsFiniteSet(Tokens(R, f))
  <2>1. Tokens(R, f) \subseteq Tokens(S, f)
    BY DEF Tokens
  <2> QED BY <1>1, <2>1, FS_Subset
<1>3. Extends(R, q, f, f)
  BY <1>1, <1>2 DEF Extends
<1>4. Extends(R, q, f, g)
  BY <1>2 DEF Extends, Changes
<1> HIDE DEF R
<1>5. Total(R \union {q}, f) = Total(R, f) + f[q]
  BY <1>3, TotalGrows
<1>6. IsFiniteSet(Tokens(R \union {q}, g)) /\ Total(R \union {q}, g) = Total(R, f) + g[q]
  BY <1>4, TotalGrows
<1>7. Total(R, f) \in Nat
  BY <1>2, FS_CardinalityType DEF Total
<1>8. /\ IsFiniteSet(Tokens(S, g)) /\ Total(S, f) = Total(R, f) + f[q]
      /\ Total(S, g) = Total(R, f) + g[q]
  <2>1. R \union {q} = S
    BY <1>1
  <2> QED BY <1>5, <1>6, <2>1, Zenon
<1> QED BY <1>1, <1>7, <1>8

\* What is empty, and what is part of something finite.
LEMMA NoTokens == ASSUME NEW f PROVE IsFiniteSet(Tokens({}, f)) /\ Total({}, f) = 0
<1>1. Tokens({}, f) = {}
  BY DEF Tokens
<1> QED BY <1>1, FS_EmptySet DEF Total

LEMMA FewerTokens ==
  ASSUME NEW S, NEW R, R \subseteq S, NEW f, IsFiniteSet(Tokens(S, f))
  PROVE  IsFiniteSet(Tokens(R, f)) /\ Total(R, f) <= Total(S, f)
<1>1. Tokens(R, f) \subseteq Tokens(S, f)
  BY DEF Tokens
<1> QED BY <1>1, FS_Subset DEF Total

-----------------------------------------------------------------------------
(* The ledger.                                                             *)

\* Only a known outcome has cost anything.
RowsSound == \A q \in Rows : paid[q].state = "known" \/ paid[q].actual = 0

\* Before the charge: a caller's request, and those it may repeat it with, have no row.
Early == {"idle", "check", "try", "charge"}
RequestsFresh ==
  \A c \in Callers : \A k \in 0..Retries[c] :
    \/ caller[c].pc = "over" \/ k < caller[c].n
    \/ k = caller[c].n /\ caller[c].pc \notin Early
    \/ paid[<<c, k>>] = None

\* The ledger is exact and finite.
Exact(sp) ==
  LET S == ChargedTo(sp) IN
  /\ IsFiniteSet(S) /\ ledger[sp].calls = Cardinality(S)
  /\ IsFiniteSet(Tokens(S, Pending)) /\ ledger[sp].pending = Total(S, Pending)
  /\ IsFiniteSet(Tokens(S, Unknown)) /\ ledger[sp].unknown = Total(S, Unknown)
  /\ IsFiniteSet(Tokens(S, Actual)) /\ ledger[sp].actual = Total(S, Actual)

Within(sp) ==
  LET S == ChargedTo(sp) IN
  /\ Cardinality(S) <= MaxCalls[sp[1]]
  /\ IsFiniteSet(Tokens(S, Risk)) /\ Total(S, Risk) <= MaxTokens[sp[1]]

\* The requests that are charged to a run or will be next: what the run has reserved.
Reserving(r) ==
  {q \in Requests : /\ RunOf[q[1]] = r
                    /\ \/ q \in Rows
                       \/ caller[q[1]].pc = "charge" /\ q[2] = caller[q[1]].n}

Budgeted(r) ==
  LET S == Reserving(r) IN
  /\ IsFiniteSet(S) /\ Cardinality(S) <= run[r].calls /\ run[r].calls <= MaxRunCalls
  /\ IsFiniteSet(Tokens(S, Reserved))
  /\ Total(S, Reserved) <= run[r].tokens /\ run[r].tokens <= MaxRunTokens

LedgerInv ==
  /\ PaidCallsInv /\ RowsSound /\ RequestsFresh
  /\ \A sp \in Scopes \X Periods : Exact(sp) /\ Within(sp)
  /\ \A r \in Runs : Budgeted(r)

\* What a charge and a settlement do to the tables.
Charges(c) ==
  LET charged == ScopesOf[c] \X {Period} IN
  /\ \A sp \in charged : Room(c, sp)
  /\ ledger' = [sp \in Scopes \X Periods |->
                  IF sp \in charged
                  THEN [ledger[sp] EXCEPT !.calls = @ + 1, !.pending = @ + Cost[c]]
                  ELSE ledger[sp]]
  /\ paid' = [paid EXCEPT ![Request(c)] = [period |-> Period, state |-> "pending", actual |-> 0]]

Settles(c, state, actual) ==
  paid[Request(c)].state = "pending" /\ SettleAs(c, state, actual)

LEMMA SettleSteps ==
  ASSUME NEW c \in Callers, NEW kind, NEW usage \in Usages \union {None}, SettleOnce(c, kind, usage)
  PROVE  \/ UNCHANGED <<ledger, paid>>
         \/ Settles(c, "unknown", 0)
         \/ \E actual \in Nat : Settles(c, "known", actual)
  BY PaidCallsAssumption DEF SettleOnce, Settles

\* Only callers change them: by a charge, or by one settlement of a request that is held.
LEMMA LedgerSteps ==
  ASSUME PaidCallsInv, [Next]_paidVars
  PROVE  \/ UNCHANGED <<ledger, paid>>
         \/ \E c \in Callers :
              \/ caller[c].pc = "charge" /\ Charges(c) /\ UNCHANGED now
              \/ /\ caller[c].pc \in {"sent", "finally"} /\ UNCHANGED now
                 /\ \/ Settles(c, "unknown", 0)
                    \/ \E actual \in Nat : Settles(c, "known", actual)
<1>1. ASSUME NEW c \in Callers, Charge(c)
      PROVE  UNCHANGED <<ledger, paid>> \/ (caller[c].pc = "charge" /\ Charges(c) /\ UNCHANGED now)
  BY <1>1 DEF Charge, Charges
<1>2. ASSUME NEW c \in Callers, NEW kind \in Kinds, NEW usage \in Usages \union {None},
             Settle(c, kind, usage)
      PROVE  \/ UNCHANGED <<ledger, paid>>
             \/ /\ caller[c].pc \in {"sent", "finally"} /\ UNCHANGED now
                /\ \/ Settles(c, "unknown", 0)
                   \/ \E actual \in Nat : Settles(c, "known", actual)
  <2>1. SettleOnce(c, kind, usage) /\ caller[c].pc = "sent" /\ UNCHANGED now
    BY <1>2 DEF Settle
  <2> QED BY <2>1, SettleSteps
<1>3. ASSUME NEW c \in Callers, Finally(c)
      PROVE  \/ UNCHANGED <<ledger, paid>>
             \/ /\ caller[c].pc \in {"sent", "finally"} /\ UNCHANGED now
                /\ \/ Settles(c, "unknown", 0)
                   \/ \E actual \in Nat : Settles(c, "known", actual)
  <2>1. SettleOnce(c, "lost", None) /\ caller[c].pc = "finally" /\ UNCHANGED now
    BY <1>3 DEF Finally
  <2> QED BY <2>1, SettleSteps
<1>4. ASSUME NEW c \in Callers,
             Start(c) \/ CheckProvider(c) \/ ReserveRun(c) \/ Interrupt(c) \/ Crash(c) \/ Conclude(c)
      PROVE  UNCHANGED <<ledger, paid>>
  BY <1>4 DEF Start, CheckProvider, ReserveRun, Interrupt, Crash, Conclude
<1>5. ASSUME (\E r \in Runs : TakeOver(r) \/ EndRun(r)) \/ Tick \/ UNCHANGED paidVars
      PROVE  UNCHANGED <<ledger, paid>>
  BY <1>5 DEF TakeOver, EndRun, Tick, paidVars
<1> QED BY <1>1, <1>2, <1>3, <1>4, <1>5 DEF Next, CallerStep

\* A request that is charged has no row, one that is settled has one.
LEMMA ChargedIsFresh ==
  ASSUME LedgerInv, NEW c \in Callers, caller[c].pc = "charge"
  PROVE  paid[Request(c)] = None
<1>1. caller[c].n \in 0..Retries[c]
  BY PaidCallsAssumption DEF LedgerInv, PaidCallsInv, TypeOK, CallersSound, Caller
<1>2. caller[c].n \in Nat
  BY <1>1
<1> QED BY <1>1, <1>2 DEF LedgerInv, RequestsFresh, Request, Early

\* A charge adds one row, with what is reserved.
LEMMA ChargeAdds ==
  ASSUME LedgerInv, NEW c \in Callers, caller[c].pc = "charge", Charges(c)
  PROVE  LET q == Request(c) IN
         /\ q \in Requests \ Rows /\ Rows' = Rows \union {q}
         /\ \A sp \in Scopes \X Periods :
              ChargedTo(sp)' = ChargedTo(sp) \union (IF sp \in ScopesOf[c] \X {Period} THEN {q} ELSE {})
         /\ \A p \in Rows : /\ paid'[p] = paid[p] /\ Pending'[p] = Pending[p]
                            /\ Unknown'[p] = Unknown[p] /\ Actual'[p] = Actual[p]
                            /\ Risk'[p] = Risk[p]
         /\ Pending'[q] = Cost[c] /\ Unknown'[q] = 0 /\ Actual'[q] = 0 /\ Risk'[q] = Cost[c]
         /\ Cost[c] \in Nat
<1> DEFINE q == Request(c)
           row == [period |-> Period, state |-> "pending", actual |-> 0]
<1>1. q \in Requests /\ paid[q] = None /\ paid \in [Requests -> Paid \union {None}] /\ q[1] = c
  BY RequestType, ChargedIsFresh DEF LedgerInv, PaidCallsInv, TypeOK, Request
<1>2. paid' = [paid EXCEPT ![q] = row]
  BY DEF Charges
<1>3. row \in Paid /\ None \notin Paid
  BY PeriodType, PaidCallsAssumption DEF LedgerInv, PaidCallsInv, TypeOK, Paid
<1>4. paid'[q] = row /\ \A p \in Requests \ {q} : paid'[p] = paid[p]
  BY <1>1, <1>2
<1>5. q \notin Rows /\ Rows' = Rows \union {q} /\ \A p \in Rows : paid'[p] = paid[p] /\ p \in Requests
  BY <1>1, <1>3, <1>4 DEF Rows
<1>6. row.period = Period /\ row.state = "pending" /\ row.actual = 0
  OBVIOUS
<1> HIDE DEF q, row
<1>7. ASSUME NEW sp \in Scopes \X Periods
      PROVE  ChargedTo(sp)' = ChargedTo(sp) \union (IF sp \in ScopesOf[c] \X {Period} THEN {q} ELSE {})
  <2>1. sp \in ScopesOf[c] \X {Period} <=> sp[1] \in ScopesOf[c] /\ sp[2] = Period
    OBVIOUS
  <2> QED BY <1>1, <1>4, <1>5, <1>6, <2>1 DEF ChargedTo
<1>8. /\ \A p \in Rows : /\ Pending'[p] = Pending[p] /\ Unknown'[p] = Unknown[p]
                         /\ Actual'[p] = Actual[p] /\ Risk'[p] = Risk[p]
  BY <1>5 DEF Pending, Unknown, Actual, Risk
<1>9. Pending'[q] = Cost[c] /\ Unknown'[q] = 0 /\ Actual'[q] = 0 /\ Risk'[q] = Cost[c]
  BY <1>1, <1>4, <1>5, <1>6 DEF Pending, Unknown, Actual, Risk
<1>10. Cost[c] \in Nat
  BY PaidCallsAssumption
<1> QED BY <1>1, <1>5, <1>7, <1>8, <1>9, <1>10 DEF q

\* A settlement changes one row that is held, in place.
LEMMA SettleChanges ==
  ASSUME LedgerInv, NEW c \in Callers, caller[c].pc \in {"sent", "finally"},
         NEW state \in {"unknown", "known"}, NEW actual \in Nat, Settles(c, state, actual)
  PROVE  LET q == Request(c) IN
         /\ q \in Rows /\ Rows' = Rows /\ paid[q].actual = 0 /\ paid[q].state = "pending"
         /\ paid'[q].state = state /\ paid'[q].actual = actual /\ paid'[q].period = paid[q].period
         /\ \A p \in Rows \ {q} : paid'[p] = paid[p]
         /\ q[1] = c /\ Cost[c] \in Nat
<1> DEFINE q == Request(c)
<1>1. q \in Requests /\ paid[q] \in Paid /\ paid \in [Requests -> Paid \union {None}] /\ q[1] = c
  BY RequestType DEF LedgerInv, PaidCallsInv, TypeOK, Request, CallersSound
<1>2. paid' = [paid EXCEPT ![q] = [paid[q] EXCEPT !.state = state, !.actual = actual]]
  BY DEF Settles, SettleAs
<1>3. None \notin Paid /\ Cost[c] \in Nat /\ paid[q].state = "pending"
  BY PaidCallsAssumption DEF Settles
<1> DEFINE row == [paid[q] EXCEPT !.state = state, !.actual = actual]
<1>4. row \in Paid /\ row.state = state /\ row.actual = actual /\ row.period = paid[q].period
  BY <1>1 DEF Paid
<1>5. paid'[q] = row /\ \A p \in Requests \ {q} : paid'[p] = paid[p]
  BY <1>1, <1>2
<1> HIDE DEF q, row
<1>6. q \in Rows /\ Rows' = Rows
  BY <1>1, <1>3, <1>4, <1>5 DEF Rows
<1>7. paid[q].actual = 0
  BY <1>3, <1>6 DEF LedgerInv, RowsSound
<1> QED BY <1>1, <1>3, <1>4, <1>5, <1>6, <1>7 DEF q, Rows

\* What was charged so far, and could yet be charged for it, fits the exposure.
LEMMA RiskBound ==
  ASSUME LedgerInv, NEW sp \in Scopes \X Periods
  PROVE  /\ IsFiniteSet(Tokens(ChargedTo(sp), Risk))
         /\ Total(ChargedTo(sp), Risk) <= Exposure(ledger[sp])
         /\ Total(ChargedTo(sp), Risk) \in Nat /\ ledger[sp] \in Row
<1> DEFINE S == ChargedTo(sp)
           P == Tokens(S, Pending)
           U == Tokens(S, Unknown)
           A == Tokens(S, Actual)
<1>1. Tokens(S, Risk) \subseteq (P \union U) \union A
  <2>1. SUFFICES ASSUME NEW q \in S, NEW k \in 1..Risk[q] PROVE <<q, k>> \in (P \union U) \union A
    BY DEF Tokens
  <2>2. q \in Rows /\ paid[q] \in Paid /\ q[1] \in Callers
    <3>1. q \in Requests /\ paid[q] # None
      BY DEF ChargedTo, Rows
    <3> QED BY <3>1 DEF LedgerInv, PaidCallsInv, TypeOK, Requests, Rows
  <2>3. Cost[q[1]] \in Nat /\ paid[q].actual \in Nat
    BY <2>2, PaidCallsAssumption DEF Paid
  <2>4. CASE paid[q].state = "pending"
    <3>1. Risk[q] = Pending[q]
      BY <2>2, <2>4 DEF Risk, Pending
    <3> QED BY <3>1 DEF Tokens
  <2>5. CASE paid[q].state = "unknown"
    <3>1. Risk[q] = Unknown[q]
      BY <2>2, <2>5 DEF Risk, Unknown
    <3> QED BY <3>1 DEF Tokens
  <2>6. CASE paid[q].state = "known"
    <3>1. Risk[q] <= Actual[q] /\ Risk[q] \in Nat /\ Actual[q] \in Nat
      BY <2>2, <2>3, <2>6 DEF Risk, Actual
    <3>2. k \in 1..Actual[q]
      BY <3>1
    <3> QED BY <3>2 DEF Tokens
  <2> QED BY <2>2, <2>4, <2>5, <2>6 DEF Paid
<1>2. /\ IsFiniteSet(P) /\ ledger[sp].pending = Cardinality(P)
      /\ IsFiniteSet(U) /\ ledger[sp].unknown = Cardinality(U)
      /\ IsFiniteSet(A) /\ ledger[sp].actual = Cardinality(A)
  BY DEF LedgerInv, Exact, Total
<1> HIDE DEF P, U, A
<1>3. /\ Cardinality(P) \in Nat /\ Cardinality(U) \in Nat /\ Cardinality(A) \in Nat
  BY <1>2, FS_CardinalityType
<1>4. IsFiniteSet(P \union U) /\ Cardinality(P \union U) <= Cardinality(P) + Cardinality(U)
      /\ Cardinality(P \union U) \in Nat
  <2>1. /\ IsFiniteSet(P \union U)
        /\ Cardinality(P \union U) = Cardinality(P) + Cardinality(U) - Cardinality(P \intersect U)
    BY <1>2, FS_Union
  <2>2. IsFiniteSet(P \intersect U) /\ Cardinality(P \intersect U) \in Nat
    <3>1. P \intersect U \subseteq P
      OBVIOUS
    <3>2. IsFiniteSet(P \intersect U)
      BY <1>2, <3>1, FS_Subset
    <3> QED BY <3>2, FS_CardinalityType
  <2>3. Cardinality(P \union U) \in Nat
    BY <2>1, FS_CardinalityType
  <2> QED BY <1>3, <2>1, <2>2, <2>3
<1> DEFINE V == P \union U
<1> HIDE DEF V
<1>5. IsFiniteSet(V \union A) /\ Cardinality(V \union A) <= Cardinality(V) + Cardinality(A)
      /\ Cardinality(V \union A) \in Nat
  <2>1. /\ IsFiniteSet(V \union A)
        /\ Cardinality(V \union A) = Cardinality(V) + Cardinality(A) - Cardinality(V \intersect A)
    BY <1>2, <1>4, FS_Union DEF V
  <2>2. IsFiniteSet(V \intersect A) /\ Cardinality(V \intersect A) \in Nat
    <3>1. V \intersect A \subseteq A
      OBVIOUS
    <3>2. IsFiniteSet(V \intersect A)
      BY <1>2, <3>1, FS_Subset
    <3> QED BY <3>2, FS_CardinalityType
  <2>3. Cardinality(V \union A) \in Nat /\ Cardinality(V) \in Nat
    BY <1>4, <2>1, FS_CardinalityType DEF V
  <2> QED BY <1>3, <2>1, <2>2, <2>3
<1>6. /\ IsFiniteSet(Tokens(S, Risk)) /\ Cardinality(Tokens(S, Risk)) <= Cardinality(V \union A)
  BY <1>1, <1>5, FS_Subset DEF V
<1>7. Cardinality(Tokens(S, Risk)) \in Nat
  BY <1>6, FS_CardinalityType
<1>8. ledger[sp] \in Row
  BY DEF LedgerInv, PaidCallsInv, TypeOK
<1> QED BY <1>2, <1>3, <1>4, <1>5, <1>6, <1>7, <1>8 DEF V, Exposure, Total

\* A charge keeps the ledger exact, and within the limits it checks.
LEMMA ChargeExact ==
  ASSUME LedgerInv, NEW c \in Callers, caller[c].pc = "charge", Charges(c),
         NEW sp \in Scopes \X Periods
  PROVE  Exact(sp)' /\ Within(sp)'
<1> DEFINE q == Request(c)
           S == ChargedTo(sp)
<1>1. /\ q \notin Rows
      /\ \A p \in Rows : /\ Pending'[p] = Pending[p] /\ Unknown'[p] = Unknown[p]
                         /\ Actual'[p] = Actual[p] /\ Risk'[p] = Risk[p]
      /\ Pending'[q] = Cost[c] /\ Unknown'[q] = 0 /\ Actual'[q] = 0 /\ Risk'[q] = Cost[c]
      /\ Cost[c] \in Nat
  BY ChargeAdds
<1>2. ChargedTo(sp)' = S \union (IF sp \in ScopesOf[c] \X {Period} THEN {q} ELSE {})
  BY ChargeAdds
<1>3. S \subseteq Rows
  BY DEF ChargedTo
<1>4. /\ IsFiniteSet(S) /\ ledger[sp].calls = Cardinality(S)
      /\ IsFiniteSet(Tokens(S, Pending)) /\ ledger[sp].pending = Total(S, Pending)
      /\ IsFiniteSet(Tokens(S, Unknown)) /\ ledger[sp].unknown = Total(S, Unknown)
      /\ IsFiniteSet(Tokens(S, Actual)) /\ ledger[sp].actual = Total(S, Actual)
      /\ IsFiniteSet(Tokens(S, Risk)) /\ Total(S, Risk) <= MaxTokens[sp[1]]
      /\ Cardinality(S) <= MaxCalls[sp[1]]
  BY DEF LedgerInv, Exact, Within
<1>5. /\ Total(S, Risk) <= Exposure(ledger[sp]) /\ Total(S, Risk) \in Nat /\ ledger[sp] \in Row
  BY RiskBound
<1> DEFINE row == [ledger[sp] EXCEPT !.calls = @ + 1, !.pending = @ + Cost[c]]
<1>6. ledger'[sp] = IF sp \in ScopesOf[c] \X {Period} THEN row ELSE ledger[sp]
  BY DEF Charges
<1>7. row.calls = ledger[sp].calls + 1 /\ row.pending = ledger[sp].pending + Cost[c]
      /\ row.unknown = ledger[sp].unknown /\ row.actual = ledger[sp].actual
  BY <1>5 DEF Row
<1>8. CASE sp \notin ScopesOf[c] \X {Period}
  <2>1. ChargedTo(sp)' = S /\ ledger'[sp] = ledger[sp]
    BY <1>2, <1>6, <1>8
  <2> HIDE DEF q, S
  <2>2. /\ Tokens(S, Pending') = Tokens(S, Pending) /\ Tokens(S, Unknown') = Tokens(S, Unknown)
        /\ Tokens(S, Actual') = Tokens(S, Actual) /\ Tokens(S, Risk') = Tokens(S, Risk)
    BY <1>1, <1>3, SameTokens
  <2> QED BY <1>4, <2>1, <2>2 DEF Exact, Within, Total
<1>9. CASE sp \in ScopesOf[c] \X {Period}
  <2>1. ChargedTo(sp)' = S \union {q} /\ ledger'[sp] = row
    BY <1>2, <1>6, <1>9
  <2>2. Room(c, sp)
    BY <1>9 DEF Charges
  <2> HIDE DEF q, S, row
  <2>3. /\ q \notin S
        /\ \A p \in S : /\ Pending'[p] = Pending[p] /\ Unknown'[p] = Unknown[p]
                        /\ Actual'[p] = Actual[p] /\ Risk'[p] = Risk[p]
        /\ Pending'[q] \in Nat /\ Unknown'[q] \in Nat /\ Actual'[q] \in Nat /\ Risk'[q] \in Nat
    BY <1>1, <1>3
  <2>4. /\ IsFiniteSet(Tokens(S \union {q}, Pending'))
        /\ Total(S \union {q}, Pending') = Total(S, Pending) + Pending'[q]
    <3>1. Extends(S, q, Pending, Pending')
      BY <1>4, <2>3 DEF Extends
    <3> QED BY <3>1, TotalGrows
  <2>5. /\ IsFiniteSet(Tokens(S \union {q}, Unknown'))
        /\ Total(S \union {q}, Unknown') = Total(S, Unknown) + Unknown'[q]
    <3>1. Extends(S, q, Unknown, Unknown')
      BY <1>4, <2>3 DEF Extends
    <3> QED BY <3>1, TotalGrows
  <2>6. /\ IsFiniteSet(Tokens(S \union {q}, Actual'))
        /\ Total(S \union {q}, Actual') = Total(S, Actual) + Actual'[q]
    <3>1. Extends(S, q, Actual, Actual')
      BY <1>4, <2>3 DEF Extends
    <3> QED BY <3>1, TotalGrows
  <2>7. /\ IsFiniteSet(Tokens(S \union {q}, Risk'))
        /\ Total(S \union {q}, Risk') = Total(S, Risk) + Risk'[q]
    <3>1. Extends(S, q, Risk, Risk')
      BY <1>4, <2>3 DEF Extends
    <3> QED BY <3>1, TotalGrows
  <2>8. IsFiniteSet(S \union {q}) /\ Cardinality(S \union {q}) = Cardinality(S) + 1
    BY <1>4, <2>3, FS_AddElement
  <2>9. /\ Cardinality(S) \in Nat /\ Total(S, Pending) \in Nat /\ Total(S, Unknown) \in Nat
        /\ Total(S, Actual) \in Nat
    BY <1>4, FS_CardinalityType DEF Total
  <2>10. MaxCalls[sp[1]] \in Nat /\ MaxTokens[sp[1]] \in Nat
    BY PaidCallsAssumption
  <2>11. Exact(sp)'
    BY <1>1, <1>4, <1>7, <2>1, <2>4, <2>5, <2>6, <2>8, <2>9 DEF Exact
  <2>12. Cardinality(S \union {q}) <= MaxCalls[sp[1]] /\ Total(S \union {q}, Risk') <= MaxTokens[sp[1]]
    BY <1>1, <1>4, <1>5, <2>2, <2>7, <2>8, <2>9, <2>10 DEF Room, Exposure
  <2> QED BY <2>1, <2>7, <2>11, <2>12 DEF Within
<1> QED BY <1>8, <1>9

\* A settlement moves what a request held to what it cost or may have cost.
LEMMA SettleExact ==
  ASSUME LedgerInv, NEW c \in Callers, caller[c].pc \in {"sent", "finally"},
         NEW state \in {"unknown", "known"}, NEW actual \in Nat, Settles(c, state, actual),
         state = "unknown" => actual = 0, NEW sp \in Scopes \X Periods
  PROVE  Exact(sp)' /\ Within(sp)'
<1> DEFINE q == Request(c)
           S == ChargedTo(sp)
           unknown == IF state = "unknown" THEN Cost[c] ELSE 0
<1>1. /\ q \in Rows /\ Rows' = Rows /\ paid[q].actual = 0 /\ paid[q].state = "pending"
      /\ paid'[q].state = state /\ paid'[q].actual = actual /\ paid'[q].period = paid[q].period
      /\ \A p \in Rows \ {q} : paid'[p] = paid[p]
      /\ q[1] = c /\ Cost[c] \in Nat
  BY SettleChanges
<1>2. S \subseteq Rows
  BY DEF ChargedTo
<1>3. /\ IsFiniteSet(S) /\ ledger[sp].calls = Cardinality(S)
      /\ IsFiniteSet(Tokens(S, Pending)) /\ ledger[sp].pending = Total(S, Pending)
      /\ IsFiniteSet(Tokens(S, Unknown)) /\ ledger[sp].unknown = Total(S, Unknown)
      /\ IsFiniteSet(Tokens(S, Actual)) /\ ledger[sp].actual = Total(S, Actual)
      /\ IsFiniteSet(Tokens(S, Risk)) /\ Total(S, Risk) <= MaxTokens[sp[1]]
      /\ Cardinality(S) <= MaxCalls[sp[1]]
  BY DEF LedgerInv, Exact, Within
<1>4. Total(S, Risk) \in Nat /\ ledger[sp] \in Row
  BY RiskBound
<1> DEFINE row == [ledger[sp] EXCEPT !.pending = @ - Cost[c], !.unknown = @ + unknown, !.actual = @ + actual]
<1>5. ledger'[sp] = IF sp \in ScopesOf[c] \X {paid[q].period} THEN row ELSE ledger[sp]
  BY DEF Settles, SettleAs
<1>6. /\ row.calls = ledger[sp].calls /\ row.pending = ledger[sp].pending - Cost[c]
      /\ row.unknown = ledger[sp].unknown + unknown /\ row.actual = ledger[sp].actual + actual
  BY <1>4 DEF Row
<1>7. q \in S <=> sp \in ScopesOf[c] \X {paid[q].period}
  <2>1. sp \in ScopesOf[c] \X {paid[q].period} <=> sp[1] \in ScopesOf[c] /\ sp[2] = paid[q].period
    OBVIOUS
  <2> HIDE DEF q
  <2> QED BY <1>1, <2>1 DEF ChargedTo
<1>8. ChargedTo(sp)' = S
  <2> HIDE DEF q
  <2>1. \A p \in Rows : paid'[p].period = paid[p].period
    BY <1>1
  <2> QED BY <1>1, <2>1 DEF ChargedTo
<1>9. \A p \in Rows \ {q} : /\ Pending'[p] = Pending[p] /\ Unknown'[p] = Unknown[p]
                            /\ Actual'[p] = Actual[p] /\ Risk'[p] = Risk[p]
  <2> HIDE DEF q
  <2> QED BY <1>1 DEF Pending, Unknown, Actual, Risk
<1>10. /\ Pending[q] = Cost[c] /\ Unknown[q] = 0 /\ Actual[q] = 0 /\ Risk[q] = Cost[c]
       /\ Pending'[q] = 0 /\ Unknown'[q] = unknown /\ Actual'[q] = actual
       /\ Risk'[q] = IF state = "known" /\ actual < Cost[c] THEN actual ELSE Cost[c]
  <2> HIDE DEF q
  <2> QED BY <1>1 DEF Pending, Unknown, Actual, Risk
<1>11. unknown \in Nat
  BY <1>1
<1> HIDE DEF q, S, row, unknown
<1>12. CASE q \notin S
  <2>1. ledger'[sp] = ledger[sp]
    BY <1>5, <1>7, <1>12
  <2>2. \A p \in S : /\ Pending'[p] = Pending[p] /\ Unknown'[p] = Unknown[p]
                     /\ Actual'[p] = Actual[p] /\ Risk'[p] = Risk[p]
    BY <1>2, <1>9, <1>12
  <2>3. /\ Tokens(S, Pending') = Tokens(S, Pending) /\ Tokens(S, Unknown') = Tokens(S, Unknown)
        /\ Tokens(S, Actual') = Tokens(S, Actual) /\ Tokens(S, Risk') = Tokens(S, Risk)
    BY <2>2, SameTokens
  <2> QED BY <1>3, <1>8, <2>1, <2>3 DEF Exact, Within, Total
<1>13. CASE q \in S
  <2>1. ledger'[sp] = row
    BY <1>5, <1>7, <1>13
  <2>2. Total(S, Pending) \in Nat /\ Total(S, Unknown) \in Nat /\ Total(S, Actual) \in Nat
    BY <1>3, FS_CardinalityType DEF Total
  <2>3. IsFiniteSet(Tokens(S, Pending')) /\ Total(S, Pending') = Total(S, Pending) - Cost[c]
    <3>1. /\ IsFiniteSet(Tokens(S, Pending)) /\ Pending[q] \in Nat /\ Pending'[q] \in Nat
          /\ \A p \in S \ {q} : Pending'[p] = Pending[p]
      BY <1>1, <1>2, <1>3, <1>9, <1>10
    <3>2. /\ IsFiniteSet(Tokens(S, Pending'))
          /\ Total(S, Pending') = Total(S, Pending) - Pending[q] + Pending'[q]
      <4>1. Changes(S, q, Pending, Pending')
        BY <1>13, <3>1 DEF Changes
      <4> QED BY <4>1, TotalChanges
    <3> QED BY <1>1, <1>10, <2>2, <3>2
  <2>4. IsFiniteSet(Tokens(S, Unknown')) /\ Total(S, Unknown') = Total(S, Unknown) + unknown
    <3>1. /\ IsFiniteSet(Tokens(S, Unknown)) /\ Unknown[q] \in Nat /\ Unknown'[q] \in Nat
          /\ \A p \in S \ {q} : Unknown'[p] = Unknown[p]
      BY <1>2, <1>3, <1>9, <1>10, <1>11
    <3>2. /\ IsFiniteSet(Tokens(S, Unknown'))
          /\ Total(S, Unknown') = Total(S, Unknown) - Unknown[q] + Unknown'[q]
      <4>1. Changes(S, q, Unknown, Unknown')
        BY <1>13, <3>1 DEF Changes
      <4> QED BY <4>1, TotalChanges
    <3> QED BY <1>10, <1>11, <2>2, <3>2
  <2>5. IsFiniteSet(Tokens(S, Actual')) /\ Total(S, Actual') = Total(S, Actual) + actual
    <3>1. /\ IsFiniteSet(Tokens(S, Actual)) /\ Actual[q] \in Nat /\ Actual'[q] \in Nat
          /\ \A p \in S \ {q} : Actual'[p] = Actual[p]
      BY <1>2, <1>3, <1>9, <1>10
    <3>2. /\ IsFiniteSet(Tokens(S, Actual'))
          /\ Total(S, Actual') = Total(S, Actual) - Actual[q] + Actual'[q]
      <4>1. Changes(S, q, Actual, Actual')
        BY <1>13, <3>1 DEF Changes
      <4> QED BY <4>1, TotalChanges
    <3> QED BY <1>10, <2>2, <3>2
  <2>6. IsFiniteSet(Tokens(S, Risk')) /\ Total(S, Risk') <= Total(S, Risk)
    <3>1. /\ IsFiniteSet(Tokens(S, Risk)) /\ Risk[q] \in Nat /\ Risk'[q] \in Nat /\ Risk'[q] <= Risk[q]
          /\ \A p \in S \ {q} : Risk'[p] = Risk[p]
      BY <1>1, <1>2, <1>3, <1>9, <1>10
    <3>2. IsFiniteSet(Tokens(S, Risk')) /\ Total(S, Risk') = Total(S, Risk) - Risk[q] + Risk'[q]
      <4>1. Changes(S, q, Risk, Risk')
        BY <1>13, <3>1 DEF Changes
      <4> QED BY <4>1, TotalChanges
    <3> QED BY <1>4, <3>1, <3>2
  <2>7. Exact(sp)'
    BY <1>3, <1>6, <1>8, <2>1, <2>3, <2>4, <2>5 DEF Exact
  <2>8. MaxTokens[sp[1]] \in Nat /\ Total(S, Risk') \in Nat
    BY <2>6, PaidCallsAssumption, FS_CardinalityType DEF Total
  <2>9. Total(S, Risk') <= MaxTokens[sp[1]]
    BY <1>3, <1>4, <2>6, <2>8
  <2> QED BY <1>3, <1>8, <2>6, <2>7, <2>9 DEF Within
<1> QED BY <1>12, <1>13

\* The ledger stays exact and within its limits.
LEMMA ExactStep ==
  ASSUME LedgerInv, [Next]_paidVars
  PROVE  /\ RowsSound'
         /\ \A sp \in Scopes \X Periods : Exact(sp)' /\ Within(sp)'
<1>1. CASE UNCHANGED <<ledger, paid>>
  <2>1. /\ Rows' = Rows /\ Pending' = Pending /\ Unknown' = Unknown /\ Actual' = Actual /\ Risk' = Risk
    BY <1>1 DEF Rows, Pending, Unknown, Actual, Risk
  <2>2. \A sp : ChargedTo(sp)' = ChargedTo(sp)
    BY <1>1, <2>1 DEF ChargedTo
  <2> QED BY <1>1, <2>1, <2>2 DEF LedgerInv, RowsSound, Exact, Within
<1>2. ASSUME NEW c \in Callers, caller[c].pc = "charge", Charges(c)
      PROVE  RowsSound' /\ \A sp \in Scopes \X Periods : Exact(sp)' /\ Within(sp)'
  <2>1. RowsSound'
    <3>1. LET q == Request(c) IN
          q \in Requests \ Rows /\ Rows' = Rows \union {q} /\ \A p \in Rows : paid'[p] = paid[p]
      BY <1>2, ChargeAdds
    <3>2. paid'[Request(c)].actual = 0
      <4>1. paid \in [Requests -> Paid \union {None}] /\ Request(c) \in Requests
        BY <3>1 DEF LedgerInv, PaidCallsInv, TypeOK
      <4> QED BY <1>2, <4>1 DEF Charges
    <3> QED BY <3>1, <3>2 DEF LedgerInv, RowsSound
  <2> QED BY <1>2, <2>1, ChargeExact
<1>3. ASSUME NEW c \in Callers, caller[c].pc \in {"sent", "finally"},
             NEW state \in {"unknown", "known"}, NEW actual \in Nat, Settles(c, state, actual),
             state = "unknown" => actual = 0
      PROVE  RowsSound' /\ \A sp \in Scopes \X Periods : Exact(sp)' /\ Within(sp)'
  <2>1. RowsSound'
    <3>1. LET q == Request(c) IN
          /\ q \in Rows /\ Rows' = Rows
          /\ paid'[q].state = state /\ paid'[q].actual = actual
          /\ \A p \in Rows \ {q} : paid'[p] = paid[p]
      BY <1>3, SettleChanges
    <3> QED BY <1>3, <3>1 DEF LedgerInv, RowsSound
  <2> QED BY <1>3, <2>1, SettleExact
<1>4. ASSUME NEW c \in Callers, caller[c].pc \in {"sent", "finally"}, Settles(c, "unknown", 0)
      PROVE  RowsSound' /\ \A sp \in Scopes \X Periods : Exact(sp)' /\ Within(sp)'
  BY <1>3, <1>4
<1>5. ASSUME NEW c \in Callers, caller[c].pc \in {"sent", "finally"}, NEW actual \in Nat,
             Settles(c, "known", actual)
      PROVE  RowsSound' /\ \A sp \in Scopes \X Periods : Exact(sp)' /\ Within(sp)'
  BY <1>3, <1>5
<1>6. PaidCallsInv
  BY DEF LedgerInv
<1> QED BY <1>1, <1>2, <1>4, <1>5, <1>6, LedgerSteps

-----------------------------------------------------------------------------
(* Requests without a row.                                                 *)

\* A step of one caller keeps them fresh, if its own are.
LEMMA FreshOfOne ==
  ASSUME LedgerInv, NEW c \in Callers, NEW row, caller' = [caller EXCEPT ![c] = row],
         \A q \in Requests : q[1] # c => paid'[q] = paid[q],
         \A k \in 0..Retries[c] : \/ row.pc = "over" \/ k < row.n
                                  \/ k = row.n /\ row.pc \notin Early
                                  \/ paid'[<<c, k>>] = None
  PROVE  RequestsFresh'
<1>1. SUFFICES ASSUME NEW d \in Callers, NEW k \in 0..Retries[d]
               PROVE  \/ caller'[d].pc = "over" \/ k < caller'[d].n
                      \/ k = caller'[d].n /\ caller'[d].pc \notin Early
                      \/ paid'[<<d, k>>] = None
  BY DEF RequestsFresh
<1>2. caller \in [Callers -> Caller]
  BY DEF LedgerInv, PaidCallsInv, TypeOK
<1>3. CASE d = c
  <2>1. caller'[d] = row
    BY <1>2, <1>3
  <2> QED BY <1>3, <2>1
<1>4. CASE d # c
  <2>1. caller'[d] = caller[d]
    BY <1>2, <1>4
  <2>2. <<d, k>> \in Requests /\ <<d, k>>[1] = d
    BY DEF Requests
  <2>3. paid'[<<d, k>>] = paid[<<d, k>>]
    BY <1>4, <2>2
  <2> QED BY <2>1, <2>3 DEF LedgerInv, RequestsFresh
<1> QED BY <1>3, <1>4

\* A caller that leaves has nothing to keep fresh.
LEMMA FreshLeave ==
  ASSUME LedgerInv, NEW c \in Callers, Leave(c), \A q \in Requests : q[1] # c => paid'[q] = paid[q]
  PROVE  RequestsFresh'
<1>1. caller' = [caller EXCEPT ![c] = At("over")] /\ At("over").pc = "over"
  BY DEF Leave, At
<1> QED BY <1>1, FreshOfOne

\* One that goes on with its request.
LEMMA FreshOn ==
  ASSUME LedgerInv, NEW c \in Callers, NEW row, caller' = [caller EXCEPT ![c] = row],
         \A q \in Requests : q # Request(c) => paid'[q] = paid[q],
         row.n = caller[c].n, caller[c].pc # "over",
         row.pc \in Early => caller[c].pc \in Early /\ UNCHANGED paid
  PROVE  RequestsFresh'
<1>1. \A q \in Requests : q[1] # c => paid'[q] = paid[q]
  BY DEF Request
<1>2. caller[c].n \in Nat /\ Retries[c] \in Nat
  BY PaidCallsAssumption DEF LedgerInv, PaidCallsInv, TypeOK, Caller
<1>3. ASSUME NEW k \in 0..Retries[c]
      PROVE  \/ row.pc = "over" \/ k < row.n
             \/ k = row.n /\ row.pc \notin Early
             \/ paid'[<<c, k>>] = None
  <2>1. \/ caller[c].pc = "over" \/ k < caller[c].n
        \/ k = caller[c].n /\ caller[c].pc \notin Early
        \/ paid[<<c, k>>] = None
    BY DEF LedgerInv, RequestsFresh
  <2>2. CASE k < caller[c].n
    BY <2>2
  <2>3. CASE k = caller[c].n
    BY <2>1, <2>3
  <2>4. CASE k > caller[c].n
    <3>1. <<c, k>> \in Requests /\ <<c, k>> # Request(c)
      BY <1>2, <2>4 DEF Requests, Request
    <3> QED BY <1>2, <2>1, <2>4, <3>1
  <2> QED BY <1>2, <2>2, <2>3, <2>4
<1> QED BY <1>1, <1>3, FreshOfOne

LEMMA FreshGoto ==
  ASSUME LedgerInv, NEW c \in Callers, NEW pc, Goto(c, pc), caller[c].pc # "over",
         \A q \in Requests : q # Request(c) => paid'[q] = paid[q],
         pc \in Early => caller[c].pc \in Early /\ UNCHANGED paid
  PROVE  RequestsFresh'
<1> DEFINE row == [caller[c] EXCEPT !.pc = pc]
<1>1. caller' = [caller EXCEPT ![c] = row]
  BY DEF Goto
<1>2. row.n = caller[c].n /\ row.pc = pc
  BY DEF LedgerInv, PaidCallsInv, TypeOK, Caller
<1> HIDE DEF row
<1> QED BY <1>1, <1>2, FreshOn

\* A caller that repeats a request takes the next, which has no row either.
LEMMA FreshRetry ==
  ASSUME LedgerInv, NEW c \in Callers, caller[c].pc = "settled", Retry(c), UNCHANGED paid
  PROVE  RequestsFresh'
<1> DEFINE row == [caller[c] EXCEPT !.pc = "try", !.n = caller[c].n + 1, !.reply = None]
<1>1. caller' = [caller EXCEPT ![c] = row]
  BY DEF Retry
<1>2. caller[c] \in Caller
  BY DEF LedgerInv, PaidCallsInv, TypeOK
<1>3. row.n = caller[c].n + 1 /\ caller[c].n \in Nat /\ Retries[c] \in Nat
  BY <1>2, PaidCallsAssumption DEF Caller
<1> HIDE DEF row
<1>4. ASSUME NEW k \in 0..Retries[c] PROVE k < row.n \/ paid'[<<c, k>>] = None
  <2>1. \/ caller[c].pc = "over" \/ k < caller[c].n
        \/ k = caller[c].n /\ caller[c].pc \notin Early
        \/ paid[<<c, k>>] = None
    BY DEF LedgerInv, RequestsFresh
  <2> QED BY <1>3, <2>1
<1>5. \A q \in Requests : q[1] # c => paid'[q] = paid[q]
  OBVIOUS
<1> QED BY <1>1, <1>4, <1>5, FreshOfOne

\* A settlement leaves the rows of other requests alone.
LEMMA SettleOthers ==
  ASSUME LedgerInv, NEW c \in Callers, NEW kind, NEW usage \in Usages \union {None},
         caller[c].pc \in {"sent", "finally"}, SettleOnce(c, kind, usage)
  PROVE  \A q \in Requests : q # Request(c) => paid'[q] = paid[q]
<1>1. PaidCallsInv /\ paid[Request(c)] \in Paid
  BY DEF LedgerInv, PaidCallsInv, CallersSound
<1> QED BY <1>1, SettleOnceType

\* Before its charge, no request has a row.
LEMMA FreshStep ==
  ASSUME LedgerInv, [Next]_paidVars
  PROVE  RequestsFresh'
<1>1. ASSUME NEW c \in Callers, Start(c) PROVE RequestsFresh'
  <2>1. PICK attempt \in 0..MaxAttempts :
          caller' = [caller EXCEPT ![c] = [@ EXCEPT !.pc = "check", !.attempt = attempt, !.started = now]]
    BY <1>1 DEF Start
  <2> DEFINE row == [caller[c] EXCEPT !.pc = "check", !.attempt = attempt, !.started = now]
  <2>2. caller' = [caller EXCEPT ![c] = row]
    BY <2>1
  <2>3. row.n = caller[c].n
    BY DEF LedgerInv, PaidCallsInv, TypeOK, Caller
  <2>4. caller[c].pc \in Early /\ caller[c].pc # "over" /\ UNCHANGED paid
    BY <1>1 DEF Start, Early
  <2> HIDE DEF row
  <2> QED BY <2>2, <2>3, <2>4, FreshOn
<1>2. ASSUME NEW c \in Callers, CheckProvider(c) \/ ReserveRun(c) PROVE RequestsFresh'
  <2>1. UNCHANGED paid /\ caller[c].pc \in Early /\ caller[c].pc # "over"
        /\ (Leave(c) \/ Goto(c, "try") \/ Goto(c, "charge"))
    BY <1>2 DEF CheckProvider, ReserveRun, Early
  <2> QED BY <2>1, FreshLeave, FreshGoto
<1>3. ASSUME NEW c \in Callers, Charge(c) PROVE RequestsFresh'
  <2>1. CASE Leave(c) /\ UNCHANGED paid
    BY <2>1, FreshLeave
  <2>2. CASE Goto(c, "sent") /\ \E row : paid' = [paid EXCEPT ![Request(c)] = row]
    <3>1. \A q \in Requests : q # Request(c) => paid'[q] = paid[q]
      BY <2>2 DEF LedgerInv, PaidCallsInv, TypeOK
    <3>2. caller[c].pc # "over" /\ "sent" \notin Early
      BY <1>3 DEF Charge, Early
    <3> QED BY <2>2, <3>1, <3>2, FreshGoto
  <2> QED BY <1>3, <2>1, <2>2 DEF Charge
<1>4. ASSUME NEW c \in Callers, NEW kind \in Kinds, NEW usage \in Usages \union {None},
             Settle(c, kind, usage)
      PROVE  RequestsFresh'
  <2>1. caller[c].pc = "sent" /\ SettleOnce(c, kind, usage)
    BY <1>4 DEF Settle
  <2>2. \A q \in Requests : q # Request(c) => paid'[q] = paid[q]
    BY <2>1, SettleOthers
  <2>3. PICK pc \in {"settled", "finally"} :
          caller' = [caller EXCEPT ![c] = [@ EXCEPT !.pc = pc, !.reply = kind]]
    BY <1>4 DEF Settle
  <2> DEFINE row == [caller[c] EXCEPT !.pc = pc, !.reply = kind]
  <2>4. caller' = [caller EXCEPT ![c] = row]
    BY <2>3
  <2>5. row.n = caller[c].n /\ row.pc = pc
    BY DEF LedgerInv, PaidCallsInv, TypeOK, Caller
  <2>6. row.pc \notin Early
    BY <2>5 DEF Early
  <2> HIDE DEF row
  <2> QED BY <2>1, <2>2, <2>4, <2>5, <2>6, FreshOn
<1>5. ASSUME NEW c \in Callers, Interrupt(c) \/ Crash(c) PROVE RequestsFresh'
  <2>1. UNCHANGED paid /\ (Leave(c) \/ (caller[c].pc # "over" /\ Goto(c, "finally")))
    BY <1>5 DEF Interrupt, Crash
  <2>2. "finally" \notin Early
    BY DEF Early
  <2> QED BY <2>1, <2>2, FreshLeave, FreshGoto
<1>6. ASSUME NEW c \in Callers, Finally(c) PROVE RequestsFresh'
  <2>1. caller[c].pc = "finally" /\ SettleOnce(c, "lost", None) /\ Leave(c)
    BY <1>6 DEF Finally
  <2>2. \A q \in Requests : q # Request(c) => paid'[q] = paid[q]
    BY <2>1, SettleOthers
  <2>3. \A q \in Requests : q[1] # c => paid'[q] = paid[q]
    BY <2>2 DEF Request
  <2> QED BY <2>1, <2>3, FreshLeave
<1>7. ASSUME NEW c \in Callers, Conclude(c) PROVE RequestsFresh'
  <2>1. UNCHANGED paid /\ caller[c].pc = "settled" /\ (Leave(c) \/ Retry(c))
    BY <1>7 DEF Conclude, GiveUp
  <2> QED BY <2>1, FreshLeave, FreshRetry
<1>8. ASSUME (\E r \in Runs : TakeOver(r) \/ EndRun(r)) \/ Tick \/ UNCHANGED paidVars
      PROVE  RequestsFresh'
  <2>1. UNCHANGED <<caller, paid>>
    BY <1>8 DEF TakeOver, EndRun, Tick, paidVars
  <2> QED BY <2>1 DEF LedgerInv, RequestsFresh
<1> QED BY <1>1, <1>2, <1>3, <1>4, <1>5, <1>6, <1>7, <1>8 DEF Next, CallerStep

-----------------------------------------------------------------------------
(* The budgets of runs.                                                    *)

\* A run that reserves nothing more keeps its budget.
LEMMA BudgetKept ==
  ASSUME LedgerInv, NEW r \in Runs, Reserving(r)' \subseteq Reserving(r),
         run'[r].calls = run[r].calls, run'[r].tokens = run[r].tokens
  PROVE  Budgeted(r)'
<1> DEFINE S == Reserving(r)
           T == Reserving(r)'
<1>1. /\ IsFiniteSet(S) /\ Cardinality(S) <= run[r].calls /\ run[r].calls <= MaxRunCalls
      /\ IsFiniteSet(Tokens(S, Reserved))
      /\ Total(S, Reserved) <= run[r].tokens /\ run[r].tokens <= MaxRunTokens
  BY DEF LedgerInv, Budgeted
<1>2. run[r].calls \in Nat /\ run[r].tokens \in Nat
  BY DEF LedgerInv, PaidCallsInv, TypeOK, Run
<1>3. T \subseteq S
  OBVIOUS
<1> HIDE DEF S, T
<1>4. IsFiniteSet(T) /\ Cardinality(T) <= Cardinality(S)
  BY <1>1, <1>3, FS_Subset
<1>5. IsFiniteSet(Tokens(T, Reserved)) /\ Total(T, Reserved) <= Total(S, Reserved)
  BY <1>1, <1>3, FewerTokens
<1>6. /\ Cardinality(T) \in Nat /\ Cardinality(S) \in Nat
      /\ Total(T, Reserved) \in Nat /\ Total(S, Reserved) \in Nat
  BY <1>1, <1>4, <1>5, FS_CardinalityType DEF Total
<1>7. Cardinality(T) <= run'[r].calls /\ Total(T, Reserved) <= run'[r].tokens
  BY <1>1, <1>2, <1>4, <1>5, <1>6
<1> QED BY <1>1, <1>4, <1>5, <1>7 DEF Budgeted, T

\* One that reserves one more call has room for it.
LEMMA BudgetGrows ==
  ASSUME LedgerInv, NEW r \in Runs, NEW q, NEW cost \in Nat,
         q \notin Reserving(r), Reserving(r)' = Reserving(r) \union {q}, Reserved[q] = cost,
         run'[r].calls = run[r].calls + 1, run'[r].tokens = run[r].tokens + cost,
         run[r].calls < MaxRunCalls, run[r].tokens + cost <= MaxRunTokens
  PROVE  Budgeted(r)'
<1> DEFINE S == Reserving(r)
<1>1. /\ IsFiniteSet(S) /\ Cardinality(S) <= run[r].calls
      /\ IsFiniteSet(Tokens(S, Reserved)) /\ Total(S, Reserved) <= run[r].tokens
  BY DEF LedgerInv, Budgeted
<1>2. run[r].calls \in Nat /\ run[r].tokens \in Nat /\ MaxRunCalls \in Nat /\ MaxRunTokens \in Nat
  BY PaidCallsAssumption DEF LedgerInv, PaidCallsInv, TypeOK, Run
<1>3. q \notin S /\ Reserving(r)' = S \union {q}
  OBVIOUS
<1> HIDE DEF S
<1>4. IsFiniteSet(S \union {q}) /\ Cardinality(S \union {q}) = Cardinality(S) + 1
  BY <1>1, <1>3, FS_AddElement
<1>5. /\ IsFiniteSet(Tokens(S \union {q}, Reserved))
      /\ Total(S \union {q}, Reserved) = Total(S, Reserved) + cost
  <2>1. Extends(S, q, Reserved, Reserved)
    BY <1>1, <1>3 DEF Extends
  <2>2. /\ IsFiniteSet(Tokens(S \union {q}, Reserved))
        /\ Total(S \union {q}, Reserved) = Total(S, Reserved) + Reserved[q]
    BY <2>1, TotalGrows
  <2> QED BY <2>2
<1>6. Cardinality(S) \in Nat /\ Total(S, Reserved) \in Nat
  BY <1>1, FS_CardinalityType DEF Total
<1>7. /\ Cardinality(S \union {q}) <= run'[r].calls /\ run'[r].calls <= MaxRunCalls
      /\ Total(S \union {q}, Reserved) <= run'[r].tokens /\ run'[r].tokens <= MaxRunTokens
  BY <1>1, <1>2, <1>4, <1>5, <1>6
<1> QED BY <1>3, <1>4, <1>5, <1>7 DEF Budgeted

\* A step of a caller that does not take it to its charge reserves nothing.
LEMMA BudgetOfOne ==
  ASSUME LedgerInv, NEW c \in Callers, NEW row, caller' = [caller EXCEPT ![c] = row],
         row.pc # "charge", UNCHANGED run,
         \A q \in Requests : q # Request(c) => paid'[q] = paid[q],
         paid' = paid \/ paid[Request(c)] # None \/ caller[c].pc = "charge"
  PROVE  \A r \in Runs : Budgeted(r)'
<1>1. SUFFICES ASSUME NEW r \in Runs PROVE Reserving(r)' \subseteq Reserving(r)
  BY BudgetKept
<1>2. SUFFICES ASSUME NEW q \in Requests, RunOf[q[1]] = r,
                      \/ q \in Rows'
                      \/ caller'[q[1]].pc = "charge" /\ q[2] = caller'[q[1]].n
               PROVE  q \in Rows \/ (caller[q[1]].pc = "charge" /\ q[2] = caller[q[1]].n)
  BY DEF Reserving
<1>3. q[1] \in Callers /\ q = <<q[1], q[2]>> /\ caller \in [Callers -> Caller]
  BY DEF Requests, LedgerInv, PaidCallsInv, TypeOK
<1>4. CASE q \in Rows'
  <2>1. CASE q # Request(c)
    BY <1>4, <2>1 DEF Rows
  <2>2. CASE q = Request(c)
    <3>1. q[1] = c /\ q[2] = caller[c].n
      BY <2>2 DEF Request
    <3> QED BY <1>4, <2>2, <3>1 DEF Rows
  <2> QED BY <2>1, <2>2
<1>5. CASE caller'[q[1]].pc = "charge" /\ q[2] = caller'[q[1]].n
  <2>1. q[1] # c
    BY <1>3, <1>5
  <2>2. caller'[q[1]] = caller[q[1]]
    BY <1>3, <2>1
  <2> QED BY <1>5, <2>2
<1> QED BY <1>2, <1>4, <1>5

LEMMA BudgetLeave ==
  ASSUME LedgerInv, NEW c \in Callers, Leave(c), UNCHANGED run,
         \A q \in Requests : q # Request(c) => paid'[q] = paid[q],
         paid' = paid \/ paid[Request(c)] # None \/ caller[c].pc = "charge"
  PROVE  \A r \in Runs : Budgeted(r)'
<1>1. caller' = [caller EXCEPT ![c] = At("over")] /\ At("over").pc = "over"
  BY DEF Leave, At
<1> QED BY <1>1, BudgetOfOne

LEMMA BudgetGoto ==
  ASSUME LedgerInv, NEW c \in Callers, NEW pc, Goto(c, pc), pc # "charge", UNCHANGED run,
         \A q \in Requests : q # Request(c) => paid'[q] = paid[q],
         paid' = paid \/ paid[Request(c)] # None \/ caller[c].pc = "charge"
  PROVE  \A r \in Runs : Budgeted(r)'
<1> DEFINE row == [caller[c] EXCEPT !.pc = pc]
<1>1. caller' = [caller EXCEPT ![c] = row]
  BY DEF Goto
<1>2. row.pc = pc
  BY DEF LedgerInv, PaidCallsInv, TypeOK, Caller
<1> HIDE DEF row
<1> QED BY <1>1, <1>2, BudgetOfOne

\* A reservation is the only step that reserves, and for one run.
LEMMA BudgetReserve ==
  ASSUME LedgerInv, NEW c \in Callers, ReserveRun(c), NEW r \in Runs
  PROVE  Budgeted(r)'
<1> DEFINE q == Request(c)
<1>1. caller[c].pc = "try" /\ UNCHANGED paid
  BY DEF ReserveRun
<1>2. CASE Leave(c) /\ UNCHANGED run
  BY <1>1, <1>2, BudgetLeave
<1>3. CASE Goto(c, "charge")
  <2>1. /\ caller \in [Callers -> Caller] /\ run \in [Runs -> Run] /\ q \in Requests
        /\ q = <<c, caller[c].n>>
    BY RequestType DEF LedgerInv, PaidCallsInv, TypeOK, Request
  <2> DEFINE row == [caller[c] EXCEPT !.pc = "charge"]
  <2>2. caller' = [caller EXCEPT ![c] = row] /\ row.pc = "charge" /\ row.n = caller[c].n
    BY <1>3, <2>1 DEF Goto, Caller
  <2> HIDE DEF row
  <2>3. caller'[c].pc = "charge" /\ caller'[c].n = caller[c].n
        /\ \A d \in Callers \ {c} : caller'[d] = caller[d]
    BY <2>1, <2>2
  <2>4. Rows' = Rows
    BY <1>1 DEF Rows
  <2> HIDE DEF q
  <2>5. Reserving(r)' = Reserving(r) \union (IF RunOf[c] = r THEN {q} ELSE {})
    <3>1. ASSUME NEW p \in Requests
          PROVE  p \in Reserving(r)' <=> p \in Reserving(r) \/ (RunOf[c] = r /\ p = q)
      <4>1. p[1] \in Callers /\ p = <<p[1], p[2]>>
        BY DEF Requests
      <4>2. CASE p[1] = c
        <5>1. p = q <=> p[2] = caller[c].n
          BY <2>1, <4>1, <4>2
        <5> QED BY <1>1, <2>3, <2>4, <4>2, <5>1 DEF Reserving
      <4>3. CASE p[1] # c
        <5>1. caller'[p[1]] = caller[p[1]] /\ p # q
          BY <2>1, <2>3, <4>1, <4>3
        <5> QED BY <2>4, <5>1 DEF Reserving
      <4> QED BY <4>2, <4>3
    <3>2. Reserving(r) \subseteq Requests /\ Reserving(r)' \subseteq Requests
      BY DEF Reserving
    <3> QED BY <2>1, <3>1, <3>2
  <2>6. CASE RunOf[c] # r
    <3>1. run'[r] = run[r]
      BY <1>3, <2>1, <2>6 DEF ReserveRun
    <3> QED BY <2>5, <2>6, <3>1, BudgetKept
  <2>7. CASE RunOf[c] = r
    <3>1. q \notin Reserving(r)
      <4>1. paid[q] = None
        <5>1. caller[c].n \in 0..Retries[c] /\ caller[c].n \in Nat
          BY PaidCallsAssumption, <2>1 DEF LedgerInv, PaidCallsInv, CallersSound, Caller
        <5> QED BY <1>1, <2>1, <5>1 DEF LedgerInv, RequestsFresh, Early
      <4> QED BY <1>1, <2>1, <4>1 DEF Reserving, Rows
    <3>2. r # None
      BY PaidCallsAssumption
    <3>3. /\ run[r].calls < MaxRunCalls /\ run[r].tokens + Cost[c] <= MaxRunTokens
          /\ run' = [run EXCEPT ![r].calls = @ + 1, ![r].tokens = @ + Cost[c]]
      <4>1. ~Leave(c)
        <5>1. CASE Leave(c)
          <6>1. caller'[c].pc = "over"
            BY <2>1, <5>1 DEF Leave, At
          <6> QED BY <2>3, <6>1
        <5> QED BY <5>1
      <4> QED BY <2>7, <3>2, <4>1 DEF ReserveRun
    <3>4. run'[r].calls = run[r].calls + 1 /\ run'[r].tokens = run[r].tokens + Cost[c]
      <4>1. run[r] \in Run
        BY <2>1
      <4>2. run'[r] = [run[r] EXCEPT !.calls = run[r].calls + 1, !.tokens = run[r].tokens + Cost[c]]
        BY <2>1, <3>3
      <4> QED BY <4>1, <4>2 DEF Run
    <3>5. Reserved[q] = Cost[c] /\ Cost[c] \in Nat
      BY <2>1, PaidCallsAssumption DEF Reserved
    <3>6. Reserving(r)' = Reserving(r) \union {q}
      BY <2>5, <2>7
    <3> QED BY <3>1, <3>3, <3>4, <3>5, <3>6, BudgetGrows
  <2> QED BY <2>6, <2>7
<1> QED BY <1>2, <1>3 DEF ReserveRun

\* Runs keep their budget.
LEMMA BudgetStep ==
  ASSUME LedgerInv, [Next]_paidVars
  PROVE  \A r \in Runs : Budgeted(r)'
<1>1. ASSUME NEW c \in Callers, Start(c) PROVE \A r \in Runs : Budgeted(r)'
  <2>1. PICK attempt \in 0..MaxAttempts :
          caller' = [caller EXCEPT ![c] = [@ EXCEPT !.pc = "check", !.attempt = attempt, !.started = now]]
    BY <1>1 DEF Start
  <2> DEFINE row == [caller[c] EXCEPT !.pc = "check", !.attempt = attempt, !.started = now]
  <2>2. caller' = [caller EXCEPT ![c] = row]
    BY <2>1
  <2>3. row.pc # "charge"
    BY DEF LedgerInv, PaidCallsInv, TypeOK, Caller
  <2>4. UNCHANGED <<run, paid>>
    BY <1>1 DEF Start
  <2> HIDE DEF row
  <2> QED BY <2>2, <2>3, <2>4, BudgetOfOne
<1>2. ASSUME NEW c \in Callers, CheckProvider(c) \/ Interrupt(c) \/ Crash(c)
      PROVE  \A r \in Runs : Budgeted(r)'
  <2>1. UNCHANGED <<run, paid>> /\ (Leave(c) \/ Goto(c, "try") \/ Goto(c, "finally"))
    BY <1>2 DEF CheckProvider, Interrupt, Crash
  <2> QED BY <2>1, BudgetLeave, BudgetGoto
<1>3. ASSUME NEW c \in Callers, Charge(c) PROVE \A r \in Runs : Budgeted(r)'
  <2>1. UNCHANGED run /\ caller[c].pc = "charge"
    BY <1>3 DEF Charge
  <2>2. CASE Leave(c) /\ UNCHANGED paid
    BY <2>1, <2>2, BudgetLeave
  <2>3. CASE Goto(c, "sent") /\ \E row : paid' = [paid EXCEPT ![Request(c)] = row]
    <3>1. \A q \in Requests : q # Request(c) => paid'[q] = paid[q]
      BY <2>3 DEF LedgerInv, PaidCallsInv, TypeOK
    <3> QED BY <2>1, <2>3, <3>1, BudgetGoto
  <2> QED BY <1>3, <2>2, <2>3 DEF Charge
<1>4. ASSUME NEW c \in Callers, caller[c].pc \in {"sent", "finally"} PROVE paid[Request(c)] # None
  BY <1>4, PaidCallsAssumption DEF LedgerInv, PaidCallsInv, CallersSound
<1>5. ASSUME NEW c \in Callers, NEW kind \in Kinds, NEW usage \in Usages \union {None},
             Settle(c, kind, usage)
      PROVE  \A r \in Runs : Budgeted(r)'
  <2>1. caller[c].pc = "sent" /\ SettleOnce(c, kind, usage) /\ UNCHANGED run
    BY <1>5 DEF Settle
  <2>2. \A q \in Requests : q # Request(c) => paid'[q] = paid[q]
    BY <2>1, SettleOthers
  <2>3. PICK pc \in {"settled", "finally"} :
          caller' = [caller EXCEPT ![c] = [@ EXCEPT !.pc = pc, !.reply = kind]]
    BY <1>5 DEF Settle
  <2> DEFINE row == [caller[c] EXCEPT !.pc = pc, !.reply = kind]
  <2>4. caller' = [caller EXCEPT ![c] = row]
    BY <2>3
  <2>5. row.pc # "charge"
    BY DEF LedgerInv, PaidCallsInv, TypeOK, Caller
  <2> HIDE DEF row
  <2> QED BY <1>4, <2>1, <2>2, <2>4, <2>5, BudgetOfOne
<1>6. ASSUME NEW c \in Callers, Finally(c) PROVE \A r \in Runs : Budgeted(r)'
  <2>1. caller[c].pc = "finally" /\ SettleOnce(c, "lost", None) /\ Leave(c) /\ UNCHANGED run
    BY <1>6 DEF Finally
  <2>2. \A q \in Requests : q # Request(c) => paid'[q] = paid[q]
    BY <2>1, SettleOthers
  <2> QED BY <1>4, <2>1, <2>2, BudgetLeave
<1>7. ASSUME NEW c \in Callers, Conclude(c) PROVE \A r \in Runs : Budgeted(r)'
  <2>1. UNCHANGED <<run, paid>> /\ (Leave(c) \/ Retry(c))
    BY <1>7 DEF Conclude, GiveUp
  <2>2. CASE Retry(c)
    <3> DEFINE row == [caller[c] EXCEPT !.pc = "try", !.n = caller[c].n + 1, !.reply = None]
    <3>1. caller' = [caller EXCEPT ![c] = row]
      BY <2>2 DEF Retry
    <3>2. row.pc # "charge"
      BY DEF LedgerInv, PaidCallsInv, TypeOK, Caller
    <3> HIDE DEF row
    <3> QED BY <2>1, <3>1, <3>2, BudgetOfOne
  <2> QED BY <2>1, <2>2, BudgetLeave
<1>8. ASSUME (\E r \in Runs : TakeOver(r) \/ EndRun(r)) \/ Tick \/ UNCHANGED paidVars
      PROVE  \A r \in Runs : Budgeted(r)'
  <2>1. SUFFICES ASSUME NEW r \in Runs PROVE Budgeted(r)'
    OBVIOUS
  <2>2. UNCHANGED <<caller, paid>>
    BY <1>8 DEF TakeOver, EndRun, Tick, paidVars
  <2>3. Reserving(r)' = Reserving(r)
    BY <2>2 DEF Reserving, Rows
  <2>4. run'[r].calls = run[r].calls /\ run'[r].tokens = run[r].tokens
    <3>1. run \in [Runs -> Run]
      BY DEF LedgerInv, PaidCallsInv, TypeOK
    <3>2. ASSUME NEW s \in Runs, TakeOver(s) PROVE run'[r].calls = run[r].calls /\ run'[r].tokens = run[r].tokens
      <4>1. run' = [run EXCEPT ![s] = [run[s] EXCEPT !.attempt = run[s].attempt + 1]] /\ run[s] \in Run
        BY <3>1, <3>2 DEF TakeOver
      <4> QED BY <3>1, <4>1 DEF Run
    <3>3. ASSUME NEW s \in Runs, EndRun(s) PROVE run'[r].calls = run[r].calls /\ run'[r].tokens = run[r].tokens
      <4>1. run' = [run EXCEPT ![s] = [run[s] EXCEPT !.live = FALSE]] /\ run[s] \in Run
        BY <3>1, <3>3 DEF EndRun
      <4> QED BY <3>1, <4>1 DEF Run
    <3> QED BY <1>8, <3>2, <3>3 DEF Tick, paidVars
  <2> QED BY <2>3, <2>4, BudgetKept
<1> QED BY <1>1, <1>2, <1>3, <1>5, <1>6, <1>7, <1>8, BudgetReserve DEF Next, CallerStep

-----------------------------------------------------------------------------
(* The invariant of the ledger.                                            *)

LEMMA LedgerInit == Init => LedgerInv
<1> SUFFICES ASSUME Init PROVE LedgerInv
  OBVIOUS
<1>1. PaidCallsInv
  BY InvInit
<1>2. Rows = {} /\ \A q \in Requests : paid[q] = None
  BY DEF Init, Rows
<1>3. RowsSound
  BY <1>2 DEF RowsSound
<1>4. RequestsFresh
  <2>1. ASSUME NEW c \in Callers, NEW k \in 0..Retries[c] PROVE paid[<<c, k>>] = None
    BY <1>2 DEF Requests
  <2> QED BY <2>1 DEF RequestsFresh
<1>5. ASSUME NEW sp \in Scopes \X Periods PROVE Exact(sp) /\ Within(sp)
  <2>1. ChargedTo(sp) = {}
    BY <1>2 DEF ChargedTo
  <2>2. /\ ledger[sp].calls = 0 /\ ledger[sp].pending = 0 /\ ledger[sp].unknown = 0
        /\ ledger[sp].actual = 0
    BY DEF Init
  <2>3. MaxCalls[sp[1]] \in Nat /\ MaxTokens[sp[1]] \in Nat
    BY PaidCallsAssumption
  <2>4. IsFiniteSet({}) /\ Cardinality({}) = 0
    BY FS_EmptySet
  <2> QED BY <2>1, <2>2, <2>3, <2>4, NoTokens DEF Exact, Within
<1>6. ASSUME NEW r \in Runs PROVE Budgeted(r)
  <2>1. Reserving(r) = {}
    <3>1. \A c \in Callers : caller[c].pc = "idle"
      BY DEF Init, At
    <3>2. \A q \in Requests : q[1] \in Callers
      BY DEF Requests
    <3> QED BY <1>2, <3>1, <3>2 DEF Reserving
  <2>2. run[r].calls = 0 /\ run[r].tokens = 0
    BY DEF Init
  <2>3. MaxRunCalls \in Nat /\ MaxRunTokens \in Nat
    BY PaidCallsAssumption
  <2>4. IsFiniteSet({}) /\ Cardinality({}) = 0
    BY FS_EmptySet
  <2> QED BY <2>1, <2>2, <2>3, <2>4, NoTokens DEF Budgeted
<1> QED BY <1>1, <1>3, <1>4, <1>5, <1>6 DEF LedgerInv

LEMMA LedgerInvariance == Spec => []LedgerInv
<1>1. LedgerInv /\ [Next]_paidVars => LedgerInv'
  <2> SUFFICES ASSUME LedgerInv, [Next]_paidVars PROVE LedgerInv'
    OBVIOUS
  <2>1. PaidCallsInv'
    BY InvStep DEF LedgerInv
  <2> QED BY <2>1, ExactStep, FreshStep, BudgetStep DEF LedgerInv
<1> QED BY <1>1, LedgerInit, PTL DEF Spec

\* The ledger tells what its requests reserved, may have cost and did cost, for any
\* callers, scopes and prices: no interleaving of replies, errors, cancellations and
\* crashes charges a request to some of its scopes only or settles it twice (reserve,
\* settle and the finally clause of post).
THEOREM LedgerIsExact == Spec => []LedgerExact
<1>1. LedgerInv => LedgerExact
  <2> SUFFICES ASSUME LedgerInv, NEW sp \in Scopes \X Periods
               PROVE  LET S == ChargedTo(sp)
                      IN ledger[sp] = [calls |-> Cardinality(S), pending |-> Total(S, Pending),
                                       unknown |-> Total(S, Unknown), actual |-> Total(S, Actual)]
    BY DEF LedgerExact
  <2>1. ledger[sp] \in Row
    BY DEF LedgerInv, PaidCallsInv, TypeOK
  <2>2. LET S == ChargedTo(sp)
        IN /\ ledger[sp].calls = Cardinality(S) /\ ledger[sp].pending = Total(S, Pending)
           /\ ledger[sp].unknown = Total(S, Unknown) /\ ledger[sp].actual = Total(S, Actual)
    BY DEF LedgerInv, Exact
  <2>3. ledger[sp] = [calls |-> ledger[sp].calls, pending |-> ledger[sp].pending,
                      unknown |-> ledger[sp].unknown, actual |-> ledger[sp].actual]
    BY <2>1 DEF Row
  <2> QED BY <2>2, <2>3
<1> QED BY <1>1, LedgerInvariance, PTL

\* No scope is charged beyond its limits of a period by requests that are under way, have
\* an unknown outcome or cost no more than they reserved, whoever charges it (reserve).
THEOREM ScopesStayWithinBudget == Spec => []ScopesWithinBudget
<1>1. LedgerInv => ScopesWithinBudget
  BY DEF LedgerInv, Within, ScopesWithinBudget
<1> QED BY <1>1, LedgerInvariance, PTL

\* What is sent for a run stays within its budget, over all its attempts and the tasks of
\* each, those included that lost the run (Execution.reserve).
THEOREM RunsStayWithinBudget == Spec => []RunsWithinBudget
<1>1. LedgerInv => RunsWithinBudget
  <2> SUFFICES ASSUME LedgerInv, NEW r \in Runs
               PROVE  LET sent == {q \in Rows : RunOf[q[1]] = r}
                      IN Cardinality(sent) <= MaxRunCalls /\ Total(sent, Reserved) <= MaxRunTokens
    BY DEF RunsWithinBudget
  <2> DEFINE sent == {q \in Rows : RunOf[q[1]] = r}
             S == Reserving(r)
  <2>1. sent \subseteq S
    BY DEF Reserving, Rows
  <2>2. /\ IsFiniteSet(S) /\ Cardinality(S) <= run[r].calls /\ run[r].calls <= MaxRunCalls
        /\ IsFiniteSet(Tokens(S, Reserved))
        /\ Total(S, Reserved) <= run[r].tokens /\ run[r].tokens <= MaxRunTokens
    BY DEF LedgerInv, Budgeted
  <2>3. run[r].calls \in Nat /\ run[r].tokens \in Nat /\ MaxRunCalls \in Nat /\ MaxRunTokens \in Nat
    BY PaidCallsAssumption DEF LedgerInv, PaidCallsInv, TypeOK, Run
  <2> HIDE DEF sent, S
  <2>4. IsFiniteSet(sent) /\ Cardinality(sent) <= Cardinality(S)
    BY <2>1, <2>2, FS_Subset
  <2>5. IsFiniteSet(Tokens(sent, Reserved)) /\ Total(sent, Reserved) <= Total(S, Reserved)
    BY <2>1, <2>2, FewerTokens
  <2>6. /\ Cardinality(sent) \in Nat /\ Cardinality(S) \in Nat
        /\ Total(sent, Reserved) \in Nat /\ Total(S, Reserved) \in Nat
    BY <2>2, <2>4, <2>5, FS_CardinalityType DEF Total
  <2>7. Cardinality(sent) <= MaxRunCalls /\ Total(sent, Reserved) <= MaxRunTokens
    BY <2>2, <2>3, <2>4, <2>5, <2>6
  <2> QED BY <2>7 DEF sent
<1> QED BY <1>1, LedgerInvariance, PTL

=============================================================================
