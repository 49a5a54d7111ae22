------------------------------- MODULE PaidCalls -------------------------------
(***************************************************************************)
(* Paid requests to one model provider: Providers.post with the budget of  *)
(* the execution (core/reliability.py), the usage ledger                   *)
(* (core/usage_governance.py) and the provider's circuit breaker.          *)
(*                                                                         *)
(* A caller is a task that posts one request and repeats it after some     *)
(* errors.  The callers run in any number of processes; each of the        *)
(* transactions and guarded sections below is one action.  The clock moves *)
(* at any time, so a call may last as long as it likes.                    *)
(***************************************************************************)
EXTENDS Integers, FiniteSets

CONSTANTS
  Callers,
  Runs,
  RunOf,          \* the run a caller executes, or None (indexing, requests, probes)
  Scopes,         \* platform, subjects, workspaces, provider accounts, probes
  ScopesOf,       \* the scopes a caller is charged to
  Cost,           \* the tokens it reserves
  MaxCalls, MaxTokens,        \* limits of a scope in one period
  MaxRunCalls, MaxRunTokens,  \* limits of a run
  Retries,        \* the repetitions a caller asks for
  Usages,         \* what a reply may report as used
  Cooldowns, Lease, PeriodLength,
  MaxTime, MaxAttempts,       \* bounds of the model
  None

Times == 0..MaxTime
Periods == 0..(MaxTime \div PeriodLength)
\* HTTP requests, by caller and repetition, with one usage_attempts row each.
Requests == UNION {{c} \X (0..Retries[c]) : c \in Callers}

Kinds == {"ok", "busy", "denied", "error", "lost", "unreached"}
PC == {"idle", "check", "try", "charge", "sent", "settled", "finally", "over"}

Run == [live : BOOLEAN, attempt : 1..MaxAttempts, calls : Nat, tokens : Nat]
Caller == [pc : PC, attempt : 0..MaxAttempts, n : Nat, started : Times,
           reply : Kinds \union {None}]
Row == [calls : Nat, pending : Int, unknown : Int, actual : Int]
Paid == [period : Periods, state : {"pending", "unknown", "known"}, actual : Nat]
Health == [blocked : BOOLEAN, open : Int, probe : Int]

ASSUME PaidCallsAssumption ==
  /\ RunOf \in [Callers -> Runs \union {None}]
  /\ ScopesOf \in [Callers -> SUBSET Scopes]
  /\ Cost \in [Callers -> Nat \ {0}]
  /\ MaxCalls \in [Scopes -> Nat] /\ MaxTokens \in [Scopes -> Nat]
  /\ MaxRunCalls \in Nat /\ MaxRunTokens \in Nat
  /\ Retries \in [Callers -> Nat]
  /\ Usages \subseteq Nat /\ Cooldowns \subseteq Nat \ {0}
  /\ Lease \in Nat \ {0} /\ PeriodLength \in Nat \ {0}
  /\ MaxTime \in Nat /\ MaxAttempts \in Nat \ {0}
  /\ None \notin Runs /\ None \notin Nat /\ None \notin Kinds
  /\ None \notin Paid /\ None \notin Health

VARIABLES
  run,      \* the columns of runs that execution reads and reserves
  caller,
  ledger,   \* usage_periods
  paid,     \* usage_attempts
  health,   \* the provider's row of provider_health, or None
  now

paidVars == <<run, caller, ledger, paid, health, now>>

TypeOK ==
  /\ run \in [Runs -> Run]
  /\ caller \in [Callers -> Caller]
  /\ ledger \in [Scopes \X Periods -> Row]
  /\ paid \in [Requests -> Paid \union {None}]
  /\ health \in Health \union {None}
  /\ now \in Times

At(pc) == [pc |-> pc, attempt |-> 0, n |-> 0, started |-> 0, reply |-> None]

Init ==
  /\ run = [r \in Runs |-> [live |-> TRUE, attempt |-> 1, calls |-> 0, tokens |-> 0]]
  /\ caller = [c \in Callers |-> At("idle")]
  /\ ledger = [sp \in Scopes \X Periods |-> [calls |-> 0, pending |-> 0, unknown |-> 0, actual |-> 0]]
  /\ paid = [q \in Requests |-> None]
  /\ health = None
  /\ now = 0

-----------------------------------------------------------------------------
Goto(c, pc) == caller' = [caller EXCEPT ![c] = [@ EXCEPT !.pc = pc]]
Leave(c) == caller' = [caller EXCEPT ![c] = At("over")]      \* post returns or raises
Request(c) == <<c, caller[c].n>>

\* Execution.check; its deadline, permissions and data policy are left to Interrupt.
Owns(c) ==
  RunOf[c] # None => run[RunOf[c]].live /\ run[RunOf[c]].attempt = caller[c].attempt

Start(c) ==
  /\ caller[c].pc = "idle"
  /\ RunOf[c] # None => run[RunOf[c]].live
  /\ \E attempt \in 0..MaxAttempts :
       /\ RunOf[c] = None => attempt = 0
       /\ RunOf[c] # None => attempt = run[RunOf[c]].attempt
       /\ caller' = [caller EXCEPT ![c] = [@ EXCEPT !.pc = "check", !.attempt = attempt, !.started = now]]
  /\ UNCHANGED <<run, ledger, paid, health, now>>

-----------------------------------------------------------------------------
\* The circuit breaker.
Available == health # None => ~health.blocked /\ health.open <= now /\ health.probe <= now

\* Once there were failures, whoever finds the circuit available takes the probe lease.
CheckProvider(c) ==
  /\ caller[c].pc = "check"
  /\ \/ ~Available /\ Leave(c) /\ UNCHANGED health
     \/ /\ Available /\ Goto(c, "try")
        /\ \/ health = None /\ UNCHANGED health
           \/ health # None /\ health' = [health EXCEPT !.probe = now + Lease]
  /\ UNCHANGED <<run, ledger, paid, now>>

ProviderFailure(blocked) ==
  \E d \in Cooldowns : health' = [blocked |-> blocked, open |-> now + d, probe |-> 0]

\* Mutant: any success closes the circuit.
CloseAnyway(started) ==
  LET closes == health # None /\ ~health.blocked IN
  (closes /\ health' = None) \/ (~closes /\ UNCHANGED health)

\* A success closes the circuit if the request began after the cooldown.
CloseCircuit(started) ==
  LET closes == health # None /\ ~health.blocked /\ health.open <= started IN
  (closes /\ health' = None) \/ (~closes /\ UNCHANGED health)

-----------------------------------------------------------------------------
\* The budget of the execution, reserved under db.guard("execution:<run>").
ReserveRun(c) ==
  /\ caller[c].pc = "try"
  /\ \/ /\ RunOf[c] = None
        /\ Goto(c, "charge") /\ UNCHANGED run
     \/ /\ RunOf[c] # None /\ Owns(c)
        /\ run[RunOf[c]].calls < MaxRunCalls
        /\ run[RunOf[c]].tokens + Cost[c] <= MaxRunTokens
        /\ run' = [run EXCEPT ![RunOf[c]].calls = @ + 1, ![RunOf[c]].tokens = @ + Cost[c]]
        /\ Goto(c, "charge")
     \/ /\ RunOf[c] # None
        /\ ~Owns(c) \/ run[RunOf[c]].calls >= MaxRunCalls
                    \/ run[RunOf[c]].tokens + Cost[c] > MaxRunTokens
        /\ Leave(c) /\ UNCHANGED run
  /\ UNCHANGED <<ledger, paid, health, now>>

Period == now \div PeriodLength
Exposure(row) == row.actual + row.pending + row.unknown

\* Mutant: what an unknown outcome may have cost is forgotten.
KnownRoom(c, sp) ==
  /\ ledger[sp].calls < MaxCalls[sp[1]]
  /\ ledger[sp].actual + ledger[sp].pending + Cost[c] <= MaxTokens[sp[1]]

Room(c, sp) ==
  /\ ledger[sp].calls < MaxCalls[sp[1]]
  /\ Exposure(ledger[sp]) + Cost[c] <= MaxTokens[sp[1]]

\* UsageGovernance.reserve: one transaction over all scopes, or nothing.
Charge(c) ==
  /\ caller[c].pc = "charge"
  /\ LET charged == ScopesOf[c] \X {Period} IN
     \/ /\ \A sp \in charged : Room(c, sp)
        /\ ledger' = [sp \in Scopes \X Periods |->
                        IF sp \in charged
                        THEN [ledger[sp] EXCEPT !.calls = @ + 1, !.pending = @ + Cost[c]]
                        ELSE ledger[sp]]
        /\ paid' = [paid EXCEPT ![Request(c)] = [period |-> Period, state |-> "pending", actual |-> 0]]
        /\ Goto(c, "sent")
     \/ /\ \E sp \in charged : ~Room(c, sp)
        /\ Leave(c) /\ UNCHANGED <<ledger, paid>>
  /\ UNCHANGED <<run, health, now>>

-----------------------------------------------------------------------------
\* UsageGovernance.settle.  A request that did not reach the provider cost nothing; what
\* was not reported is held at what was reserved.
SettleAs(c, state, actual) ==
  LET q == Request(c)  charged == ScopesOf[c] \X {paid[q].period} IN
  /\ paid' = [paid EXCEPT ![q] = [@ EXCEPT !.state = state, !.actual = actual]]
  /\ ledger' = [sp \in Scopes \X Periods |->
                  IF sp \in charged
                  THEN [ledger[sp] EXCEPT !.pending = @ - Cost[c],
                                          !.unknown = @ + (IF state = "unknown" THEN Cost[c] ELSE 0),
                                          !.actual = @ + actual]
                  ELSE ledger[sp]]

\* Mutant: a settled request is settled again.
SettleAgain(c, kind, usage) ==
  IF kind = "unreached" THEN SettleAs(c, "known", 0)
  ELSE IF usage = None THEN SettleAs(c, "unknown", 0) ELSE SettleAs(c, "known", usage)

SettleOnce(c, kind, usage) ==
  \/ paid[Request(c)].state # "pending" /\ UNCHANGED <<ledger, paid>>
  \/ /\ paid[Request(c)].state = "pending"
     /\ \/ kind = "unreached" /\ SettleAs(c, "known", 0)
        \/ kind # "unreached" /\ usage = None /\ SettleAs(c, "unknown", 0)
        \/ kind # "unreached" /\ usage # None /\ SettleAs(c, "known", usage)

\* The provider answers, or the network does, and the request is settled.
Settle(c, kind, usage) ==
  /\ caller[c].pc = "sent"
  /\ kind \in {"lost", "unreached"} => usage = None
  /\ SettleOnce(c, kind, usage)
  /\ \E pc \in {"settled", "finally"} :     \* the second if the commit's answer is lost
       caller' = [caller EXCEPT ![c] = [@ EXCEPT !.pc = pc, !.reply = kind]]
  /\ UNCHANGED <<run, health, now>>

\* The caller is cancelled, a database call raises, or a check refuses it.
Interrupt(c) ==
  /\ \/ caller[c].pc = "sent" /\ Goto(c, "finally")    \* or the reply cannot be read
     \/ caller[c].pc \in {"check", "try", "charge", "settled"} /\ Leave(c)
  /\ UNCHANGED <<run, ledger, paid, health, now>>

\* The finally clause of post, shielded from cancellation.
Finally(c) ==
  /\ caller[c].pc = "finally"
  /\ SettleOnce(c, "lost", None)
  /\ Leave(c)
  /\ UNCHANGED <<run, health, now>>

\* The caller's process stops; what it reserved stays.
Crash(c) ==
  /\ caller[c].pc \in {"sent", "finally"}
  /\ Leave(c)
  /\ UNCHANGED <<run, ledger, paid, health, now>>

-----------------------------------------------------------------------------
\* After settlement: give up, repeat or return.
Retry(c) ==
  /\ caller[c].reply \in {"busy", "lost", "unreached"} /\ caller[c].n < Retries[c]
  /\ caller' = [caller EXCEPT ![c] = [@ EXCEPT !.pc = "try", !.n = caller[c].n + 1, !.reply = None]]
  /\ UNCHANGED health

\* The last repetition has failed, or the provider asks for too long a wait.
GiveUp(c) ==
  /\ \/ caller[c].reply = "busy"
     \/ caller[c].reply \in {"lost", "unreached"} /\ caller[c].n = Retries[c]
     \/ caller[c].reply = "denied"
  /\ ProviderFailure(caller[c].reply = "denied")
  /\ Leave(c)

Conclude(c) ==
  /\ caller[c].pc = "settled"
  /\ \/ /\ caller[c].reply \in {"ok", "busy", "denied", "error"} /\ ~Owns(c)
        /\ Leave(c) /\ UNCHANGED health
     \/ /\ Owns(c) \/ caller[c].reply \in {"lost", "unreached"}
        /\ \/ Retry(c) \/ GiveUp(c)
           \/ caller[c].reply = "error" /\ Leave(c) /\ UNCHANGED health
           \/ caller[c].reply = "ok" /\ CloseCircuit(caller[c].started) /\ Leave(c)
  /\ UNCHANGED <<run, ledger, paid, now>>

-----------------------------------------------------------------------------
\* Mutant: a new attempt starts with a new budget.
TakeOverAfresh(r) ==
  /\ run[r].live /\ run[r].attempt < MaxAttempts
  /\ run' = [run EXCEPT ![r] = [live |-> TRUE, attempt |-> @.attempt + 1, calls |-> 0, tokens |-> 0]]
  /\ UNCHANGED <<caller, ledger, paid, health, now>>

\* The run is claimed by another worker, with what it has used up.
TakeOver(r) ==
  /\ run[r].live /\ run[r].attempt < MaxAttempts
  /\ run' = [run EXCEPT ![r].attempt = @ + 1]
  /\ UNCHANGED <<caller, ledger, paid, health, now>>

EndRun(r) ==
  /\ run[r].live
  /\ run' = [run EXCEPT ![r] = [@ EXCEPT !.live = FALSE]]
  /\ UNCHANGED <<caller, ledger, paid, health, now>>

Tick ==
  /\ now < MaxTime
  /\ now' = now + 1
  /\ UNCHANGED <<run, caller, ledger, paid, health>>

CallerStep(c) ==
  \/ Start(c) \/ CheckProvider(c) \/ ReserveRun(c) \/ Charge(c)
  \/ \E kind \in Kinds, usage \in Usages \union {None} : Settle(c, kind, usage)
  \/ Interrupt(c) \/ Finally(c) \/ Crash(c) \/ Conclude(c)

Next ==
  \/ \E c \in Callers : CallerStep(c)
  \/ \E r \in Runs : TakeOver(r) \/ EndRun(r)
  \/ Tick

Spec == Init /\ [][Next]_paidVars

-----------------------------------------------------------------------------
(* Properties.                                                             *)

\* The requests that have a row, and those of them charged to a scope in a period.
Rows == {q \in Requests : paid[q] # None}
ChargedTo(sp) == {q \in Rows : paid[q].period = sp[2] /\ sp[1] \in ScopesOf[q[1]]}

\* What they hold, may have cost, did cost, may at most cost within the reservation, and
\* what was reserved for them of their run.
Pending == [q \in Rows |-> IF paid[q].state = "pending" THEN Cost[q[1]] ELSE 0]
Unknown == [q \in Rows |-> IF paid[q].state = "unknown" THEN Cost[q[1]] ELSE 0]
Actual == [q \in Rows |-> paid[q].actual]
Risk == [q \in Rows |-> IF paid[q].state = "known" /\ paid[q].actual < Cost[q[1]]
                        THEN paid[q].actual ELSE Cost[q[1]]]
Reserved == [q \in Requests |-> Cost[q[1]]]

\* A sum over requests counts their tokens one by one.
Tokens(S, amount) == UNION {{q} \X (1..amount[q]) : q \in S}
Total(S, amount) == Cardinality(Tokens(S, amount))

\* The ledger tells exactly what its requests reserved, may have cost and did cost:
\* a request is charged to all of its scopes or to none, and settled once, in the
\* period it was charged to, however its replies, errors and cancellation race
\* (reserve, settle and the finally clause of post).
LedgerExact ==
  \A sp \in Scopes \X Periods :
    LET S == ChargedTo(sp)
    IN ledger[sp] = [calls |-> Cardinality(S), pending |-> Total(S, Pending),
                     unknown |-> Total(S, Unknown), actual |-> Total(S, Actual)]

\* No scope is charged beyond its limits in a period, except for what providers report
\* beyond the reservation; requests without a known outcome count in full (reserve).
ScopesWithinBudget ==
  \A sp \in Scopes \X Periods :
    /\ Cardinality(ChargedTo(sp)) <= MaxCalls[sp[1]]
    /\ Total(ChargedTo(sp), Risk) <= MaxTokens[sp[1]]

\* The requests sent for a run stay within its budget, over all its attempts and the
\* tasks of each, those included that lost the run (Execution.reserve).
RunsWithinBudget ==
  \A r \in Runs :
    LET sent == {q \in Rows : RunOf[q[1]] = r}
    IN Cardinality(sent) <= MaxRunCalls /\ Total(sent, Reserved) <= MaxRunTokens

\* A circuit that failures opened is closed only when their cooldown is over, by no
\* success of a request that was under way before (post).
CooldownRespected ==
  [][health # None /\ health' = None => ~health.blocked /\ health.open <= now]_paidVars

=============================================================================
