-------------------------------- MODULE Delivery --------------------------------
(***************************************************************************)
(* What the outbox promises whoever commits a command: there is at most    *)
(* one waiting command of a kind for a run, the agent is sent nothing but  *)
(* commands that waited, and a command is marked delivered when it has     *)
(* been handled.  Leases, retries and the processes that send are left     *)
(* out.                                                                    *)
(***************************************************************************)
EXTENDS Naturals

CONSTANTS Runs, Types, Messages, None

\* The number is the attempt of the run that the command names.
Command == Runs \X Types \X Nat

VARIABLES
  command,     \* what a message asks for, None before it is accepted
  state,
  underway,    \* commands sent that the agent may still handle
  handled

deliveryVars == <<command, state, underway, handled>>

Init ==
  /\ command = [m \in Messages |-> None]
  /\ state = [m \in Messages |-> "none"]
  /\ underway = {} /\ handled = {}

Waiting(m) == state[m] = "waiting"

\* No other command of this kind waits for the run.
Alone(m, c) ==
  \A n \in Messages \ {m} : Waiting(n) => command[n][1] # c[1] \/ command[n][2] # c[2]

\* Some command takes the place of what the message held.
Replace(m) ==
  /\ command'[m] \in Command
  /\ command' = [command EXCEPT ![m] = command'[m]]
  /\ UNCHANGED <<underway, handled>>

Accept(m) ==
  /\ state[m] = "none" /\ Replace(m)
  /\ Alone(m, command'[m])
  /\ state' = [state EXCEPT ![m] = "waiting"]

\* An abort that waits gives way to one of another attempt.
Supersede(m) ==
  /\ Waiting(m) /\ command[m][2] = "abort" /\ Replace(m)
  /\ command'[m][1] = command[m][1] /\ command'[m][2] = "abort"
  /\ UNCHANGED state

Send(m) ==
  /\ Waiting(m)
  /\ underway' = underway \union {command[m]}
  /\ UNCHANGED <<command, state, handled>>

\* The agent handles what it was sent, also when nobody hears of it or the command
\* has been replaced by now.
Handle(c) ==
  /\ handled' = handled \union {c}
  /\ UNCHANGED <<command, state, underway>>

\* A sender stops, or has heard what became of its command.
Forget == underway' \subseteq underway

Settle(m) ==
  /\ Waiting(m) /\ command[m] \in handled
  /\ state' = [state EXCEPT ![m] = "delivered"]
  /\ Forget /\ UNCHANGED <<command, handled>>

GiveUp(S) ==
  /\ \A m \in S : Waiting(m)
  /\ state' = [m \in Messages |-> IF m \in S THEN "dead" ELSE state[m]]
  /\ Forget /\ UNCHANGED <<command, handled>>

Retry(m) ==
  /\ state[m] = "dead" /\ Alone(m, command[m])
  /\ state' = [state EXCEPT ![m] = "waiting"]
  /\ UNCHANGED <<command, underway, handled>>

Next ==
  \/ \E m \in Messages : Accept(m) \/ Supersede(m) \/ Send(m) \/ Settle(m) \/ Retry(m)
  \/ \E c \in underway : Handle(c)
  \/ \E S \in SUBSET Messages : GiveUp(S)

Spec == Init /\ [][Next]_deliveryVars

=============================================================================
