------------------------------ MODULE MCPaidCalls ------------------------------
(***************************************************************************)
(* A small instance of PaidCalls for TLC: two tasks of one run, of which   *)
(* one repeats its request, and an indexing task of another subject.  Any  *)
(* two of them are under way at the same time.                             *)
(***************************************************************************)
EXTENDS PaidCalls, FiniteSetsExt

CONSTANTS c1, c2, c3, r1, platform, subject

RunOfDef == [c \in Callers |-> IF c = c3 THEN None ELSE r1]
ScopesOfDef == [c \in Callers |-> IF c = c3 THEN {platform} ELSE {platform, subject}]
CostDef == [c \in Callers |-> 2]
RetriesDef == [c \in Callers |-> IF c = c1 THEN 1 ELSE 0]
MaxCallsDef == [s \in Scopes |-> IF s = platform THEN 3 ELSE 2]
MaxTokensDef == [s \in Scopes |-> IF s = platform THEN 5 ELSE 6]

\* Total is the sum.
ASSUME TotalIsSum ==
  \A S \in SUBSET (1..3) : \A amount \in [S -> 0..3] :
    LET Amount(q) == amount[q] IN Total(S, amount) = MapThenSumSet(Amount, S)

TwoAtATime == Cardinality({c \in Callers : caller[c].pc \notin {"idle", "over"}}) <= 2

=============================================================================
