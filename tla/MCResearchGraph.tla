---------------------------- MODULE MCResearchGraph ----------------------------
(***************************************************************************)
(* A small instance of ResearchGraph for TLC: two queries, one further     *)
(* round, two attempts and one change of the documents.  What an attempt   *)
(* stores lags by at most one superstep, and one that lost the run notices *)
(* before its successor gets ahead of it.                                  *)
(***************************************************************************)
EXTENDS ResearchGraph, TLC

CONSTANTS q1, q2

Symmetry == Permutations(Queries)

StoresSoon ==
  \A e \in Attempts :
    exec[e].memory # None /\ Owns(e) =>
      exec[e].memory.steps <= (IF saved = None THEN 0 ELSE saved.steps) + 1

Steps(checkpoint) == IF checkpoint = None THEN 0 ELSE checkpoint.steps
NoticesSoon ==
  \A e \in Attempts :
    exec[e].memory # None /\ ~Owns(e) =>
      \A f \in Attempts : f > e => Steps(exec[f].memory) <= Steps(exec[e].memory)

\* Runs with images are public ones here.
FewImages == run.images => run.policy = "public"

Instance == StoresSoon /\ NoticesSoon /\ FewImages

=============================================================================
