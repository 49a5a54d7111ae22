----------------------------- MODULE MCPublication -----------------------------
(***************************************************************************)
(* Small instances of Publication for TLC.                                 *)
(***************************************************************************)
EXTENDS Publication, TLC, FiniteSets

CONSTANTS r1, r2, r3, author, reviewer, d1

Symmetry == Permutations({r2, r3})

\* Runs and changes of the corpus share one budget.
Short == revision + Cardinality({r \in Runs : run[r].status # "none"}) <= 4

=============================================================================
