---------------------------- MODULE MCVerification ----------------------------
(***************************************************************************)
(* A small instance of Verification for TLC: a draft of two or three       *)
(* claims, in batches of two, and up to two executions of the node.        *)
(***************************************************************************)
EXTENDS Verification, TLC

CONSTANTS a, b, c

Symmetry == Permutations({a, b})

=============================================================================
