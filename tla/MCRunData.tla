------------------------------ MODULE MCRunData ------------------------------
(***************************************************************************)
(* A small instance of RunData for TLC: two runs of one conversation, an   *)
(* image, and two recovery loops.                                          *)
(***************************************************************************)
EXTENDS RunData

CONSTANTS t1

ThreadOfDef == [r \in Runs |-> t1]

=============================================================================
