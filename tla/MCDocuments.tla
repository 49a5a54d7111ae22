------------------------------ MODULE MCDocuments ------------------------------
(***************************************************************************)
(* Small instances of Documents for TLC.                                   *)
(***************************************************************************)
EXTENDS Documents, TLC

CONSTANTS p1, p2, clean1, clean2, bad

Symmetry == Permutations({p1, p2}) \union Permutations({clean1, clean2})

=============================================================================
