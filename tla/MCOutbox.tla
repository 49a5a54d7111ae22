-------------------------------- MODULE MCOutbox --------------------------------
(***************************************************************************)
(* A small instance of Outbox for TLC: two dispatchers, the resume and the *)
(* abort commands of one run, two rows.                                    *)
(***************************************************************************)
EXTENDS Outbox

=============================================================================
