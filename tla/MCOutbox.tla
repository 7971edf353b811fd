------------------------------ MODULE MCOutbox ------------------------------
(***************************************************************************)
(* Outbox on small instances.  All bounds are given in the .cfg files.     *)
(***************************************************************************)
EXTENDS Outbox
=============================================================================
