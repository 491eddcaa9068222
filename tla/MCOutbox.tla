------------------------------ MODULE MCOutbox ------------------------------
(* The instances of the outbox.                                            *)
EXTENDS Outbox
=============================================================================
