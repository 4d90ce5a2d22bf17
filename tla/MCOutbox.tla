------------------------------ MODULE MCOutbox ------------------------------
(* Three messages in batches of two, and a bus that holds one.             *)
EXTENDS Outbox
=============================================================================
