-------------------------- MODULE MCIsrIdempotency --------------------------
(***************************************************************************)
(* The instance of MCIsrOutbox in front of the de-duplicating gateway.      *)
(***************************************************************************)
EXTENDS MCIsrOutbox, IsrIdempotency
=============================================================================
