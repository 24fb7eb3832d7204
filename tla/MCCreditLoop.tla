---------------------------- MODULE MCCreditLoop -----------------------------
(* br_credit_sender and br_credit_receiver in a loop, for TLC. *)
EXTENDS BrCreditLoop, TLC
=============================================================================
