---------------------------- MODULE MCFifoShared -----------------------------
(* br_fifo_shared_dynamic_ctrl, for TLC. *)
EXTENDS BrFifoSharedDynamic, TLC
=============================================================================
