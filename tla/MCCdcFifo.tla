------------------------------ MODULE MCCdcFifo ------------------------------
(* br_cdc_fifo_ctrl_1r1w, for TLC. *)
EXTENDS BrCdcFifo, TLC
=============================================================================
