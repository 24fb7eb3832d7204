---------------------------- MODULE MCFifoDirect -----------------------------
(* br_fifo_ctrl_1r1w without staging buffer, for TLC. *)
EXTENDS BrFifoDirect, TLC

ASSUME RamAsDeepAsFifo == DirectAssumption
=============================================================================
