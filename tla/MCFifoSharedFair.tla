--------------------------- MODULE MCFifoSharedFair ---------------------------
(* br_fifo_shared_dynamic_ctrl, for TLC, with consumers that are ready again *)
(* and again.  A variable flips in every cycle in which all of them are      *)
(* ready, so that the fairness is a condition on states.                     *)
EXTENDS BrFifoSharedDynamic, TLC

VARIABLE drain_phase

fair_vars == <<vars, drain_phase>>

FairInit == Init /\ drain_phase = 0

FairNext ==
    \/ OperateWith({Fifo}) /\ drain_phase' = 1 - drain_phase
    \/ OperateWith(SUBSET Fifo \ {Fifo}) /\ UNCHANGED drain_phase
    \/ Reset /\ drain_phase' = 0

(* The clock runs and every consumer is ready again and again.  A consumer   *)
(* of a FIFO without a staging buffer that is ready stays ready              *)
(* (pop_ready_stable_a), so they are ready together.                         *)
FairSpec == FairInit /\ [][FairNext]_fair_vars
                     /\ []<>(drain_phase = 0) /\ []<>(drain_phase = 1)
=============================================================================
