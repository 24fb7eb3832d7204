---------------------------- MODULE MCCdcFifoFair -----------------------------
(* br_cdc_fifo_ctrl_1r1w, for TLC, with clocks that keep running and a         *)
(* consumer that does not stay away (pop_ready_liveness_a of the FPV monitor). *)
(* A variable waits for an edge of push_clk and for one of pop_clk with        *)
(* pop_ready in turns, so that the fairness is a condition on states.          *)
EXTENDS BrCdcFifo, TLC

VARIABLE awaited

fair_vars == <<vars, awaited>>

FairInit == Init /\ awaited = "push"

Other(side) == IF side = "push" THEN "pop" ELSE "push"

\* seen: the sides whose clock ticks, the pop side only with pop_ready.
Awaits(seen) == awaited' = IF awaited \in seen THEN Other(awaited) ELSE awaited

Consuming(pr) == IF pr THEN {"pop"} ELSE {}

(* What the producer offers: a payload, or NoData for nothing.                 *)
Offers == Data \cup {NoData}

FairNext ==
    \/ \E d \in Offers : PushClk(d # NoData, d) /\ Awaits({"push"})
    \/ \E pr \in BOOLEAN : PopClk(pr) /\ Awaits(Consuming(pr))
    \/ \E d \in Offers, pr \in BOOLEAN :
           BothClk(d # NoData, d, pr) /\ Awaits({"push"} \cup Consuming(pr))

(* Both clocks tick for ever and the consumer is ready again and again;        *)
(* however many resets there are, in the end both sides are out of reset.      *)
FairSpec == FairInit /\ [][FairNext]_fair_vars
                     /\ <>[](~push_rst /\ ~pop_rst)
                     /\ []<>(awaited = "push") /\ []<>(awaited = "pop")
=============================================================================
