---------------------------- MODULE BrCreditLoop -----------------------------
(***************************************************************************)
(* Credit-based flow control: br_credit_sender (NumFlows flows on one credit *)
(* pool), br_credit_receiver and the receiver buffer, in a loop of          *)
(* registers.  Every entry the buffer can hold is one credit: in the        *)
(* sender's counter, on its way as a flit, taken by an entry of the buffer,  *)
(* in the receiver's counter, or on its way back.  Nobody can see all five.  *)
(*                                                                         *)
(* The two ends may be reset independently, for MinReset cycles or more, and *)
(* tell each other through the in_reset wires, which are registered along    *)
(* with the flits and the credits.  One step is one clock cycle.            *)
(*                                                                         *)
(* A loop without any register is excluded: br_fifo_push_ctrl_core accepts   *)
(* no flit in the cycle in which a full buffer is popped, see the comment on *)
(* the credit loop in br_fifo_ctrl_1r1w_push_credit_tb.                      *)
(***************************************************************************)
EXTENDS BrArbMultiRr, BrCreditCounter

CONSTANTS MaxCredit,             \* capacity of both credit counters
          SenderInitial, ReceiverInitial,   \* credit_initial of the two counters
          PushCreditMaxChange,   \* credits the receiver returns per cycle
          PopCreditMaxChange,    \* entries that leave the buffer per cycle
          RegisterPopOutputs,    \* the sender's outputs are registered
          RegisterPushOutputs,   \* the receiver's outputs are registered
          Withhold,              \* values of credit_withhold
          MinReset               \* cycles a reset is held at least

VARIABLES
    credit_s, pop_valid, pop_sender_in_reset,                 \* sender, with lowest_prio
    credit_r, push_credit, push_receiver_in_reset,            \* receiver
    occupancy,                                                \* receiver buffer
    waiting,          \* flows whose push_valid is backpressured
    held_s, held_r    \* cycles each reset has been asserted, up to MinReset

\* The flows that share the credits are the requesters of the arbiter.
NumFlows == NumRequesters
Flow == Requester

ASSUME CreditLoopAssumption ==
    /\ MaxCredit \in Nat /\ NumFlows <= MaxCredit
    /\ SenderInitial \in Nat /\ ReceiverInitial \in Nat
    /\ SenderInitial + ReceiverInitial <= MaxCredit
    /\ PushCreditMaxChange \in 1 .. MaxCredit
    /\ PopCreditMaxChange \in 1 .. MaxCredit
    /\ RegisterPopOutputs \in BOOLEAN /\ RegisterPushOutputs \in BOOLEAN
    /\ RegisterPopOutputs \/ RegisterPushOutputs
    /\ CounterSize > MaxCredit
    /\ Withhold \subseteq Nat
    /\ MinReset \in Nat \ {0}

sender == <<credit_s, lowest_prio, pop_valid, pop_sender_in_reset>>
receiver == <<credit_r, push_credit, push_receiver_in_reset>>
vars == <<sender, receiver, occupancy, waiting, held_s, held_r>>

\* Credits in circulation: the depth of the receiver buffer.
Total == SenderInitial + ReceiverInitial

\* The state in which a common reset leaves the loop.
Init ==
    /\ credit_s = SenderInitial /\ lowest_prio = LowestPrioInit
    /\ pop_valid = 0 /\ pop_sender_in_reset = RegisterPopOutputs
    /\ credit_r = ReceiverInitial /\ push_credit = 0
    /\ push_receiver_in_reset = RegisterPushOutputs
    /\ occupancy = 0 /\ waiting = {}
    /\ held_s = MinReset /\ held_r = MinReset

-----------------------------------------------------------------------------
(* Wires of one cycle.  in: rst_s, rst_r, the two resets; request, the flows *)
(* with push_valid; stall, push_credit_stall; withhold_s and withhold_r; and *)
(* pops, the number of entries that leave the buffer.                       *)

Least(a, b) == IF a <= b THEN a ELSE b

SenderInReset(in) == IF RegisterPopOutputs THEN pop_sender_in_reset ELSE in.rst_s
ReceiverInReset(in) == IF RegisterPushOutputs THEN push_receiver_in_reset ELSE in.rst_r

\* (mutant) The sender does not listen to the receiver's reset.
MutEitherRstS(in) == in.rst_s

EitherRstS(in) == in.rst_s \/ ReceiverInReset(in)

EitherRstR(in) == in.rst_r \/ SenderInReset(in)

\* Receiver: return what is available.
AvailableR(in) == Available(credit_r, in.pops, in.withhold_r)
\* (mutant) The decrement is not limited to what is available.
MutReturned(in) == IF in.stall THEN 0 ELSE PushCreditMaxChange

Returned(in) == IF in.stall THEN 0 ELSE Least(AvailableR(in), PushCreditMaxChange)
PushCreditInternal(in) == IF EitherRstR(in) THEN 0 ELSE Returned(in)

PopCredit(in) == IF RegisterPushOutputs THEN push_credit ELSE PushCreditInternal(in)

\* Sender: as many flits as there are credits.
AvailableS(in) == Available(credit_s, PopCredit(in), in.withhold_s)
GrantAllowed(in) == Least(AvailableS(in), NumFlows)
Spent(in) == GrantCount(in.request, GrantAllowed(in))
\* (mutant) Flits are accepted during reset, as if push_ready were grant.
MutPushReady(in) == Grant(in.request, GrantAllowed(in))

PushReady(in) == IF EitherRstS(in) THEN {} ELSE Grant(in.request, GrantAllowed(in))
Sent(in) == Cardinality(PushReady(in) \cap in.request)

PushValid(in) == IF RegisterPopOutputs THEN pop_valid ELSE Sent(in)
Arriving(in) == IF EitherRstR(in) THEN 0 ELSE PushValid(in)

-----------------------------------------------------------------------------
(* Register updates *)

SenderStep(in) ==
    /\ credit_s' = IF EitherRstS(in) THEN SenderInitial
                   ELSE ValueNext(credit_s, PopCredit(in), Spent(in))
    /\ lowest_prio' = IF EitherRstS(in) THEN LowestPrioInit
                      ELSE LowestPrioNext(in.request, GrantAllowed(in))
    /\ pop_valid' = IF RegisterPopOutputs /\ ~in.rst_s THEN Sent(in) ELSE 0
    /\ pop_sender_in_reset' = (RegisterPopOutputs /\ in.rst_s)

ReceiverStep(in) ==
    /\ credit_r' = IF EitherRstR(in) THEN ReceiverInitial
                   ELSE ValueNext(credit_r, in.pops, Returned(in))
    /\ push_credit' = IF RegisterPushOutputs /\ ~in.rst_r THEN PushCreditInternal(in) ELSE 0
    /\ push_receiver_in_reset' = (RegisterPushOutputs /\ in.rst_r)

\* The buffer is reset along with the receiver.
BufferStep(in) ==
    occupancy' = IF EitherRstR(in) THEN 0 ELSE occupancy + Arriving(in) - in.pops

\* A reset, once asserted, is held for MinReset cycles.
Hold(held, rst) == IF rst THEN Least(held + 1, MinReset) ELSE 0
MayAssign(held, rst) == held \in 1 .. MinReset - 1 => rst

Step(in) ==
    /\ MayAssign(held_s, in.rst_s) /\ held_s' = Hold(held_s, in.rst_s)
    /\ MayAssign(held_r, in.rst_r) /\ held_r' = Hold(held_r, in.rst_r)
    /\ SenderStep(in) /\ ReceiverStep(in) /\ BufferStep(in)
    /\ waiting' = IF in.rst_s THEN {} ELSE in.request \ PushReady(in)

Inputs == [rst_s : BOOLEAN, rst_r : BOOLEAN, request : SUBSET Flow, stall : BOOLEAN,
           withhold_s : Withhold, withhold_r : Withhold, pops : 0 .. PopCreditMaxChange]

\* push_valid is stable until accepted (EnableAssertPushValidStability).  What
\* leaves the buffer was in it or, over its bypass, arrives in this cycle.
Legal(in) == waiting \subseteq in.request /\ in.pops <= occupancy + Arriving(in)

Cycle(rst_s, rst_r) ==
    \E in \in Inputs : Legal(in) /\ in.rst_s = rst_s /\ in.rst_r = rst_r /\ Step(in)

Operate == Cycle(FALSE, FALSE)
ResetSender == Cycle(TRUE, FALSE)
ResetReceiver == Cycle(FALSE, TRUE)
ResetBoth == Cycle(TRUE, TRUE)

Next == Operate \/ ResetSender \/ ResetReceiver \/ ResetBoth

Spec == Init /\ [][Next]_vars

(* The consumer, the stall and the withheld credits may hold the loop up, but *)
(* cycles in which none of them does never cease.                            *)
OpenCycle ==
    \E in \in Inputs :
        /\ Legal(in) /\ ~in.rst_s /\ ~in.rst_r /\ ~in.stall
        /\ in.withhold_s = 0 /\ in.withhold_r = 0
        /\ occupancy > 0 => in.pops > 0
        /\ Step(in)

(* However many resets there were, in the end both sides are out of reset.    *)
FairSpec == Init /\ [][Next]_vars /\ <>[][Operate]_vars /\ WF_vars(Next) /\ WF_vars(OpenCycle)

-----------------------------------------------------------------------------
TypeOK ==
    /\ credit_s \in 0 .. MaxCredit /\ credit_r \in 0 .. MaxCredit
    /\ lowest_prio \in Flow
    /\ pop_valid \in 0 .. NumFlows
    /\ push_credit \in 0 .. PushCreditMaxChange
    /\ pop_sender_in_reset \in BOOLEAN /\ push_receiver_in_reset \in BOOLEAN
    /\ occupancy \in Nat
    /\ waiting \subseteq Flow
    /\ held_s \in 0 .. MinReset /\ held_r \in 0 .. MinReset

(* Conservation: out of reset the credits in the two counters, on the wires   *)
(* and in the buffer always add up to the depth of the buffer.  None is lost  *)
(* and none is made, across spends and returns in the same cycle and across   *)
(* independent resets of the two ends: the promise in the Reset section of    *)
(* br_credit_sender.sv and br_credit_receiver.sv.                             *)
Conservation ==
    (held_s = 0 /\ held_r = 0) =>
        credit_s + pop_valid + occupancy + credit_r + push_credit = Total

(* The buffer never gets more flits than it has entries, also while one end   *)
(* is in reset and the other one has not noticed: no_overflow_a of            *)
(* br_fifo_push_ctrl_credit, the reason for having credits.                  *)
NoPushOverflow ==
    (held_r = 0 /\ ~pop_sender_in_reset) => occupancy + pop_valid <= Total

(* Why they hold: an end in reset is in its initial state, and the other end  *)
(* is by the time it could do harm, one cycle later if it learns of the reset *)
(* from a register; until then neither end has more credits than there are.   *)
SenderCleared == credit_s = SenderInitial /\ pop_valid = 0
ReceiverCleared == credit_r = ReceiverInitial /\ push_credit = 0 /\ occupancy = 0

ResetsKnown ==
    /\ (pop_sender_in_reset <=> RegisterPopOutputs /\ held_s > 0)
    /\ (push_receiver_in_reset <=> RegisterPushOutputs /\ held_r > 0)
    /\ ~RegisterPopOutputs => pop_valid = 0
    /\ ~RegisterPushOutputs => push_credit = 0

ResetsClear ==
    /\ held_s >= 1 => SenderCleared
    /\ held_r >= 1 => ReceiverCleared
    /\ held_s >= (IF RegisterPopOutputs THEN 2 ELSE 1) => ReceiverCleared
    /\ held_r >= (IF RegisterPushOutputs THEN 2 ELSE 1) => SenderCleared

NoEndHasTooMany ==
    /\ held_s = 0 => credit_s + pop_valid + push_credit <= Total
    /\ held_r = 0 => credit_r + push_credit + occupancy + pop_valid <= Total

IInv == TypeOK /\ ResetsKnown /\ ResetsClear /\ NoEndHasTooMany /\ Conservation

(* The far end must be told of a reset before it ends: with a register in     *)
(* both directions a reset takes at least two cycles.                         *)
ResetsAreLong == RegisterPopOutputs /\ RegisterPushOutputs => MinReset >= 2

(* Liveness: with several flows on one pool of credits, a flow that asks is   *)
(* served, however the others ask (push_valid_deadlock_a of the sender's FPV  *)
(* monitor).                                                                  *)
FlowServed == \A f \in Flow : f \in waiting ~> f \notin waiting
=============================================================================
