---------------------------- MODULE BrFifoDirect -----------------------------
(***************************************************************************)
(* br_fifo_ctrl_1r1w with RamReadLatency = 0 and RegisterPopOutputs = 0     *)
(* (branch gen_no_buffer of br_fifo_pop_ctrl_core): the pop side reads the  *)
(* RAM combinationally.                                                     *)
(*                                                                         *)
(* One step is one posedge of clk.  pv, d, pr are the values of push_valid, *)
(* push_data and pop_ready in the cycle that ends with the edge.            *)
(***************************************************************************)
EXTENDS BrFifoCore

DirectAssumption == RamDepth >= Depth   \* legal_ram_depth_a

direct_vars == <<ram_wr_addr, slots, full, ram_rd_addr, items, empty, ram, push, pop>>

-----------------------------------------------------------------------------
(* Wires *)

\* (mutant) The bypass is taken whether or not the consumer is ready.
MutBypassReady(pr) == EnableBypass /\ empty

BypassReady(pr) == EnableBypass /\ empty /\ pr

\* bypass_valid_unstable is push_valid, not gated by push_ready.
PopValid(pv) == ~empty \/ (EnableBypass /\ pv)

PopData(d) == IF EnableBypass /\ empty THEN d ELSE ram[ram_rd_addr]

PopBeat(pv, pr) == pr /\ PopValid(pv)

\* (mutant) An entry that took the bypass also advances the read address.
MutRamRdAddrUpdate(pv, pr) == PopBeat(pv, pr)

RamRdAddrUpdate(pv, pr) == PopBeat(pv, pr) /\ (EnableBypass => ~empty)

-----------------------------------------------------------------------------
(* One clock cycle out of reset *)
DirectCycle(pv, d, pr) ==
    /\ WriteStep(RamWrValid(PushBeat(pv), BypassReady(pr)), d)
    /\ SlotsStep(PushBeat(pv), PopBeat(pv, pr))
    /\ ItemsStep(PushBeat(pv), PopBeat(pv, pr))
    /\ ReadStep(RamRdAddrUpdate(pv, pr))
    /\ push' = IF PushBeat(pv) THEN d ELSE NoData
    /\ pop' = [rst |-> FALSE, valid |-> PopValid(pv), ready |-> pr,
               data |-> IF PopValid(pv) THEN PopData(d) ELSE NoData]

DirectNext == \/ \E pv, pr \in BOOLEAN, d \in Data : DirectCycle(pv, d, pr)
              \/ CoreReset

DirectSpec == CoreInit /\ [][DirectNext]_direct_vars

-----------------------------------------------------------------------------
TypeOK ==
    /\ CoreTypeOK
    /\ push \in Data \cup {NoData}
    /\ pop \in [rst : BOOLEAN, valid : BOOLEAN, ready : BOOLEAN, data : Data \cup {NoData}]

(* The write and the read address, kept in two modules that share no        *)
(* register, enclose exactly items entries, and each of them was written    *)
(* since it was last handed out.                                            *)
PointersEnclose ==
    /\ ram_wr_addr = Slot(ram_rd_addr + items)
    /\ \A i \in 0 .. items - 1 : RamEntry(i) \in Data

(* What makes an offer keepable: an entry shown and not taken is by the     *)
(* next edge the oldest entry in the RAM, wherever it was shown from.       *)
ShownIsOldest == pop.valid /\ ~pop.ready => items > 0 /\ RamEntry(0) = pop.data

\* The strengthening the proofs use, for a RAM as deep as the FIFO or deeper.
DirectInv == DirectAssumption /\ TypeOK /\ FlagsCoherent /\ PointersEnclose /\ ShownIsOldest

(* Valid and data are stable under backpressure: once the consumer has seen *)
(* an entry it did not take, the next cycle shows the same entry, also when *)
(* the entry was first shown over the unregistered bypass and has meanwhile *)
(* moved into the RAM. Only a reset withdraws it.                           *)
PopStable ==
    [][ (pop.valid /\ ~pop.ready /\ ~pop'.rst)
           => pop'.valid /\ pop'.data = pop.data ]_direct_vars

-----------------------------------------------------------------------------
(* The abstract queue this controller implements. *)
DirectQueue == INSTANCE BoundedFifo
           WITH q   <- RamContents(items),
                in  <- push,
                out <- IF pop.valid /\ pop.ready THEN pop.data ELSE NoData

ImplementsQueue == DirectQueue!Spec
=============================================================================
