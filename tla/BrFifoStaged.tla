---------------------------- MODULE BrFifoStaged -----------------------------
(***************************************************************************)
(* br_fifo_ctrl_1r1w with a staging buffer (branch gen_staging_buffer of    *)
(* br_fifo_pop_ctrl_core): RamReadLatency > 0 or RegisterPopOutputs = 1,    *)
(* composed of the push side and the counters of BrFifoCore and of          *)
(* BrFifoStagingBuffer.  br_fifo_flops is this controller with a flop RAM   *)
(* that is smaller than the FIFO when the bypass is enabled.                *)
(*                                                                         *)
(* pushed remembers in which of the last cycles an entry went into the RAM. *)
(***************************************************************************)
EXTENDS BrFifoCore

CONSTANTS RamReadLatency, RegisterPopOutputs

VARIABLES sb, pushed

BufferDepth == RamReadLatency + 1

SB == INSTANCE BrFifoStagingBuffer WITH TotalItemsIncludesStaged <- TRUE

\* legal_ram_depth_a and legal_total_depth_a
ASSUME StagedAssumption ==
    /\ RamReadLatency \in Nat /\ RegisterPopOutputs \in BOOLEAN
    /\ RamReadLatency > 0 \/ RegisterPopOutputs
    /\ Depth > BufferDepth
    /\ RamDepth >= IF EnableBypass THEN Depth - BufferDepth ELSE Depth

vars == <<ram_wr_addr, slots, full, ram_rd_addr, items, empty, ram, sb, push, pop, pushed>>

\* Cycles from a push into the RAM to the cycle that must show an entry.
Latency == 1 + RamReadLatency + B2N(RegisterPopOutputs)

NoPush == [k \in 1 .. Latency |-> FALSE]

Init == CoreInit /\ sb = SB!EmptyBuffer /\ pushed = NoPush

Inputs(pv, d, pr) ==
    [total_items |-> items, bypass_valid |-> EnableBypass /\ pv, bypass_data |-> d,
     rd_ready |-> TRUE, rd_data |-> ram[ram_rd_addr], pop_ready |-> pr]

\* One clock cycle out of reset
Cycle(pv, d, pr) ==
    LET in == Inputs(pv, d, pr)
        wr == RamWrValid(PushBeat(pv), SB!BypassReady(sb, in))
    IN  /\ WriteStep(wr, d)
        /\ SlotsStep(PushBeat(pv), SB!PopBeat(sb, in))
        /\ ItemsStep(PushBeat(pv), SB!PopBeat(sb, in))
        /\ ReadStep(SB!RdAddrValid(sb, in))
        /\ sb' = SB!StagingNext(sb, in)
        /\ push' = IF PushBeat(pv) THEN d ELSE NoData
        /\ pop' = [rst |-> FALSE, valid |-> SB!PopValid(sb, in), ready |-> pr,
                   data |-> IF SB!PopValid(sb, in) THEN SB!PopData(sb, in) ELSE NoData]
        /\ pushed' = [k \in 1 .. Latency |-> IF k = 1 THEN wr ELSE pushed[k - 1]]

\* One clock cycle with rst asserted; the RAM keeps its contents.
Reset == CoreReset /\ sb' = SB!EmptyBuffer /\ pushed' = NoPush

Next == \/ \E pv, pr \in BOOLEAN, d \in Data : Cycle(pv, d, pr)
        \/ Reset

Spec == Init /\ [][Next]_vars

(* The consumer may stall and the producer may push as they like, but cycles *)
(* in which the consumer is ready do not cease; the clock runs.              *)
DrainCycle == \E pv \in BOOLEAN, d \in Data : Cycle(pv, d, TRUE)

-----------------------------------------------------------------------------
(* Credit for the staging buffer: staged_items, which gates reads and        *)
(* bypasses, is exactly the number of entries in the buffer, in the output   *)
(* register and on their way from the RAM.  It counts beats at the two ends; *)
(* the entries move by separate pointers and valid bits in between           *)
(* (no_push_overflow_a, no_push_overwrite_a, no_double_push_a).              *)
StagedAccounted ==
    /\ sb.staged = Len(SB!Staged(sb))
    /\ \A i \in 1 .. sb.staged : SB!Staged(sb)[i] \in Data

(* The RAM, which with the bypass is smaller than the FIFO by the depth of   *)
(* the staging buffer (br_fifo_flops), never overflows, and its two          *)
(* addresses enclose the entries that are not staged.                        *)
RamNeverOverflows ==
    /\ items - sb.staged \in 0 .. RamDepth
    /\ ram_wr_addr = Slot(ram_rd_addr + items - sb.staged)

(* Valid and data are stable under backpressure, although what the pop       *)
(* interface shows may come from the bypass, from a read returning in this   *)
(* very cycle, from a buffer cell or from the output register.               *)
KeepsOffer == (pop.valid /\ ~pop.ready /\ ~pop'.rst) => pop'.valid /\ pop'.data = pop.data

(* Latency: exactly 1 + RamReadLatency + RegisterPopOutputs cycles after a   *)
(* push that went through the RAM, the pop interface shows an entry          *)
(* (non_bypass_cut_through_latency_a).                                       *)
ShowsInTime == (pushed[Latency] /\ ~pop'.rst) => pop'.valid

\* The abstract queue: the entries that are staged, then those in the RAM.
Contents == SB!Staged(sb) \o RamContents(items - sb.staged)
Delivered == IF pop.valid /\ pop.ready THEN pop.data ELSE NoData

(* Entries do not get stuck behind a read that never seems to return: while  *)
(* the consumer keeps asking, a non-empty FIFO delivers.                     *)
Delivers == items > 0 ~> (pop.valid /\ pop.ready) \/ pop.rst
=============================================================================
