----------------------------- MODULE BrFifoCore ------------------------------
(***************************************************************************)
(* The part shared by every single-clock 1R1W FIFO controller: the write    *)
(* address and slots/full flags of br_fifo_push_ctrl(_core), the read       *)
(* address and items/empty flags of br_fifo_pop_ctrl(_core), and the        *)
(* external 1R1W RAM (write latency 1).                                     *)
(*                                                                         *)
(* push and pop record what the two interfaces did in a cycle.              *)
(*                                                                         *)
(* The module defines wires and register updates only; the two generate     *)
(* branches of br_fifo_pop_ctrl_core (no buffer, staging buffer) drive      *)
(* them from modules of their own.  Arguments of the operators are wires.   *)
(***************************************************************************)
EXTENDS Integers, Sequences

CONSTANTS Depth,         \* FIFO depth
          RamDepth,      \* depth of the external RAM
          EnableBypass,  \* the bypass path from push to pop exists
          Data,          \* payload values
          NoData         \* content of a storage cell never written

ASSUME FifoCoreAssumption ==
    /\ Depth \in Nat /\ Depth >= 2
    /\ RamDepth \in Nat \ {0}
    /\ EnableBypass \in BOOLEAN
    /\ NoData \notin Data

VARIABLES ram_wr_addr, slots, full,     \* push side
          ram_rd_addr, items, empty,    \* pop side
          ram,                          \* external storage
          push,  \* entry accepted in the cycle that just ended
          pop    \* [rst, valid, ready, data] of that cycle

Addr == 0 .. RamDepth - 1

NoPop == [rst |-> TRUE, valid |-> FALSE, ready |-> FALSE, data |-> NoData]

CoreInit ==
    /\ ram_wr_addr = 0 /\ slots = Depth /\ full = FALSE
    /\ ram_rd_addr = 0 /\ items = 0 /\ empty = TRUE
    /\ ram = [a \in Addr |-> NoData]
    /\ push = NoData /\ pop = NoPop

CoreReset ==
    /\ ram_wr_addr' = 0 /\ slots' = Depth /\ full' = FALSE
    /\ ram_rd_addr' = 0 /\ items' = 0 /\ empty' = TRUE
    /\ UNCHANGED ram
    /\ push' = NoData /\ pop' = NoPop

-----------------------------------------------------------------------------
(* Wires *)

\* (mutant) Backpressure is dropped.
mut_push_ready == TRUE

push_ready == ~full

PushBeat(pv) == push_ready /\ pv

\* A push goes to the RAM unless the pop side takes it over the bypass.
RamWrValid(push_beat, bypass_ready) ==
    push_beat /\ ~(EnableBypass /\ bypass_ready)

\* (mutant) The address wraps at the FIFO depth instead of the RAM depth.
MutAddrAfter(a) == IF a = Depth - 1 THEN 0 ELSE a + 1

AddrAfter(a) == IF a = RamDepth - 1 THEN 0 ELSE a + 1

B2N(b) == IF b THEN 1 ELSE 0

-----------------------------------------------------------------------------
(* Register updates of one clock cycle out of reset *)

WriteStep(wr, d) ==
    /\ ram_wr_addr' = IF wr THEN AddrAfter(ram_wr_addr) ELSE ram_wr_addr
    /\ ram' = IF wr THEN [ram EXCEPT ![ram_wr_addr] = d] ELSE ram

\* (mutant) The full flag is reloaded on a push only.
MutSlotsStep(push_beat, pop_beat) ==
    /\ slots' = slots + B2N(pop_beat) - B2N(push_beat)
    /\ full' = IF push_beat THEN slots' = 0 ELSE full

SlotsStep(push_beat, pop_beat) ==
    /\ slots' = slots + B2N(pop_beat) - B2N(push_beat)
    /\ full' = IF push_beat \/ pop_beat THEN slots' = 0 ELSE full

ItemsStep(push_beat, pop_beat) ==
    /\ items' = items + B2N(push_beat) - B2N(pop_beat)
    /\ empty' = IF push_beat \/ pop_beat THEN items' = 0 ELSE empty

ReadStep(ram_rd_addr_update) ==
    ram_rd_addr' = IF ram_rd_addr_update THEN AddrAfter(ram_rd_addr)
                                         ELSE ram_rd_addr

-----------------------------------------------------------------------------
\* Address k, counted around the circular RAM once.
Slot(k) == IF k < RamDepth THEN k ELSE k - RamDepth

(* The i-th entry (from 0) counted from the read address. *)
RamEntry(i) == ram[Slot(ram_rd_addr + i)]

\* The n oldest entries that live in the RAM, oldest first.
RamContents(n) == [i \in 1 .. n |-> RamEntry(i - 1)]

\* The registers of both sides are within their declared range.
CoreTypeOK ==
    /\ ram_wr_addr \in Addr /\ ram_rd_addr \in Addr
    /\ slots \in 0 .. Depth /\ items \in 0 .. Depth
    /\ full \in BOOLEAN /\ empty \in BOOLEAN
    /\ ram \in [Addr -> Data \cup {NoData}]

(* Flag coherence: the push-side and the pop-side counters are updated by   *)
(* separate modules and never exchanged, yet always describe the same queue *)
(* (items_plus_slots_a of br_fifo_ctrl_1r1w, full_a, empty_a).              *)
FlagsCoherent ==
    /\ items + slots = Depth
    /\ full <=> (slots = 0)
    /\ empty <=> (items = 0)
=============================================================================
