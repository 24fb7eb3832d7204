------------------------ MODULE BrFifoStagingBuffer --------------------------
(***************************************************************************)
(* br_fifo_staging_buffer: hides the latency of RAM reads from the pop      *)
(* side of a FIFO.  It prefetches entries, lets pushed entries bypass the   *)
(* RAM, and must hand both out in order although a read takes RamReadLatency*)
(* cycles and a bypass none.                                               *)
(*                                                                         *)
(* sb holds the registers of one staging buffer, and reads, the data of the *)
(* reads on their way through the RAM (ram_rd_data of a later cycle).  The  *)
(* operators are the wires of one cycle; in is the record of its inputs:    *)
(*   total_items, bypass_valid, bypass_data  from the push side             *)
(*   rd_ready, rd_data   grant of the RAM port, RAM word at the read address*)
(*   pop_ready           from the consumer                                  *)
(* A storage cell whose valid bit is low is written NoData.                 *)
(***************************************************************************)
EXTENDS Integers, Sequences

CONSTANTS EnableBypass, RamReadLatency, BufferDepth, RegisterPopOutputs,
          TotalItemsIncludesStaged,   \* total_items counts staged entries, too
          Data, NoData

InternalDepth == BufferDepth - (IF RegisterPopOutputs THEN 1 ELSE 0)
Cell == 0 .. InternalDepth - 1
Stage == 1 .. RamReadLatency

EmptyBuffer ==
    [staged |-> 0, reads |-> [k \in Stage |-> NoData], reg |-> NoData,
     \* gen_single_entry_buffer
     buf |-> NoData, buf_bypass |-> FALSE, inflight |-> 0,
     \* gen_circ_buffer; wr_cell delays the write pointer along with the read
     mem |-> [c \in Cell |-> NoData], rd_ptr |-> 0, wr_ptr |-> 0,
     maybe_full |-> FALSE, wr_cell |-> [k \in Stage |-> 0]]

-----------------------------------------------------------------------------
(* What the registers alone say about the internal pop interface *)

ReadReturns(sb) == RamReadLatency > 0 /\ sb.reads[RamReadLatency] # NoData

has_inflight_read(sb) == sb.inflight # 0

\* (mutant) A bypassed entry waits for ever.
MutFwdBlockStuck(sb) == sb.buf_bypass

buffer_fwd_block(sb) == sb.buf_bypass /\ has_inflight_read(sb)

buffer_fwd_valid(sb) == sb.buf # NoData /\ ~buffer_fwd_block(sb)

circ_empty(sb) == sb.rd_ptr = sb.wr_ptr /\ ~sb.maybe_full

\* With the bypass a cell is allocated before its read returns, so the
\* pointers do not tell whether the head holds data.
head_valid(sb) == IF EnableBypass THEN sb.mem[sb.rd_ptr] # NoData ELSE ~circ_empty(sb)

internal_pop_valid_nonbypass(sb) ==
    \/ ReadReturns(sb)
    \/ InternalDepth = 1 /\ buffer_fwd_valid(sb)
    \/ InternalDepth > 1 /\ head_valid(sb)

pop_valid_nonbypass(sb) == IF RegisterPopOutputs THEN sb.reg # NoData
                                                 ELSE internal_pop_valid_nonbypass(sb)

-----------------------------------------------------------------------------
(* Read issue and bypass *)

\* (mutant) The last cell of the buffer is never used.
MutSpaceShort(sb, in) ==
    \/ sb.staged + 1 < BufferDepth
    \/ in.pop_ready /\ (RamReadLatency > 0 => pop_valid_nonbypass(sb))

SpaceAvailable(sb, in) ==
    \/ sb.staged < BufferDepth
    \/ in.pop_ready /\ (RamReadLatency > 0 => pop_valid_nonbypass(sb))

ItemsNotStaged(sb, in) == IF TotalItemsIncludesStaged THEN sb.staged < in.total_items
                                                      ELSE in.total_items > 0

BypassReady(sb, in) ==
    /\ EnableBypass
    /\ SpaceAvailable(sb, in)
    /\ IF TotalItemsIncludesStaged
       THEN \/ in.total_items < BufferDepth
            \/ in.total_items = BufferDepth /\ in.pop_ready
       ELSE in.total_items = 0

BypassBeat(sb, in) == in.bypass_valid /\ BypassReady(sb, in)

RdAddrValid(sb, in) == SpaceAvailable(sb, in) /\ ItemsNotStaged(sb, in) /\ ~BypassReady(sb, in)

RdAddrBeat(sb, in) == RdAddrValid(sb, in) /\ in.rd_ready

RdDataValid(sb, in) == IF RamReadLatency = 0 THEN RdAddrBeat(sb, in) ELSE ReadReturns(sb)
RdData(sb, in) == IF RamReadLatency = 0 THEN in.rd_data ELSE sb.reads[RamReadLatency]

PushValid(sb, in) == RdDataValid(sb, in) \/ BypassBeat(sb, in)
PushData(sb, in) == IF RdDataValid(sb, in) THEN RdData(sb, in) ELSE in.bypass_data

-----------------------------------------------------------------------------
(* Pop *)

InternalPopReady(sb, in) == IF RegisterPopOutputs THEN in.pop_ready \/ sb.reg = NoData
                                                  ELSE in.pop_ready

InternalPopValid(sb, in) ==
    CASE InternalDepth = 0 -> PushValid(sb, in)
      [] InternalDepth = 1 -> \/ buffer_fwd_valid(sb)
                              \/ RdDataValid(sb, in)
                              \/ BypassBeat(sb, in) /\ ~has_inflight_read(sb)
      [] OTHER -> head_valid(sb) \/ RdDataValid(sb, in) \/ (circ_empty(sb) /\ BypassBeat(sb, in))

\* (mutant) What arrives in this cycle is shown before what is buffered.
MutInternalPopData(sb, in) == IF PushValid(sb, in) THEN PushData(sb, in)
                              ELSE IF InternalDepth = 1 THEN sb.buf ELSE sb.mem[sb.rd_ptr]

InternalPopData(sb, in) ==
    CASE InternalDepth = 1 /\ buffer_fwd_valid(sb) -> sb.buf
      [] InternalDepth > 1 /\ head_valid(sb) -> sb.mem[sb.rd_ptr]
      [] OTHER -> PushData(sb, in)

PopValid(sb, in) == IF RegisterPopOutputs THEN sb.reg # NoData ELSE InternalPopValid(sb, in)
PopData(sb, in) == IF RegisterPopOutputs THEN sb.reg ELSE InternalPopData(sb, in)
PopBeat(sb, in) == PopValid(sb, in) /\ in.pop_ready

-----------------------------------------------------------------------------
(* Registers after the clock edge *)

B2N(b) == IF b THEN 1 ELSE 0

StagedNext(sb, in) ==
    sb.staged + B2N(RdAddrBeat(sb, in) \/ BypassBeat(sb, in)) - B2N(PopBeat(sb, in))

\* A read sees the writes issued before it, whatever the stages of the RAM.
ReadsNext(sb, in) ==
    [k \in Stage |-> IF k > 1 THEN sb.reads[k - 1]
                     ELSE IF RdAddrBeat(sb, in) THEN in.rd_data ELSE NoData]

RegNext(sb, in) == IF RegisterPopOutputs /\ InternalPopReady(sb, in)
                   THEN IF InternalPopValid(sb, in) THEN InternalPopData(sb, in) ELSE NoData
                   ELSE sb.reg

InflightNext(sb, in) == IF InternalDepth = 1
                        THEN sb.inflight + B2N(RdAddrBeat(sb, in)) - B2N(RdDataValid(sb, in))
                        ELSE 0

buffer_fwd_ready(sb, in) == InternalPopReady(sb, in) /\ ~buffer_fwd_block(sb)

BufferValidNext(sb, in) ==
    IF sb.buf # NoData
    THEN PushValid(sb, in) \/ ~buffer_fwd_ready(sb, in)
    ELSE \/ PushValid(sb, in) /\ ~InternalPopReady(sb, in)
         \/ BypassBeat(sb, in) /\ has_inflight_read(sb)

BufferLoad(sb, in) == BufferValidNext(sb, in) /\ (sb.buf = NoData \/ buffer_fwd_ready(sb, in))

BufferDataNext(sb, in) ==
    IF InternalDepth # 1 \/ ~BufferValidNext(sb, in) THEN NoData
    ELSE IF ~BufferLoad(sb, in) THEN sb.buf
    ELSE IF InternalPopReady(sb, in) /\ sb.buf = NoData THEN in.bypass_data
    ELSE PushData(sb, in)

BufferBypassNext(sb, in) == IF InternalDepth = 1 /\ BufferLoad(sb, in) THEN BypassBeat(sb, in)
                                                                       ELSE sb.buf_bypass

NextCell(c) == IF c = InternalDepth - 1 THEN 0 ELSE c + 1

\* An entry that goes straight to the pop interface occupies no cell.
BypassWrite(sb, in) == BypassBeat(sb, in) /\ ~(circ_empty(sb) /\ InternalPopReady(sb, in))
RdDataWrite(sb, in) == RdDataValid(sb, in) /\ ~(~head_valid(sb) /\ InternalPopReady(sb, in))

\* (mutant) An entry that goes straight to the pop interface takes a cell.
MutAdvanceWr(sb, in) == InternalDepth > 1 /\ (RdAddrBeat(sb, in) \/ BypassBeat(sb, in))

AdvanceWr(sb, in) ==
    /\ InternalDepth > 1
    /\ IF EnableBypass THEN RdAddrBeat(sb, in) \/ BypassWrite(sb, in) ELSE RdDataWrite(sb, in)
AdvanceRd(sb, in) == /\ InternalDepth > 1
                     /\ head_valid(sb) \/ (EnableBypass /\ RdDataValid(sb, in))
                     /\ InternalPopReady(sb, in)

\* (mutant) A returning read is written to the cell allocated last.
MutDelayedCell(sb) == sb.wr_ptr

\* Cell a returning read is written to: the one allocated when it was issued.
DelayedCell(sb) == IF EnableBypass THEN sb.wr_cell[RamReadLatency] ELSE sb.wr_ptr

MemNext(sb, in) ==
    [c \in Cell |->
        IF InternalDepth = 1 THEN NoData
        ELSE IF BypassWrite(sb, in) /\ c = sb.wr_ptr THEN in.bypass_data
        ELSE IF RdDataWrite(sb, in) /\ c = DelayedCell(sb) THEN RdData(sb, in)
        ELSE IF EnableBypass /\ AdvanceRd(sb, in) /\ c = sb.rd_ptr THEN NoData
        ELSE sb.mem[c]]

WrCellNext(sb, in) ==
    [k \in Stage |->
        IF k = 1 THEN IF EnableBypass /\ InternalDepth > 1 /\ RdAddrBeat(sb, in)
                      THEN sb.wr_ptr ELSE sb.wr_cell[1]
        ELSE IF sb.reads[k - 1] # NoData THEN sb.wr_cell[k - 1] ELSE sb.wr_cell[k]]

StagingNext(sb, in) ==
    [staged |-> StagedNext(sb, in), reads |-> ReadsNext(sb, in), reg |-> RegNext(sb, in),
     buf |-> BufferDataNext(sb, in), buf_bypass |-> BufferBypassNext(sb, in),
     inflight |-> InflightNext(sb, in),
     mem |-> MemNext(sb, in),
     rd_ptr |-> IF AdvanceRd(sb, in) THEN NextCell(sb.rd_ptr) ELSE sb.rd_ptr,
     wr_ptr |-> IF AdvanceWr(sb, in) THEN NextCell(sb.wr_ptr) ELSE sb.wr_ptr,
     maybe_full |-> IF AdvanceWr(sb, in) = AdvanceRd(sb, in) THEN sb.maybe_full
                    ELSE AdvanceWr(sb, in),
     wr_cell |-> WrCellNext(sb, in)]

-----------------------------------------------------------------------------
(* The entries a staging buffer is responsible for, oldest first: refinement *)
(* mapping of the buffer and of the reads in flight to it.                   *)

One(x) == IF x = NoData THEN <<>> ELSE <<x>>

\* What the stages of the RAM hold; the last stage has the oldest read.
InStages(reads) ==
    LET oldest[n \in 0 .. RamReadLatency] ==
            IF n = 0 THEN <<>>
            ELSE oldest[n - 1] \o One(reads[RamReadLatency + 1 - n])
    IN  oldest[RamReadLatency]

InFlight(sb) == InStages(sb.reads)

CellsUsed(sb) == IF sb.rd_ptr = sb.wr_ptr THEN IF sb.maybe_full THEN InternalDepth ELSE 0
                 ELSE IF sb.rd_ptr < sb.wr_ptr THEN sb.wr_ptr - sb.rd_ptr
                 ELSE sb.wr_ptr - sb.rd_ptr + InternalDepth

\* The cell i places behind the head.
CellAt(sb, i) == IF sb.rd_ptr + i < InternalDepth THEN sb.rd_ptr + i
                 ELSE sb.rd_ptr + i - InternalDepth

\* Stages with the read that will fill a cell.
Arriving(sb, c) == {k \in Stage : sb.reads[k] # NoData /\ sb.wr_cell[k] = c}

\* Content of an allocated cell, or of the read that will fill it.
CellEntry(sb, c) == IF sb.mem[c] # NoData \/ ~EnableBypass \/ Arriving(sb, c) = {} THEN sb.mem[c]
                    ELSE sb.reads[CHOOSE k \in Arriving(sb, c) : TRUE]

Cells(sb) == [i \in 1 .. CellsUsed(sb) |-> CellEntry(sb, CellAt(sb, i - 1))]

Held(sb) ==
    CASE InternalDepth = 0 -> InFlight(sb)
      [] InternalDepth = 1 -> IF sb.buf_bypass THEN InFlight(sb) \o One(sb.buf)
                                               ELSE One(sb.buf) \o InFlight(sb)
      [] OTHER -> IF EnableBypass THEN Cells(sb) ELSE Cells(sb) \o InFlight(sb)

Staged(sb) == One(sb.reg) \o Held(sb)
=============================================================================
