------------------------ MODULE BrFifoSharedDynamic --------------------------
(***************************************************************************)
(* br_fifo_shared_dynamic_ctrl: NumFifos queues that share one data RAM.    *)
(* The pool of entries, which queue holds which of them and how they are    *)
(* allocated and freed, is BrFifoSharedPool; this module adds               *)
(*   br_fifo_shared_pop_ctrl  (staging buffers, read crossbar)              *)
(* and the data RAM.  The queues compete for its read ports, port           *)
(* a % NumReadPorts for address a, under a least-recently-used arbiter per  *)
(* port, which decides the heads that are read in a cycle.                  *)
(*                                                                         *)
(* A word of the RAM is dead from the cycle it is read in to the cycle it   *)
(* is written in again; a dead word holds NoData.                           *)
(***************************************************************************)
EXTENDS BrFifoSharedPool

CONSTANTS NumReadPorts, StagingBufferDepth, RegisterPopOutputs, DataRamReadLatency, NoData,
          Plain, MaxMarked   \* a payload; bound on the others

\* legal_num_read_ports_a and the other static assertions of the pop side
ASSUME SharedAssumption ==
    /\ NumReadPorts \in {1, 2, 4, 8, 16, 32, 64} /\ Depth >= NumReadPorts
    /\ StagingBufferDepth \in Nat \ {0} /\ DataRamReadLatency \in Nat
    /\ RegisterPopOutputs \in BOOLEAN
    /\ NoData \notin Data /\ Plain \in Data /\ MaxMarked \in Nat

VARIABLES sb,           \* per FIFO: br_fifo_staging_buffer, or nothing
          order,        \* per read port: br_arb_lru_internal
          data_ram,
          expected      \* per FIFO: what went in and did not come out yet

vars == <<pool_vars, sb, order, data_ram, expected>>

ReadPort == 0 .. NumReadPorts - 1

HasStagingBuffer == DataRamReadLatency > 0 \/ RegisterPopOutputs

SB == INSTANCE BrFifoStagingBuffer
        WITH EnableBypass <- FALSE, TotalItemsIncludesStaged <- FALSE,
             BufferDepth <- StagingBufferDepth, RamReadLatency <- DataRamReadLatency
LRU == INSTANCE BrArbLru WITH NumRequesters <- NumFifos

Init ==
    /\ PoolInit
    /\ sb = [f \in Fifo |-> IF HasStagingBuffer THEN SB!EmptyBuffer ELSE NoData]
    /\ order = [p \in ReadPort |-> LRU!InitOrder]
    /\ data_ram = [a \in Address |-> NoData]
    /\ expected = [f \in Fifo |-> <<>>]

-----------------------------------------------------------------------------
(* Pop side.  pop_ready is the set of FIFOs whose consumer is ready. *)

StagingInputs(f, pop_ready, rd_ready, rd_data) ==
    [total_items |-> LL!items(ll[f]), bypass_valid |-> FALSE, bypass_data |-> NoData,
     rd_ready |-> rd_ready, pop_ready |-> f \in pop_ready, rd_data |-> rd_data]

\* fifo_ram_rd_addr_valid
RdAddrValid(f, pop_ready) ==
    /\ LL!head_valid(ll[f])
    /\ IF HasStagingBuffer THEN SB!RdAddrValid(sb[f], StagingInputs(f, pop_ready, FALSE, NoData))
                           ELSE f \in pop_ready

ReadPortOf(a) == a % NumReadPorts

Requests(p, pop_ready) ==
    {f \in Fifo : RdAddrValid(f, pop_ready) /\ ReadPortOf(HeadAddr(f)) = p}

\* fifo_ram_rd_addr_ready, of a valid head
RdAddrReady(f, pop_ready) ==
    LET p == ReadPortOf(HeadAddr(f)) IN LRU!CanGrant(order[p], Requests(p, pop_ready), f)

\* head_valid and head_ready: the oldest address leaves the lists.
HeadBeat(f, pop_ready) == RdAddrValid(f, pop_ready) /\ RdAddrReady(f, pop_ready)

\* What the RAM reads for f: the address on the port is the one of the FIFO
\* that is granted, and no word if that is not one FIFO.
ReadData(f, pop_ready) ==
    LET p == ReadPortOf(HeadAddr(f))
    IN  IF LRU!Grant(order[p], Requests(p, pop_ready)) = {f} THEN data_ram[HeadAddr(f)] ELSE NoData

Inputs(f, pop_ready) ==
    LET rd_ready == LL!head_valid(ll[f]) /\ RdAddrReady(f, pop_ready)
    IN  StagingInputs(f, pop_ready, rd_ready,
                      IF rd_ready THEN ReadData(f, pop_ready) ELSE NoData)

PopValid(f, pop_ready) ==
    IF HasStagingBuffer THEN SB!PopValid(sb[f], Inputs(f, pop_ready))
                        ELSE LL!head_valid(ll[f]) /\ RdAddrReady(f, pop_ready)

PopData(f, pop_ready) ==
    IF HasStagingBuffer THEN SB!PopData(sb[f], Inputs(f, pop_ready)) ELSE ReadData(f, pop_ready)

PopBeat(f, pop_ready) == PopValid(f, pop_ready) /\ f \in pop_ready

\* What a cycle does on the pop side: heads read and entries taken, the
\* registers of the staging buffers and of the arbiters after it.
PopSide(pop_ready) ==
    LET heads == {f \in Fifo : HeadBeat(f, pop_ready)}
    IN  [heads |-> heads,
         taken |-> {f \in pop_ready : PopValid(f, pop_ready)},
         sb    |-> IF HasStagingBuffer
                   THEN [f \in Fifo |-> SB!StagingNext(sb[f], Inputs(f, pop_ready))] ELSE sb,
         order |-> [p \in ReadPort |-> LRU!OrderNext(order[p], Requests(p, pop_ready))]]

-----------------------------------------------------------------------------
DataRamNext(appends, freed) ==
    LET writes == UNION {{[addr |-> appends[f].next_tail[i], data |-> appends[f].data[i]] :
                            i \in DOMAIN appends[f].data} : f \in Fifo}
    IN  [a \in Address |->
            IF \E w \in writes : w.addr = a THEN (CHOOSE w \in writes : w.addr = a).data
            ELSE IF a \in freed THEN NoData ELSE data_ram[a]]

\* One clock cycle out of reset
Cycle(pushes, pops) ==
    LET appends == pushes.appends
    IN  /\ PoolCycle(pushes, pops.heads)
        /\ sb' = pops.sb
        /\ order' = pops.order
        /\ data_ram' = DataRamNext(appends, {HeadAddr(f) : f \in pops.heads})
        /\ expected' = [f \in Fifo |->
                (IF f \in pops.taken /\ expected[f] # <<>> THEN Tail(expected[f])
                                                           ELSE expected[f]) \o appends[f].data]

\* Bound: of the entries in flight, at most MaxMarked carry another payload
\* than Plain.
Marked(push) ==
    Cardinality({p \in DOMAIN push : push[p].data # Plain})
      + MapThenSumSet(LAMBDA f : Len(SelectSeq(expected[f], LAMBDA d : d # Plain)), Fifo)

\* A cycle in which the set of ready consumers is one of ready.
OperateWith(ready) ==
    \E pops \in {PopSide(pop_ready) : pop_ready \in ready},
       pushes \in {PushSide(push) : push \in {push \in PushInputs : Marked(push) <= MaxMarked}} :
           Cycle(pushes, pops)

Operate == OperateWith(SUBSET Fifo)

\* One clock cycle with rst asserted: everything in the FIFOs is dropped.
Reset ==
    /\ PoolReset
    /\ sb' = [f \in Fifo |-> IF HasStagingBuffer THEN SB!EmptyBuffer ELSE NoData]
    /\ order' = [p \in ReadPort |-> LRU!InitOrder]
    /\ data_ram' = [a \in Address |-> NoData]
    /\ expected' = [f \in Fifo |-> <<>>]

Next == Operate \/ Reset

Spec == Init /\ [][Next]_vars

-----------------------------------------------------------------------------
\* The entries of FIFO f, oldest first, as the links of the pointer RAM say.
Queued(f) == LL!Addresses(ll[f], ptr_ram)

(* Each FIFO holds, in order, what was pushed to it and not yet popped; the  *)
(* free list, the links, the RAM, the reads in flight and the staging buffer *)
(* say so together (the scoreboard of br_fifo_shared_dynamic_basic_fpv_      *)
(* monitor).                                                                 *)
Contents(f) ==
    (IF HasStagingBuffer THEN SB!Staged(sb[f]) ELSE <<>>)
      \o [i \in DOMAIN Queued(f) |->
            IF Queued(f)[i] = NoAddr THEN NoData ELSE data_ram[Queued(f)[i]]]

HoldsWhatWasPushed == \A f \in Fifo : Contents(f) = expected[f]

(* Whatever the other consumers do, and so whoever wins the read ports, an   *)
(* entry that changes hands is the oldest of its FIFO.                       *)
DeliversOldest ==
    \A pop_ready \in SUBSET Fifo : \A f \in Fifo :
        PopBeat(f, pop_ready) =>
            expected[f] # <<>> /\ PopData(f, pop_ready) = Head(expected[f])

(* When all consumers are ready again and again, an entry (the marked one,    *)
(* of which there is one at a time: MaxMarked = 1) leaves its FIFO, however   *)
(* busy the other FIFOs keep the read ports, and a full pool takes pushes     *)
(* again (no_deadlock_pop_a).                                                *)
EveryEntryLeaves ==
    \A f \in Fifo : (~ ToSet(expected[f]) \subseteq {Plain})
                       ~> (ToSet(expected[f]) \subseteq {Plain})
PoolRecovers == push_full ~> ~push_full
=============================================================================
