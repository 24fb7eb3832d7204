--------------------------- MODULE BrFifoSharedPool ----------------------------
(***************************************************************************)
(* The pool of entries of br_fifo_shared_dynamic_ctrl: which of the Depth   *)
(* entries of the data RAM are free, and which belong to which of the       *)
(* NumFifos queues, in which order.  Several ports push in a cycle, each    *)
(* into an entry of the free list, which is linked to its queue through the *)
(* pointer RAM; it is freed when it is read.  The composition of            *)
(*   br_fifo_shared_dynamic_push_ctrl  (free list, distributor)             *)
(*   br_fifo_shared_dynamic_ptr_mgr    (a linked list controller per queue) *)
(* with the pointer RAM, whose writes are visible in the next cycle, and    *)
(* the deallocation path of br_fifo_shared_pop_ctrl.  Which of the valid    *)
(* heads are read is left open here: BrFifoSharedDynamic adds the arbiters, *)
(* the staging buffers and the data RAM that decide it.                     *)
(*                                                                         *)
(* A word of the RAM is dead from the cycle it is read in to the cycle it   *)
(* is written in again; a dead word holds NoAddr.                           *)
(***************************************************************************)
EXTENDS Integers, SequencesExt, FiniteSetsExt

CONSTANTS NumFifos, Depth, NumWritePorts, NumLinkedListsPerFifo,
          RegisterDeallocation, PointerRamReadLatency, Data

\* depth_in_range_a, legal_num_linked_lists_a and the other static assertions
ASSUME PoolAssumption ==
    /\ NumFifos \in Nat /\ NumFifos >= 2
    /\ NumWritePorts \in Nat \ {0}
    /\ Depth \in Nat /\ Depth > 2 * NumWritePorts
    /\ NumLinkedListsPerFifo \in 1 .. Depth - 1
    /\ PointerRamReadLatency \in Nat
    /\ RegisterDeallocation \in BOOLEAN

VARIABLES freelist,     \* br_tracker_freelist
          lowest_prio,  \* br_arb_multi_rr of the distributor
          ll,           \* per FIFO: br_tracker_linked_list_ctrl
          dealloc,      \* gen_reg_dealloc: entries freed in the previous cycle
          ptr_ram,
          queued        \* per FIFO: the entries given to it and not yet read

pool_vars == <<freelist, lowest_prio, ll, dealloc, ptr_ram, queued>>

Fifo == 0 .. NumFifos - 1
WritePort == 0 .. NumWritePorts - 1

FL == INSTANCE BrTrackerFreelist WITH NumEntries <- Depth, NumAllocPerCycle <- NumWritePorts
RR == INSTANCE BrArbMultiRr WITH NumRequesters <- NumWritePorts
LL == INSTANCE BrTrackerLinkedList
        WITH NumLinkedLists <- NumLinkedListsPerFifo, RamReadLatency <- PointerRamReadLatency

Address == 0 .. Depth - 1
NoAddr == Depth

PoolInit ==
    /\ freelist = FL!InitFreelist
    /\ lowest_prio = RR!LowestPrioInit
    /\ ll = [f \in Fifo |-> LL!InitLists]
    /\ dealloc = {}
    /\ ptr_ram = [a \in Address |-> NoAddr]
    /\ queued = [f \in Fifo |-> <<>>]

-----------------------------------------------------------------------------
(* Push side.  push maps the ports with push_valid to FIFO and data. *)

push_full == FL!alloc_sendable = 0

\* Ports whose push is accepted.  With one write port the free list is asked
\* directly, without a distributor.
Granted(push) == IF NumWritePorts > 1 THEN RR!Grant(DOMAIN push, FL!alloc_sendable)
                 ELSE IF push_full THEN {} ELSE DOMAIN push

\* (mutant) Every port gets the first entry.
MutWrAddr(push) == [p \in Granted(push) |-> freelist.staged[1]]

\* The entry each of them writes to: the distributor hands out the entries in
\* the order of its turns.
WrAddr(push) ==
    [p \in Granted(push) |-> freelist.staged[Cardinality(RR!Ahead(p, DOMAIN push)) + 1]]

\* Sequence of the ports that append to FIFO f, in the order of the ports.
PushPorts(push, f) ==
    LET ports == {p \in Granted(push) : push[p].fifo = f}
    IN  [i \in 1 .. Cardinality(ports)
            |-> CHOOSE p \in ports : Cardinality({q \in ports : q < p}) = i - 1]

\* What a cycle does on the push side: the addresses and data that are
\* appended to each FIFO, how many entries the free list gives away, and the
\* priority of the distributor after it.
PushSide(push) ==
    LET addr == WrAddr(push)
    IN  [appends |-> [f \in Fifo |->
                        LET ports == PushPorts(push, f)
                        IN  [next_tail |-> [i \in DOMAIN ports |-> addr[ports[i]]],
                             data |-> [i \in DOMAIN ports |-> push[ports[i]].data]]],
         accepted |-> Cardinality(Granted(push)),
         lowest_prio |-> IF NumWritePorts = 1 THEN lowest_prio
                         ELSE RR!LowestPrioNext(DOMAIN push, FL!alloc_sendable)]

PushInputs == UNION {[ports -> [fifo : Fifo, data : Data]] : ports \in SUBSET WritePort}

-----------------------------------------------------------------------------
(* Pop side: heads is the set of FIFOs whose oldest entry is read. *)

HeadAddr(f) == LL!head(ll[f])

ValidHeads == {f \in Fifo : LL!head_valid(ll[f])}

\* (mutant) Entries are returned in the cycle they are read in and again in
\* the next.
MutReturned(freed) == dealloc \cup freed

\* Entries that go back to the free list: at once, or a cycle after the read.
Returned(freed) == IF RegisterDeallocation THEN dealloc ELSE freed

-----------------------------------------------------------------------------
PtrRamNext(appends, freed) ==
    LET writes == UNION {LL!PtrRamWrites(ll[f], appends[f].next_tail) : f \in Fifo}
    IN  [a \in Address |->
            IF a \in freed THEN NoAddr
            ELSE IF \E w \in writes : w.addr = a
                 THEN (CHOOSE w \in writes : w.addr = a).data
                 ELSE ptr_ram[a]]

\* One clock cycle out of reset
PoolCycle(pushes, heads) ==
    LET appends == pushes.appends
        freed   == {HeadAddr(f) : f \in heads}
    IN  /\ freelist' = FL!FreelistNext(pushes.accepted, Returned(freed))
        /\ lowest_prio' = pushes.lowest_prio
        /\ ll' = [f \in Fifo |->
                    LL!ListsNext(ll[f], f \in heads, appends[f].next_tail, ptr_ram)]
        /\ dealloc' = IF RegisterDeallocation THEN freed ELSE {}
        /\ ptr_ram' = PtrRamNext(appends, freed)
        /\ queued' = [f \in Fifo |->
                (IF f \in heads /\ queued[f] # <<>> THEN Tail(queued[f]) ELSE queued[f])
                    \o appends[f].next_tail]

\* One clock cycle with rst asserted
PoolReset ==
    /\ freelist' = FL!InitFreelist
    /\ lowest_prio' = RR!LowestPrioInit
    /\ ll' = [f \in Fifo |-> LL!InitLists]
    /\ dealloc' = {}
    /\ ptr_ram' = [a \in Address |-> NoAddr]
    /\ queued' = [f \in Fifo |-> <<>>]

PoolNext ==
    \/ \E push \in PushInputs, heads \in SUBSET ValidHeads : PoolCycle(PushSide(push), heads)
    \/ PoolReset

PoolSpec == PoolInit /\ [][PoolNext]_pool_vars

-----------------------------------------------------------------------------
(* No entry of the pool is lost, and none is in two places: it is free, in   *)
(* the output register of the free list, on its way back to it, or in one    *)
(* queue at one place (no_lost_entries_a, no_double_alloc_seq_a,             *)
(* no_dealloc_unallocated_a, unique_dealloc_entry_id_a).                     *)
EntriesAccounted ==
    LET staged == ToSet(freelist.staged)
        used(f) == ToSet(queued[f])
    IN  /\ freelist.unstaged \cup staged \cup dealloc \cup UNION {used(f) : f \in Fifo} = Address
        /\ freelist.unstaged \cap staged = {}
        /\ dealloc \cap (freelist.unstaged \cup staged) = {}
        /\ IsInjective(freelist.staged)
        /\ \A f \in Fifo :
              /\ IsInjective(queued[f])
              /\ used(f) \cap (freelist.unstaged \cup staged \cup dealloc) = {}
              /\ \A g \in Fifo \ {f} : used(f) \cap used(g) = {}

(* The lists of each FIFO are its queue: entries are spread over them and    *)
(* collected from them in the same turns, whatever number of ports appended  *)
(* in a cycle and however long each list waited for its next pointer.        *)
ListsInTurn == \A f \in Fifo : LL!InTurn(ll[f], ptr_ram, queued[f])
=============================================================================
