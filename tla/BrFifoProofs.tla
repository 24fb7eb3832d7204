----------------------------- MODULE BrFifoProofs ------------------------------
(***************************************************************************)
(* Theorems about br_fifo_ctrl_1r1w: about BrFifoDirect for every Depth,    *)
(* every RAM as deep as the FIFO or deeper, with and without the bypass;    *)
(* about BrFifoStaged for every depth, every latency of the RAM, with and   *)
(* without registered pop outputs and with and without the bypass.          *)
(***************************************************************************)
EXTENDS BrFifoDirect, BrFifoStaged, SequenceTheorems, WellFoundedInduction, TLAPS

(***************************************************************************)
(* The FIFO without a staging buffer.                                       *)
(***************************************************************************)

(* What the wrap-around of the address counters computes.                   *)
LEMMA AddrInRange ==
  ASSUME NEW a \in Addr
  PROVE  AddrAfter(a) \in Addr
BY FifoCoreAssumption DEF Addr, AddrAfter

(* The pop pins of a cycle in reset.                                        *)
LEMMA NoPopType ==
  NoPop \in [rst : BOOLEAN, valid : BOOLEAN, ready : BOOLEAN, data : Data \cup {NoData}]
BY DEF NoPop

(* The strengthening holds out of reset.                                    *)
LEMMA InitDirectInv ==
  ASSUME DirectAssumption, CoreInit
  PROVE  DirectInv
<1> USE FifoCoreAssumption DEF DirectAssumption, CoreInit
<1>1. TypeOK
  <2>1. CoreTypeOK
    <3>1. ram \in [Addr -> Data \cup {NoData}]
      OBVIOUS
    <3>2. full \in BOOLEAN /\ empty \in BOOLEAN
      OBVIOUS
    <3>3. 0 \in Addr /\ Depth \in 0 .. Depth /\ 0 \in 0 .. Depth
      BY DEF Addr
    <3> QED BY <3>1, <3>2, <3>3 DEF CoreTypeOK
  <2> QED BY <2>1, NoPopType DEF TypeOK
<1>2. FlagsCoherent
  BY DEF FlagsCoherent
<1>3. PointersEnclose
  <2>1. 0 .. items - 1 = {}
    OBVIOUS
  <2> QED BY <2>1 DEF PointersEnclose, Slot
<1>4. ShownIsOldest
  BY DEF ShownIsOldest, NoPop
<1> QED BY <1>1, <1>2, <1>3, <1>4 DEF DirectInv

\* Wires of one cycle: an entry enters the RAM, an entry leaves the RAM.
DirectWr(pv, pr) == RamWrValid(PushBeat(pv), BypassReady(pr))
DirectRd(pv, pr) == RamRdAddrUpdate(pv, pr)

(* A beat moves an entry only when the counters allow it.                   *)
LEMMA BeatsAreLegal ==
  ASSUME DirectInv, NEW pv \in BOOLEAN, NEW pr \in BOOLEAN
  PROVE  /\ PushBeat(pv) => slots > 0
         /\ PopBeat(pv, pr) => items > 0 \/ PushBeat(pv)
         /\ PushBeat(pv) \in BOOLEAN /\ PopBeat(pv, pr) \in BOOLEAN
BY FifoCoreAssumption
   DEF DirectInv, TypeOK, CoreTypeOK, FlagsCoherent, PushBeat, push_ready, PopBeat, PopValid

(* The item counter, which counts beats, moves with the RAM accesses, which *)
(* the bypass can suppress.                                                 *)
LEMMA ItemsFollowRam ==
  ASSUME DirectInv, NEW pv \in BOOLEAN, NEW pr \in BOOLEAN, NEW d \in Data, DirectCycle(pv, d, pr)
  PROVE  /\ items' = items + B2N(DirectWr(pv, pr)) - B2N(DirectRd(pv, pr))
         /\ items' \in 0 .. Depth
         /\ DirectWr(pv, pr) => items < Depth
         /\ DirectRd(pv, pr) => items > 0
         /\ DirectWr(pv, pr) \in BOOLEAN /\ DirectRd(pv, pr) \in BOOLEAN
<1> USE FifoCoreAssumption
<1>1. items' = items + B2N(PushBeat(pv)) - B2N(PopBeat(pv, pr))
  BY DEF DirectCycle, ItemsStep
<1> QED
  BY <1>1, BeatsAreLegal
     DEF DirectWr, DirectRd, RamWrValid, BypassReady, RamRdAddrUpdate, PopBeat, PushBeat, PopValid,
         push_ready, B2N, DirectInv, TypeOK, CoreTypeOK, FlagsCoherent

(* Where each entry of the next state comes from: the entry at the same or  *)
(* the next position, or the entry pushed in this cycle.  No write reaches  *)
(* an entry that is still in the queue.                                     *)
LEMMA EntriesMove ==
  ASSUME DirectInv, NEW pv \in BOOLEAN, NEW pr \in BOOLEAN, NEW d \in Data, DirectCycle(pv, d, pr),
         NEW i \in 0 .. items' - 1
  PROVE  LET j == i + B2N(DirectRd(pv, pr))
         IN  /\ j \in 0 .. items
             /\ j < items => RamEntry(i)' = RamEntry(j)
             /\ j = items => DirectWr(pv, pr) /\ RamEntry(i)' = d
<1> DEFINE j == i + B2N(DirectRd(pv, pr))
<1> USE FifoCoreAssumption DEF DirectAssumption
<1>1. /\ ram_rd_addr' = IF DirectRd(pv, pr) THEN AddrAfter(ram_rd_addr) ELSE ram_rd_addr
      /\ ram' = IF DirectWr(pv, pr) THEN [ram EXCEPT ![ram_wr_addr] = d] ELSE ram
  BY DEF DirectCycle, WriteStep, ReadStep, DirectWr, DirectRd
<1>2. /\ j \in 0 .. items
      /\ Slot(ram_rd_addr' + i) = Slot(ram_rd_addr + j)
      /\ Slot(ram_rd_addr + j) \in Addr
      /\ j = items => DirectWr(pv, pr)
  BY <1>1, ItemsFollowRam DEF DirectInv, TypeOK, CoreTypeOK, Addr, AddrAfter, B2N, Slot
<1>3. ram_wr_addr = Slot(ram_rd_addr + items)
  BY DEF DirectInv, PointersEnclose
<1>4. CASE j < items
  <2>1. DirectWr(pv, pr) => Slot(ram_rd_addr + j) # ram_wr_addr
    BY <1>2, <1>3, <1>4, ItemsFollowRam DEF DirectInv, TypeOK, CoreTypeOK, Addr, Slot
  <2>2. ram'[Slot(ram_rd_addr + j)] = ram[Slot(ram_rd_addr + j)]
    BY <2>1, <1>1, <1>2 DEF DirectInv, TypeOK, CoreTypeOK
  <2> QED BY <2>2, <1>2, <1>4 DEF RamEntry
<1>5. CASE j = items
  <2>1. ram'[ram_wr_addr] = d
    BY <1>1, <1>2, <1>5 DEF DirectInv, TypeOK, CoreTypeOK
  <2>2. RamEntry(i)' = d
    BY <2>1, <1>2, <1>3, <1>5 DEF RamEntry
  <2> QED BY <2>2, <1>2, <1>5
<1> QED BY <1>2, <1>4, <1>5 DEF DirectInv, TypeOK, CoreTypeOK

(* One clock cycle out of reset preserves each part of the strengthening.   *)
LEMMA CycleTypeOK ==
  ASSUME DirectInv, NEW pv \in BOOLEAN, NEW pr \in BOOLEAN, NEW d \in Data, DirectCycle(pv, d, pr)
  PROVE  TypeOK' /\ FlagsCoherent'
<1> USE FifoCoreAssumption
<1>1. /\ slots' = slots + B2N(PopBeat(pv, pr)) - B2N(PushBeat(pv))
      /\ items' = items + B2N(PushBeat(pv)) - B2N(PopBeat(pv, pr))
      /\ full' = IF PushBeat(pv) \/ PopBeat(pv, pr) THEN slots' = 0 ELSE full
      /\ empty' = IF PushBeat(pv) \/ PopBeat(pv, pr) THEN items' = 0 ELSE empty
  BY DEF DirectCycle, SlotsStep, ItemsStep
<1>2. slots' \in 0 .. Depth /\ items' \in 0 .. Depth /\ items' + slots' = Depth
  BY <1>1, BeatsAreLegal DEF B2N, DirectInv, TypeOK, CoreTypeOK, FlagsCoherent
<1>3. FlagsCoherent'
  BY <1>1, <1>2, BeatsAreLegal DEF B2N, DirectInv, TypeOK, CoreTypeOK, FlagsCoherent
<1>4. full' \in BOOLEAN /\ empty' \in BOOLEAN
  BY <1>1 DEF DirectInv, TypeOK, CoreTypeOK
<1>5. ram_wr_addr' \in Addr /\ ram_rd_addr' \in Addr /\ ram' \in [Addr -> Data \cup {NoData}]
  BY AddrInRange DEF DirectCycle, WriteStep, ReadStep, DirectInv, TypeOK, CoreTypeOK
<1>6. PopValid(pv) \in BOOLEAN /\ (PopValid(pv) => PopData(d) \in Data \cup {NoData})
  BY DEF DirectInv, TypeOK, CoreTypeOK, PopValid, PopData
<1>7. /\ push' \in Data \cup {NoData}
      /\ pop' \in [rst : BOOLEAN, valid : BOOLEAN, ready : BOOLEAN, data : Data \cup {NoData}]
  BY <1>6 DEF DirectCycle
<1> QED BY <1>2, <1>3, <1>4, <1>5, <1>7 DEF TypeOK, CoreTypeOK

LEMMA CyclePointersEnclose ==
  ASSUME DirectInv, NEW pv \in BOOLEAN, NEW pr \in BOOLEAN, NEW d \in Data, DirectCycle(pv, d, pr)
  PROVE  PointersEnclose'
<1> USE FifoCoreAssumption DEF DirectAssumption
<1>1. ram_wr_addr' = Slot(ram_rd_addr' + items')
  <2>1. /\ ram_wr_addr' = IF DirectWr(pv, pr) THEN AddrAfter(ram_wr_addr) ELSE ram_wr_addr
        /\ ram_rd_addr' = IF DirectRd(pv, pr) THEN AddrAfter(ram_rd_addr) ELSE ram_rd_addr
    BY DEF DirectCycle, WriteStep, ReadStep, DirectWr, DirectRd
  <2>2. /\ items' = items + B2N(DirectWr(pv, pr)) - B2N(DirectRd(pv, pr))
        /\ DirectWr(pv, pr) => items < Depth
        /\ DirectRd(pv, pr) => items > 0
    BY ItemsFollowRam
  <2>3. /\ ram_rd_addr \in Addr /\ items \in 0 .. Depth
        /\ ram_wr_addr = Slot(ram_rd_addr + items)
        /\ RamDepth >= Depth
    BY DEF DirectInv, TypeOK, CoreTypeOK, PointersEnclose
  <2> USE DEF Addr, AddrAfter, B2N, Slot
  <2>4. CASE DirectWr(pv, pr) /\ DirectRd(pv, pr)
    BY <2>1, <2>2, <2>3, <2>4
  <2>5. CASE DirectWr(pv, pr) /\ ~DirectRd(pv, pr)
    BY <2>1, <2>2, <2>3, <2>5
  <2>6. CASE ~DirectWr(pv, pr) /\ DirectRd(pv, pr)
    BY <2>1, <2>2, <2>3, <2>6
  <2>7. CASE ~DirectWr(pv, pr) /\ ~DirectRd(pv, pr)
    BY <2>1, <2>2, <2>3, <2>7
  <2> QED BY <2>4, <2>5, <2>6, <2>7
<1>2. ASSUME NEW i \in 0 .. items' - 1
      PROVE  RamEntry(i)' \in Data
  <2> DEFINE j == i + B2N(DirectRd(pv, pr))
  <2>1. /\ j \in 0 .. items
        /\ j < items => RamEntry(i)' = RamEntry(j)
        /\ j = items => RamEntry(i)' = d
    BY <1>2, EntriesMove
  <2>2. j < items => RamEntry(j) \in Data
    BY <2>1 DEF DirectInv, PointersEnclose, TypeOK, CoreTypeOK
  <2> QED BY <2>1, <2>2 DEF DirectInv, TypeOK, CoreTypeOK
<1> QED BY <1>1, <1>2 DEF PointersEnclose

LEMMA CycleShownIsOldest ==
  ASSUME DirectInv, NEW pv \in BOOLEAN, NEW pr \in BOOLEAN, NEW d \in Data, DirectCycle(pv, d, pr)
  PROVE  ShownIsOldest'
<1> USE FifoCoreAssumption DEF DirectAssumption
<1> SUFFICES ASSUME pop'.valid, ~pop'.ready
             PROVE  items' > 0 /\ RamEntry(0)' = pop'.data
  BY DEF ShownIsOldest
<1>1. PopValid(pv) /\ ~pr /\ pop'.data = PopData(d)
  BY DEF DirectCycle
<1>2. ~DirectRd(pv, pr) /\ (items = 0 => DirectWr(pv, pr))
  BY <1>1 DEF DirectRd, DirectWr, RamRdAddrUpdate, PopBeat, PopValid, RamWrValid, BypassReady, PushBeat,
              push_ready, DirectInv, FlagsCoherent, TypeOK, CoreTypeOK
<1>3. items' > 0 /\ 0 \in 0 .. items' - 1
  BY <1>2, ItemsFollowRam DEF B2N, DirectInv, TypeOK, CoreTypeOK
<1>4. /\ 0 < items => RamEntry(0)' = RamEntry(0)
      /\ 0 = items => RamEntry(0)' = d
  BY <1>2, <1>3, EntriesMove DEF B2N
<1>5. CASE items = 0
  BY <1>1, <1>3, <1>4, <1>5 DEF PopData, PopValid, DirectInv, FlagsCoherent
<1>6. CASE items > 0
  <2>1. RamEntry(0) = ram[ram_rd_addr]
    BY DEF RamEntry, Slot, DirectInv, TypeOK, CoreTypeOK, Addr
  <2> QED BY <2>1, <1>1, <1>3, <1>4, <1>6 DEF PopData, DirectInv, FlagsCoherent
<1> QED BY <1>5, <1>6 DEF DirectInv, TypeOK, CoreTypeOK

(* A cycle with rst asserted re-establishes the strengthening whatever the  *)
(* RAM still holds.                                                         *)
LEMMA ResetDirectInv ==
  ASSUME DirectInv, CoreReset
  PROVE  DirectInv'
<1> USE FifoCoreAssumption DEF DirectAssumption, CoreReset
<1>1. TypeOK'
  <2>1. CoreTypeOK'
    <3>1. ram' \in [Addr -> Data \cup {NoData}]
      BY DEF DirectInv, TypeOK, CoreTypeOK
    <3>2. full' \in BOOLEAN /\ empty' \in BOOLEAN
      OBVIOUS
    <3>3. 0 \in Addr /\ Depth \in 0 .. Depth /\ 0 \in 0 .. Depth
      BY DEF Addr
    <3> QED BY <3>1, <3>2, <3>3 DEF CoreTypeOK
  <2> QED BY <2>1, NoPopType DEF TypeOK
<1>2. FlagsCoherent'
  BY DEF FlagsCoherent
<1>3. PointersEnclose'
  <2>1. 0 .. items' - 1 = {}
    OBVIOUS
  <2> QED BY <2>1 DEF PointersEnclose, Slot
<1>4. ShownIsOldest'
  BY DEF ShownIsOldest, NoPop
<1> QED BY <1>1, <1>2, <1>3, <1>4 DEF DirectInv

LEMMA NextDirectInv == DirectInv /\ [DirectNext]_direct_vars => DirectInv'
<1> SUFFICES ASSUME DirectInv, [DirectNext]_direct_vars PROVE DirectInv'
  OBVIOUS
<1>1. CASE \E pv, pr \in BOOLEAN, d \in Data : DirectCycle(pv, d, pr)
  BY <1>1, CycleTypeOK, CyclePointersEnclose, CycleShownIsOldest DEF DirectInv
<1>2. CASE CoreReset
  BY <1>2, ResetDirectInv
<1>3. CASE UNCHANGED direct_vars
  BY <1>3 DEF direct_vars, DirectInv, TypeOK, CoreTypeOK, FlagsCoherent, PointersEnclose, ShownIsOldest, RamEntry, Slot
<1> QED BY <1>1, <1>2, <1>3 DEF DirectNext

(* The counters, flags and addresses of the push side and of the pop side,  *)
(* which share no register, always describe one and the same set of entries *)
(* in the RAM, and every one of these was written: br_fifo_ctrl_1r1w        *)
(* asserts items + slots = Depth (items_plus_slots_a).                      *)
THEOREM DirectInvariance == DirectAssumption => (DirectSpec => []DirectInv)
<1>1. DirectAssumption /\ CoreInit => DirectInv
  BY InitDirectInv
<1>2. DirectInv /\ [DirectNext]_direct_vars => DirectInv'
  BY NextDirectInv
<1> QED BY <1>1, <1>2, PTL DEF DirectSpec

(* The registers of both sides stay in their ranges.                         *)
THEOREM TypeCorrect == DirectAssumption => (DirectSpec => []TypeOK)
<1>1. DirectInv => TypeOK
  BY DEF DirectInv
<1> QED BY <1>1, DirectInvariance, PTL

(* Push side and pop side always count the same queue (items_plus_slots_a). *)
THEOREM FlagsAlwaysCoherent == DirectAssumption => (DirectSpec => []FlagsCoherent)
<1>1. DirectInv => FlagsCoherent
  BY DEF DirectInv
<1> QED BY <1>1, DirectInvariance, PTL

(* The two addresses always enclose the entries, and each was written.      *)
THEOREM PointersAlwaysEnclose == DirectAssumption => (DirectSpec => []PointersEnclose)
<1>1. DirectInv => PointersEnclose
  BY DEF DirectInv
<1> QED BY <1>1, DirectInvariance, PTL

(* No offer is withdrawn: an entry shown with pop_valid and not taken is    *)
(* shown again in the next cycle, unless that cycle is in reset.            *)
THEOREM PopStability == DirectAssumption => (DirectSpec => PopStable)
<1>1. ASSUME DirectInv, [DirectNext]_direct_vars, pop.valid, ~pop.ready, ~pop'.rst
      PROVE  pop'.valid /\ pop'.data = pop.data
  <2>1. items > 0 /\ RamEntry(0) = pop.data
    BY <1>1 DEF DirectInv, ShownIsOldest
  <2>2. ASSUME NEW pv \in BOOLEAN, NEW pr \in BOOLEAN, NEW d \in Data, DirectCycle(pv, d, pr)
        PROVE  pop'.valid /\ pop'.data = pop.data
    <3>1. ~empty /\ RamEntry(0) = ram[ram_rd_addr]
      BY <1>1, <2>1, FifoCoreAssumption
         DEF DirectInv, FlagsCoherent, TypeOK, CoreTypeOK, RamEntry, Slot, Addr
    <3> QED BY <2>1, <2>2, <3>1 DEF DirectCycle, PopValid, PopData
  <2>3. CASE CoreReset
    BY <1>1, <2>3 DEF CoreReset, NoPop
  <2>4. CASE UNCHANGED direct_vars
    BY <1>1, <2>4 DEF direct_vars
  <2> QED BY <1>1, <2>2, <2>3, <2>4 DEF DirectNext
<1>2. DirectInv /\ [DirectNext]_direct_vars =>
        [(pop.valid /\ ~pop.ready /\ ~pop'.rst) => pop'.valid /\ pop'.data = pop.data]_direct_vars
  BY <1>1
<1> QED BY <1>2, DirectInvariance, PTL DEF DirectSpec, PopStable

-----------------------------------------------------------------------------
(* Refinement: the controller and its RAM are one bounded queue.            *)

Oldest == RamContents(items)
DirectTaken == IF pop.valid /\ pop.ready THEN pop.data ELSE NoData

ContentsAreEntries ==
    /\ Oldest \in Seq(Data)
    /\ Len(Oldest) = items
    /\ \A i \in 1 .. items : Oldest[i] = RamEntry(i - 1)

(* The RAM contents, read as a sequence.                                    *)
LEMMA ContentsSeq == DirectInv => ContentsAreEntries
<1> SUFFICES ASSUME DirectInv PROVE ContentsAreEntries
  OBVIOUS
<1>1. items \in Nat
  BY DEF DirectInv, TypeOK, CoreTypeOK
<1>2. \A i \in 1 .. items : RamEntry(i - 1) \in Data
  BY <1>1 DEF DirectInv, PointersEnclose
<1>3. Oldest \in [1 .. items -> Data]
  BY <1>2 DEF Oldest, RamContents
<1> QED BY <1>1, <1>3 DEF Oldest, RamContents, ContentsAreEntries

LEMMA ContentsSeqNext == DirectInv' => ContentsAreEntries'
BY ContentsSeq, PTL

(* The RAM contents after a cycle, as the sequence operations of the queue. *)
LEMMA CycleContents ==
  ASSUME DirectInv, DirectInv', NEW pv \in BOOLEAN, NEW pr \in BOOLEAN, NEW d \in Data,
         DirectCycle(pv, d, pr)
  PROVE  /\ ~DirectWr(pv, pr) /\ ~DirectRd(pv, pr) => Oldest' = Oldest
         /\ DirectWr(pv, pr) /\ ~DirectRd(pv, pr) => Oldest' = Append(Oldest, d)
         /\ ~DirectWr(pv, pr) /\ DirectRd(pv, pr) => Oldest' = Tail(Oldest)
         /\ DirectWr(pv, pr) /\ DirectRd(pv, pr) => Oldest' = Tail(Append(Oldest, d))
<1> DEFINE j(i) == i - 1 + B2N(DirectRd(pv, pr))
<1>1. ContentsAreEntries /\ ContentsAreEntries'
  BY ContentsSeq, ContentsSeqNext
<1>2. items \in Nat /\ items' = items + B2N(DirectWr(pv, pr)) - B2N(DirectRd(pv, pr))
      /\ items' \in Nat /\ (DirectRd(pv, pr) => items > 0)
  BY ItemsFollowRam, FifoCoreAssumption DEF DirectInv, TypeOK, CoreTypeOK
<1>3. ASSUME NEW i \in 1 .. items'
      PROVE  /\ j(i) \in 0 .. items
             /\ j(i) < items => Oldest'[i] = Oldest[j(i) + 1]
             /\ j(i) = items => Oldest'[i] = d
  <2>1. i - 1 \in 0 .. items' - 1
    BY <1>2
  <2>2. /\ j(i) \in 0 .. items
        /\ j(i) < items => RamEntry(i - 1)' = RamEntry(j(i))
        /\ j(i) = items => RamEntry(i - 1)' = d
    BY <2>1, EntriesMove
  <2>3. Oldest'[i] = RamEntry(i - 1)'
    BY <1>1 DEF ContentsAreEntries
  <2>4. j(i) < items => Oldest[j(i) + 1] = RamEntry(j(i))
    BY <1>1, <1>2, <2>2 DEF ContentsAreEntries
  <2> QED BY <2>2, <2>3, <2>4
<1>4. /\ Oldest \in Seq(Data) /\ Len(Oldest) = items
      /\ Oldest' \in Seq(Data) /\ Len(Oldest') = items'
  BY <1>1 DEF ContentsAreEntries
<1>5. CASE ~DirectWr(pv, pr) /\ ~DirectRd(pv, pr)
  BY <1>2, <1>3, <1>4, <1>5 DEF B2N
<1>6. CASE DirectWr(pv, pr) /\ ~DirectRd(pv, pr)
  BY <1>2, <1>3, <1>4, <1>6 DEF B2N
<1>7. CASE ~DirectWr(pv, pr) /\ DirectRd(pv, pr)
  BY <1>2, <1>3, <1>4, <1>7 DEF B2N
<1>8. CASE DirectWr(pv, pr) /\ DirectRd(pv, pr)
  BY <1>2, <1>3, <1>4, <1>8 DEF B2N
<1> QED BY <1>5, <1>6, <1>7, <1>8

(* One clock cycle is a push, a pop, both, or nothing, of the queue.        *)
LEMMA DirectCycleRefines ==
  ASSUME DirectInv, DirectInv', NEW pv \in BOOLEAN, NEW pr \in BOOLEAN, NEW d \in Data,
         DirectCycle(pv, d, pr)
  PROVE  DirectQueue!Next
<1> USE FifoCoreAssumption
<1>1. /\ Oldest \in Seq(Data) /\ Len(Oldest) = items
      /\ items > 0 => Head(Oldest) = RamEntry(0)
  BY ContentsSeq DEF ContentsAreEntries, DirectInv, TypeOK, CoreTypeOK
<1>2. DirectTaken' = IF PopBeat(pv, pr) THEN PopData(d) ELSE NoData
  BY DEF DirectCycle, DirectTaken, PopBeat
<1>3. /\ items \in Nat /\ Depth \in Nat
      /\ empty <=> (items = 0)
      /\ PushBeat(pv) => items < Depth
      /\ items > 0 => RamEntry(0) = ram[ram_rd_addr]
  <2>1. PushBeat(pv) => slots > 0
    BY BeatsAreLegal
  <2>2. PushBeat(pv) => items < Depth
    BY <2>1 DEF DirectInv, TypeOK, CoreTypeOK, FlagsCoherent
  <2>3. items > 0 => RamEntry(0) = ram[ram_rd_addr]
    BY DEF DirectInv, TypeOK, CoreTypeOK, RamEntry, Slot, Addr
  <2> QED BY <2>2, <2>3 DEF DirectInv, TypeOK, CoreTypeOK, FlagsCoherent
<1>4. CASE ~PushBeat(pv) /\ ~PopBeat(pv, pr)
  <2>1. ~DirectWr(pv, pr) /\ ~DirectRd(pv, pr)
    BY <1>4 DEF DirectWr, DirectRd, RamWrValid, RamRdAddrUpdate
  <2>2. Oldest' = Oldest /\ DirectTaken' = NoData
    BY <2>1, <1>2, <1>4, CycleContents
  <2> QED BY <2>2, <1>4 DEF DirectQueue!Next, DirectQueue!Idle, Oldest, DirectTaken, DirectCycle
<1>5. CASE PushBeat(pv) /\ ~PopBeat(pv, pr)
  <2>1. DirectWr(pv, pr) /\ ~DirectRd(pv, pr)
    BY <1>5, <1>3 DEF DirectWr, DirectRd, RamWrValid, RamRdAddrUpdate, BypassReady, PopBeat, PopValid, PushBeat
  <2>2. Oldest' = Append(Oldest, d) /\ DirectTaken' = NoData
    BY <2>1, <1>2, <1>5, CycleContents
  <2> QED BY <2>2, <1>1, <1>3, <1>5 DEF DirectQueue!Next, DirectQueue!Push, Oldest, DirectTaken, DirectCycle
<1>6. CASE ~PushBeat(pv) /\ PopBeat(pv, pr)
  <2>1. items > 0 /\ ~DirectWr(pv, pr) /\ DirectRd(pv, pr)
    BY <1>6, <1>3, BeatsAreLegal DEF DirectWr, DirectRd, RamWrValid, RamRdAddrUpdate
  <2>2. Oldest' = Tail(Oldest) /\ DirectTaken' = Head(Oldest)
    BY <2>1, <1>1, <1>2, <1>3, <1>6, CycleContents DEF PopData
  <2>3. Oldest # <<>>
    BY <1>1, <2>1
  <2> QED BY <2>2, <2>3, <1>6 DEF DirectQueue!Next, DirectQueue!Pop, Oldest, DirectTaken, DirectCycle
<1>7. CASE PushBeat(pv) /\ PopBeat(pv, pr)
  <2>1. Oldest' = Tail(Append(Oldest, d)) /\ DirectTaken' = Head(Append(Oldest, d))
    <3>1. CASE items > 0
      <4>1. DirectWr(pv, pr) /\ DirectRd(pv, pr)
        BY <1>3, <1>7, <3>1 DEF DirectWr, DirectRd, RamWrValid, RamRdAddrUpdate, BypassReady
      <4>2. Oldest' = Tail(Append(Oldest, d))
        BY <4>1, CycleContents
      <4>3. DirectTaken' = Head(Oldest)
        BY <1>1, <1>2, <1>3, <1>7, <3>1 DEF PopData
      <4>4. Head(Append(Oldest, d)) = Head(Oldest)
        BY <1>1, <3>1
      <4> QED BY <4>2, <4>3, <4>4
    <3>2. CASE items = 0
      <4>1. EnableBypass /\ ~DirectWr(pv, pr) /\ ~DirectRd(pv, pr)
        BY <1>3, <1>7, <3>2
           DEF DirectWr, DirectRd, RamWrValid, RamRdAddrUpdate, BypassReady, PopBeat, PopValid
      <4>2. Oldest' = Oldest /\ DirectTaken' = d
        BY <4>1, <1>2, <1>3, <1>7, <3>2, CycleContents DEF PopData
      <4>3. Oldest = <<>>
        BY <1>1, <3>2
      <4> QED BY <4>2, <4>3
    <3> QED BY <3>1, <3>2, <1>3
  <2> QED BY <2>1, <1>1, <1>3, <1>7 DEF DirectQueue!Next, DirectQueue!PushPop, Oldest, DirectTaken, DirectCycle
<1> QED BY <1>4, <1>5, <1>6, <1>7

(* The controller with its RAM implements a bounded queue: nothing is lost, *)
(* duplicated or reordered, and never more than Depth entries are held,     *)
(* with the bypass as well as without.                                      *)
THEOREM DirectRefinement == DirectAssumption => (DirectSpec => ImplementsQueue)
<1>1. DirectAssumption /\ CoreInit => DirectQueue!Init
  <2> SUFFICES ASSUME DirectAssumption, CoreInit PROVE Oldest = <<>> /\ push = NoData /\ DirectTaken = NoData
    BY DEF DirectQueue!Init, Oldest, DirectTaken
  <2>1. ContentsAreEntries
    BY InitDirectInv, ContentsSeq
  <2> QED BY <2>1 DEF ContentsAreEntries, CoreInit, DirectTaken, NoPop
<1>2. ASSUME DirectInv, DirectInv', [DirectNext]_direct_vars
      PROVE  [DirectQueue!Next]_(DirectQueue!vars)
  <2>1. ASSUME NEW pv \in BOOLEAN, NEW pr \in BOOLEAN, NEW d \in Data, DirectCycle(pv, d, pr)
        PROVE  DirectQueue!Next
    BY <1>2, <2>1, DirectCycleRefines
  <2>2. CASE CoreReset
    <3>1. Oldest' = <<>> /\ push' = NoData /\ DirectTaken' = NoData
      BY <1>2, <2>2, ContentsSeqNext DEF ContentsAreEntries, CoreReset, DirectTaken, NoPop
    <3> QED BY <3>1 DEF DirectQueue!Next, DirectQueue!Reset, Oldest, DirectTaken
  <2>3. CASE UNCHANGED direct_vars
    BY <2>3 DEF direct_vars, DirectQueue!vars, RamContents, RamEntry, Slot
  <2> QED BY <1>2, <2>1, <2>2, <2>3 DEF DirectNext
<1>3. DirectInv /\ DirectInv' /\ [DirectNext]_direct_vars => [DirectQueue!Next]_(DirectQueue!vars)
  BY <1>2
<1> QED BY <1>1, <1>3, DirectInvariance, PTL DEF DirectSpec, ImplementsQueue, DirectQueue!Spec

-----------------------------------------------------------------------------
(***************************************************************************)
(* The FIFO behind a staging buffer.  Each layer of the controller (the     *)
(* cells, the reads in flight, the output register, the RAM) is shown to    *)
(* satisfy one equation between sequences: what left in a cycle, followed   *)
(* by what is held after it, is what was held before it, followed by what   *)
(* came in.                                                                 *)
(***************************************************************************)

Word == Data \cup {NoData}

(* A set of natural numbers that is not empty has a least one.               *)
LEMMA LeastNat ==
  ASSUME NEW S \in SUBSET Nat, S # {}
  PROVE  \E n \in S : \A m \in S : n <= m
<1>1. PICK n \in S : \A m \in S : <<m, n>> \notin OpToRel(<, Nat)
  BY NatLessThanWellFounded, WFMin, Zenon
<1>2. \A m \in S : ~(m < n)
  BY <1>1, Zenon DEF OpToRel
<1> QED BY <1>2

(* Induction over a set in place of a predicate.                             *)
LEMMA EveryNat ==
  ASSUME NEW S, 0 \in S, \A n \in Nat : n \in S => n + 1 \in S
  PROVE  Nat \subseteq S
<1> DEFINE T == Nat \ S
<1> SUFFICES ASSUME T # {} PROVE FALSE
  OBVIOUS
<1>1. PICK n \in T : \A m \in T : n <= m
  <2>1. T \in SUBSET Nat
    OBVIOUS
  <2> HIDE DEF T
  <2> QED BY <2>1, LeastNat
<1>2. n \in Nat /\ n # 0
  OBVIOUS
<1>3. n - 1 \in Nat /\ n - 1 \notin T
  BY <1>1, <1>2
<1> QED BY <1>2, <1>3

(* The constants as numbers.                                                 *)
LEMMA Constants ==
  /\ RamReadLatency \in Nat /\ BufferDepth = RamReadLatency + 1
  /\ SB!InternalDepth \in Nat
  /\ RegisterPopOutputs => SB!InternalDepth = RamReadLatency
  /\ ~RegisterPopOutputs => SB!InternalDepth = RamReadLatency + 1 /\ RamReadLatency > 0
  /\ Depth \in Nat /\ Depth > BufferDepth /\ RamDepth \in Nat \ {0}
  /\ EnableBypass => RamDepth >= Depth - BufferDepth
  /\ ~EnableBypass => RamDepth >= Depth
  /\ EnableBypass \in BOOLEAN /\ RegisterPopOutputs \in BOOLEAN
  /\ NoData \notin Data
BY FifoCoreAssumption, StagedAssumption DEF BufferDepth, SB!InternalDepth

-----------------------------------------------------------------------------
(* Sequences                                                                 *)

(* A word as a sequence of the entries it is.                                *)
LEMMA OneFacts ==
  ASSUME NEW x \in Word
  PROVE  /\ SB!One(x) \in Seq(Data)
         /\ x = NoData => SB!One(x) = <<>> /\ Len(SB!One(x)) = 0
         /\ x # NoData => SB!One(x) = <<x>> /\ Len(SB!One(x)) = 1
BY DEF SB!One, Word

(* Concatenation of three sequences, and of two.                             *)
LEMMA Assoc ==
  ASSUME NEW s \in Seq(Data), NEW t \in Seq(Data), NEW u \in Seq(Data)
  PROVE  (s \o t) \o u = s \o (t \o u)
BY ConcatAssociative

LEMMA Joined ==
  ASSUME NEW s \in Seq(Data), NEW t \in Seq(Data)
  PROVE  /\ s \o t \in Seq(Data) /\ Len(s \o t) = Len(s) + Len(t)
         /\ s \o <<>> = s /\ <<>> \o s = s /\ Len(s) \in Nat
OBVIOUS

LEMMA Pairs ==
  ASSUME NEW x \in Data, NEW y \in Data
  PROVE  /\ <<x>> \o <<>> = <<x>> /\ <<>> \o <<x>> = <<x>> /\ <<x>> \in Seq(Data)
         /\ (<<x>> \o <<y>>) \o <<>> = <<x>> \o <<y>>
OBVIOUS

(* A queue that is shifted: r says whether its oldest entry left, w whether  *)
(* x was added.                                                              *)
OneIf(r, y) == IF r THEN <<y>> ELSE <<>>

IsShifted(s, t, x, y, r, w) ==
    /\ Len(t) = Len(s) + B2N(w) - B2N(r)
    /\ r => y = IF Len(s) > 0 THEN s[1] ELSE x
    /\ r /\ Len(s) = 0 => w
    /\ \A i \in 1 .. Len(t) :
          /\ i + B2N(r) <= Len(s) => t[i] = s[i + B2N(r)]
          /\ i + B2N(r) > Len(s) => t[i] = x

LEMMA Shifted ==
  ASSUME NEW s \in Seq(Data), NEW t \in Seq(Data), NEW x \in Data, NEW y \in Data,
         NEW r \in BOOLEAN, NEW w \in BOOLEAN, IsShifted(s, t, x, y, r, w)
  PROVE  OneIf(r, y) \o t = s \o OneIf(w, x)
<1> USE DEF IsShifted, OneIf
<1> DEFINE a == IF r THEN <<y>> ELSE <<>>
           b == IF w THEN <<x>> ELSE <<>>
<1>1. a \in Seq(Data) /\ b \in Seq(Data) /\ Len(a) = B2N(r) /\ Len(b) = B2N(w)
  BY DEF B2N
<1>2. a \o t \in Seq(Data) /\ s \o b \in Seq(Data)
  BY <1>1
<1>3. Len(a \o t) = Len(s \o b)
  BY <1>1 DEF B2N
<1>4. ASSUME NEW i \in 1 .. Len(a \o t)
      PROVE  (a \o t)[i] = (s \o b)[i]
  <2>1. /\ (a \o t)[i] = IF i <= Len(a) THEN a[i] ELSE t[i - Len(a)]
        /\ (s \o b)[i] = IF i <= Len(s) THEN s[i] ELSE b[i - Len(s)]
    BY <1>1, <1>3
  <2>2. CASE r
    BY <1>1, <1>3, <2>1, <2>2 DEF B2N
  <2>3. CASE ~r
    BY <1>1, <1>3, <2>1, <2>3 DEF B2N
  <2> QED BY <2>2, <2>3
<1> HIDE DEF a, b
<1>5. a \o t = s \o b
  BY <1>2, <1>3, <1>4, SeqEqual
<1> QED BY <1>5 DEF a, b

-----------------------------------------------------------------------------
(* The recursion that concatenates sequences has a solution.                 *)
LEMMA ConcatenationExists ==
  ASSUME NEW L \in Nat, NEW e \in [1 .. L -> Seq(Data)]
  PROVE  \E f \in [0 .. L -> Seq(Data)] :
            \A n \in 0 .. L : f[n] = IF n = 0 THEN <<>> ELSE f[n - 1] \o e[n]
<1> DEFINE G(m, f) == \A n \in 0 .. m : f[n] = IF n = 0 THEN <<>> ELSE f[n - 1] \o e[n]
           S == {m \in Nat : m <= L => \E f \in [0 .. m -> Seq(Data)] : G(m, f)}
<1>1. 0 \in S
  <2> DEFINE g == [n \in 0 .. 0 |-> <<>>]
  <2>1. g \in [0 .. 0 -> Seq(Data)] /\ G(0, g)
    OBVIOUS
  <2> HIDE DEF G, g
  <2> QED BY <2>1
<1>2. ASSUME NEW m \in Nat, m \in S
      PROVE  m + 1 \in S
  <2>1. CASE m + 1 <= L
    <3>1. PICK f \in [0 .. m -> Seq(Data)] : G(m, f)
      <4> HIDE DEF G
      <4> QED BY <1>2, <2>1
    <3> DEFINE g == [n \in 0 .. m + 1 |-> IF n = m + 1 THEN f[m] \o e[m + 1] ELSE f[n]]
    <3>2. f[m] \o e[m + 1] \in Seq(Data)
      <4>1. f[m] \in Seq(Data) /\ e[m + 1] \in Seq(Data)
        BY <2>1
      <4> QED BY <4>1
    <3>3. g \in [0 .. m + 1 -> Seq(Data)]
      BY <3>2
    <3>4. ASSUME NEW n \in 0 .. m + 1
          PROVE  g[n] = IF n = 0 THEN <<>> ELSE g[n - 1] \o e[n]
      <4>1. CASE n = m + 1
        <5>1. n # 0 /\ n - 1 = m /\ m \in 0 .. m + 1 /\ m # m + 1
          BY <4>1
        <5> QED BY <4>1, <5>1
      <4>2. CASE n # m + 1
        <5>1. n \in 0 .. m /\ (n # 0 => n - 1 \in 0 .. m /\ n - 1 # m + 1)
          BY <4>2
        <5>2. g[n] = f[n] /\ (n # 0 => g[n - 1] = f[n - 1])
          BY <5>1
        <5>3. f[n] = IF n = 0 THEN <<>> ELSE f[n - 1] \o e[n]
          BY <3>1, <5>1
        <5> HIDE DEF g
        <5> QED BY <5>2, <5>3
      <4> QED BY <4>1, <4>2
    <3>5. G(m + 1, g)
      <4> HIDE DEF g
      <4> QED BY <3>4
    <3> HIDE DEF G, g
    <3> QED BY <3>3, <3>5
  <2>2. CASE ~(m + 1 <= L)
    BY <2>2
  <2> QED BY <2>1, <2>2
<1>3. Nat \subseteq S
  <2> HIDE DEF S
  <2> QED BY <1>1, <1>2, EveryNat
<1>4. \E f \in [0 .. L -> Seq(Data)] : G(L, f)
  <2> HIDE DEF G
  <2> QED BY <1>3
<1> QED BY <1>4

(* The reads in the stages of the RAM, as a sequence, satisfy the recursion  *)
(* they are defined by.                                                      *)
StagesAre(f, reads) ==
    /\ f[0] = <<>>
    /\ \A n \in 1 .. RamReadLatency :
          f[n] = f[n - 1] \o SB!One(reads[RamReadLatency + 1 - n])
    /\ \A n \in 0 .. RamReadLatency : f[n] \in Seq(Data)

LEMMA StagesExist ==
  ASSUME NEW reads \in [SB!Stage -> Word]
  PROVE  \E f : StagesAre(f, reads) /\ SB!InStages(reads) = f[RamReadLatency]
<1> DEFINE L == RamReadLatency
           e == [n \in 1 .. L |-> SB!One(reads[L + 1 - n])]
           F(f) == [n \in 0 .. L |-> IF n = 0 THEN <<>> ELSE f[n - 1] \o SB!One(reads[L + 1 - n])]
<1>1. L \in Nat
  BY Constants
<1>2. e \in [1 .. L -> Seq(Data)]
  <2> SUFFICES ASSUME NEW n \in 1 .. L PROVE SB!One(reads[L + 1 - n]) \in Seq(Data)
    OBVIOUS
  <2>1. L + 1 - n \in SB!Stage
    BY <1>1 DEF SB!Stage
  <2>2. reads[L + 1 - n] \in Word
    BY <2>1
  <2> QED BY <2>2, OneFacts
<1>3. PICK f \in [0 .. L -> Seq(Data)] :
         \A n \in 0 .. L : f[n] = IF n = 0 THEN <<>> ELSE f[n - 1] \o e[n]
  <2> HIDE DEF L, e
  <2> QED BY <1>1, <1>2, ConcatenationExists
<1>4. \A n \in 1 .. L : e[n] = SB!One(reads[L + 1 - n])
  BY Zenon
<1>5. \E g : g = F(g)
  <2>1. f = [n \in 0 .. L |-> f[n]]
    OBVIOUS
  <2>2. \A n \in 0 .. L : f[n] = IF n = 0 THEN <<>> ELSE f[n - 1] \o SB!One(reads[L + 1 - n])
    <3> SUFFICES ASSUME NEW n \in 0 .. L
                 PROVE  f[n] = IF n = 0 THEN <<>> ELSE f[n - 1] \o SB!One(reads[L + 1 - n])
      OBVIOUS
    <3>1. f[n] = IF n = 0 THEN <<>> ELSE f[n - 1] \o e[n]
      BY <1>3
    <3>2. n # 0 => e[n] = SB!One(reads[L + 1 - n])
      BY <1>1
    <3> HIDE DEF e
    <3> QED BY <3>1, <3>2
  <2>3. f = F(f)
    BY <2>1, <2>2, Zenon
  <2> HIDE DEF F
  <2> QED BY <2>3
<1> DEFINE h == CHOOSE g : g = F(g)
<1>6. h = F(h)
  BY <1>5, Zenon
<1>7. SB!InStages(reads) = h[L]
  BY Zenon DEF SB!InStages
<1> HIDE DEF h
<1>8. \A n \in 0 .. L : h[n] = IF n = 0 THEN <<>> ELSE h[n - 1] \o SB!One(reads[L + 1 - n])
  BY <1>6
<1>9. h[0] = <<>> /\ f[0] = <<>>
  <2>1. 0 \in 0 .. L
    BY <1>1
  <2> QED BY <1>3, <1>8, <2>1, Zenon
<1>10. ASSUME NEW n \in 1 .. L
       PROVE  /\ h[n] = h[n - 1] \o SB!One(reads[L + 1 - n])
              /\ f[n] = f[n - 1] \o SB!One(reads[L + 1 - n])
  <2>1. n \in 0 .. L /\ n # 0
    BY <1>1
  <2>2. h[n] = h[n - 1] \o SB!One(reads[L + 1 - n]) /\ f[n] = f[n - 1] \o e[n]
    BY <1>3, <1>8, <2>1, Zenon
  <2>3. e[n] = SB!One(reads[L + 1 - n])
    BY <1>4
  <2> HIDE DEF e
  <2> QED BY <2>2, <2>3
<1>11. \A n \in 0 .. L : h[n] = f[n]
  <2> DEFINE S == {n \in Nat : n <= L => h[n] = f[n]}
  <2> HIDE DEF e
  <2>1. 0 \in S
    BY <1>9
  <2>2. ASSUME NEW n \in Nat, n \in S
        PROVE  n + 1 \in S
    <3>1. CASE n + 1 <= L
      <4>1. n + 1 \in 1 .. L /\ n <= L /\ (n + 1) - 1 = n
        BY <1>1, <3>1
      <4>2. h[n] = f[n]
        BY <2>2, <4>1
      <4> DEFINE m == n + 1
      <4>3. /\ h[m] = h[m - 1] \o SB!One(reads[L + 1 - m])
            /\ f[m] = f[m - 1] \o SB!One(reads[L + 1 - m])
        <5>1. m \in 1 .. L
          BY <4>1
        <5> HIDE DEF m
        <5> QED BY <1>10, <5>1
      <4>4. h[m] = f[m]
        BY <4>1, <4>2, <4>3
      <4> QED BY <4>4
    <3>2. CASE ~(n + 1 <= L)
      BY <3>2
    <3> QED BY <3>1, <3>2
  <2>3. Nat \subseteq S
    <3> HIDE DEF S
    <3> QED BY <2>1, <2>2, EveryNat
  <2> QED BY <1>1, <2>3
<1>12. \A n \in 0 .. L : h[n] \in Seq(Data)
  BY <1>3, <1>11
<1> QED BY <1>7, <1>9, <1>10, <1>12 DEF StagesAre

(* The stages are a queue: the oldest read leaves, a new one enters.         *)
LEMMA StagesShift ==
  ASSUME RamReadLatency > 0, NEW r \in [SB!Stage -> Word], NEW s \in [SB!Stage -> Word],
         \A k \in 2 .. RamReadLatency : s[k] = r[k - 1]
  PROVE  SB!One(r[RamReadLatency]) \o SB!InStages(s) = SB!InStages(r) \o SB!One(s[1])
<1> DEFINE L == RamReadLatency
           out == SB!One(r[L])
           e(n) == SB!One(r[L + 1 - n])
<1>1. PICK f : StagesAre(f, r) /\ SB!InStages(r) = f[L]
  BY StagesExist
<1>2. PICK g : StagesAre(g, s) /\ SB!InStages(s) = g[L]
  BY StagesExist
<1>3. L \in Nat /\ L > 0
  BY Constants
<1>4. out \in Seq(Data) /\ \A n \in 1 .. L : e(n) \in Seq(Data)
  <2>1. L \in SB!Stage /\ \A n \in 1 .. L : L + 1 - n \in SB!Stage
    BY <1>3 DEF SB!Stage
  <2> QED BY <2>1, OneFacts
<1>5. f[0] = <<>> /\ g[0] = <<>> /\ \A n \in 0 .. L : g[n] \in Seq(Data)
  BY <1>1, <1>2 DEF StagesAre
<1>6. \A n \in 1 .. L : f[n] = f[n - 1] \o e(n)
  BY <1>1 DEF StagesAre
<1>7. \A n \in 1 .. L - 1 : g[n] = g[n - 1] \o e(n + 1)
  <2> SUFFICES ASSUME NEW n \in 1 .. L - 1 PROVE g[n] = g[n - 1] \o e(n + 1)
    OBVIOUS
  <2>1. /\ n \in 1 .. L /\ L + 1 - n \in 2 .. L
        /\ (L + 1 - n) - 1 = L + 1 - (n + 1)
    BY <1>3
  <2>2. g[n] = g[n - 1] \o SB!One(s[L + 1 - n])
    BY <1>2, <2>1 DEF StagesAre
  <2>3. s[L + 1 - n] = r[L + 1 - (n + 1)]
    BY <2>1
  <2> QED BY <2>2, <2>3
<1>8. f[1] = f[0] \o out
  <2>1. 1 \in 1 .. L /\ 1 - 1 = 0 /\ L + 1 - 1 = L
    BY <1>3
  <2> QED BY <1>6, <2>1
<1>9. g[L] = g[L - 1] \o SB!One(s[1]) /\ SB!One(s[1]) \in Seq(Data)
  <2>1. L \in 1 .. L /\ L + 1 - L = 1 /\ 1 \in SB!Stage
    BY <1>3 DEF SB!Stage
  <2>2. g[L] = g[L - 1] \o SB!One(s[L + 1 - L])
    BY <1>2, <2>1 DEF StagesAre
  <2> QED BY <2>1, <2>2, OneFacts
<1> HIDE DEF out, e
<1> DEFINE S == {n \in Nat : n < L => out \o g[n] = f[n + 1]}
<1>10. 0 \in S
  BY <1>4, <1>5, <1>8
<1>11. ASSUME NEW n \in Nat, n \in S
       PROVE  n + 1 \in S
  <2>1. CASE n + 1 < L
    <3>1. /\ n + 1 \in 1 .. L - 1 /\ n + 2 \in 1 .. L /\ n \in 0 .. L /\ n < L
          /\ (n + 1) - 1 = n /\ (n + 2) - 1 = n + 1 /\ (n + 1) + 1 = n + 2
      BY <1>3, <2>1
    <3>2. g[n + 1] = g[n] \o e(n + 2)
      BY <1>7, <3>1
    <3>3. f[n + 2] = f[n + 1] \o e(n + 2)
      BY <1>6, <3>1
    <3>4. out \o (g[n] \o e(n + 2)) = (out \o g[n]) \o e(n + 2)
      <4>1. g[n] \in Seq(Data) /\ e(n + 2) \in Seq(Data)
        BY <1>4, <1>5, <3>1
      <4>2. PICK x \in Seq(Data) : x = e(n + 2)
        BY <4>1
      <4> QED BY <1>4, <4>1, <4>2, Assoc
    <3>5. out \o g[n] = f[n + 1]
      BY <1>11, <3>1
    <3>6. out \o g[n + 1] = f[n + 2]
      BY <3>2, <3>3, <3>4, <3>5
    <3> QED BY <3>1, <3>6
  <2>2. CASE ~(n + 1 < L)
    BY <2>2
  <2> QED BY <2>1, <2>2
<1>12. Nat \subseteq S
  <2> HIDE DEF S
  <2> QED BY <1>10, <1>11, EveryNat
<1>13. out \o g[L - 1] = f[L]
  <2>1. L - 1 \in Nat /\ L - 1 < L /\ (L - 1) + 1 = L
    BY <1>3
  <2> QED BY <1>12, <2>1
<1>14. out \o (g[L - 1] \o SB!One(s[1])) = (out \o g[L - 1]) \o SB!One(s[1])
  <2>1. g[L - 1] \in Seq(Data)
    BY <1>3, <1>5
  <2> QED BY <1>4, <1>9, <2>1, Assoc
<1>15. out \o SB!InStages(s) = SB!InStages(r) \o SB!One(s[1])
  BY <1>1, <1>2, <1>9, <1>13, <1>14
<1> QED BY <1>15 DEF out

(* What the stages hold is a sequence of entries, and not empty when a read  *)
(* returns.                                                                  *)
LEMMA StagesFacts ==
  ASSUME NEW r \in [SB!Stage -> Word]
  PROVE  /\ SB!InStages(r) \in Seq(Data)
         /\ RamReadLatency > 0 /\ r[RamReadLatency] # NoData => Len(SB!InStages(r)) > 0
         /\ RamReadLatency = 0 => SB!InStages(r) = <<>>
         /\ RamReadLatency = 1 => SB!InStages(r) = SB!One(r[1])
<1> DEFINE L == RamReadLatency
<1>1. L \in Nat
  BY Constants
<1>2. PICK f : StagesAre(f, r) /\ SB!InStages(r) = f[L]
  BY StagesExist
<1>3. SB!InStages(r) \in Seq(Data)
  BY <1>1, <1>2 DEF StagesAre
<1>4. L = 0 => SB!InStages(r) = <<>>
  BY <1>2 DEF StagesAre
<1>5. ASSUME L = 1 PROVE SB!InStages(r) = SB!One(r[1])
  <2>1. f[1] = f[0] \o SB!One(r[1]) /\ f[0] = <<>>
    <3>1. 1 \in 1 .. L /\ L + 1 - 1 = 1 /\ 1 - 1 = 0
      BY <1>5
    <3> QED BY <1>2, <3>1 DEF StagesAre
  <2>2. r[1] \in Word
    BY <1>5 DEF SB!Stage
  <2>3. SB!One(r[1]) \in Seq(Data)
    BY <2>2, OneFacts
  <2> QED BY <1>2, <1>5, <2>1, <2>3
<1>6. ASSUME L > 0, r[L] # NoData PROVE Len(SB!InStages(r)) > 0
  <2> DEFINE s == [k \in SB!Stage |-> IF k = 1 THEN NoData ELSE r[k - 1]]
  <2>1. s \in [SB!Stage -> Word]
    BY <1>1 DEF SB!Stage, Word
  <2>2. s[1] = NoData /\ \A k \in 2 .. L : s[k] = r[k - 1]
    BY <1>1, <1>6 DEF SB!Stage
  <2> HIDE DEF s
  <2>3. SB!One(r[L]) \o SB!InStages(s) = SB!InStages(r) \o SB!One(s[1])
    BY <1>6, <2>1, <2>2, StagesShift
  <2>4. SB!InStages(s) \in Seq(Data)
    <3>1. PICK g : StagesAre(g, s) /\ SB!InStages(s) = g[L]
      BY <2>1, StagesExist
    <3> QED BY <1>1, <3>1 DEF StagesAre
  <2>5. SB!One(s[1]) = <<>>
    BY <2>2 DEF SB!One
  <2>6. SB!One(r[L]) \in Seq(Data) /\ Len(SB!One(r[L])) = 1
    <3>1. r[L] \in Word
      BY <1>1, <1>6 DEF SB!Stage
    <3> QED BY <1>6, <3>1, OneFacts
  <2>7. Len(SB!One(r[L]) \o SB!InStages(s)) = 1 + Len(SB!InStages(s))
    BY <2>4, <2>6, Joined
  <2>8. SB!InStages(r) \o SB!One(s[1]) = SB!InStages(r)
    BY <1>3, <2>5
  <2>9. Len(SB!InStages(s)) \in Nat
    BY <2>4
  <2> QED BY <2>3, <2>7, <2>8, <2>9
<1> QED BY <1>3, <1>4, <1>5, <1>6

(* Stages without a read hold nothing.                                       *)
LEMMA NoReads ==
  ASSUME NEW r \in [SB!Stage -> Word], \A k \in SB!Stage : r[k] = NoData
  PROVE  SB!InStages(r) = <<>>
<1> DEFINE L == RamReadLatency
<1>1. L \in Nat
  BY Constants
<1>2. PICK f : StagesAre(f, r) /\ SB!InStages(r) = f[L]
  BY StagesExist
<1> DEFINE S == {n \in Nat : n <= L => f[n] = <<>>}
<1>3. 0 \in S
  BY <1>2 DEF StagesAre
<1>4. ASSUME NEW n \in Nat, n \in S
      PROVE  n + 1 \in S
  <2>1. CASE n + 1 <= L
    <3>1. n + 1 \in 1 .. L /\ n <= L /\ (n + 1) - 1 = n /\ L + 1 - (n + 1) \in SB!Stage
      BY <1>1, <2>1 DEF SB!Stage
    <3>2. f[n + 1] = f[n] \o SB!One(r[L + 1 - (n + 1)])
      BY <1>2, <3>1 DEF StagesAre
    <3>3. SB!One(r[L + 1 - (n + 1)]) = <<>>
      BY <3>1 DEF SB!One
    <3>4. f[n] = <<>>
      BY <1>4, <3>1
    <3>5. f[n + 1] = <<>>
      BY <3>2, <3>3, <3>4
    <3> QED BY <3>5
  <2>2. CASE ~(n + 1 <= L)
    BY <2>2
  <2> QED BY <2>1, <2>2
<1>5. Nat \subseteq S
  <2> HIDE DEF S
  <2> QED BY <1>3, <1>4, EveryNat
<1> QED BY <1>1, <1>2, <1>5

-----------------------------------------------------------------------------
(* The staging buffer                                                        *)

(* Place of a cell, counted from the head.                                   *)
Pos(c) == IF c >= sb.rd_ptr THEN c - sb.rd_ptr
                            ELSE c - sb.rd_ptr + SB!InternalDepth

BufferType ==
    /\ sb.reads \in [SB!Stage -> Word]
    /\ sb.reg \in Word /\ (~RegisterPopOutputs => sb.reg = NoData)
    /\ sb.buf \in Word /\ sb.buf_bypass \in BOOLEAN
    /\ sb.mem \in [SB!Cell -> Word] /\ sb.maybe_full \in BOOLEAN
    /\ sb.wr_cell \in [SB!Stage -> Nat]
    /\ SB!InternalDepth > 1 => sb.rd_ptr \in SB!Cell /\ sb.wr_ptr \in SB!Cell

(* Without the bypass, a cell is allocated when its read returns.            *)
CellsAreFull == \A c \in SB!Cell : Pos(c) < SB!CellsUsed(sb) => sb.mem[c] # NoData

(* With the bypass, a cell is allocated when its read is issued: the reads   *)
(* that are on their way fill distinct cells in the order of the cells.  The *)
(* n-th newest cell was allocated n cycles ago or earlier.                   *)
ReadsFillCells ==
    /\ \A k \in SB!Stage : sb.reads[k] # NoData =>
          /\ sb.wr_cell[k] \in SB!Cell
          /\ Pos(sb.wr_cell[k]) < SB!CellsUsed(sb)
          /\ Pos(sb.wr_cell[k]) + k >= SB!CellsUsed(sb)
          /\ sb.mem[sb.wr_cell[k]] = NoData
    /\ \A j, k \in SB!Stage : j < k /\ sb.reads[j] # NoData /\ sb.reads[k] # NoData
          => Pos(sb.wr_cell[k]) < Pos(sb.wr_cell[j])

CellsFill ==
    /\ ReadsFillCells
    /\ \A c \in SB!Cell :
          IF Pos(c) < SB!CellsUsed(sb)
          THEN sb.mem[c] # NoData \/ SB!Arriving(sb, c) # {}
          ELSE sb.mem[c] = NoData

InflightInv == SB!InternalDepth = 1 =>
                  sb.inflight = IF sb.reads[1] = NoData THEN 0 ELSE 1

RingInv == SB!InternalDepth > 1 => IF EnableBypass THEN CellsFill ELSE CellsAreFull

BufferInv ==
    /\ BufferType
    /\ SB!Staged(sb) \in Seq(Data)
    /\ sb.staged \in Nat /\ sb.staged = Len(SB!Staged(sb)) /\ sb.staged <= BufferDepth
    /\ InflightInv
    /\ RingInv

(* The inputs of a cycle.                                                    *)
InputType(in) ==
    /\ in.total_items \in Nat /\ in.bypass_valid \in BOOLEAN /\ in.bypass_data \in Data
    /\ in.rd_ready \in BOOLEAN /\ in.rd_data \in Word /\ in.pop_ready \in BOOLEAN
    /\ SB!RdAddrBeat(sb, in) => in.rd_data \in Data

(* What goes into the buffer in a cycle, what leaves its cells, and what the *)
(* consumer takes.                                                           *)
Given(in) == IF SB!RdAddrBeat(sb, in) THEN <<in.rd_data>>
             ELSE IF SB!BypassBeat(sb, in) THEN <<in.bypass_data>> ELSE <<>>

InternalBeat(in) == SB!InternalPopValid(sb, in) /\ SB!InternalPopReady(sb, in)
Moved(in) == IF InternalBeat(in) THEN <<SB!InternalPopData(sb, in)>> ELSE <<>>
Taken(in) == IF SB!PopBeat(sb, in) THEN <<SB!PopData(sb, in)>> ELSE <<>>

(* The registers after a cycle.                                              *)
LEMMA NextFields ==
  ASSUME NEW in, sb' = SB!StagingNext(sb, in)
  PROVE  /\ sb'.staged = SB!StagedNext(sb, in) /\ sb'.reads = SB!ReadsNext(sb, in)
         /\ sb'.reg = SB!RegNext(sb, in)
         /\ sb'.buf = SB!BufferDataNext(sb, in) /\ sb'.buf_bypass = SB!BufferBypassNext(sb, in)
         /\ sb'.inflight = SB!InflightNext(sb, in) /\ sb'.mem = SB!MemNext(sb, in)
         /\ sb'.rd_ptr = IF SB!AdvanceRd(sb, in) THEN SB!NextCell(sb.rd_ptr) ELSE sb.rd_ptr
         /\ sb'.wr_ptr = IF SB!AdvanceWr(sb, in) THEN SB!NextCell(sb.wr_ptr) ELSE sb.wr_ptr
         /\ sb'.maybe_full = IF SB!AdvanceWr(sb, in) = SB!AdvanceRd(sb, in) THEN sb.maybe_full
                             ELSE SB!AdvanceWr(sb, in)
         /\ sb'.wr_cell = SB!WrCellNext(sb, in)
BY DEF SB!StagingNext

LEMMA GivenFacts ==
  ASSUME NEW in, InputType(in)
  PROVE  /\ SB!RdAddrBeat(sb, in) \in BOOLEAN /\ SB!BypassBeat(sb, in) \in BOOLEAN
         /\ ~(SB!RdAddrBeat(sb, in) /\ SB!BypassBeat(sb, in))
         /\ Given(in) \in Seq(Data)
         /\ Len(Given(in)) = B2N(SB!RdAddrBeat(sb, in) \/ SB!BypassBeat(sb, in))
         /\ SB!RdAddrBeat(sb, in) \/ SB!BypassBeat(sb, in) => SB!SpaceAvailable(sb, in)
<1>1. /\ SB!RdAddrBeat(sb, in) \in BOOLEAN /\ SB!BypassBeat(sb, in) \in BOOLEAN
      /\ ~(SB!RdAddrBeat(sb, in) /\ SB!BypassBeat(sb, in))
      /\ SB!RdAddrBeat(sb, in) \/ SB!BypassBeat(sb, in) => SB!SpaceAvailable(sb, in)
  BY DEF InputType, SB!RdAddrBeat, SB!BypassBeat, SB!RdAddrValid, SB!BypassReady
<1>2. CASE SB!RdAddrBeat(sb, in)
  BY <1>1, <1>2 DEF Given, InputType, B2N
<1>3. CASE ~SB!RdAddrBeat(sb, in) /\ SB!BypassBeat(sb, in)
  BY <1>1, <1>3 DEF Given, InputType, B2N
<1>4. CASE ~SB!RdAddrBeat(sb, in) /\ ~SB!BypassBeat(sb, in)
  BY <1>1, <1>4 DEF Given, B2N
<1> QED BY <1>1, <1>2, <1>3, <1>4

(* The stages take a read a step further.                                    *)
LEMMA ReadsMove ==
  ASSUME NEW in, InputType(in), BufferType, sb' = SB!StagingNext(sb, in)
  PROVE  /\ sb'.reads \in [SB!Stage -> Word]
         /\ \A k \in SB!Stage : k > 1 => sb'.reads[k] = sb.reads[k - 1]
         /\ RamReadLatency > 0 =>
               sb'.reads[1] = IF SB!RdAddrBeat(sb, in) THEN in.rd_data ELSE NoData
<1>1. sb'.reads = SB!ReadsNext(sb, in)
  BY NextFields
<1>2. \A k \in SB!Stage : k > 1 => k - 1 \in SB!Stage
  BY Constants DEF SB!Stage
<1>3. SB!ReadsNext(sb, in) \in [SB!Stage -> Word]
  BY <1>2 DEF SB!ReadsNext, InputType, BufferType, Word
<1>4. RamReadLatency > 0 => 1 \in SB!Stage
  BY Constants DEF SB!Stage
<1> QED BY <1>1, <1>2, <1>3, <1>4 DEF SB!ReadsNext

(* A read leaves the stages when it returns, and enters them when it is      *)
(* issued.                                                                   *)
LEMMA InFlightMoves ==
  ASSUME NEW in, InputType(in), BufferType, sb' = SB!StagingNext(sb, in), RamReadLatency > 0
  PROVE  /\ SB!InFlight(sb) \in Seq(Data) /\ SB!InFlight(sb)' \in Seq(Data)
         /\ SB!One(sb.reads[RamReadLatency]) \o SB!InFlight(sb)' =
                SB!InFlight(sb) \o (IF SB!RdAddrBeat(sb, in) THEN <<in.rd_data>> ELSE <<>>)
<1> DEFINE L == RamReadLatency
           r == sb.reads
           s == sb'.reads
<1>1. L \in SB!Stage /\ 1 \in SB!Stage
  BY Constants DEF SB!Stage
<1>2. r \in [SB!Stage -> Word] /\ s \in [SB!Stage -> Word]
  BY ReadsMove DEF BufferType
<1>3. \A k \in 2 .. L : s[k] = r[k - 1]
  BY ReadsMove, Constants DEF SB!Stage
<1>4. SB!One(s[1]) = IF SB!RdAddrBeat(sb, in) THEN <<in.rd_data>> ELSE <<>>
  <2>1. s[1] = IF SB!RdAddrBeat(sb, in) THEN in.rd_data ELSE NoData
    BY ReadsMove
  <2>2. SB!RdAddrBeat(sb, in) => in.rd_data # NoData
    BY Constants DEF InputType
  <2> QED BY <2>1, <2>2 DEF SB!One
<1>5. SB!InFlight(sb) = SB!InStages(r) /\ SB!InFlight(sb)' = SB!InStages(s)
  BY DEF SB!InFlight
<1>6. SB!InStages(r) \in Seq(Data) /\ SB!InStages(s) \in Seq(Data)
  <2> HIDE DEF r, s
  <2> QED BY <1>2, StagesFacts
<1>7. SB!One(r[L]) \o SB!InStages(s) = SB!InStages(r) \o SB!One(s[1])
  <2> HIDE DEF r, s
  <2> QED BY <1>2, <1>3, StagesShift
<1> QED BY <1>4, <1>5, <1>6, <1>7

(* No buffer behind a RAM that answers at once: an entry goes straight to    *)
(* the output register, which can take it whenever there is space for it     *)
(* (no_push_overflow_a).                                                     *)
LEMMA NoBufferMoves ==
  ASSUME NEW in, InputType(in), BufferInv, sb' = SB!StagingNext(sb, in), SB!InternalDepth = 0
  PROVE  /\ SB!Held(sb) = <<>> /\ SB!Held(sb)' = <<>>
         /\ Moved(in) = Given(in)
<1>1. RamReadLatency = 0 /\ RegisterPopOutputs
  BY Constants
<1>2. SB!Held(sb) = <<>> /\ SB!Held(sb)' = <<>>
  <2>1. sb.reads \in [SB!Stage -> Word] /\ sb'.reads \in [SB!Stage -> Word]
    BY ReadsMove DEF BufferInv, BufferType
  <2>2. SB!InStages(sb.reads) = <<>> /\ SB!InStages(sb'.reads) = <<>>
    BY <1>1, <2>1, StagesFacts
  <2> QED BY <2>2 DEF SB!Held, SB!InFlight
<1>3. SB!Staged(sb) = SB!One(sb.reg)
  <2>1. SB!One(sb.reg) \in Seq(Data)
    BY OneFacts DEF BufferInv, BufferType
  <2> QED BY <1>2, <2>1 DEF SB!Staged
<1>4. SB!SpaceAvailable(sb, in) => SB!InternalPopReady(sb, in)
  <2>1. sb.reg # NoData => Len(SB!Staged(sb)) = 1
    BY <1>3, OneFacts DEF BufferInv, BufferType
  <2> QED BY <1>1, <2>1, Constants DEF SB!SpaceAvailable, SB!InternalPopReady, BufferInv
<1>5. /\ SB!InternalPopValid(sb, in) = (SB!RdAddrBeat(sb, in) \/ SB!BypassBeat(sb, in))
      /\ SB!InternalPopData(sb, in) = IF SB!RdAddrBeat(sb, in) THEN in.rd_data ELSE in.bypass_data
  BY <1>1 DEF SB!InternalPopValid, SB!InternalPopData, SB!PushValid, SB!PushData, SB!RdDataValid, SB!RdData
<1>6. CASE SB!RdAddrBeat(sb, in)
  BY <1>2, <1>4, <1>5, <1>6, GivenFacts DEF Moved, Given, InternalBeat
<1>7. CASE ~SB!RdAddrBeat(sb, in) /\ SB!BypassBeat(sb, in)
  BY <1>2, <1>4, <1>5, <1>7, GivenFacts DEF Moved, Given, InternalBeat
<1>8. CASE ~SB!RdAddrBeat(sb, in) /\ ~SB!BypassBeat(sb, in)
  BY <1>2, <1>4, <1>5, <1>8, GivenFacts DEF Moved, Given, InternalBeat
<1> QED BY <1>2, <1>6, <1>7, <1>8

(* The buffer of one entry: which of the entry in the buffer and the read in *)
(* flight is older is told by buffer_bypass, and no entry is ever overwritten*)
(* (no_single_push_overflow_a, no_double_push_overflow_a).                   *)
LEMMA SingleEntryMoves ==
  ASSUME NEW in, InputType(in), BufferInv, sb' = SB!StagingNext(sb, in), SB!InternalDepth = 1
  PROVE  /\ SB!Held(sb) \in Seq(Data) /\ SB!Held(sb)' \in Seq(Data) /\ Moved(in) \in Seq(Data)
         /\ Moved(in) \o SB!Held(sb)' = SB!Held(sb) \o Given(in)
         /\ sb'.buf \in Word /\ sb'.buf_bypass \in BOOLEAN /\ InflightInv'
<1> DEFINE b == sb.buf
           rd == sb.reads[1]
           A == SB!RdAddrBeat(sb, in)
           BB == SB!BypassBeat(sb, in)
           R == SB!InternalPopReady(sb, in)
           new == IF A THEN in.rd_data ELSE NoData
<1>1. RamReadLatency = 1 /\ RegisterPopOutputs /\ BufferDepth = 2 /\ 1 \in SB!Stage
  BY Constants DEF SB!Stage
<1>2. b \in Word /\ rd \in Word /\ sb.buf_bypass \in BOOLEAN /\ new \in Word
  BY <1>1 DEF BufferInv, BufferType, InputType, Word
<1>3. A \in BOOLEAN /\ BB \in BOOLEAN /\ ~(A /\ BB)
  BY GivenFacts
<1>4. R \in BOOLEAN
  BY DEF InputType, SB!InternalPopReady
<1>5. /\ SB!RdDataValid(sb, in) <=> rd # NoData
      /\ SB!RdData(sb, in) = rd
      /\ SB!has_inflight_read(sb) <=> rd # NoData
  BY <1>1, Constants DEF SB!RdDataValid, SB!RdData, SB!ReadReturns, SB!has_inflight_read,
                         BufferInv, InflightInv
<1>6. SB!InFlight(sb) = SB!One(rd) /\ SB!InFlight(sb)' = SB!One(new)
  <2>1. sb.reads \in [SB!Stage -> Word] /\ sb'.reads \in [SB!Stage -> Word]
    BY ReadsMove DEF BufferInv, BufferType
  <2>2. sb'.reads[1] = new
    BY <1>1, ReadsMove DEF BufferInv
  <2> QED BY <1>1, <2>1, <2>2, StagesFacts DEF SB!InFlight
<1> DEFINE held(B, x, y) == IF B THEN SB!One(y) \o SB!One(x) ELSE SB!One(x) \o SB!One(y)
<1>7. SB!Held(sb) = held(sb.buf_bypass, b, rd) /\ SB!Held(sb)' = held(sb'.buf_bypass, sb'.buf, new)
  BY <1>1, <1>6, Constants DEF SB!Held
<1>8. /\ SB!One(b) \in Seq(Data) /\ SB!One(rd) \in Seq(Data) /\ SB!One(new) \in Seq(Data)
      /\ SB!One(in.bypass_data) = <<in.bypass_data>> /\ SB!One(NoData) = <<>>
      /\ Given(in) = IF BB THEN <<in.bypass_data>> ELSE SB!One(new)
  <2>1. in.bypass_data # NoData /\ (A => in.rd_data # NoData)
    BY Constants DEF InputType
  <2> QED BY <1>2, <1>3, <2>1, OneFacts DEF SB!One, Given
<1>9. sb.staged = B2N(sb.reg # NoData) + B2N(b # NoData) + B2N(rd # NoData) /\ sb.staged <= 2
  <2>1. sb.reg \in Word
    BY DEF BufferInv, BufferType
  <2>2. SB!Held(sb) \in Seq(Data) /\ Len(SB!Held(sb)) = B2N(b # NoData) + B2N(rd # NoData)
    <3>1. Len(SB!One(b)) = B2N(b # NoData) /\ Len(SB!One(rd)) = B2N(rd # NoData)
      BY <1>2, OneFacts DEF B2N
    <3>2. CASE sb.buf_bypass
      <4>1. Len(SB!Held(sb)) = Len(SB!One(rd)) + Len(SB!One(b)) /\ SB!Held(sb) \in Seq(Data)
        BY <1>7, <1>8, <3>2, Joined
      <4> HIDE DEF b, rd
      <4> QED BY <3>1, <4>1 DEF B2N
    <3>3. CASE ~sb.buf_bypass
      BY <1>7, <1>8, <3>1, <3>3, Joined
    <3> QED BY <1>2, <3>2, <3>3
  <2>3. Len(SB!One(sb.reg)) = B2N(sb.reg # NoData) /\ SB!One(sb.reg) \in Seq(Data)
    BY <2>1, OneFacts DEF B2N
  <2>4. Len(SB!Staged(sb)) = Len(SB!One(sb.reg)) + Len(SB!Held(sb))
    BY <2>2, <2>3, Joined DEF SB!Staged
  <2> HIDE DEF b, rd
  <2>5. sb.staged = Len(SB!Staged(sb)) /\ sb.staged <= 2
    BY <1>1 DEF BufferInv
  <2> QED BY <2>2, <2>3, <2>4, <2>5 DEF B2N
<1>10. /\ b # NoData /\ rd # NoData => R /\ ~A /\ ~BB
       /\ (b # NoData \/ rd # NoData) /\ ~R => ~A /\ ~BB
  <2>1. A \/ BB => SB!SpaceAvailable(sb, in)
    BY GivenFacts
  <2> HIDE DEF b, rd, A, BB
  <2> QED BY <1>1, <1>9, <2>1
          DEF B2N, SB!SpaceAvailable, SB!pop_valid_nonbypass, SB!InternalPopReady, InputType
<1> DEFINE block == sb.buf_bypass /\ rd # NoData
           shown == b # NoData /\ ~block
           y == IF shown THEN b ELSE IF rd # NoData THEN rd ELSE in.bypass_data
<1>11. Moved(in) = IF R /\ (shown \/ rd # NoData \/ BB) THEN <<y>> ELSE <<>>
  <2>1. SB!buffer_fwd_valid(sb) <=> shown
    BY <1>5 DEF SB!buffer_fwd_valid, SB!buffer_fwd_block
  <2>2. SB!InternalPopValid(sb, in) <=> shown \/ rd # NoData \/ BB
    <3> HIDE DEF shown, rd
    <3> QED BY <1>5, <2>1 DEF SB!InternalPopValid
  <2>3. SB!InternalPopData(sb, in) = y
    <3> HIDE DEF shown, rd
    <3> QED BY <1>5, <2>1 DEF SB!InternalPopData, SB!PushData
  <2> HIDE DEF shown, y, rd, BB
  <2> QED BY <2>2, <2>3 DEF Moved, InternalBeat
<1> DEFINE valid == IF b # NoData THEN rd # NoData \/ BB \/ ~(R /\ ~block)
                    ELSE ((rd # NoData \/ BB) /\ ~R) \/ (BB /\ rd # NoData)
           load == valid /\ (b = NoData \/ (R /\ ~block))
<1>12. /\ sb'.buf = IF ~valid THEN NoData ELSE IF ~load THEN b
                    ELSE IF (R /\ b = NoData) \/ rd = NoData THEN in.bypass_data ELSE rd
       /\ sb'.buf_bypass = IF load THEN BB ELSE sb.buf_bypass
  <2>1. SB!BufferValidNext(sb, in) <=> valid
    BY <1>5 DEF SB!BufferValidNext, SB!PushValid, SB!buffer_fwd_ready, SB!buffer_fwd_block
  <2>2. SB!BufferLoad(sb, in) <=> load
    BY <1>5, <2>1 DEF SB!BufferLoad, SB!buffer_fwd_ready, SB!buffer_fwd_block
  <2>3. sb'.buf = SB!BufferDataNext(sb, in) /\ sb'.buf_bypass = SB!BufferBypassNext(sb, in)
    BY NextFields
  <2>4. SB!PushData(sb, in) = IF rd # NoData THEN rd ELSE in.bypass_data
    BY <1>5 DEF SB!PushData
  <2> HIDE DEF valid, load, b, rd, BB, R
  <2>5. SB!BufferDataNext(sb, in) = IF ~valid THEN NoData ELSE IF ~load THEN b
              ELSE IF R /\ b = NoData THEN in.bypass_data
              ELSE IF rd # NoData THEN rd ELSE in.bypass_data
    <3>1. CASE ~valid
      BY <2>1, <3>1 DEF SB!BufferDataNext
    <3>2. CASE valid /\ ~load
      BY <2>1, <2>2, <3>2 DEF SB!BufferDataNext, b
    <3>3. CASE valid /\ load
      BY <2>1, <2>2, <2>4, <3>3 DEF SB!BufferDataNext, R, b
    <3> QED BY <3>1, <3>2, <3>3
  <2>6. SB!BufferBypassNext(sb, in) = IF load THEN BB ELSE sb.buf_bypass
    BY <2>2 DEF SB!BufferBypassNext, BB
  <2> QED BY <2>3, <2>5, <2>6
<1>13. InflightInv'
  <2>1. sb'.inflight = SB!InflightNext(sb, in) /\ sb'.reads[1] = new
    BY <1>1, NextFields, ReadsMove DEF BufferInv
  <2>2. new # NoData <=> A
    BY Constants DEF InputType
  <2>3. sb.inflight = IF rd = NoData THEN 0 ELSE 1
    BY DEF BufferInv, InflightInv
  <2>4. SB!InflightNext(sb, in) = sb.inflight + (IF A THEN 1 ELSE 0) - (IF rd # NoData THEN 1 ELSE 0)
    BY <1>5 DEF SB!InflightNext, SB!B2N
  <2> HIDE DEF rd, new, A
  <2> QED BY <1>3, <2>1, <2>2, <2>3, <2>4 DEF InflightInv
<1>14. sb'.buf \in Word /\ sb'.buf_bypass \in BOOLEAN
  <2>1. in.bypass_data \in Word
    BY DEF InputType, Word
  <2> HIDE DEF valid, load, b, rd, BB, R
  <2> QED BY <1>2, <1>3, <1>12, <2>1 DEF Word
<1>15. SB!Held(sb)' \in Seq(Data) /\ SB!Held(sb) \in Seq(Data)
  <2>1. SB!One(sb'.buf) \in Seq(Data)
    BY <1>14, OneFacts
  <2> HIDE DEF b, rd, new
  <2> QED BY <1>7, <1>8, <2>1, Joined
<1>16. Moved(in) \in Seq(Data) /\ Moved(in) \o SB!Held(sb)' = SB!Held(sb) \o Given(in)
  <2>1. PICK x \in Data : x = in.bypass_data
    BY DEF InputType
  <2>2. PICK a, bb, ready \in BOOLEAN : (a <=> A) /\ (bb <=> BB) /\ (ready <=> R)
    OBVIOUS
  <2>3. PICK e, f, g \in Word : e = b /\ f = rd /\ g = new
    BY <1>2
  <2>4. g # NoData <=> a
    BY <2>2, <2>3, Constants DEF InputType
  <2>5. /\ ~(a /\ bb)
        /\ e # NoData /\ f # NoData => ready /\ ~a /\ ~bb
        /\ (e # NoData \/ f # NoData) /\ ~ready => ~a /\ ~bb
    BY <1>3, <1>10, <2>2, <2>3
  <2>6. /\ e = NoData => SB!One(b) = <<>>
        /\ e # NoData => SB!One(b) = <<e>> /\ SB!One(e) = <<e>> /\ e \in Data
        /\ f = NoData => SB!One(rd) = <<>>
        /\ f # NoData => SB!One(rd) = <<f>> /\ SB!One(f) = <<f>> /\ f \in Data
        /\ g = NoData => SB!One(new) = <<>>
        /\ g # NoData => SB!One(new) = <<g>> /\ g \in Data
        /\ bb => Given(in) = <<x>>
        /\ ~bb => Given(in) = SB!One(new)
        /\ SB!One(x) = <<x>> /\ SB!One(NoData) = <<>>
    BY <1>8, <2>1, <2>2, <2>3, OneFacts DEF Word
  <2>7. /\ sb.buf_bypass => SB!Held(sb) = SB!One(rd) \o SB!One(b)
        /\ ~sb.buf_bypass => SB!Held(sb) = SB!One(b) \o SB!One(rd)
        /\ sb'.buf_bypass => SB!Held(sb)' = SB!One(new) \o SB!One(sb'.buf)
        /\ ~sb'.buf_bypass => SB!Held(sb)' = SB!One(sb'.buf) \o SB!One(new)
    BY <1>7
  <2>8. CASE e = NoData /\ f = NoData
    <3>1. Moved(in) = IF ready /\ bb THEN <<x>> ELSE <<>>
      BY <1>11, <2>1, <2>2, <2>3, <2>8
    <3>2. /\ sb'.buf = IF bb /\ ~ready THEN x ELSE NoData
          /\ bb /\ ~ready => sb'.buf_bypass
      BY <1>12, <2>1, <2>2, <2>3, <2>8
    <3> HIDE DEF b, rd, new
    <3>3. SB!Held(sb) = <<>>
      BY <2>6, <2>7, <2>8
    <3>4. bb /\ ~ready => SB!Held(sb)' = <<x>>
      BY <2>4, <2>5, <2>6, <2>7, <3>2
    <3>5. ~(bb /\ ~ready) => SB!Held(sb)' = SB!One(new)
      BY <2>6, <2>7, <3>2
    <3>6. CASE bb
      <4>1. Given(in) = <<x>> /\ SB!One(new) = <<>>
        BY <2>4, <2>5, <2>6, <3>6
      <4>2. CASE ready
        BY <3>1, <3>3, <3>5, <3>6, <4>1, <4>2
      <4>3. CASE ~ready
        BY <3>1, <3>3, <3>4, <3>6, <4>1, <4>3
      <4> QED BY <4>2, <4>3
    <3>7. CASE ~bb
      BY <2>4, <2>5, <2>6, <3>1, <3>3, <3>4, <3>5, <3>7
    <3> QED BY <3>6, <3>7
  <2>9. CASE e = NoData /\ f # NoData
    <3>1. Moved(in) = IF ready THEN <<f>> ELSE <<>>
      BY <1>11, <2>1, <2>2, <2>3, <2>9
    <3>2. /\ sb'.buf = IF ready THEN IF bb THEN x ELSE NoData ELSE f
          /\ bb /\ ready => sb'.buf_bypass
      BY <1>12, <2>1, <2>2, <2>3, <2>5, <2>9
    <3> HIDE DEF b, rd, new
    <3>3. SB!Held(sb) = <<f>>
      BY <2>6, <2>7, <2>9
    <3>4. CASE ~ready
      BY <2>4, <2>5, <2>6, <2>7, <2>9, <3>1, <3>2, <3>3, <3>4
    <3>5. CASE ready /\ bb
      BY <2>4, <2>5, <2>6, <2>7, <2>9, <3>1, <3>2, <3>3, <3>5
    <3>6. CASE ready /\ ~bb
      <4>1. SB!Held(sb)' = SB!One(new)
        BY <2>6, <2>7, <3>2, <3>6
      <4> QED BY <2>6, <2>9, <3>1, <3>3, <3>6, <4>1
    <3> QED BY <3>4, <3>5, <3>6
  <2>10. CASE e # NoData /\ f = NoData
    <3>1. Moved(in) = IF ready THEN <<e>> ELSE <<>>
      BY <1>11, <2>1, <2>2, <2>3, <2>10
    <3>2. sb'.buf = IF ready THEN IF bb THEN x ELSE NoData ELSE e
      BY <1>12, <2>1, <2>2, <2>3, <2>5, <2>10
    <3> HIDE DEF b, rd, new
    <3>3. SB!Held(sb) = <<e>>
      BY <2>6, <2>7, <2>10
    <3>4. CASE ~ready
      BY <2>4, <2>5, <2>6, <2>7, <2>10, <3>1, <3>2, <3>3, <3>4
    <3>5. CASE ready /\ bb
      BY <2>4, <2>5, <2>6, <2>7, <2>10, <3>1, <3>2, <3>3, <3>5
    <3>6. CASE ready /\ ~bb
      <4>1. SB!Held(sb)' = SB!One(new)
        BY <2>6, <2>7, <3>2, <3>6
      <4> QED BY <2>6, <2>10, <3>1, <3>3, <3>6, <4>1
    <3> QED BY <3>4, <3>5, <3>6
  <2>11. CASE e # NoData /\ f # NoData
    <3>1. Moved(in) = IF sb.buf_bypass THEN <<f>> ELSE <<e>>
      BY <1>11, <2>1, <2>2, <2>3, <2>5, <2>11
    <3>2. sb'.buf = IF sb.buf_bypass THEN e ELSE f
      BY <1>12, <2>1, <2>2, <2>3, <2>5, <2>11
    <3> HIDE DEF b, rd, new
    <3>3. Given(in) = <<>> /\ SB!One(new) = <<>>
      BY <2>4, <2>5, <2>6, <2>11
    <3>4. CASE sb.buf_bypass
      <4>1. /\ SB!Held(sb) = <<f>> \o <<e>> /\ Moved(in) = <<f>>
            /\ SB!Held(sb)' \in {<<e>> \o <<>>, <<>> \o <<e>>}
            /\ e \in Data /\ f \in Data
        BY <2>6, <2>7, <2>11, <3>1, <3>2, <3>3, <3>4
      <4> QED BY <3>3, <4>1, Pairs
    <3>5. CASE ~sb.buf_bypass
      <4>1. /\ SB!Held(sb) = <<e>> \o <<f>> /\ Moved(in) = <<e>>
            /\ SB!Held(sb)' \in {<<f>> \o <<>>, <<>> \o <<f>>}
            /\ e \in Data /\ f \in Data
        BY <2>6, <2>7, <2>11, <3>1, <3>2, <3>3, <3>5
      <4> QED BY <3>3, <4>1, Pairs
    <3> QED BY <3>4, <3>5
  <2> QED BY <2>8, <2>9, <2>10, <2>11
<1> QED BY <1>13, <1>14, <1>15, <1>16

-----------------------------------------------------------------------------
(* The circular buffer: what its two pointers and maybe_full say.            *)
LEMMA RingFacts ==
  ASSUME BufferType, SB!InternalDepth > 1
  PROVE  /\ SB!CellsUsed(sb) \in 0 .. SB!InternalDepth
         /\ sb.rd_ptr \in SB!Cell /\ sb.wr_ptr \in SB!Cell
         /\ \A c \in SB!Cell : Pos(c) \in 0 .. SB!InternalDepth - 1 /\ SB!CellAt(sb, Pos(c)) = c
         /\ \A i \in 0 .. SB!InternalDepth - 1 : SB!CellAt(sb, i) \in SB!Cell /\ Pos(SB!CellAt(sb, i)) = i
         /\ Pos(sb.rd_ptr) = 0 /\ SB!CellAt(sb, 0) = sb.rd_ptr
         /\ SB!CellsUsed(sb) < SB!InternalDepth => Pos(sb.wr_ptr) = SB!CellsUsed(sb)
         /\ SB!CellsUsed(sb) = SB!InternalDepth => sb.wr_ptr = sb.rd_ptr
         /\ SB!circ_empty(sb) <=> SB!CellsUsed(sb) = 0
<1> DEFINE N == SB!InternalDepth
<1>1. N \in Nat
  BY Constants
<1>2. sb.rd_ptr \in 0 .. N - 1 /\ sb.wr_ptr \in 0 .. N - 1 /\ sb.maybe_full \in BOOLEAN
  BY DEF BufferType, SB!Cell
<1> HIDE DEF N
<1> QED BY <1>1, <1>2 DEF SB!Cell, SB!CellsUsed, SB!CellAt, Pos, SB!circ_empty, N

(* How the pointers move; w: a cell is allocated, r: the head is freed.      *)
LEMMA RingMoves ==
  ASSUME NEW in, BufferType, SB!InternalDepth > 1, sb' = SB!StagingNext(sb, in),
         SB!AdvanceWr(sb, in) => SB!CellsUsed(sb) < SB!InternalDepth \/ SB!AdvanceRd(sb, in),
         SB!AdvanceRd(sb, in) => SB!CellsUsed(sb) > 0
  PROVE  LET w == B2N(SB!AdvanceWr(sb, in))
             r == B2N(SB!AdvanceRd(sb, in))
         IN  /\ sb'.rd_ptr \in SB!Cell /\ sb'.wr_ptr \in SB!Cell /\ sb'.maybe_full \in BOOLEAN
             /\ SB!CellsUsed(sb)' = SB!CellsUsed(sb) + w - r
             /\ \A c \in SB!Cell : Pos(c)' = IF SB!AdvanceRd(sb, in)
                                             THEN IF Pos(c) = 0 THEN SB!InternalDepth - 1
                                                                ELSE Pos(c) - 1
                                             ELSE Pos(c)
             /\ \A i \in 0 .. SB!InternalDepth - 1 :
                   i + r < SB!InternalDepth => SB!CellAt(sb, i)' = SB!CellAt(sb, i + r)
             /\ \A i \in 0 .. SB!InternalDepth - 1 :
                   SB!AdvanceWr(sb, in) /\ i = SB!CellsUsed(sb) - r => SB!CellAt(sb, i)' = sb.wr_ptr
<1> DEFINE N == SB!InternalDepth
           W == SB!AdvanceWr(sb, in)
           R == SB!AdvanceRd(sb, in)
           rp == sb.rd_ptr
           wp == sb.wr_ptr
<1>1. N \in Nat /\ N > 1
  BY Constants
<1>2. rp \in 0 .. N - 1 /\ wp \in 0 .. N - 1 /\ sb.maybe_full \in BOOLEAN
  BY DEF BufferType, SB!Cell
<1>3. W \in BOOLEAN /\ R \in BOOLEAN
  BY DEF SB!AdvanceWr, SB!AdvanceRd
<1>4. /\ sb'.rd_ptr = IF R THEN IF rp = N - 1 THEN 0 ELSE rp + 1 ELSE rp
      /\ sb'.wr_ptr = IF W THEN IF wp = N - 1 THEN 0 ELSE wp + 1 ELSE wp
      /\ sb'.maybe_full = IF W = R THEN sb.maybe_full ELSE W
  BY NextFields DEF SB!NextCell
<1>5. (W => SB!CellsUsed(sb) < N \/ R) /\ (R => SB!CellsUsed(sb) > 0)
  OBVIOUS
<1> HIDE DEF N, W, R
<1>6. sb'.rd_ptr \in 0 .. N - 1 /\ sb'.wr_ptr \in 0 .. N - 1 /\ sb'.maybe_full \in BOOLEAN
  BY <1>1, <1>2, <1>3, <1>4
<1>7. SB!CellsUsed(sb) = IF rp = wp THEN IF sb.maybe_full THEN N ELSE 0
                         ELSE IF rp < wp THEN wp - rp ELSE wp - rp + N
  BY DEF SB!CellsUsed, N
<1>8. SB!CellsUsed(sb)' = IF sb'.rd_ptr = sb'.wr_ptr THEN IF sb'.maybe_full THEN N ELSE 0
                          ELSE IF sb'.rd_ptr < sb'.wr_ptr THEN sb'.wr_ptr - sb'.rd_ptr
                          ELSE sb'.wr_ptr - sb'.rd_ptr + N
  BY DEF SB!CellsUsed, N, SB!InternalDepth
<1>9. SB!CellsUsed(sb)' = SB!CellsUsed(sb) + B2N(W) - B2N(R)
  <2>1. CASE W /\ R
    BY <1>1, <1>2, <1>4, <1>5, <1>7, <1>8, <2>1 DEF B2N
  <2>2. CASE W /\ ~R
    <3>1. sb'.maybe_full /\ sb'.rd_ptr = rp /\ SB!CellsUsed(sb) < N
      BY <1>3, <1>4, <1>5, <2>2
    <3>2. sb'.wr_ptr = IF wp = N - 1 THEN 0 ELSE wp + 1
      BY <1>4, <2>2
    <3> QED BY <1>1, <1>2, <1>7, <1>8, <2>2, <3>1, <3>2 DEF B2N
  <2>3. CASE ~W /\ R
    <3>1. ~sb'.maybe_full /\ sb'.wr_ptr = wp /\ SB!CellsUsed(sb) > 0
      BY <1>3, <1>4, <1>5, <2>3
    <3>2. sb'.rd_ptr = IF rp = N - 1 THEN 0 ELSE rp + 1
      BY <1>4, <2>3
    <3> QED BY <1>1, <1>2, <1>7, <1>8, <2>3, <3>1, <3>2 DEF B2N
  <2>4. CASE ~W /\ ~R
    BY <1>1, <1>2, <1>4, <1>5, <1>7, <1>8, <2>4, <1>3 DEF B2N
  <2> QED BY <1>3, <2>1, <2>2, <2>3, <2>4
<1>10. ASSUME NEW c \in 0 .. N - 1
       PROVE  Pos(c)' = IF R THEN IF Pos(c) = 0 THEN N - 1 ELSE Pos(c) - 1 ELSE Pos(c)
  <2>1. /\ Pos(c) = IF c >= rp THEN c - rp ELSE c - rp + N
        /\ Pos(c)' = IF c >= sb'.rd_ptr THEN c - sb'.rd_ptr ELSE c - sb'.rd_ptr + N
    BY DEF Pos, N, SB!InternalDepth
  <2> QED BY <1>1, <1>2, <1>3, <1>4, <2>1
<1>11. ASSUME NEW i \in 0 .. N - 1
       PROVE  /\ i + B2N(R) < N => SB!CellAt(sb, i)' = SB!CellAt(sb, i + B2N(R))
              /\ SB!CellAt(sb, i)' = IF sb'.rd_ptr + i < N THEN sb'.rd_ptr + i ELSE sb'.rd_ptr + i - N
  <2>1. /\ SB!CellAt(sb, i + B2N(R)) = IF rp + (i + B2N(R)) < N THEN rp + (i + B2N(R))
                                       ELSE rp + (i + B2N(R)) - N
        /\ SB!CellAt(sb, i)' = IF sb'.rd_ptr + i < N THEN sb'.rd_ptr + i ELSE sb'.rd_ptr + i - N
    BY DEF SB!CellAt, N, SB!InternalDepth
  <2> QED BY <1>1, <1>2, <1>3, <1>4, <2>1 DEF B2N
<1>12. ASSUME NEW i \in 0 .. N - 1, W, i = SB!CellsUsed(sb) - B2N(R)
       PROVE  SB!CellAt(sb, i)' = wp
  <2>1. SB!CellAt(sb, i)' = IF sb'.rd_ptr + i < N THEN sb'.rd_ptr + i ELSE sb'.rd_ptr + i - N
    BY <1>11
  <2>2. sb'.rd_ptr = IF R THEN IF rp = N - 1 THEN 0 ELSE rp + 1 ELSE rp
    BY <1>4
  <2>3. CASE R
    <3>1. SB!CellsUsed(sb) > 0 /\ i = SB!CellsUsed(sb) - 1
      BY <1>5, <1>12, <2>3 DEF B2N
    <3> QED BY <1>1, <1>2, <1>7, <2>1, <2>2, <2>3, <3>1
  <2>4. CASE ~R
    <3>1. SB!CellsUsed(sb) < N /\ i = SB!CellsUsed(sb)
      BY <1>1, <1>2, <1>5, <1>7, <1>12, <2>4 DEF B2N
    <3> QED BY <1>1, <1>2, <1>7, <2>1, <2>2, <2>4, <3>1
  <2> QED BY <1>3, <2>3, <2>4
<1> QED BY <1>6, <1>9, <1>10, <1>11, <1>12 DEF N, W, R, SB!Cell

(* The cells in use as a sequence of entries.                                *)
CellsHoldEntries == \A c \in SB!Cell : Pos(c) < SB!CellsUsed(sb) => SB!CellEntry(sb, c) \in Data

CellsAreASequence ==
    /\ SB!Cells(sb) \in Seq(Data) /\ Len(SB!Cells(sb)) = SB!CellsUsed(sb)
    /\ \A i \in 1 .. SB!CellsUsed(sb) : SB!Cells(sb)[i] = SB!CellEntry(sb, SB!CellAt(sb, i - 1))

LEMMA CellsSequence ==
  SB!InternalDepth > 1 /\ BufferType /\ CellsHoldEntries => CellsAreASequence
<1> SUFFICES ASSUME SB!InternalDepth > 1, BufferType, CellsHoldEntries
             PROVE  CellsAreASequence
  OBVIOUS
<1>1. SB!CellsUsed(sb) \in Nat /\ SB!CellsUsed(sb) <= SB!InternalDepth /\ SB!InternalDepth \in Nat
  BY RingFacts, Constants
<1>2. ASSUME NEW i \in 1 .. SB!CellsUsed(sb)
      PROVE  SB!CellEntry(sb, SB!CellAt(sb, i - 1)) \in Data
  <2>1. i - 1 \in 0 .. SB!InternalDepth - 1 /\ i - 1 < SB!CellsUsed(sb)
    BY <1>1
  <2>2. SB!CellAt(sb, i - 1) \in SB!Cell /\ Pos(SB!CellAt(sb, i - 1)) = i - 1
    BY <2>1, RingFacts
  <2> QED BY <2>1, <2>2 DEF CellsHoldEntries
<1>3. SB!Cells(sb) = [i \in 1 .. SB!CellsUsed(sb) |-> SB!CellEntry(sb, SB!CellAt(sb, i - 1))]
  BY DEF SB!Cells
<1>4. SB!Cells(sb) \in Seq(Data)
  BY <1>1, <1>2, <1>3
<1>5. Len(SB!Cells(sb)) = SB!CellsUsed(sb)
  BY <1>1, <1>3
<1>6. \A i \in 1 .. SB!CellsUsed(sb) : SB!Cells(sb)[i] = SB!CellEntry(sb, SB!CellAt(sb, i - 1))
  BY <1>3, Zenon
<1> QED BY <1>4, <1>5, <1>6 DEF CellsAreASequence

LEMMA CellsSequenceNext ==
  SB!InternalDepth > 1 /\ BufferType' /\ CellsHoldEntries' => CellsAreASequence'
<1>1. (SB!InternalDepth > 1)' <=> SB!InternalDepth > 1
  BY DEF SB!InternalDepth
<1>2. (SB!InternalDepth > 1 /\ BufferType /\ CellsHoldEntries)' => CellsAreASequence'
  BY CellsSequence, PTL
<1> QED BY <1>1, <1>2

(* When every cell keeps its entry, except that the head is freed and x goes *)
(* into a new cell, the cells are a queue.                                   *)
LEMMA CellsMove ==
  ASSUME NEW in, BufferType, BufferType', SB!InternalDepth > 1, sb' = SB!StagingNext(sb, in),
         SB!AdvanceWr(sb, in) => SB!CellsUsed(sb) < SB!InternalDepth \/ SB!AdvanceRd(sb, in),
         SB!AdvanceRd(sb, in) => SB!CellsUsed(sb) > 0,
         CellsHoldEntries, NEW x \in Data, NEW y \in Data,
         SB!AdvanceRd(sb, in) => y = SB!CellEntry(sb, sb.rd_ptr),
         \A c \in SB!Cell :
            /\ Pos(c) < SB!CellsUsed(sb) /\ (SB!AdvanceRd(sb, in) => Pos(c) > 0)
                  => SB!CellEntry(sb, c)' = SB!CellEntry(sb, c)
            /\ SB!AdvanceWr(sb, in) /\ c = sb.wr_ptr => SB!CellEntry(sb, c)' = x
  PROVE  /\ CellsHoldEntries' /\ SB!Cells(sb) \in Seq(Data) /\ SB!Cells(sb)' \in Seq(Data)
         /\ (IF SB!AdvanceRd(sb, in) THEN <<y>> ELSE <<>>) \o SB!Cells(sb)' =
                SB!Cells(sb) \o (IF SB!AdvanceWr(sb, in) THEN <<x>> ELSE <<>>)
<1> DEFINE N == SB!InternalDepth
           W == SB!AdvanceWr(sb, in)
           R == SB!AdvanceRd(sb, in)
           u == SB!CellsUsed(sb)
<1>1. N \in Nat /\ N > 1 /\ u \in 0 .. N /\ W \in BOOLEAN /\ R \in BOOLEAN
  BY Constants, RingFacts DEF SB!AdvanceWr, SB!AdvanceRd
<1>2. SB!CellsUsed(sb)' = u + B2N(W) - B2N(R)
  BY RingMoves
<1>3. (W => u < N \/ R) /\ (R => u > 0)
  OBVIOUS
<1>4. SB!CellsUsed(sb)' \in 0 .. N
  <2> HIDE DEF N, W, R, u
  <2> QED BY <1>1, <1>2, <1>3 DEF B2N
<1>5. ASSUME NEW i \in 0 .. N - 1, i < SB!CellsUsed(sb)'
      PROVE  /\ i + B2N(R) < u => /\ SB!CellAt(sb, i)' = SB!CellAt(sb, i + B2N(R))
                                  /\ SB!CellEntry(sb, SB!CellAt(sb, i))' = SB!CellEntry(sb, SB!CellAt(sb, i + B2N(R)))
             /\ i + B2N(R) >= u => W /\ SB!CellEntry(sb, SB!CellAt(sb, i))' = x
  <2>1. PICK c \in SB!Cell : c = SB!CellAt(sb, i)'
    <3>1. SB!CellAt(sb, i)' \in SB!Cell
      <4>1. (SB!InternalDepth > 1)' <=> SB!InternalDepth > 1
        BY DEF SB!InternalDepth
      <4>2. sb'.rd_ptr \in 0 .. N - 1
        BY DEF BufferType, SB!Cell, SB!InternalDepth
      <4>3. SB!CellAt(sb, i)' = IF sb'.rd_ptr + i < N THEN sb'.rd_ptr + i ELSE sb'.rd_ptr + i - N
        BY DEF SB!CellAt, SB!InternalDepth
      <4> HIDE DEF N
      <4>4. SB!CellAt(sb, i)' \in 0 .. N - 1
        BY <1>1, <4>2, <4>3
      <4> QED BY <4>4 DEF SB!Cell, N
    <3> QED BY <3>1
  <2>2. SB!CellEntry(sb, SB!CellAt(sb, i))' = SB!CellEntry(sb, c)'
    BY <2>1 DEF SB!CellEntry, SB!Arriving
  <2>3. ASSUME i + B2N(R) < u
        PROVE  /\ c = SB!CellAt(sb, i + B2N(R))
               /\ SB!CellEntry(sb, c)' = SB!CellEntry(sb, c)
    <3>1. i + B2N(R) \in 0 .. N - 1
      <4> HIDE DEF N, W, R, u
      <4> QED BY <1>1, <1>5, <2>3 DEF B2N
    <3>2. c = SB!CellAt(sb, i + B2N(R))
      <4>1. SB!CellAt(sb, i)' = SB!CellAt(sb, i + B2N(R))
        BY <1>1, <3>1, RingMoves
      <4> QED BY <2>1, <4>1
    <3>3. Pos(c) = i + B2N(R)
      BY <3>1, <3>2, RingFacts
    <3>4. R => Pos(c) > 0
      BY <3>3 DEF B2N
    <3> QED BY <2>3, <3>2, <3>3, <3>4
  <2>4. ASSUME i + B2N(R) >= u
        PROVE  W /\ SB!CellEntry(sb, c)' = x
    <3>1. W /\ i = u - B2N(R)
      <4> HIDE DEF N, W, R, u
      <4> QED BY <1>1, <1>2, <1>5, <2>4 DEF B2N
    <3>2. c = sb.wr_ptr
      <4>1. SB!CellAt(sb, i)' = sb.wr_ptr
        BY <3>1, RingMoves
      <4> QED BY <2>1, <4>1
    <3> QED BY <3>1, <3>2
  <2> QED BY <2>1, <2>2, <2>3, <2>4
<1>6. CellsHoldEntries'
  <2> SUFFICES ASSUME NEW c \in SB!Cell, Pos(c)' < SB!CellsUsed(sb)'
               PROVE  SB!CellEntry(sb, c)' \in Data
    BY DEF CellsHoldEntries, SB!Cell, SB!InternalDepth
  <2>1. Pos(c) \in 0 .. N - 1 /\ Pos(c)' = IF R THEN IF Pos(c) = 0 THEN N - 1 ELSE Pos(c) - 1 ELSE Pos(c)
    BY RingFacts, RingMoves
  <2>2. CASE Pos(c) < u /\ (R => Pos(c) > 0)
    BY <2>2 DEF CellsHoldEntries
  <2>3. CASE ~(Pos(c) < u /\ (R => Pos(c) > 0))
    <3>1. W /\ c = sb.wr_ptr
      <4>1. W /\ (u < N => Pos(c) = u) /\ (u = N => Pos(c) = 0)
        <5> HIDE DEF N, W, R, u
        <5> QED BY <1>1, <1>2, <1>3, <2>1, <2>3 DEF B2N
      <4>2. sb.wr_ptr \in SB!Cell /\ Pos(c) = Pos(sb.wr_ptr)
        BY <1>1, <4>1, RingFacts
      <4>3. SB!CellAt(sb, Pos(c)) = c /\ SB!CellAt(sb, Pos(sb.wr_ptr)) = sb.wr_ptr
        BY <4>2, RingFacts
      <4> QED BY <4>1, <4>2, <4>3
    <3> QED BY <3>1
  <2> QED BY <2>2, <2>3
<1>7. /\ SB!Cells(sb) \in Seq(Data) /\ Len(SB!Cells(sb)) = u
      /\ \A i \in 1 .. u : SB!Cells(sb)[i] = SB!CellEntry(sb, SB!CellAt(sb, i - 1))
  BY CellsSequence DEF CellsAreASequence
<1>8. /\ SB!Cells(sb)' \in Seq(Data) /\ Len(SB!Cells(sb)') = SB!CellsUsed(sb)'
      /\ \A i \in 1 .. SB!CellsUsed(sb)' : SB!Cells(sb)'[i] = SB!CellEntry(sb, SB!CellAt(sb, i - 1))'
  BY <1>6, CellsSequenceNext DEF CellsAreASequence
<1>9. R => /\ Len(SB!Cells(sb)) > 0
           /\ y = SB!Cells(sb)[1]
  <2> SUFFICES ASSUME R PROVE Len(SB!Cells(sb)) > 0 /\ y = SB!Cells(sb)[1]
    OBVIOUS
  <2>1. u > 0 /\ 1 \in 1 .. u /\ 1 - 1 = 0
    BY <1>1, <1>3
  <2>2. SB!Cells(sb)[1] = SB!CellEntry(sb, SB!CellAt(sb, 0))
    BY <1>7, <2>1
  <2> QED BY <1>7, <2>1, <2>2, RingFacts
<1>10. ASSUME NEW i \in 1 .. Len(SB!Cells(sb)')
       PROVE  /\ i + B2N(R) <= Len(SB!Cells(sb)) => SB!Cells(sb)'[i] = SB!Cells(sb)[i + B2N(R)]
              /\ i + B2N(R) > Len(SB!Cells(sb)) => SB!Cells(sb)'[i] = x
  <2> DEFINE k == i - 1
  <2>1. k \in 0 .. N - 1 /\ k < SB!CellsUsed(sb)' /\ B2N(R) \in 0 .. 1
    BY <1>1, <1>4, <1>8 DEF B2N
  <2>2. SB!Cells(sb)'[i] = SB!CellEntry(sb, SB!CellAt(sb, k))'
    BY <1>8
  <2>3. /\ k + B2N(R) < u => SB!CellEntry(sb, SB!CellAt(sb, k))' = SB!CellEntry(sb, SB!CellAt(sb, k + B2N(R)))
        /\ k + B2N(R) >= u => SB!CellEntry(sb, SB!CellAt(sb, k))' = x
    <3> HIDE DEF k
    <3> QED BY <1>5, <2>1
  <2>4. i + B2N(R) <= u => SB!Cells(sb)[i + B2N(R)] = SB!CellEntry(sb, SB!CellAt(sb, k + B2N(R)))
    <3> SUFFICES ASSUME i + B2N(R) <= u
                 PROVE  SB!Cells(sb)[i + B2N(R)] = SB!CellEntry(sb, SB!CellAt(sb, k + B2N(R)))
      OBVIOUS
    <3>1. i + B2N(R) \in 1 .. u /\ (i + B2N(R)) - 1 = k + B2N(R)
      BY <1>1, <2>1
    <3>2. SB!Cells(sb)[i + B2N(R)] = SB!CellEntry(sb, SB!CellAt(sb, (i + B2N(R)) - 1))
      BY <1>7, <3>1
    <3> QED BY <3>1, <3>2
  <2>5. (i + B2N(R) <= u <=> k + B2N(R) < u) /\ (i + B2N(R) > u <=> k + B2N(R) >= u)
    BY <1>1, <2>1
  <2> QED BY <1>7, <2>2, <2>3, <2>4, <2>5
<1>11. /\ Len(SB!Cells(sb)') = Len(SB!Cells(sb)) + B2N(W) - B2N(R)
       /\ R /\ Len(SB!Cells(sb)) = 0 => W
  BY <1>2, <1>7, <1>8, <1>9
<1> HIDE DEF R, W
<1>12. PICK s, t \in Seq(Data) : s = SB!Cells(sb) /\ t = SB!Cells(sb)'
  BY <1>7, <1>8
<1>13. (IF R THEN <<y>> ELSE <<>>) \o t = s \o (IF W THEN <<x>> ELSE <<>>)
  <2>1. R => y = IF Len(s) > 0 THEN s[1] ELSE x
    BY <1>9, <1>12
  <2>2. \A i \in 1 .. Len(t) :
            /\ i + B2N(R) <= Len(s) => t[i] = s[i + B2N(R)]
            /\ i + B2N(R) > Len(s) => t[i] = x
    BY <1>10, <1>12
  <2>3. Len(t) = Len(s) + B2N(W) - B2N(R) /\ (R /\ Len(s) = 0 => W)
    BY <1>11, <1>12
  <2>4. PICK r, w \in BOOLEAN : r = R /\ w = W
    BY <1>1
  <2>5. IsShifted(s, t, x, y, r, w)
    BY <2>1, <2>2, <2>3, <2>4 DEF IsShifted
  <2>6. OneIf(r, y) \o t = s \o OneIf(w, x)
    BY <2>5, Shifted
  <2> QED BY <2>4, <2>6 DEF OneIf
<1> QED BY <1>6, <1>7, <1>8, <1>12, <1>13 DEF R, W

-----------------------------------------------------------------------------
(* Wires of the circular buffer.                                             *)
LEMMA CircWires ==
  ASSUME NEW in, InputType(in), SB!InternalDepth > 1
  PROVE  /\ RamReadLatency > 0 /\ RamReadLatency \in SB!Stage /\ 1 \in SB!Stage
         /\ SB!RdDataValid(sb, in) <=> sb.reads[RamReadLatency] # NoData
         /\ SB!RdData(sb, in) = sb.reads[RamReadLatency]
         /\ SB!InternalPopValid(sb, in) <=> \/ SB!head_valid(sb) \/ sb.reads[RamReadLatency] # NoData
                                            \/ SB!circ_empty(sb) /\ SB!BypassBeat(sb, in)
         /\ SB!InternalPopData(sb, in) = IF SB!head_valid(sb) THEN sb.mem[sb.rd_ptr]
                                         ELSE IF sb.reads[RamReadLatency] # NoData
                                         THEN sb.reads[RamReadLatency] ELSE in.bypass_data
         /\ SB!AdvanceRd(sb, in) <=> /\ \/ SB!head_valid(sb)
                                        \/ EnableBypass /\ sb.reads[RamReadLatency] # NoData
                                     /\ SB!InternalPopReady(sb, in)
         /\ SB!InternalPopReady(sb, in) \in BOOLEAN
<1>1. RamReadLatency > 0 /\ RamReadLatency \in SB!Stage /\ 1 \in SB!Stage
  BY Constants DEF SB!Stage
<1>2. (SB!RdDataValid(sb, in) <=> sb.reads[RamReadLatency] # NoData) /\ SB!RdData(sb, in) = sb.reads[RamReadLatency]
  BY <1>1 DEF SB!RdDataValid, SB!RdData, SB!ReadReturns
<1>3. SB!InternalPopValid(sb, in) <=> \/ SB!head_valid(sb) \/ sb.reads[RamReadLatency] # NoData
                                      \/ SB!circ_empty(sb) /\ SB!BypassBeat(sb, in)
  BY <1>2, Constants DEF SB!InternalPopValid
<1>4. SB!InternalPopData(sb, in) = IF SB!head_valid(sb) THEN sb.mem[sb.rd_ptr]
                                   ELSE IF sb.reads[RamReadLatency] # NoData
                                   THEN sb.reads[RamReadLatency] ELSE in.bypass_data
  <2>1. SB!InternalPopData(sb, in) = IF SB!head_valid(sb) THEN sb.mem[sb.rd_ptr] ELSE SB!PushData(sb, in)
    BY Constants DEF SB!InternalPopData
  <2>2. SB!PushData(sb, in) = IF sb.reads[RamReadLatency] # NoData THEN sb.reads[RamReadLatency]
                                                              ELSE in.bypass_data
    BY <1>2 DEF SB!PushData
  <2> QED BY <2>1, <2>2
<1>5. SB!AdvanceRd(sb, in) <=> /\ \/ SB!head_valid(sb)
                                  \/ EnableBypass /\ sb.reads[RamReadLatency] # NoData
                               /\ SB!InternalPopReady(sb, in)
  BY <1>2 DEF SB!AdvanceRd
<1>6. SB!InternalPopReady(sb, in) \in BOOLEAN
  BY DEF InputType, SB!InternalPopReady
<1> QED BY <1>1, <1>2, <1>3, <1>4, <1>5, <1>6

(* What leaves the cells is an entry or the word of a cell without one.      *)
LEMMA PopDataType ==
  ASSUME NEW in, InputType(in), BufferType
  PROVE  SB!InternalPopData(sb, in) \in Word
<1>1. in.bypass_data \in Word /\ in.rd_data \in Word
  BY DEF InputType, Word
<1>2. RamReadLatency > 0 => sb.reads[RamReadLatency] \in Word
  BY Constants DEF BufferType, SB!Stage
<1>3. SB!PushData(sb, in) \in Word
  BY <1>1, <1>2, Constants DEF SB!PushData, SB!RdData
<1>4. SB!InternalDepth > 1 => sb.mem[sb.rd_ptr] \in Word
  BY DEF BufferType
<1>5. sb.buf \in Word
  BY DEF BufferType
<1> QED BY <1>3, <1>4, <1>5, Constants DEF SB!InternalPopData

(* Every register keeps its type.                                            *)
LEMMA BufferTypeNext ==
  ASSUME NEW in, InputType(in), BufferType, sb' = SB!StagingNext(sb, in)
  PROVE  BufferType'
<1>1. sb'.reads \in [SB!Stage -> Word]
  BY ReadsMove
<1>2. sb'.reg \in Word /\ (~RegisterPopOutputs => sb'.reg = NoData)
  <2>1. sb'.reg = SB!RegNext(sb, in) /\ NoData \in Word
    BY NextFields DEF Word
  <2> QED BY <2>1, PopDataType DEF SB!RegNext, BufferType
<1>3. in.bypass_data \in Word /\ in.rd_data \in Word
  BY DEF InputType, Word
<1>4. RamReadLatency > 0 => sb.reads[RamReadLatency] \in Word
  BY Constants DEF BufferType, SB!Stage
<1>5. SB!RdData(sb, in) \in Word /\ SB!PushData(sb, in) \in Word
  BY <1>3, <1>4, Constants DEF SB!PushData, SB!RdData
<1>6. sb'.buf \in Word
  <2>1. sb'.buf = SB!BufferDataNext(sb, in) /\ NoData \in Word /\ sb.buf \in Word
    BY NextFields DEF Word, BufferType
  <2> QED BY <2>1, <1>3, <1>5 DEF SB!BufferDataNext
<1>7. sb'.buf_bypass \in BOOLEAN
  <2>1. sb'.buf_bypass = SB!BufferBypassNext(sb, in) /\ sb.buf_bypass \in BOOLEAN
    BY NextFields DEF BufferType
  <2> QED BY <2>1, GivenFacts DEF SB!BufferBypassNext
<1>8. sb'.mem \in [SB!Cell -> Word]
  <2>1. sb'.mem = SB!MemNext(sb, in) /\ NoData \in Word /\ sb.mem \in [SB!Cell -> Word]
    BY NextFields DEF Word, BufferType
  <2> QED BY <2>1, <1>3, <1>5 DEF SB!MemNext
<1>9. sb'.maybe_full \in BOOLEAN
  <2>1. /\ sb'.maybe_full = IF SB!AdvanceWr(sb, in) = SB!AdvanceRd(sb, in) THEN sb.maybe_full
                            ELSE SB!AdvanceWr(sb, in)
        /\ sb.maybe_full \in BOOLEAN
    BY NextFields DEF BufferType
  <2>2. SB!AdvanceWr(sb, in) \in BOOLEAN
    BY DEF SB!AdvanceWr
  <2> QED BY <2>1, <2>2
<1>10. SB!InternalDepth > 1 => sb'.rd_ptr \in SB!Cell /\ sb'.wr_ptr \in SB!Cell
  <2> SUFFICES ASSUME SB!InternalDepth > 1
               PROVE  sb'.rd_ptr \in SB!Cell /\ sb'.wr_ptr \in SB!Cell
    OBVIOUS
  <2>1. \A c \in SB!Cell : SB!NextCell(c) \in SB!Cell
    BY Constants DEF SB!Cell, SB!NextCell
  <2>2. /\ sb'.rd_ptr = IF SB!AdvanceRd(sb, in) THEN SB!NextCell(sb.rd_ptr) ELSE sb.rd_ptr
        /\ sb'.wr_ptr = IF SB!AdvanceWr(sb, in) THEN SB!NextCell(sb.wr_ptr) ELSE sb.wr_ptr
        /\ sb.rd_ptr \in SB!Cell /\ sb.wr_ptr \in SB!Cell
    BY NextFields DEF BufferType
  <2> QED BY <2>1, <2>2
<1>11. sb'.wr_cell \in [SB!Stage -> Nat]
  <2>1. sb'.wr_cell = SB!WrCellNext(sb, in) /\ sb.wr_cell \in [SB!Stage -> Nat]
    BY NextFields DEF BufferType
  <2>2. SB!InternalDepth > 1 => sb.wr_ptr \in Nat
    BY Constants DEF BufferType, SB!Cell
  <2>3. \A k \in SB!Stage : k > 1 => k - 1 \in SB!Stage
    BY Constants DEF SB!Stage
  <2>4. \A k \in SB!Stage : k # 1 => k > 1
    BY Constants DEF SB!Stage
  <2>5. 1 \in SB!Stage \/ SB!Stage = {}
    BY Constants DEF SB!Stage
  <2> QED BY <2>1, <2>2, <2>3, <2>4, <2>5 DEF SB!WrCellNext
<1> QED
  BY <1>1, <1>2, <1>6, <1>7, <1>8, <1>9, <1>10, <1>11
     DEF BufferType, SB!Stage, SB!Cell, SB!InternalDepth

(* One step of a queue: out left it, in entered it.                          *)
QueueStep(out, q, qn, in) ==
    /\ out \in Seq(Data) /\ q \in Seq(Data) /\ qn \in Seq(Data) /\ in \in Seq(Data)
    /\ out \o qn = q \o in

(* Queues in series: what leaves the one enters the other.                   *)
LEMMA InSeries ==
  ASSUME NEW a, NEW c, NEW cn, NEW m, NEW f, NEW fn, NEW g,
         QueueStep(a, c, cn, m), QueueStep(m, f, fn, g)
  PROVE  QueueStep(a, c \o f, cn \o fn, g)
<1>1. /\ a \in Seq(Data) /\ c \in Seq(Data) /\ cn \in Seq(Data) /\ m \in Seq(Data)
      /\ f \in Seq(Data) /\ fn \in Seq(Data) /\ g \in Seq(Data)
      /\ a \o cn = c \o m /\ m \o fn = f \o g
  BY DEF QueueStep
<1>2. a \o (cn \o fn) = (a \o cn) \o fn
  BY <1>1, Assoc
<1>3. (c \o m) \o fn = c \o (m \o fn)
  BY <1>1, Assoc
<1>4. c \o (f \o g) = (c \o f) \o g
  BY <1>1, Assoc
<1>5. c \o f \in Seq(Data) /\ cn \o fn \in Seq(Data)
  BY <1>1, Joined
<1> QED BY <1>1, <1>2, <1>3, <1>4, <1>5 DEF QueueStep

(* The number of staged entries bounds the cells in use.                     *)
LEMMA StagedLength ==
  ASSUME BufferType, SB!Held(sb) \in Seq(Data)
  PROVE  /\ SB!Staged(sb) \in Seq(Data)
         /\ Len(SB!Staged(sb)) = B2N(sb.reg # NoData) + Len(SB!Held(sb))
<1>1. SB!One(sb.reg) \in Seq(Data) /\ Len(SB!One(sb.reg)) = B2N(sb.reg # NoData)
  <2>1. sb.reg \in Word
    BY DEF BufferType
  <2> QED BY <2>1, OneFacts DEF B2N
<1> QED BY <1>1, Joined DEF SB!Staged

(* Without the bypass, a read that returns goes to the interface if it is    *)
(* ready and nothing is buffered, else to a cell, and there is a free one.   *)
LEMMA FillWires ==
  ASSUME NEW in, InputType(in), BufferInv, sb' = SB!StagingNext(sb, in),
         SB!InternalDepth > 1, ~EnableBypass
  PROVE  LET u  == SB!CellsUsed(sb)
             rd == sb.reads[RamReadLatency]
             P  == SB!InternalPopReady(sb, in)
         IN  /\ SB!head_valid(sb) <=> u > 0
             /\ ~SB!BypassBeat(sb, in)
             /\ SB!AdvanceWr(sb, in) <=> rd # NoData /\ ~(u = 0 /\ P)
             /\ SB!AdvanceRd(sb, in) <=> u > 0 /\ P
             /\ CellsHoldEntries
             /\ SB!AdvanceWr(sb, in) => u < SB!InternalDepth \/ SB!AdvanceRd(sb, in)
             /\ \A c \in SB!Cell :
                   sb'.mem[c] = IF SB!AdvanceWr(sb, in) /\ c = sb.wr_ptr THEN rd ELSE sb.mem[c]
<1> DEFINE L == RamReadLatency
           N == SB!InternalDepth
           u == SB!CellsUsed(sb)
           W == SB!AdvanceWr(sb, in)
           R == SB!AdvanceRd(sb, in)
           P == SB!InternalPopReady(sb, in)
           rd == sb.reads[L]
<1>1. BufferType /\ BufferType' /\ CellsAreFull
  BY BufferTypeNext DEF BufferInv, RingInv
<1>2. /\ N \in Nat /\ N > 1 /\ u \in 0 .. N /\ L \in Nat /\ L > 0 /\ L \in SB!Stage
      /\ P \in BOOLEAN /\ rd \in Word
  BY <1>1, Constants, RingFacts, CircWires DEF BufferType
<1>3. SB!head_valid(sb) <=> u > 0
  BY <1>1, <1>2, RingFacts DEF SB!head_valid
<1>4. ~SB!BypassBeat(sb, in) /\ ~SB!BypassWrite(sb, in)
  BY DEF SB!BypassBeat, SB!BypassReady, SB!BypassWrite
<1>5. SB!RdDataWrite(sb, in) <=> rd # NoData /\ ~(u = 0 /\ P)
  BY <1>2, <1>3, CircWires DEF SB!RdDataWrite
<1>6. (W <=> rd # NoData /\ ~(u = 0 /\ P)) /\ (R <=> u > 0 /\ P)
  BY <1>3, <1>5, CircWires DEF SB!AdvanceWr
<1>7. CellsHoldEntries
  <2> SUFFICES ASSUME NEW c \in SB!Cell, Pos(c) < u
               PROVE  SB!CellEntry(sb, c) \in Data
    BY DEF CellsHoldEntries
  <2> QED BY <1>1 DEF CellsAreFull, SB!CellEntry, BufferType, Word
<1>8. SB!Cells(sb) \in Seq(Data) /\ Len(SB!Cells(sb)) = u
  BY <1>1, <1>7, CellsSequence DEF CellsAreASequence
<1>9. /\ SB!InFlight(sb) \in Seq(Data) /\ SB!InFlight(sb)' \in Seq(Data)
      /\ SB!One(rd) \o SB!InFlight(sb)' = SB!InFlight(sb) \o Given(in)
      /\ rd # NoData => Len(SB!InFlight(sb)) > 0
  <2>1. Given(in) = IF SB!RdAddrBeat(sb, in) THEN <<in.rd_data>> ELSE <<>>
    BY <1>4 DEF Given
  <2>2. rd # NoData => Len(SB!InFlight(sb)) > 0
    BY <1>1, <1>2, StagesFacts DEF BufferType, SB!InFlight
  <2> QED BY <1>1, <1>2, <2>1, <2>2, InFlightMoves
<1>10. SB!Held(sb) = SB!Cells(sb) \o SB!InFlight(sb) /\ SB!Held(sb)' = SB!Cells(sb)' \o SB!InFlight(sb)'
  BY <1>2 DEF SB!Held, SB!InternalDepth
<1>11. W => u < N \/ R
  <2> SUFFICES ASSUME W, u = N, ~R PROVE FALSE
    BY <1>2
  <2>1. ~P /\ rd # NoData
    BY <1>2, <1>6
  <2>2. Len(SB!Held(sb)) = u + Len(SB!InFlight(sb)) /\ SB!Held(sb) \in Seq(Data)
    BY <1>8, <1>9, <1>10, Joined
  <2>3. Len(SB!Staged(sb)) = B2N(sb.reg # NoData) + Len(SB!Held(sb))
    BY <1>1, <2>2, StagedLength
  <2>4. Len(SB!InFlight(sb)) \in Nat /\ Len(SB!InFlight(sb)) > 0
    BY <1>9, <2>1
  <2>5. Len(SB!Staged(sb)) <= L + 1
    BY Constants DEF BufferInv
  <2>6. CASE RegisterPopOutputs
    <3>1. sb.reg # NoData /\ N = L
      BY <2>1, <2>6, Constants DEF SB!InternalPopReady
    <3> HIDE DEF N, L, u
    <3> QED BY <1>2, <2>2, <2>3, <2>4, <2>5, <3>1 DEF B2N
  <2>7. CASE ~RegisterPopOutputs
    <3>1. N = L + 1
      BY <2>7, Constants
    <3> HIDE DEF N, L, u
    <3> QED BY <1>2, <2>2, <2>3, <2>4, <2>5, <3>1 DEF B2N
  <2> QED BY <2>6, <2>7, Constants
<1>12. ASSUME NEW c \in SB!Cell
       PROVE  sb'.mem[c] = IF W /\ c = sb.wr_ptr THEN rd ELSE sb.mem[c]
  <2>1. sb'.mem = SB!MemNext(sb, in)
    BY NextFields
  <2>2. SB!DelayedCell(sb) = sb.wr_ptr /\ SB!RdData(sb, in) = rd
    BY CircWires DEF SB!DelayedCell
  <2>3. SB!RdDataWrite(sb, in) <=> W
    BY <1>5, <1>6
  <2> HIDE DEF W, rd
  <2> QED BY <1>2, <1>4, <2>1, <2>2, <2>3 DEF SB!MemNext
<1> QED BY <1>3, <1>4, <1>6, <1>7, <1>11, <1>12

(* Without the bypass: what leaves the cells and the reads in flight.        *)
LEMMA FillOnReturn ==
  ASSUME NEW in, InputType(in), BufferInv, sb' = SB!StagingNext(sb, in),
         SB!InternalDepth > 1, ~EnableBypass
  PROVE  /\ SB!Held(sb) \in Seq(Data) /\ SB!Held(sb)' \in Seq(Data) /\ Moved(in) \in Seq(Data)
         /\ Moved(in) \o SB!Held(sb)' = SB!Held(sb) \o Given(in)
         /\ CellsAreFull'
<1> DEFINE L == RamReadLatency
           N == SB!InternalDepth
           u == SB!CellsUsed(sb)
           W == SB!AdvanceWr(sb, in)
           R == SB!AdvanceRd(sb, in)
           P == SB!InternalPopReady(sb, in)
           rd == sb.reads[L]
<1>1. BufferType /\ BufferType' /\ CellsAreFull
  BY BufferTypeNext DEF BufferInv, RingInv
<1>2. /\ N \in Nat /\ N > 1 /\ u \in 0 .. N /\ L \in Nat /\ L > 0 /\ L \in SB!Stage
      /\ P \in BOOLEAN /\ rd \in Word
  BY <1>1, Constants, RingFacts, CircWires DEF BufferType
<1>3. /\ SB!head_valid(sb) <=> u > 0
      /\ ~SB!BypassBeat(sb, in)
      /\ W <=> rd # NoData /\ ~(u = 0 /\ P)
      /\ R <=> u > 0 /\ P
      /\ CellsHoldEntries
      /\ W => u < N \/ R
      /\ \A c \in SB!Cell : sb'.mem[c] = IF W /\ c = sb.wr_ptr THEN rd ELSE sb.mem[c]
  BY FillWires
<1>4. SB!Cells(sb) \in Seq(Data) /\ Len(SB!Cells(sb)) = u
  BY <1>1, <1>3, CellsSequence DEF CellsAreASequence
<1>5. /\ SB!InFlight(sb) \in Seq(Data) /\ SB!InFlight(sb)' \in Seq(Data)
      /\ SB!One(rd) \o SB!InFlight(sb)' = SB!InFlight(sb) \o Given(in)
      /\ rd # NoData => Len(SB!InFlight(sb)) > 0
  <2>1. Given(in) = IF SB!RdAddrBeat(sb, in) THEN <<in.rd_data>> ELSE <<>>
    BY <1>3 DEF Given
  <2>2. rd # NoData => Len(SB!InFlight(sb)) > 0
    BY <1>1, <1>2, StagesFacts DEF BufferType, SB!InFlight
  <2> QED BY <1>1, <1>2, <2>1, <2>2, InFlightMoves
<1>6. SB!Held(sb) = SB!Cells(sb) \o SB!InFlight(sb) /\ SB!Held(sb)' = SB!Cells(sb)' \o SB!InFlight(sb)'
  BY <1>2 DEF SB!Held, SB!InternalDepth
<1>7. \A c \in SB!Cell : SB!CellEntry(sb, c) = sb.mem[c] /\ SB!CellEntry(sb, c)' = sb'.mem[c]
  BY DEF SB!CellEntry
<1> DEFINE x == IF W THEN rd ELSE in.bypass_data
           y == IF R THEN sb.mem[sb.rd_ptr] ELSE in.bypass_data
<1>8. x \in Data /\ y \in Data /\ (R => y = SB!CellEntry(sb, sb.rd_ptr))
  <2>1. in.bypass_data \in Data
    BY DEF InputType
  <2>2. W => rd \in Data
    BY <1>2, <1>3 DEF Word
  <2>3. sb.rd_ptr \in SB!Cell /\ Pos(sb.rd_ptr) = 0
    BY <1>1, RingFacts
  <2>4. R => sb.mem[sb.rd_ptr] \in Data
    BY <1>3, <1>7, <2>3 DEF CellsHoldEntries
  <2> QED BY <1>7, <2>1, <2>2, <2>3, <2>4
<1>9. ASSUME NEW c \in SB!Cell
       PROVE  /\ Pos(c) < u /\ (R => Pos(c) > 0) => SB!CellEntry(sb, c)' = SB!CellEntry(sb, c)
              /\ W /\ c = sb.wr_ptr => SB!CellEntry(sb, c)' = x
  <2>1. W /\ c = sb.wr_ptr => ~(Pos(c) < u /\ (R => Pos(c) > 0))
    <3>1. (u < N => Pos(sb.wr_ptr) = u) /\ (u = N => Pos(sb.wr_ptr) = 0)
      BY <1>1, RingFacts
    <3> QED BY <1>2, <1>3, <3>1
  <2> QED BY <1>3, <1>7, <2>1
<1>10. /\ CellsHoldEntries' /\ SB!Cells(sb)' \in Seq(Data)
       /\ (IF R THEN <<y>> ELSE <<>>) \o SB!Cells(sb)' = SB!Cells(sb) \o (IF W THEN <<x>> ELSE <<>>)
  <2>1. R => u > 0
    BY <1>3
  <2> HIDE DEF x, y
  <2> QED BY <1>1, <1>3, <1>8, <1>9, <2>1, CellsMove
<1>11. CellsAreFull'
  BY <1>7, <1>10, Constants DEF CellsAreFull, CellsHoldEntries, SB!Cell, SB!InternalDepth
<1>12. Moved(in) \in Seq(Data) /\ Moved(in) \o SB!Cells(sb)' = SB!Cells(sb) \o SB!One(rd)
  <2>1. /\ SB!InternalPopValid(sb, in) <=> u > 0 \/ rd # NoData
        /\ SB!InternalPopData(sb, in) = IF u > 0 THEN sb.mem[sb.rd_ptr]
                                        ELSE IF rd # NoData THEN rd ELSE in.bypass_data
    BY <1>3, CircWires
  <2>2. rd # NoData => rd \in Data /\ SB!One(rd) = <<rd>>
    BY <1>2, OneFacts DEF Word
  <2>3. rd = NoData => SB!One(rd) = <<>>
    BY <1>2, OneFacts
  <2>4. CASE rd # NoData /\ u = 0 /\ P
    <3>1. Moved(in) = <<rd>>
      BY <1>2, <2>1, <2>4 DEF Moved, InternalBeat
    <3>2. SB!Cells(sb) = <<>>
      BY <1>4, <2>4
    <3>3. SB!Cells(sb)' = <<>>
      <4>1. ~W /\ ~R
        BY <1>2, <1>3, <2>4
      <4>2. <<>> \o SB!Cells(sb)' = SB!Cells(sb) \o <<>>
        BY <1>10, <4>1
      <4> QED BY <1>4, <1>10, <3>2, <4>2, Joined
    <3>4. <<rd>> \o <<>> = <<>> \o <<rd>> /\ <<rd>> \in Seq(Data)
      BY <2>2, <2>4, Pairs
    <3> QED BY <2>2, <2>4, <3>1, <3>2, <3>3, <3>4
  <2>5. CASE ~(rd # NoData /\ u = 0 /\ P)
    <3>1. (R <=> SB!InternalPopValid(sb, in) /\ P) /\ (W <=> rd # NoData)
      BY <1>2, <1>3, <2>1, <2>5
    <3>2. Moved(in) = IF R THEN <<y>> ELSE <<>>
      BY <1>2, <1>3, <2>1, <3>1 DEF Moved, InternalBeat
    <3>3. SB!One(rd) = IF W THEN <<x>> ELSE <<>>
      BY <2>2, <2>3, <3>1
    <3>4. Moved(in) \in Seq(Data)
      BY <1>8, <3>2
    <3> HIDE DEF x, y, rd, R, W
    <3> QED BY <1>10, <3>2, <3>3, <3>4
  <2> QED BY <2>4, <2>5
<1>13. Moved(in) \o SB!Held(sb)' = SB!Held(sb) \o Given(in)
  <2>1. SB!One(rd) \in Seq(Data) /\ Given(in) \in Seq(Data)
    BY <1>2, OneFacts, GivenFacts
  <2>2. /\ QueueStep(Moved(in), SB!Cells(sb), SB!Cells(sb)', SB!One(rd))
        /\ QueueStep(SB!One(rd), SB!InFlight(sb), SB!InFlight(sb)', Given(in))
    BY <1>4, <1>5, <1>10, <1>12, <2>1 DEF QueueStep
  <2>3. QueueStep(Moved(in), SB!Cells(sb) \o SB!InFlight(sb), SB!Cells(sb)' \o SB!InFlight(sb)', Given(in))
    BY <2>2, InSeries
  <2> QED BY <1>6, <2>3 DEF QueueStep
<1>14. SB!Held(sb) \in Seq(Data) /\ SB!Held(sb)' \in Seq(Data)
  BY <1>4, <1>5, <1>6, <1>10, Joined
<1> QED BY <1>11, <1>12, <1>13, <1>14

-----------------------------------------------------------------------------
(* With the bypass, the read on its way to a cell is the entry of that cell. *)
ReadsArrive ==
    \A k \in SB!Stage : sb.reads[k] # NoData => SB!CellEntry(sb, sb.wr_cell[k]) = sb.reads[k]

LEMMA ReadsArriveNow ==
  SB!InternalDepth > 1 /\ EnableBypass /\ BufferType /\ ReadsFillCells => ReadsArrive
<1> SUFFICES ASSUME SB!InternalDepth > 1, EnableBypass, BufferType, ReadsFillCells,
                    NEW k \in SB!Stage, sb.reads[k] # NoData
             PROVE  SB!CellEntry(sb, sb.wr_cell[k]) = sb.reads[k]
  BY DEF ReadsArrive
<1> DEFINE c == sb.wr_cell[k]
<1>1. c \in SB!Cell /\ sb.mem[c] = NoData /\ k \in SB!Arriving(sb, c)
  BY DEF ReadsFillCells, SB!Arriving
<1>2. ASSUME NEW j \in SB!Arriving(sb, c) PROVE j = k
  <2>1. j \in SB!Stage /\ sb.reads[j] # NoData /\ sb.wr_cell[j] = c
    BY DEF SB!Arriving
  <2>2. Pos(c) \in Int /\ j \in Int /\ k \in Int
    BY <1>1, <2>1, RingFacts DEF SB!Stage
  <2>3. ~(j < k) /\ ~(k < j)
    BY <2>1, <2>2 DEF ReadsFillCells
  <2> QED BY <2>2, <2>3
<1>3. (CHOOSE j \in SB!Arriving(sb, c) : TRUE) = k
  <2> HIDE DEF c
  <2> QED BY <1>1, <1>2
<1>4. SB!CellEntry(sb, c) = sb.reads[CHOOSE j \in SB!Arriving(sb, c) : TRUE]
  BY <1>1 DEF SB!CellEntry
<1> QED BY <1>3, <1>4

LEMMA ReadsArriveNext ==
  SB!InternalDepth > 1 /\ EnableBypass /\ BufferType' /\ ReadsFillCells' => ReadsArrive'
<1>1. (SB!InternalDepth > 1 /\ EnableBypass)' <=> SB!InternalDepth > 1 /\ EnableBypass
  BY DEF SB!InternalDepth
<1>2. (SB!InternalDepth > 1 /\ EnableBypass /\ BufferType /\ ReadsFillCells)' => ReadsArrive'
  BY ReadsArriveNow, PTL
<1> QED BY <1>1, <1>2

(* With the bypass, the wires of the circular buffer: a read that returns    *)
(* while the head is not valid is the read for the head                      *)
(* (rd_data_to_pop_correct_address_a), and a cell is allocated only if there *)
(* is a free one or the head leaves.                                         *)
LEMMA AllocWires ==
  ASSUME NEW in, InputType(in), BufferInv, SB!InternalDepth > 1, EnableBypass
  PROVE  LET u  == SB!CellsUsed(sb)
             rd == sb.reads[RamReadLatency]
             P  == SB!InternalPopReady(sb, in)
         IN  /\ SB!head_valid(sb) <=> sb.mem[sb.rd_ptr] # NoData
             /\ SB!head_valid(sb) => u > 0
             /\ rd # NoData => u > 0
             /\ rd # NoData /\ ~SB!head_valid(sb) => sb.wr_cell[RamReadLatency] = sb.rd_ptr
             /\ SB!BypassWrite(sb, in) <=> SB!BypassBeat(sb, in) /\ ~(u = 0 /\ P)
             /\ SB!RdDataWrite(sb, in) <=> rd # NoData /\ ~(~SB!head_valid(sb) /\ P)
             /\ SB!AdvanceWr(sb, in) <=> SB!RdAddrBeat(sb, in) \/ SB!BypassWrite(sb, in)
             /\ SB!AdvanceRd(sb, in) <=> (SB!head_valid(sb) \/ rd # NoData) /\ P
             /\ CellsHoldEntries
             /\ SB!AdvanceWr(sb, in) => u < SB!InternalDepth \/ SB!AdvanceRd(sb, in)
<1> DEFINE L == RamReadLatency
           N == SB!InternalDepth
           u == SB!CellsUsed(sb)
           W == SB!AdvanceWr(sb, in)
           R == SB!AdvanceRd(sb, in)
           P == SB!InternalPopReady(sb, in)
           rd == sb.reads[L]
           hv == SB!head_valid(sb)
<1>1. BufferType /\ CellsFill /\ ReadsFillCells
  BY DEF BufferInv, RingInv, CellsFill
<1>2. /\ N \in Nat /\ N > 1 /\ u \in 0 .. N /\ L \in Nat /\ L > 0 /\ L \in SB!Stage
      /\ P \in BOOLEAN /\ rd \in Word
      /\ sb.rd_ptr \in SB!Cell /\ Pos(sb.rd_ptr) = 0
      /\ \A c \in SB!Cell : Pos(c) \in Int /\ Pos(c) >= 0
  BY <1>1, Constants, RingFacts, CircWires DEF BufferType
<1>3. hv <=> sb.mem[sb.rd_ptr] # NoData
  BY DEF SB!head_valid
<1>4. hv => u > 0
  BY <1>1, <1>2, <1>3 DEF CellsFill
<1>5. rd # NoData => u > 0
  <2> SUFFICES ASSUME rd # NoData PROVE u > 0
    OBVIOUS
  <2>1. sb.wr_cell[L] \in SB!Cell /\ Pos(sb.wr_cell[L]) < u
    BY <1>1, <1>2 DEF ReadsFillCells
  <2> QED BY <1>2, <2>1
<1>6. u > 0 /\ ~hv => \E k \in SB!Stage : sb.reads[k] # NoData /\ sb.wr_cell[k] = sb.rd_ptr
  <2> SUFFICES ASSUME u > 0, ~hv PROVE SB!Arriving(sb, sb.rd_ptr) # {}
    BY DEF SB!Arriving
  <2> QED BY <1>1, <1>2, <1>3 DEF CellsFill
<1>7. ASSUME rd # NoData, ~hv PROVE sb.wr_cell[L] = sb.rd_ptr
  <2>1. PICK k \in SB!Stage : sb.reads[k] # NoData /\ sb.wr_cell[k] = sb.rd_ptr
    BY <1>5, <1>6, <1>7
  <2>2. k \in Int /\ k <= L
    BY <1>2 DEF SB!Stage
  <2>3. CASE k < L
    <3>1. Pos(sb.wr_cell[L]) < Pos(sb.wr_cell[k]) /\ sb.wr_cell[L] \in SB!Cell
      BY <1>1, <1>2, <1>7, <2>1, <2>3 DEF ReadsFillCells
    <3> QED BY <1>2, <2>1, <3>1
  <2>4. CASE k = L
    BY <2>1, <2>4
  <2> QED BY <1>2, <2>2, <2>3, <2>4
<1>8. SB!BypassWrite(sb, in) <=> SB!BypassBeat(sb, in) /\ ~(u = 0 /\ P)
  BY <1>1, RingFacts DEF SB!BypassWrite
<1>9. SB!RdDataWrite(sb, in) <=> rd # NoData /\ ~(~hv /\ P)
  BY CircWires DEF SB!RdDataWrite
<1>10. W <=> SB!RdAddrBeat(sb, in) \/ SB!BypassWrite(sb, in)
  BY DEF SB!AdvanceWr
<1>11. R <=> (hv \/ rd # NoData) /\ P
  BY CircWires
<1>12. CellsHoldEntries
  <2> SUFFICES ASSUME NEW c \in SB!Cell, Pos(c) < u PROVE SB!CellEntry(sb, c) \in Data
    BY DEF CellsHoldEntries
  <2>1. CASE sb.mem[c] # NoData
    BY <1>1, <2>1 DEF SB!CellEntry, BufferType, Word
  <2>2. CASE sb.mem[c] = NoData
    <3>1. PICK k \in SB!Stage : sb.reads[k] # NoData /\ sb.wr_cell[k] = c
      BY <1>1, <2>2 DEF CellsFill, SB!Arriving
    <3>2. SB!CellEntry(sb, c) = sb.reads[k]
      BY <1>1, <3>1, ReadsArriveNow DEF ReadsArrive
    <3> QED BY <1>1, <3>1, <3>2 DEF BufferType, Word
  <2> QED BY <2>1, <2>2
<1>13. ASSUME W, u = N PROVE R
  <2>1. SB!SpaceAvailable(sb, in)
    BY <1>8, <1>10, <1>13, GivenFacts
  <2>2. SB!Held(sb) = SB!Cells(sb) /\ SB!Cells(sb) \in Seq(Data) /\ Len(SB!Cells(sb)) = u
    BY <1>1, <1>2, <1>12, CellsSequence DEF CellsAreASequence, SB!Held
  <2>3. sb.staged = B2N(sb.reg # NoData) + u
    BY <1>1, <2>2, StagedLength DEF BufferInv
  <2>4. CASE RegisterPopOutputs
    <3>1. N = L
      BY <2>4, Constants
    <3>2. sb.staged < L + 1 => sb.reg = NoData
      <4> HIDE DEF N, L, u
      <4> QED BY <1>2, <1>13, <2>3, <3>1 DEF B2N
    <3>3. P
      BY <2>1, <2>4, <3>2, Constants
         DEF SB!SpaceAvailable, SB!InternalPopReady, InputType
    <3>4. hv \/ rd # NoData
      <4> SUFFICES ASSUME ~hv PROVE rd # NoData
        OBVIOUS
      <4>1. PICK k \in SB!Stage : sb.reads[k] # NoData /\ sb.wr_cell[k] = sb.rd_ptr
        BY <1>2, <1>6, <1>13
      <4>2. Pos(sb.rd_ptr) + k >= u
        BY <1>1, <4>1 DEF ReadsFillCells
      <4>3. k \in 1 .. L
        BY DEF SB!Stage
      <4> HIDE DEF N, L, u
      <4>4. k = L
        BY <1>2, <1>13, <3>1, <4>2, <4>3
      <4> QED BY <4>1, <4>4 DEF L
    <3> QED BY <1>11, <3>3, <3>4
  <2>5. CASE ~RegisterPopOutputs
    <3>1. N = L + 1 /\ BufferDepth = L + 1
      BY <2>5, Constants
    <3>2. ~(sb.staged < BufferDepth)
      <4>1. B2N(sb.reg # NoData) \in 0 .. 1
        BY DEF B2N
      <4> HIDE DEF N, L, u
      <4> QED BY <1>2, <1>13, <2>3, <3>1, <4>1
    <3>3. in.pop_ready /\ SB!internal_pop_valid_nonbypass(sb)
      BY <1>2, <2>1, <2>5, <3>2 DEF SB!SpaceAvailable, SB!pop_valid_nonbypass
    <3>4. hv \/ rd # NoData
      BY <1>2, <3>3 DEF SB!internal_pop_valid_nonbypass, SB!ReadReturns
    <3> QED BY <1>11, <2>5, <3>3, <3>4 DEF SB!InternalPopReady
  <2> QED BY <2>4, <2>5, Constants
<1> QED BY <1>2, <1>3, <1>4, <1>5, <1>7, <1>8, <1>9, <1>10, <1>11, <1>12, <1>13

(* A cell in use that is not freed in this cycle.                            *)
Kept(in, c) == Pos(c) < SB!CellsUsed(sb) /\ (SB!AdvanceRd(sb, in) => Pos(c) > 0)

(* What a cycle does to the places of the cells: the cells in use after it   *)
(* are those kept and the one allocated, which comes last.                   *)
LEMMA PlacesNext ==
  ASSUME NEW in, InputType(in), BufferInv, SB!InternalDepth > 1, EnableBypass,
         sb' = SB!StagingNext(sb, in)
  PROVE  /\ SB!CellsUsed(sb)' = SB!CellsUsed(sb) + B2N(SB!AdvanceWr(sb, in)) - B2N(SB!AdvanceRd(sb, in))
         /\ SB!CellsUsed(sb) \in Nat /\ SB!CellsUsed(sb)' \in Int
         /\ \A c \in SB!Cell :
               /\ Pos(c) \in Nat /\ Pos(c)' \in Int
               /\ Kept(in, c) => /\ Pos(c)' = Pos(c) - B2N(SB!AdvanceRd(sb, in))
                                 /\ Pos(c)' < SB!CellsUsed(sb)' - B2N(SB!AdvanceWr(sb, in))
               /\ SB!AdvanceWr(sb, in) /\ c = sb.wr_ptr => /\ ~Kept(in, c)
                                                           /\ Pos(c)' = SB!CellsUsed(sb)' - 1
               /\ Pos(c)' < SB!CellsUsed(sb)' => Kept(in, c) \/ (SB!AdvanceWr(sb, in) /\ c = sb.wr_ptr)
<1> DEFINE N == SB!InternalDepth
           u == SB!CellsUsed(sb)
           W == SB!AdvanceWr(sb, in)
           R == SB!AdvanceRd(sb, in)
<1>1. BufferType
  BY DEF BufferInv
<1>2. /\ N \in Nat /\ N > 1 /\ u \in 0 .. N /\ W \in BOOLEAN /\ R \in BOOLEAN
  BY <1>1, Constants, RingFacts DEF SB!AdvanceWr, SB!AdvanceRd
<1>3. (R => u > 0) /\ (W => u < N \/ R)
  BY AllocWires
<1>4. SB!CellsUsed(sb)' = u + B2N(W) - B2N(R)
  BY <1>1, <1>3, RingMoves
<1>5. ASSUME NEW c \in SB!Cell
      PROVE  /\ Pos(c) \in 0 .. N - 1
             /\ Pos(c)' = IF R THEN IF Pos(c) = 0 THEN N - 1 ELSE Pos(c) - 1 ELSE Pos(c)
             /\ u < N => (c = sb.wr_ptr <=> Pos(c) = u)
             /\ u = N => (c = sb.wr_ptr <=> Pos(c) = 0)
  <2>1. Pos(c) \in 0 .. N - 1 /\ SB!CellAt(sb, Pos(c)) = c
    BY <1>1, RingFacts
  <2>2. Pos(c)' = IF R THEN IF Pos(c) = 0 THEN N - 1 ELSE Pos(c) - 1 ELSE Pos(c)
    BY <1>1, <1>3, RingMoves
  <2>3. /\ sb.wr_ptr \in SB!Cell /\ SB!CellAt(sb, Pos(sb.wr_ptr)) = sb.wr_ptr
        /\ u < N => Pos(sb.wr_ptr) = u
        /\ u = N => Pos(sb.wr_ptr) = 0
    BY <1>1, RingFacts
  <2>4. c = sb.wr_ptr <=> Pos(c) = Pos(sb.wr_ptr)
    BY <2>1, <2>3
  <2> QED BY <2>1, <2>2, <2>3, <2>4
<1>6. SB!CellsUsed(sb)' \in Int
  <2> HIDE DEF N, u, W, R
  <2> QED BY <1>2, <1>4 DEF B2N
<1>7. ASSUME NEW c \in SB!Cell
      PROVE  /\ Kept(in, c) => Pos(c)' = Pos(c) - B2N(R) /\ Pos(c)' < SB!CellsUsed(sb)' - B2N(W)
             /\ W /\ c = sb.wr_ptr => ~Kept(in, c) /\ Pos(c)' = SB!CellsUsed(sb)' - 1
             /\ Pos(c)' < SB!CellsUsed(sb)' => Kept(in, c) \/ (W /\ c = sb.wr_ptr)
             /\ Pos(c)' \in Int
  <2>1. Kept(in, c) <=> Pos(c) < u /\ (R => Pos(c) > 0)
    BY DEF Kept
  <2> HIDE DEF N, u, W, R
  <2>2. CASE R
    BY <1>2, <1>3, <1>4, <1>5, <2>1, <2>2 DEF B2N
  <2>3. CASE ~R
    BY <1>2, <1>3, <1>4, <1>5, <2>1, <2>3 DEF B2N
  <2> QED BY <1>2, <2>2, <2>3
<1> QED BY <1>2, <1>4, <1>5, <1>6, <1>7

(* What a cycle does to the content of the cells: a returning read fills its *)
(* cell, a bypassed entry the one allocated, and a cell not in use is empty. *)
LEMMA ContentNext ==
  ASSUME NEW in, InputType(in), BufferInv, SB!InternalDepth > 1, EnableBypass,
         sb' = SB!StagingNext(sb, in), NEW c \in SB!Cell
  PROVE  LET L  == RamReadLatency
             rd == sb.reads[L]
         IN  /\ Kept(in, c) => sb'.mem[c] = IF rd # NoData /\ c = sb.wr_cell[L] THEN rd
                                            ELSE sb.mem[c]
             /\ SB!BypassWrite(sb, in) /\ c = sb.wr_ptr => sb'.mem[c] = in.bypass_data
             /\ ~Kept(in, c) /\ ~(SB!BypassWrite(sb, in) /\ c = sb.wr_ptr) => sb'.mem[c] = NoData
<1> DEFINE L == RamReadLatency
           u == SB!CellsUsed(sb)
           W == SB!AdvanceWr(sb, in)
           R == SB!AdvanceRd(sb, in)
           P == SB!InternalPopReady(sb, in)
           rd == sb.reads[L]
           hv == SB!head_valid(sb)
           BW == SB!BypassWrite(sb, in)
           RW == SB!RdDataWrite(sb, in)
<1>1. BufferType /\ CellsFill /\ ReadsFillCells
  BY DEF BufferInv, RingInv, CellsFill
<1>2. /\ L \in SB!Stage /\ u \in Nat /\ P \in BOOLEAN
      /\ sb.rd_ptr \in SB!Cell /\ Pos(sb.rd_ptr) = 0 /\ Pos(c) \in Nat /\ SB!CellAt(sb, Pos(c)) = c
      /\ SB!CellAt(sb, 0) = sb.rd_ptr
  BY <1>1, RingFacts, CircWires, Constants
<1>3. /\ hv <=> sb.mem[sb.rd_ptr] # NoData
      /\ hv => u > 0
      /\ rd # NoData => u > 0
      /\ rd # NoData /\ ~hv => sb.wr_cell[L] = sb.rd_ptr
      /\ RW <=> rd # NoData /\ ~(~hv /\ P)
      /\ R <=> (hv \/ rd # NoData) /\ P
      /\ BW => W
  BY AllocWires
<1>4. sb'.mem[c] = IF BW /\ c = sb.wr_ptr THEN in.bypass_data
                   ELSE IF RW /\ c = sb.wr_cell[L] THEN rd
                   ELSE IF R /\ c = sb.rd_ptr THEN NoData ELSE sb.mem[c]
  <2>1. sb'.mem = SB!MemNext(sb, in)
    BY NextFields
  <2>2. SB!DelayedCell(sb) = sb.wr_cell[L] /\ SB!RdData(sb, in) = rd
    BY CircWires DEF SB!DelayedCell
  <2>3. SB!InternalDepth # 1
    BY Constants
  <2> HIDE DEF rd
  <2> QED BY <2>1, <2>2, <2>3 DEF SB!MemNext
<1>5. rd # NoData => /\ sb.wr_cell[L] \in SB!Cell /\ Pos(sb.wr_cell[L]) < u
                     /\ sb.mem[sb.wr_cell[L]] = NoData
  BY <1>1, <1>2 DEF ReadsFillCells
<1>6. c = sb.rd_ptr <=> Pos(c) = 0
  BY <1>2
<1>7. W /\ c = sb.wr_ptr => ~Kept(in, c)
  BY PlacesNext
<1>8. Kept(in, c) <=> Pos(c) < u /\ (R => Pos(c) > 0)
  BY DEF Kept
<1>9. R /\ RW => c # sb.rd_ptr \/ c # sb.wr_cell[L]
  BY <1>3, <1>5
<1> HIDE DEF u, W, R, P, rd, hv, BW, RW
<1>10. ASSUME Kept(in, c)
       PROVE  sb'.mem[c] = IF rd # NoData /\ c = sb.wr_cell[L] THEN rd ELSE sb.mem[c]
  <2>1. ~(BW /\ c = sb.wr_ptr) /\ ~(R /\ c = sb.rd_ptr)
    BY <1>2, <1>3, <1>6, <1>7, <1>8, <1>10
  <2>2. rd # NoData /\ c = sb.wr_cell[L] => RW
    BY <1>3, <2>1
  <2> QED BY <1>3, <1>4, <2>1, <2>2
<1>11. ASSUME ~Kept(in, c), ~(BW /\ c = sb.wr_ptr)
       PROVE  sb'.mem[c] = NoData
  <2>1. CASE Pos(c) < u
    <3>1. R /\ c = sb.rd_ptr
      BY <1>2, <1>6, <1>8, <1>11, <2>1
    <3>2. ~(RW /\ c = sb.wr_cell[L])
      BY <1>9, <3>1
    <3> QED BY <1>4, <1>11, <3>1, <3>2
  <2>2. CASE ~(Pos(c) < u)
    <3>1. sb.mem[c] = NoData
      BY <1>1, <2>2 DEF CellsFill, u
    <3>2. ~(RW /\ c = sb.wr_cell[L])
      BY <1>3, <1>5, <2>2
    <3> QED BY <1>4, <1>11, <3>1, <3>2
  <2> QED BY <2>1, <2>2
<1> QED BY <1>4, <1>10, <1>11 DEF rd, BW

(* Where a read in flight after a cycle comes from: the stage before, still  *)
(* on its way to the same cell, which is kept; or it was issued in the cycle *)
(* for the cell allocated in it.                                             *)
LEMMA ReadsOrigin ==
  ASSUME NEW in, InputType(in), BufferInv, SB!InternalDepth > 1, EnableBypass,
         sb' = SB!StagingNext(sb, in), NEW k \in SB!Stage, sb'.reads[k] # NoData
  PROVE  /\ k > 1 => /\ k - 1 \in SB!Stage /\ sb.reads[k - 1] # NoData
                     /\ sb'.reads[k] = sb.reads[k - 1] /\ sb'.wr_cell[k] = sb.wr_cell[k - 1]
                     /\ Kept(in, sb.wr_cell[k - 1])
                     /\ sb.reads[RamReadLatency] # NoData
                           => sb.wr_cell[k - 1] # sb.wr_cell[RamReadLatency]
         /\ k = 1 => /\ SB!RdAddrBeat(sb, in) /\ ~SB!BypassWrite(sb, in) /\ SB!AdvanceWr(sb, in)
                     /\ sb'.reads[1] = in.rd_data /\ sb'.wr_cell[1] = sb.wr_ptr
<1> DEFINE L == RamReadLatency
           j == k - 1
           c == sb.wr_cell[j]
           rd == sb.reads[L]
<1>1. BufferType /\ ReadsFillCells
  BY DEF BufferInv, RingInv, CellsFill
<1>2. L \in SB!Stage /\ k \in 1 .. L /\ L \in Nat /\ sb.rd_ptr \in SB!Cell /\ Pos(sb.rd_ptr) = 0
  BY <1>1, RingFacts, CircWires, Constants DEF SB!Stage
<1>3. sb'.wr_cell = SB!WrCellNext(sb, in)
  BY NextFields
<1>4. ASSUME k > 1
      PROVE  /\ j \in SB!Stage /\ sb.reads[j] # NoData
             /\ sb'.reads[k] = sb.reads[j] /\ sb'.wr_cell[k] = c
             /\ Kept(in, c) /\ (rd # NoData => c # sb.wr_cell[L])
  <2>1. j \in SB!Stage /\ j < L /\ sb'.reads[k] = sb.reads[j]
    BY <1>1, <1>2, <1>4, ReadsMove DEF SB!Stage
  <2>2. sb.reads[j] # NoData /\ sb'.wr_cell[k] = c
    BY <1>2, <1>3, <1>4, <2>1 DEF SB!WrCellNext
  <2>3. c \in SB!Cell /\ Pos(c) < SB!CellsUsed(sb) /\ sb.mem[c] = NoData
    BY <1>1, <2>1, <2>2 DEF ReadsFillCells
  <2>4. Pos(c) \in Nat /\ SB!CellAt(sb, Pos(c)) = c /\ SB!CellAt(sb, 0) = sb.rd_ptr
    BY <1>1, <2>3, RingFacts, Constants
  <2>5. rd # NoData => sb.wr_cell[L] \in SB!Cell /\ Pos(sb.wr_cell[L]) < Pos(c)
    BY <1>1, <1>2, <2>1, <2>2 DEF ReadsFillCells
  <2>6. rd # NoData => Pos(sb.wr_cell[L]) \in Nat
    BY <1>1, <2>5, RingFacts, Constants
  <2>7. SB!AdvanceRd(sb, in) => sb.mem[sb.rd_ptr] # NoData \/ rd # NoData
    BY AllocWires
  <2>8. SB!AdvanceRd(sb, in) => Pos(c) > 0
    BY <2>3, <2>4, <2>5, <2>6, <2>7
  <2>9. rd # NoData => c # sb.wr_cell[L]
    BY <2>4, <2>5, <2>6
  <2> QED BY <2>1, <2>2, <2>3, <2>8, <2>9 DEF Kept
<1>5. ASSUME k = 1
      PROVE  /\ SB!RdAddrBeat(sb, in) /\ ~SB!BypassWrite(sb, in) /\ SB!AdvanceWr(sb, in)
             /\ sb'.reads[1] = in.rd_data /\ sb'.wr_cell[1] = sb.wr_ptr
  <2>1. SB!RdAddrBeat(sb, in) /\ sb'.reads[1] = in.rd_data
    BY <1>1, <1>2, <1>5, ReadsMove
  <2>2. ~SB!BypassWrite(sb, in)
    BY <2>1, GivenFacts DEF SB!BypassWrite
  <2>3. SB!AdvanceWr(sb, in)
    BY <2>1, AllocWires
  <2>4. sb'.wr_cell[1] = sb.wr_ptr
    BY <1>3, <1>5, <2>1 DEF SB!WrCellNext
  <2> QED BY <2>1, <2>2, <2>3, <2>4
<1> QED BY <1>4, <1>5

(* The reads in flight keep filling distinct cells in order.                 *)
LEMMA ReadsFillNext ==
  ASSUME NEW in, InputType(in), BufferInv, SB!InternalDepth > 1, EnableBypass,
         sb' = SB!StagingNext(sb, in)
  PROVE  ReadsFillCells'
<1> DEFINE L == RamReadLatency
           w == B2N(SB!AdvanceWr(sb, in))
           r == B2N(SB!AdvanceRd(sb, in))
           u == SB!CellsUsed(sb)
<1>1. BufferType /\ BufferType' /\ ReadsFillCells
  BY BufferTypeNext DEF BufferInv, RingInv, CellsFill
<1>2. L \in Nat /\ u \in Nat /\ SB!CellsUsed(sb)' = u + w - r /\ w \in 0 .. 1 /\ r \in 0 .. 1
  <2>1. w \in 0 .. 1 /\ r \in 0 .. 1
    BY DEF B2N
  <2> QED BY <2>1, Constants, PlacesNext
<1>3. sb.wr_ptr \in SB!Cell
  BY <1>1, RingFacts
<1>4. ASSUME NEW k \in SB!Stage, sb'.reads[k] # NoData, NEW d \in SB!Cell, d = sb'.wr_cell[k]
      PROVE  /\ Pos(d)' < u + w - r
             /\ Pos(d)' + k >= u + w - r
             /\ sb'.mem[d] = NoData
             /\ k > 1 => d = sb.wr_cell[k - 1] /\ Pos(d)' = Pos(d) - r /\ Pos(d)' < u + w - r - w
             /\ k = 1 => Pos(d)' = u + w - r - 1 /\ w = 1
  <2>1. CASE k > 1
    <3> DEFINE j == k - 1
    <3>1. /\ j \in SB!Stage /\ sb.reads[j] # NoData /\ d = sb.wr_cell[j] /\ Kept(in, d)
          /\ (sb.reads[L] # NoData => d # sb.wr_cell[L])
      BY <1>4, <2>1, ReadsOrigin
    <3>2. Pos(d) + j >= u /\ sb.mem[d] = NoData
      BY <1>1, <3>1 DEF ReadsFillCells
    <3>3. Pos(d)' = Pos(d) - r /\ Pos(d)' < u + w - r - w /\ Pos(d) \in Nat
      BY <1>2, <3>1, PlacesNext
    <3>4. sb'.mem[d] = NoData
      BY <3>1, <3>2, ContentNext
    <3>5. Pos(d)' + k >= u + w - r
      <4>1. k \in Int /\ j = k - 1
        BY DEF SB!Stage
      <4> HIDE DEF w, r, u, j
      <4> QED BY <1>2, <3>2, <3>3, <4>1
    <3>6. k # 1 /\ (Pos(d)' < u + w - r)
      <4> HIDE DEF w, r, u
      <4> QED BY <1>2, <2>1, <3>3
    <3> QED BY <3>1, <3>3, <3>4, <3>5, <3>6
  <2>2. CASE ~(k > 1)
    <3>1. k = 1
      BY <2>2 DEF SB!Stage
    <3>2. SB!AdvanceWr(sb, in) /\ ~SB!BypassWrite(sb, in) /\ d = sb.wr_ptr
      BY <1>4, <3>1, ReadsOrigin
    <3>3. ~Kept(in, d) /\ Pos(d)' = SB!CellsUsed(sb)' - 1
      BY <3>2, PlacesNext
    <3>4. sb'.mem[d] = NoData
      BY <3>2, <3>3, ContentNext
    <3>5. w = 1
      BY <3>2 DEF B2N
    <3>6. Pos(d)' = u + w - r - 1
      BY <1>2, <3>3
    <3>7. Pos(d)' < u + w - r /\ Pos(d)' + k >= u + w - r
      <4> HIDE DEF w, r, u
      <4> QED BY <1>2, <3>1, <3>6
    <3> QED BY <2>2, <3>4, <3>5, <3>6, <3>7
  <2> QED BY <2>1, <2>2
<1>5. ASSUME NEW k \in SB!Stage, sb'.reads[k] # NoData
      PROVE  sb'.wr_cell[k] \in SB!Cell
  <2>1. CASE k > 1
    <3>1. k - 1 \in SB!Stage /\ sb.reads[k - 1] # NoData /\ sb'.wr_cell[k] = sb.wr_cell[k - 1]
      BY <1>5, <2>1, ReadsOrigin
    <3> QED BY <1>1, <3>1 DEF ReadsFillCells
  <2>2. CASE ~(k > 1)
    <3>1. k = 1
      BY <2>2 DEF SB!Stage
    <3> QED BY <1>3, <1>5, <3>1, ReadsOrigin
  <2> QED BY <2>1, <2>2
<1>6. ASSUME NEW k \in SB!Stage, sb'.reads[k] # NoData
      PROVE  /\ sb'.wr_cell[k] \in SB!Cell
             /\ (Pos(sb.wr_cell[k]) < SB!CellsUsed(sb))'
             /\ (Pos(sb.wr_cell[k]) + k >= SB!CellsUsed(sb))'
             /\ sb'.mem[sb'.wr_cell[k]] = NoData
  <2>1. PICK d \in SB!Cell : d = sb'.wr_cell[k]
    BY <1>5, <1>6
  <2>2. Pos(sb.wr_cell[k])' = Pos(d)'
    BY <2>1 DEF Pos
  <2> HIDE DEF w, r, u
  <2> QED BY <1>2, <1>4, <1>6, <2>1, <2>2
<1>7. ASSUME NEW i \in SB!Stage, NEW k \in SB!Stage, i < k,
             sb'.reads[i] # NoData, sb'.reads[k] # NoData
      PROVE  (Pos(sb.wr_cell[k]) < Pos(sb.wr_cell[i]))'
  <2>1. PICK d, e \in SB!Cell : d = sb'.wr_cell[i] /\ e = sb'.wr_cell[k]
    BY <1>5, <1>7
  <2>2. Pos(sb.wr_cell[i])' = Pos(d)' /\ Pos(sb.wr_cell[k])' = Pos(e)'
    BY <2>1 DEF Pos
  <2>3. i \in 1 .. L /\ k \in 1 .. L /\ k > 1
    BY <1>2, <1>7 DEF SB!Stage
  <2>4. e = sb.wr_cell[k - 1] /\ Pos(e)' = Pos(e) - r /\ Pos(e)' < u + w - r - w
    BY <1>4, <1>7, <2>1, <2>3
  <2>5. Pos(e) \in Nat /\ Pos(d) \in Nat
    BY PlacesNext
  <2>6. CASE i = 1
    <3>1. Pos(d)' = u + w - r - 1 /\ w = 1
      BY <1>4, <1>7, <2>1, <2>6
    <3> HIDE DEF w, r, u
    <3> QED BY <1>2, <2>2, <2>4, <2>5, <3>1
  <2>7. CASE i # 1
    <3>1. i > 1
      BY <2>3, <2>7
    <3>2. d = sb.wr_cell[i - 1] /\ Pos(d)' = Pos(d) - r
      BY <1>4, <1>7, <2>1, <3>1
    <3>3. /\ i - 1 \in SB!Stage /\ k - 1 \in SB!Stage /\ i - 1 < k - 1
          /\ sb.reads[i - 1] # NoData /\ sb.reads[k - 1] # NoData
      BY <1>7, <2>3, <3>1, ReadsOrigin
    <3>4. Pos(e) < Pos(d)
      BY <1>1, <2>4, <3>2, <3>3 DEF ReadsFillCells
    <3> HIDE DEF w, r, u
    <3> QED BY <1>2, <2>2, <2>4, <2>5, <3>2, <3>4
  <2> QED BY <2>6, <2>7
<1> QED BY <1>6, <1>7 DEF ReadsFillCells, SB!Stage, SB!Cell, SB!InternalDepth

(* A read that does not return goes a stage further, on its way to the same  *)
(* cell.                                                                     *)
LEMMA ReadsGoOn ==
  ASSUME NEW in, InputType(in), BufferType, SB!InternalDepth > 1, EnableBypass,
         sb' = SB!StagingNext(sb, in), NEW k \in SB!Stage, k < RamReadLatency, sb.reads[k] # NoData
  PROVE  /\ k + 1 \in SB!Stage /\ sb'.reads[k + 1] = sb.reads[k]
         /\ sb'.wr_cell[k + 1] = sb.wr_cell[k]
<1>1. k + 1 \in SB!Stage /\ k + 1 > 1 /\ (k + 1) - 1 = k /\ k + 1 # 1
  BY Constants DEF SB!Stage
<1> DEFINE j == k + 1
<1>2. sb'.reads[j] = sb.reads[j - 1]
  <2> HIDE DEF j
  <2> QED BY <1>1, ReadsMove DEF j
<1>3. sb'.wr_cell[j] = IF sb.reads[j - 1] # NoData THEN sb.wr_cell[j - 1] ELSE sb.wr_cell[j]
  <2>1. sb'.wr_cell = SB!WrCellNext(sb, in)
    BY NextFields
  <2>2. j \in SB!Stage /\ j # 1
    BY <1>1
  <2> HIDE DEF j
  <2> QED BY <2>1, <2>2 DEF SB!WrCellNext
<1> QED BY <1>1, <1>2, <1>3

(* An entry stays in its cell, whether it has arrived there or not.          *)
LEMMA EntriesNext ==
  ASSUME NEW in, InputType(in), BufferInv, SB!InternalDepth > 1, EnableBypass,
         sb' = SB!StagingNext(sb, in), NEW c \in SB!Cell
  PROVE  /\ Kept(in, c) => SB!CellEntry(sb, c)' = SB!CellEntry(sb, c)
         /\ SB!AdvanceWr(sb, in) /\ c = sb.wr_ptr
               => SB!CellEntry(sb, c)' = IF SB!BypassWrite(sb, in) THEN in.bypass_data ELSE in.rd_data
         /\ Pos(c)' < SB!CellsUsed(sb)' => sb'.mem[c] # NoData \/ SB!Arriving(sb, c)' # {}
<1> DEFINE L == RamReadLatency
           rd == sb.reads[L]
<1>1. BufferType /\ BufferType' /\ CellsFill /\ ReadsFillCells /\ ReadsFillCells'
  BY BufferTypeNext, ReadsFillNext DEF BufferInv, RingInv, CellsFill
<1>2. L \in Nat /\ L \in SB!Stage /\ 1 \in SB!Stage /\ SB!InternalDepth \in Nat
  BY Constants, CircWires
<1>3. sb'.mem[c] # NoData => SB!CellEntry(sb, c)' = sb'.mem[c]
  BY DEF SB!CellEntry
<1>4. ASSUME NEW k \in SB!Stage, sb'.reads[k] # NoData, sb'.wr_cell[k] = c
      PROVE  SB!CellEntry(sb, c)' = sb'.reads[k] /\ SB!Arriving(sb, c)' # {}
  <2>1. ReadsArrive'
    BY <1>1, ReadsArriveNext
  <2>2. SB!CellEntry(sb, sb.wr_cell[k])' = sb'.reads[k]
    BY <1>4, <2>1 DEF ReadsArrive, SB!Stage
  <2>3. SB!CellEntry(sb, sb.wr_cell[k])' = SB!CellEntry(sb, c)'
    BY <1>4 DEF SB!CellEntry, SB!Arriving
  <2>4. k \in SB!Arriving(sb, c)'
    BY <1>4 DEF SB!Arriving, SB!Stage
  <2> QED BY <2>2, <2>3, <2>4
<1>5. ASSUME Kept(in, c)
      PROVE  /\ SB!CellEntry(sb, c)' = SB!CellEntry(sb, c)
             /\ sb'.mem[c] # NoData \/ SB!Arriving(sb, c)' # {}
  <2>1. sb'.mem[c] = IF rd # NoData /\ c = sb.wr_cell[L] THEN rd ELSE sb.mem[c]
    BY <1>5, ContentNext
  <2>2. rd # NoData /\ c = sb.wr_cell[L] => sb.mem[c] = NoData
    BY <1>1, <1>2 DEF ReadsFillCells
  <2>3. CASE sb.mem[c] # NoData
    <3>1. SB!CellEntry(sb, c) = sb.mem[c]
      BY <2>3 DEF SB!CellEntry
    <3> QED BY <1>3, <2>1, <2>2, <2>3, <3>1
  <2>4. CASE sb.mem[c] = NoData
    <3>1. PICK k \in SB!Stage : sb.reads[k] # NoData /\ sb.wr_cell[k] = c
      BY <1>1, <1>5, <2>4 DEF CellsFill, SB!Arriving, Kept
    <3>2. SB!CellEntry(sb, c) = sb.reads[k]
      BY <1>1, <3>1, ReadsArriveNow DEF ReadsArrive
    <3>3. CASE k < L
      <4>1. k + 1 \in SB!Stage /\ sb'.reads[k + 1] = sb.reads[k] /\ sb'.wr_cell[k + 1] = c
        BY <1>1, <3>1, <3>3, ReadsGoOn
      <4> QED BY <1>4, <3>1, <3>2, <4>1
    <3>4. CASE ~(k < L)
      <4>1. k = L
        BY <1>2, <3>4 DEF SB!Stage
      <4> QED BY <1>3, <2>1, <3>1, <3>2, <4>1
    <3> QED BY <3>3, <3>4
  <2> QED BY <2>3, <2>4
<1>6. ASSUME SB!AdvanceWr(sb, in), c = sb.wr_ptr
      PROVE  /\ SB!CellEntry(sb, c)' = IF SB!BypassWrite(sb, in) THEN in.bypass_data ELSE in.rd_data
             /\ sb'.mem[c] # NoData \/ SB!Arriving(sb, c)' # {}
  <2>1. CASE SB!BypassWrite(sb, in)
    <3>1. sb'.mem[c] = in.bypass_data
      BY <1>6, <2>1, ContentNext
    <3>2. in.bypass_data # NoData
      BY Constants DEF InputType
    <3> QED BY <1>3, <2>1, <3>1, <3>2
  <2>2. CASE ~SB!BypassWrite(sb, in)
    <3>1. SB!RdAddrBeat(sb, in)
      BY <1>6, <2>2, AllocWires
    <3>2. sb'.reads[1] = in.rd_data /\ in.rd_data # NoData
      BY <1>1, <1>2, <3>1, ReadsMove, Constants DEF InputType, SB!Stage
    <3>3. sb'.wr_cell[1] = c
      BY <1>2, <1>6, <3>2, ReadsOrigin
    <3> QED BY <1>2, <1>4, <2>2, <3>2, <3>3
  <2> QED BY <2>1, <2>2
<1>7. Pos(c)' < SB!CellsUsed(sb)' => Kept(in, c) \/ (SB!AdvanceWr(sb, in) /\ c = sb.wr_ptr)
  BY PlacesNext
<1> QED BY <1>5, <1>6, <1>7

(* Every cell in use holds an entry or will be filled, and no other.         *)
LEMMA CellsFillNext ==
  ASSUME NEW in, InputType(in), BufferInv, SB!InternalDepth > 1, EnableBypass,
         sb' = SB!StagingNext(sb, in)
  PROVE  CellsFill'
<1>1. ReadsFillCells'
  BY ReadsFillNext
<1>2. ASSUME NEW c \in SB!Cell
      PROVE  IF Pos(c)' < SB!CellsUsed(sb)'
             THEN sb'.mem[c] # NoData \/ SB!Arriving(sb, c)' # {}
             ELSE sb'.mem[c] = NoData
  <2>1. CASE Pos(c)' < SB!CellsUsed(sb)'
    BY <2>1, EntriesNext
  <2>2. CASE ~(Pos(c)' < SB!CellsUsed(sb)')
    <3>1. SB!CellsUsed(sb)' \in Int /\ Pos(c)' \in Int /\ B2N(SB!AdvanceWr(sb, in)) \in 0 .. 1
      BY PlacesNext DEF B2N
    <3>2. ~Kept(in, c)
      <4> SUFFICES ASSUME Kept(in, c) PROVE FALSE
        OBVIOUS
      <4>1. Pos(c)' < SB!CellsUsed(sb)' - B2N(SB!AdvanceWr(sb, in))
        BY PlacesNext
      <4> QED BY <2>2, <3>1, <4>1
    <3>3. ~(SB!AdvanceWr(sb, in) /\ c = sb.wr_ptr)
      <4>1. SB!AdvanceWr(sb, in) /\ c = sb.wr_ptr => Pos(c)' = SB!CellsUsed(sb)' - 1
        BY PlacesNext
      <4>2. Pos(c)' # SB!CellsUsed(sb)' - 1
        BY <2>2, <3>1
      <4> QED BY <4>1, <4>2
    <3>4. ~(SB!BypassWrite(sb, in) /\ c = sb.wr_ptr)
      BY <3>3, AllocWires
    <3>5. sb'.mem[c] = NoData
      BY <3>2, <3>4, ContentNext
    <3> QED BY <2>2, <3>5
  <2> QED BY <2>1, <2>2
<1> QED BY <1>1, <1>2 DEF CellsFill, SB!Cell, SB!InternalDepth

(* With the bypass: what leaves the cells and goes into them, whether it     *)
(* comes from the bypass at once or from the RAM later.                      *)
LEMMA AllocateOnIssue ==
  ASSUME NEW in, InputType(in), BufferInv, sb' = SB!StagingNext(sb, in),
         SB!InternalDepth > 1, EnableBypass
  PROVE  /\ SB!Held(sb) \in Seq(Data) /\ SB!Held(sb)' \in Seq(Data) /\ Moved(in) \in Seq(Data)
         /\ Moved(in) \o SB!Held(sb)' = SB!Held(sb) \o Given(in)
         /\ CellsFill'
<1> DEFINE L == RamReadLatency
           u == SB!CellsUsed(sb)
           W == SB!AdvanceWr(sb, in)
           R == SB!AdvanceRd(sb, in)
           A == SB!RdAddrBeat(sb, in)
           B == SB!BypassBeat(sb, in)
           BW == SB!BypassWrite(sb, in)
           P == SB!InternalPopReady(sb, in)
           rd == sb.reads[L]
           hv == SB!head_valid(sb)
           x == IF BW THEN in.bypass_data ELSE IF A THEN in.rd_data ELSE in.bypass_data
           y == IF R THEN SB!CellEntry(sb, sb.rd_ptr) ELSE in.bypass_data
<1>1. BufferType /\ BufferType' /\ ReadsFillCells
  BY BufferTypeNext DEF BufferInv, RingInv, CellsFill
<1>2. L \in SB!Stage /\ u \in Nat /\ P \in BOOLEAN /\ SB!InternalDepth \in Nat
  BY <1>1, RingFacts, CircWires, Constants
<1>3. /\ hv <=> sb.mem[sb.rd_ptr] # NoData
      /\ hv => u > 0
      /\ rd # NoData => u > 0
      /\ rd # NoData /\ ~hv => sb.wr_cell[L] = sb.rd_ptr
      /\ BW <=> B /\ ~(u = 0 /\ P)
      /\ W <=> A \/ BW
      /\ R <=> (hv \/ rd # NoData) /\ P
      /\ CellsHoldEntries
      /\ W => u < SB!InternalDepth \/ R
  BY AllocWires
<1>4. A \in BOOLEAN /\ B \in BOOLEAN /\ ~(A /\ B) /\ W \in BOOLEAN /\ R \in BOOLEAN
  BY <1>3, GivenFacts DEF SB!AdvanceWr, SB!AdvanceRd
<1>5. R => u > 0
  BY <1>3
<1>6. hv \/ rd # NoData
        => SB!CellEntry(sb, sb.rd_ptr) = IF hv THEN sb.mem[sb.rd_ptr] ELSE rd
  <2>1. hv => SB!CellEntry(sb, sb.rd_ptr) = sb.mem[sb.rd_ptr]
    BY <1>3 DEF SB!CellEntry
  <2>2. rd # NoData => SB!CellEntry(sb, sb.wr_cell[L]) = rd
    BY <1>1, <1>2, ReadsArriveNow DEF ReadsArrive
  <2> QED BY <1>3, <2>1, <2>2
<1>7. x \in Data /\ y \in Data /\ in.bypass_data \in Data
  <2>1. in.bypass_data \in Data /\ (A => in.rd_data \in Data)
    BY DEF InputType
  <2>2. R => SB!CellEntry(sb, sb.rd_ptr) \in Data
    <3>1. sb.rd_ptr \in SB!Cell /\ Pos(sb.rd_ptr) = 0
      BY <1>1, RingFacts
    <3> QED BY <1>3, <1>5, <3>1 DEF CellsHoldEntries
  <2> QED BY <2>1, <2>2
<1>8. ASSUME NEW c \in SB!Cell
      PROVE  /\ Pos(c) < u /\ (R => Pos(c) > 0) => SB!CellEntry(sb, c)' = SB!CellEntry(sb, c)
             /\ W /\ c = sb.wr_ptr => SB!CellEntry(sb, c)' = x
  BY <1>3, EntriesNext DEF Kept
<1>9. /\ CellsHoldEntries' /\ SB!Cells(sb) \in Seq(Data) /\ SB!Cells(sb)' \in Seq(Data)
      /\ (IF R THEN <<y>> ELSE <<>>) \o SB!Cells(sb)' = SB!Cells(sb) \o (IF W THEN <<x>> ELSE <<>>)
  <2>1. R => y = SB!CellEntry(sb, sb.rd_ptr)
    OBVIOUS
  <2> HIDE DEF x, y
  <2> QED BY <1>1, <1>3, <1>5, <1>7, <1>8, <2>1, CellsMove
<1>10. SB!Held(sb) = SB!Cells(sb) /\ SB!Held(sb)' = SB!Cells(sb)'
  BY Constants DEF SB!Held, SB!InternalDepth
<1>11. /\ SB!InternalPopValid(sb, in) <=> hv \/ rd # NoData \/ (u = 0 /\ B)
       /\ SB!InternalPopData(sb, in) = IF hv THEN sb.mem[sb.rd_ptr]
                                       ELSE IF rd # NoData THEN rd ELSE in.bypass_data
  <2>1. SB!circ_empty(sb) <=> u = 0
    BY <1>1, RingFacts
  <2> QED BY <2>1, CircWires
<1>12. Given(in) = IF A THEN <<in.rd_data>> ELSE IF B THEN <<in.bypass_data>> ELSE <<>>
  BY DEF Given
<1>13. Moved(in) \in Seq(Data) /\ Moved(in) \o SB!Cells(sb)' = SB!Cells(sb) \o Given(in)
  <2>1. CASE u = 0 /\ B /\ P
    <3>1. Moved(in) = <<in.bypass_data>>
      BY <1>3, <1>11, <2>1 DEF Moved, InternalBeat
    <3>2. Given(in) = <<in.bypass_data>>
      BY <1>4, <1>12, <2>1
    <3>3. ~R /\ ~W
      BY <1>3, <1>4, <1>5, <2>1
    <3>4. SB!Cells(sb) = <<>>
      <4>1. Len(SB!Cells(sb)) = 0
        BY <1>1, <1>3, <2>1, CellsSequence DEF CellsAreASequence
      <4> QED BY <1>9, <4>1
    <3>5. SB!Cells(sb)' = <<>>
      <4>1. <<>> \o SB!Cells(sb)' = SB!Cells(sb) \o <<>>
        BY <1>9, <3>3
      <4> QED BY <1>9, <3>4, <4>1, Joined
    <3> QED BY <1>7, <3>1, <3>2, <3>4, <3>5, Pairs
  <2>2. CASE ~(u = 0 /\ B /\ P)
    <3>1. (R <=> InternalBeat(in)) /\ (BW <=> B)
      BY <1>3, <1>11, <2>2 DEF InternalBeat
    <3>2. Moved(in) = IF R THEN <<y>> ELSE <<>>
      <4>1. R => SB!InternalPopData(sb, in) = y
        BY <1>3, <1>6, <1>11
      <4> HIDE DEF y
      <4> QED BY <3>1, <4>1 DEF Moved
    <3>3. Given(in) = IF W THEN <<x>> ELSE <<>>
      BY <1>3, <1>4, <1>12, <3>1
    <3>4. Moved(in) \in Seq(Data)
      BY <1>7, <3>2
    <3> HIDE DEF x, y, R, W
    <3> QED BY <1>9, <3>2, <3>3, <3>4
  <2> QED BY <2>1, <2>2
<1>14. CellsFill'
  BY CellsFillNext
<1> QED BY <1>9, <1>10, <1>13, <1>14

-----------------------------------------------------------------------------
(* The staging buffer as a whole: whatever its depth, the buffer behind the  *)
(* output register is a queue.                                               *)
LEMMA HeldMoves ==
  ASSUME NEW in, InputType(in), BufferInv, sb' = SB!StagingNext(sb, in)
  PROVE  /\ QueueStep(Moved(in), SB!Held(sb), SB!Held(sb)', Given(in))
         /\ InflightInv' /\ RingInv'
<1>1. SB!InternalDepth \in Nat /\ SB!InternalDepth' = SB!InternalDepth
  BY Constants DEF SB!InternalDepth
<1>2. Given(in) \in Seq(Data)
  BY GivenFacts
<1>3. CASE SB!InternalDepth = 0
  <2>1. SB!Held(sb) = <<>> /\ SB!Held(sb)' = <<>> /\ Moved(in) = Given(in)
    BY <1>3, NoBufferMoves
  <2>2. QueueStep(Moved(in), SB!Held(sb), SB!Held(sb)', Given(in))
    BY <1>2, <2>1, Joined DEF QueueStep
  <2> QED BY <1>1, <1>3, <2>2 DEF InflightInv, RingInv
<1>4. CASE SB!InternalDepth = 1
  BY <1>1, <1>2, <1>4, SingleEntryMoves DEF QueueStep, RingInv
<1>5. CASE SB!InternalDepth > 1
  <2>1. CASE EnableBypass
    BY <1>1, <1>2, <1>5, <2>1, AllocateOnIssue DEF QueueStep, RingInv, InflightInv
  <2>2. CASE ~EnableBypass
    BY <1>1, <1>2, <1>5, <2>2, FillOnReturn DEF QueueStep, RingInv, InflightInv
  <2> QED BY <2>1, <2>2, Constants
<1> QED BY <1>1, <1>3, <1>4, <1>5

(* The output register, where there is one, is a queue of one place.         *)
LEMMA RegMoves ==
  ASSUME NEW in, InputType(in), BufferInv, sb' = SB!StagingNext(sb, in)
  PROVE  QueueStep(Taken(in), SB!One(sb.reg), SB!One(sb'.reg), Moved(in))
<1> DEFINE x == SB!InternalPopData(sb, in)
           valid == SB!InternalPopValid(sb, in)
<1>1. Moved(in) \in Seq(Data)
  BY HeldMoves DEF QueueStep
<1>2. InternalBeat(in) => x \in Data /\ x # NoData
  <2> SUFFICES ASSUME InternalBeat(in) PROVE x \in Data
    BY Constants
  <2>1. <<x>> \in Seq(Data)
    BY <1>1 DEF Moved
  <2>2. 1 \in 1 .. Len(<<x>>) /\ <<x>>[1] = x
    OBVIOUS
  <2> HIDE DEF x
  <2> QED BY <2>1, <2>2
<1>3. sb.reg \in Word /\ sb'.reg = SB!RegNext(sb, in) /\ (~RegisterPopOutputs => sb.reg = NoData)
  BY NextFields DEF BufferInv, BufferType
<1>4. NoData \in Word /\ in.pop_ready \in BOOLEAN /\ SB!One(NoData) = <<>>
  BY DEF Word, InputType, SB!One
<1>5. sb.reg # NoData => sb.reg \in Data
  BY <1>3 DEF Word
<1>6. /\ sb.reg = NoData => SB!One(sb.reg) = <<>>
      /\ sb.reg # NoData => SB!One(sb.reg) = <<sb.reg>>
  BY DEF SB!One
<1>7. CASE RegisterPopOutputs
  <2>1. Taken(in) = IF sb.reg # NoData /\ in.pop_ready THEN <<sb.reg>> ELSE <<>>
    BY <1>7 DEF Taken, SB!PopBeat, SB!PopValid, SB!PopData
  <2>2. InternalBeat(in) <=> valid /\ (in.pop_ready \/ sb.reg = NoData)
    BY <1>7 DEF InternalBeat, SB!InternalPopReady
  <2>3. sb'.reg = IF in.pop_ready \/ sb.reg = NoData THEN IF valid THEN x ELSE NoData
                  ELSE sb.reg
    BY <1>3, <1>7 DEF SB!RegNext, SB!InternalPopReady
  <2> HIDE DEF x, valid
  <2>4. Moved(in) = IF InternalBeat(in) THEN <<x>> ELSE <<>>
    BY DEF Moved, x
  <2>5. InternalBeat(in) => SB!One(x) = <<x>>
    BY <1>2 DEF SB!One
  <2>6. CASE sb.reg # NoData /\ ~in.pop_ready
    <3>1. /\ Taken(in) = <<>> /\ Moved(in) = <<>>
          /\ SB!One(sb'.reg) = <<sb.reg>> /\ SB!One(sb.reg) = <<sb.reg>>
      BY <1>6, <2>1, <2>2, <2>3, <2>4, <2>6
    <3> QED BY <1>5, <2>6, <3>1, Pairs DEF QueueStep
  <2>7. CASE ~(sb.reg # NoData /\ ~in.pop_ready)
    <3>1. Taken(in) = SB!One(sb.reg) /\ SB!One(sb'.reg) = Moved(in)
      BY <1>4, <1>6, <2>1, <2>2, <2>3, <2>4, <2>5, <2>7
    <3>2. SB!One(sb.reg) \in Seq(Data)
      BY <1>3, OneFacts
    <3> QED BY <1>1, <3>1, <3>2, Joined DEF QueueStep
  <2> QED BY <2>6, <2>7
<1>8. CASE ~RegisterPopOutputs
  <2>1. Taken(in) = Moved(in)
    BY <1>8 DEF Taken, Moved, InternalBeat, SB!PopBeat, SB!PopValid, SB!PopData,
                SB!InternalPopReady
  <2>2. SB!One(sb.reg) = <<>> /\ SB!One(sb'.reg) = <<>>
    BY <1>3, <1>4, <1>8 DEF SB!RegNext
  <2> QED BY <1>1, <2>1, <2>2, Joined DEF QueueStep
<1> QED BY <1>7, <1>8, Constants

(* What the consumer takes leaves the staged entries, what is read from the  *)
(* RAM or bypasses it joins them.                                            *)
LEMMA StagedMoves ==
  ASSUME NEW in, InputType(in), BufferInv, sb' = SB!StagingNext(sb, in)
  PROVE  QueueStep(Taken(in), SB!Staged(sb), SB!Staged(sb)', Given(in))
<1>1. QueueStep(Taken(in), SB!One(sb.reg), SB!One(sb'.reg), Moved(in))
  BY RegMoves
<1>2. QueueStep(Moved(in), SB!Held(sb), SB!Held(sb)', Given(in))
  BY HeldMoves
<1>3. SB!Staged(sb) = SB!One(sb.reg) \o SB!Held(sb) /\ SB!Staged(sb)' = SB!One(sb'.reg) \o SB!Held(sb)'
  BY DEF SB!Staged, SB!One
<1> QED BY <1>1, <1>2, <1>3, InSeries

(* A full staging buffer asks for more only while the consumer takes an      *)
(* entry in the same cycle.                                                  *)
LEMMA SpaceMeansPop ==
  ASSUME NEW in, InputType(in), BufferInv, SB!SpaceAvailable(sb, in)
  PROVE  sb.staged < BufferDepth \/ SB!PopBeat(sb, in)
<1> SUFFICES ASSUME ~(sb.staged < BufferDepth) PROVE SB!PopBeat(sb, in)
  OBVIOUS
<1>1. in.pop_ready /\ (RamReadLatency > 0 => SB!pop_valid_nonbypass(sb))
  BY DEF SB!SpaceAvailable
<1>2. CASE RamReadLatency > 0
  <2>1. CASE RegisterPopOutputs
    BY <1>1, <1>2, <2>1 DEF SB!pop_valid_nonbypass, SB!PopBeat, SB!PopValid
  <2>2. CASE ~RegisterPopOutputs
    <3>1. SB!internal_pop_valid_nonbypass(sb)
      BY <1>1, <1>2, <2>2 DEF SB!pop_valid_nonbypass
    <3>2. SB!InternalDepth > 1
      BY <1>2, <2>2, Constants
    <3>3. SB!InternalPopValid(sb, in)
      BY <3>1, <3>2, CircWires, Constants DEF SB!internal_pop_valid_nonbypass, SB!ReadReturns
    <3> QED BY <1>1, <2>2, <3>3 DEF SB!PopBeat, SB!PopValid
  <2> QED BY <2>1, <2>2, Constants
<1>3. CASE ~(RamReadLatency > 0)
  <2>1. RamReadLatency = 0 /\ RegisterPopOutputs /\ SB!InternalDepth = 0 /\ BufferDepth = 1
    BY <1>3, Constants
  <2>2. SB!Held(sb) = <<>>
    <3>1. SB!InStages(sb.reads) = <<>>
      BY <2>1, StagesFacts DEF BufferInv, BufferType
    <3> QED BY <2>1, <3>1 DEF SB!Held, SB!InFlight
  <2>3. SB!Held(sb) \in Seq(Data) /\ Len(SB!Held(sb)) = 0
    BY <2>2
  <2>4. sb.staged = B2N(sb.reg # NoData)
    <3>1. Len(SB!Staged(sb)) = B2N(sb.reg # NoData) + Len(SB!Held(sb))
      BY <2>3, StagedLength DEF BufferInv
    <3>2. B2N(sb.reg # NoData) \in 0 .. 1
      BY DEF B2N
    <3> QED BY <2>3, <3>1, <3>2 DEF BufferInv
  <2>5. sb.reg # NoData
    BY <2>1, <2>4 DEF B2N
  <2> QED BY <1>1, <2>1, <2>5 DEF SB!PopBeat, SB!PopValid
<1> QED BY <1>2, <1>3, Constants

(* The invariant of the staging buffer holds after every cycle.              *)
LEMMA BufferInvNext ==
  ASSUME NEW in, InputType(in), BufferInv, sb' = SB!StagingNext(sb, in)
  PROVE  /\ BufferInv'
         /\ sb'.staged = sb.staged + B2N(SB!RdAddrBeat(sb, in) \/ SB!BypassBeat(sb, in))
                                   - B2N(SB!PopBeat(sb, in))
         /\ SB!PopBeat(sb, in) => sb.staged + B2N(SB!RdAddrBeat(sb, in) \/ SB!BypassBeat(sb, in)) > 0
<1> DEFINE g == SB!RdAddrBeat(sb, in) \/ SB!BypassBeat(sb, in)
           p == SB!PopBeat(sb, in)
<1>1. BufferType' /\ InflightInv' /\ RingInv'
  BY BufferTypeNext, HeldMoves DEF BufferInv
<1>2. sb'.staged = sb.staged + B2N(g) - B2N(p)
  BY NextFields DEF SB!StagedNext, SB!B2N, B2N
<1>3. /\ Taken(in) \in Seq(Data) /\ SB!Staged(sb) \in Seq(Data) /\ SB!Staged(sb)' \in Seq(Data)
      /\ Given(in) \in Seq(Data)
      /\ Taken(in) \o SB!Staged(sb)' = SB!Staged(sb) \o Given(in)
  BY StagedMoves DEF QueueStep
<1>4. Len(Taken(in)) + Len(SB!Staged(sb)') = Len(SB!Staged(sb)) + Len(Given(in))
  BY <1>3, Joined
<1>5. Len(Taken(in)) = B2N(p) /\ Len(Given(in)) = B2N(g)
  BY GivenFacts DEF Taken, B2N
<1>6. /\ sb.staged = Len(SB!Staged(sb)) /\ sb.staged <= BufferDepth /\ BufferDepth \in Nat
      /\ Len(SB!Staged(sb)') \in Nat /\ Len(SB!Staged(sb)) \in Nat
  BY <1>3, Constants DEF BufferInv
<1>7. g => sb.staged < BufferDepth \/ p
  BY GivenFacts, SpaceMeansPop
<1> HIDE DEF g, p
<1>8. /\ sb'.staged = Len(SB!Staged(sb)') /\ sb'.staged \in Nat /\ sb'.staged <= BufferDepth
      /\ p => sb.staged + B2N(g) > 0
  BY <1>2, <1>4, <1>5, <1>6, <1>7 DEF B2N
<1> QED BY <1>1, <1>2, <1>3, <1>8 DEF BufferInv, BufferDepth, g, p

-----------------------------------------------------------------------------
(* The RAM: when the two addresses enclose the n entries that are in it,     *)
(* they do so after a write and a read, and the entries are a queue.         *)
RamEncloses(n) ==
    /\ ram_wr_addr = Slot(ram_rd_addr + n)
    /\ \A i \in 0 .. n - 1 : RamEntry(i) \in Data

RamTypeOK == ram_wr_addr \in Addr /\ ram_rd_addr \in Addr /\ ram \in [Addr -> Word]

LEMMA RamSequence ==
  ASSUME NEW n \in Nat, \A i \in 0 .. n - 1 : RamEntry(i) \in Data
  PROVE  /\ RamContents(n) \in Seq(Data) /\ Len(RamContents(n)) = n
         /\ \A i \in 1 .. n : RamContents(n)[i] = RamEntry(i - 1)
<1>1. \A i \in 1 .. n : i - 1 \in 0 .. n - 1
  OBVIOUS
<1>2. RamContents(n) \in [1 .. n -> Data]
  BY <1>1 DEF RamContents
<1> QED BY <1>2 DEF RamContents

LEMMA RamSequenceNext ==
  ASSUME NEW n \in Nat, \A i \in 0 .. n - 1 : RamEntry(i)' \in Data
  PROVE  /\ RamContents(n)' \in Seq(Data) /\ Len(RamContents(n)') = n
         /\ \A i \in 1 .. n : RamContents(n)'[i] = RamEntry(i - 1)'
<1>1. \A i \in 1 .. n : i - 1 \in 0 .. n - 1
  OBVIOUS
<1>2. RamContents(n)' = [i \in 1 .. n |-> RamEntry(i - 1)']
  BY DEF RamContents
<1>3. RamContents(n)' \in [1 .. n -> Data]
  BY <1>1, <1>2
<1> QED BY <1>2, <1>3

LEMMA RamMoves ==
  ASSUME NEW n \in 0 .. RamDepth, NEW m \in Nat, NEW w \in BOOLEAN, NEW r \in BOOLEAN,
         NEW d \in Data, m = n + B2N(w) - B2N(r), w => n < RamDepth, r => n > 0,
         RamTypeOK, RamEncloses(n), WriteStep(w, d), ReadStep(r)
  PROVE  /\ RamTypeOK' /\ RamEncloses(m)'
         /\ QueueStep(OneIf(r, RamEntry(0)), RamContents(n), RamContents(m)', OneIf(w, d))
<1> USE FifoCoreAssumption
<1>1. /\ ram_rd_addr' = IF r THEN AddrAfter(ram_rd_addr) ELSE ram_rd_addr
      /\ ram_wr_addr' = IF w THEN AddrAfter(ram_wr_addr) ELSE ram_wr_addr
      /\ ram' = IF w THEN [ram EXCEPT ![ram_wr_addr] = d] ELSE ram
  BY DEF WriteStep, ReadStep
<1>2. /\ ram_rd_addr \in 0 .. RamDepth - 1 /\ ram_wr_addr = Slot(ram_rd_addr + n)
      /\ ram_wr_addr \in Addr /\ ram \in [Addr -> Word]
  BY DEF RamTypeOK, RamEncloses, Addr
<1>3. RamTypeOK'
  BY <1>1 DEF RamTypeOK, Addr, AddrAfter, Word
<1>4. ram_wr_addr' = Slot(ram_rd_addr' + m)
  <2> USE DEF AddrAfter, B2N, Slot
  <2>1. CASE w /\ r
    BY <1>1, <1>2, <2>1
  <2>2. CASE w /\ ~r
    BY <1>1, <1>2, <2>2
  <2>3. CASE ~w /\ r
    BY <1>1, <1>2, <2>3
  <2>4. CASE ~w /\ ~r
    BY <1>1, <1>2, <2>4
  <2> QED BY <2>1, <2>2, <2>3, <2>4
<1>5. ASSUME NEW i \in 0 .. m - 1
      PROVE  /\ i + B2N(r) < n => RamEntry(i)' = RamEntry(i + B2N(r))
             /\ i + B2N(r) >= n => RamEntry(i)' = d /\ w
  <2> DEFINE j == i + B2N(r)
             a == Slot(ram_rd_addr + j)
  <2>1. /\ j \in 0 .. n /\ Slot(ram_rd_addr' + i) = a /\ a \in Addr
        /\ j = n => w
    BY <1>1, <1>2 DEF Addr, AddrAfter, B2N, Slot
  <2>2. RamEntry(j) = ram[a] /\ RamEntry(i)' = ram'[a]
    BY <2>1 DEF RamEntry, Slot
  <2>3. ASSUME j < n PROVE w => a # ram_wr_addr
    BY <1>2, <2>1, <2>3 DEF Addr, Slot
  <2>4. j = n => a = ram_wr_addr
    BY <1>2
  <2> HIDE DEF a, j
  <2>5. j < n => ram'[a] = ram[a]
    BY <1>1, <1>2, <2>1, <2>3
  <2>6. j = n => ram'[a] = d /\ w
    BY <1>1, <1>2, <2>1, <2>4
  <2>7. j >= n => j = n
    BY <2>1
  <2> QED BY <2>2, <2>5, <2>6, <2>7 DEF j
<1>6. ASSUME NEW i \in 0 .. m - 1
      PROVE  RamEntry(i)' \in Data
  <2>1. B2N(r) \in 0 .. 1
    BY DEF B2N
  <2>2. i + B2N(r) < n => RamEntry(i + B2N(r)) \in Data
    BY <2>1 DEF RamEncloses
  <2> QED BY <1>5, <2>1, <2>2
<1>7. RamEncloses(m)'
  BY <1>4, <1>6 DEF RamEncloses, Slot
<1>8. /\ RamContents(n) \in Seq(Data) /\ Len(RamContents(n)) = n
      /\ \A i \in 1 .. n : RamContents(n)[i] = RamEntry(i - 1)
  BY RamSequence DEF RamEncloses
<1>9. /\ RamContents(m)' \in Seq(Data) /\ Len(RamContents(m)') = m
      /\ \A i \in 1 .. m : RamContents(m)'[i] = RamEntry(i - 1)'
  BY <1>6, RamSequenceNext
<1> DEFINE y == IF r THEN RamEntry(0) ELSE d
<1>10. y \in Data /\ OneIf(r, RamEntry(0)) = OneIf(r, y)
  BY DEF RamEncloses, OneIf
<1>11. PICK s, t \in Seq(Data) : s = RamContents(n) /\ t = RamContents(m)'
  BY <1>8, <1>9
<1>12. ASSUME NEW i \in 1 .. m
       PROVE  /\ i + B2N(r) <= n => t[i] = s[i + B2N(r)]
              /\ i + B2N(r) > n => t[i] = d
  <2> DEFINE k == i - 1
  <2>1. k \in 0 .. m - 1 /\ B2N(r) \in 0 .. 1
    BY DEF B2N
  <2>2. t[i] = RamEntry(k)'
    BY <1>9, <1>11
  <2>3. /\ k + B2N(r) < n => RamEntry(k)' = RamEntry(k + B2N(r))
        /\ k + B2N(r) >= n => RamEntry(k)' = d
    <3> HIDE DEF k
    <3> QED BY <1>5, <2>1
  <2>4. i + B2N(r) <= n => s[i + B2N(r)] = RamEntry(k + B2N(r))
    <3> SUFFICES ASSUME i + B2N(r) <= n PROVE s[i + B2N(r)] = RamEntry(k + B2N(r))
      OBVIOUS
    <3>1. i + B2N(r) \in 1 .. n /\ (i + B2N(r)) - 1 = k + B2N(r)
      BY <2>1
    <3>2. s[i + B2N(r)] = RamEntry((i + B2N(r)) - 1)
      BY <1>8, <1>11, <3>1
    <3> QED BY <3>1, <3>2
  <2> QED BY <2>1, <2>2, <2>3, <2>4
<1>13. r => y = IF Len(s) > 0 THEN s[1] ELSE d
  <2> SUFFICES ASSUME r PROVE Len(s) > 0 /\ y = s[1]
    OBVIOUS
  <2>1. 1 \in 1 .. n /\ 1 - 1 = 0
    OBVIOUS
  <2>2. s[1] = RamEntry(1 - 1)
    BY <1>8, <1>11, <2>1
  <2> QED BY <1>8, <1>11, <2>1, <2>2
<1>14. IsShifted(s, t, d, y, r, w)
  <2> HIDE DEF y
  <2> QED BY <1>8, <1>9, <1>11, <1>12, <1>13 DEF IsShifted
<1>15. OneIf(r, y) \o t = s \o OneIf(w, d)
  <2> HIDE DEF y
  <2> QED BY <1>10, <1>14, Shifted
<1>16. OneIf(r, y) \in Seq(Data) /\ OneIf(w, d) \in Seq(Data)
  <2> HIDE DEF y
  <2> QED BY <1>10 DEF OneIf
<1> QED BY <1>3, <1>7, <1>10, <1>11, <1>15, <1>16 DEF QueueStep

-----------------------------------------------------------------------------
(* The whole FIFO                                                            *)

(* The entries that are not staged are in the RAM.  With the bypass, an      *)
(* entry goes into the RAM only when the staging buffer is full, and the     *)
(* buffer stays full as long as there is an entry in the RAM.                *)
RamInv ==
    /\ items >= sb.staged
    /\ EnableBypass => items = sb.staged \/ sb.staged = BufferDepth
    /\ RamEncloses(items - sb.staged)

(* An offer that was refused is in a register, and not on its way through.   *)
OfferKept ==
    pop.valid /\ ~pop.ready =>
        IF RegisterPopOutputs THEN sb.reg = pop.data /\ sb.reg # NoData
                              ELSE SB!head_valid(sb) /\ sb.mem[sb.rd_ptr] = pop.data

IInv == CoreTypeOK /\ FlagsCoherent /\ BufferInv /\ RamInv /\ OfferKept

\* Wires of one cycle: an entry enters the RAM, an entry leaves the RAM.
Wr(pv, d, pr) == RamWrValid(PushBeat(pv), SB!BypassReady(sb, Inputs(pv, d, pr)))
Rd(pv, d, pr) == SB!RdAddrBeat(sb, Inputs(pv, d, pr))

(* The consumer takes an entry only when a staged one is on offer or the     *)
(* bypass is open, and either makes room for another.                        *)
LEMMA PopMeansSpace ==
  ASSUME NEW in, InputType(in), BufferInv, SB!PopBeat(sb, in)
  PROVE  SB!SpaceAvailable(sb, in)
<1>1. in.pop_ready /\ SB!PopValid(sb, in)
  BY DEF SB!PopBeat
<1>2. CASE RamReadLatency > 0 /\ RegisterPopOutputs
  BY <1>1, <1>2 DEF SB!PopValid, SB!SpaceAvailable, SB!pop_valid_nonbypass
<1>3. CASE RamReadLatency > 0 /\ ~RegisterPopOutputs
  <2>1. SB!InternalDepth > 1
    BY <1>3, Constants
  <2>2. \/ SB!head_valid(sb) \/ sb.reads[RamReadLatency] # NoData
        \/ SB!circ_empty(sb) /\ SB!BypassBeat(sb, in)
    BY <1>1, <1>3, <2>1, CircWires DEF SB!PopValid
  <2>3. SB!BypassBeat(sb, in) => SB!SpaceAvailable(sb, in)
    BY GivenFacts
  <2> QED BY <1>1, <1>3, <2>1, <2>2, <2>3
          DEF SB!SpaceAvailable, SB!pop_valid_nonbypass, SB!internal_pop_valid_nonbypass,
              SB!ReadReturns
<1>4. CASE ~(RamReadLatency > 0)
  BY <1>1, <1>4 DEF SB!SpaceAvailable
<1> QED BY <1>2, <1>3, <1>4, Constants

(* The inputs of the staging buffer: what is read is an entry.               *)
LEMMA CycleInputs ==
  ASSUME IInv, NEW pv \in BOOLEAN, NEW d \in Data, NEW pr \in BOOLEAN
  PROVE  LET in == Inputs(pv, d, pr)
         IN  /\ InputType(in) /\ in.pop_ready = pr /\ in.bypass_data = d
             /\ in.total_items = items /\ in.rd_data = ram[ram_rd_addr]
             /\ in.rd_data = RamEntry(0)
             /\ Rd(pv, d, pr) <=> SB!RdAddrValid(sb, in)
             /\ Rd(pv, d, pr) => sb.staged < items
<1> DEFINE in == Inputs(pv, d, pr)
<1>1. /\ in.total_items = items /\ in.bypass_valid = (EnableBypass /\ pv) /\ in.bypass_data = d
      /\ in.rd_ready = TRUE /\ in.rd_data = ram[ram_rd_addr] /\ in.pop_ready = pr
  BY DEF Inputs
<1>2. /\ items \in Nat /\ ram_rd_addr \in Addr /\ ram[ram_rd_addr] \in Word
      /\ sb.staged \in Nat
  BY DEF IInv, CoreTypeOK, BufferInv, Word
<1>3. RamEntry(0) = ram[ram_rd_addr]
  BY <1>2, Constants DEF RamEntry, Slot, Addr
<1> HIDE DEF in
<1>4. SB!RdAddrBeat(sb, in) => sb.staged < items
  BY <1>1 DEF SB!RdAddrBeat, SB!RdAddrValid, SB!ItemsNotStaged
<1>5. SB!RdAddrBeat(sb, in) => in.rd_data \in Data
  <2> SUFFICES ASSUME SB!RdAddrBeat(sb, in) PROVE RamEntry(0) \in Data
    BY <1>1, <1>3
  <2>1. 0 \in 0 .. items - sb.staged - 1
    BY <1>2, <1>4
  <2> QED BY <2>1 DEF IInv, RamInv, RamEncloses
<1>6. InputType(in)
  BY <1>1, <1>2, <1>5, Constants DEF InputType
<1>7. SB!RdAddrBeat(sb, in) <=> SB!RdAddrValid(sb, in)
  BY <1>1 DEF SB!RdAddrBeat
<1> QED BY <1>1, <1>3, <1>4, <1>6, <1>7 DEF in, Rd

(* A push goes either into the RAM or through the bypass, which is open only *)
(* when no entry is in the RAM.                                              *)
LEMMA CycleWires ==
  ASSUME IInv, NEW pv \in BOOLEAN, NEW d \in Data, NEW pr \in BOOLEAN,
         Cycle(pv, d, pr)
  PROVE  LET in == Inputs(pv, d, pr)
             B  == SB!BypassBeat(sb, in)
             w  == Wr(pv, d, pr)
             r  == Rd(pv, d, pr)
         IN  /\ PushBeat(pv) \in BOOLEAN /\ SB!PopBeat(sb, in) \in BOOLEAN
             /\ B \in BOOLEAN /\ w \in BOOLEAN /\ r \in BOOLEAN
             /\ PushBeat(pv) <=> w \/ B
             /\ ~(w /\ B) /\ ~(r /\ B)
             /\ B => items = sb.staged
             /\ PushBeat(pv) => items < Depth /\ slots > 0
             /\ SB!PopBeat(sb, in) => items > 0 \/ PushBeat(pv)
             /\ EnableBypass /\ w => sb.staged = BufferDepth
             /\ EnableBypass /\ (items > sb.staged \/ w)
                    => ~B /\ (r <=> SB!PopBeat(sb, in) /\ items > sb.staged)
             /\ EnableBypass /\ w /\ items = sb.staged => ~SB!PopBeat(sb, in)
<1> DEFINE in == Inputs(pv, d, pr)
           B == SB!BypassBeat(sb, in)
           BR == SB!BypassReady(sb, in)
           w == Wr(pv, d, pr)
           r == Rd(pv, d, pr)
           P == SB!PopBeat(sb, in)
           S == SB!SpaceAvailable(sb, in)
<1>1. /\ InputType(in) /\ in.pop_ready = pr /\ in.bypass_valid = (EnableBypass /\ pv)
      /\ in.total_items = items /\ r = SB!RdAddrBeat(sb, in) /\ (r <=> SB!RdAddrValid(sb, in))
  BY CycleInputs DEF Inputs, Rd
<1>2. /\ items \in 0 .. Depth /\ slots \in Nat /\ items + slots = Depth /\ (full <=> slots = 0)
      /\ sb.staged \in Nat /\ sb.staged <= BufferDepth /\ items >= sb.staged
      /\ BufferDepth \in Nat /\ Depth \in Nat /\ Depth > BufferDepth
      /\ EnableBypass => items = sb.staged \/ sb.staged = BufferDepth
  BY Constants DEF IInv, CoreTypeOK, FlagsCoherent, BufferInv, RamInv
<1>3. P \in BOOLEAN /\ B \in BOOLEAN /\ r \in BOOLEAN /\ ~(r /\ B)
  BY <1>1, GivenFacts DEF SB!PopBeat, SB!PopValid
<1>4. (P => S) /\ (S => sb.staged < BufferDepth \/ P)
  <2>1. BufferInv
    BY DEF IInv
  <2> HIDE DEF in
  <2> QED BY <1>1, <2>1, PopMeansSpace, SpaceMeansPop
<1>5. BR <=> /\ EnableBypass /\ S
             /\ items < BufferDepth \/ (items = BufferDepth /\ pr)
  <2> HIDE DEF in
  <2> QED BY <1>1 DEF SB!BypassReady
<1> BR \in BOOLEAN
  BY DEF SB!BypassReady
<1>6. B <=> pv /\ BR
  <2> HIDE DEF in
  <2> QED BY <1>1, <1>5 DEF SB!BypassBeat
<1>7. PushBeat(pv) <=> ~full /\ pv
  BY DEF PushBeat, push_ready
<1>8. w <=> PushBeat(pv) /\ ~BR
  BY <1>5, Constants DEF Wr, RamWrValid
<1> w \in BOOLEAN /\ PushBeat(pv) \in BOOLEAN
  BY DEF Wr, RamWrValid, PushBeat
<1>9. r <=> S /\ sb.staged < items /\ ~BR
  <2> HIDE DEF in
  <2> QED BY <1>1 DEF SB!RdAddrValid, SB!ItemsNotStaged
<1>10. P => pr
  BY <1>1 DEF SB!PopBeat
<1>11. P => sb.staged > 0 \/ r \/ B
  <2>1. BufferInv /\ sb' = SB!StagingNext(sb, in)
    BY DEF IInv, Cycle
  <2>2. P => sb.staged + B2N(SB!RdAddrBeat(sb, in) \/ B) > 0
    <3> HIDE DEF in
    <3> QED BY <1>1, <2>1, BufferInvNext
  <2> HIDE DEF in, P, B, r
  <2> QED BY <1>1, <1>2, <2>2 DEF B2N
<1>12. sb.staged < BufferDepth => S
  BY DEF SB!SpaceAvailable
<1> HIDE DEF in, B, BR, w, r, P, S
<1>13. BR => items = sb.staged /\ items < Depth /\ EnableBypass
  BY <1>2, <1>5
<1>14. (PushBeat(pv) <=> w \/ B) /\ ~(w /\ B) /\ w \in BOOLEAN /\ PushBeat(pv) \in BOOLEAN
  <2>1. BR => ~full
    BY <1>2, <1>13
  <2> QED BY <1>6, <1>7, <1>8, <2>1
<1>15. (B => items = sb.staged) /\ (PushBeat(pv) => items < Depth /\ slots > 0)
  BY <1>2, <1>6, <1>7, <1>13
<1>16. P => items > 0 \/ PushBeat(pv)
  BY <1>2, <1>9, <1>11, <1>14
<1>17. EnableBypass /\ w => sb.staged = BufferDepth
  BY <1>2, <1>5, <1>8, <1>12
<1>18. EnableBypass /\ (items > sb.staged \/ w) => ~B /\ (r <=> P /\ items > sb.staged)
  BY <1>2, <1>4, <1>6, <1>8, <1>9, <1>13, <1>17
<1>19. EnableBypass /\ w /\ items = sb.staged => ~P
  BY <1>2, <1>4, <1>5, <1>8, <1>10, <1>17
<1> QED
  BY <1>3, <1>14, <1>15, <1>16, <1>17, <1>18, <1>19 DEF in, B, w, r, P

(* One cycle: how the counters move with the RAM accesses, and what a cycle  *)
(* does to the RAM.                                                          *)
LEMMA CycleRam ==
  ASSUME IInv, NEW pv \in BOOLEAN, NEW d \in Data, NEW pr \in BOOLEAN,
         Cycle(pv, d, pr), NEW n, n = items - sb.staged, NEW m, m = items' - sb'.staged
  PROVE  LET in == Inputs(pv, d, pr)
             w  == Wr(pv, d, pr)
             r  == Rd(pv, d, pr)
         IN  /\ BufferInv'
             /\ items' = items + B2N(PushBeat(pv)) - B2N(SB!PopBeat(sb, in)) /\ items' \in 0 .. Depth
             /\ n \in 0 .. RamDepth /\ m \in Nat /\ m = n + B2N(w) - B2N(r)
             /\ EnableBypass => m = 0 \/ sb'.staged = BufferDepth
             /\ RamTypeOK' /\ RamEncloses(m)'
             /\ QueueStep(OneIf(r, RamEntry(0)), RamContents(n), RamContents(m)', OneIf(w, d))
<1> DEFINE in == Inputs(pv, d, pr)
           B == SB!BypassBeat(sb, in)
           w == Wr(pv, d, pr)
           r == Rd(pv, d, pr)
           P == SB!PopBeat(sb, in)
           PB == PushBeat(pv)
<1>1. BufferInv /\ sb' = SB!StagingNext(sb, in) /\ InputType(in) /\ r = SB!RdAddrBeat(sb, in)
  BY CycleInputs DEF IInv, Cycle, Rd
<1>2. BufferInv' /\ sb'.staged = sb.staged + B2N(r \/ B) - B2N(P)
  <2> HIDE DEF in
  <2> QED BY <1>1, BufferInvNext
<1>3. items' = items + B2N(PB) - B2N(P)
  BY DEF Cycle, ItemsStep
<1>4. /\ PB \in BOOLEAN /\ P \in BOOLEAN /\ B \in BOOLEAN /\ w \in BOOLEAN /\ r \in BOOLEAN
      /\ PB <=> w \/ B
      /\ ~(w /\ B) /\ ~(r /\ B)
      /\ B => items = sb.staged
      /\ PB => items < Depth
      /\ P => items > 0 \/ PB
      /\ EnableBypass /\ w => sb.staged = BufferDepth
      /\ EnableBypass /\ (items > sb.staged \/ w) => ~B /\ (r <=> P /\ items > sb.staged)
      /\ EnableBypass /\ w /\ items = sb.staged => ~P
  BY CycleWires
<1>5. r => items > sb.staged
  BY <1>2, CycleInputs DEF IInv, CoreTypeOK, BufferInv
<1>6. /\ items \in 0 .. Depth /\ sb.staged \in Nat /\ sb.staged <= BufferDepth /\ items >= sb.staged
      /\ BufferDepth \in Nat /\ Depth \in Nat /\ Depth > BufferDepth /\ RamDepth \in Nat \ {0}
      /\ EnableBypass => items = sb.staged \/ sb.staged = BufferDepth
      /\ EnableBypass => RamDepth >= Depth - BufferDepth
      /\ ~EnableBypass => RamDepth >= Depth
      /\ EnableBypass \in BOOLEAN
  BY Constants DEF IInv, CoreTypeOK, BufferInv, RamInv
<1> HIDE DEF in, B, w, r, P, PB
<1>7. items' \in 0 .. Depth
  BY <1>3, <1>4, <1>6 DEF B2N
<1>8. n \in 0 .. RamDepth
  BY <1>6
<1>9. m = n + B2N(w) - B2N(r)
  <2>1. B2N(PB) = B2N(w) + B2N(B) /\ B2N(r \/ B) = B2N(r) + B2N(B)
    BY <1>4 DEF B2N
  <2>2. B2N(w) \in Int /\ B2N(r) \in Int /\ B2N(B) \in Int /\ B2N(P) \in Int
    BY DEF B2N
  <2> QED BY <1>2, <1>3, <1>6, <2>1, <2>2
<1>10. m \in Nat /\ (w => n < RamDepth) /\ (r => n > 0)
  BY <1>4, <1>5, <1>6, <1>8, <1>9 DEF B2N
<1>11. EnableBypass => m = 0 \/ sb'.staged = BufferDepth
  BY <1>2, <1>4, <1>5, <1>6, <1>9 DEF B2N
<1>12. WriteStep(w, d) /\ ReadStep(r)
  <2>1. WriteStep(w, d) /\ ReadStep(SB!RdAddrValid(sb, in))
    BY DEF Cycle, Wr, w, in
  <2>2. r <=> SB!RdAddrValid(sb, in)
    BY CycleInputs DEF r, in
  <2> QED BY <2>1, <2>2 DEF ReadStep
<1>13. RamTypeOK /\ RamEncloses(n)
  BY DEF IInv, CoreTypeOK, RamInv, RamTypeOK, Word
<1>14. /\ RamTypeOK' /\ RamEncloses(m)'
       /\ QueueStep(OneIf(r, RamEntry(0)), RamContents(n), RamContents(m)', OneIf(w, d))
  BY <1>4, <1>8, <1>9, <1>10, <1>12, <1>13, RamMoves
<1> QED
  BY <1>2, <1>3, <1>7, <1>8, <1>9, <1>10, <1>11, <1>14 DEF in, w, r, P, PB

LEMMA RingEmptyNext ==
  BufferType' /\ SB!InternalDepth > 1 => (SB!circ_empty(sb)' <=> SB!CellsUsed(sb)' = 0)
<1>1. BufferType /\ SB!InternalDepth > 1 => (SB!circ_empty(sb) <=> SB!CellsUsed(sb) = 0)
  BY RingFacts
<1>2. (BufferType /\ SB!InternalDepth > 1)' => (SB!circ_empty(sb) <=> SB!CellsUsed(sb) = 0)'
  BY <1>1, PTL
<1>3. (SB!InternalDepth > 1)' <=> SB!InternalDepth > 1
  BY DEF SB!InternalDepth
<1> QED BY <1>2, <1>3

(* An offer that is refused in a cycle without registered outputs is at the  *)
(* head of the buffer after it, wherever it came from: a cell, the read that *)
(* returned in the cycle, or the bypass.                                     *)
LEMMA OfferGoesToHead ==
  ASSUME NEW in, InputType(in), BufferInv, sb' = SB!StagingNext(sb, in), ~RegisterPopOutputs,
         SB!InternalPopValid(sb, in), ~in.pop_ready
  PROVE  SB!head_valid(sb)' /\ sb'.mem[sb'.rd_ptr] = SB!InternalPopData(sb, in)
<1> DEFINE L == RamReadLatency
           N == SB!InternalDepth
           u == SB!CellsUsed(sb)
           h == sb.rd_ptr
           rd == sb.reads[L]
           hv == SB!head_valid(sb)
           B == SB!BypassBeat(sb, in)
           x == SB!InternalPopData(sb, in)
<1>1. BufferType /\ BufferType' /\ N > 1 /\ N' = N /\ ~SB!InternalPopReady(sb, in)
  BY Constants, BufferTypeNext DEF BufferInv, SB!InternalPopReady, SB!InternalDepth
<1>2. /\ u \in 0 .. N /\ N \in Nat /\ h \in SB!Cell /\ sb.wr_ptr \in SB!Cell
      /\ Pos(h) = 0 /\ (u < N => Pos(sb.wr_ptr) = u)
      /\ u = 0 => sb.wr_ptr = h
      /\ rd \in Word
  <2>1. /\ u \in 0 .. N /\ N \in Nat /\ h \in SB!Cell /\ sb.wr_ptr \in SB!Cell
        /\ Pos(h) = 0 /\ SB!CellAt(sb, 0) = h
        /\ (u < N => Pos(sb.wr_ptr) = u) /\ SB!CellAt(sb, Pos(sb.wr_ptr)) = sb.wr_ptr
    BY <1>1, RingFacts, Constants
  <2>2. rd \in Word
    BY <1>1, CircWires DEF BufferType
  <2> QED BY <1>1, <2>1, <2>2
<1>3. /\ hv \/ rd # NoData \/ (u = 0 /\ B)
      /\ x = IF hv THEN sb.mem[h] ELSE IF rd # NoData THEN rd ELSE in.bypass_data
      /\ ~SB!AdvanceRd(sb, in)
  <2>1. SB!circ_empty(sb) <=> u = 0
    BY <1>1, RingFacts
  <2> QED BY <1>1, <2>1, CircWires
<1>4. sb'.rd_ptr = h
  BY <1>3, NextFields
<1>5. in.bypass_data # NoData
  BY Constants DEF InputType
<1>6. CASE EnableBypass
  <2>1. /\ hv <=> sb.mem[h] # NoData
        /\ hv => u > 0
        /\ rd # NoData => u > 0
        /\ rd # NoData /\ ~hv => sb.wr_cell[L] = h
        /\ SB!BypassWrite(sb, in) <=> B
    BY <1>1, <1>6, AllocWires
  <2>2. rd # NoData => sb.mem[sb.wr_cell[L]] = NoData
    BY <1>1, <1>6, CircWires DEF BufferInv, RingInv, CellsFill, ReadsFillCells
  <2>3. Kept(in, h) <=> u > 0
    BY <1>2, <1>3 DEF Kept
  <2>4. /\ Kept(in, h) => sb'.mem[h] = IF rd # NoData /\ h = sb.wr_cell[L] THEN rd ELSE sb.mem[h]
        /\ B /\ h = sb.wr_ptr => sb'.mem[h] = in.bypass_data
    BY <1>1, <1>2, <1>6, <2>1, ContentNext
  <2> HIDE DEF x, rd, hv, u, B, h
  <2>5. sb'.mem[h] = x /\ x # NoData
    BY <1>2, <1>3, <1>5, <2>1, <2>2, <2>3, <2>4
  <2>6. SB!head_valid(sb)' <=> sb'.mem[sb'.rd_ptr] # NoData
    BY <1>6 DEF SB!head_valid
  <2> QED BY <1>4, <2>5, <2>6 DEF x
<1>7. CASE ~EnableBypass
  <2>1. /\ hv <=> u > 0
        /\ ~B
        /\ SB!AdvanceWr(sb, in) <=> rd # NoData
        /\ SB!AdvanceWr(sb, in) => u < N
        /\ sb'.mem[h] = IF SB!AdvanceWr(sb, in) /\ h = sb.wr_ptr THEN rd ELSE sb.mem[h]
    BY <1>1, <1>2, <1>3, <1>7, FillWires
  <2>2. SB!CellsUsed(sb)' = u + B2N(SB!AdvanceWr(sb, in)) - B2N(SB!AdvanceRd(sb, in))
    BY <1>1, <1>3, <2>1, RingMoves
  <2>3. SB!CellsUsed(sb)' > 0
    <3>1. u > 0 \/ SB!AdvanceWr(sb, in)
      BY <1>2, <1>3, <2>1
    <3> HIDE DEF u
    <3> QED BY <1>2, <1>3, <2>2, <3>1 DEF B2N
  <2>4. sb'.mem[h] = x
    <3>1. SB!AdvanceWr(sb, in) /\ u > 0 => h # sb.wr_ptr
      BY <1>2, <2>1
    <3> HIDE DEF x, rd, hv, u, B, h
    <3> QED BY <1>2, <1>3, <2>1, <3>1
  <2>5. SB!head_valid(sb)'
    <3>1. SB!circ_empty(sb)' <=> SB!CellsUsed(sb)' = 0
      BY <1>1, RingEmptyNext
    <3>2. SB!head_valid(sb)' <=> ~SB!circ_empty(sb)'
      BY <1>7 DEF SB!head_valid
    <3> QED BY <2>3, <3>1, <3>2
  <2> QED BY <1>4, <2>4, <2>5
<1> QED BY <1>6, <1>7, Constants

(* One clock cycle out of reset preserves the invariant.                     *)
LEMMA CycleIInv ==
  ASSUME IInv, NEW pv \in BOOLEAN, NEW d \in Data, NEW pr \in BOOLEAN, Cycle(pv, d, pr)
  PROVE  IInv'
<1> DEFINE in == Inputs(pv, d, pr)
           PB == PushBeat(pv)
           P == SB!PopBeat(sb, in)
           n == items - sb.staged
           m == items' - sb'.staged
<1>1. BufferInv /\ sb' = SB!StagingNext(sb, in) /\ InputType(in) /\ in.pop_ready = pr
  BY CycleInputs DEF IInv, Cycle
<1>2. /\ BufferInv' /\ items' = items + B2N(PB) - B2N(P) /\ items' \in 0 .. Depth
      /\ m \in Nat /\ (EnableBypass => m = 0 \/ sb'.staged = BufferDepth)
      /\ RamTypeOK' /\ RamEncloses(items - sb.staged)'
  <2>1. PICK i, j : i = n /\ j = m
    OBVIOUS
  <2>2. /\ BufferInv' /\ items' = items + B2N(PB) - B2N(P) /\ items' \in 0 .. Depth
        /\ j \in Nat /\ (EnableBypass => j = 0 \/ sb'.staged = BufferDepth)
        /\ RamTypeOK' /\ RamEncloses(j)'
    BY <2>1, CycleRam
  <2>3. RamEncloses(items - sb.staged)'
    <3>1. ram_wr_addr' = Slot(ram_rd_addr' + j) /\ \A k \in 0 .. j - 1 : RamEntry(k)' \in Data
      BY <2>2 DEF RamEncloses, Slot
    <3> HIDE DEF m
    <3>2. j = items' - sb'.staged
      BY <2>1 DEF m
    <3> QED BY <3>1, <3>2 DEF RamEncloses, Slot
  <2> QED BY <2>1, <2>2, <2>3
<1>3. /\ PB \in BOOLEAN /\ P \in BOOLEAN
      /\ PB => items < Depth /\ slots > 0
      /\ P => items > 0 \/ PB
  BY CycleWires
<1>4. /\ slots' = slots + B2N(P) - B2N(PB)
      /\ full' = IF PB \/ P THEN slots' = 0 ELSE full
      /\ empty' = IF PB \/ P THEN items' = 0 ELSE empty
  BY DEF Cycle, SlotsStep, ItemsStep
<1>5. /\ items \in 0 .. Depth /\ slots \in 0 .. Depth /\ items + slots = Depth /\ Depth \in Nat
      /\ full <=> slots = 0
      /\ empty <=> items = 0
      /\ full \in BOOLEAN /\ empty \in BOOLEAN
  BY Constants DEF IInv, CoreTypeOK, FlagsCoherent
<1>6. CoreTypeOK' /\ FlagsCoherent'
  <2> HIDE DEF in, PB, P, m
  <2>1. slots' \in 0 .. Depth /\ items' + slots' = Depth
    BY <1>2, <1>3, <1>4, <1>5 DEF B2N
  <2>2. (full' <=> slots' = 0) /\ (empty' <=> items' = 0)
    BY <1>2, <1>3, <1>4, <1>5, <2>1 DEF B2N
  <2>3. full' \in BOOLEAN /\ empty' \in BOOLEAN
    BY <1>4, <1>5
  <2> QED BY <1>2, <2>1, <2>2, <2>3 DEF CoreTypeOK, FlagsCoherent, RamTypeOK, Addr, Word
<1>7. RamInv'
  <2>1. sb'.staged \in Nat
    BY <1>2 DEF BufferInv
  <2>2. items' >= sb'.staged /\ (EnableBypass => items' = sb'.staged \/ sb'.staged = BufferDepth)
    BY <1>2, <2>1
  <2> QED BY <1>2, <2>2 DEF RamInv, BufferDepth
<1>8. OfferKept'
  <2>1. /\ pop'.valid = SB!PopValid(sb, in) /\ pop'.ready = pr
        /\ SB!PopValid(sb, in) => pop'.data = SB!PopData(sb, in)
    BY DEF Cycle
  <2> SUFFICES ASSUME SB!PopValid(sb, in), ~pr
               PROVE  IF RegisterPopOutputs THEN sb'.reg = SB!PopData(sb, in) /\ sb'.reg # NoData
                      ELSE SB!head_valid(sb)' /\ sb'.mem[sb'.rd_ptr] = SB!PopData(sb, in)
    BY <2>1 DEF OfferKept
  <2>2. CASE RegisterPopOutputs
    <3>1. sb.reg # NoData /\ SB!PopData(sb, in) = sb.reg
      BY <2>2 DEF SB!PopValid, SB!PopData
    <3>2. sb'.reg = SB!RegNext(sb, in)
      BY <1>1, NextFields
    <3>3. sb'.reg = sb.reg
      BY <1>1, <2>2, <3>1, <3>2 DEF SB!RegNext, SB!InternalPopReady
    <3> QED BY <2>2, <3>1, <3>3
  <2>3. CASE ~RegisterPopOutputs
    <3>1. SB!InternalPopValid(sb, in) /\ SB!PopData(sb, in) = SB!InternalPopData(sb, in)
      BY <2>3 DEF SB!PopValid, SB!PopData
    <3> HIDE DEF in
    <3> QED BY <1>1, <2>3, <3>1, OfferGoesToHead
  <2> QED BY <2>2, <2>3, Constants
<1> QED BY <1>2, <1>6, <1>7, <1>8 DEF IInv

(* An empty FIFO satisfies the invariant, whatever the RAM still holds.      *)
LEMMA EmptyBufferInv == sb = SB!EmptyBuffer => BufferInv /\ SB!Staged(sb) = <<>> /\ sb.staged = 0
<1> SUFFICES ASSUME sb = SB!EmptyBuffer PROVE BufferInv /\ SB!Staged(sb) = <<>> /\ sb.staged = 0
  OBVIOUS
<1>1. /\ sb.staged = 0 /\ sb.reads = [k \in SB!Stage |-> NoData] /\ sb.reg = NoData
      /\ sb.buf = NoData /\ sb.buf_bypass = FALSE /\ sb.inflight = 0
      /\ sb.mem = [c \in SB!Cell |-> NoData] /\ sb.rd_ptr = 0 /\ sb.wr_ptr = 0
      /\ sb.maybe_full = FALSE /\ sb.wr_cell = [k \in SB!Stage |-> 0]
  BY DEF SB!EmptyBuffer
<1>2. BufferType
  <2>1. NoData \in Word /\ (SB!InternalDepth > 1 => 0 \in SB!Cell)
    BY Constants DEF Word, SB!Cell
  <2>2. sb.maybe_full \in BOOLEAN /\ sb.buf_bypass \in BOOLEAN
    BY <1>1
  <2>3. /\ sb.reads \in [SB!Stage -> Word] /\ sb.mem \in [SB!Cell -> Word]
        /\ sb.wr_cell \in [SB!Stage -> Nat]
    BY <1>1, <2>1
  <2> QED BY <1>1, <2>1, <2>2, <2>3 DEF BufferType
<1>3. SB!CellsUsed(sb) = 0
  BY <1>1 DEF SB!CellsUsed
<1>4. InflightInv
  <2>1. SB!InternalDepth = 1 => 1 \in SB!Stage
    BY Constants DEF SB!Stage
  <2> QED BY <1>1, <2>1 DEF InflightInv
<1>5. \A c \in SB!Cell : Pos(c) >= 0
  BY <1>1, Constants DEF SB!Cell, Pos
<1>6. \A c \in SB!Cell : Pos(c) \in Int
  BY <1>1, Constants DEF SB!Cell, Pos
<1>7. RingInv
  <2>1. ReadsFillCells
    BY <1>1 DEF ReadsFillCells
  <2>2. CellsFill /\ CellsAreFull
    BY <1>1, <1>3, <1>5, <1>6, <2>1 DEF CellsFill, CellsAreFull
  <2> QED BY <2>2 DEF RingInv
<1>8. SB!InFlight(sb) = <<>>
  <2>1. sb.reads \in [SB!Stage -> Word] /\ \A k \in SB!Stage : sb.reads[k] = NoData
    BY <1>1, <1>2 DEF BufferType
  <2> QED BY <2>1, NoReads DEF SB!InFlight
<1>9. SB!One(NoData) = <<>> /\ <<>> \o <<>> = <<>>
  BY DEF SB!One
<1>10. SB!Cells(sb) = <<>>
  <2>1. 1 .. SB!CellsUsed(sb) = {}
    BY <1>3
  <2>2. SB!Cells(sb) = [i \in {} |-> SB!CellEntry(sb, SB!CellAt(sb, i - 1))]
    BY <2>1 DEF SB!Cells
  <2>3. SB!Cells(sb) \in Seq(Data) /\ Len(SB!Cells(sb)) = 0
    BY <2>1, <2>2, <1>3 DEF SB!Cells
  <2> QED BY <2>3
<1>11. SB!Held(sb) = <<>>
  <2>1. CASE SB!InternalDepth = 0
    BY <1>8, <2>1 DEF SB!Held
  <2>2. CASE SB!InternalDepth = 1
    BY <1>1, <1>8, <1>9, <2>2 DEF SB!Held
  <2>3. CASE SB!InternalDepth > 1
    BY <1>8, <1>9, <1>10, <2>3, Constants DEF SB!Held
  <2> QED BY <2>1, <2>2, <2>3, Constants
<1>12. SB!Staged(sb) = <<>> /\ SB!Staged(sb) \in Seq(Data)
  BY <1>1, <1>9, <1>11 DEF SB!Staged
<1> QED BY <1>1, <1>2, <1>4, <1>7, <1>12, Constants DEF BufferInv

LEMMA EmptyRam ==
  ASSUME ram_wr_addr = 0, ram_rd_addr = 0
  PROVE  RamEncloses(0)
BY Constants DEF RamEncloses, Slot

(* The invariant holds initially.                                            *)
LEMMA InitIInv == Init => IInv
<1> SUFFICES ASSUME Init PROVE IInv
  OBVIOUS
<1>1. BufferInv /\ sb.staged = 0
  BY EmptyBufferInv DEF Init
<1>2. CoreTypeOK /\ FlagsCoherent
  <2>1. 0 \in Addr /\ Depth \in 0 .. Depth /\ 0 \in 0 .. Depth /\ Depth # 0
    BY FifoCoreAssumption DEF Addr
  <2>2. full \in BOOLEAN /\ empty \in BOOLEAN /\ ~full /\ empty
    BY DEF Init, CoreInit
  <2>3. ram \in [Addr -> Data \cup {NoData}]
    BY DEF Init, CoreInit
  <2>4. /\ ram_wr_addr = 0 /\ ram_rd_addr = 0 /\ items = 0 /\ slots = Depth
        /\ items + slots = Depth
    BY Constants DEF Init, CoreInit
  <2> QED BY <2>1, <2>2, <2>3, <2>4 DEF CoreTypeOK, FlagsCoherent
<1>3. RamInv
  <2>1. items = 0 /\ ram_wr_addr = 0 /\ ram_rd_addr = 0 /\ items - sb.staged = 0
    BY <1>1 DEF Init, CoreInit
  <2> QED BY <1>1, <2>1, EmptyRam DEF RamInv
<1>4. OfferKept
  BY DEF Init, CoreInit, OfferKept, NoPop
<1> QED BY <1>1, <1>2, <1>3, <1>4 DEF IInv

(* A cycle with rst asserted re-establishes it.                              *)
LEMMA ResetIInv ==
  ASSUME IInv, Reset
  PROVE  IInv'
<1>1. BufferInv' /\ sb'.staged = 0
  <2>1. (sb = SB!EmptyBuffer => BufferInv /\ SB!Staged(sb) = <<>> /\ sb.staged = 0)'
    BY EmptyBufferInv, PTL
  <2>2. (sb = SB!EmptyBuffer)'
    BY DEF Reset, SB!EmptyBuffer, SB!Stage, SB!Cell, SB!InternalDepth
  <2> QED BY <2>1, <2>2
<1>2. CoreTypeOK' /\ FlagsCoherent'
  <2>1. 0 \in Addr /\ Depth \in 0 .. Depth /\ 0 \in 0 .. Depth /\ Depth # 0
    BY FifoCoreAssumption DEF Addr
  <2>2. ram' \in [Addr -> Data \cup {NoData}]
    BY DEF Reset, CoreReset, IInv, CoreTypeOK
  <2>3. full' \in BOOLEAN /\ empty' \in BOOLEAN /\ ~full' /\ empty'
    BY DEF Reset, CoreReset
  <2>4. /\ ram_wr_addr' = 0 /\ ram_rd_addr' = 0 /\ items' = 0 /\ slots' = Depth
        /\ items' + slots' = Depth
    BY Constants DEF Reset, CoreReset
  <2> QED BY <2>1, <2>2, <2>3, <2>4 DEF CoreTypeOK, FlagsCoherent, Addr
<1>3. RamInv'
  <2>1. items' = 0 /\ ram_wr_addr' = 0 /\ ram_rd_addr' = 0 /\ items' - sb'.staged = 0
    BY <1>1 DEF Reset, CoreReset
  <2>2. RamEncloses(items - sb.staged)'
    <3>1. ram_wr_addr' = Slot(ram_rd_addr' + (items' - sb'.staged))
      BY <2>1, Constants DEF Slot
    <3>2. 0 .. (items' - sb'.staged) - 1 = {}
      BY <2>1
    <3> QED BY <3>1, <3>2 DEF RamEncloses, Slot
  <2> QED BY <1>1, <2>1, <2>2 DEF RamInv
<1>4. OfferKept'
  BY DEF Reset, CoreReset, OfferKept, NoPop
<1> QED BY <1>1, <1>2, <1>3, <1>4 DEF IInv

LEMMA NextIInv == IInv /\ [Next]_vars => IInv'
<1> SUFFICES ASSUME IInv, [Next]_vars PROVE IInv'
  OBVIOUS
<1>1. ASSUME NEW pv \in BOOLEAN, NEW pr \in BOOLEAN, NEW d \in Data, Cycle(pv, d, pr)
      PROVE  IInv'
  BY <1>1, CycleIInv
<1>2. CASE Reset
  BY <1>2, ResetIInv
<1>3. CASE UNCHANGED vars
  <2>1. /\ ram_wr_addr' = ram_wr_addr /\ slots' = slots /\ full' = full
        /\ ram_rd_addr' = ram_rd_addr /\ items' = items /\ empty' = empty /\ ram' = ram
        /\ sb' = sb /\ pop' = pop
    BY <1>3 DEF vars
  <2>2. CoreTypeOK' /\ FlagsCoherent'
    BY <2>1 DEF IInv, CoreTypeOK, FlagsCoherent, Addr
  <2>3. BufferInv'
    <3>1. SB!CellsUsed(sb)' = SB!CellsUsed(sb) /\ SB!Staged(sb)' = SB!Staged(sb)
      BY <2>1
         DEF SB!Staged, SB!Held, SB!InFlight, SB!Cells, SB!CellsUsed, SB!CellEntry, SB!CellAt,
             SB!Arriving, SB!InStages, SB!One, SB!Stage, SB!InternalDepth
    <3>2. BufferType'
      BY <2>1 DEF IInv, BufferInv, BufferType, SB!Stage, SB!Cell, SB!InternalDepth
    <3>3. InflightInv' /\ RingInv'
      BY <2>1, <3>1
         DEF IInv, BufferInv, InflightInv, RingInv, CellsFill, ReadsFillCells, CellsAreFull,
             Pos, SB!Arriving, SB!Stage, SB!Cell, SB!InternalDepth
    <3> QED BY <2>1, <3>1, <3>2, <3>3 DEF IInv, BufferInv, BufferDepth
  <2>4. RamInv'
    BY <2>1 DEF IInv, RamInv, RamEncloses, RamEntry, Slot, BufferDepth
  <2>5. OfferKept'
    BY <2>1 DEF IInv, OfferKept, SB!head_valid, SB!circ_empty
  <2> QED BY <2>2, <2>3, <2>4, <2>5 DEF IInv
<1> QED BY <1>1, <1>2, <1>3 DEF Next

(* The invariant: the staging buffer, the reads in flight, the output        *)
(* register, the RAM and the counters of both sides describe one queue.      *)
THEOREM Invariance == Spec => []IInv
<1>1. Init => IInv
  BY InitIInv
<1>2. IInv /\ [Next]_vars => IInv'
  BY NextIInv
<1> QED BY <1>1, <1>2, PTL DEF Spec

LEMMA IInvStaged == IInv => StagedAccounted
BY DEF IInv, BufferInv, StagedAccounted

LEMMA IInvRam == IInv => RamNeverOverflows
<1> SUFFICES ASSUME IInv PROVE RamNeverOverflows
  OBVIOUS
<1>1. /\ items \in 0 .. Depth /\ sb.staged \in Nat /\ sb.staged <= BufferDepth
      /\ items >= sb.staged /\ (EnableBypass => items = sb.staged \/ sb.staged = BufferDepth)
      /\ ram_rd_addr \in Nat
      /\ ram_wr_addr = Slot(ram_rd_addr + (items - sb.staged))
  BY Constants DEF IInv, CoreTypeOK, BufferInv, RamInv, RamEncloses, Addr
<1>2. items - sb.staged \in 0 .. RamDepth
  BY <1>1, Constants
<1>3. ram_rd_addr + items - sb.staged = ram_rd_addr + (items - sb.staged)
  BY <1>1, Constants
<1> QED BY <1>1, <1>2, <1>3 DEF RamNeverOverflows

(* staged_items, on which reads and bypasses are granted, is exactly the     *)
(* number of entries in the buffer, in the output register and on their way  *)
(* from the RAM, for every latency and every form of the buffer: no entry is *)
(* pushed into a buffer without a place for it (no_push_overflow_a).         *)
THEOREM StagedAlwaysAccounted == Spec => []StagedAccounted
BY Invariance, IInvStaged, PTL

(* The RAM never overflows, although with the bypass it is smaller than the  *)
(* FIFO by the depth of the staging buffer: an entry goes into the RAM only  *)
(* when the staging buffer is full, and the buffer is refilled before it is  *)
(* bypassed again.                                                           *)
THEOREM RamIsLargeEnough == Spec => []RamNeverOverflows
BY Invariance, IInvRam, PTL

LEMMA NextKeepsOffer == IInv /\ [Next]_vars => [KeepsOffer]_vars
<1> SUFFICES ASSUME IInv, [Next]_vars, pop.valid, ~pop.ready, ~pop'.rst
             PROVE  UNCHANGED vars \/ (pop'.valid /\ pop'.data = pop.data)
  BY DEF KeepsOffer
<1>1. ASSUME NEW pv \in BOOLEAN, NEW pr \in BOOLEAN, NEW d \in Data, Cycle(pv, d, pr)
      PROVE  pop'.valid /\ pop'.data = pop.data
  <2> DEFINE in == Inputs(pv, d, pr)
  <2>1. /\ pop'.valid = SB!PopValid(sb, in)
        /\ SB!PopValid(sb, in) => pop'.data = SB!PopData(sb, in)
    BY <1>1 DEF Cycle
  <2>2. CASE RegisterPopOutputs
    <3>1. sb.reg = pop.data /\ sb.reg # NoData
      BY <2>2 DEF IInv, OfferKept
    <3> QED BY <2>1, <2>2, <3>1 DEF SB!PopValid, SB!PopData
  <2>3. CASE ~RegisterPopOutputs
    <3>1. SB!head_valid(sb) /\ sb.mem[sb.rd_ptr] = pop.data
      BY <2>3 DEF IInv, OfferKept
    <3>2. SB!InternalDepth > 1 /\ InputType(in)
      BY <2>3, Constants, CycleInputs
    <3>3. SB!InternalPopValid(sb, in) /\ SB!InternalPopData(sb, in) = pop.data
      <4> HIDE DEF in
      <4> QED BY <3>1, <3>2, CircWires
    <3> QED BY <2>1, <2>3, <3>3 DEF SB!PopValid, SB!PopData
  <2> QED BY <2>2, <2>3, Constants
<1>2. CASE Reset
  BY <1>2 DEF Reset, CoreReset, NoPop
<1> QED BY <1>1, <1>2 DEF Next

(* An offer that is refused is shown again with the same data in the next    *)
(* cycle, wherever in the staging buffer it came from, unless that cycle is  *)
(* in reset.                                                                 *)
THEOREM OffersKept == Spec => [][KeepsOffer]_vars
BY Invariance, NextKeepsOffer, PTL DEF Spec

-----------------------------------------------------------------------------
(* Refinement                                                                *)

(* One cycle of the FIFO is one step of a queue.                             *)
LEMMA CycleIsQueueStep ==
  ASSUME IInv, NEW pv \in BOOLEAN, NEW d \in Data, NEW pr \in BOOLEAN, Cycle(pv, d, pr)
  PROVE  /\ QueueStep(Taken(Inputs(pv, d, pr)), Contents, Contents', OneIf(PushBeat(pv), d))
         /\ Len(Contents) = items
<1> DEFINE in == Inputs(pv, d, pr)
           B == SB!BypassBeat(sb, in)
           w == Wr(pv, d, pr)
           r == Rd(pv, d, pr)
           PB == PushBeat(pv)
<1>1. PICK n, m : n = items - sb.staged /\ m = items' - sb'.staged
  OBVIOUS
<1>2. /\ m \in Nat /\ n \in Nat /\ m = n + B2N(w) - B2N(r)
      /\ RamEncloses(n) /\ RamEncloses(m)'
      /\ QueueStep(OneIf(r, RamEntry(0)), RamContents(n), RamContents(m)', OneIf(w, d))
  <2>1. RamEncloses(n)
    BY <1>1 DEF IInv, RamInv
  <2> QED BY <1>1, <2>1, CycleRam, Constants
<1>3. Contents = SB!Staged(sb) \o RamContents(n)
  BY <1>1 DEF Contents
<1>4. Contents' = SB!Staged(sb)' \o RamContents(m)'
  <2>1. RamContents(items - sb.staged)' = RamContents(m)'
    BY <1>1 DEF RamContents
  <2> QED BY <2>1 DEF Contents
<1>5. /\ B \in BOOLEAN /\ w \in BOOLEAN /\ r \in BOOLEAN
      /\ PB <=> w \/ B
      /\ ~(w /\ B) /\ ~(r /\ B)
      /\ B => items = sb.staged
  BY CycleWires
<1>6. QueueStep(Taken(in), SB!Staged(sb), SB!Staged(sb)', Given(in))
  <2>1. InputType(in) /\ BufferInv /\ sb' = SB!StagingNext(sb, in)
    BY CycleInputs DEF IInv, Cycle
  <2> HIDE DEF in
  <2> QED BY <2>1, StagedMoves
<1>7. Given(in) = IF r THEN <<RamEntry(0)>> ELSE IF B THEN <<d>> ELSE <<>>
  <2>1. in.rd_data = RamEntry(0) /\ in.bypass_data = d
    BY CycleInputs
  <2> QED BY <2>1 DEF Given, Rd
<1>8. Len(Contents) = items
  <2>1. RamContents(n) \in Seq(Data) /\ Len(RamContents(n)) = n
    BY <1>2, RamSequence DEF RamEncloses
  <2>2. SB!Staged(sb) \in Seq(Data) /\ Len(SB!Staged(sb)) = sb.staged /\ sb.staged \in Nat /\ items \in Nat
    BY DEF IInv, BufferInv, CoreTypeOK
  <2>3. Len(Contents) = Len(SB!Staged(sb)) + Len(RamContents(n))
    BY <1>3, <2>1, <2>2, Joined
  <2>4. n = items - sb.staged
    BY <1>1
  <2> HIDE DEF in, B, w, r, PB
  <2> QED BY <1>2, <2>1, <2>2, <2>3, <2>4
<1> HIDE DEF in, B, w, r, PB
<1>9. CASE B
  <2>1. ~r /\ ~w /\ PB /\ n = 0 /\ m = 0
    BY <1>1, <1>2, <1>5, <1>9 DEF B2N, IInv, CoreTypeOK
  <2>2. RamContents(n) = <<>> /\ RamContents(m)' = <<>>
    <3>1. RamContents(n) \in Seq(Data) /\ Len(RamContents(n)) = 0
      BY <1>2, <2>1, RamSequence DEF RamEncloses
    <3>2. RamContents(m)' \in Seq(Data) /\ Len(RamContents(m)') = 0
      BY <1>2, <2>1, RamSequenceNext DEF RamEncloses
    <3> QED BY <3>1, <3>2
  <2>3. Given(in) = OneIf(PB, d)
    BY <1>7, <1>9, <2>1 DEF OneIf
  <2>4. Contents = SB!Staged(sb) /\ Contents' = SB!Staged(sb)'
    BY <1>3, <1>4, <1>6, <2>2, Joined DEF QueueStep
  <2> QED BY <1>6, <1>8, <2>3, <2>4 DEF in, PB
<1>10. CASE ~B
  <2>1. Given(in) = OneIf(r, RamEntry(0)) /\ OneIf(w, d) = OneIf(PB, d)
    BY <1>5, <1>7, <1>10 DEF OneIf
  <2>2. QueueStep(Taken(in), SB!Staged(sb) \o RamContents(n), SB!Staged(sb)' \o RamContents(m)',
                  OneIf(w, d))
    BY <1>2, <1>6, <2>1, InSeries
  <2> QED BY <1>3, <1>4, <1>8, <2>1, <2>2 DEF in, PB
<1> QED BY <1>5, <1>9, <1>10

(* What such a step says in terms of the operators on sequences.             *)
LEMMA StepOfQueue ==
  ASSUME NEW c, NEW cn, NEW d \in Data, NEW x
  PROVE  /\ QueueStep(<<>>, c, cn, <<>>) => cn = c
         /\ QueueStep(<<>>, c, cn, <<d>>) => cn = Append(c, d)
         /\ QueueStep(<<x>>, c, cn, <<>>) => c # <<>> /\ cn = Tail(c) /\ x = Head(c)
         /\ QueueStep(<<x>>, c, cn, <<d>>) => cn = Tail(Append(c, d)) /\ x = Head(Append(c, d))
<1>1. ASSUME c \in Seq(Data), cn \in Seq(Data)
      PROVE  /\ c \o <<>> = c /\ <<>> \o cn = cn
             /\ c \o <<d>> = Append(c, d) /\ Append(c, d) \in Seq(Data)
  BY <1>1
<1>2. ASSUME <<x>> \in Seq(Data), cn \in Seq(Data)
      PROVE  <<x>> \o cn # <<>> /\ Tail(<<x>> \o cn) = cn /\ Head(<<x>> \o cn) = x
  <2>1. x \in Data
    <3>1. 1 \in 1 .. Len(<<x>>) /\ <<x>>[1] = x
      OBVIOUS
    <3> QED BY <1>2, <3>1
  <2> QED BY <1>2, <2>1
<1>3. QueueStep(<<>>, c, cn, <<>>) => cn = c
  BY <1>1 DEF QueueStep
<1>4. QueueStep(<<>>, c, cn, <<d>>) => cn = Append(c, d)
  BY <1>1 DEF QueueStep
<1>5. QueueStep(<<x>>, c, cn, <<>>) => c # <<>> /\ cn = Tail(c) /\ x = Head(c)
  BY <1>1, <1>2 DEF QueueStep
<1>6. QueueStep(<<x>>, c, cn, <<d>>) => cn = Tail(Append(c, d)) /\ x = Head(Append(c, d))
  BY <1>1, <1>2 DEF QueueStep
<1> QED BY <1>3, <1>4, <1>5, <1>6

Queue == INSTANCE BoundedFifo WITH q <- Contents, in <- push, out <- Delivered

LEMMA CycleRefines ==
  ASSUME IInv, NEW pv \in BOOLEAN, NEW d \in Data, NEW pr \in BOOLEAN, Cycle(pv, d, pr)
  PROVE  Queue!Next
<1> DEFINE in == Inputs(pv, d, pr)
           PB == PushBeat(pv)
           P == SB!PopBeat(sb, in)
           x == SB!PopData(sb, in)
<1>1. /\ QueueStep(Taken(in), Contents, Contents', OneIf(PB, d)) /\ Len(Contents) = items
      /\ Taken(in) = OneIf(P, x)
  BY CycleIsQueueStep DEF Taken, OneIf
<1>2. PB \in BOOLEAN /\ P \in BOOLEAN /\ (PB => Len(Contents) < Depth)
  BY <1>1, CycleWires
<1>3. push' = IF PB THEN d ELSE NoData
  BY DEF Cycle
<1>4. Delivered' = IF P THEN x ELSE NoData
  <2>1. /\ pop'.valid = SB!PopValid(sb, in) /\ pop'.ready = pr
        /\ SB!PopValid(sb, in) => pop'.data = x
    BY DEF Cycle
  <2>2. P <=> SB!PopValid(sb, in) /\ pr
    BY CycleInputs DEF SB!PopBeat
  <2> HIDE DEF in, P, x
  <2> QED BY <2>1, <2>2 DEF Delivered
<1> HIDE DEF in, PB, P, x
<1>5. PICK c, cn, y : c = Contents /\ cn = Contents' /\ y = x
  OBVIOUS
<1>6. QueueStep(OneIf(P, y), c, cn, OneIf(PB, d))
  BY <1>1, <1>5
<1>7. CASE ~PB /\ ~P
  <2>1. QueueStep(<<>>, c, cn, <<>>)
    BY <1>6, <1>7 DEF OneIf
  <2>2. cn = c
    BY <2>1, StepOfQueue
  <2> QED BY <1>3, <1>4, <1>5, <1>7, <2>2 DEF Queue!Next, Queue!Idle
<1>8. CASE PB /\ ~P
  <2>1. QueueStep(<<>>, c, cn, <<d>>)
    BY <1>6, <1>8 DEF OneIf
  <2>2. cn = Append(c, d)
    BY <2>1, StepOfQueue
  <2> QED BY <1>2, <1>3, <1>4, <1>5, <1>8, <2>2 DEF Queue!Next, Queue!Push
<1>9. CASE ~PB /\ P
  <2>1. QueueStep(<<y>>, c, cn, <<>>)
    BY <1>6, <1>9 DEF OneIf
  <2>2. c # <<>> /\ cn = Tail(c) /\ y = Head(c)
    BY <2>1, StepOfQueue
  <2> QED BY <1>3, <1>4, <1>5, <1>9, <2>2 DEF Queue!Next, Queue!Pop
<1>10. CASE PB /\ P
  <2>1. QueueStep(<<y>>, c, cn, <<d>>)
    BY <1>6, <1>10 DEF OneIf
  <2>2. cn = Tail(Append(c, d)) /\ y = Head(Append(c, d))
    BY <2>1, StepOfQueue
  <2> QED BY <1>2, <1>3, <1>4, <1>5, <1>10, <2>2 DEF Queue!Next, Queue!PushPop
<1> QED BY <1>2, <1>7, <1>8, <1>9, <1>10

(* An empty FIFO is the empty queue.                                         *)
LEMMA EmptyContents ==
  sb = SB!EmptyBuffer /\ items = 0 => Contents = <<>>
<1> SUFFICES ASSUME sb = SB!EmptyBuffer, items = 0 PROVE Contents = <<>>
  OBVIOUS
<1>1. SB!Staged(sb) = <<>> /\ items - sb.staged = 0
  BY EmptyBufferInv
<1>2. RamContents(0) \in Seq(Data) /\ Len(RamContents(0)) = 0
  BY RamSequence
<1>3. RamContents(0) = <<>>
  BY <1>2
<1> QED BY <1>1, <1>3 DEF Contents

LEMMA EmptyContentsNext ==
  (sb = SB!EmptyBuffer)' /\ (items = 0)' => Contents' = <<>>
<1>1. (sb = SB!EmptyBuffer /\ items = 0)' => (Contents = <<>>)'
  BY EmptyContents, PTL
<1> QED BY <1>1

LEMMA InitRefines == Init => Queue!Init
<1> SUFFICES ASSUME Init PROVE Queue!Init
  OBVIOUS
<1>1. Contents = <<>>
  BY EmptyContents DEF Init, CoreInit
<1> QED BY <1>1 DEF Init, CoreInit, Queue!Init, Delivered, NoPop

LEMMA NextRefines == IInv /\ [Next]_vars => [Queue!Next]_(Queue!vars)
<1> SUFFICES ASSUME IInv, [Next]_vars PROVE [Queue!Next]_(Queue!vars)
  OBVIOUS
<1>1. ASSUME NEW pv \in BOOLEAN, NEW pr \in BOOLEAN, NEW d \in Data, Cycle(pv, d, pr)
      PROVE  Queue!Next
  BY <1>1, CycleRefines
<1>2. CASE Reset
  <2>1. Contents' = <<>>
    <3>1. (sb = SB!EmptyBuffer)' /\ (items = 0)'
      BY <1>2 DEF Reset, CoreReset, SB!EmptyBuffer, SB!Stage, SB!Cell, SB!InternalDepth
    <3> QED BY <3>1, EmptyContentsNext
  <2> QED BY <1>2, <2>1 DEF Reset, CoreReset, NoPop, Delivered, Queue!Next, Queue!Reset
<1>3. CASE UNCHANGED vars
  BY <1>3
     DEF vars, Queue!vars, Contents, Delivered, RamContents, RamEntry, Slot,
         SB!Staged, SB!Held, SB!InFlight, SB!Cells, SB!CellsUsed, SB!CellEntry, SB!CellAt,
         SB!Arriving, SB!InStages, SB!One, SB!Stage, SB!InternalDepth
<1> QED BY <1>1, <1>2, <1>3 DEF Next

(* The controller with its staging buffer and its RAM is one bounded queue:  *)
(* nothing is lost, duplicated or reordered, whether an entry goes through   *)
(* the RAM, is overtaken by none that bypasses it, or is shown in the cycle  *)
(* in which its read returns.                                                *)
THEOREM Refinement == Spec => Queue!Spec
BY Invariance, InitRefines, NextRefines, PTL DEF Spec, Queue!Spec

-----------------------------------------------------------------------------
(* Latency                                                                   *)

\* Whether there is an entry in the output register.
OutputFull == B2N(sb.reg # NoData)

\* The reads in flight that were issued j cycles ago or earlier.
OldReads(j) == [k \in SB!Stage |-> IF k >= j THEN sb.reads[k] ELSE NoData]
OldCount(j) == Len(SB!InStages(OldReads(j)))

(* The n entries that are to leave the ring next have nothing to wait for    *)
(* but reads that were issued j cycles ago or earlier.                       *)
HasOld(n, j) ==
    IF EnableBypass
    THEN /\ SB!CellsUsed(sb) >= n
         /\ \A k \in SB!Stage : k < j /\ sb.reads[k] # NoData => Pos(sb.wr_cell[k]) >= n
    ELSE SB!CellsUsed(sb) + OldCount(j) >= n

(* The staging buffer was full j cycles ago, less the cycle of the push, and *)
(* as many of these entries are left as the consumer cannot have taken.      *)
Settled(j) == IF SB!InternalDepth > 1 THEN HasOld(RamReadLatency + 3 - j - OutputFull, j)
              ELSE sb.staged = 2 /\ sb.reads[1] = NoData

(* A push into the RAM j cycles ago found either a place in the staging      *)
(* buffer for the read of the cycle after it, or a full buffer.              *)
InTime ==
    /\ pushed \in [1 .. Latency -> BOOLEAN]
    /\ pushed[1] => items > sb.staged
    /\ \A j \in 2 .. RamReadLatency + 1 : pushed[j] => sb.reads[j - 1] # NoData \/ Settled(j)
    /\ RegisterPopOutputs /\ pushed[Latency] => sb.reg # NoData

LEMMA OutputMoves ==
  ASSUME NEW in, InputType(in), BufferInv, sb' = SB!StagingNext(sb, in)
  PROVE  /\ OutputFull \in 0 .. 1 /\ OutputFull' \in 0 .. 1
         /\ OutputFull' = OutputFull + B2N(InternalBeat(in)) - B2N(SB!PopBeat(sb, in))
<1>1. /\ Taken(in) \in Seq(Data) /\ SB!One(sb.reg) \in Seq(Data)
      /\ SB!One(sb'.reg) \in Seq(Data) /\ Moved(in) \in Seq(Data)
      /\ Taken(in) \o SB!One(sb'.reg) = SB!One(sb.reg) \o Moved(in)
  BY RegMoves DEF QueueStep
<1>2. Len(Taken(in)) + Len(SB!One(sb'.reg)) = Len(SB!One(sb.reg)) + Len(Moved(in))
  BY <1>1, Joined
<1>3. Len(Taken(in)) = B2N(SB!PopBeat(sb, in)) /\ Len(Moved(in)) = B2N(InternalBeat(in))
  BY DEF Taken, Moved, B2N
<1>4. sb.reg \in Word /\ sb'.reg \in Word
  BY BufferTypeNext DEF BufferInv, BufferType
<1>5. ASSUME NEW x \in Word PROVE Len(SB!One(x)) = B2N(x # NoData)
  BY <1>5, OneFacts DEF B2N
<1>6. Len(SB!One(sb.reg)) = OutputFull /\ Len(SB!One(sb'.reg)) = OutputFull'
  BY <1>4, <1>5 DEF OutputFull, B2N
<1>7. OutputFull \in 0 .. 1 /\ OutputFull' \in 0 .. 1
  BY DEF OutputFull, B2N
<1>8. B2N(SB!PopBeat(sb, in)) \in 0 .. 1 /\ B2N(InternalBeat(in)) \in 0 .. 1
  BY DEF B2N
<1> QED BY <1>2, <1>3, <1>6, <1>7, <1>8

LEMMA OldReadsMove ==
  ASSUME NEW in, InputType(in), BufferType, sb' = SB!StagingNext(sb, in),
         NEW j \in 2 .. RamReadLatency
  PROVE  /\ OldCount(j) \in Nat /\ OldCount(j + 1)' \in Nat
         /\ OldCount(j) = B2N(sb.reads[RamReadLatency] # NoData) + OldCount(j + 1)'
<1> DEFINE L == RamReadLatency
           r == OldReads(j)
           s == [k \in SB!Stage |-> IF k >= j + 1 THEN sb'.reads[k] ELSE NoData]
<1>1. L \in Nat /\ L > 0 /\ L \in SB!Stage /\ 1 \in SB!Stage /\ j \in Nat /\ j >= 2 /\ L >= j
  BY Constants DEF SB!Stage
<1>2. r \in [SB!Stage -> Word] /\ s \in [SB!Stage -> Word]
  BY ReadsMove DEF OldReads, BufferType, Word
<1>3. \A k \in 2 .. L : s[k] = r[k - 1]
  <2> SUFFICES ASSUME NEW k \in 2 .. L PROVE s[k] = r[k - 1]
    OBVIOUS
  <2>1. k \in SB!Stage /\ k - 1 \in SB!Stage /\ sb'.reads[k] = sb.reads[k - 1]
    BY <1>1, ReadsMove DEF SB!Stage
  <2>2. k >= j + 1 <=> k - 1 >= j
    BY <1>1
  <2> QED BY <2>1, <2>2 DEF OldReads
<1>4. s[1] = NoData /\ r[L] = sb.reads[L]
  BY <1>1 DEF OldReads
<1>5. OldCount(j) = Len(SB!InStages(r)) /\ OldCount(j + 1)' = Len(SB!InStages(s))
  BY DEF OldCount, OldReads, SB!Stage
<1> HIDE DEF r, s
<1>6. SB!InStages(r) \in Seq(Data) /\ SB!InStages(s) \in Seq(Data)
  BY <1>2, StagesFacts
<1>7. SB!One(r[L]) \o SB!InStages(s) = SB!InStages(r) \o SB!One(s[1])
  BY <1>1, <1>2, <1>3, StagesShift
<1>8. /\ SB!One(r[L]) \in Seq(Data) /\ Len(SB!One(r[L])) = B2N(r[L] # NoData)
      /\ SB!One(s[1]) = <<>>
  BY <1>1, <1>2, <1>4, OneFacts DEF B2N
<1>9. Len(SB!One(r[L]) \o SB!InStages(s)) = Len(SB!One(r[L])) + Len(SB!InStages(s))
  BY <1>6, <1>8, Joined
<1>10. SB!InStages(r) \o SB!One(s[1]) = SB!InStages(r)
  BY <1>6, <1>8, Joined
<1> QED BY <1>4, <1>5, <1>6, <1>7, <1>8, <1>9, <1>10

LEMMA OldReadsEnds ==
  ASSUME BufferType, RamReadLatency > 0
  PROVE  /\ OldCount(RamReadLatency + 1) = 0
         /\ sb.reads[1] = NoData => OldCount(2) = Len(SB!InFlight(sb))
<1>1. /\ RamReadLatency \in Nat /\ sb.reads \in [SB!Stage -> Word]
      /\ \A k \in SB!Stage : k \in Int /\ k >= 1 /\ k <= RamReadLatency
  BY Constants DEF BufferType, SB!Stage
<1>2. OldReads(RamReadLatency + 1) \in [SB!Stage -> Word]
  BY <1>1 DEF OldReads, Word
<1>3. \A k \in SB!Stage : OldReads(RamReadLatency + 1)[k] = NoData
  BY <1>1 DEF OldReads
<1>4. OldCount(RamReadLatency + 1) = 0
  <2>1. PICK r : r = OldReads(RamReadLatency + 1)
    OBVIOUS
  <2>2. SB!InStages(r) = <<>>
    BY <1>2, <1>3, <2>1, NoReads
  <2> QED BY <2>1, <2>2 DEF OldCount
<1>5. ASSUME sb.reads[1] = NoData PROVE OldCount(2) = Len(SB!InFlight(sb))
  <2>1. OldReads(2) = sb.reads
    <3>1. \A k \in SB!Stage : (IF k >= 2 THEN sb.reads[k] ELSE NoData) = sb.reads[k]
      <4> SUFFICES ASSUME NEW k \in SB!Stage, ~(k >= 2) PROVE sb.reads[k] = NoData
        OBVIOUS
      <4>1. k = 1
        BY <1>1
      <4> QED BY <1>5, <4>1
    <3> QED BY <1>1, <3>1 DEF OldReads
  <2> QED BY <2>1 DEF OldCount, SB!InFlight
<1> QED BY <1>4, <1>5


(* What is staged is in the output register, in the ring or, without the     *)
(* bypass, in the RAM on its way to it.                                      *)
LEMMA RingCount ==
  ASSUME BufferInv, SB!InternalDepth > 1
  PROVE  /\ SB!CellsUsed(sb) \in Nat /\ Len(SB!InFlight(sb)) \in Nat
         /\ sb.staged = OutputFull + SB!CellsUsed(sb)
                           + (IF EnableBypass THEN 0 ELSE Len(SB!InFlight(sb)))
<1>1. BufferType /\ sb.staged = Len(SB!Staged(sb)) /\ sb.reads \in [SB!Stage -> Word]
      /\ SB!CellsUsed(sb) \in Nat
  BY RingFacts, Constants DEF BufferInv, BufferType
<1>2. CellsHoldEntries
  <2> SUFFICES ASSUME NEW c \in SB!Cell, Pos(c) < SB!CellsUsed(sb)
               PROVE  SB!CellEntry(sb, c) \in Data
    BY DEF CellsHoldEntries
  <2>1. sb.mem[c] \in Word
    BY <1>1 DEF BufferType
  <2>2. CASE sb.mem[c] # NoData \/ ~EnableBypass
    <3>1. sb.mem[c] # NoData
      BY <2>2 DEF BufferInv, RingInv, CellsAreFull
    <3> QED BY <2>1, <2>2, <3>1 DEF SB!CellEntry, Word
  <2>3. CASE EnableBypass /\ sb.mem[c] = NoData
    <3>1. SB!Arriving(sb, c) # {}
      BY <2>3 DEF BufferInv, RingInv, CellsFill
    <3>2. \A k \in SB!Arriving(sb, c) : sb.reads[k] \in Data
      BY <1>1 DEF SB!Arriving, Word
    <3>3. (CHOOSE k \in SB!Arriving(sb, c) : TRUE) \in SB!Arriving(sb, c)
      BY <3>1
    <3>4. SB!CellEntry(sb, c) = sb.reads[CHOOSE k \in SB!Arriving(sb, c) : TRUE]
      BY <2>3, <3>1 DEF SB!CellEntry
    <3> QED BY <3>2, <3>3, <3>4
  <2> QED BY <2>2, <2>3, Constants
<1>3. SB!Cells(sb) \in Seq(Data) /\ Len(SB!Cells(sb)) = SB!CellsUsed(sb)
  BY <1>1, <1>2, CellsSequence DEF CellsAreASequence
<1>4. SB!InFlight(sb) \in Seq(Data) /\ Len(SB!InFlight(sb)) \in Nat
  BY <1>1, StagesFacts DEF SB!InFlight
<1>5. SB!Held(sb) = IF EnableBypass THEN SB!Cells(sb) ELSE SB!Cells(sb) \o SB!InFlight(sb)
  BY Constants DEF SB!Held
<1>6. /\ SB!Held(sb) \in Seq(Data)
      /\ Len(SB!Held(sb)) = SB!CellsUsed(sb) + (IF EnableBypass THEN 0 ELSE Len(SB!InFlight(sb)))
  <2>1. CASE EnableBypass
    BY <1>1, <1>3, <1>5, <2>1
  <2>2. CASE ~EnableBypass
    BY <1>1, <1>3, <1>4, <1>5, <2>2, Joined
  <2> QED BY <2>1, <2>2, Constants
<1>7. Len(SB!Staged(sb)) = OutputFull + Len(SB!Held(sb))
  BY <1>1, <1>6, StagedLength DEF OutputFull
<1>8. OutputFull \in 0 .. 1
  BY DEF OutputFull, B2N
<1>9. CASE EnableBypass
  BY <1>1, <1>4, <1>6, <1>7, <1>8, <1>9
<1>10. CASE ~EnableBypass
  BY <1>1, <1>4, <1>6, <1>7, <1>8, <1>10
<1> QED BY <1>9, <1>10, Constants

LEMMA SettledBegins ==
  BufferInv /\ RamReadLatency > 0 /\ sb.staged = BufferDepth /\ sb.reads[1] = NoData
    => Settled(2)
<1> SUFFICES ASSUME BufferInv, RamReadLatency > 0, sb.staged = BufferDepth,
                    sb.reads[1] = NoData
             PROVE  Settled(2)
  OBVIOUS
<1>1. OutputFull \in 0 .. 1
  BY DEF OutputFull, B2N
<1>2. RamReadLatency \in Nat /\ BufferDepth = RamReadLatency + 1
  BY Constants
<1>3. CASE SB!InternalDepth > 1
  <2>1. OldCount(2) = Len(SB!InFlight(sb))
    BY OldReadsEnds DEF BufferInv
  <2>2. /\ SB!CellsUsed(sb) \in Nat /\ Len(SB!InFlight(sb)) \in Nat
        /\ RamReadLatency + 1 = OutputFull + SB!CellsUsed(sb)
                                  + (IF EnableBypass THEN 0 ELSE Len(SB!InFlight(sb)))
    BY <1>2, <1>3, RingCount
  <2>3. PICK n : n = RamReadLatency + 3 - 2 - OutputFull
    OBVIOUS
  <2>4. n = SB!CellsUsed(sb) + (IF EnableBypass THEN 0 ELSE Len(SB!InFlight(sb)))
    <3>1. CASE EnableBypass
      BY <1>1, <1>2, <2>2, <2>3, <3>1
    <3>2. CASE ~EnableBypass
      BY <1>1, <1>2, <2>2, <2>3, <3>2
    <3> QED BY <3>1, <3>2, Constants
  <2>5. \A k \in SB!Stage : k < 2 => k = 1
    BY DEF SB!Stage
  <2>6. HasOld(n, 2)
    <3>1. CASE EnableBypass
      BY <2>2, <2>4, <2>5, <3>1 DEF HasOld
    <3>2. CASE ~EnableBypass
      BY <2>1, <2>2, <2>4, <3>2 DEF HasOld
    <3> QED BY <3>1, <3>2, Constants
  <2> QED BY <1>3, <2>3, <2>6 DEF Settled
<1>4. CASE ~(SB!InternalDepth > 1)
  <2>1. RamReadLatency = 1
    BY <1>4, Constants
  <2> QED BY <1>2, <1>4, <2>1 DEF Settled
<1> QED BY <1>3, <1>4

LEMMA SettledBeginsNext ==
  BufferInv' /\ RamReadLatency > 0 /\ sb'.staged = BufferDepth /\ sb'.reads[1] = NoData
    => Settled(2)'
<1>1. (BufferInv /\ RamReadLatency > 0 /\ sb.staged = BufferDepth /\ sb.reads[1] = NoData)'
        => Settled(2)'
  BY SettledBegins, PTL
<1> QED BY <1>1 DEF BufferDepth

LEMMA OldMoves ==
  ASSUME NEW in, InputType(in), BufferInv, sb' = SB!StagingNext(sb, in), SB!InternalDepth > 1,
         NEW j \in 2 .. RamReadLatency, NEW n \in Int, n >= 1, HasOld(n, j),
         NEW m \in Int, m <= n - B2N(InternalBeat(in))
  PROVE  HasOld(m, j + 1)'
<1> DEFINE u == SB!CellsUsed(sb)
           W == SB!AdvanceWr(sb, in)
           R == SB!AdvanceRd(sb, in)
           rd == sb.reads[RamReadLatency]
           IB == InternalBeat(in)
<1>1. BufferType /\ j \in Int /\ j >= 2 /\ j <= RamReadLatency /\ RamReadLatency \in Nat
  BY Constants DEF BufferInv
<1>2. W \in BOOLEAN /\ R \in BOOLEAN
  BY DEF SB!AdvanceWr, SB!AdvanceRd
<1>3. u \in Nat /\ (SB!circ_empty(sb) <=> u = 0)
  BY <1>1, RingFacts, Constants
<1>4. IB <=> /\ SB!head_valid(sb) \/ rd # NoData \/ (u = 0 /\ SB!BypassBeat(sb, in))
             /\ SB!InternalPopReady(sb, in)
  BY <1>3, CircWires DEF InternalBeat
<1>5. CASE EnableBypass
  <2>1. u >= n /\ \A k \in SB!Stage : k < j /\ sb.reads[k] # NoData => Pos(sb.wr_cell[k]) >= n
    BY <1>5 DEF HasOld
  <2>2. u # 0
    BY <1>3, <2>1
  <2>3. IB <=> R
    BY <1>4, <1>5, <2>2, AllocWires
  <2>4. SB!CellsUsed(sb)' = u + B2N(W) - B2N(R) /\ SB!CellsUsed(sb)' \in Int
    BY <1>5, PlacesNext
  <2>5. m <= n - B2N(R)
    BY <2>3 DEF B2N
  <2>6. SB!CellsUsed(sb)' >= m
    <3> HIDE DEF u, W, R
    <3> QED BY <1>2, <1>3, <2>1, <2>4, <2>5 DEF B2N
  <2>7. ASSUME NEW k \in SB!Stage, k < j + 1, sb'.reads[k] # NoData
        PROVE  Pos(sb.wr_cell[k])' >= m
    <3>1. k \in Int /\ k >= 1
      BY DEF SB!Stage
    <3>2. CASE k = 1
      <4>1. W /\ sb'.wr_cell[k] = sb.wr_ptr
        BY <1>5, <2>7, <3>2, ReadsOrigin
      <4>2. PICK c \in SB!Cell : c = sb.wr_ptr
        BY <1>1, RingFacts
      <4>3. Pos(c)' = SB!CellsUsed(sb)' - 1
        BY <1>5, <4>1, <4>2, PlacesNext
      <4>4. Pos(sb.wr_cell[k])' = Pos(c)'
        BY <4>1, <4>2 DEF Pos
      <4> HIDE DEF u, W, R
      <4> QED BY <1>2, <1>3, <2>1, <2>4, <2>5, <4>1, <4>3, <4>4 DEF B2N
    <3>3. CASE k > 1
      <4>1. /\ k - 1 \in SB!Stage /\ sb.reads[k - 1] # NoData
            /\ sb'.wr_cell[k] = sb.wr_cell[k - 1] /\ Kept(in, sb.wr_cell[k - 1])
        BY <1>5, <2>7, <3>3, ReadsOrigin
      <4>2. PICK c \in SB!Cell : c = sb.wr_cell[k - 1]
        BY <1>5, <4>1 DEF BufferInv, RingInv, CellsFill, ReadsFillCells
      <4>3. Pos(c)' = Pos(c) - B2N(R) /\ Pos(c) \in Nat
        BY <1>5, <4>1, <4>2, PlacesNext
      <4>4. Pos(c) >= n
        BY <1>1, <2>1, <2>7, <3>1, <4>1, <4>2
      <4>5. Pos(sb.wr_cell[k])' = Pos(c)'
        BY <4>1, <4>2 DEF Pos
      <4> HIDE DEF R
      <4> QED BY <1>2, <2>5, <4>3, <4>4, <4>5 DEF B2N
    <3> QED BY <3>1, <3>2, <3>3
  <2> QED BY <1>5, <2>6, <2>7 DEF HasOld, SB!Stage
<1>6. CASE ~EnableBypass
  <2>1. /\ SB!head_valid(sb) <=> u > 0
        /\ ~SB!BypassBeat(sb, in)
        /\ W <=> rd # NoData /\ ~(u = 0 /\ SB!InternalPopReady(sb, in))
        /\ R <=> u > 0 /\ SB!InternalPopReady(sb, in)
        /\ W => u < SB!InternalDepth \/ R
    BY <1>6, FillWires
  <2>2. SB!CellsUsed(sb)' = u + B2N(W) - B2N(R)
    BY <1>1, <1>3, <2>1, RingMoves
  <2>3. /\ OldCount(j) \in Nat /\ OldCount(j + 1)' \in Nat
        /\ OldCount(j) = B2N(rd # NoData) + OldCount(j + 1)'
    BY <1>1, OldReadsMove
  <2>4. u + OldCount(j) >= n
    BY <1>6 DEF HasOld
  <2>5. PICK b \in BOOLEAN, p \in BOOLEAN : (b <=> rd # NoData) /\ (p <=> SB!InternalPopReady(sb, in))
    BY CircWires
  <2>6. B2N(rd # NoData) = B2N(b) /\ (IB <=> (u > 0 \/ b) /\ p)
    BY <1>4, <2>1, <2>5 DEF B2N
  <2>7. (W <=> b /\ ~(u = 0 /\ p)) /\ (R <=> u > 0 /\ p)
    BY <2>1, <2>5
  <2>8. SB!CellsUsed(sb)' + OldCount(j + 1)' >= m
    <3> HIDE DEF u, W, R, rd, IB
    <3>1. SB!CellsUsed(sb)' = u + B2N(b) - B2N(IB)
      BY <1>2, <1>3, <2>2, <2>5, <2>6, <2>7 DEF B2N
    <3>2. B2N(b) \in 0 .. 1 /\ B2N(IB) \in 0 .. 1
      BY DEF B2N
    <3>3. m <= n - B2N(IB)
      BY DEF IB
    <3> QED BY <1>3, <2>3, <2>4, <2>6, <3>1, <3>2, <3>3
  <2> QED BY <1>6, <2>8 DEF HasOld
<1> QED BY <1>5, <1>6, Constants

LEMMA OldHeadShows ==
  ASSUME BufferInv, SB!InternalDepth > 1, NEW n \in Int, n >= 1,
         HasOld(n, RamReadLatency + 1)
  PROVE  SB!head_valid(sb)
<1>1. BufferType /\ SB!CellsUsed(sb) \in Nat /\ sb.rd_ptr \in SB!Cell /\ Pos(sb.rd_ptr) = 0
      /\ (SB!circ_empty(sb) <=> SB!CellsUsed(sb) = 0) /\ RamReadLatency > 0
      /\ \A k \in SB!Stage : k < RamReadLatency + 1
  BY RingFacts, Constants DEF BufferInv, SB!Stage
<1>2. CASE EnableBypass
  <2>1. /\ SB!CellsUsed(sb) >= n
        /\ \A k \in SB!Stage : sb.reads[k] # NoData => Pos(sb.wr_cell[k]) >= n
    BY <1>1, <1>2 DEF HasOld
  <2>2. SB!Arriving(sb, sb.rd_ptr) = {}
    BY <1>1, <2>1 DEF SB!Arriving
  <2>3. sb.mem[sb.rd_ptr] # NoData
    BY <1>1, <1>2, <2>1, <2>2 DEF BufferInv, RingInv, CellsFill
  <2> QED BY <1>2, <2>3 DEF SB!head_valid
<1>3. CASE ~EnableBypass
  <2>1. SB!CellsUsed(sb) >= n
    BY <1>1, <1>3, OldReadsEnds DEF HasOld
  <2> QED BY <1>1, <1>3, <2>1 DEF SB!head_valid
<1> QED BY <1>2, <1>3, Constants


(* An entry in the RAM is read unless the staging buffer is full and the     *)
(* consumer takes nothing.                                                   *)
LEMMA IssueOrFull ==
  ASSUME IInv, NEW pv \in BOOLEAN, NEW d \in Data, NEW pr \in BOOLEAN, Cycle(pv, d, pr),
         items > sb.staged, ~Rd(pv, d, pr)
  PROVE  ~SB!SpaceAvailable(sb, Inputs(pv, d, pr)) /\ sb.staged = BufferDepth
<1> DEFINE in == Inputs(pv, d, pr)
           S == SB!SpaceAvailable(sb, in)
<1>1. /\ in.total_items = items /\ in.pop_ready = pr
      /\ Rd(pv, d, pr) <=> SB!RdAddrValid(sb, in)
  BY CycleInputs
<1>2. /\ items \in Nat /\ sb.staged \in Nat /\ sb.staged <= BufferDepth /\ BufferDepth \in Nat
      /\ EnableBypass => items = sb.staged \/ sb.staged = BufferDepth
  BY Constants DEF IInv, CoreTypeOK, BufferInv, RamInv
<1> HIDE DEF in
<1>3. S /\ ~SB!BypassReady(sb, in) => Rd(pv, d, pr)
  BY <1>1 DEF SB!RdAddrValid, SB!ItemsNotStaged
<1>4. ~SB!BypassReady(sb, in)
  BY <1>1, <1>2 DEF SB!BypassReady
<1>5. ~S
  BY <1>3, <1>4
<1>6. sb.staged = BufferDepth
  BY <1>2, <1>5 DEF SB!SpaceAvailable
<1> QED BY <1>5, <1>6 DEF in

(* An entry that leaves the buffer proper is an entry.                       *)
LEMMA MovedEntry ==
  ASSUME NEW in, InputType(in), BufferInv, sb' = SB!StagingNext(sb, in), RegisterPopOutputs,
         SB!InternalPopValid(sb, in)
  PROVE  sb'.reg # NoData
<1>1. CASE SB!InternalPopReady(sb, in)
  <2>1. Moved(in) \in Seq(Data) /\ Moved(in) = <<SB!InternalPopData(sb, in)>>
    BY <1>1, RegMoves DEF QueueStep, Moved, InternalBeat
  <2>2. SB!InternalPopData(sb, in) \in Data
    BY <2>1
  <2>3. sb'.reg = SB!InternalPopData(sb, in)
    BY <1>1, NextFields DEF SB!RegNext
  <2> QED BY <2>2, <2>3, Constants
<1>2. CASE ~SB!InternalPopReady(sb, in)
  <2>1. sb.reg # NoData
    BY <1>2 DEF SB!InternalPopReady
  <2>2. sb'.reg = sb.reg
    BY <1>2, NextFields DEF SB!RegNext
  <2> QED BY <2>1, <2>2
<1> QED BY <1>1, <1>2

(* When the read of the cycle after the push returns, or would have          *)
(* returned, the buffer shows an entry.                                      *)
LEMMA ShowsNow ==
  ASSUME NEW in, InputType(in), BufferInv, RamReadLatency > 0,
         sb.reads[RamReadLatency] # NoData \/ Settled(RamReadLatency + 1)
  PROVE  SB!InternalPopValid(sb, in)
<1>1. BufferType /\ RamReadLatency \in Nat /\ SB!InternalDepth >= 1 /\ SB!InternalDepth \in Nat
  BY Constants DEF BufferInv
<1>2. CASE sb.reads[RamReadLatency] # NoData
  <2>1. SB!RdDataValid(sb, in)
    BY <1>1, <1>2 DEF SB!RdDataValid, SB!ReadReturns
  <2>2. CASE SB!InternalDepth = 1
    BY <2>1, <2>2 DEF SB!InternalPopValid
  <2>3. CASE SB!InternalDepth > 1
    BY <1>2, <2>3, CircWires
  <2> QED BY <1>1, <2>2, <2>3
<1>3. CASE Settled(RamReadLatency + 1) /\ SB!InternalDepth > 1
  <2>1. PICK n : n = RamReadLatency + 3 - (RamReadLatency + 1) - OutputFull
    OBVIOUS
  <2>2. OutputFull \in 0 .. 1
    BY DEF OutputFull, B2N
  <2>3. n \in Int /\ n >= 1
    BY <1>1, <2>1, <2>2
  <2>4. HasOld(n, RamReadLatency + 1)
    BY <1>3, <2>1 DEF Settled
  <2>5. SB!head_valid(sb)
    BY <1>3, <2>3, <2>4, OldHeadShows
  <2> QED BY <1>3, <2>5, CircWires
<1>4. CASE /\ sb.reads[RamReadLatency] = NoData
           /\ Settled(RamReadLatency + 1) /\ SB!InternalDepth = 1
  <2>1. sb.staged = 2 /\ sb.reads[1] = NoData
    BY <1>4 DEF Settled
  <2>2. RamReadLatency = 1
    BY <1>4, Constants
  <2>3. SB!InFlight(sb) = <<>>
    <3>1. sb.reads \in [SB!Stage -> Word] /\ \A k \in SB!Stage : k = 1
      BY <1>1, <2>2 DEF BufferType, SB!Stage
    <3> QED BY <2>1, <3>1, NoReads DEF SB!InFlight
  <2>4. sb.buf \in Word /\ SB!One(sb.buf) \in Seq(Data)
    BY <1>1, OneFacts DEF BufferType
  <2>5. SB!Held(sb) = IF sb.buf_bypass THEN SB!InFlight(sb) \o SB!One(sb.buf)
                                       ELSE SB!One(sb.buf) \o SB!InFlight(sb)
    BY <1>4 DEF SB!Held
  <2>6. SB!Held(sb) = SB!One(sb.buf)
    BY <2>3, <2>4, <2>5, Joined
  <2>7. sb.staged = B2N(sb.reg # NoData) + Len(SB!Held(sb))
    BY <1>1, <2>4, <2>6, StagedLength DEF BufferInv
  <2>8. B2N(sb.reg # NoData) \in 0 .. 1
    BY DEF B2N
  <2>9. sb.buf # NoData
    BY <2>1, <2>4, <2>6, <2>7, <2>8, OneFacts
  <2>10. SB!buffer_fwd_valid(sb)
    BY <1>4, <2>1, <2>9
       DEF BufferInv, InflightInv, SB!buffer_fwd_valid, SB!buffer_fwd_block, SB!has_inflight_read
  <2> QED BY <1>4, <2>10 DEF SB!InternalPopValid
<1> QED BY <1>1, <1>2, <1>3, <1>4

(* What a cycle does to the obligation of an earlier push.                   *)
LEMMA SettledNext ==
  ASSUME NEW in, InputType(in), BufferInv, sb' = SB!StagingNext(sb, in),
         NEW j \in 2 .. RamReadLatency, Settled(j)
  PROVE  Settled(j + 1)'
<1> DEFINE P == SB!PopBeat(sb, in)
           I == InternalBeat(in)
<1>1. j \in Int /\ j >= 2 /\ j <= RamReadLatency /\ RamReadLatency \in Nat
      /\ SB!InternalDepth > 1 /\ SB!InternalDepth' > 1
  BY Constants DEF SB!InternalDepth
<1>2. /\ OutputFull \in 0 .. 1 /\ OutputFull' \in 0 .. 1
      /\ OutputFull' = OutputFull + B2N(I) - B2N(P)
  BY OutputMoves
<1>3. PICK n, m : /\ n = RamReadLatency + 3 - j - OutputFull
                  /\ m = RamReadLatency + 3 - (j + 1) - OutputFull'
  OBVIOUS
<1>4. n \in Int /\ n >= 1 /\ m \in Int /\ m <= n - B2N(I)
  <2>1. B2N(I) \in 0 .. 1 /\ B2N(P) \in 0 .. 1
    BY DEF B2N
  <2> HIDE DEF I, P
  <2> QED BY <1>1, <1>2, <1>3, <2>1
<1>5. HasOld(n, j)
  BY <1>1, <1>3 DEF Settled
<1>6. HasOld(m, j + 1)'
  BY <1>1, <1>4, <1>5, OldMoves
<1>7. HasOld(RamReadLatency + 3 - (j + 1) - OutputFull, j + 1)'
  BY <1>3, <1>6 DEF HasOld
<1> QED BY <1>1, <1>7 DEF Settled


(* One clock cycle out of reset preserves the invariant of the latency.      *)
LEMMA CycleInTime ==
  ASSUME IInv, InTime, NEW pv \in BOOLEAN, NEW d \in Data, NEW pr \in BOOLEAN,
         Cycle(pv, d, pr)
  PROVE  InTime'
<1> DEFINE in == Inputs(pv, d, pr)
           w == Wr(pv, d, pr)
           r == Rd(pv, d, pr)
           L == RamReadLatency
<1>1. /\ BufferInv /\ BufferType /\ sb' = SB!StagingNext(sb, in) /\ InputType(in)
      /\ r <=> SB!RdAddrBeat(sb, in)
      /\ r => sb.staged < items
  BY CycleInputs DEF IInv, BufferInv, Cycle, Rd
<1>2. /\ w \in BOOLEAN /\ pushed \in [1 .. Latency -> BOOLEAN]
      /\ pushed' = [k \in 1 .. Latency |-> IF k = 1 THEN w ELSE pushed[k - 1]]
      /\ Latency \in Nat /\ L \in Nat /\ Latency >= L + 1
      /\ RegisterPopOutputs => Latency = L + 2
  BY CycleWires, Constants DEF InTime, Cycle, Wr, Latency, B2N
<1> HIDE DEF in, w
<1>3. /\ pushed' \in [1 .. Latency -> BOOLEAN]
      /\ pushed'[1] = w
      /\ \A j \in 2 .. Latency : pushed'[j] = pushed[j - 1]
  BY <1>2
<1>4. pushed'[1] => items' > sb'.staged
  <2>1. PICK n, m : n = items - sb.staged /\ m = items' - sb'.staged
    OBVIOUS
  <2>2. /\ n \in 0 .. RamDepth /\ m \in Nat /\ m = n + B2N(w) - B2N(r)
        /\ BufferInv' /\ items' \in 0 .. Depth
    BY <2>1, CycleRam DEF w
  <2>3. sb'.staged \in Nat /\ sb.staged \in Nat /\ items \in Nat /\ RamDepth \in Nat
    BY <1>1, <2>2, Constants DEF BufferInv, IInv, CoreTypeOK
  <2>4. r => n >= 1
    BY <1>1, <2>1, <2>3
  <2>5. r \in BOOLEAN
    BY CycleWires
  <2> HIDE DEF r
  <2>6. w => m >= 1
    BY <2>2, <2>3, <2>4, <2>5 DEF B2N
  <2>7. items' \in Nat
    BY <2>2, Constants
  <2> QED BY <1>3, <2>1, <2>3, <2>6, <2>7
<1>5. ASSUME NEW j \in 2 .. L + 1, pushed'[j]
      PROVE  sb'.reads[j - 1] # NoData \/ Settled(j)'
  <2>1. j \in 2 .. Latency /\ L > 0 /\ j \in Int /\ pushed[j - 1]
    BY <1>2, <1>3, <1>5
  <2>2. /\ \A k \in SB!Stage : k > 1 => sb'.reads[k] = sb.reads[k - 1]
        /\ sb'.reads[1] = IF r THEN in.rd_data ELSE NoData
    BY <1>1, <2>1, ReadsMove
  <2>3. CASE j = 2
    <3>1. items > sb.staged
      BY <2>1, <2>3 DEF InTime
    <3>2. CASE r
      <4>1. in.rd_data # NoData
        BY <1>1, <3>2, Constants DEF InputType
      <4> QED BY <2>2, <2>3, <3>2, <4>1
    <3>3. CASE ~r
      <4>1. ~SB!SpaceAvailable(sb, in) /\ sb.staged = BufferDepth
        BY <3>1, <3>3, IssueOrFull DEF in
      <4>2. ~SB!PopBeat(sb, in) /\ ~SB!RdAddrBeat(sb, in) /\ ~SB!BypassBeat(sb, in)
        BY <1>1, <4>1, PopMeansSpace, GivenFacts
      <4>3. BufferInv' /\ sb'.staged = sb.staged + B2N(FALSE) - B2N(FALSE)
        <5>1. BufferInv' /\ sb'.staged = sb.staged + B2N(SB!RdAddrBeat(sb, in) \/ SB!BypassBeat(sb, in))
                                                   - B2N(SB!PopBeat(sb, in))
          BY <1>1, BufferInvNext
        <5> QED BY <4>2, <5>1 DEF B2N
      <4>4. sb'.staged = BufferDepth
        BY <4>1, <4>3, Constants DEF B2N
      <4>5. sb'.reads[1] = NoData
        BY <2>2, <3>3
      <4>6. Settled(2)'
        BY <2>1, <4>3, <4>4, <4>5, SettledBeginsNext
      <4> QED BY <2>3, <4>6 DEF Settled, HasOld, OldCount, OldReads
    <3> QED BY <3>2, <3>3
  <2>4. CASE j > 2
    <3>1. PICK i \in 2 .. L : i = j - 1
      BY <1>2, <2>1, <2>4, <1>5
    <3>2. i \in 2 .. L + 1 /\ pushed[i] /\ i \in Int /\ j = i + 1
      BY <1>2, <2>1, <3>1
    <3>3. sb.reads[i - 1] # NoData \/ Settled(i)
      BY <3>2 DEF InTime
    <3>4. CASE sb.reads[i - 1] # NoData
      <4>1. i \in SB!Stage /\ i > 1
        BY <1>2, <3>1 DEF SB!Stage
      <4> QED BY <2>2, <3>1, <3>4, <4>1
    <3>5. CASE Settled(i)
      <4>1. Settled(i + 1)'
        BY <1>1, <3>1, <3>5, SettledNext
      <4> QED BY <3>2, <4>1 DEF Settled, HasOld, OldCount, OldReads
    <3> QED BY <3>3, <3>4, <3>5
  <2> QED BY <2>1, <2>3, <2>4
<1>6. ASSUME RegisterPopOutputs, pushed'[Latency]
      PROVE  sb'.reg # NoData
  <2>1. Latency \in 2 .. Latency /\ Latency = L + 2 /\ Latency - 1 = L + 1 /\ pushed[L + 1]
    BY <1>2, <1>3, <1>6
  <2>2. CASE L > 0
    <3>1. L + 1 \in 2 .. L + 1 /\ (L + 1) - 1 = L
      BY <1>2, <2>2
    <3>2. sb.reads[L] # NoData \/ Settled(L + 1)
      BY <2>1, <3>1 DEF InTime
    <3> QED BY <1>1, <1>6, <2>2, <3>2, ShowsNow, MovedEntry
  <2>3. CASE L = 0
    <3>1. items > sb.staged
      BY <2>1, <2>3 DEF InTime
    <3>2. CASE r
      <4>1. SB!InternalPopValid(sb, in)
        <5>1. SB!InternalDepth = 0
          BY <1>6, <2>3, Constants
        <5>2. SB!PushValid(sb, in)
          BY <1>1, <2>3, <3>2 DEF SB!PushValid, SB!RdDataValid
        <5> QED BY <5>1, <5>2 DEF SB!InternalPopValid
      <4> QED BY <1>1, <1>6, <4>1, MovedEntry
    <3>3. CASE ~r
      <4>1. ~SB!SpaceAvailable(sb, in) /\ sb.staged = BufferDepth
        BY <3>1, <3>3, IssueOrFull DEF in
      <4>2. ~in.pop_ready
        BY <2>3, <4>1 DEF SB!SpaceAvailable
      <4>3. sb.reg # NoData
        <5>1. sb.reads \in [SB!Stage -> Word] /\ SB!InternalDepth = 0 /\ BufferDepth = 1
          BY <1>1, <1>6, <2>3, Constants DEF BufferType
        <5>2. SB!Held(sb) = <<>>
          BY <2>3, <5>1, StagesFacts DEF SB!Held, SB!InFlight
        <5>3. SB!Held(sb) \in Seq(Data) /\ Len(SB!Held(sb)) = 0
          BY <5>2
        <5>4. sb.staged = B2N(sb.reg # NoData) + 0
          BY <1>1, <5>3, StagedLength DEF BufferInv
        <5> QED BY <4>1, <5>1, <5>4 DEF B2N
      <4>4. ~SB!InternalPopReady(sb, in)
        BY <1>6, <4>2, <4>3 DEF SB!InternalPopReady
      <4>5. sb'.reg = sb.reg
        BY <1>1, <4>4, NextFields DEF SB!RegNext
      <4> QED BY <4>3, <4>5
    <3> QED BY <3>2, <3>3
  <2> QED BY <1>2, <2>2, <2>3
<1>7. pushed' \in [1 .. Latency' -> BOOLEAN] /\ Latency' = Latency
  BY <1>3 DEF Latency
<1>8. \A j \in 2 .. L + 1 : pushed'[j] => sb'.reads[j - 1] # NoData \/ Settled(j)'
  BY <1>5
<1> QED BY <1>3, <1>4, <1>6, <1>7, <1>8 DEF InTime

(* Nothing was pushed lately.                                                *)
LEMMA NoPushInTime == pushed = NoPush => InTime
<1> SUFFICES ASSUME pushed = NoPush PROVE InTime
  OBVIOUS
<1>1. Latency \in Nat /\ RamReadLatency \in Nat /\ Latency >= RamReadLatency + 1
  BY Constants DEF Latency, B2N
<1>2. pushed \in [1 .. Latency -> BOOLEAN] /\ \A k \in 1 .. Latency : ~pushed[k]
  BY DEF NoPush
<1>3. 1 \in 1 .. Latency /\ Latency \in 1 .. Latency
  BY <1>1
<1>4. \A j \in 2 .. RamReadLatency + 1 : j \in 1 .. Latency
  BY <1>1
<1> QED BY <1>2, <1>3, <1>4 DEF InTime

LEMMA InitInTime == Init => InTime
BY NoPushInTime DEF Init

LEMMA NextInTime == IInv /\ InTime /\ [Next]_vars => InTime'
<1> SUFFICES ASSUME IInv, InTime, [Next]_vars PROVE InTime'
  OBVIOUS
<1>1. ASSUME NEW pv \in BOOLEAN, NEW pr \in BOOLEAN, NEW d \in Data, Cycle(pv, d, pr)
      PROVE  InTime'
  BY <1>1, CycleInTime
<1>2. CASE Reset
  <2>1. (pushed = NoPush => InTime)'
    BY NoPushInTime, PTL
  <2>2. (pushed = NoPush)'
    BY <1>2 DEF Reset, NoPush, Latency
  <2> QED BY <2>1, <2>2
<1>3. CASE UNCHANGED vars
  <2>1. sb' = sb /\ items' = items /\ pushed' = pushed
    BY <1>3 DEF vars
  <2>2. SB!CellsUsed(sb)' = SB!CellsUsed(sb) /\ OutputFull' = OutputFull
    BY <2>1 DEF SB!CellsUsed, OutputFull, SB!InternalDepth
  <2>3. ASSUME NEW j PROVE Settled(j)' <=> Settled(j)
    <3>1. OldCount(j)' = OldCount(j)
      BY <2>1 DEF OldCount, OldReads, SB!InStages, SB!One, SB!Stage
    <3>2. \A c : Pos(c)' = Pos(c)
      BY <2>1 DEF Pos, SB!InternalDepth
    <3>3. \A n : HasOld(n, j)' <=> HasOld(n, j)
      BY <2>1, <2>2, <3>1, <3>2 DEF HasOld, SB!Stage, Pos, SB!InternalDepth
    <3> QED BY <2>1, <2>2, <3>3 DEF Settled, SB!InternalDepth
  <2> QED BY <2>1, <2>3 DEF InTime, Latency
<1> QED BY <1>1, <1>2, <1>3 DEF Next

LEMMA NextShows == IInv /\ InTime /\ [Next]_vars => [ShowsInTime]_vars
<1> SUFFICES ASSUME IInv, InTime, [Next]_vars, pushed[Latency], ~pop'.rst
             PROVE  UNCHANGED vars \/ pop'.valid
  BY DEF ShowsInTime
<1>1. ASSUME NEW pv \in BOOLEAN, NEW pr \in BOOLEAN, NEW d \in Data, Cycle(pv, d, pr)
      PROVE  pop'.valid
  <2>1. PICK in : in = Inputs(pv, d, pr)
    OBVIOUS
  <2>2. InputType(in) /\ BufferInv /\ pop'.valid = SB!PopValid(sb, in)
    BY <1>1, <2>1, CycleInputs DEF IInv, Cycle
  <2>3. CASE RegisterPopOutputs
    BY <2>2, <2>3 DEF InTime, SB!PopValid
  <2>4. CASE ~RegisterPopOutputs
    <3>1. /\ RamReadLatency > 0 /\ RamReadLatency \in Nat
          /\ Latency = RamReadLatency + 1 /\ Latency - 1 = RamReadLatency
          /\ Latency \in 2 .. RamReadLatency + 1
      BY <2>4, Constants DEF Latency, B2N
    <3>2. sb.reads[RamReadLatency] # NoData \/ Settled(RamReadLatency + 1)
      BY <3>1 DEF InTime
    <3> QED BY <2>2, <2>4, <3>1, <3>2, ShowsNow DEF SB!PopValid
  <2> QED BY <2>3, <2>4, Constants
<1>2. CASE Reset
  BY <1>2 DEF Reset, CoreReset, NoPop
<1> QED BY <1>1, <1>2 DEF Next

(* The latency is exact for every latency of the RAM, although the read may  *)
(* have to wait for the consumer: when it is not issued in the cycle after   *)
(* the push, the staging buffer is full, and the consumer cannot take        *)
(* everything in it before the read would have returned.                     *)
THEOREM LatencyIsExact == Spec => [][ShowsInTime]_vars
<1>1. Init => IInv /\ InTime
  BY InitIInv, InitInTime
<1>2. IInv /\ InTime /\ [Next]_vars => (IInv /\ InTime)'
  BY NextIInv, NextInTime
<1>3. IInv /\ InTime /\ [Next]_vars => [ShowsInTime]_vars
  BY NextShows
<1> QED BY <1>1, <1>2, <1>3, PTL DEF Spec
=============================================================================
