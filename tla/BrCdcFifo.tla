----------------------------- MODULE BrCdcFifo ------------------------------
(***************************************************************************)
(* br_cdc_fifo_ctrl_1r1w with RamReadLatency = 0 and RegisterPopOutputs = 0: *)
(* a FIFO between two clocks that know nothing of each other.  Each side     *)
(* counts its own beats modulo 2 ** CountWidth and learns of the other       *)
(* side's count, and of its reset, through a delay on the source clock and   *)
(* NumSyncStages flops per bit on its own clock.                            *)
(*                                                                         *)
(* A step is an edge of push_clk, of pop_clk, or of both so close together   *)
(* that every synchronizer may sample each bit before or after the change.   *)
(***************************************************************************)
EXTENDS BrEncGray,   \* CountWidth = $clog2(Depth + 1)
        FiniteSetsExt

CONSTANTS Depth,
          RegisterResetActive,    \* resets are registered before they cross
          RamWriteLatency,        \* push cycles until a write can be read
          NumSyncStages,
          MinReset,               \* cycles of its clock a reset is held at least
          Data, NoData

VARIABLES
    \* registers on push_clk
    push_count, ram_wr_addr, pop_count_saved, push_gray, push_reset_reg,
    push_pop_gray, push_pop_reset, ram_wr,
    \* registers on pop_clk
    pop_count, ram_rd_addr, push_count_saved, pop_gray, pop_reset_reg,
    pop_push_gray, pop_push_reset,
    ram,
    accepted, out,               \* entries pushed and popped in this step
    \* the reset controller: one reset of both sides at a time
    push_rst, pop_rst,
    held_push, held_pop,         \* cycles asserted, up to MinReset
    overlap_push, overlap_pop,   \* the domain has seen both resets active
    ended                        \* sides whose reset is over

MaxCountP1 == Power2[CountWidth]
Addr == 0 .. Depth - 1

ASSUME CdcAssumption ==
    /\ Depth \in Nat /\ Depth >= 2
    /\ Depth < MaxCountP1 /\ MaxCountP1 <= 2 * Depth
    /\ RegisterResetActive \in {0, 1}
    /\ RamWriteLatency \in Nat \ {0}
    /\ NumSyncStages \in Nat \ {0}
    /\ MinReset \in Nat \ {0}
    /\ NoData \notin Data

pushVars == <<push_count, ram_wr_addr, pop_count_saved, push_gray, push_reset_reg,
              push_pop_gray, push_pop_reset, ram_wr>>
popVars == <<pop_count, ram_rd_addr, push_count_saved, pop_gray, pop_reset_reg,
             pop_push_gray, pop_push_reset>>
rstVars == <<push_rst, pop_rst, held_push, held_pop, overlap_push, overlap_pop, ended>>
vars == <<pushVars, popVars, ram, accepted, out, rstVars>>

Larger(a, b) == IF a >= b THEN a ELSE b

\* (mutant) The count crosses with the news of a reset, before the entry can be
\* read.
MutPushCountDelay == RegisterResetActive

PushCountDelay == Larger(RegisterResetActive + 1, RamWriteLatency)

PopCountDelay == RegisterResetActive + 1

Side == {"push", "pop"}
SyncStage == 1 .. NumSyncStages
NoWrite == [addr |-> 0, data |-> NoData]

\* br_delay_nr, br_gate_cdc_sync: a chain of flops without reset.
Shift(stages, in) == [i \in DOMAIN stages |-> IF i = 1 THEN in ELSE stages[i - 1]]

\* The state in which a long common reset leaves both sides.
Init ==
    /\ push_count = 0 /\ ram_wr_addr = 0 /\ pop_count_saved = 0
    /\ pop_count = 0 /\ ram_rd_addr = 0 /\ push_count_saved = 0
    /\ push_gray = [i \in 1 .. PushCountDelay |-> {}]
    /\ pop_gray = [i \in 1 .. PopCountDelay |-> {}]
    /\ push_pop_gray = [i \in SyncStage |-> {}] /\ pop_push_gray = [i \in SyncStage |-> {}]
    /\ push_pop_reset = [i \in SyncStage |-> TRUE] /\ pop_push_reset = [i \in SyncStage |-> TRUE]
    /\ push_reset_reg = TRUE /\ pop_reset_reg = TRUE
    /\ push_rst = TRUE /\ pop_rst = TRUE
    /\ held_push = MinReset /\ held_pop = MinReset
    /\ overlap_push = TRUE /\ overlap_pop = TRUE /\ ended = {}
    /\ ram_wr = [i \in 1 .. RamWriteLatency - 1 |-> NoWrite]
    /\ ram = [a \in Addr |-> NoData] /\ accepted = NoData /\ out = NoData

-----------------------------------------------------------------------------
(* Wires *)

reset_active_push == IF RegisterResetActive = 1 THEN push_reset_reg ELSE push_rst
reset_active_pop == IF RegisterResetActive = 1 THEN pop_reset_reg ELSE pop_rst

\* What has crossed.
pop_count_seen == Gray2Bin(push_pop_gray[NumSyncStages])
\* (mutant) The wrong polarity.
mut_pop_reset_seen == ~push_pop_reset[NumSyncStages]

pop_reset_seen == push_pop_reset[NumSyncStages]
push_count_seen == Gray2Bin(pop_push_gray[NumSyncStages])

push_reset_seen == pop_push_reset[NumSyncStages]

\* (mutant) The count in flight is trusted while the other side is in reset.
MutVisible(reset_seen, saved, seen) == seen

Visible(reset_seen, saved, seen) == IF reset_seen THEN saved ELSE seen

\* items_ext: the difference of two counts that wrap.
Difference(push, pop) == (push - pop) % MaxCountP1

push_items == Difference(push_count, Visible(pop_reset_seen, pop_count_saved, pop_count_seen))

slots == (Depth - push_items) % MaxCountP1
full == slots = 0

pop_items == Difference(Visible(push_reset_seen, push_count_saved, push_count_seen), pop_count)
items == IF pop_rst THEN 0 ELSE pop_items
empty == items = 0

PushBeat(pv) == ~full /\ pv
PopBeat(pr) == pr /\ ~empty

CountAfter(c, beat) == IF beat THEN (c + 1) % MaxCountP1 ELSE c
AddrAfter(a, beat) == IF beat THEN (a + 1) % Depth ELSE a

\* What crosses after the next edge.
PushGrayNext(pv) == Shift(push_gray, Bin2Gray(CountAfter(push_count, PushBeat(pv))))[PushCountDelay]
PopGrayNext(pr) == Shift(pop_gray, Bin2Gray(CountAfter(pop_count, PopBeat(pr))))[PopCountDelay]
push_reset_next == IF RegisterResetActive = 1 THEN push_rst ELSE push_rst'
pop_reset_next == IF RegisterResetActive = 1 THEN pop_rst ELSE pop_rst'

-----------------------------------------------------------------------------
(* Registers of the push clock; gray and reset are what the first stages of  *)
(* the synchronizers sample.                                                 *)
PushEdge(pv, d, gray, reset) ==
    LET beat == PushBeat(pv)
        write == IF beat THEN [addr |-> ram_wr_addr, data |-> d] ELSE NoWrite
        landing == IF RamWriteLatency = 1 THEN write ELSE ram_wr[RamWriteLatency - 1]
    IN  /\ push_rst => ~pv
        /\ push_count' = IF push_rst THEN 0 ELSE CountAfter(push_count, beat)
        /\ ram_wr_addr' = IF push_rst THEN 0 ELSE AddrAfter(ram_wr_addr, beat)
        /\ pop_count_saved' = IF push_rst THEN 0
                              ELSE IF pop_reset_seen THEN pop_count_saved ELSE pop_count_seen
        /\ push_gray' = Shift(push_gray, Bin2Gray(CountAfter(push_count, beat)))
        /\ push_reset_reg' = push_rst
        /\ push_pop_gray' = Shift(push_pop_gray, gray)
        /\ push_pop_reset' = Shift(push_pop_reset, reset)
        /\ ram_wr' = Shift(ram_wr, write)
        /\ accepted' = IF beat THEN d ELSE NoData
        /\ ram' = IF landing = NoWrite THEN ram ELSE [ram EXCEPT ![landing.addr] = landing.data]

(* Registers of the pop clock; data is what the RAM delivers.                *)
PopEdge(pr, data, gray, reset) ==
    LET beat == PopBeat(pr)
    IN  /\ pop_count' = IF pop_rst THEN 0 ELSE CountAfter(pop_count, beat)
        /\ ram_rd_addr' = IF pop_rst THEN 0 ELSE AddrAfter(ram_rd_addr, beat)
        /\ push_count_saved' = IF pop_rst THEN 0
                               ELSE IF push_reset_seen THEN push_count_saved ELSE push_count_seen
        /\ pop_gray' = Shift(pop_gray, Bin2Gray(CountAfter(pop_count, beat)))
        /\ pop_reset_reg' = pop_rst
        /\ pop_push_gray' = Shift(pop_push_gray, gray)
        /\ pop_push_reset' = Shift(pop_push_reset, reset)
        /\ out' = IF beat THEN data ELSE NoData

-----------------------------------------------------------------------------
(* The reset controller asserts the reset of either side first, and lets a   *)
(* side go as soon as both domains are sure to see the two resets overlap,   *)
(* all that br_cdc_fifo_reset_overlap_checks asks (MinOverlapCycles = 1).    *)
MayAssert(side) == side \notin ended

PushDomainSees == overlap_push \/ \E i \in SyncStage : push_pop_reset[i]
PopDomainSees == overlap_pop \/ \E i \in SyncStage : pop_push_reset[i]

\* (mutant) A side does not wait until it has seen the reset of the other one.
MutMayRelease(side, held) ==
    /\ IF side = "push" THEN PopDomainSees ELSE PushDomainSees
    /\ held + 1 >= MinReset

MayRelease(side, held) ==
    /\ IF side = "push" THEN (overlap_push \/ pop_reset_seen) /\ PopDomainSees
                        ELSE (overlap_pop \/ push_reset_seen) /\ PushDomainSees
    /\ held + 1 >= MinReset

Reset(side, rst, held) ==
    {r \in BOOLEAN : (~rst /\ r => MayAssert(side)) /\ (rst /\ ~r => MayRelease(side, held))}

Held(rst, held) == IF ~rst THEN 0 ELSE IF held < MinReset THEN held + 1 ELSE held

\* Nothing is left of the last reset.
ResetsOver ==
    /\ ended = Side /\ ~push_reset_reg /\ ~pop_reset_reg
    /\ \A i \in SyncStage : ~push_pop_reset[i] /\ ~pop_push_reset[i]

Released(side, rst) == IF rst THEN {side} ELSE {}

\* clocks: the sides whose clock ticks.
ResetStep(clocks) ==
    /\ push_rst' \in IF "push" \in clocks THEN Reset("push", push_rst, held_push) ELSE {push_rst}
    /\ pop_rst' \in IF "pop" \in clocks THEN Reset("pop", pop_rst, held_pop) ELSE {pop_rst}
    /\ held_push' = IF "push" \in clocks THEN Held(push_rst, held_push) ELSE held_push
    /\ held_pop' = IF "pop" \in clocks THEN Held(pop_rst, held_pop) ELSE held_pop
    /\ ended' = IF ResetsOver THEN {}
                ELSE ended \cup Released("push", push_rst /\ ~push_rst')
                           \cup Released("pop", pop_rst /\ ~pop_rst')
    /\ overlap_push' = (~ResetsOver /\ (overlap_push \/
           ("push" \in clocks /\ reset_active_push /\ pop_reset_seen)))
    /\ overlap_pop' = (~ResetsOver /\ (overlap_pop \/
           ("pop" \in clocks /\ reset_active_pop /\ push_reset_seen)))

-----------------------------------------------------------------------------
PushClk(pv, d) ==
    /\ PushEdge(pv, d, pop_gray[PopCountDelay], reset_active_pop)
    /\ ResetStep({"push"})
    /\ out' = NoData /\ UNCHANGED popVars

PopClk(pr) ==
    /\ PopEdge(pr, ram[ram_rd_addr], push_gray[PushCountDelay], reset_active_push)
    /\ ResetStep({"pop"})
    /\ accepted' = NoData /\ UNCHANGED <<pushVars, ram>>

\* Either edge may see what the other one changes, bit by bit.
BothClk(pv, d, pr) ==
    /\ ResetStep(Side)
    /\ \E gray \in Sampled(pop_gray[PopCountDelay], PopGrayNext(pr)),
          reset \in {reset_active_pop, pop_reset_next} :
          PushEdge(pv, d, gray, reset)
    /\ \E data \in {ram[ram_rd_addr], ram'[ram_rd_addr]},
          gray \in Sampled(push_gray[PushCountDelay], PushGrayNext(pv)),
          reset \in {reset_active_push, push_reset_next} :
          PopEdge(pr, data, gray, reset)

Next ==
    \/ \E pv \in BOOLEAN, d \in Data : PushClk(pv, d)
    \/ \E pr \in BOOLEAN : PopClk(pr)
    \/ \E pv, pr \in BOOLEAN, d \in Data : BothClk(pv, d, pr)

Spec == Init /\ [][Next]_vars

-----------------------------------------------------------------------------
(* Both sides were in the last reset together, and neither has been reset      *)
(* again: the time in which the two sides describe one queue.                 *)
Clean == push_rst \/ pop_rst => ended # {}

\* The counts, taking a reset that is asserted as done.
Pushed == IF push_rst THEN 0 ELSE push_count
Popped == IF pop_rst THEN 0 ELSE pop_count
Occupancy == Difference(Pushed, Popped)
Oldest == IF pop_rst THEN 0 ELSE ram_rd_addr

(* No reset of either side, however it falls into the traffic, makes a side   *)
(* see more entries than the FIFO has: the counts that cross are replaced by  *)
(* saved ones before they change (no_overflow_a, no_items_overflow_A).        *)
CountsInRange ==
    /\ ~push_rst => push_items <= Depth
    /\ ~pop_rst => pop_items <= Depth

(* Each side errs on the safe side: however many count bits are in flight,   *)
(* and whichever side has left reset first, the push side never believes the *)
(* FIFO emptier than it is, nor the pop side fuller.                         *)
FlagsConservative ==
    Clean => /\ ~push_rst => Occupancy <= push_items
             /\ ~pop_rst => pop_items <= Occupancy

(* The reset controller respects reset_overlap_a, in both domains: no reset   *)
(* is seen to end there before both were seen active together.               *)
ResetOverlap ==
    [][ /\ (reset_active_push /\ ~reset_active_push') \/ (pop_reset_seen /\ ~pop_reset_seen')
             => overlap_push'
        /\ (reset_active_pop /\ ~reset_active_pop') \/ (push_reset_seen /\ ~push_reset_seen')
             => overlap_pop' ]_vars

(* A count that crosses changes in one bit at a time, or it would be sampled *)
(* as a value it never had (single_bit_change_a of gray_count_sync); also     *)
(* when the reset of one side clears a count in the middle of the traffic.    *)
SingleBitChange ==
    [][ /\ ~push_rst' =>
             Cardinality(SymDiff(push_gray[PushCountDelay], push_gray[PushCountDelay]')) <= 1
        /\ ~pop_rst' =>
             Cardinality(SymDiff(pop_gray[PopCountDelay], pop_gray[PopCountDelay]')) <= 1 ]_vars

\* The RAM once the writes in its pipeline have landed, the newest first.
Settled(a) ==
    LET pending == {i \in DOMAIN ram_wr : ram_wr[i] # NoWrite /\ ram_wr[i].addr = a}
    IN  IF pending = {} THEN ram[a]
        ELSE ram_wr[CHOOSE i \in pending : \A j \in pending : i <= j].data

(* The queue between the two clocks: what went in on one comes out on the    *)
(* other, once, in order and intact, from the end of every reset to the       *)
(* beginning of the next.                                                    *)
Queue == INSTANCE BoundedFifo
           WITH q   <- [i \in 1 .. IF Clean THEN Occupancy ELSE 0 |->
                          Settled((Oldest + i - 1) % Depth)],
                in  <- IF Clean THEN accepted ELSE NoData,
                out <- IF Clean THEN out ELSE NoData

ImplementsQueue == Queue!Spec

(* Liveness: a full FIFO does not stay full and an entry that waits is popped *)
(* (or a side is reset): the news of a pop and of a push gets through,        *)
(* whichever side has left reset first.                                       *)
NewsGetsThrough ==
    /\ full ~> ~full
    /\ Occupancy > 0 ~> (out # NoData \/ push_rst \/ pop_rst)
=============================================================================
