# Bedrock-RTL in TLA+

Bedrock-RTL is a library of SystemVerilog building blocks: FIFOs, credit-based
flow control, clock-domain crossings, trackers, arbiters, valid-ready plumbing,
AMBA components, CSR access, ECC and the combinational blocks under them. Around
it are Python tools with state of their own: the program that splits the public
test suites over CI jobs and decides whether the branch is green, Verilog Runner,
which puts EDA tools behind plugins, and the generator of the PPA catalog. This
directory holds models of the stateful parts of both, the TLC runs that check
them and the TLAPS proofs about them. Paths are relative to `src/` unless they
name a file of this directory.

1. [The system](#1-the-system)
2. [How the code is modelled](#2-how-the-code-is-modelled)
3. [Modules](#3-modules)
4. [Runs](#4-runs)
5. [Proofs](#5-proofs)
6. [Findings](#6-findings)
7. [What is not modelled](#7-what-is-not-modelled)
8. [Plan](#8-plan)
9. [Running it](#9-running-it)

## 1. The system

Every library `<lib>` has its RTL in `<lib>/rtl` (shared parts in
`rtl/internal`), a formal bench in `<lib>/fpv` and a simulation bench in
`<lib>/sim`. Components interact only through ports: a ready-valid handshake,
valid with credits, or plain wires; time is the clock. The RTL is full of
assertions (`BR_ASSERT_*` in `macros/br_asserts.svh`); they and the FPV monitors
are the promises the properties here start from.

Status: **M** modelled, **P** partly, **-** not modelled
(`PROJECT.json`, `components`, has the files of each).

| component | state | operations | what is hard | correct when |
|---|---|---|---|---|
| **P** single-flow FIFO `br_fifo_ctrl_1r1w`, `br_fifo_flops`, staging buffer | write and read address, slots, items, full, empty; staging cells, reads in flight, output register | push, pop, bypass, RAM write, read issue, read return, reset | two sides that count the same queue apart; a bypass of no latency beside reads of several cycles; a RAM smaller than the FIFO | it is a bounded queue; an offer is kept; nothing overflows; the latency is exact; it does not stall |
| **M** credit loop `br_credit_sender`, `br_credit_receiver`, `br_credit_counter`, `br_arb_multi_rr` | two credit counters, output registers, in_reset registers, round-robin priority | spend, return, withhold, stall, reset of either end | credits and flits in flight when one end is reset; several credits a cycle; fairness between flows | credits are conserved; the buffer never overflows; each flow is served |
| **-** sender with virtual channels `br_credit_sender_vc` | a counter per channel, arbiter | the same, per channel | no gating by the far reset | the same, per channel |
| **-** FIFO with push credits `br_fifo_ctrl_1r1w_push_credit` | credit receiver and FIFO | credit loop and FIFO | no ready on the push side | no overflow, a queue |
| **P** FIFO between clocks `br_cdc_fifo_ctrl_1r1w` | count, address and saved far count per side; delay chains, synchronizers | edges of two clocks, resets of two sides | bits sampled one by one; stale counts; resets that overlap in any way | a queue between resets; both sides err on the safe side; a reset invents no entry; news gets through |
| **-** CDC FIFOs with push credits | both of the above | | | |
| **-** CDC register, pulse, stable data, reset synchronizer | two-phase flags, data register | load, acknowledge, toggle | a reset with the flag at one | once per load; data stable while it is sampled |
| **P** free list and linked lists `br_tracker_freelist`, `br_tracker_linked_list_ctrl` | free vector, staged entry, delayed count; heads, tails, counts, pointer RAM | allocate, deallocate (several per cycle), append, advance | allocation and deallocations in one cycle; a list of one entry that is read while another is linked | no entry lost or doubled; each list is a queue |
| **-** sequence numbers and reorder buffers `br_tracker_sequence`, `br_tracker_reorder` | allocation and release counters, completed bits | allocate, complete in any order, release in order | completion in the cycle of the release | tags leave in the order they were given |
| **P** shared FIFOs, dynamic `br_fifo_shared_dynamic_*` | free list, linked lists, staging buffers, read crossbar | push per port, pop per FIFO | FIFOs that compete for read ports and entries; an entry freed while it is read | each FIFO is a queue; entries are conserved |
| **-** shared FIFOs, static partitions `br_fifo_shared_pstatic_*` | base and bound, pointers per FIFO | the same, partition sizes at run time | wrap at run-time bounds | each FIFO is a bounded queue |
| **P** interfaces of several symbols a cycle `multi_xfer` | rotated buffer, distributor priority | accept and send up to N symbols | partial acceptance | order kept, none lost |
| **-** counters | value | increment, decrement, reinitialise | wrap and saturation at a maximum that is not a power of two | the stated arithmetic |
| **P** single-grant arbiters | priority state | grant, update | hold, weights | one grant; everyone served |
| **-** valid-ready components `flow` | one or two registers, width-converter counters | accept, forward | partial last flit, backpressure in the middle | a queue; order of sub-flits |
| **-** AMBA isolation `br_amba_axi_isolate_*` | state machines, request and write-data trackers | isolate and restore in traffic | bursts cut in the middle | the other side never sees a protocol error |
| **-** AXI demux, splitter, write arbiter | request tracker per ID | route, return in order | one ID over several subordinates | answers per ID in order, no deadlock |
| **-** AMBA converters and slices | beat counters | convert | | |
| **-** CSR widget `br_csr_axil_widget` and CSR bus | request register, watchdog | read, write, answer, time out | an answer that races the watchdog | one answer per request |
| **P** RAM `br_ram_flops` | cells, stages of reads and writes | read, write | reads in flight, writes that land late | a read returns what was written before it |
| **-** delay lines | stages | shift | | |
| **-** combinational blocks, macros | none | | | |
| **M** public test suites in CI `python/ci/bazel_oss_sharding.py`, the jobs of `.github/workflows/ci.yml` that call it | per shard a manifest and a result record; outcome of the jobs; the gate and the badges | query, partition, mark a failed discovery, test, finalize, check, aggregate, run the failed jobs again | shards that are told of different tests; helpers that die in a write; files that get lost; records of two attempts together | the gate opens only for what was tested, once each; no attempt without a fault fails |
| **P** Verilog Runner `python/verilog_runner` | imported modules, plugin classes, files in the working directory | discover, import, choose, parse, prepare, run, report | several copies of a plugin; names that Python has imported before; files of earlier runs | the first copy serves; success means this run |
| **M** PPA generator `python/ppa/generate_ppa.py` | rows, kept logs, `PPA.md`, files of the runner in the workspace | query, reuse a log, run a target, keep its log, write or compare the catalog | a kill or a failure anywhere, then `--resume`; edits between runs | a catalog is complete; a full run is fresh; resuming ends |
| **-** coverage inventory, generators of ECC and of FIFO wrappers, reports, Bazel rules, fake runner | none that is read again | | | |

**Interactions that matter.** A FIFO controller drives a RAM that answers after
a fixed latency and a consumer that may stall at any time. The credit sender
and receiver exchange flits one way and credits the other, and tell each other
of their resets on two more wires. The sides of a CDC FIFO exchange a
Gray-coded count and a reset level each way and share a RAM. The shared FIFOs
put the free list, the linked lists, a read crossbar and one staging buffer per
FIFO together. The models follow these seams: a module per component, composed
by a module that owns the clock edge.

In CI a job leaves files, a later job fetches the files of all the others,
and the gate needs both the outcome of the jobs and the aggregation of the files; nothing
but the files and the outcomes passes between them, and either may be of an
earlier attempt. `CiSharding` is that composition. Bazel starts the PPA
generator, which has Bazel start Verilog Runner, which starts Yosys; each looks
at the return code and at files of the one below. What a tool's plugin makes of
one run of it is in `VerilogRunnerTools`, which the models of the runner and of
the generator share.

The behaviours that are hard to test are listed, each at its line, as
`hazards` in `PROJECT.json`, with the properties that cover them. Those of
components that are not modelled are in the table above and in the
[plan](#8-plan).

## 2. How the code is modelled

The RTL:

* **One step is one clock edge.** A module on one clock has a single action per
  kind of cycle: it takes the inputs of the cycle, computes every wire with
  operators and loads every register at once, as the `always_ff` blocks of the
  register macros do (`macros/br_registers.svh`). No part of a handler is an
  action of its own. `BrCdcFifo`, on two clocks, has an action for the edge of
  either and one for edges so close that each flop at the boundary may take the
  old or the new value.
* **Wires are operators** named after the signals, with the inputs of the cycle
  as arguments; registers are variables named after the flops.
* **Resets** load the reset values in place of the cycle. Cells of RAMs and
  chains without reset (`BR_REGN`, `br_delay_nr`) keep theirs.
* **Payloads** are members of a small set; `NoData` stands for a cell that holds
  nothing meaningful. Reading one where an entry is expected breaks the
  refinement of the queue, which is how a read too early shows up.
* **Counters are exact** in the FIFO and credit models: the RTL's counters never
  wrap within the bounds the type invariants state, which is checked, and for
  the unbuffered FIFO and the credit loop proved. The CDC counts, which are
  meant to wrap, are computed modulo `2 ** CountWidth`.
* **Parameters are constants**, with the legality assertions of the RTL
  (`BR_ASSERT_STATIC`) as named assumptions.
* **Inputs obey the integration checks** of the RTL only where the RTL needs
  it: `waiting` keeps `push_valid` stable in the credit loop
  (`EnableAssertPushValidStability`), `push_rst => ~pv` in the CDC FIFO. The
  FIFOs are checked with a producer that may withdraw a push at any time.

The Python tools:

* **One step is what happens between two effects that others can see**: the
  exit of a process, a file that is written. What a helper computes in memory
  between two of them is one action, with every early return it can take.
* **Processes are killed** between any two steps and in the middle of a write
  (`Die`, `Killed`): the file is as before, cut off (`Torn`), complete, or there
  while what should follow it is not.
* **Tools are what they return and leave.** Bazel, slang, Verilator and Yosys
  succeed, fail, or say something that is not so, in every combination the
  caller can tell apart. Each departure from what should happen is charged
  to `faults`, bounded by `MaxFaults`; re-runs by `MaxReruns`. A fault-free
  step is never charged.
* **Text is abstracted to what is decided on it.** A label is a value, a sorted
  list of labels a set, a SHA-256 digest the set it is of; the measurements of
  a target are the revision of the sources they were taken from. The wording of
  scripts, tables and messages is left out.

Operators whose name begins with `Mut` or `mut_`, marked `(mutant)`, are
plausible mistakes in the definition below them. No specification uses them;
replacing that definition by the mutant makes TLC find the property they are
listed with violated (`PROJECT.json`, `mutants`).

## 3. Modules

```
BoundedFifo                     abstract queue
   ^ implemented by
BrFifoCore ---- BrFifoDirect ---- BrFifoProofs
         \----- BrFifoStaged ----/
                  INSTANCE BrFifoStagingBuffer
                                  MCFifoStaged, with theorems of its own, on top
BrArbMultiRr ----.
BrCreditCounter - BrCreditLoop -- BrCreditLoopProofs
BrEncGray ----- BrCdcFifo ------- BrCdcFifoProofs   (implements BoundedFifo, too)
BrFifoSharedPool ----- BrFifoSharedDynamic ----- BrFifoSharedProofs
  \                     INSTANCE BrFifoStagingBuffer, BrArbLru
   INSTANCE BrTrackerFreelist, BrArbMultiRr, BrTrackerLinkedList
CiSharding ---- CiShardingProofs
VerilogRunnerTools -- VerilogRunner -- VerilogRunnerProofs
                 \--- PpaCatalog ----- PpaCatalogProofs
MC*                             what TLC runs
```

| module | models | state and actions |
|---|---|---|
| `BoundedFifo` | nothing in the code: what every FIFO promises | `q`, `in`, `out`; append, remove, both in one cycle, pass through an empty queue, drop on reset |
| `BrFifoCore` | `br_fifo_push_ctrl(_core)`, `br_fifo_pop_ctrl(_core)` counters and flags, a 1R1W RAM with a write latency of one | `ram_wr_addr`, `slots`, `full`; `ram_rd_addr`, `items`, `empty`; `ram`; `push` and `pop` record the two interfaces. Register updates only |
| `BrFifoDirect` | `br_fifo_ctrl_1r1w` with `RamReadLatency = 0`, `RegisterPopOutputs = 0` (branch `gen_no_buffer`) | `DirectCycle(push_valid, push_data, pop_ready)`, `CoreReset` |
| `BrFifoStagingBuffer` | `br_fifo_staging_buffer`: pass-through, single-entry and circular variant, output register, bypass | operators on the record `sb` of its registers; `StagingNext` is its next value. No variables and no actions, so that several FIFOs can own one each |
| `BrFifoStaged` | `br_fifo_ctrl_1r1w` with a staging buffer, `br_fifo_flops` | `Cycle(push_valid, push_data, pop_ready)`, `Reset`; the registers of `BrFifoCore` and `sb`; `pushed` remembers pushes for the latency property |
| `BrArbMultiRr` | `br_arb_multi_rr`, `br_enc_priority_dynamic` | `lowest_prio`; `Grant`, `LowestPrioNext` |
| `BrCreditCounter` | `br_credit_counter` | `Available`, `ValueNext` (width `CounterSize`) |
| `BrCreditLoop` | `br_credit_sender`, `br_credit_receiver`, the overflow condition of `br_fifo_push_ctrl_credit` | both counters, the registers between the ends, the number of entries behind the receiver; `Operate`, `ResetSender`, `ResetReceiver`, `ResetBoth` |
| `BrEncGray` | `br_enc_bin2gray`, `br_enc_gray2bin`, the sampling of `br_cdc_bit_toggle` | a word is the set of its bits that are one, `Bin2Gray` and `Gray2Bin` are sets of the bits that a parity puts there; `Sampled` is every mixture of two words |
| `BrCdcFifo` | `br_cdc_fifo_ctrl_1r1w` with `RamReadLatency = 0`, `RegisterPopOutputs = 0`, its flag managers, synchronizers, delay chains and a RAM with a write pipeline | registers of each clock; `PushClk`, `PopClk`, `BothClk`; `ResetStep` is the reset controller outside the RTL that `br_cdc_fifo_reset_overlap_checks` makes demands on |
| `BrTrackerFreelist` | `br_tracker_freelist` with its output register, `br_multi_xfer_reg_fwd` | the record `freelist`: the set of free entries and the sequence staged for allocation; `FreelistNext` |
| `BrTrackerLinkedList` | `br_tracker_linked_list_ctrl`, several lists and write ports, any read latency of the pointer RAM | operators on the record `ctl` of the registers of one controller (counts, heads, tails, whose turn it is, reads in flight) and on the RAM, so that several controllers can share one; `ListsNext`, `PtrRamWrites` |
| `BrArbLru` | `br_arb_lru_internal` and the matrix under it | operators on `order`, the total order that the matrix describes; `CanGrant`, `OrderNext` |
| `BrFifoSharedPool` | the pool of `br_fifo_shared_dynamic_ctrl`: push controller, pointer manager, pointer RAM and deallocation path | `freelist`, `lowest_prio`, `ll` (a controller per FIFO), `dealloc`, `ptr_ram`; `PushSide` is the wires of the push side, `PoolCycle` the clock edge, in which any of the valid heads may be read. `queued`, the entries given to each FIFO and not yet read, observes |
| `BrFifoSharedDynamic` | the rest of it: pop controller, read crossbar, staging buffers and data RAM decide which heads are read | `sb`, `order`, `data_ram`; `PopSide` is the wires of the pop side, `Cycle` is a `PoolCycle` with the heads that win a read port; `expected` is the scoreboard of the FPV monitor |
| `CiSharding` | `bazel_oss_sharding.py` and the steps of `ci.yml` around it | per job `phase` and `turn`, per shard `listing`, `manifest`, `record`, `log`; `gate`, `outputs`. `Query`, `Partition`, `MarkDiscoveryFailure`, `RunBazel`, `Finalize`, `Check`, `Die`, `Aggregate`, `Rerun`; `passed` and `tainted` observe |
| `VerilogRunnerTools` | the verdicts of the slang, Verilator and Yosys plugins and the report of Yosys | operators only |
| `VerilogRunner` | `verilog_runner.py`, `plugins.py`, what `cli.py` and `util.py` refuse or end on | `layout` of the plugin directories, `sys_modules`, `modules`, `args`, `files`, `outcome`, `log`. `Start`, `Collect`, `ImportNext`, `Organize`, `Parse`, `Prepare`, `RunTool`, `Report`, `Killed` |
| `PpaCatalog` | `generate_ppa.py` | `rev`, `args`, `todo`, `metrics`, `proc`; on disk `logs`, `stats`, `ppa`. `Edit`, `Start`, `UseCached`, `RunTarget`, `SaveLog`, `Finish`, `Killed` |
| `MCCdcFifoFair`, `MCFifoSharedFair` | the environment of the liveness properties | a variable that changes with the clocks and the consumers |
| `MCFifoStaged` | one run for two parameter sets | `single` chooses at the start which staging buffer there is |

**The abstract queue.** `BoundedFifo` says what a FIFO promises: what comes out
is what went in, once, in order, with at most `Depth` inside. Each controller
implements it under a mapping that collects the entries from where they are:
for `BrFifoDirect` the RAM between the addresses, for `BrFifoStaged` the output
register, the buffer and the reads in flight (`BrFifoStagingBuffer!Staged`) and
then the RAM, for `BrCdcFifo` the RAM between the two counts, with the writes
still in the RAM's pipeline (`Settled`). During a reset of one side of a CDC
FIFO the two counts do not describe a queue; the mapped queue is empty from the
beginning of a reset to its end (`Clean`).

**The credit loop** counts entries instead of naming them, because the ends do
nothing else: their payload is a pass-through, and the order is that of the
FIFO behind them. The consumer and the two resets are free; the consumer may
take a flit in the cycle in which it arrives, over the bypass of the FIFO.

**The shared FIFOs** have no bound of their own: what one of them may hold
depends on the others. Their promise is stated with a scoreboard, `expected`,
that is told what each interface accepts and never read by the model. The
contents of a FIFO are found the way the hardware will find them, by following
the pointer RAM from the heads and through the pointers on their way
(`Addresses`), so that a pointer written to the wrong word or read too early
shows as a wrong entry. A word that was read is dead until it is written again
and holds nothing. The pool is a module of its own because what it promises does
not depend on who wins the read ports: `BrFifoSharedDynamic` conjoins its own
registers to `PoolInit`, `PoolCycle` and `PoolReset`, with heads that are valid
and pushes out of `PushInputs`, so that its behaviours are behaviours of
`PoolSpec`, in which the heads that are read are any of the valid ones
(`ImplementsPool`).

## 4. Runs

| run | asks | bounds and why they are enough |
|---|---|---|
| `fifo_direct_bypass` | do counters, addresses and RAM describe one queue, is an offer kept, is it a bounded queue | depth 3 in a RAM of 4: the addresses wrap out of step with the depth, and every distance between the addresses occurs at every address; two payloads tell an entry from its neighbour |
| `fifo_staged` | the same behind a staging buffer and the bypass; is the latency exact; does it deliver | depth 5 and a RAM of 3, smaller by the staging buffer as in `br_fifo_flops`. Either the circular buffer of 3 cells behind a RAM of latency 2, which wraps with two reads in flight, or the buffer of one cell with registered outputs behind a RAM of latency 1, where both orders of a bypass and a read in the one cell occur; `single` chooses once |
| `credit_resets` | are credits conserved and the buffer safe, whatever is reset when; is each flow served | 3 flows on 3 credits split over both ends at reset, 2 credits and 2 pops a cycle, a flit possibly popped in the cycle it arrives, withholding 0 or 1, resets of 2 cycles and more in any overlap; once the resets have ceased, flows compete for single credits |
| `credit_shortreset` | violation: resets of one cycle | see [Findings](#6-findings) |
| `cdc_resets` | is it a queue between resets, do resets invent entries, are the flags safe, does a count that crosses change bit by bit, does the news of a push and of a pop get through | depth 2, two synchronizer stages, a RAM whose writes take 2 cycles, resets of 4 cycles and more; the counts wrap modulo 4 against addresses modulo 2 |
| `cdc_shortreset` | violation: resets that overlap for long enough and end too early | see [Findings](#6-findings) |
| `fifo_shared_writes` | is every FIFO a queue and every entry in one place, with several allocations, links and returns in a cycle | 2 FIFOs, 5 entries (the least that 2 write ports allow), 2 read ports, one list per FIFO so that two addresses are chained in one cycle; no latency, deallocation registered |
| `fifo_shared_staged` | the same with reads in flight; does everyone get out | 2 FIFOs, 4 entries, one read port, two lists per FIFO, both RAMs with a cycle of latency, one staging cell. An entry comes back to the head of a queue three cycles after it was read, so one FIFO can keep the port busy with three entries while the fourth waits: with a fixed priority in place of the least recently used the waiting entry starves, which is the mutant of `EveryEntryLeaves` |
| `ci_sharding` | does the gate open only for what was tested; do badges tell the truth; does an attempt without a fault ever fail | three suites, three jobs: one runs the single shards of two suites one after the other (one of the two lists its labels itself), two share a suite of three tests, 2 and 1. Two faults, the least with which one may cover up another, and one re-run, so that records of two attempts meet |
| `verilog_runner` | which copy of a plugin serves; what does an exit code of 0 mean | the bundled plugins, before them nine kinds of directory (absent; another copy, version, name or class; broken; unversioned; named like a module of the runner; without a tool), after them three; seventeen command lines; any number of runs in one directory |
| `ppa_catalog` | what does a catalog hold, what does a full run vouch for, does resuming end | three labels, two of one name; three revisions, of which the second adds a target and the third moves parameters so that a log from the first collides with a target of now; two failures or kills in any number of runs |
| `ppa_resume` | violation: rows of failed syntheses | see [Findings](#6-findings) |

In the runs of the shared FIFOs payloads are plain but for one entry in flight
that is marked (`MaxMarked`): any swap, loss or duplication of entries can be
shown with one entry that differs from the rest.

The circular staging buffer without the bypass (`BrFifoStagingBuffer` with
`EnableBypass = FALSE` and more than one cell) is modelled and in no run; the
theorems of section 5 cover it.

No run has a state constraint; all state spaces are finite as they stand. A
clock never stops and a generator or a runner can always be started again, so
deadlock is checked: a state without a successor would be a model that refuses
some input. The exception is `ci_sharding`: a pipeline that is green, or that
nobody runs again, ends.

**What the properties mean** is said in the comment before each. In short:

* FIFOs. `FlagsCoherent`: push side and pop side count the same queue.
  `PointersEnclose`, `RamSuffices`: the addresses enclose exactly the entries
  that are in the RAM, and never more than fit. `EntriesStaged`: the counter
  that gates reads and bypasses is exact. `PopStable`, `OfferStable`: an offer
  that was refused is repeated unchanged although its source changes.
  `ShownInTime`: the latency is exact. `Delivers`: no entry gets stuck.
  `ImplementsQueue`, `EitherIsQueue`.
* Credit loop. `Conservation`: outside resets the credits at all five places
  add up to the depth of the buffer. `NoPushOverflow`: the buffer never gets a
  flit it has no room for, also while one end is in reset and the other does
  not know. `FlowServed`.
* CDC. `CountsInRange`: whatever the resets do, no side sees more entries than
  the FIFO has. `FlagsConservative`: the push side never believes the FIFO
  emptier than it is, the pop side never fuller. `ResetOverlap`: the reset
  controller of the model keeps the rule of the RTL's overlap checks.
  `SingleBitChange`: what is sampled bit by bit changes by one bit.
  `NewsGetsThrough`, `ImplementsQueue`.
* Shared FIFOs. `EntriesAccounted`: each entry of the pool is free, staged, on
  its way back or in one queue, once. `ListsInTurn`: the lists of a FIFO are
  filled and emptied in the same turns and end at their tails.
  `HoldsWhatWasPushed`, `DeliversOldest`: each FIFO is a queue, whoever wins
  the read ports. `EveryEntryLeaves`, `PoolRecovers`.
* CI. `JobMeansPassed`: a job that reports success ran every test of its shards
  in this attempt, and all passed, whoever died in between. `GreenMeansTested`:
  if the gate opens, the shards of each suite saw one list of tests and every
  test on it passed on exactly one. `BadgeIsHonest`: a suite reported as passing
  counts the tests that passed. `NoFalseAlarm`: what an earlier attempt left
  behind fails no later one.
* Verilog Runner. `FirstCopyServes`: the tools on offer are those of the first
  loadable copies on the path, whatever order directories are listed in.
  `SuccessIsOfThisRun`: an exit code of 0 rests on files, messages and
  statistics of this run and of no earlier one.
* PPA. `CatalogIsComplete`: a catalog on disk covers the documented tops, shows
  no configuration twice and has one row for each target of some revision.
  `FullRunIsFresh`: after a full run without `--resume` that ends with 0 every row is that
  of a target as it is now, measured on the sources as they are.
  `ResumeFinishes`: whoever keeps resuming gets there.

**Fairness.** Inputs are nondeterministic, so fairness is about the environment
as much as about the clock.

* `MCFifoStaged!EitherSpec`: weak fairness of `DrainCycle`, a cycle in which the
  consumer is ready: the clock runs and the consumer does not stall for ever
  (`pop_ready_liveness_a` of the FIFO FPV monitors). The producer may push or
  not.
* `BrCreditLoop!FairSpec`: however many resets there were, in the end there are
  none (`<>[][Operate]_vars`); the clock runs; and cycles in which the receiver
  is not stalled, no credit is withheld and a non-empty buffer is popped do not
  cease (`OpenCycle`). Which flows ask is free, the flows may conspire against
  one.
* `MCCdcFifoFair!FairSpec`: both clocks tick for ever, in any ratio, and the
  consumer is ready now and then (`awaited` changes with either in turn);
  resets, of any number and in any overlap, in the end cease.
* `MCFifoSharedFair!FairSpec`: cycles in which all consumers are ready occur
  again and again (`drain_phase` flips in each). Producers, and the consumers in
  between, are free, and so is the reset.
* `PpaCatalog!FairSpec`: weak fairness of `Next`: someone keeps starting the
  generator, and it does not hang. Failures and kills are bounded, by
  `MaxFaults`. `ResumeFinishes` is claimed of those runs only whose options are,
  in the end, always `--resume` with `--logs-dir`.

No liveness is claimed of CI and of Verilog Runner: nothing in their code starts
a job or a run again.

## 5. Proofs

TLAPS checks the following for every value of the constants that meets the
assumptions of the module.

| module | theorem | says |
|---|---|---|
| `BrFifoProofs` | `TypeCorrect` | `DirectAssumption => (DirectSpec => []TypeOK)` |
| | `FlagsAlwaysCoherent` | `DirectAssumption => (DirectSpec => []FlagsCoherent)` |
| | `PointersAlwaysEnclose` | `DirectAssumption => (DirectSpec => []PointersEnclose)` |
| | `PopStability` | `DirectAssumption => (DirectSpec => PopStable)` |
| | `DirectRefinement` | `DirectAssumption => (DirectSpec => ImplementsQueue)` |
| | `Invariance` | `Spec => []IInv`, what the theorems below rest on |
| | `StagedAlwaysAccounted` | `Spec => []StagedAccounted` |
| | `RamIsLargeEnough` | `Spec => []RamNeverOverflows` |
| | `OffersKept` | `Spec => [][KeepsOffer]_vars` |
| | `LatencyIsExact` | `Spec => [][ShowsInTime]_vars` |
| | `Refinement` | `Spec => Queue!Spec` |
| `MCFifoStaged` | `EntriesStagedHolds` | `EitherSpec => []EntriesStaged` |
| | `RamSufficesHolds` | `EitherSpec => []RamSuffices` |
| | `OfferStableHolds` | `EitherSpec => OfferStable` |
| | `ShownInTimeHolds` | `EitherSpec => ShownInTime` |
| | `EitherIsQueueHolds` | `EitherSpec => EitherIsQueue` |
| `BrFifoSharedProofs` | `PoolInvariance` | `PoolSpec => []IInv`, what the theorems below rest on |
| | `PoolIsAccounted` | `PoolSpec => []EntriesAccounted` |
| | `PoolListsInTurn` | `PoolSpec => []ListsInTurn` |
| | `Invariance` | `Spec => []DataInv` |
| | `ImplementsPool` | `Spec => PoolSpec` |
| | `AlwaysAccounted` | `Spec => []EntriesAccounted` |
| | `AlwaysInTurn` | `Spec => []ListsInTurn` |
| | `NothingIsLost` | `Spec => []HoldsWhatWasPushed` |
| | `OldestFirst` | `Spec => []DeliversOldest` |
| `BrCreditLoopProofs` | `GrantCountIsCorrect` | the arbiter grants as many requests as it may, or all |
| | `TypeCorrect` | no counter wraps |
| | `CreditsAreConserved` | `Spec => []Conservation` |
| | `BufferNeverOverflows` | `Spec => []NoPushOverflow` |
| `BrCdcFifoProofs` | `CountsStayInRange` | `LongResets => (Spec => []CountsInRange)` |
| | `FlagsErrSafely` | `LongResets => (Spec => []FlagsConservative)` |
| | `ResetsOverlap` | `Spec => ResetOverlap` |
| | `OneBitAtATime` | `MinReset >= PushCountDelay + 2 => (Spec => SingleBitChange)` |
| | `CrossingRefines` | `LongResets => (Spec => ImplementsQueue)` |
| `CiShardingProofs` | `TypeCorrect` | `Spec => []TypeOK` |
| | `SuccessIsEarned` | `Spec => []JobMeansPassed` |
| | `GateIsEarned` | `Spec => []GreenMeansTested` |
| | `BadgesAreHonest` | `Spec => []BadgeIsHonest` |
| | `NoAlarmIsFalse` | `MatrixFits => (Spec => []NoFalseAlarm)` |
| `VerilogRunnerProofs` | `TypeCorrect` | `Spec => []TypeOK` |
| | `FirstCopiesServe` | `Spec => []FirstCopyServes` |
| | `SuccessIsEarned` | `Spec => []SuccessIsOfThisRun` |
| `PpaCatalogProofs` | `TypeCorrect` | `Spec => []TypeOK` |
| | `CatalogsAreComplete` | `Spec => []CatalogIsComplete` |
| | `FullRunsAreFresh` | `Spec => FullRunIsFresh` |

**The unbuffered FIFO.** Assumptions: `Depth >= 2`, `RamDepth >= Depth`
(`legal_ram_depth_a`; `DirectAssumption`, a hypothesis of the theorems because
the FIFOs of the same module that have a staging buffer need less). The inductive invariant is `TypeOK /\ FlagsCoherent /\
PointersEnclose /\ ShownIsOldest`. `FlagsCoherent` needs the type invariant,
because a counter could leave its range only if the flags of the other side
lied; `PointersEnclose` needs it to know that a write never lands on an entry
that is still to be read; `ShownIsOldest` says that an entry shown and not taken is
the oldest in the RAM at the next edge, which is what makes `PopStable` true
across the bypass. The refinement has a case for each combination of push, pop
and bypass; the lemmas about `Slot` and `AddrAfter` carry the modular
arithmetic so that no step needs more than one of them.

**The FIFO behind a staging buffer.** Assumptions: `FifoCoreAssumption` and
`StagedAssumption` (`legal_ram_depth_a`, `legal_total_depth_a`): any depth, any
read latency, registered outputs or not, bypass or not, and a RAM that with the
bypass is smaller than the FIFO by the depth of the buffer. The proofs cover all
three variants of `br_fifo_staging_buffer`.

*The buffer* (`BufferInv`). That `staged` counts the entries (`StagedAccounted`)
is not inductive: whether a returning read finds its cell empty, and whether the
head may be shown, depends on where the reads in flight are going. With the
bypass a cell is allocated when its read is issued, so the ring has cells that
still wait, in the middle too, where an entry of the bypass went behind them.
`CellsFill` says that every cell between the pointers holds an entry or has
exactly one read on its way, that no other cell holds anything, that reads
return in the order of their cells, and that the n-th newest cell was allocated
n cycles ago or earlier. The last part is why `space_available` needs no look at
the ring: a ring as full as the buffer has a head that is not waiting
(`SpaceMeansPop`, `PopMeansSpace`). Without the bypass a cell is allocated when
its read returns and all cells are full (`CellsAreFull`).

*The RAM* (`RamInv`). The addresses enclose the entries that are not staged, and
with the bypass there are any only if the buffer is full. So an entry goes into
the RAM only when the buffer is full, and the buffer is full again before the
next bypass; this is why a RAM of `Depth - BufferDepth` entries is enough
(`RamIsLargeEnough`), and why a bypass overtakes nothing.

*The queue.* Each layer is shown to be a queue for one cycle by one equation,
`QueueStep(out, q, qn, in)`: `out \o qn = q \o in`. The cells or the single
entry with the reads in flight (`HeldMoves`), the output register in front of
them (`RegMoves`), and the RAM behind them (`RamMoves`) each satisfy it, and two
queues in series are a queue (`InSeries`), which gives the FIFO
(`CycleIsQueueStep`) and its refinement of `BoundedFifo` (`CycleRefines`). The
reads in flight are a sequence defined by recursion on the stages;
`ConcatenationExists` gives the function, `StagesShift` what a cycle does to it.

*The offer* (`OfferKept`). An offer that was refused has come to rest: it is in
the output register or in the head cell of the ring, and not on its way through,
so that what returns or bypasses in the next cycle cannot take its place
(`OffersKept`).

*The latency* (`InTime`). A push into the RAM is read in the next cycle unless
the staging buffer is full and the consumer takes nothing (`IssueOrFull`). In
the first case the read arrives in time. In the second the buffer was full, with
no read issued in that cycle: the entries in it have only older reads to wait
for, which all return before the latency is over, and there is one more of them
than the consumer can take until then. `Settled(j)` counts them, j cycles after
the push: `HasOld(n, j)` says that the n entries at the head of the ring wait
for nothing but reads issued j cycles ago or earlier. It is preserved because a
cycle takes at most one entry from the ring and the returning read is the oldest
(`OldMoves`, `SettledNext`); when j reaches the latency no such read is left,
so the head is there (`OldHeadShows`, `ShowsNow`).

`MCFifoStaged` takes these theorems for either buffer of the run
`fifo_staged`, the second one through an instance whose assumptions
`SingleAssumption` implies, and puts them together over the choice. So the
properties of that run are theorems for all depths, latencies and data.

**The pool of the shared FIFOs.** Assumptions: `PoolAssumption`, the static assertions of
the RTL: two FIFOs or more, any number of write ports and of lists per FIFO,
more than two entries per write port, any latency of the pointer RAM, entries
given back at once or a cycle later. Neither property is inductive, nor are both
together: a head that is read must be an entry of its queue, a tail that is
written through must not lie in another queue, and a pointer that is read must
have been written. `IInv` adds the types of the registers (`Registers`,
`PoolTypeOK`), what is in the output register of the free list (`FreelistOK`),
and `Fetches`: which pointers are on their way. A list that has entries and no
valid head has exactly one read in flight, a list with a valid head has none,
and no stage of the delay line carries a read for another.

*The lists.* `Positions` numbers the places that belong to a list in the queue:
every one of the `NumLinkedListsPerFifo`-th from its turn on, each place to one
list (`EveryPosition`). The addresses that several ports append in a cycle take
the next places of each list, however many there are of them
(`ArrivalsTakePlaces`), and what is written to the pointer RAM is exactly the
links that are then missing (`WritesAreLinks`). Taking the head moves all places
down by one (`PlacesMove`). `ListEdge` puts the two together, case by case of
what happens to a list in a cycle: a list that was empty, whose only entry is
read, whose next pointer returns in the cycle in which it is appended to, and
the combinations. `ListStep` collects them for one controller, which assumes of
the rest of the system only that the words of its own queue are left alone or
written by it.

*The entries.* The distributor gives each port that is granted an entry of its
own: the distances from the priority pointer rank the ports that ask
(`Ranks`, `Slots`), those that are granted come first (`Grants`), so the entries
given away are the first ones of the output register. Each goes to one FIFO, in
the order of the ports (`Ascending`, `Appends`). The free list takes back what
is returned, offers other entries than it has on offer already, and loses none
(`Offered`, `FreelistStep`). With the queues apart (`Apart`) and the head that is
read the oldest entry of its own queue (`ReadHeads`), each entry stays in one
place (`EntriesStep`), no two controllers write the same word, and no word that
is freed is written (`PtrRamStep`), which is what `ListStep` asked for.

**The shared FIFOs.** Assumptions: `PoolAssumption` and `SharedAssumption`, the
static assertions of the pop side: any number of read ports the RTL allows,
FIFOs with and without staging buffers, of any depth, registered outputs or not,
any latency of the data RAM. `MaxMarked`, the bound of the runs on what is
pushed, is arbitrary, so it restricts nothing. The pool needs to know nothing of
all this but that the heads that are read are valid (`HeadsAreValid`), which
makes a behaviour of the shared FIFOs one of the pool (`ImplementsPool`) and
carries `AlwaysAccounted` and `AlwaysInTurn` over.

`HoldsWhatWasPushed` is not inductive: it says nothing of which cell a read in
flight will find empty, of who is granted, or of the words that are dead. The
inductive invariant `DataInv` adds to the pool's `IInv`:

*Who is granted* (`IsOrder`). Every FIFO has one place in the order of each
arbiter. Then of the FIFOs that ask for a port at most one is granted
(`OneGrant`), so that the port carries its address and not a mixture, and what
comes back is the word of the head that left the lists (`ReadIsHead`). Moving
the granted FIFO to the last place keeps the order one (`OrderStep`).

*The staging buffer* (`BufferInv`). There is no bypass here, so it is simpler
than above: the cells in use are full, an empty output register means an empty
buffer behind it, and `staged` counts what is held and on its way. A read is
issued only if its entry will have a place (`ThereIsRoom`). Reads in flight
(`ReadsMove`), cells (`StoredMoves`) and output register (`RegMoves`) are queues
by the equation used above, in series one queue (`StagedMoves`). The lemmas are
stated anew because those of `BrFifoProofs` are about the one buffer of
`BrFifoStaged`, with the inputs that its controller gives it.

*The words.* The entries that the pointer RAM links are the entries of `queued`
(`AddressesAre`: each list's `Chain` reads off its places, the lists in turn
read off the queue). Every queued entry has its word. A cycle writes the words
of the entries it appends, which no queue holds, frees the words of the heads it
reads, which the queues are rid of, and leaves the others
(`DataRamStep`, from `EntriesAccounted` before and after). So the contents of a
FIFO lose what is delivered at one end and gain what is pushed at the other:
`LeaveInOrder` is the pop side of that, whichever consumers are ready, and
`DeliversOldest` at once; `DataCycle` puts both sides together.

**The credit loop.** Assumptions: `CreditLoopAssumption` (the static checks of
the RTL, and at least one register in the loop) and `ResetsAreLong`: with a
register in both directions a reset takes at least two cycles. `Conservation`
alone is not inductive: during a reset of one end nothing adds up. The
inductive invariant `IInv` adds what the ends know of each other's reset
(`ResetsKnown`), that an end in reset is in its initial state and, as soon as
it can have heard, the other one too (`ResetsClear`), and that until then no
end has more credits than there are (`NoEndHasTooMany`). From these
`Conservation` follows in the cycle in which the last reset ends. A flit that
leaves the buffer in the cycle in which it arrives gives its credit back at once;
that the receiver's counter has room for it (`PopsAreCovered`) rests on what the
sender may have sent, and closes no circle, as one direction has a register.
The arbiter enters through `GrantCountIsCorrect`: flits sent are credits spent.
That theorem needs no induction: the distance of a flow
from the priority pointer numbers the flows from 0 to `NumFlows - 1` without
repetition (`RanksDiffer`, `RankIsOnto`), so the flows granted are as many as
the ranks below a bound.

**The FIFO between two clocks.** Assumptions: `CdcAssumption` and
`CountWidthAssumption` (the static checks of the RTL, any depth, any number of
synchronizer stages and of cycles that a write takes) and, for the counts and
the flags, `LongResets`: a reset lasts `2 + PushCountDelay -
RegisterResetActive` cycles of its clock. Without it they are false
(`cdc_shortreset`); that the resets overlap needs no such length, and that the
count changes bit by bit at the end of a reset, too, needs one cycle more.

*The code.* What a receiver samples of a Gray code that changes is the code
before or after (`SampledIsOneOfTheTwo`), because codes of neighbours differ in
one bit, also at the wrap (`CodesInOneBit`), and it decodes to what was encoded
(`GrayRoundTrip`). The proofs need no recursion over words: the bit that an
increment sets is the least one that is zero (`Increment`), and least elements
come from `LeastNat`; what has to be said of every bit position is said with
`EveryNat` and `DownToZero`, induction over a set in place of a predicate.

*The sides.* Push and pop side are alike but for the delay of their counts and
for what a beat needs. `Rst`, `Act`, `Cnt`, `Word`, `Flag`, `Saved`, `Vis`,
`Room` give each as a function of the side, and every step of the model is a
`Move` of either side or both, so that each fact is proved once for two sides.

*The invariant* `IInv` has four parts. `TypeInv`: every flop in its range, the
words on their way included. `ResetInv`: what the flags on their way say of
where both resets stand in the one reset sequence that is under way; this part
is inductive alone, and `ResetsOverlap` follows. `ZeroInv`: where the flags say
that a reset has been seen, the words behind them are zero; this is where the
length of the reset enters, for the words must have gone through the delay
before the flag of the reset that cleared the count is taken back. `LinkInv`:
the words between a count and the place it is read are ordered as they were
sent, and what they promise less what they have not yet told is never more than
the room that is left (`Received`, `Live`, `Linked`). A side that trusts its
link then sees a count of the other side that is old, never one that is false.

*The entries.* `CrossingRefines` adds three parts, `EntriesInv`. `StoreType` and
`StoreZero`: the addresses, the RAM and its write pipeline have their types, and a
reset clears the addresses and, cycle by cycle, the pipeline. `StoreInv`: the
addresses enclose what the counts say, and the write in stage `i` of the
pipeline is addressed by the count in stage `i + 1` of the delay of the push
count, the count from before its push. Because the delay is at least the write
latency, a count that has left it belongs to a write that has landed; a pop,
which needs such a count beyond its own (`BeatsAreCovered`), reads an entry that
is in the RAM, and no write that lands in the same instant goes to its address
(`PopTakesOldest`). Pushes and pops then move the entries as `Append` and `Tail` do
(`EntriesMove`, `StepContents`), and the steps of a reset empty the queue.

**CI.** Assumptions: there are finitely many shards and labels
(`SuitesAssumption`); the matrix of jobs and the aggregation agree on the
number of shards, no shard is run twice and no job has two shards of one suite
(`MatrixAssumption`, read off `ci.yml`); a marker is not a list or a record
(`MarkersAssumption`). There may be any number of faults and re-runs.
`GreenMeansTested` is about the end of the pipeline and follows from what holds
on the way: a job has not touched the records of the shards it has not come to
(`Untouched`), so that a shard it never reaches has none; Bazel is run on a
partition prepared without error (`Prepared`), and the log is about that run
(`Ran`). So a record that shows no error is the truth about its shard
(`Vouched`): the listing had labels only, the record has all of them, and what
passed is what the shard had to run (`FinalizeVouches`). Every helper may die at
every point, after its last write, too: the record is then what it was before,
cut off or unfinished, none of which is without error, or it is the one that the
helper finished, which is as true as if the helper had lived. In the aggregation, indices and counts leave one shard for each
remainder (`IndexIsIdentity`), equal discoveries mean equal listings
(`SameDiscovery`), and each label is selected where its hash falls
(`HashDecides`): every test passed on exactly one shard. A file lost on its
way is never accepted (`NothingLost`). `GateInv` carries this on, as nothing
moves once the gate is open. `BadgesAreHonest`: sums over shards are the
cardinality of a set of pairs (`SumsAgree`), so the numbers of tests add up
where the sets do not meet (`DisjointSum`), which `HashDecides` says.
`NoAlarmIsFalse` needs a second invariant, for the opposite direction: in an
attempt without a fault every shard that is done has a good record (`Good`), and
every shard that is under way is as far as its phase says (`Smooth`), whatever
an earlier attempt left in its place; it has a hypothesis more, `MatrixFits`:
every shard of every suite is run by some job, as `ci.yml` has it.

**Verilog Runner.** Assumption: `CommandsAssumption`, the command lines are of
the form `argparse` accepts; plugins and directories are arbitrary. The
inductive invariant says that the tool is run only on files written in this run
(`Supplied`), and that a Yosys that returned 0 under the default Tcl body wrote
its statistics (`Measured`). Which plugin serves plays no part in it.
`FirstCopiesServe` rests on `PluginInv`: what has been imported, and what is
left to import, are together what the path has, and a name that comes twice is
in the list of directories at two places, of which the first is reached first
(`ListingsHoldFirstCopies`, `ImportStepImports`); the order within a directory
is arbitrary and plays no part.

**The PPA generator.** Assumptions: `BuildsAssumption`, `MarkersAssumption`.
`CatalogsAreComplete`: what has been collected and what is left to do are
together the targets of the revision that was queried, and the catalog is written
only when nothing is left. A child that returned 0 reports the configuration and the revision of now
(`ChildIsFresh`), because Yosys cannot get to its end under the default Tcl
body without writing its statistics; so a run without `--resume` collects
fresh rows only (`RowsAreFresh`).

**Checked by TLC only:** all liveness (`Delivers`, `EveryEntryLeaves`,
`PoolRecovers`, `NewsGetsThrough` and the others under Fairness in section 4),
which is out of the prover's reach. Every safety property of a passing run is
also a theorem.

## 6. Findings

* **`credit_shortreset`**: a reset of one cycle breaks the credit loop when both
  ends register their outputs. The flit that the sender sends in the cycle in
  which the receiver is reset arrives after the reset, in a buffer whose
  credits have all been given back. The headers of `br_credit_sender.sv` and
  `br_credit_receiver.sv` promise recovery from independent resets and name no
  shortest reset. Resets of two cycles are enough (`credit_resets`,
  `BufferNeverOverflows`).
* **`cdc_shortreset`**: resets of the two sides of a CDC FIFO that overlap as
  `br_cdc_fifo_reset_overlap_checks` demands, but are short, can end while the
  push count from before the reset is still in the delay chain; the pop side
  then sees entries that were never pushed. Resets of
  `2 + PushCountDelay - RegisterResetActive` cycles of their clock keep the
  counts in range. For the count that crosses to change in one bit at a time
  also at the end of a reset, it takes one cycle more, and that is what
  `cdc_resets` has.
* **`ppa_resume`**: the generator keeps the log of a target before it looks at
  the return code, and the log does not hold the return code. A synthesis that
  failed after Yosys wrote its statistics, in `ltp` for instance, is then taken
  for done by the next run with `--resume` and becomes a row of `PPA.md`
  without a logic depth.

Smaller observations, which no run is about:

* `verilog_runner.py:93` refuses `--opt` without `--tool`, as the help text
  (`cli.py:86`) says it must be; but `--tool` has a default, so the refusal
  is never reached. The default is the tool of the first plugin imported, which
  among plugins of one directory depends on the order of `os.listdir`.
* A copy of a plugin that loads but has an incompatible version hides a
  compatible one behind it on the path: the name is imported already.
* With a custom Tcl body, Yosys statistics of an earlier run are accepted as
  those of this run. The PPA generator is not exposed: its targets have the
  default body, and it removes the file after each run.
* A generated file without lines, from an empty custom Tcl body, ends the
  runner in `math.log10(0)` (`util.py:121`) before the script is written.
* The check for a duplicated shard index in the aggregation cannot fail: files
  are named after suite, index and count, and `merge-multiple` puts them in one
  directory.

## 7. What is not modelled

* Scan, power and physical aspects; metastability beyond "old or new value".
* Payload transformations (ECC codes, LFSR, shifts, muxes): functions of their
  inputs that the FPV benches of the repository cover exhaustively; ECC tables
  are out of reach of TLC.
* The tiling, partial writes and write-to-read forwarding of `br_ram_flops`, and
  the RAM initializer. In the FIFO models the RAM is an array between a pipeline
  of writes (`ram_wr` of `BrCdcFifo`) and one of reads (`reads` of
  `BrFifoStagingBuffer`). `br_ram_flops` delays the addresses of reads and of
  writes by the same stages, so that a read returns what was written before it
  was issued: the models take the word at that moment and delay it.
* Assertion-only and coverage-only state of the RTL.
* CI: the jobs that build the image, run pre-commit and publish, which wait for
  the modelled ones or are waited for; the check inside the container, whose
  result the workflow ignores (`continue-on-error`); an upload that fails is a
  file that is missing at the aggregation. The file format of manifests and
  records is abstracted to whole, cut off and absent; a record with a wrong
  field of the right shape cannot come from the code.
* Verilog Runner: the text of the filelist, of the Tcl and of the shell script,
  the parsing of parameters, the layout of the log. Which file is written when,
  and by which run, is modelled. Plugins that are not in the repository are
  whatever their class says they provide.
* PPA: the numbers, the layout of the table, the list of excluded modules.
* `sim_tb_coverage_inventory.py`, the generators in `ecc` and `fifo`, the reports
  in `scripts`, `check_env.py` and the fake runner: text in, text out, with no
  state that anything reads again. The ECC generator takes its matrices from a
  package outside the repository.
* Bazel rules and stitch collateral.

The components of section 1 marked `-` are planned or, where the plan does not
name them, left out for the reason given in `PROJECT.json`.

## 8. Plan

1. **Done.** FIFO core and staging buffer, credit loop, CDC FIFO; proofs of the
   unbuffered FIFO and the credit loop.
2. **Done.** CI sharding, Verilog Runner, the PPA generator, with proofs.
3. **Done in part.** The dynamically shared FIFOs with their free list, linked
   lists and arbiters. Left: three write ports on two lists (a list that gets
   every other address of a cycle), fixed partitions, and the count of
   deallocations that the credit variants delay so that no credit arrives
   before its entry can be allocated (`br_tracker_freelist.sv:345`). Theorems: **done**, no
   entry is lost or doubled, each queue is its lists.
4. `br_cdc_reg` (data that must not change until its flag has crossed), the
   pulse and stable-data synchronizers (two pulses too close are none), and
   `br_csr_axil_widget` (an answer that races the watchdog; a time limit that
   changes under way). Abstract specification: a mailbox between clocks; one
   answer per request. Theorem: one answer per request.
5. `br_credit_sender_vc` (not gated by the reset of the receiver), the FIFOs
   with push credits as a composition of `BrCreditLoop` with `BrFifoStaged` and
   `BrCdcFifo`, AMBA isolation (bursts cut in the middle, answers from before
   the isolation).
6. `br_tracker_sequence`, `br_tracker_reorder` (tags completed in any order and
   released in one), the single-grant arbiters with hold, the flow registers and
   width converters, the AXI demux (one ID over several subordinates without a
   deadlock).
7. Counter arithmetic against a reference over bounded inputs.
8. Proofs: **done** for all components modelled, the shared FIFOs up to what the
   consumers get included; liveness stays with TLC.

## 9. Running it

```
tlc -workers 2 -config MCFifoDirect_bypass.cfg MCFifoDirect
tlapm BrCreditLoopProofs.tla
```

The run, its module and its configuration are in `PROJECT.json`, `runs`.
