----------------------------- MODULE MCFifoStaged -----------------------------
(* br_fifo_ctrl_1r1w with a staging buffer, for TLC.  One run takes the two    *)
(* buffers there are: the circular one, of the constants of the configuration, *)
(* and, when single is chosen at the start, the one of a single entry with     *)
(* registered pop outputs behind a RAM of latency 1.                           *)
EXTENDS BrFifoProofs

VARIABLE single

\* With the theorems, which hold of this instance as of any other.
Single == INSTANCE BrFifoProofs WITH RamReadLatency <- 1, RegisterPopOutputs <- TRUE

\* TLC evaluates a constant definition once, for the constants of the run, unless
\* the module that has it is itself instantiated: with this instance it evaluates
\* BufferDepth, Latency and NoPush for either buffer.
SingleModel == INSTANCE BrFifoStaged WITH RamReadLatency <- 1, RegisterPopOutputs <- TRUE

\* StagedAssumption for the buffer of a single entry
ASSUME SingleAssumption ==
    /\ Depth > 2
    /\ RamDepth >= IF EnableBypass THEN Depth - 2 ELSE Depth

either_vars == <<vars, single>>

EitherInit ==
    \/ single = FALSE /\ Init
    \/ single = TRUE  /\ Single!Init

EitherNext ==
    /\ \/ ~single /\ Next
       \/ single /\ Single!Next
    /\ UNCHANGED single

(* Cycles in which the consumer is ready do not cease.                         *)
EitherDrain == (IF single THEN Single!DrainCycle ELSE DrainCycle) /\ UNCHANGED single

EitherSpec == EitherInit /\ [][EitherNext]_either_vars /\ WF_either_vars(EitherDrain)

-----------------------------------------------------------------------------
(* StagedAccounted of the buffer chosen: what gates reads and bypasses is the  *)
(* number of entries in the buffer and on their way to it.                     *)
EntriesStaged == IF single THEN Single!StagedAccounted ELSE StagedAccounted

(* RamNeverOverflows of the buffer chosen: the RAM, smaller than the FIFO by   *)
(* the depth of the staging buffer, never overflows.                           *)
RamSuffices == IF single THEN Single!RamNeverOverflows ELSE RamNeverOverflows

(* KeepsOffer of the buffer chosen: an offer that is refused stays as it is.    *)
OfferStable == [][IF single THEN Single!KeepsOffer ELSE KeepsOffer]_either_vars

(* ShowsInTime of the buffer chosen: an entry that went through the RAM shows   *)
(* after exactly the latency of the path.                                      *)
ShownInTime == [][IF single THEN Single!ShowsInTime ELSE ShowsInTime]_either_vars

EitherQueue ==
    INSTANCE BoundedFifo
        WITH q   <- IF single THEN Single!Contents ELSE Contents,
             in  <- push,
             out <- Delivered

(* With either buffer the FIFO is a queue.                                     *)
EitherIsQueue == EitherQueue!Spec

-----------------------------------------------------------------------------
(***************************************************************************)
(* What the run checks on one instance, for every depth, RAM, latency and  *)
(* set of values: the theorems of BrFifoProofs, taken once for the   *)
(* buffer of the constants and once for the buffer of a single entry, put  *)
(* together over the choice of single.                                     *)
(***************************************************************************)
LEMMA SingleLegal == Single!StagedAssumption
BY FifoCoreAssumption, SingleAssumption DEF Single!StagedAssumption, Single!BufferDepth

\* The inductive invariant of the buffer chosen
EitherInv == /\ single \in BOOLEAN
             /\ single => Single!IInv /\ Single!InTime
             /\ ~single => IInv /\ InTime

LEMMA SingleInit == Single!Init => Single!IInv /\ Single!InTime
BY Single!InitIInv, Single!InitInTime, FifoCoreAssumption, SingleLegal

LEMMA SingleNext ==
  Single!IInv /\ Single!InTime /\ [Single!Next]_(Single!vars)
    => Single!IInv' /\ Single!InTime'
BY Single!NextIInv, Single!NextInTime, FifoCoreAssumption, SingleLegal

LEMMA EitherInitInv == EitherInit => EitherInv
<1>1. CASE single = TRUE /\ Single!Init
  BY <1>1, SingleInit DEF EitherInv
<1>2. CASE single = FALSE /\ Init
  BY <1>2, InitIInv, InitInTime DEF EitherInv
<1> QED BY <1>1, <1>2 DEF EitherInit

LEMMA EitherNextInv == EitherInv /\ [EitherNext]_either_vars => EitherInv'
<1> SUFFICES ASSUME EitherInv, [EitherNext]_either_vars PROVE EitherInv'
  OBVIOUS
<1>1. CASE single
  <2>1. single' = single /\ [Single!Next]_(Single!vars)
    BY <1>1 DEF either_vars, EitherNext, vars, Single!vars
  <2>2. Single!IInv' /\ Single!InTime'
    BY <1>1, <2>1, SingleNext DEF EitherInv
  <2> QED BY <1>1, <2>1, <2>2 DEF EitherInv
<1>2. CASE ~single
  <2>1. single' = single /\ [Next]_vars
    BY <1>2 DEF either_vars, EitherNext, vars
  <2>2. IInv' /\ InTime'
    BY <1>2, <2>1, NextIInv, NextInTime DEF EitherInv
  <2> QED BY <1>2, <2>1, <2>2 DEF EitherInv
<1> QED BY <1>1, <1>2

\* A step of the choice is a step of the buffer chosen.
LEMMA StepOfChosen ==
  ASSUME [EitherNext]_either_vars, single \in BOOLEAN
  PROVE  /\ single' = single
         /\ single => [Single!Next]_(Single!vars)
         /\ ~single => [Next]_vars
BY DEF either_vars, EitherNext, vars, Single!vars

THEOREM EitherInvariance == EitherSpec => []EitherInv
BY EitherInitInv, EitherNextInv, PTL DEF EitherSpec

-----------------------------------------------------------------------------
LEMMA EitherInvStaged == EitherInv => EntriesStaged
<1>1. Single!IInv => Single!StagedAccounted
  BY Single!IInvStaged, FifoCoreAssumption, SingleLegal
<1> QED BY <1>1, IInvStaged DEF EitherInv, EntriesStaged

(* With either buffer the count that gates reads and bypasses is the number  *)
(* of entries in the staging buffer, in the output register and on their way *)
(* from the RAM (br_fifo_staging_buffer, br_counter_staged_items).           *)
THEOREM EntriesStagedHolds == EitherSpec => []EntriesStaged
BY EitherInvariance, EitherInvStaged, PTL

LEMMA EitherInvRam == EitherInv => RamSuffices
<1>1. Single!IInv => Single!RamNeverOverflows
  BY Single!IInvRam, FifoCoreAssumption, SingleLegal
<1> QED BY <1>1, IInvRam DEF EitherInv, RamSuffices

(* With either buffer the RAM of br_fifo_flops, smaller than the FIFO by the *)
(* depth of the staging buffer, never overflows.                             *)
THEOREM RamSufficesHolds == EitherSpec => []RamSuffices
BY EitherInvariance, EitherInvRam, PTL

-----------------------------------------------------------------------------
LEMMA EitherKeepsOffer ==
  EitherInv /\ [EitherNext]_either_vars
    => [IF single THEN Single!KeepsOffer ELSE KeepsOffer]_either_vars
<1> SUFFICES ASSUME EitherInv, [EitherNext]_either_vars
             PROVE  [IF single THEN Single!KeepsOffer ELSE KeepsOffer]_either_vars
  OBVIOUS
<1>1. /\ single' = single
      /\ single => [Single!Next]_(Single!vars)
      /\ ~single => [Next]_vars
  BY StepOfChosen DEF EitherInv
<1>2. CASE single
  <2>1. [Single!KeepsOffer]_(Single!vars)
    BY <1>1, <1>2, Single!NextKeepsOffer, FifoCoreAssumption, SingleLegal DEF EitherInv
  <2> QED BY <1>1, <1>2, <2>1 DEF either_vars, vars, Single!vars
<1>3. CASE ~single
  <2>1. [KeepsOffer]_vars
    BY <1>1, <1>3, NextKeepsOffer DEF EitherInv
  <2> QED BY <1>1, <1>3, <2>1 DEF either_vars
<1> QED BY <1>2, <1>3

(* With either buffer an offer that is refused is shown again unchanged.     *)
THEOREM OfferStableHolds == EitherSpec => OfferStable
BY EitherInvariance, EitherKeepsOffer, PTL DEF EitherSpec, OfferStable

LEMMA EitherShows ==
  EitherInv /\ [EitherNext]_either_vars
    => [IF single THEN Single!ShowsInTime ELSE ShowsInTime]_either_vars
<1> SUFFICES ASSUME EitherInv, [EitherNext]_either_vars
             PROVE  [IF single THEN Single!ShowsInTime ELSE ShowsInTime]_either_vars
  OBVIOUS
<1>1. /\ single' = single
      /\ single => [Single!Next]_(Single!vars)
      /\ ~single => [Next]_vars
  BY StepOfChosen DEF EitherInv
<1>2. CASE single
  <2>1. [Single!ShowsInTime]_(Single!vars)
    BY <1>1, <1>2, Single!NextShows, FifoCoreAssumption, SingleLegal DEF EitherInv
  <2> QED BY <1>1, <1>2, <2>1 DEF either_vars, vars, Single!vars
<1>3. CASE ~single
  <2>1. [ShowsInTime]_vars
    BY <1>1, <1>3, NextShows DEF EitherInv
  <2> QED BY <1>1, <1>3, <2>1 DEF either_vars
<1> QED BY <1>2, <1>3

(* With either buffer a push that goes through the RAM shows at the pop      *)
(* interface after exactly the latency of the RAM and of the registers.      *)
THEOREM ShownInTimeHolds == EitherSpec => ShownInTime
BY EitherInvariance, EitherShows, PTL DEF EitherSpec, ShownInTime

-----------------------------------------------------------------------------
LEMMA EitherInitQueue == EitherInit => EitherQueue!Init
<1>1. Single!Init => Single!Queue!Init
  BY Single!InitRefines, FifoCoreAssumption, SingleLegal
<1>2. CASE single = TRUE /\ Single!Init
  BY <1>1, <1>2 DEF EitherQueue!Init, Single!Queue!Init, Delivered, Single!Delivered
<1>3. CASE single = FALSE /\ Init
  BY <1>3, InitRefines DEF EitherQueue!Init, Queue!Init
<1> QED BY <1>2, <1>3 DEF EitherInit

LEMMA EitherNextQueue ==
  EitherInv /\ [EitherNext]_either_vars => [EitherQueue!Next]_(EitherQueue!vars)
<1> SUFFICES ASSUME EitherInv, [EitherNext]_either_vars
             PROVE  [EitherQueue!Next]_(EitherQueue!vars)
  OBVIOUS
<1>1. /\ single' = single
      /\ single => [Single!Next]_(Single!vars)
      /\ ~single => [Next]_vars
  BY StepOfChosen DEF EitherInv
<1>2. CASE single
  <2>1. [Single!Queue!Next]_(Single!Queue!vars)
    BY <1>1, <1>2, Single!NextRefines, FifoCoreAssumption, SingleLegal DEF EitherInv
  <2>2. Delivered = Single!Delivered /\ Delivered' = Single!Delivered'
    BY DEF Delivered, Single!Delivered
  <2> QED
    BY <1>1, <1>2, <2>1, <2>2
       DEF Single!Queue!Next, Single!Queue!vars, Single!Queue!Push, Single!Queue!Pop,
           Single!Queue!PushPop, Single!Queue!Idle, Single!Queue!Reset,
           EitherQueue!Next, EitherQueue!vars, EitherQueue!Push, EitherQueue!Pop,
           EitherQueue!PushPop, EitherQueue!Idle, EitherQueue!Reset
<1>3. CASE ~single
  <2>1. [Queue!Next]_(Queue!vars)
    BY <1>1, <1>3, NextRefines DEF EitherInv
  <2> QED
    BY <1>1, <1>3, <2>1
       DEF Queue!Next, Queue!vars, Queue!Push, Queue!Pop, Queue!PushPop, Queue!Idle,
           Queue!Reset,
           EitherQueue!Next, EitherQueue!vars, EitherQueue!Push, EitherQueue!Pop,
           EitherQueue!PushPop, EitherQueue!Idle, EitherQueue!Reset
<1> QED BY <1>2, <1>3

(* With either buffer the FIFO is a bounded queue: what is delivered is what *)
(* was pushed, each entry once and in order, and a push accepted never finds *)
(* it full.                                                                  *)
THEOREM EitherIsQueueHolds == EitherSpec => EitherIsQueue
BY EitherInvariance, EitherInitQueue, EitherNextQueue, PTL
   DEF EitherSpec, EitherIsQueue, EitherQueue!Spec
=============================================================================
