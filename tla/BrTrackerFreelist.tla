-------------------------- MODULE BrTrackerFreelist ---------------------------
(***************************************************************************)
(* br_tracker_freelist: which entries of a pool are free.  A vector holds   *)
(* the free entries; a register at the output (br_multi_xfer_reg_fwd, or    *)
(* br_flow_reg_fwd for one allocation port) holds the next few of them in   *)
(* the order they will be allocated in.  Parameters at their defaults:      *)
(* RegisterAllocOutputs = 1, EnableBypass = 0, PreallocatedEntries = 0.     *)
(*                                                                         *)
(* freelist holds the registers.  The operators are the wires of one cycle, *)
(* in which alloc_receivable entries are asked for and the entries of the   *)
(* set returned come back.                                                  *)
(***************************************************************************)
EXTENDS Integers, SequencesExt, FiniteSetsExt

CONSTANTS NumEntries, NumAllocPerCycle

VARIABLE freelist

EntryId == 0 .. NumEntries - 1

InitFreelist == [unstaged |-> EntryId, staged |-> <<>>]

Least(m, n) == IF m < n THEN m ELSE n

alloc_sendable == Len(freelist.staged)

AllocCount(alloc_receivable) == Least(alloc_sendable, alloc_receivable)

\* What the priority encoder offers to the output register: the lowest
\* entries of the vector.
push_entry_id ==
    LET free == freelist.unstaged
        lower(e) == {x \in free : x < e}
    IN  [i \in 1 .. Least(Cardinality(free), NumAllocPerCycle)
            |-> CHOOSE e \in free : Cardinality(lower(e)) = i - 1]

PushReceivable(alloc_receivable) ==
    NumAllocPerCycle - (alloc_sendable - AllocCount(alloc_receivable))

\* Entries that move from the vector to the output register.
Taken(alloc_receivable) ==
    SubSeq(push_entry_id, 1, Least(Len(push_entry_id), PushReceivable(alloc_receivable)))

UnstagedNext(alloc_receivable, returned) ==
    (freelist.unstaged \cup returned) \ ToSet(Taken(alloc_receivable))

FreelistNext(alloc_receivable, returned) ==
    [unstaged |-> UnstagedNext(alloc_receivable, returned),
     staged   |-> SubSeq(freelist.staged, AllocCount(alloc_receivable) + 1, alloc_sendable)
                    \o Taken(alloc_receivable)]
=============================================================================
