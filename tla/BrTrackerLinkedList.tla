------------------------- MODULE BrTrackerLinkedList --------------------------
(***************************************************************************)
(* br_tracker_linked_list_ctrl: a queue of addresses kept as NumLinkedLists *)
(* linked lists in a pointer RAM that this module does not own.  Addresses  *)
(* are appended to the lists in turn and taken from them in turn, so that   *)
(* one list can wait for its next pointer while another is popped.          *)
(*                                                                         *)
(* Several controllers share a RAM, so an operator takes the state of one:  *)
(* ctl holds its registers and the pointers on their way through the RAM.   *)
(* The operators are the wires of one cycle, in which the addresses of the  *)
(* sequence next_tail are appended (one per write port that is valid, in    *)
(* the order of the ports) and head_ready says whether the head is taken;   *)
(* ram is the content of the RAM.  A head whose valid bit is low and the    *)
(* tail of an empty list hold NoAddr.                                       *)
(***************************************************************************)
EXTENDS Integers, SequencesExt, FiniteSetsExt

CONSTANTS Depth, NumLinkedLists, RamReadLatency

LinkedList == 0 .. NumLinkedLists - 1
Address == 0 .. Depth - 1
NoAddr == Depth
Stage == 1 .. RamReadLatency

NoRead == [valid |-> FALSE, list |-> 0, ptr |-> NoAddr]

InitLists ==
    [count      |-> [l \in LinkedList |-> 0],
     head       |-> [l \in LinkedList |-> NoAddr],
     head_valid |-> [l \in LinkedList |-> FALSE],
     tail       |-> [l \in LinkedList |-> NoAddr],
     head_select |-> 0, tail_select |-> 0,
     reads      |-> [k \in Stage |-> NoRead]]

items(ctl) == SumFunction(ctl.count)
empty(ctl) == \A l \in LinkedList : ctl.count[l] = 0

-----------------------------------------------------------------------------
(* Head: the lists take turns *)

head_valid(ctl) == ctl.count[ctl.head_select] # 0 /\ ctl.head_valid[ctl.head_select]

head(ctl) == ctl.head[ctl.head_select]

HeadBeat(ctl, head_ready) == head_valid(ctl) /\ head_ready

HeadPopped(ctl, l, head_ready) == HeadBeat(ctl, head_ready) /\ l = ctl.head_select

PtrRamRdAddrValid(ctl, head_ready) == HeadBeat(ctl, head_ready) /\ ctl.count[ctl.head_select] # 1

\* The pointer the RAM delivers in this cycle, with the list it is for.
PtrRamRdData(ctl, head_ready, ram) ==
    IF RamReadLatency > 0 THEN ctl.reads[RamReadLatency]
    ELSE IF PtrRamRdAddrValid(ctl, head_ready)
         THEN [valid |-> TRUE, list |-> ctl.head_select, ptr |-> ram[head(ctl)]]
         ELSE NoRead

-----------------------------------------------------------------------------
(* Tail: the lists take turns, several within a cycle *)

\* The addresses of this cycle that go to list l, in the order of the ports.
Arrivals(ctl, l, next_tail) ==
    LET first == ((l - ctl.tail_select) % NumLinkedLists) + 1
    IN  [k \in 1 .. (Len(next_tail) - first + NumLinkedLists) \div NumLinkedLists
            |-> next_tail[first + (k - 1) * NumLinkedLists]]

\* (mutant) Addresses that reach a list in one cycle are not chained.
MutListWrites(ctl, l, next_tail) ==
    LET new == Arrivals(ctl, l, next_tail)
    IN  {[addr |-> ctl.tail[l], data |-> new[k]] :
            k \in {k \in 1 .. Len(new) : ctl.count[l] # 0}}

\* Each address is written where the one before it points from; the first of
\* an empty list has none before it.
ListWrites(ctl, l, next_tail) ==
    LET new == Arrivals(ctl, l, next_tail)
    IN  {[addr |-> IF k = 1 THEN ctl.tail[l] ELSE new[k - 1], data |-> new[k]] :
            k \in {k \in 1 .. Len(new) : k > 1 \/ ctl.count[l] # 0}}

PtrRamWrites(ctl, next_tail) == UNION {ListWrites(ctl, l, next_tail) : l \in LinkedList}

-----------------------------------------------------------------------------
(* Registers of list l after the clock edge.  popped: its head is taken;     *)
(* new: the addresses it is given; rd: what the pointer RAM delivers.        *)

\* (mutant) Only an empty list takes its head from the tail.
MutHeadBypass(ctl, l, popped) == ctl.count[l] = 0

\* The new address becomes the head of a list that is empty, or whose last
\* entry is popped in this cycle.
HeadBypass(ctl, l, popped) ==
    ctl.count[l] = 0 \/ (ctl.count[l] = 1 /\ ctl.head_valid[l] /\ popped)

HeadUpdate(ctl, l, popped, new, rd) ==
    \/ new # <<>> /\ HeadBypass(ctl, l, popped)
    \/ rd.valid /\ rd.list = l

HeadValidNext(ctl, l, popped, new, rd) ==
    (ctl.head_valid[l] /\ ~popped) \/ HeadUpdate(ctl, l, popped, new, rd)

HeadNext(ctl, l, popped, new, rd) ==
    IF ~HeadValidNext(ctl, l, popped, new, rd) THEN NoAddr
    ELSE IF ~HeadUpdate(ctl, l, popped, new, rd) THEN ctl.head[l]
    ELSE IF ~HeadBypass(ctl, l, popped) THEN rd.ptr
    ELSE IF new = <<>> THEN NoAddr ELSE new[1]

CountNext(ctl, l, popped, new) == ctl.count[l] + Len(new) - IF popped THEN 1 ELSE 0

TailNext(ctl, l, popped, new) ==
    IF CountNext(ctl, l, popped, new) = 0 THEN NoAddr
    ELSE IF new # <<>> THEN Last(new) ELSE ctl.tail[l]

ReadsNext(ctl, head_ready, ram) ==
    [k \in Stage |->
        IF k > 1 THEN ctl.reads[k - 1]
        ELSE IF PtrRamRdAddrValid(ctl, head_ready)
             THEN [valid |-> TRUE, list |-> ctl.head_select, ptr |-> ram[head(ctl)]]
             ELSE NoRead]

ListsNext(ctl, head_ready, next_tail, ram) ==
    LET popped == [l \in LinkedList |-> HeadPopped(ctl, l, head_ready)]
        new    == [l \in LinkedList |-> Arrivals(ctl, l, next_tail)]
        rd     == PtrRamRdData(ctl, head_ready, ram)
    IN  [count      |-> [l \in LinkedList |-> CountNext(ctl, l, popped[l], new[l])],
         head       |-> [l \in LinkedList |-> HeadNext(ctl, l, popped[l], new[l], rd)],
         head_valid |-> [l \in LinkedList |-> HeadValidNext(ctl, l, popped[l], new[l], rd)],
         tail       |-> [l \in LinkedList |-> TailNext(ctl, l, popped[l], new[l])],
         head_select |-> (ctl.head_select + IF HeadBeat(ctl, head_ready) THEN 1 ELSE 0) % NumLinkedLists,
         tail_select |-> (ctl.tail_select + Len(next_tail)) % NumLinkedLists,
         reads      |-> ReadsNext(ctl, head_ready, ram)]

-----------------------------------------------------------------------------
(* The addresses a controller is responsible for, oldest first: the chains   *)
(* of its lists, taken from in turn.                                         *)

\* First address of list l: its head, or the pointer being fetched.
FirstOf(ctl, l) ==
    LET fetched == {k \in Stage : ctl.reads[k].valid /\ ctl.reads[k].list = l}
    IN  IF ctl.head_valid[l] \/ fetched = {} THEN ctl.head[l]
        ELSE ctl.reads[CHOOSE k \in fetched : TRUE].ptr

Chain(ctl, l, ram) ==
    LET at[n \in 0 .. ctl.count[l] - 1] ==
            IF n = 0 THEN FirstOf(ctl, l)
            ELSE IF at[n - 1] = NoAddr THEN NoAddr ELSE ram[at[n - 1]]
    IN  at

Addresses(ctl, ram) ==
    [i \in 1 .. items(ctl) |->
        LET l == (ctl.head_select + i - 1) % NumLinkedLists
            n == (i - 1) \div NumLinkedLists
        IN  IF n < ctl.count[l] THEN Chain(ctl, l, ram)[n] ELSE NoAddr]

\* Place in the queue of the k-th address of list l, k from 0
Place(ctl, l, k) == ((l - ctl.head_select) % NumLinkedLists) + (NumLinkedLists * k) + 1

(* The lists are the queue q: list l is every NumLinkedLists-th address of q *)
(* from its turn on, no more and no less, linked through the RAM; its head,  *)
(* or the pointer being fetched, is the first of them and its tail the last; *)
(* the next address goes to the list whose turn it is.                       *)
InTurn(ctl, ram, q) ==
    /\ ctl.tail_select = (ctl.head_select + Len(q)) % NumLinkedLists
    /\ \A i \in 1 .. Len(q) - NumLinkedLists : ram[q[i]] = q[i + NumLinkedLists]
    /\ \A l \in LinkedList :
          /\ Place(ctl, l, ctl.count[l]) \in Len(q) + 1 .. Len(q) + NumLinkedLists
          /\ ctl.count[l] > 0 => /\ FirstOf(ctl, l) = q[Place(ctl, l, 0)]
                                 /\ ctl.tail[l] = q[Place(ctl, l, ctl.count[l] - 1)]
=============================================================================
