----------------------------- MODULE BoundedFifo -----------------------------
(***************************************************************************)
(* What every FIFO of the library promises its two neighbours: a bounded   *)
(* queue.  One step is one clock cycle.  In a cycle the producer may hand   *)
(* over one entry, the consumer may take one, or both; in and out are the   *)
(* entries accepted and taken in the cycle that just ended, NoData if none. *)
(*                                                                         *)
(* A cycle that both accepts and delivers while the queue is empty is a     *)
(* cut-through: the accepted entry is the delivered one.                    *)
(***************************************************************************)
EXTENDS Naturals, Sequences

CONSTANTS Depth,   \* number of entries the queue can hold
          Data,    \* the values an entry can carry
          NoData   \* not an entry

VARIABLES q, in, out

vars == <<q, in, out>>

Init == q = <<>> /\ in = NoData /\ out = NoData

Push(d) == /\ Len(q) < Depth
           /\ q' = Append(q, d)
           /\ in' = d /\ out' = NoData

Pop == /\ q # <<>>
       /\ q' = Tail(q)
       /\ in' = NoData /\ out' = Head(q)

PushPop(d) == /\ Len(q) < Depth
              /\ q' = Tail(Append(q, d))
              /\ in' = d /\ out' = Head(Append(q, d))

Idle == q' = q /\ in' = NoData /\ out' = NoData

Reset == q' = <<>> /\ in' = NoData /\ out' = NoData

Next == \/ \E d \in Data : Push(d) \/ PushPop(d)
        \/ Pop
        \/ Idle
        \/ Reset

Spec == Init /\ [][Next]_vars
=============================================================================
