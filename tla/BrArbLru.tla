------------------------------- MODULE BrArbLru -------------------------------
(***************************************************************************)
(* br_arb_lru: a least-recently-used arbiter.  The code keeps the relation  *)
(* "used less recently than" as a triangle of bits; order is the sequence   *)
(* these bits describe, the requester used longest ago first.               *)
(***************************************************************************)
EXTENDS Integers, SequencesExt

CONSTANT NumRequesters

Requester == 0 .. NumRequesters - 1

\* Out of reset the lowest number wins.
InitOrder == [i \in 1 .. NumRequesters |-> i - 1]

Before(order, r, s) == \E i, j \in 1 .. NumRequesters : i < j /\ order[i] = r /\ order[j] = s

\* (mutant) Two requesters of one port are granted in the same cycle.
MutCanGrant(order, request, r) == TRUE

\* No request of higher priority; r itself need not be requesting.
CanGrant(order, request, r) == \A s \in request : ~Before(order, s, r)

Grant(order, request) == {r \in request : CanGrant(order, request, r)}

\* (mutant) The order is not updated: a fixed priority.
MutOrderNext(order, request) == order

\* With any request there is a grant; its requester becomes the last.
OrderNext(order, request) ==
    IF request = {} THEN order
    ELSE LET g     == CHOOSE r \in Grant(order, request) : TRUE
             place == CHOOSE i \in 1 .. NumRequesters : order[i] = g
         IN  Append(RemoveAt(order, place), g)
=============================================================================
