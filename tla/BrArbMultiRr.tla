---------------------------- MODULE BrArbMultiRr -----------------------------
(***************************************************************************)
(* br_arb_multi_rr: a round-robin arbiter that grants up to grant_allowed   *)
(* requests in one cycle.  lowest_prio is its only register: the requester  *)
(* served last, from which priority falls around the circle.                *)
(***************************************************************************)
EXTENDS Integers, FiniteSets

CONSTANT NumRequesters

ASSUME NumRequestersAssumption == NumRequesters \in Nat \ {0}

VARIABLE lowest_prio

Requester == 0 .. NumRequesters - 1

LowestPrioInit == NumRequesters - 1

\* Place of r in the order of priority, 0 for the highest
\* (br_enc_priority_dynamic).
Turn(r) == IF r > lowest_prio THEN r - lowest_prio - 1
                              ELSE r + NumRequesters - lowest_prio - 1

\* How many requests go before r.
Ahead(r, request) == {o \in request : Turn(o) < Turn(r)}

Grant(request, grant_allowed) ==
    {r \in request : Cardinality(Ahead(r, request)) < grant_allowed}

GrantCount(request, grant_allowed) ==
    IF Cardinality(request) <= grant_allowed THEN Cardinality(request) ELSE grant_allowed

\* (mutant) Priority never moves.
MutLowestPrioNext(request, grant_allowed) == lowest_prio

\* The last request granted becomes the one of lowest priority.
LowestPrioNext(request, grant_allowed) ==
    LET grant == Grant(request, grant_allowed)
    IN  IF grant = {} THEN lowest_prio
        ELSE CHOOSE r \in grant : \A o \in grant : Turn(o) <= Turn(r)
=============================================================================
