-------------------------- MODULE BrCreditLoopProofs --------------------------
(***************************************************************************)
(* Theorems about BrCreditLoop for any number of flows and credits, any     *)
(* credit rates, one or both ends registered, and resets of the two ends at *)
(* any time, held for 2 cycles or more if both ends are registered.         *)
(***************************************************************************)
EXTENDS BrCreditLoop, FiniteSetTheorems, FunctionTheorems, TLAPS

(* The arbiter: it grants as many requests as it says (grant_count_correct_a *)
(* of br_arb_multi_rr), which is what makes the credit counter decrement by  *)
(* the number of flits that are sent.                                        *)

LEMMA RequestsAreFinite ==
  ASSUME NEW R \in SUBSET Requester
  PROVE  IsFiniteSet(R) /\ Cardinality(R) \in 0 .. NumRequesters
<1>1. NumRequesters \in Nat /\ 0 \in Int /\ NumRequesters - 1 \in Int
  BY NumRequestersAssumption
<1>2. IsFiniteSet(Requester) /\ Cardinality(Requester) = NumRequesters
  BY <1>1, FS_Interval DEF Requester
<1>3. IsFiniteSet(R) /\ Cardinality(R) <= Cardinality(Requester)
  BY <1>2, FS_Subset
<1> QED BY <1>2, <1>3, FS_CardinalityType

(* Priority is a strict order of the requesters.                                  *)
LEMMA TurnIsInjective ==
  ASSUME lowest_prio \in Requester, NEW r \in Requester, NEW o \in Requester
  PROVE  /\ Turn(r) \in Nat
         /\ r # o => Turn(r) # Turn(o)
BY NumRequestersAssumption DEF Requester, Turn

(* The place of a request in the line is told by who is ahead of it.         *)
LEMMA AheadIsRank ==
  ASSUME lowest_prio \in Requester, NEW R \in SUBSET Requester, NEW r \in R
  PROVE  /\ Cardinality(Ahead(r, R)) \in 0 .. Cardinality(R) - 1
         /\ \A o \in R : Turn(o) < Turn(r) =>
               Cardinality(Ahead(o, R)) < Cardinality(Ahead(r, R))
<1> DEFINE rank(x) == Cardinality(Ahead(x, R))
<1>1. \A x \in R : Turn(x) \in Nat
  BY TurnIsInjective
<1>2. \A x \in R : Ahead(x, R) \in SUBSET R
  BY DEF Ahead
<1>3. \A x \in R : IsFiniteSet(Ahead(x, R)) /\ rank(x) \in Nat
  BY <1>2, RequestsAreFinite
<1>4. IsFiniteSet(R) /\ Cardinality(R) \in Nat
  BY RequestsAreFinite
<1>5. r \notin Ahead(r, R)
  BY <1>1 DEF Ahead
<1>6. rank(r) <= Cardinality(R) /\ rank(r) # Cardinality(R)
  BY <1>2, <1>4, <1>5, FS_Subset
<1>7. ASSUME NEW o \in R, Turn(o) < Turn(r) PROVE rank(o) < rank(r)
  <2>1. Ahead(o, R) \in SUBSET Ahead(r, R)
    BY <1>1, <1>7 DEF Ahead
  <2>2. o \in Ahead(r, R) /\ o \notin Ahead(o, R)
    BY <1>1, <1>7 DEF Ahead
  <2>3. rank(o) <= rank(r) /\ rank(o) # rank(r)
    BY <1>3, <2>1, <2>2, FS_Subset
  <2> QED BY <1>3, <2>3
<1> QED BY <1>3, <1>4, <1>6, <1>7

(* No two requests have the same place in the line.                         *)
LEMMA RanksDiffer ==
  ASSUME lowest_prio \in Requester, NEW R \in SUBSET Requester,
         NEW x \in R, NEW y \in R, x # y
  PROVE  Cardinality(Ahead(x, R)) # Cardinality(Ahead(y, R))
<1>1. Turn(x) \in Nat /\ Turn(y) \in Nat /\ Turn(x) # Turn(y)
  BY TurnIsInjective
<1>2. Cardinality(R) \in Nat
  BY RequestsAreFinite
<1>3. Cardinality(Ahead(x, R)) \in Int /\ Cardinality(Ahead(y, R)) \in Int
  BY <1>2, AheadIsRank
<1>4. Turn(x) < Turn(y) => Cardinality(Ahead(x, R)) < Cardinality(Ahead(y, R))
  BY AheadIsRank
<1>5. Turn(y) < Turn(x) => Cardinality(Ahead(y, R)) < Cardinality(Ahead(x, R))
  BY AheadIsRank
<1> QED BY <1>1, <1>3, <1>4, <1>5

(* Every place in the line is taken.                                         *)
LEMMA RankIsOnto ==
  ASSUME lowest_prio \in Requester, NEW R \in SUBSET Requester,
         NEW k \in 0 .. Cardinality(R) - 1
  PROVE  \E r \in R : Cardinality(Ahead(r, R)) = k
<1> DEFINE rank(x) == Cardinality(Ahead(x, R))
           place == 0 .. Cardinality(R) - 1
           f == [x \in R |-> rank(x)]
<1>1. IsFiniteSet(R) /\ Cardinality(R) \in Nat
  BY RequestsAreFinite
<1>2. \A x \in R : rank(x) \in place
  BY AheadIsRank
<1>3. \A x, y \in R : x # y => rank(x) # rank(y)
  BY RanksDiffer
<1>4. f \in Injection(R, place)
  BY <1>2, <1>3 DEF Injection, IsInjective
<1>5. IsFiniteSet(place) /\ Cardinality(place) = Cardinality(R)
  BY <1>1, FS_Interval
<1>6. f \in Surjection(R, place)
  BY <1>4, <1>5, FS_Injection
<1> QED BY <1>6 DEF Surjection

(* grant_count_correct_a                                                     *)
LEMMA GrantCountIsCorrect ==
  ASSUME lowest_prio \in Requester, NEW R \in SUBSET Requester, NEW a \in 0 .. NumRequesters
  PROVE  /\ Grant(R, a) \in SUBSET R
         /\ Cardinality(Grant(R, a)) = GrantCount(R, a)
         /\ GrantCount(R, a) \in 0 .. a
<1> DEFINE rank(x) == Cardinality(Ahead(x, R))
           G == Grant(R, a)
<1>1. IsFiniteSet(R) /\ Cardinality(R) \in Nat /\ a \in Nat
  BY RequestsAreFinite, NumRequestersAssumption
<1>2. \A x \in R : rank(x) \in 0 .. Cardinality(R) - 1
  BY AheadIsRank
<1>3. G \in SUBSET R
  BY DEF Grant
<1>4. CASE Cardinality(R) <= a
  <2>1. G = R
    BY <1>1, <1>2, <1>4 DEF Grant
  <2> QED BY <1>1, <1>3, <1>4, <2>1 DEF GrantCount
<1>5. CASE ~(Cardinality(R) <= a)
  <2> DEFINE place == 0 .. a - 1
             f == [x \in G |-> rank(x)]
  <2>1. \A x \in G : x \in R /\ rank(x) \in place
    BY <1>1, <1>2 DEF Grant
  <2>2. \A x, y \in G : x # y => rank(x) # rank(y)
    BY <2>1, RanksDiffer
  <2>3. \A k \in place : \E x \in G : rank(x) = k
    <3> SUFFICES ASSUME NEW k \in place PROVE \E x \in G : rank(x) = k
      OBVIOUS
    <3>1. k \in 0 .. Cardinality(R) - 1
      BY <1>1, <1>5
    <3>2. PICK x \in R : rank(x) = k
      BY <3>1, RankIsOnto
    <3> QED BY <1>1, <3>2 DEF Grant
  <2>4. f \in Injection(G, place) /\ f \in Surjection(G, place)
    BY <2>1, <2>2, <2>3 DEF Injection, IsInjective, Surjection
  <2>5. IsFiniteSet(place) /\ Cardinality(place) = a
    <3>1. 0 \in Int /\ a - 1 \in Int
      BY <1>1
    <3>2. IsFiniteSet(place) /\ Cardinality(place) = IF 0 > a - 1 THEN 0 ELSE (a - 1) - 0 + 1
      BY <3>1, FS_Interval
    <3> QED BY <1>1, <3>2
  <2>6. Cardinality(G) = a
    BY <2>4, <2>5, FS_Injection
  <2> QED BY <1>1, <1>3, <1>5, <2>6 DEF GrantCount
<1> QED BY <1>4, <1>5

(* The requester of lowest priority is a requester.                          *)
LEMMA LowestPrioIsRequester ==
  ASSUME lowest_prio \in Requester, NEW R \in SUBSET Requester, NEW a \in 0 .. NumRequesters
  PROVE  LowestPrioNext(R, a) \in Requester
<1> DEFINE rank(x) == Cardinality(Ahead(x, R))
           G == Grant(R, a)
<1>1. CASE G = {}
  BY <1>1 DEF LowestPrioNext
<1>2. CASE G # {}
  <2> DEFINE n == GrantCount(R, a)
  <2>1. G \in SUBSET R /\ Cardinality(G) = n /\ n \in 0 .. a
    BY GrantCountIsCorrect
  <2>2. IsFiniteSet(G) /\ IsFiniteSet(R) /\ Cardinality(R) \in Nat /\ a \in Nat
    BY <2>1, RequestsAreFinite, NumRequestersAssumption
  <2>3. n # 0 /\ n \in Nat
    BY <1>2, <2>1, <2>2, FS_EmptySet
  <2>4. n <= Cardinality(R) /\ n <= a
    BY <2>2 DEF GrantCount
  <2>5. PICK r \in R : rank(r) = n - 1
    BY <2>2, <2>3, <2>4, RankIsOnto
  <2>6. r \in G
    BY <2>2, <2>3, <2>4, <2>5 DEF Grant
  <2>7. \A o \in G : rank(o) \in 0 .. n - 1
    <3> SUFFICES ASSUME NEW o \in G PROVE rank(o) \in 0 .. n - 1
      OBVIOUS
    <3>1. o \in R /\ rank(o) < a
      BY DEF Grant
    <3>2. rank(o) \in 0 .. Cardinality(R) - 1
      BY <3>1, AheadIsRank
    <3> QED BY <2>2, <2>3, <3>1, <3>2 DEF GrantCount
  <2>8. \A o \in G : Turn(o) <= Turn(r)
    <3> SUFFICES ASSUME NEW o \in G, ~(Turn(o) <= Turn(r)) PROVE FALSE
      OBVIOUS
    <3>1. o \in R
      BY <2>1
    <3>2. Turn(r) < Turn(o)
      BY <3>1, TurnIsInjective
    <3>3. rank(r) < rank(o)
      BY <3>1, <3>2, AheadIsRank
    <3> QED BY <2>3, <2>5, <2>7, <3>3
  <2> QED BY <1>2, <2>1, <2>6, <2>8 DEF LowestPrioNext
<1> QED BY <1>1, <1>2

-----------------------------------------------------------------------------

(* The constants as numbers.                                                 *)
LEMMA Constants ==
  /\ NumFlows \in Nat /\ NumFlows > 0 /\ MaxCredit \in Nat /\ Total \in Nat
  /\ SenderInitial \in Nat /\ ReceiverInitial \in Nat
  /\ Total = SenderInitial + ReceiverInitial /\ Total <= MaxCredit
  /\ CounterSize \in Nat /\ CounterSize > MaxCredit
  /\ PushCreditMaxChange \in Nat /\ MinReset \in Nat /\ MinReset > 0
  /\ RegisterPopOutputs \in BOOLEAN /\ RegisterPushOutputs \in BOOLEAN
  /\ RegisterPopOutputs \/ RegisterPushOutputs
BY CreditLoopAssumption, CounterSizeAssumption, NumRequestersAssumption DEF NumFlows, Total

(* A counter that is given no more than it can hold, and decremented by no   *)
(* more than is available, is an ordinary number.                            *)
LEMMA CounterIsExact ==
  ASSUME NEW v \in Nat, NEW i \in Nat, NEW w \in Nat, NEW d \in Nat,
         v + i <= Total, d <= v + i
  PROVE  /\ Available(v, i, w) \in 0 .. v + i
         /\ ValueNext(v, i, d) = v + i - d
<1>1. v + i \in CounterValue /\ v + i - d \in CounterValue
  BY Constants DEF CounterValue
<1>2. ValuePlusIncr(v, i) = v + i /\ Wrap(v + i - d) = v + i - d
  BY <1>1 DEF ValuePlusIncr, Wrap
<1> QED BY <1>2 DEF Available, ValueNext

(* What a cycle's inputs are.                                                *)
LEMMA InputTypes ==
  ASSUME TypeOK, NEW in \in Inputs, Legal(in)
  PROVE  /\ in.rst_s \in BOOLEAN /\ in.rst_r \in BOOLEAN /\ in.stall \in BOOLEAN
         /\ in.request \in SUBSET Flow
         /\ in.withhold_s \in Nat /\ in.withhold_r \in Nat
         /\ in.pops \in Nat /\ in.pops <= occupancy + Arriving(in)
<1>1. in.pops \in Nat /\ in.pops <= occupancy + Arriving(in)
  BY Constants, CreditLoopAssumption DEF Inputs, Legal, TypeOK
<1>2. in.withhold_s \in Withhold /\ in.withhold_r \in Withhold
  BY DEF Inputs
<1> QED BY <1>1, <1>2, CreditLoopAssumption DEF Inputs

(* How long a reset has been held.                                           *)
LEMMA HeldInNumbers ==
  ASSUME NEW held \in 0 .. MinReset, NEW rst \in BOOLEAN, MayAssign(held, rst)
  PROVE  /\ Hold(held, rst) \in 0 .. MinReset
         /\ Hold(held, rst) = 0 <=> ~rst
         /\ Hold(held, rst) >= 2 => rst /\ held >= 1
         /\ ~rst => held = 0 \/ held = MinReset
BY Constants DEF Hold, MayAssign, Least

(* The wires between the two ends: who knows of which reset, and what is on  *)
(* the wires, in terms of how long the resets have been asserted.            *)
LEMMA WiresInNumbers ==
  ASSUME IInv, NEW in \in Inputs, Legal(in), Step(in)
  PROVE  /\ EitherRstS(in) <=> in.rst_s \/ (IF RegisterPushOutputs THEN held_r > 0 ELSE in.rst_r)
         /\ EitherRstR(in) <=> in.rst_r \/ (IF RegisterPopOutputs THEN held_s > 0 ELSE in.rst_s)
         /\ PopCredit(in) = IF RegisterPushOutputs THEN push_credit
                            ELSE IF EitherRstR(in) THEN 0 ELSE Returned(in)
         /\ ~RegisterPopOutputs => pop_valid = 0
         /\ ~RegisterPushOutputs => push_credit = 0
         /\ held_s' = Hold(held_s, in.rst_s) /\ MayAssign(held_s, in.rst_s)
         /\ held_r' = Hold(held_r, in.rst_r) /\ MayAssign(held_r, in.rst_r)
<1>1. /\ EitherRstS(in) <=> in.rst_s \/ (IF RegisterPushOutputs THEN held_r > 0 ELSE in.rst_r)
      /\ EitherRstR(in) <=> in.rst_r \/ (IF RegisterPopOutputs THEN held_s > 0 ELSE in.rst_s)
  BY InputTypes, Constants
     DEF IInv, ResetsKnown, TypeOK, EitherRstS, EitherRstR, SenderInReset, ReceiverInReset
<1>2. PopCredit(in) = IF RegisterPushOutputs THEN push_credit
                      ELSE IF EitherRstR(in) THEN 0 ELSE Returned(in)
  BY DEF PopCredit, PushCreditInternal
<1> QED BY <1>1, <1>2 DEF Step, IInv, ResetsKnown

(* What the invariant leaves possible when neither end, or one end, or both  *)
(* ends are let out of reset: an end whose reset ends now has held it long   *)
(* enough for the other end to be cleared, or to be told in this very cycle. *)
LEMMA BeforeTheStep ==
  ASSUME IInv, ResetsAreLong, NEW in \in Inputs, Legal(in), Step(in)
  PROVE  /\ held_s > 0 => credit_s = SenderInitial /\ pop_valid = 0
         /\ held_r > 0 => credit_r = ReceiverInitial /\ push_credit = 0 /\ occupancy = 0
         /\ held_s > 0 /\ ~in.rst_s /\ (RegisterPopOutputs => RegisterPushOutputs)
               => credit_r = ReceiverInitial /\ push_credit = 0 /\ occupancy = 0
         /\ held_r > 0 /\ ~in.rst_r /\ (RegisterPushOutputs => RegisterPopOutputs)
               => credit_s = SenderInitial /\ pop_valid = 0
         /\ held_s = 0 /\ held_r = 0
               => credit_s + pop_valid + occupancy + credit_r + push_credit = Total
         /\ held_s = 0 => credit_s + pop_valid + push_credit <= Total
         /\ held_r = 0 => credit_r + push_credit + occupancy + pop_valid <= Total
<1>1. /\ held_s \in 0 .. MinReset /\ held_r \in 0 .. MinReset
      /\ in.rst_s \in BOOLEAN /\ in.rst_r \in BOOLEAN
  BY InputTypes DEF IInv, TypeOK
<1>2. /\ ~in.rst_s => held_s = 0 \/ held_s = MinReset
      /\ ~in.rst_r => held_r = 0 \/ held_r = MinReset
  BY <1>1, WiresInNumbers, HeldInNumbers
<1>3. /\ held_s > 0 => SenderCleared
      /\ held_r > 0 => ReceiverCleared
  BY <1>1, Constants DEF IInv, ResetsClear
<1>4. held_s > 0 /\ ~in.rst_s /\ (RegisterPopOutputs => RegisterPushOutputs) => ReceiverCleared
  BY <1>1, <1>2, Constants DEF IInv, ResetsClear, ResetsAreLong
<1>5. held_r > 0 /\ ~in.rst_r /\ (RegisterPushOutputs => RegisterPopOutputs) => SenderCleared
  BY <1>1, <1>2, Constants DEF IInv, ResetsClear, ResetsAreLong
<1> QED BY <1>3, <1>4, <1>5 DEF IInv, NoEndHasTooMany, Conservation, SenderCleared, ReceiverCleared

(* In reset nothing is sent.                                                 *)
LEMMA NothingSentInReset ==
  ASSUME NEW in, EitherRstS(in)
  PROVE  Sent(in) = 0
<1>1. PushReady(in) \cap in.request = {}
  BY DEF PushReady
<1> QED BY <1>1, FS_EmptySet DEF Sent

(* Out of reset the sender sends as many flits as it decrements, and no more *)
(* than it has credits.                                                      *)
LEMMA SendsWhatItHas ==
  ASSUME IInv, NEW in \in Inputs, Legal(in), ~EitherRstS(in),
         PopCredit(in) \in Nat, credit_s + PopCredit(in) <= Total
  PROVE  /\ Sent(in) \in 0 .. NumFlows
         /\ Sent(in) <= credit_s + PopCredit(in)
         /\ ValueNext(credit_s, PopCredit(in), Spent(in)) = credit_s + PopCredit(in) - Sent(in)
         /\ LowestPrioNext(in.request, GrantAllowed(in)) \in Flow
<1>1. credit_s \in Nat /\ in.withhold_s \in Nat /\ in.request \in SUBSET Requester
      /\ lowest_prio \in Requester
  BY InputTypes DEF IInv, TypeOK, Flow
<1>2. Available(credit_s, PopCredit(in), in.withhold_s) \in 0 .. credit_s + PopCredit(in)
  <2>1. 0 \in Nat /\ 0 <= credit_s + PopCredit(in)
    BY <1>1
  <2> QED BY <1>1, <2>1, CounterIsExact
<1>3. GrantAllowed(in) \in 0 .. NumRequesters /\ GrantAllowed(in) <= credit_s + PopCredit(in)
  BY <1>1, <1>2, Constants DEF GrantAllowed, AvailableS, Least, NumFlows
<1>4. /\ Grant(in.request, GrantAllowed(in)) \in SUBSET in.request
      /\ Cardinality(Grant(in.request, GrantAllowed(in))) = Spent(in)
      /\ Spent(in) \in 0 .. GrantAllowed(in)
  BY <1>1, <1>3, GrantCountIsCorrect DEF Spent
<1>5. PushReady(in) \cap in.request = Grant(in.request, GrantAllowed(in))
  BY <1>4 DEF PushReady
<1>6. Sent(in) = Spent(in)
  BY <1>4, <1>5 DEF Sent
<1>7. Sent(in) \in 0 .. NumFlows /\ Sent(in) <= credit_s + PopCredit(in) /\ Spent(in) \in Nat
  BY <1>1, <1>3, <1>4, <1>6, Constants DEF NumFlows
<1>8. ValueNext(credit_s, PopCredit(in), Spent(in)) = credit_s + PopCredit(in) - Sent(in)
  <2>1. Spent(in) \in Nat /\ Spent(in) <= credit_s + PopCredit(in)
    BY <1>6, <1>7
  <2>2. ValueNext(credit_s, PopCredit(in), Spent(in)) = credit_s + PopCredit(in) - Spent(in)
    BY <1>1, <2>1, CounterIsExact
  <2> QED BY <1>6, <2>2
<1>9. LowestPrioNext(in.request, GrantAllowed(in)) \in Flow
  BY <1>1, <1>3, LowestPrioIsRequester DEF Flow
<1> QED BY <1>7, <1>8, <1>9

(* A sender out of reset has room for the credits on the wire.               *)
LEMMA RegisteredCreditsFit ==
  ASSUME IInv, ResetsAreLong, NEW in \in Inputs, Legal(in), Step(in),
         RegisterPushOutputs, ~EitherRstS(in)
  PROVE  PopCredit(in) = push_credit /\ credit_s + push_credit <= Total
<1>1. /\ credit_s \in Nat /\ push_credit \in Nat /\ pop_valid \in Nat
      /\ held_s \in Nat /\ in.rst_s \in BOOLEAN
  BY InputTypes DEF IInv, TypeOK
<1>2. PopCredit(in) = push_credit /\ ~in.rst_s
  BY WiresInNumbers
<1>3. CASE held_s = 0
  BY <1>1, <1>2, <1>3, BeforeTheStep, Constants
<1>4. CASE held_s > 0
  BY <1>1, <1>2, <1>4, BeforeTheStep, Constants
<1> QED BY <1>1, <1>3, <1>4

(* The receiver's counter has room for the entries that leave the buffer,    *)
(* those included that arrive in this cycle and go over the bypass.          *)
LEMMA PopsAreCovered ==
  ASSUME IInv, ResetsAreLong, NEW in \in Inputs, Legal(in), Step(in)
  PROVE  /\ EitherRstR(in) => in.pops <= occupancy
         /\ ~EitherRstR(in) =>
               in.pops <= occupancy + (IF RegisterPopOutputs THEN pop_valid ELSE Sent(in))
         /\ credit_r + in.pops <= Total
<1>1. /\ credit_s \in Nat /\ credit_r \in Nat /\ push_credit \in Nat /\ pop_valid \in Nat
      /\ occupancy \in Nat /\ held_s \in Nat /\ held_r \in Nat
      /\ in.pops \in Nat /\ in.pops <= occupancy + Arriving(in)
      /\ in.rst_s \in BOOLEAN /\ in.rst_r \in BOOLEAN
  BY InputTypes DEF IInv, TypeOK
<1>2. Arriving(in) = IF EitherRstR(in) THEN 0
                     ELSE IF RegisterPopOutputs THEN pop_valid ELSE Sent(in)
  BY DEF Arriving, PushValid
<1>3. CASE EitherRstR(in)
  <2>1. in.pops <= occupancy
    BY <1>1, <1>2, <1>3
  <2>2. credit_r + in.pops <= Total
    <3>1. CASE held_r = 0
      BY <1>1, <2>1, <3>1, BeforeTheStep, Constants
    <3>2. CASE held_r > 0
      BY <1>1, <2>1, <3>2, BeforeTheStep, Constants
    <3> QED BY <1>1, <3>1, <3>2
  <2> QED BY <1>3, <2>1, <2>2
<1>4. CASE ~EitherRstR(in) /\ RegisterPopOutputs
  <2>1. in.pops <= occupancy + pop_valid /\ ~in.rst_r
    BY <1>1, <1>2, <1>4, WiresInNumbers
  <2>2. credit_r + in.pops <= Total
    <3>1. CASE held_r = 0
      BY <1>1, <2>1, <3>1, BeforeTheStep, Constants
    <3>2. CASE held_r > 0
      BY <1>1, <1>4, <2>1, <3>2, BeforeTheStep, Constants
    <3> QED BY <1>1, <3>1, <3>2
  <2> QED BY <1>4, <2>1, <2>2
<1>5. CASE ~EitherRstR(in) /\ ~RegisterPopOutputs
  <2>1. in.pops <= occupancy + Sent(in) /\ ~in.rst_r /\ ~in.rst_s /\ RegisterPushOutputs
    BY <1>1, <1>2, <1>5, WiresInNumbers, Constants
  <2>2. EitherRstS(in) <=> held_r > 0
    BY <1>1, <2>1, WiresInNumbers
  <2>3. credit_r + in.pops <= Total
    <3>1. CASE EitherRstS(in)
      <4>1. Sent(in) = 0 /\ credit_r = ReceiverInitial /\ occupancy = 0
        BY <2>2, <3>1, NothingSentInReset, BeforeTheStep
      <4> QED BY <1>1, <2>1, <4>1, Constants
    <3>2. CASE ~EitherRstS(in)
      <4>1. PopCredit(in) = push_credit /\ credit_s + push_credit <= Total
        BY <2>1, <3>2, RegisteredCreditsFit
      <4>2. Sent(in) \in Nat /\ Sent(in) <= credit_s + push_credit
        BY <1>1, <3>2, <4>1, SendsWhatItHas, Constants
      <4>3. held_r = 0
        BY <1>1, <2>2, <3>2
      <4>4. credit_s + push_credit + occupancy + credit_r <= Total
        <5>1. CASE held_s = 0
          BY <1>1, <4>3, <5>1, BeforeTheStep, Constants
        <5>2. CASE held_s > 0
          BY <1>1, <1>5, <2>1, <5>2, BeforeTheStep, Constants
        <5> QED BY <1>1, <5>1, <5>2
      <4> QED BY <1>1, <2>1, <4>2, <4>4, Constants
    <3> QED BY <3>1, <3>2
  <2> QED BY <1>5, <2>1, <2>3
<1> QED BY <1>3, <1>4, <1>5

(* The receiver returns credits it has.                                      *)
LEMMA ReceiverWires ==
  ASSUME IInv, ResetsAreLong, NEW in \in Inputs, Legal(in), Step(in)
  PROVE  /\ Returned(in) \in 0 .. PushCreditMaxChange
         /\ Returned(in) <= credit_r + in.pops
         /\ credit_r + in.pops <= Total
         /\ ValueNext(credit_r, in.pops, Returned(in)) = credit_r + in.pops - Returned(in)
<1>1. credit_r \in Nat /\ in.pops \in Nat /\ in.withhold_r \in Nat
  BY InputTypes DEF IInv, TypeOK
<1>2. credit_r + in.pops <= Total
  BY PopsAreCovered
<1>3. Available(credit_r, in.pops, in.withhold_r) \in 0 .. credit_r + in.pops
  <2>1. 0 \in Nat /\ 0 <= credit_r + in.pops
    BY <1>1
  <2> QED BY <1>1, <1>2, <2>1, CounterIsExact
<1>4. Returned(in) \in 0 .. PushCreditMaxChange /\ Returned(in) <= credit_r + in.pops
  BY <1>1, <1>3, Constants DEF Returned, AvailableR, Least
<1>5. ValueNext(credit_r, in.pops, Returned(in)) = credit_r + in.pops - Returned(in)
  <2>1. Returned(in) \in Nat
    BY <1>4
  <2> QED BY <1>1, <1>2, <1>4, <2>1, CounterIsExact
<1> QED BY <1>2, <1>4, <1>5

(* A sender out of reset has room for the credits that arrive.               *)
LEMMA CreditsFit ==
  ASSUME IInv, ResetsAreLong, NEW in \in Inputs, Legal(in), Step(in), ~EitherRstS(in)
  PROVE  PopCredit(in) \in Nat /\ credit_s + PopCredit(in) <= Total
<1>1. /\ credit_s \in Nat /\ credit_r \in Nat /\ push_credit \in Nat /\ pop_valid \in Nat
      /\ occupancy \in Nat /\ held_r \in Nat /\ held_s \in Nat
      /\ in.pops \in Nat /\ in.rst_s \in BOOLEAN /\ in.rst_r \in BOOLEAN
  BY InputTypes DEF IInv, TypeOK
<1>2. CASE RegisterPushOutputs
  BY <1>1, <1>2, RegisteredCreditsFit
<1>3. CASE ~RegisterPushOutputs
  <2>1. /\ RegisterPopOutputs /\ ~in.rst_s /\ ~in.rst_r /\ push_credit = 0
        /\ PopCredit(in) = IF held_s > 0 THEN 0 ELSE Returned(in)
    BY <1>1, <1>3, WiresInNumbers, Constants
  <2>2. Returned(in) \in Nat /\ Returned(in) <= credit_r + in.pops
    BY ReceiverWires, Constants
  <2>3. held_s = 0 => in.pops <= occupancy + pop_valid
    BY <1>1, <2>1, WiresInNumbers, PopsAreCovered
  <2>4. CASE held_s > 0
    BY <1>1, <2>1, <2>4, BeforeTheStep, Constants
  <2>5. CASE held_s = 0 /\ held_r = 0
    BY <1>1, <2>1, <2>2, <2>3, <2>5, BeforeTheStep, Constants
  <2>6. CASE held_s = 0 /\ held_r > 0
    BY <1>1, <1>3, <2>1, <2>2, <2>3, <2>6, BeforeTheStep, Constants
  <2> QED BY <1>1, <2>4, <2>5, <2>6
<1> QED BY <1>2, <1>3, Constants

(* One clock cycle in numbers: what is sent, what is returned and what       *)
(* arrives is all that moves.                                                *)
LEMMA StepInNumbers ==
  ASSUME IInv, ResetsAreLong, NEW in \in Inputs, Legal(in), Step(in)
  PROVE  /\ Sent(in) \in 0 .. NumFlows /\ (EitherRstS(in) => Sent(in) = 0)
         /\ Returned(in) \in 0 .. PushCreditMaxChange
         /\ Returned(in) <= credit_r + in.pops /\ credit_r + in.pops <= Total
         /\ EitherRstR(in) => in.pops <= occupancy
         /\ ~EitherRstR(in) =>
               in.pops <= occupancy + (IF RegisterPopOutputs THEN pop_valid ELSE Sent(in))
         /\ EitherRstS(in) => credit_s' = SenderInitial
         /\ ~EitherRstS(in) =>
               /\ PopCredit(in) \in Nat /\ credit_s + PopCredit(in) <= Total
               /\ Sent(in) <= credit_s + PopCredit(in)
               /\ credit_s' = credit_s + PopCredit(in) - Sent(in)
         /\ pop_valid' = IF RegisterPopOutputs /\ ~in.rst_s THEN Sent(in) ELSE 0
         /\ credit_r' = IF EitherRstR(in) THEN ReceiverInitial
                        ELSE credit_r + in.pops - Returned(in)
         /\ push_credit' = IF RegisterPushOutputs /\ ~EitherRstR(in) THEN Returned(in) ELSE 0
         /\ occupancy' = IF EitherRstR(in) THEN 0
                         ELSE occupancy + (IF RegisterPopOutputs THEN pop_valid ELSE Sent(in))
                                - in.pops
<1>1. SenderStep(in) /\ ReceiverStep(in) /\ BufferStep(in)
  BY DEF Step
<1>2. /\ Sent(in) \in 0 .. NumFlows /\ (EitherRstS(in) => Sent(in) = 0)
      /\ ~EitherRstS(in) =>
               /\ PopCredit(in) \in Nat /\ credit_s + PopCredit(in) <= Total
               /\ Sent(in) <= credit_s + PopCredit(in)
               /\ ValueNext(credit_s, PopCredit(in), Spent(in))
                     = credit_s + PopCredit(in) - Sent(in)
  <2>1. CASE EitherRstS(in)
    BY <2>1, NothingSentInReset, Constants
  <2>2. CASE ~EitherRstS(in)
    BY <2>2, CreditsFit, SendsWhatItHas
  <2> QED BY <2>1, <2>2
<1>3. /\ Returned(in) \in 0 .. PushCreditMaxChange /\ Returned(in) <= credit_r + in.pops
      /\ credit_r + in.pops <= Total
      /\ ValueNext(credit_r, in.pops, Returned(in)) = credit_r + in.pops - Returned(in)
  BY ReceiverWires
<1>4. push_credit' = IF RegisterPushOutputs /\ ~EitherRstR(in) THEN Returned(in) ELSE 0
  BY <1>1 DEF ReceiverStep, PushCreditInternal, EitherRstR
<1>5. occupancy' = IF EitherRstR(in) THEN 0
                         ELSE occupancy + (IF RegisterPopOutputs THEN pop_valid ELSE Sent(in))
                                - in.pops
  BY <1>1 DEF BufferStep, Arriving, PushValid
<1> QED BY <1>1, <1>2, <1>3, <1>4, <1>5, PopsAreCovered DEF SenderStep, ReceiverStep

LEMMA InitIsInductive ==
  Init => IInv
<1> SUFFICES ASSUME Init PROVE IInv
  OBVIOUS
<1>1. LowestPrioInit \in Flow
  BY Constants, NumRequestersAssumption DEF LowestPrioInit, Flow, Requester
<1>2. TypeOK
  BY <1>1, Constants DEF Init, TypeOK
<1>3. ResetsKnown /\ ResetsClear /\ NoEndHasTooMany /\ Conservation
  BY Constants DEF Init, ResetsKnown, ResetsClear, SenderCleared, ReceiverCleared,
                   NoEndHasTooMany, Conservation
<1> QED BY <1>2, <1>3 DEF IInv

(* A step preserves the invariant, one conjunct at a time.                   *)
LEMMA TypeStep ==
  ASSUME IInv, ResetsAreLong, NEW in \in Inputs, Legal(in), Step(in)
  PROVE  TypeOK'
<1>1. /\ credit_s \in Nat /\ credit_r \in Nat /\ push_credit \in Nat /\ pop_valid \in 0 .. NumFlows
      /\ occupancy \in Nat /\ held_s \in 0 .. MinReset /\ held_r \in 0 .. MinReset
      /\ in.pops \in Nat
      /\ in.rst_s \in BOOLEAN /\ in.rst_r \in BOOLEAN /\ in.request \in SUBSET Flow
  BY InputTypes DEF IInv, TypeOK
<1>2. credit_s' \in 0 .. MaxCredit /\ credit_r' \in 0 .. MaxCredit
  <2>1. credit_s' \in 0 .. MaxCredit
    BY <1>1, StepInNumbers, Constants
  <2>2. credit_r' \in 0 .. MaxCredit
    BY <1>1, StepInNumbers, Constants
  <2> QED BY <2>1, <2>2
<1>3. lowest_prio' \in Flow
  <2>1. LowestPrioInit \in Flow
    BY Constants, NumRequestersAssumption DEF LowestPrioInit, Flow, Requester
  <2>2. SenderStep(in)
    BY DEF Step
  <2>3. ~EitherRstS(in) => LowestPrioNext(in.request, GrantAllowed(in)) \in Flow
    BY CreditsFit, SendsWhatItHas
  <2> QED BY <2>1, <2>2, <2>3 DEF SenderStep
<1>4. pop_valid' \in 0 .. NumFlows /\ push_credit' \in 0 .. PushCreditMaxChange
  BY StepInNumbers, Constants
<1>5. pop_sender_in_reset' \in BOOLEAN /\ push_receiver_in_reset' \in BOOLEAN
  BY DEF Step, SenderStep, ReceiverStep
<1>6. occupancy' \in Nat
  BY <1>1, StepInNumbers, Constants
<1>7. waiting' \subseteq Flow
  BY <1>1 DEF Step
<1>8. held_s' \in 0 .. MinReset /\ held_r' \in 0 .. MinReset
  BY <1>1, WiresInNumbers, HeldInNumbers
<1> QED BY <1>2, <1>3, <1>4, <1>5, <1>6, <1>7, <1>8 DEF TypeOK

LEMMA ResetsKnownStep ==
  ASSUME IInv, ResetsAreLong, NEW in \in Inputs, Legal(in), Step(in)
  PROVE  ResetsKnown'
<1>1. /\ held_s \in 0 .. MinReset /\ held_r \in 0 .. MinReset
      /\ in.rst_s \in BOOLEAN /\ in.rst_r \in BOOLEAN
  BY InputTypes DEF IInv, TypeOK
<1>2. (held_s' = 0 <=> ~in.rst_s) /\ (held_r' = 0 <=> ~in.rst_r)
  BY <1>1, WiresInNumbers, HeldInNumbers
<1>3. held_s' \in 0 .. MinReset /\ held_r' \in 0 .. MinReset
  BY TypeStep DEF TypeOK
<1>4. /\ pop_sender_in_reset' = (RegisterPopOutputs /\ in.rst_s)
      /\ push_receiver_in_reset' = (RegisterPushOutputs /\ in.rst_r)
  BY DEF Step, SenderStep, ReceiverStep
<1>5. (~RegisterPopOutputs => pop_valid' = 0) /\ (~RegisterPushOutputs => push_credit' = 0)
  BY StepInNumbers
<1> QED BY <1>1, <1>2, <1>3, <1>4, <1>5, Constants DEF ResetsKnown

LEMMA ResetsClearStep ==
  ASSUME IInv, ResetsAreLong, NEW in \in Inputs, Legal(in), Step(in)
  PROVE  ResetsClear'
<1>1. /\ held_s \in 0 .. MinReset /\ held_r \in 0 .. MinReset
      /\ in.rst_s \in BOOLEAN /\ in.rst_r \in BOOLEAN
  BY InputTypes DEF IInv, TypeOK
<1>2. /\ held_s' \in 0 .. MinReset /\ held_r' \in 0 .. MinReset
      /\ held_s' = 0 <=> ~in.rst_s
      /\ held_r' = 0 <=> ~in.rst_r
      /\ held_s' >= 2 => in.rst_s /\ held_s >= 1
      /\ held_r' >= 2 => in.rst_r /\ held_r >= 1
  BY <1>1, WiresInNumbers, HeldInNumbers
<1>3. EitherRstS(in) => SenderCleared'
  BY StepInNumbers DEF SenderCleared
<1>4. EitherRstR(in) => ReceiverCleared'
  BY StepInNumbers DEF ReceiverCleared
<1>5. held_s' >= 1 => SenderCleared'
  BY <1>1, <1>2, <1>3, WiresInNumbers
<1>6. held_r' >= 1 => ReceiverCleared'
  BY <1>1, <1>2, <1>4, WiresInNumbers
<1>7. held_s' >= (IF RegisterPopOutputs THEN 2 ELSE 1) => ReceiverCleared'
  BY <1>1, <1>2, <1>4, WiresInNumbers, Constants
<1>8. held_r' >= (IF RegisterPushOutputs THEN 2 ELSE 1) => SenderCleared'
  BY <1>1, <1>2, <1>3, WiresInNumbers, Constants
<1> QED BY <1>5, <1>6, <1>7, <1>8 DEF ResetsClear

LEMMA NoEndHasTooManyStep ==
  ASSUME IInv, ResetsAreLong, NEW in \in Inputs, Legal(in), Step(in)
  PROVE  NoEndHasTooMany'
<1> DEFINE Ret == Returned(in)
           Snt == Sent(in)
           PC == PopCredit(in)
<1>1. /\ credit_s \in Nat /\ credit_r \in Nat /\ push_credit \in Nat /\ pop_valid \in Nat
      /\ occupancy \in Nat /\ held_s \in Nat /\ held_r \in Nat
      /\ in.pops \in Nat
      /\ in.rst_s \in BOOLEAN /\ in.rst_r \in BOOLEAN
      /\ Ret \in Nat /\ Snt \in Nat
  BY InputTypes, StepInNumbers, Constants DEF IInv, TypeOK
<1>2. (held_s' = 0 => ~in.rst_s) /\ (held_r' = 0 => ~in.rst_r)
  BY WiresInNumbers, HeldInNumbers, InputTypes DEF IInv, TypeOK
<1>3. ASSUME ~in.rst_s PROVE credit_s' + pop_valid' + push_credit' <= Total
  <2>1. CASE EitherRstS(in)
    <3>1. credit_s' = SenderInitial /\ pop_valid' = 0
      BY <2>1, StepInNumbers
    <3>2. push_credit' = 0 \/ (push_credit' = Ret /\ ~in.rst_r /\ RegisterPushOutputs)
      BY <1>1, StepInNumbers, WiresInNumbers
    <3>3. RegisterPushOutputs /\ ~in.rst_r => Ret <= ReceiverInitial
      <4> SUFFICES ASSUME RegisterPushOutputs, ~in.rst_r PROVE Ret <= ReceiverInitial
        OBVIOUS
      <4>1. held_r > 0 /\ credit_r = ReceiverInitial /\ occupancy = 0
        BY <1>3, <2>1, WiresInNumbers, BeforeTheStep
      <4>2. RegisterPopOutputs => pop_valid = 0
        BY <4>1, BeforeTheStep
      <4>3. in.pops <= 0
        BY <1>1, <2>1, <4>1, <4>2, StepInNumbers
      <4> QED BY <1>1, <4>1, <4>3, StepInNumbers, Constants
    <3> QED BY <1>1, <3>1, <3>2, <3>3, Constants
  <2>2. CASE ~EitherRstS(in)
    <3>1. /\ PC \in Nat /\ credit_s + PC <= Total /\ Snt <= credit_s + PC
          /\ credit_s' = credit_s + PC - Snt
          /\ pop_valid' = Snt \/ pop_valid' = 0
          /\ ~RegisterPopOutputs => pop_valid' = 0
      BY <2>2, StepInNumbers
    <3>2. CASE RegisterPushOutputs /\ ~EitherRstR(in)
      <4>1. PC = push_credit /\ push_credit' = Ret /\ held_r = 0
            /\ Ret <= credit_r + in.pops
            /\ in.pops <= occupancy + (IF RegisterPopOutputs THEN pop_valid ELSE Snt)
        BY <1>1, <2>2, <3>2, WiresInNumbers, StepInNumbers
      <4>2. credit_s + push_credit + credit_r + occupancy + pop_valid <= Total
        <5>1. CASE held_s = 0
          BY <1>1, <4>1, <5>1, BeforeTheStep, Constants
        <5>2. CASE held_s > 0
          BY <1>1, <1>3, <3>2, <4>1, <5>2, BeforeTheStep, Constants
        <5> QED BY <1>1, <5>1, <5>2
      <4> QED BY <1>1, <3>1, <4>1, <4>2, Constants
    <3>3. CASE ~(RegisterPushOutputs /\ ~EitherRstR(in))
      <4>1. push_credit' = 0
        BY <3>3, StepInNumbers
      <4> QED BY <1>1, <3>1, <4>1, Constants
    <3> QED BY <3>2, <3>3
  <2> QED BY <2>1, <2>2
<1>4. ASSUME ~in.rst_r PROVE credit_r' + push_credit' + occupancy' + pop_valid' <= Total
  <2>1. CASE EitherRstR(in)
    <3>1. credit_r' = ReceiverInitial /\ push_credit' = 0 /\ occupancy' = 0
      BY <2>1, StepInNumbers
    <3>2. pop_valid' = 0 \/ (pop_valid' = Snt /\ ~in.rst_s /\ RegisterPopOutputs)
      BY <1>1, StepInNumbers
    <3>3. RegisterPopOutputs /\ ~in.rst_s => Snt <= SenderInitial
      <4> SUFFICES ASSUME RegisterPopOutputs, ~in.rst_s PROVE Snt <= SenderInitial
        OBVIOUS
      <4>1. held_s > 0 /\ credit_s = SenderInitial
        BY <1>4, <2>1, WiresInNumbers, BeforeTheStep
      <4>2. ~EitherRstS(in) => PC = 0
        BY <1>1, <2>1, <4>1, WiresInNumbers, BeforeTheStep
      <4> QED BY <1>1, <4>1, <4>2, StepInNumbers, Constants
    <3> QED BY <1>1, <3>1, <3>2, <3>3, Constants
  <2>2. CASE ~EitherRstR(in)
    <3>1. /\ credit_r' = credit_r + in.pops - Ret /\ Ret <= credit_r + in.pops
          /\ push_credit' = IF RegisterPushOutputs THEN Ret ELSE 0
          /\ occupancy' = occupancy + (IF RegisterPopOutputs THEN pop_valid ELSE Snt) - in.pops
          /\ pop_valid' <= IF RegisterPopOutputs THEN Snt ELSE 0
          /\ ~RegisterPopOutputs => pop_valid = 0
      BY <1>1, <2>2, StepInNumbers, WiresInNumbers
    <3>2. pop_valid' \in Nat
      BY <1>1, StepInNumbers
    <3>3. credit_r + occupancy + pop_valid + Snt
             <= Total + (IF RegisterPushOutputs THEN 0 ELSE Ret)
      <4>1. CASE EitherRstS(in)
        <5>1. Snt = 0
          BY <4>1, StepInNumbers
        <5>2. CASE held_r = 0
          BY <1>1, <5>1, <5>2, BeforeTheStep, Constants
        <5>3. CASE held_r > 0
          <6>1. CASE RegisterPushOutputs => RegisterPopOutputs
            BY <1>1, <1>4, <5>1, <5>3, <6>1, BeforeTheStep, Constants
          <6>2. CASE ~(RegisterPushOutputs => RegisterPopOutputs)
            BY <1>1, <3>1, <5>1, <5>3, <6>2, BeforeTheStep, Constants
          <6> QED BY <6>1, <6>2
        <5> QED BY <1>1, <5>2, <5>3
      <4>2. CASE ~EitherRstS(in)
        <5>1. Snt <= credit_s + PC /\ PC = (IF RegisterPushOutputs THEN push_credit ELSE Ret)
          BY <2>2, <4>2, StepInNumbers, WiresInNumbers
        <5>2. credit_r + occupancy + pop_valid + credit_s + push_credit <= Total
          <6>1. CASE held_r = 0 /\ held_s = 0
            BY <1>1, <6>1, BeforeTheStep, Constants
          <6>2. CASE held_r > 0
            <7>1. ~RegisterPushOutputs /\ RegisterPopOutputs
              BY <4>2, <6>2, WiresInNumbers, Constants
            <7> QED BY <1>1, <1>4, <6>2, <7>1, BeforeTheStep, Constants
          <6>3. CASE held_s > 0
            <7>1. ~RegisterPopOutputs /\ RegisterPushOutputs /\ ~in.rst_s
              BY <1>1, <2>2, <4>2, <6>3, WiresInNumbers, Constants
            <7> QED BY <1>1, <6>3, <7>1, BeforeTheStep, Constants
          <6> QED BY <1>1, <6>1, <6>2, <6>3
        <5> QED BY <1>1, <3>1, <5>1, <5>2, WiresInNumbers, Constants
      <4> QED BY <4>1, <4>2
    <3> QED BY <1>1, <3>1, <3>2, <3>3, Constants
  <2> QED BY <2>1, <2>2
<1> QED BY <1>2, <1>3, <1>4 DEF NoEndHasTooMany

LEMMA ConservationStep ==
  ASSUME IInv, ResetsAreLong, NEW in \in Inputs, Legal(in), Step(in)
  PROVE  Conservation'
<1> DEFINE Ret == Returned(in)
           Snt == Sent(in)
           PC == PopCredit(in)
<1>1. /\ credit_s \in Nat /\ credit_r \in Nat /\ push_credit \in Nat /\ pop_valid \in Nat
      /\ occupancy \in Nat /\ held_s \in Nat /\ held_r \in Nat
      /\ in.pops \in Nat
      /\ in.rst_s \in BOOLEAN /\ in.rst_r \in BOOLEAN
      /\ Ret \in Nat /\ Snt \in Nat
  BY InputTypes, StepInNumbers, Constants DEF IInv, TypeOK
<1>2. (held_s' = 0 => ~in.rst_s) /\ (held_r' = 0 => ~in.rst_r)
  BY WiresInNumbers, HeldInNumbers, InputTypes DEF IInv, TypeOK
<1>3. ASSUME ~in.rst_s, ~in.rst_r
      PROVE credit_s' + pop_valid' + occupancy' + credit_r' + push_credit' = Total
  <2>1. /\ EitherRstS(in) <=> RegisterPushOutputs /\ held_r > 0
        /\ EitherRstR(in) <=> RegisterPopOutputs /\ held_s > 0
    BY <1>1, <1>3, WiresInNumbers
  <2>2. pop_valid' = IF RegisterPopOutputs THEN Snt ELSE 0
    BY <1>3, StepInNumbers
  <2>3. CASE EitherRstS(in) /\ EitherRstR(in)
    BY <1>1, <2>2, <2>3, StepInNumbers, Constants
  <2>4. CASE EitherRstS(in) /\ ~EitherRstR(in)
    <3>1. credit_s' = SenderInitial /\ Snt = 0 /\ pop_valid' = 0
      BY <2>2, <2>4, StepInNumbers
    <3>2. /\ credit_r = ReceiverInitial /\ occupancy = 0
          /\ ~RegisterPopOutputs => pop_valid = 0
          /\ RegisterPopOutputs => pop_valid = 0
      BY <1>1, <1>3, <2>1, <2>4, BeforeTheStep, WiresInNumbers
    <3>3. /\ credit_r' = credit_r + in.pops - Ret /\ push_credit' = Ret
          /\ occupancy' = occupancy + (IF RegisterPopOutputs THEN pop_valid ELSE Snt) - in.pops
      BY <2>1, <2>4, StepInNumbers
    <3> QED BY <1>1, <3>1, <3>2, <3>3, Constants
  <2>5. CASE ~EitherRstS(in) /\ EitherRstR(in)
    <3>1. credit_r' = ReceiverInitial /\ push_credit' = 0 /\ occupancy' = 0
      BY <2>5, StepInNumbers
    <3>2. credit_s = SenderInitial /\ RegisterPopOutputs /\ (RegisterPushOutputs => push_credit = 0)
      BY <1>1, <1>3, <2>1, <2>5, BeforeTheStep
    <3>3. PC = 0
      BY <2>5, <3>2, WiresInNumbers
    <3>4. credit_s' = credit_s + PC - Snt /\ pop_valid' = Snt
      BY <2>2, <2>5, <3>2, StepInNumbers
    <3> QED BY <1>1, <3>1, <3>2, <3>3, <3>4, Constants
  <2>6. CASE ~EitherRstS(in) /\ ~EitherRstR(in)
    <3>1. /\ PC = (IF RegisterPushOutputs THEN push_credit ELSE Ret)
          /\ credit_s' = credit_s + PC - Snt
          /\ credit_r' = credit_r + in.pops - Ret
          /\ push_credit' = IF RegisterPushOutputs THEN Ret ELSE 0
          /\ occupancy' = occupancy + (IF RegisterPopOutputs THEN pop_valid ELSE Snt) - in.pops
          /\ ~RegisterPopOutputs => pop_valid = 0
          /\ ~RegisterPushOutputs => push_credit = 0
      BY <2>6, StepInNumbers, WiresInNumbers
    <3>2. credit_s + pop_valid + occupancy + credit_r + push_credit = Total
      <4>1. CASE held_s = 0 /\ held_r = 0
        BY <4>1, BeforeTheStep
      <4>2. CASE held_s > 0
        <5>1. ~RegisterPopOutputs /\ RegisterPushOutputs
          BY <2>1, <2>6, <4>2, Constants
        <5> QED BY <1>1, <1>3, <4>2, <5>1, BeforeTheStep, Constants
      <4>3. CASE held_r > 0
        <5>1. RegisterPopOutputs /\ ~RegisterPushOutputs
          BY <2>1, <2>6, <4>3, Constants
        <5> QED BY <1>1, <1>3, <4>3, <5>1, BeforeTheStep, Constants
      <4> QED BY <1>1, <4>1, <4>2, <4>3
    <3>3. credit_s' + pop_valid' + occupancy'
             = credit_s + pop_valid + occupancy + PC - in.pops
      BY <1>1, <2>2, <3>1, Constants
    <3>4. credit_r' + push_credit' + PC = credit_r + push_credit + in.pops
      BY <1>1, <3>1, Constants
    <3>5. PC \in Nat /\ credit_s' + pop_valid' + occupancy' \in Int
          /\ credit_r' \in Int /\ push_credit' \in Int
      BY <1>1, <2>2, <3>1, Constants
    <3> QED BY <1>1, <3>2, <3>3, <3>4, <3>5
  <2> QED BY <2>3, <2>4, <2>5, <2>6
<1> QED BY <1>2, <1>3 DEF Conservation

LEMMA Inductive ==
  ASSUME IInv, ResetsAreLong, [Next]_vars
  PROVE  IInv'
<1>1. ASSUME NEW in \in Inputs, Legal(in), Step(in) PROVE IInv'
  BY <1>1, TypeStep, ResetsKnownStep, ResetsClearStep, NoEndHasTooManyStep, ConservationStep
     DEF IInv
<1>2. CASE Operate
  BY <1>1, <1>2 DEF Operate, Cycle
<1>3. CASE ResetSender
  BY <1>1, <1>3 DEF ResetSender, Cycle
<1>4. CASE ResetReceiver
  BY <1>1, <1>4 DEF ResetReceiver, Cycle
<1>5. CASE ResetBoth
  BY <1>1, <1>5 DEF ResetBoth, Cycle
<1>6. CASE UNCHANGED vars
  <2>1. UNCHANGED <<credit_s, lowest_prio, pop_valid, pop_sender_in_reset, credit_r,
                    push_credit, push_receiver_in_reset, occupancy, waiting, held_s, held_r>>
    BY <1>6 DEF vars, sender, receiver
  <2>2. TypeOK' /\ ResetsKnown'
    BY <2>1 DEF IInv, TypeOK, ResetsKnown
  <2>3. ResetsClear' /\ NoEndHasTooMany' /\ Conservation'
    BY <2>1 DEF IInv, ResetsClear, SenderCleared, ReceiverCleared, NoEndHasTooMany, Conservation
  <2> QED BY <2>2, <2>3 DEF IInv
<1> QED BY <1>2, <1>3, <1>4, <1>5, <1>6 DEF Next

(* The inductive invariant: conservation alone is silent about the cycles in *)
(* which an end is in reset, and it is what the ends hold then, and what     *)
(* each knows of the other, that makes the credits add up afterwards.        *)
THEOREM Invariance ==
  ASSUME ResetsAreLong
  PROVE  Spec => []IInv
<1>1. IInv /\ [Next]_vars => IInv'
  BY Inductive
<1> QED BY <1>1, InitIsInductive, PTL DEF Spec

(* The counters, the wires and the buffer stay in their ranges: no counter   *)
(* of credits wraps, whatever the resets (br_credit_counter).                     *)
THEOREM TypeCorrect ==
  ASSUME ResetsAreLong
  PROVE  Spec => []TypeOK
<1>1. IInv => TypeOK
  BY DEF IInv
<1> QED BY <1>1, Invariance, PTL

(* Credits are conserved: none is lost or made by any sequence of flits,     *)
(* returns, stalls and independent resets of the two ends.                   *)
THEOREM CreditsAreConserved ==
  ASSUME ResetsAreLong
  PROVE  Spec => []Conservation
<1>1. IInv => Conservation
  BY DEF IInv
<1> QED BY <1>1, Invariance, PTL

(* The receiver's buffer is never pushed beyond its depth (no_push_overflow_a *)
(* of br_credit_receiver), also while only one end is in reset.              *)
THEOREM BufferNeverOverflows ==
  ASSUME ResetsAreLong
  PROVE  Spec => []NoPushOverflow
<1>1. IInv => NoPushOverflow
  BY Constants DEF IInv, TypeOK, NoEndHasTooMany, NoPushOverflow
<1> QED BY <1>1, Invariance, PTL

=============================================================================
