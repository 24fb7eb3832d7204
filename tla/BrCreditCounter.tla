--------------------------- MODULE BrCreditCounter ---------------------------
(***************************************************************************)
(* br_credit_counter: a counter of credits that can be incremented and      *)
(* decremented in one cycle.  A credit that arrives can be spent at once;   *)
(* withheld credits cannot be spent.  The register holds one of CounterSize *)
(* values and wraps silently past them.                                     *)
(***************************************************************************)
EXTENDS Integers

CONSTANT CounterSize   \* 2 ** $clog2(MaxCredit + 1)

ASSUME CounterSizeAssumption == CounterSize \in Nat \ {0}

CounterValue == 0 .. CounterSize - 1

Wrap(x) == IF x \in CounterValue THEN x ELSE x % CounterSize

ValuePlusIncr(value, incr) == Wrap(value + incr)

Available(value, incr, withhold) ==
    IF ValuePlusIncr(value, incr) > withhold
    THEN ValuePlusIncr(value, incr) - withhold ELSE 0

\* value after the cycle; decr is what was decremented under decr_ready.
ValueNext(value, incr, decr) == Wrap(ValuePlusIncr(value, incr) - decr)
=============================================================================
