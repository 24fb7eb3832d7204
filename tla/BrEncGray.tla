------------------------------ MODULE BrEncGray ------------------------------
(***************************************************************************)
(* br_enc_bin2gray and br_enc_gray2bin.  A word of CountWidth bits is the    *)
(* set of its bits that are 1.                                              *)
(***************************************************************************)
EXTENDS Integers, FiniteSets

CONSTANT CountWidth

ASSUME CountWidthAssumption == CountWidth \in Nat \ {0}

Bit == 0 .. CountWidth - 1

Power2[i \in Nat] == IF i = 0 THEN 1 ELSE 2 * Power2[i - 1]

\* The bits of a number and the number of the bits.
Bits(n) == {i \in Bit : (n \div Power2[i]) % 2 = 1}
Number(w) == CHOOSE n \in 0 .. Power2[CountWidth] - 1 : Bits(n) = w

\* (mutant) The count crosses the clock domains in binary.
MutBin2Gray(n) == Bits(n)

Bin2Gray(n) == {i \in Bit : (i \in Bits(n)) # (i + 1 \in Bits(n))}

\* (mutant) The count is used as it came.
MutGray2Bin(w) == Number(w)

Gray2Bin(w) == Number({i \in Bit : Cardinality({j \in w : j >= i}) % 2 = 1})

(* What a synchronizer of one flop chain per bit may sample while the word   *)
(* changes from v to w: each bit old or new.                                 *)
Sampled(v, w) == {s \in SUBSET (v \cup w) : v \cap w \subseteq s}
=============================================================================
