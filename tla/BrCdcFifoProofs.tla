---------------------------- MODULE BrCdcFifoProofs ----------------------------
(***************************************************************************)
(* Theorems about BrCdcFifo for every depth, every number of stages between  *)
(* the clocks and every pattern of resets that are long enough.             *)
(***************************************************************************)
EXTENDS BrCdcFifo, FiniteSetTheorems, Sequences, TLAPS

(* A set of natural numbers that is not empty has a least one.               *)
LEMMA LeastNat ==
  ASSUME NEW S \in SUBSET Nat, S # {}
  PROVE  \E n \in S : \A m \in S : n <= m
<1>1. PICK n \in S : \A m \in S : <<m, n>> \notin OpToRel(<, Nat)
  BY NatLessThanWellFounded, WFMin, Zenon
<1>2. \A m \in S : ~(m < n)
  BY <1>1, Zenon DEF OpToRel
<1> QED BY <1>2

(* Induction over a set in place of a predicate.                            *)
LEMMA EveryNat ==
  ASSUME NEW S, 0 \in S, \A n \in Nat : n \in S => n + 1 \in S
  PROVE  Nat \subseteq S
<1> DEFINE T == Nat \ S
<1> SUFFICES ASSUME T # {} PROVE FALSE
  OBVIOUS
<1>1. PICK n \in T : \A m \in T : n <= m
  <2>1. T \in SUBSET Nat
    OBVIOUS
  <2> HIDE DEF T
  <2> QED BY <2>1, LeastNat
<1>2. n \in Nat /\ n # 0
  OBVIOUS
<1>3. n - 1 \in Nat /\ n - 1 \notin T
  BY <1>1, <1>2
<1> QED BY <1>2, <1>3

(* Induction down to 0.                                                     *)
LEMMA DownToZero ==
  ASSUME NEW S, NEW k \in Nat, k \in S, \A n \in 0 .. k - 1 : n + 1 \in S => n \in S
  PROVE  0 .. k \subseteq S
<1> DEFINE T == {d \in Nat : d > k \/ k - d \in S}
<1>1. 0 \in T
  OBVIOUS
<1>2. \A d \in Nat : d \in T => d + 1 \in T
  <2> TAKE d \in Nat
  <2>1. CASE d >= k
    BY <2>1
  <2>2. CASE d < k
    <3>1. k - (d + 1) \in 0 .. k - 1 /\ (k - (d + 1)) + 1 = k - d
      BY <2>2
    <3> QED BY <2>2, <3>1
  <2> QED BY <2>1, <2>2
<1>3. Nat \subseteq T
  <2> HIDE DEF T
  <2> QED BY <1>1, <1>2, EveryNat
<1>4. ASSUME NEW n \in 0 .. k
      PROVE  n \in S
  <2>1. k - n \in T /\ ~(k - n > k) /\ k - (k - n) = n
    BY <1>3
  <2> QED BY <2>1
<1> QED BY <1>4

-----------------------------------------------------------------------------
(* Power2 is what its recursion says.                                       *)
LEMMA PowerIsDefined ==
  \A i \in Nat : Power2[i] = IF i = 0 THEN 1 ELSE 2 * Power2[i - 1]
<1> DEFINE G(n, g) == g[0] = 1 /\ \A i \in 1 .. n : g[i] = 2 * g[i - 1]
<1>1. \A n \in Nat : \E g : G(n, g)
  <2> DEFINE S == {n \in Nat : \E g : G(n, g)}
  <2>1. 0 \in S
    <3>1. [i \in Nat |-> 1][0] = 1 /\ \A i \in 1 .. 0 : FALSE
      OBVIOUS
    <3>2. G(0, [i \in Nat |-> 1])
      BY <3>1
    <3> QED BY <3>2
  <2>2. ASSUME NEW n \in Nat, n \in S
        PROVE  n + 1 \in S
    <3>1. PICK h : G(n, h)
      BY <2>2
    <3>2. G(n + 1, [i \in 0 .. n + 1 |-> IF i = n + 1 THEN 2 * h[n] ELSE h[i]])
      BY <3>1
    <3> HIDE DEF G
    <3> QED BY <3>2
  <2>3. Nat \subseteq S
    <3> HIDE DEF S
    <3> QED BY <2>1, <2>2, EveryNat
  <2> QED BY <2>3
<1>2. ASSUME NEW m \in Nat, NEW n \in Nat, m <= n, NEW g, NEW h, G(m, g), G(n, h)
      PROVE  g[m] = h[m]
  <2> DEFINE S == {i \in Nat : i <= m => g[i] = h[i]}
  <2>1. 0 \in S
    BY <1>2
  <2>2. ASSUME NEW i \in Nat, i \in S
        PROVE  i + 1 \in S
    <3> SUFFICES ASSUME i + 1 <= m PROVE g[i + 1] = h[i + 1]
      OBVIOUS
    <3>1. i + 1 \in 1 .. m /\ i + 1 \in 1 .. n /\ (i + 1) - 1 = i
      BY <1>2
    <3>2. g[i + 1] = 2 * g[i] /\ h[i + 1] = 2 * h[i]
      BY <1>2, <3>1
    <3> QED BY <2>2, <3>2
  <2>3. Nat \subseteq S
    <3> HIDE DEF S
    <3> QED BY <2>1, <2>2, EveryNat
  <2> QED BY <2>3
<1> DEFINE F == [n \in Nat |-> (CHOOSE g : G(n, g))[n]]
<1>3. \A n \in Nat : G(n, CHOOSE g : G(n, g))
  BY <1>1
<1>4. \A n \in Nat : F[n] = IF n = 0 THEN 1 ELSE 2 * F[n - 1]
  <2> SUFFICES ASSUME NEW n \in Nat PROVE F[n] = IF n = 0 THEN 1 ELSE 2 * F[n - 1]
    OBVIOUS
  <2>1. PICK g : g = CHOOSE h : G(n, h)
    OBVIOUS
  <2>2. G(n, g) /\ F[n] = g[n]
    BY <1>3, <2>1
  <2>3. CASE n = 0
    BY <2>2, <2>3
  <2>4. CASE n # 0
    <3> DEFINE h == CHOOSE h : G(n - 1, h)
    <3>1. n - 1 \in Nat /\ G(n - 1, h) /\ F[n - 1] = h[n - 1]
      BY <1>3, <2>4
    <3> HIDE DEF h
    <3>2. h[n - 1] = g[n - 1]
      <4> HIDE DEF G
      <4> QED BY <1>2, <2>2, <3>1
    <3>3. n \in 1 .. n /\ g[n] = 2 * g[n - 1]
      BY <2>2, <2>4
    <3> QED BY <2>2, <2>4, <3>1, <3>2, <3>3
  <2> QED BY <2>3, <2>4
<1>5. F = [i \in Nat |-> IF i = 0 THEN 1 ELSE 2 * F[i - 1]]
  <2>1. F = [i \in Nat |-> F[i]]
    OBVIOUS
  <2> HIDE DEF F
  <2> QED BY <1>4, <2>1
<1> HIDE DEF F
<1>6. Power2 = [i \in Nat |-> IF i = 0 THEN 1 ELSE 2 * Power2[i - 1]]
  <2>1. \E f : f = [i \in Nat |-> IF i = 0 THEN 1 ELSE 2 * f[i - 1]]
    BY <1>5
  <2> QED BY <2>1, Zenon DEF Power2
<1> QED BY <1>6

-----------------------------------------------------------------------------
(* The counts and their codes.                                              *)
Count == 0 .. MaxCountP1 - 1
Succ(n) == (n + 1) % MaxCountP1
Val(w) == Gray2Bin(w)
Words == {Bin2Gray(n) : n \in Count}

\* n without its i lowest bits.
High(n, i) == n \div Power2[i]
Odd(n, i) == High(n, i) % 2 = 1

LEMMA PowerFacts ==
  /\ \A i \in Nat : Power2[i] \in Nat \ {0} /\ Power2[i + 1] = 2 * Power2[i]
  /\ Power2[0] = 1
<1> DEFINE S == {i \in Nat : Power2[i] \in Nat \ {0}}
<1>1. Power2[0] = 1
  BY PowerIsDefined
<1>2. \A i \in Nat : Power2[i + 1] = 2 * Power2[i]
  <2> TAKE i \in Nat
  <2>1. i + 1 \in Nat /\ i + 1 # 0 /\ (i + 1) - 1 = i
    OBVIOUS
  <2> QED BY <2>1, PowerIsDefined
<1>3. 0 \in S
  BY <1>1
<1>4. ASSUME NEW i \in Nat, i \in S
      PROVE  i + 1 \in S
  BY <1>2, <1>4
<1>5. Nat \subseteq S
  <2> HIDE DEF S
  <2> QED BY <1>3, <1>4, EveryNat
<1> QED BY <1>1, <1>2, <1>5

LEMMA CountFacts ==
  /\ MaxCountP1 \in Nat /\ MaxCountP1 >= 3 /\ MaxCountP1 > Depth /\ Depth \in Nat /\ Depth >= 2
  /\ CountWidth \in Nat /\ CountWidth >= 1
<1>1. MaxCountP1 \in Nat
  BY PowerFacts, CountWidthAssumption DEF MaxCountP1
<1> QED BY <1>1, CdcAssumption, CountWidthAssumption

LEMMA HighFacts ==
  ASSUME NEW n \in Nat
  PROVE  /\ High(n, 0) = n
         /\ \A i \in Nat : High(n, i) \in Nat /\ High(n, i + 1) = High(n, i) \div 2
         /\ n < MaxCountP1 => High(n, CountWidth) = 0
<1>1. High(n, 0) = n
  BY PowerFacts DEF High
<1>2. \A i \in Nat : High(n, i) \in Nat
  <2> TAKE i \in Nat
  <2> DEFINE p == Power2[i]
  <2>1. p \in Nat \ {0}
    BY PowerFacts
  <2> HIDE DEF p
  <2>2. n \div p \in Nat
    BY <2>1
  <2> QED BY <2>2 DEF High, p
<1>3. \A i \in Nat : High(n, i + 1) = High(n, i) \div 2
  <2> TAKE i \in Nat
  <2> DEFINE p == Power2[i]
             q == Power2[i + 1]
  <2>1. p \in Nat \ {0} /\ q = 2 * p
    BY PowerFacts
  <2> HIDE DEF p, q
  <2>2. n \div q = (n \div p) \div 2
    BY <2>1
  <2> QED BY <2>2 DEF High, p, q
<1>4. n < MaxCountP1 => High(n, CountWidth) = 0
  <2> DEFINE p == Power2[CountWidth]
  <2>1. p \in Nat \ {0}
    BY PowerFacts, CountWidthAssumption
  <2> HIDE DEF p
  <2>2. n < p => n \div p = 0
    BY <2>1
  <2> QED BY <2>2 DEF High, p, MaxCountP1
<1> QED BY <1>1, <1>2, <1>3, <1>4

LEMMA BitsByOdd ==
  \A n, i : i \in Bits(n) <=> i \in Bit /\ Odd(n, i)
BY DEF Bits, Odd, High

(* The bits tell the numbers of CountWidth bits apart.                      *)
LEMMA BitsTell ==
  ASSUME NEW n \in Count, NEW m \in Count, Bits(n) = Bits(m)
  PROVE  n = m
<1> DEFINE S == {i \in Nat : High(n, i) = High(m, i)}
<1>1. n \in Nat /\ m \in Nat /\ n < MaxCountP1 /\ m < MaxCountP1
  BY CountFacts DEF Count
<1>2. CountWidth \in S
  BY <1>1, HighFacts, CountFacts
<1>3. ASSUME NEW i \in 0 .. CountWidth - 1, i + 1 \in S
      PROVE  i \in S
  <2>1. Odd(n, i) <=> Odd(m, i)
    BY BitsByOdd DEF Bit
  <2>2. High(n, i) \div 2 = High(m, i) \div 2 /\ High(n, i) \in Nat /\ High(m, i) \in Nat
    BY <1>1, <1>3, HighFacts
  <2>3. High(n, i) = High(m, i)
    BY <2>1, <2>2 DEF Odd
  <2> QED BY <2>3
<1>4. 0 .. CountWidth \subseteq S
  <2> HIDE DEF S
  <2> QED BY <1>2, <1>3, CountFacts, DownToZero
<1>5. High(n, 0) = High(m, 0)
  BY <1>4, CountFacts
<1> QED BY <1>1, <1>5, HighFacts

LEMMA NumberOfBits ==
  ASSUME NEW n \in Count
  PROVE  Number(Bits(n)) = n
<1>1. n \in 0 .. Power2[CountWidth] - 1 /\ Bits(n) = Bits(n)
  BY DEF Count, MaxCountP1
<1>2. Number(Bits(n)) \in 0 .. Power2[CountWidth] - 1 /\ Bits(Number(Bits(n))) = Bits(n)
  BY <1>1 DEF Number
<1> QED BY <1>2, BitsTell DEF Count, MaxCountP1

LEMMA BitIsFinite ==
  ASSUME NEW w \in SUBSET Bit
  PROVE  IsFiniteSet(w)
<1>1. 0 \in Int /\ CountWidth - 1 \in Int
  BY CountFacts
<1>2. IsFiniteSet(Bit)
  BY <1>1, FS_Interval DEF Bit
<1> QED BY <1>2, FS_Subset

(* gray2bin undoes bin2gray: the parity of the code bits from i upwards is   *)
(* bit i of the number, from the top bit down.                              *)
LEMMA GrayRoundTrip ==
  ASSUME NEW n \in Count
  PROVE  Gray2Bin(Bin2Gray(n)) = n
<1> DEFINE g == Bin2Gray(n)
           From(i) == {j \in g : j >= i}
           S == {i \in Nat : Cardinality(From(i)) % 2 = (IF i \in Bits(n) THEN 1 ELSE 0)}
<1>1. g \in SUBSET Bit
  BY DEF Bin2Gray
<1>2. \A i \in Bit : i \in g <=> ((i \in Bits(n)) # (i + 1 \in Bits(n)))
  BY DEF Bin2Gray
<1> HIDE DEF g
<1>3. CountWidth \in S
  <2>1. From(CountWidth) = {} /\ CountWidth \notin Bits(n)
    <3>1. \A j \in Bit : ~(j >= CountWidth) /\ CountWidth \notin Bit
      BY CountFacts DEF Bit
    <3> QED BY <1>1, <3>1, BitsByOdd
  <2>2. Cardinality(From(CountWidth)) = 0
    BY <2>1, FS_EmptySet
  <2> QED BY <2>1, <2>2, CountFacts
<1>4. ASSUME NEW i \in 0 .. CountWidth - 1, i + 1 \in S
      PROVE  i \in S
  <2>0. \A j \in Bit : j >= i <=> j >= i + 1 \/ j = i
    BY CountFacts DEF Bit
  <2>1. i \in Bit /\ i \in Nat /\ i \notin From(i + 1)
    BY CountFacts DEF Bit
  <2>2. From(i + 1) \in SUBSET Bit
    BY <1>1
  <2>3. IsFiniteSet(From(i + 1)) /\ Cardinality(From(i + 1)) \in Nat
    <3> HIDE DEF From
    <3> QED BY <2>2, BitIsFinite, FS_CardinalityType
  <2>4. CASE i \in g
    <3>1. From(i) = From(i + 1) \cup {i}
      BY <1>1, <2>0, <2>4
    <3>2. Cardinality(From(i)) = Cardinality(From(i + 1)) + 1
      <4> HIDE DEF From
      <4> QED BY <2>1, <2>3, <3>1, FS_AddElement
    <3>3. (i \in Bits(n)) # (i + 1 \in Bits(n))
      BY <1>2, <2>1, <2>4
    <3>4. Cardinality(From(i + 1)) % 2 = IF i + 1 \in Bits(n) THEN 1 ELSE 0
      BY <1>4
    <3>5. Cardinality(From(i)) % 2 = IF i \in Bits(n) THEN 1 ELSE 0
      <4> HIDE DEF From
      <4> QED BY <2>3, <3>2, <3>3, <3>4
    <3> QED BY <2>1, <3>5
  <2>5. CASE i \notin g
    <3>1. From(i) = From(i + 1)
      BY <1>1, <2>0, <2>5
    <3>3. (i \in Bits(n)) <=> (i + 1 \in Bits(n))
      BY <1>2, <2>1, <2>5
    <3>4. Cardinality(From(i + 1)) % 2 = IF i + 1 \in Bits(n) THEN 1 ELSE 0
      BY <1>4
    <3>5. Cardinality(From(i)) % 2 = IF i \in Bits(n) THEN 1 ELSE 0
      BY <3>1, <3>3, <3>4
    <3> QED BY <2>1, <3>5
  <2> QED BY <2>4, <2>5
<1>5. 0 .. CountWidth \subseteq S
  <2> HIDE DEF S
  <2> QED BY <1>3, <1>4, CountFacts, DownToZero
<1>6. {i \in Bit : Cardinality(From(i)) % 2 = 1} = Bits(n)
  <2>1. ASSUME NEW i \in Bit
        PROVE  Cardinality(From(i)) % 2 = 1 <=> i \in Bits(n)
    <3>1. i \in S
      BY <1>5, CountFacts DEF Bit
    <3>2. Cardinality(From(i)) % 2 = IF i \in Bits(n) THEN 1 ELSE 0
      BY <3>1
    <3> HIDE DEF From
    <3> QED BY <3>2
  <2> QED BY <2>1, BitsByOdd
<1>7. Gray2Bin(g) = Number(Bits(n))
  BY <1>6 DEF Gray2Bin
<1> QED BY <1>7, NumberOfBits DEF g

LEMMA Halving ==
  \A a \in Nat : IF (a + 1) \div 2 = a \div 2 THEN a % 2 # 1 /\ (a + 1) % 2 = 1
                 ELSE (a + 1) \div 2 = a \div 2 + 1 /\ a % 2 = 1 /\ (a + 1) % 2 # 1
OBVIOUS

(* Adding one: ones become zeros up to the lowest zero, which becomes a one. *)
LEMMA Increment ==
  ASSUME NEW n \in Nat, NEW L \in Nat, High(n, L + 1) = High(n + 1, L + 1)
  PROVE  \E k \in 0 .. L : /\ \A i \in Nat : i < k => Odd(n, i) /\ ~Odd(n + 1, i)
                          /\ ~Odd(n, k) /\ Odd(n + 1, k)
                          /\ \A i \in Nat : i > k => High(n, i) = High(n + 1, i)
<1> DEFINE K == {k \in Nat : High(n, k + 1) = High(n + 1, k + 1)}
<1>1. PICK k \in K : \A j \in K : k <= j
  <2>1. K \in SUBSET Nat /\ K # {}
    OBVIOUS
  <2> HIDE DEF K
  <2> QED BY <2>1, LeastNat
<1>2. k \in 0 .. L /\ k \in Nat /\ High(n, k + 1) = High(n + 1, k + 1)
  BY <1>1
<1>3. \A i \in Nat : i < k => High(n, i + 1) # High(n + 1, i + 1)
  BY <1>1, <1>2
<1> HIDE DEF K
<1>4. \A i \in Nat : /\ High(n, i) \in Nat /\ High(n, i + 1) = High(n, i) \div 2
                    /\ High(n + 1, i) \in Nat /\ High(n + 1, i + 1) = High(n + 1, i) \div 2
  <2>1. n + 1 \in Nat
    OBVIOUS
  <2> QED BY <2>1, HighFacts
<1> DEFINE S == {i \in Nat : i <= k => High(n + 1, i) = High(n, i) + 1}
           T == {i \in Nat : i > k => High(n, i) = High(n + 1, i)}
<1>5. 0 \in S
  BY HighFacts
<1>6. ASSUME NEW i \in Nat, i \in S
      PROVE  i + 1 \in S
  <2> SUFFICES ASSUME i + 1 <= k PROVE High(n + 1, i + 1) = High(n, i + 1) + 1
    OBVIOUS
  <2>1. High(n + 1, i) = High(n, i) + 1
    BY <1>2, <1>6
  <2>2. High(n, i + 1) # High(n + 1, i + 1)
    BY <1>2, <1>3
  <2>3. /\ High(n, i) \in Nat /\ High(n, i + 1) = High(n, i) \div 2
       /\ High(n + 1, i + 1) = High(n + 1, i) \div 2
    BY <1>4
  <2>4. High(n + 1, i + 1) = (High(n, i) + 1) \div 2
    BY <2>1, <2>3
  <2> QED BY <2>2, <2>3, <2>4, Halving
<1>7. Nat \subseteq S
  <2> HIDE DEF S
  <2> QED BY <1>5, <1>6, EveryNat
<1>8. 0 \in T
  BY <1>2
<1>9. ASSUME NEW i \in Nat, i \in T
      PROVE  i + 1 \in T
  <2> SUFFICES ASSUME i + 1 > k PROVE High(n, i + 1) = High(n + 1, i + 1)
    OBVIOUS
  <2>1. CASE i = k
    BY <1>2, <2>1
  <2>2. CASE i > k
    BY <1>4, <1>9, <2>2
  <2> QED BY <1>2, <2>1, <2>2
<1>10. Nat \subseteq T
  <2> HIDE DEF T
  <2> QED BY <1>8, <1>9, EveryNat
<1>11. \A i \in Nat : i <= k => High(n + 1, i) = High(n, i) + 1
  BY <1>7
<1>12. \A i \in Nat : i > k => High(n, i) = High(n + 1, i)
  BY <1>10
<1> HIDE DEF S, T
<1>13. ASSUME NEW i \in Nat, i < k
       PROVE  Odd(n, i) /\ ~Odd(n + 1, i)
  <2>1. High(n + 1, i) = High(n, i) + 1 /\ High(n + 1, i + 1) # High(n, i + 1)
    BY <1>2, <1>3, <1>11, <1>13
  <2>2. /\ High(n, i) \in Nat /\ High(n, i + 1) = High(n, i) \div 2
       /\ High(n + 1, i + 1) = High(n + 1, i) \div 2
    BY <1>4
  <2>3. High(n + 1, i + 1) = (High(n, i) + 1) \div 2
    BY <2>1, <2>2
  <2>4. High(n, i) % 2 = 1 /\ (High(n, i) + 1) % 2 # 1
    BY <2>1, <2>2, <2>3, Halving
  <2> QED BY <2>1, <2>4 DEF Odd
<1>14. ~Odd(n, k) /\ Odd(n + 1, k)
  <2>1. High(n + 1, k) = High(n, k) + 1
    BY <1>2, <1>11
  <2> QED BY <1>2, <1>4, <2>1, Halving DEF Odd
<1> QED BY <1>2, <1>12, <1>13, <1>14

(* Next to each other, the codes of two counts differ in one bit.            *)
OneBit(v, w) == \E k \in Bit : ((k \in v) # (k \in w)) /\ v \ {k} = w \ {k}

LEMMA SuccFacts ==
  ASSUME NEW n \in Count
  PROVE  Succ(n) \in Count /\ Succ(n) = IF n = MaxCountP1 - 1 THEN 0 ELSE n + 1
<1> DEFINE M == MaxCountP1
<1>1. M \in Nat /\ M >= 3 /\ n \in 0 .. M - 1
  BY CountFacts DEF Count
<1> HIDE DEF M
<1>2. (n + 1) % M = IF n = M - 1 THEN 0 ELSE n + 1
  BY <1>1
<1> QED BY <1>1, <1>2 DEF Succ, Count, M

LEMMA ZeroCode ==
  /\ 0 \in Count /\ Bin2Gray(0) = {} /\ {} \in Words /\ Val({}) = 0
<1>1. 0 \in Count
  BY CountFacts DEF Count
<1>2. \A i \in Bit : ~Odd(0, i)
  <2> TAKE i \in Bit
  <2> DEFINE p == Power2[i]
  <2>1. p \in Nat \ {0}
    BY PowerFacts, CountFacts DEF Bit
  <2> HIDE DEF p
  <2>2. 0 \div p = 0
    BY <2>1
  <2> QED BY <2>2 DEF Odd, High, p
<1>3. Bin2Gray(0) = {}
  BY <1>2, BitsByOdd DEF Bin2Gray
<1> QED BY <1>1, <1>3, GrayRoundTrip DEF Words, Val

LEMMA CodesInOneBit ==
  ASSUME NEW n \in Count
  PROVE  OneBit(Bin2Gray(n), Bin2Gray(Succ(n)))
<1>1. n \in Nat /\ n + 1 \in Nat /\ n < MaxCountP1 /\ MaxCountP1 \in Nat
  BY CountFacts DEF Count
<1>2. CASE n + 1 < MaxCountP1
  <2>1. Succ(n) = n + 1
    BY <1>1, <1>2, SuccFacts
  <2>2. CountWidth - 1 \in Nat /\ (CountWidth - 1) + 1 = CountWidth
    BY CountFacts
  <2>3. High(n, CountWidth) = 0 /\ High(n + 1, CountWidth) = 0
    BY <1>1, <1>2, HighFacts
  <2>4. PICK k \in 0 .. CountWidth - 1 :
            /\ \A i \in Nat : i < k => Odd(n, i) /\ ~Odd(n + 1, i)
            /\ ~Odd(n, k) /\ Odd(n + 1, k)
            /\ \A i \in Nat : i > k => High(n, i) = High(n + 1, i)
    BY <1>1, <2>2, <2>3, Increment
  <2>5. k \in Bit /\ k \in Nat /\ Bit \subseteq Nat
    BY CountFacts DEF Bit
  <2>6. \A i \in Nat : i > k => (Odd(n, i) <=> Odd(n + 1, i))
    BY <2>4 DEF Odd
  <2>7. \A i \in Bit : i # k => (i \in Bits(n) <=> i \in Bits(n + 1)) <=> i > k
    BY <2>4, <2>5, <2>6, BitsByOdd
  <2>8. k \notin Bits(n) /\ k \in Bits(n + 1)
    BY <2>4, <2>5, BitsByOdd
  <2>9. \A i \in Nat : i > k => (i \in Bits(n) <=> i \in Bits(n + 1))
    BY <2>6, BitsByOdd
  <2>10. ASSUME NEW i \in Bit
         PROVE  (i \in Bin2Gray(n) <=> i \in Bin2Gray(n + 1)) <=> i # k
    <3>1. i + 1 \in Nat /\ (i >= k => i + 1 > k) /\ (i < k => i + 1 <= k) /\ i \in Nat
      BY <2>5
    <3>2. (i \in Bits(n) <=> i \in Bits(n + 1)) <=> i > k
      BY <2>5, <2>7, <2>8
    <3>3. (i + 1 \in Bits(n) <=> i + 1 \in Bits(n + 1)) <=> i + 1 > k
      <4>1. CASE i + 1 > k
        BY <2>9, <3>1, <4>1
      <4>2. CASE i + 1 <= k
        <5>1. i + 1 \in Bit /\ ~(i + 1 > k)
          BY <2>5, <3>1, <4>2, CountFacts DEF Bit
        <5> QED BY <2>7, <2>8, <5>1
      <4> QED BY <2>5, <3>1, <4>1, <4>2
    <3>4. i > k \/ i = k \/ i < k
      BY <2>5, <3>1
    <3>5. (i > k => i + 1 > k) /\ (i = k => i + 1 > k /\ ~(i > k)) /\ (i < k => ~(i + 1 > k) /\ ~(i > k) /\ i # k)
      BY <2>5, <3>1
    <3>6. i > k => i # k
      BY <2>5, <3>1
    <3> QED BY <3>2, <3>3, <3>4, <3>5, <3>6 DEF Bin2Gray
  <2>11. Bin2Gray(n) \subseteq Bit /\ Bin2Gray(n + 1) \subseteq Bit
    BY DEF Bin2Gray
  <2> QED BY <2>1, <2>5, <2>10, <2>11 DEF OneBit
<1>3. CASE n + 1 = MaxCountP1
  <2>1. Succ(n) = 0 /\ 0 \in Nat
    BY <1>1, <1>3, SuccFacts
  <2>2. High(n, CountWidth) = 0 /\ High(0, CountWidth) = 0
    BY <1>1, CountFacts, HighFacts
  <2>3. High(n + 1, CountWidth) = 1
    <3> DEFINE p == Power2[CountWidth]
    <3>1. p \in Nat \ {0}
      BY PowerFacts, CountFacts
    <3> HIDE DEF p
    <3>2. p \div p = 1
      BY <3>1
    <3> QED BY <1>3, <3>2 DEF High, MaxCountP1, p
  <2>4. High(n, CountWidth + 1) = High(n + 1, CountWidth + 1)
    <3>1. High(n, CountWidth + 1) = 0 \div 2 /\ High(n + 1, CountWidth + 1) = 1 \div 2
      BY <1>1, <2>2, <2>3, CountFacts, HighFacts
    <3> QED BY <3>1
  <2>5. PICK k \in 0 .. CountWidth :
            /\ \A i \in Nat : i < k => Odd(n, i) /\ ~Odd(n + 1, i)
            /\ ~Odd(n, k) /\ Odd(n + 1, k)
            /\ \A i \in Nat : i > k => High(n, i) = High(n + 1, i)
    BY <1>1, <2>4, CountFacts, Increment
  <2>6. k = CountWidth
    BY <2>2, <2>3, <2>5, CountFacts
  <2>7. \A i \in Bit : i \in Nat /\ i < k
    BY <2>6, CountFacts DEF Bit
  <2>8. Bits(n) = Bit
    BY <2>5, <2>7, BitsByOdd
  <2>10. CountWidth - 1 \in Bit /\ CountWidth \notin Bit
         /\ \A i \in Bit : i + 1 \in Bit <=> i # CountWidth - 1
    BY CountFacts DEF Bit
  <2>11. Bin2Gray(n) = {CountWidth - 1}
    BY <2>8, <2>10 DEF Bin2Gray
  <2> QED BY <2>1, <2>10, <2>11, ZeroCode DEF OneBit
<1> QED BY <1>1, <1>2, <1>3

(* What is sampled is one of the two words, if they are next to each other. *)
LEMMA SampledIsOneOfTheTwo ==
  ASSUME NEW v, NEW w, v = w \/ OneBit(v, w) \/ OneBit(w, v), NEW s \in Sampled(v, w)
  PROVE  s = v \/ s = w
<1>1. CASE v = w
  BY <1>1 DEF Sampled
<1>2. CASE OneBit(v, w) \/ OneBit(w, v)
  <2>1. PICK k : ((k \in v) # (k \in w)) /\ v \ {k} = w \ {k}
    BY <1>2 DEF OneBit
  <2>2. s \subseteq v \cup w /\ v \cap w \subseteq s
    BY DEF Sampled
  <2> QED BY <2>1, <2>2
<1> QED BY <1>1, <1>2

LEMMA WordFacts ==
  ASSUME NEW w \in Words
  PROVE  Val(w) \in Count /\ Bin2Gray(Val(w)) = w
BY GrayRoundTrip DEF Words, Val

-----------------------------------------------------------------------------
(* The two sides are alike but for their flags: what is said of one below    *)
(* is said of both, through functions of the side.  r = Other(s) receives   *)
(* the count and the reset of s.                                            *)
Other(s) == IF s = "push" THEN "pop" ELSE "push"

Delay == [s \in Side |-> IF s = "push" THEN PushCountDelay ELSE PopCountDelay]
Rst == [s \in Side |-> IF s = "push" THEN push_rst ELSE pop_rst]
Act == [s \in Side |-> IF s = "push" THEN reset_active_push ELSE reset_active_pop]
Hold == [s \in Side |-> IF s = "push" THEN held_push ELSE held_pop]
Over == [s \in Side |-> IF s = "push" THEN overlap_push ELSE overlap_pop]
Cnt == [s \in Side |-> IF s = "push" THEN push_count ELSE pop_count]
Gray == [s \in Side |-> IF s = "push" THEN push_gray ELSE pop_gray]

\* What r has of the other side.
Word == [r \in Side |-> IF r = "push" THEN push_pop_gray ELSE pop_push_gray]
Flag == [r \in Side |-> IF r = "push" THEN push_pop_reset ELSE pop_push_reset]
Saved == [r \in Side |-> IF r = "push" THEN pop_count_saved ELSE push_count_saved]
Vis == [r \in Side |-> Visible(Flag[r][NumSyncStages], Saved[r], Val(Word[r][NumSyncStages]))]

(* The beats r may still make if the count of the other side is x: items for *)
(* the pop side, slots for the push side.                                   *)
Room == [r \in Side |->
           IF r = "push" THEN [x \in Count |-> Depth - Difference(Pushed, x)]
                         ELSE [x \in Count |-> Difference(x, Popped)]]

\* The count r falls back on.
Base == [r \in Side |-> IF Rst[r] THEN 0 ELSE Saved[r]]

(* The stages of r whose word will be believed when it arrives: those that   *)
(* come without the news of a reset, unless r will have been reset by then. *)
Trusted == [r \in Side |->
              {k \in SyncStage : /\ ~Flag[r][k]
                                 /\ ~Rst[r] \/ Over[r] \/ \E j \in SyncStage : j > k /\ Flag[r][j]}]

TypeInv ==
  /\ \A s \in Side :
       /\ Rst[s] \in BOOLEAN /\ Act[s] \in BOOLEAN /\ Over[s] \in BOOLEAN /\ Hold[s] \in 0 .. MinReset
       /\ Cnt[s] \in Count /\ Gray[s] \in [1 .. Delay[s] -> SUBSET Bit]
       /\ Word[s] \in [SyncStage -> SUBSET Bit] /\ Flag[s] \in [SyncStage -> BOOLEAN]
  /\ ended \in SUBSET Side

LEMMA OtherFacts ==
  \A s \in Side : Other(s) \in Side /\ Other(Other(s)) = s /\ Other(s) # s
                  /\ Side = {s, Other(s)}
BY DEF Other, Side

LEMMA DelayFacts ==
  /\ \A s \in Side : Delay[s] \in Nat \ {0} /\ Delay[s] <= PushCountDelay
  /\ PushCountDelay \in Nat \ {0} /\ PopCountDelay \in Nat \ {0}
  /\ Delay["push"] = PushCountDelay /\ Delay["pop"] = PopCountDelay
  /\ NumSyncStages \in Nat \ {0} /\ NumSyncStages \in SyncStage /\ 1 \in SyncStage
  /\ SyncStage \subseteq Nat
BY CdcAssumption DEF Delay, Side, PushCountDelay, PopCountDelay, Larger, SyncStage

LEMMA DifferenceFacts ==
  ASSUME NEW a \in Count, NEW b \in Count
  PROVE  Difference(a, b) \in Count /\ Difference(a, b) = IF a >= b THEN a - b ELSE a - b + MaxCountP1
<1> DEFINE M == MaxCountP1
<1>1. M \in Nat /\ M >= 3 /\ a \in 0 .. M - 1 /\ b \in 0 .. M - 1
  BY CountFacts DEF Count
<1> HIDE DEF M
<1>2. (a - b) % M = IF a >= b THEN a - b ELSE a - b + M
  BY <1>1
<1> QED BY <1>1, <1>2 DEF Difference, Count, M

-----------------------------------------------------------------------------
(* A step of the FIFO as the two sides see it: the clocks of the sides in C   *)
(* tick, beat tells who pushes or pops, gin and rin are what is sampled of   *)
(* the other side's count and reset.                                        *)
Still(s, beat) ==
  /\ Rst'[s] = Rst[s] /\ Act'[s] = Act[s] /\ Hold'[s] = Hold[s]
  /\ Cnt'[s] = Cnt[s] /\ Gray'[s] = Gray[s]
  /\ Word'[s] = Word[s] /\ Flag'[s] = Flag[s] /\ Saved'[s] = Saved[s]
  /\ ~beat[s]

Tick(s, beat, gin, rin) ==
  /\ Act'[s] = IF RegisterResetActive = 1 THEN Rst[s] ELSE Rst'[s]
  /\ Hold'[s] = Held(Rst[s], Hold[s])
  /\ Cnt'[s] = IF Rst[s] THEN 0 ELSE CountAfter(Cnt[s], beat[s])
  /\ Gray'[s] = Shift(Gray[s], Bin2Gray(CountAfter(Cnt[s], beat[s])))
  /\ Word'[s] = Shift(Word[s], gin[s])
  /\ gin[s] \in Sampled(Gray[Other(s)][Delay[Other(s)]], Gray'[Other(s)][Delay[Other(s)]])
  /\ Flag'[s] = Shift(Flag[s], rin[s])
  /\ rin[s] = Act[Other(s)] \/ rin[s] = Act'[Other(s)]
  /\ Saved'[s] = IF Rst[s] THEN 0 ELSE Vis[s]
  /\ beat[s] => ~Rst[s] /\ (Vis[s] \in Count => Room[s][Vis[s]] # 0)

MayGo(s) ==
  /\ Over[s] \/ Flag[s][NumSyncStages]
  /\ Over[Other(s)] \/ \E i \in SyncStage : Flag[Other(s)][i]
  /\ Hold[s] + 1 >= MinReset

Resets(C) ==
  /\ \A s \in Side : /\ Rst'[s] \in BOOLEAN
                     /\ ~Rst[s] /\ Rst'[s] => s \notin ended
                     /\ Rst[s] /\ ~Rst'[s] => MayGo(s)
                     /\ Over'[s] = (~ResetsOver /\ (Over[s] \/ (s \in C /\ Act[s] /\ Flag[s][NumSyncStages])))
  /\ ended' = IF ResetsOver THEN {} ELSE ended \cup {s \in Side : Rst[s] /\ ~Rst'[s]}

Move(C, beat, gin, rin) ==
  /\ C \subseteq Side /\ beat \in [Side -> BOOLEAN]
  /\ \A s \in Side \ C : Still(s, beat)
  /\ \A s \in C : Tick(s, beat, gin, rin)
  /\ Resets(C)

LEMMA SideValues ==
  /\ Rst["push"] = push_rst /\ Rst["pop"] = pop_rst
  /\ Act["push"] = reset_active_push /\ Act["pop"] = reset_active_pop
  /\ Hold["push"] = held_push /\ Hold["pop"] = held_pop
  /\ Over["push"] = overlap_push /\ Over["pop"] = overlap_pop
  /\ Cnt["push"] = push_count /\ Cnt["pop"] = pop_count
  /\ Gray["push"] = push_gray /\ Gray["pop"] = pop_gray
  /\ Word["push"] = push_pop_gray /\ Word["pop"] = pop_push_gray
  /\ Flag["push"] = push_pop_reset /\ Flag["pop"] = pop_push_reset
  /\ Saved["push"] = pop_count_saved /\ Saved["pop"] = push_count_saved
BY DEF Rst, Act, Hold, Over, Cnt, Gray, Word, Flag, Saved, Side

LEMMA SideValuesNext ==
  /\ Rst'["push"] = push_rst' /\ Rst'["pop"] = pop_rst'
  /\ Act'["push"] = reset_active_push' /\ Act'["pop"] = reset_active_pop'
  /\ Hold'["push"] = held_push' /\ Hold'["pop"] = held_pop'
  /\ Over'["push"] = overlap_push' /\ Over'["pop"] = overlap_pop'
  /\ Cnt'["push"] = push_count' /\ Cnt'["pop"] = pop_count'
  /\ Gray'["push"] = push_gray' /\ Gray'["pop"] = pop_gray'
  /\ Word'["push"] = push_pop_gray' /\ Word'["pop"] = pop_push_gray'
  /\ Flag'["push"] = push_pop_reset' /\ Flag'["pop"] = pop_push_reset'
  /\ Saved'["push"] = pop_count_saved' /\ Saved'["pop"] = push_count_saved'
BY DEF Rst, Act, Hold, Over, Cnt, Gray, Word, Flag, Saved, Side

LEMMA VisValues ==
  /\ Vis["push"] = Visible(pop_reset_seen, pop_count_saved, pop_count_seen)
  /\ Vis["pop"] = Visible(push_reset_seen, push_count_saved, push_count_seen)
BY DEF Vis, Flag, Saved, Word, Side, pop_reset_seen, push_reset_seen, pop_count_seen,
       push_count_seen, Val

LEMMA BeatsNeedRoom ==
  /\ \A pv \in BOOLEAN : PushBeat(pv) /\ (push_rst => ~pv) =>
        ~push_rst /\ (Vis["push"] \in Count => Room["push"][Vis["push"]] # 0)
  /\ \A pr \in BOOLEAN : PopBeat(pr) =>
        ~pop_rst /\ (Vis["pop"] \in Count => Room["pop"][Vis["pop"]] # 0)
<1>1. ASSUME NEW pv \in BOOLEAN, PushBeat(pv), push_rst => ~pv, Vis["push"] \in Count
      PROVE  Room["push"][Vis["push"]] # 0
  <2>1. ~push_rst /\ slots # 0
    BY <1>1 DEF PushBeat, full
  <2>2. Room["push"][Vis["push"]] = Depth - push_items
    BY <1>1, <2>1, VisValues DEF Room, Side, push_items, Pushed
  <2>3. 0 % MaxCountP1 = 0
    BY CountFacts
  <2> QED BY <2>1, <2>2, <2>3 DEF slots
<1>2. ASSUME NEW pr \in BOOLEAN, PopBeat(pr)
      PROVE  ~pop_rst
  BY <1>2 DEF PopBeat, empty, items
<1>3. ASSUME NEW pr \in BOOLEAN, PopBeat(pr), Vis["pop"] \in Count
      PROVE  Room["pop"][Vis["pop"]] # 0
  <2>1. ~pop_rst /\ pop_items # 0
    BY <1>3 DEF PopBeat, empty, items
  <2>2. Room["pop"][Vis["pop"]] = pop_items
    BY <1>3, <2>1, VisValues DEF Room, Side, pop_items, Popped
  <2> QED BY <2>1, <2>2
<1>4. \A pv \in BOOLEAN : PushBeat(pv) /\ (push_rst => ~pv) => ~push_rst
  BY DEF PushBeat
<1> QED BY <1>1, <1>2, <1>3, <1>4

LEMMA ResetStepResets ==
  ASSUME TypeInv, NEW C \in SUBSET Side, ResetStep(C)
  PROVE  /\ Resets(C)
         /\ \A s \in C : Hold'[s] = Held(Rst[s], Hold[s])
         /\ \A s \in Side \ C : Rst'[s] = Rst[s] /\ Hold'[s] = Hold[s]
<1>1. /\ push_rst' \in IF "push" \in C THEN Reset("push", push_rst, held_push) ELSE {push_rst}
      /\ pop_rst' \in IF "pop" \in C THEN Reset("pop", pop_rst, held_pop) ELSE {pop_rst}
      /\ held_push' = IF "push" \in C THEN Held(push_rst, held_push) ELSE held_push
      /\ held_pop' = IF "pop" \in C THEN Held(pop_rst, held_pop) ELSE held_pop
      /\ ended' = IF ResetsOver THEN {}
                  ELSE ended \cup Released("push", push_rst /\ ~push_rst')
                             \cup Released("pop", pop_rst /\ ~pop_rst')
      /\ overlap_push' = (~ResetsOver /\ (overlap_push \/
           ("push" \in C /\ reset_active_push /\ pop_reset_seen)))
      /\ overlap_pop' = (~ResetsOver /\ (overlap_pop \/
           ("pop" \in C /\ reset_active_pop /\ push_reset_seen)))
  BY DEF ResetStep
<1>2. /\ push_rst' \in BOOLEAN /\ pop_rst' \in BOOLEAN
      /\ ~push_rst /\ push_rst' => "push" \notin ended
      /\ ~pop_rst /\ pop_rst' => "pop" \notin ended
      /\ push_rst /\ ~push_rst' => MayRelease("push", held_push)
      /\ pop_rst /\ ~pop_rst' => MayRelease("pop", held_pop)
  <2>1. push_rst \in BOOLEAN /\ pop_rst \in BOOLEAN
    BY SideValues DEF TypeInv, Side
  <2> QED BY <1>1, <2>1 DEF Reset, MayAssert
<1>3. /\ MayRelease("push", held_push) => MayGo("push")
      /\ MayRelease("pop", held_pop) => MayGo("pop")
  BY SideValues DEF MayRelease, MayGo, Other, PopDomainSees, PushDomainSees,
                    pop_reset_seen, push_reset_seen
<1>4. ended' = IF ResetsOver THEN {} ELSE ended \cup {s \in Side : Rst[s] /\ ~Rst'[s]}
  <2>1. {s \in Side : Rst[s] /\ ~Rst'[s]} =
          Released("push", push_rst /\ ~push_rst') \cup Released("pop", pop_rst /\ ~pop_rst')
    BY SideValues, SideValuesNext DEF Side, Released
  <2> QED BY <1>1, <2>1
<1>5. \A s \in Side : s = "push" \/ s = "pop"
  BY DEF Side
<1>6. \A s \in Side : Over'[s] = (~ResetsOver /\ (Over[s] \/ (s \in C /\ Act[s] /\ Flag[s][NumSyncStages])))
  BY <1>1, <1>5, SideValues, SideValuesNext DEF pop_reset_seen, push_reset_seen
<1>7. Resets(C)
  BY <1>2, <1>3, <1>4, <1>5, <1>6, SideValues, SideValuesNext DEF Resets
<1>8. ASSUME NEW s \in Side
      PROVE  /\ s \in C => Hold'[s] = Held(Rst[s], Hold[s])
             /\ s \in Side \ C => Rst'[s] = Rst[s] /\ Hold'[s] = Hold[s]
  BY <1>1, <1>5, SideValues, SideValuesNext
<1> QED BY <1>7, <1>8

LEMMA PushEdgeTicks ==
  ASSUME NEW pv \in BOOLEAN, NEW d, NEW g, NEW r, PushEdge(pv, d, g, r), ResetStep({"push"}) \/ ResetStep(Side),
         TypeInv, g \in Sampled(pop_gray[PopCountDelay], pop_gray'[PopCountDelay]),
         r = reset_active_pop \/ r = reset_active_pop',
         NEW beat, beat["push"] = PushBeat(pv), NEW gin, gin["push"] = g, NEW rin, rin["push"] = r
  PROVE  Tick("push", beat, gin, rin)
<1>1. "push" \in Side /\ Other("push") = "pop"
  BY DEF Side, Other
<1>2. Act'["push"] = IF RegisterResetActive = 1 THEN Rst["push"] ELSE Rst'["push"]
  <2>1. push_reset_reg' = push_rst
    BY DEF PushEdge
  <2> QED BY <2>1, SideValues, SideValuesNext DEF reset_active_push
<1>3. Hold'["push"] = Held(Rst["push"], Hold["push"])
  <2>1. PICK C \in SUBSET Side : "push" \in C /\ ResetStep(C)
    BY <1>1
  <2>2. \A s \in C : Hold'[s] = Held(Rst[s], Hold[s])
    BY <2>1, ResetStepResets
  <2> QED BY <2>1, <2>2
<1>4. /\ push_rst => ~pv
      /\ push_count' = IF push_rst THEN 0 ELSE CountAfter(push_count, PushBeat(pv))
      /\ pop_count_saved' = IF push_rst THEN 0 ELSE Vis["push"]
      /\ push_gray' = Shift(push_gray, Bin2Gray(CountAfter(push_count, PushBeat(pv))))
      /\ push_pop_gray' = Shift(push_pop_gray, g)
      /\ push_pop_reset' = Shift(push_pop_reset, r)
  BY VisValues DEF PushEdge, Visible
<1>5. beat["push"] => ~Rst["push"] /\ (Vis["push"] \in Count => Room["push"][Vis["push"]] # 0)
  BY <1>4, BeatsNeedRoom, SideValues
<1>6. /\ Cnt'["push"] = IF Rst["push"] THEN 0 ELSE CountAfter(Cnt["push"], beat["push"])
      /\ Gray'["push"] = Shift(Gray["push"], Bin2Gray(CountAfter(Cnt["push"], beat["push"])))
      /\ Word'["push"] = Shift(Word["push"], gin["push"])
      /\ Flag'["push"] = Shift(Flag["push"], rin["push"])
      /\ Saved'["push"] = IF Rst["push"] THEN 0 ELSE Vis["push"]
  BY <1>4, SideValues, SideValuesNext
<1>7. /\ gin["push"] \in Sampled(Gray["pop"][Delay["pop"]], Gray'["pop"][Delay["pop"]])
      /\ rin["push"] = Act["pop"] \/ rin["push"] = Act'["pop"]
  BY SideValues, SideValuesNext, DelayFacts
<1> QED BY <1>1, <1>2, <1>3, <1>5, <1>6, <1>7 DEF Tick

LEMMA PopEdgeTicks ==
  ASSUME NEW pr \in BOOLEAN, NEW data, NEW g, NEW r, PopEdge(pr, data, g, r), ResetStep({"pop"}) \/ ResetStep(Side),
         TypeInv, g \in Sampled(push_gray[PushCountDelay], push_gray'[PushCountDelay]),
         r = reset_active_push \/ r = reset_active_push',
         NEW beat, beat["pop"] = PopBeat(pr), NEW gin, gin["pop"] = g, NEW rin, rin["pop"] = r
  PROVE  Tick("pop", beat, gin, rin)
<1>1. "pop" \in Side /\ Other("pop") = "push"
  BY DEF Side, Other
<1>2. Act'["pop"] = IF RegisterResetActive = 1 THEN Rst["pop"] ELSE Rst'["pop"]
  <2>1. pop_reset_reg' = pop_rst
    BY DEF PopEdge
  <2> QED BY <2>1, SideValues, SideValuesNext DEF reset_active_pop
<1>3. Hold'["pop"] = Held(Rst["pop"], Hold["pop"])
  <2>1. PICK C \in SUBSET Side : "pop" \in C /\ ResetStep(C)
    BY <1>1
  <2>2. \A s \in C : Hold'[s] = Held(Rst[s], Hold[s])
    BY <2>1, ResetStepResets
  <2> QED BY <2>1, <2>2
<1>4. /\ pop_count' = IF pop_rst THEN 0 ELSE CountAfter(pop_count, PopBeat(pr))
      /\ push_count_saved' = IF pop_rst THEN 0 ELSE Vis["pop"]
      /\ pop_gray' = Shift(pop_gray, Bin2Gray(CountAfter(pop_count, PopBeat(pr))))
      /\ pop_push_gray' = Shift(pop_push_gray, g)
      /\ pop_push_reset' = Shift(pop_push_reset, r)
  BY VisValues DEF PopEdge, Visible
<1>5. beat["pop"] => ~Rst["pop"] /\ (Vis["pop"] \in Count => Room["pop"][Vis["pop"]] # 0)
  BY BeatsNeedRoom, SideValues
<1>6. /\ Cnt'["pop"] = IF Rst["pop"] THEN 0 ELSE CountAfter(Cnt["pop"], beat["pop"])
      /\ Gray'["pop"] = Shift(Gray["pop"], Bin2Gray(CountAfter(Cnt["pop"], beat["pop"])))
      /\ Word'["pop"] = Shift(Word["pop"], gin["pop"])
      /\ Flag'["pop"] = Shift(Flag["pop"], rin["pop"])
      /\ Saved'["pop"] = IF Rst["pop"] THEN 0 ELSE Vis["pop"]
  BY <1>4, SideValues, SideValuesNext
<1>7. /\ gin["pop"] \in Sampled(Gray["push"][Delay["push"]], Gray'["push"][Delay["push"]])
      /\ rin["pop"] = Act["push"] \/ rin["pop"] = Act'["push"]
  BY SideValues, SideValuesNext, DelayFacts
<1> QED BY <1>1, <1>2, <1>3, <1>5, <1>6, <1>7 DEF Tick

(* What the step does to the RAM, its write pipeline and the addresses.      *)
NewWrite(b, d) == IF b THEN [addr |-> ram_wr_addr, data |-> d] ELSE NoWrite
Landing(b, d) == IF RamWriteLatency = 1 THEN NewWrite(b, d) ELSE ram_wr[RamWriteLatency - 1]

StoreMove(C, beat, d) ==
  /\ beat["push"] => d \in Data
  /\ "push" \in C =>
       /\ ram_wr_addr' = IF push_rst THEN 0 ELSE AddrAfter(ram_wr_addr, beat["push"])
       /\ ram_wr' = Shift(ram_wr, NewWrite(beat["push"], d))
       /\ ram' = IF Landing(beat["push"], d) = NoWrite THEN ram
                 ELSE [ram EXCEPT ![Landing(beat["push"], d).addr] = Landing(beat["push"], d).data]
       /\ accepted' = IF beat["push"] THEN d ELSE NoData
  /\ "push" \notin C => /\ ram_wr_addr' = ram_wr_addr /\ ram_wr' = ram_wr /\ ram' = ram
                        /\ accepted' = NoData
  /\ "pop" \in C =>
       /\ ram_rd_addr' = IF pop_rst THEN 0 ELSE AddrAfter(ram_rd_addr, beat["pop"])
       /\ IF beat["pop"] THEN out' = ram[ram_rd_addr] \/ out' = ram'[ram_rd_addr] ELSE out' = NoData
  /\ "pop" \notin C => ram_rd_addr' = ram_rd_addr /\ out' = NoData

LEMMA MovesOfNext ==
  ASSUME TypeInv, Next
  PROVE  \E C, beat, gin, rin, d : C \in SUBSET Side /\ Move(C, beat, gin, rin) /\ StoreMove(C, beat, d)
<1>0. \A v : v \in Sampled(v, v)
  BY DEF Sampled
<1>1. ASSUME NEW pv \in BOOLEAN, NEW d \in Data, PushClk(pv, d)
      PROVE  \E C, beat, gin, rin, e :
               C \in SUBSET Side /\ Move(C, beat, gin, rin) /\ StoreMove(C, beat, e)
  <2> DEFINE beat == [s \in Side |-> IF s = "push" THEN PushBeat(pv) ELSE FALSE]
             gin == [s \in Side |-> pop_gray[PopCountDelay]]
             rin == [s \in Side |-> reset_active_pop]
  <2>1. /\ PushEdge(pv, d, pop_gray[PopCountDelay], reset_active_pop)
        /\ ResetStep({"push"}) /\ UNCHANGED popVars /\ out' = NoData
    BY <1>1 DEF PushClk
  <2>2. Resets({"push"}) /\ Rst'["pop"] = Rst["pop"] /\ Hold'["pop"] = Hold["pop"]
    <3>1. {"push"} \in SUBSET Side /\ "pop" \in Side \ {"push"}
      BY DEF Side
    <3>2. ResetStep({"push"})
      BY <2>1
    <3>3. PICK C \in SUBSET Side : C = {"push"}
      BY <3>1
    <3>4. ResetStep(C)
      BY <3>2, <3>3
    <3>5. Resets(C) /\ \A s \in Side \ C : Rst'[s] = Rst[s] /\ Hold'[s] = Hold[s]
      BY <3>4, ResetStepResets
    <3> QED BY <3>1, <3>3, <3>5
  <2>3. beat["push"] = PushBeat(pv) /\ beat["pop"] = FALSE /\ gin["push"] = pop_gray[PopCountDelay]
        /\ rin["push"] = reset_active_pop /\ beat \in [Side -> BOOLEAN]
    BY DEF Side, PushBeat
  <2>4. pop_gray' = pop_gray
    BY <2>1 DEF popVars
  <2> HIDE DEF beat, gin, rin
  <2>5. Tick("push", beat, gin, rin)
    BY <1>0, <2>1, <2>3, <2>4, PushEdgeTicks
  <2>6. Still("pop", beat)
    <3>1. /\ pop_count' = pop_count /\ pop_gray' = pop_gray /\ pop_reset_reg' = pop_reset_reg
          /\ pop_push_gray' = pop_push_gray /\ pop_push_reset' = pop_push_reset
          /\ push_count_saved' = push_count_saved /\ pop_rst' = pop_rst
      BY <2>1, <2>2, SideValues, SideValuesNext DEF popVars
    <3>2. reset_active_pop' = reset_active_pop
      BY <3>1 DEF reset_active_pop
    <3> QED BY <2>2, <2>3, <3>1, <3>2, SideValues, SideValuesNext DEF Still
  <2>7. Move({"push"}, beat, gin, rin)
    BY <2>2, <2>3, <2>5, <2>6 DEF Move, Side
  <2>8. StoreMove({"push"}, beat, d)
    BY <2>1, <2>3 DEF StoreMove, PushEdge, NewWrite, Landing, popVars
  <2> QED BY <2>7, <2>8 DEF Side
<1>2. ASSUME NEW pr \in BOOLEAN, PopClk(pr)
      PROVE  \E C, beat, gin, rin, e :
               C \in SUBSET Side /\ Move(C, beat, gin, rin) /\ StoreMove(C, beat, e)
  <2> DEFINE beat == [s \in Side |-> IF s = "pop" THEN PopBeat(pr) ELSE FALSE]
             gin == [s \in Side |-> push_gray[PushCountDelay]]
             rin == [s \in Side |-> reset_active_push]
  <2>1. /\ PopEdge(pr, ram[ram_rd_addr], push_gray[PushCountDelay], reset_active_push)
        /\ ResetStep({"pop"}) /\ UNCHANGED <<pushVars, ram>> /\ accepted' = NoData
    BY <1>2 DEF PopClk
  <2>2. Resets({"pop"}) /\ Rst'["push"] = Rst["push"] /\ Hold'["push"] = Hold["push"]
    <3>1. {"pop"} \in SUBSET Side /\ "push" \in Side \ {"pop"}
      BY DEF Side
    <3>2. ResetStep({"pop"})
      BY <2>1
    <3>3. PICK C \in SUBSET Side : C = {"pop"}
      BY <3>1
    <3>4. ResetStep(C)
      BY <3>2, <3>3
    <3>5. Resets(C) /\ \A s \in Side \ C : Rst'[s] = Rst[s] /\ Hold'[s] = Hold[s]
      BY <3>4, ResetStepResets
    <3> QED BY <3>1, <3>3, <3>5
  <2>3. beat["pop"] = PopBeat(pr) /\ beat["push"] = FALSE /\ gin["pop"] = push_gray[PushCountDelay]
        /\ rin["pop"] = reset_active_push /\ beat \in [Side -> BOOLEAN]
    BY DEF Side, PopBeat
  <2>4. push_gray' = push_gray
    BY <2>1 DEF pushVars
  <2> HIDE DEF beat, gin, rin
  <2>5. Tick("pop", beat, gin, rin)
    BY <1>0, <2>1, <2>3, <2>4, PopEdgeTicks
  <2>6. Still("push", beat)
    <3>1. /\ push_count' = push_count /\ push_gray' = push_gray /\ push_reset_reg' = push_reset_reg
          /\ push_pop_gray' = push_pop_gray /\ push_pop_reset' = push_pop_reset
          /\ pop_count_saved' = pop_count_saved /\ push_rst' = push_rst
      BY <2>1, <2>2, SideValues, SideValuesNext DEF pushVars
    <3>2. reset_active_push' = reset_active_push
      BY <3>1 DEF reset_active_push
    <3> QED BY <2>2, <2>3, <3>1, <3>2, SideValues, SideValuesNext DEF Still
  <2>7. Move({"pop"}, beat, gin, rin)
    BY <2>2, <2>3, <2>5, <2>6 DEF Move, Side
  <2>8. StoreMove({"pop"}, beat, NoData)
    BY <2>1, <2>3 DEF StoreMove, PopEdge, pushVars
  <2> QED BY <2>7, <2>8 DEF Side
<1>3. ASSUME NEW pv \in BOOLEAN, NEW d \in Data, NEW pr \in BOOLEAN, BothClk(pv, d, pr)
      PROVE  \E C, beat, gin, rin, e :
               C \in SUBSET Side /\ Move(C, beat, gin, rin) /\ StoreMove(C, beat, e)
  <2>1. PICK g \in Sampled(pop_gray[PopCountDelay], PopGrayNext(pr)),
             r \in {reset_active_pop, pop_reset_next} : PushEdge(pv, d, g, r)
    BY <1>3 DEF BothClk
  <2>2. PICK data \in {ram[ram_rd_addr], ram'[ram_rd_addr]},
             h \in Sampled(push_gray[PushCountDelay], PushGrayNext(pv)),
             q \in {reset_active_push, push_reset_next} : PopEdge(pr, data, h, q)
    BY <1>3 DEF BothClk
  <2> DEFINE beat == [s \in Side |-> IF s = "push" THEN PushBeat(pv) ELSE PopBeat(pr)]
             gin == [s \in Side |-> IF s = "push" THEN g ELSE h]
             rin == [s \in Side |-> IF s = "push" THEN r ELSE q]
  <2>3. ResetStep(Side) /\ Resets(Side)
    BY <1>3, ResetStepResets DEF BothClk
  <2>4. beat["push"] = PushBeat(pv) /\ beat["pop"] = PopBeat(pr) /\ gin["push"] = g /\ gin["pop"] = h
        /\ rin["push"] = r /\ rin["pop"] = q /\ beat \in [Side -> BOOLEAN]
    BY DEF Side, PushBeat, PopBeat
  <2> HIDE DEF beat, gin, rin
  <2>5. push_gray'[PushCountDelay] = PushGrayNext(pv) /\ pop_gray'[PopCountDelay] = PopGrayNext(pr)
    BY <2>1, <2>2 DEF PushEdge, PopEdge, PushGrayNext, PopGrayNext
  <2>6. push_reset_next = reset_active_push' /\ pop_reset_next = reset_active_pop'
    <3>1. push_reset_reg' = push_rst /\ pop_reset_reg' = pop_rst
      BY <2>1, <2>2 DEF PushEdge, PopEdge
    <3> QED BY <3>1 DEF push_reset_next, pop_reset_next, reset_active_push, reset_active_pop
  <2>7. Tick("push", beat, gin, rin)
    BY <2>1, <2>3, <2>4, <2>5, <2>6, PushEdgeTicks
  <2>8. Tick("pop", beat, gin, rin)
    BY <2>2, <2>3, <2>4, <2>5, <2>6, PopEdgeTicks
  <2>9. Move(Side, beat, gin, rin)
    BY <2>3, <2>4, <2>7, <2>8 DEF Move, Side
  <2>10. StoreMove(Side, beat, d)
    BY <2>1, <2>2, <2>4 DEF StoreMove, PushEdge, PopEdge, NewWrite, Landing, Side
  <2> QED BY <2>9, <2>10
<1> QED BY <1>1, <1>2, <1>3 DEF Next

LEMMA MoveOfNext ==
  ASSUME TypeInv, Next
  PROVE  \E C, beat, gin, rin : C \in SUBSET Side /\ Move(C, beat, gin, rin)
BY MovesOfNext

-----------------------------------------------------------------------------
(* Resets.  Until s has left its reset, the other side sees the reset of s    *)
(* from one moment on without a gap; and once the other side has seen both  *)
(* resets active, all its stages show the reset of s, which is still held.  *)
ResetInv == \A s \in Side :
  /\ s \in ended => ~Rst[s] /\ Over[s]
  /\ Over[s] => s \in ended \/ (Rst[s] /\ Act[s])
  /\ Act[s] => Rst[s] \/ s \in ended
  /\ s \notin ended => \A j \in SyncStage : Flag[Other(s)][j] =>
       Rst[s] /\ Act[s] /\ \A k \in SyncStage : k < j => Flag[Other(s)][k]
  /\ s \notin ended /\ Over[Other(s)] => Rst[s] /\ Act[s] /\ \A k \in SyncStage : Flag[Other(s)][k]

LEMMA ShiftFacts ==
  ASSUME NEW n \in Nat \ {0}, NEW S, NEW f \in [1 .. n -> S], NEW in \in S
  PROVE  /\ Shift(f, in) \in [1 .. n -> S]
         /\ Shift(f, in)[1] = in
         /\ \A k \in 2 .. n : k - 1 \in 1 .. n /\ Shift(f, in)[k] = f[k - 1]
<1>1. DOMAIN f = 1 .. n
  OBVIOUS
<1>2. \A k \in 1 .. n : k = 1 \/ (k \in 2 .. n /\ k - 1 \in 1 .. n)
  OBVIOUS
<1>3. 1 \in 1 .. n /\ \A k \in 2 .. n : k # 1 /\ k \in 1 .. n
  OBVIOUS
<1> QED BY <1>1, <1>2, <1>3 DEF Shift

(* What a reset that is released or asserted tells.                          *)
LEMMA ReleaseFacts ==
  ASSUME TypeInv, ResetInv, NEW C \in SUBSET Side, NEW beat, NEW gin, NEW rin, Move(C, beat, gin, rin),
         NEW s \in Side
  PROVE  /\ Rst[s] /\ ~Rst'[s] =>
               /\ s \in C /\ s \notin ended /\ s \in ended' /\ Act[s] /\ Over'[s] /\ ~ResetsOver
               /\ Hold[s] + 1 >= MinReset
               /\ Other(s) \notin ended => Rst[Other(s)] /\ Act[Other(s)]
         /\ ~Rst[s] /\ Rst'[s] => s \in C /\ s \notin ended /\ s \notin ended' /\ ~Over'[s]
         /\ s \in ended /\ ~ResetsOver => s \in ended'
         /\ s \in ended' => s \in ended \/ (Rst[s] /\ ~Rst'[s])
<1>1. s \notin C => Rst'[s] = Rst[s]
  BY DEF Move, Still
<1>2. /\ Rst'[s] \in BOOLEAN
      /\ ~Rst[s] /\ Rst'[s] => s \notin ended
      /\ Rst[s] /\ ~Rst'[s] => MayGo(s)
      /\ Over'[s] = (~ResetsOver /\ (Over[s] \/ (s \in C /\ Act[s] /\ Flag[s][NumSyncStages])))
      /\ ended' = IF ResetsOver THEN {} ELSE ended \cup {t \in Side : Rst[t] /\ ~Rst'[t]}
  BY DEF Move, Resets
<1>3. ResetsOver => ended = Side
  BY DEF ResetsOver
<1>4. CASE Rst[s] /\ ~Rst'[s]
  <2>1. s \notin ended /\ s \in C /\ ~ResetsOver /\ s \in ended'
    BY <1>1, <1>2, <1>3, <1>4 DEF ResetInv
  <2>2. Rst[s] /\ Act[s]
    BY <1>2, <1>4, <2>1, OtherFacts DEF ResetInv, MayGo
  <2>3. Over'[s]
    BY <1>2, <1>4, <2>1, <2>2 DEF MayGo, TypeInv
  <2>4. Other(s) \notin ended => Rst[Other(s)] /\ Act[Other(s)]
    <3>1. Other(s) \in Side /\ Other(Other(s)) = s /\ NumSyncStages \in SyncStage
      BY OtherFacts, DelayFacts
    <3> QED BY <1>2, <1>4, <3>1 DEF ResetInv, MayGo
  <2> QED BY <1>2, <1>4, <2>1, <2>2, <2>3, <2>4 DEF MayGo
<1>5. CASE ~Rst[s] /\ Rst'[s]
  <2>1. s \in C /\ s \notin ended /\ ~Over[s] /\ ~Act[s]
    BY <1>1, <1>2, <1>5 DEF ResetInv, TypeInv
  <2> QED BY <1>2, <1>5, <2>1 DEF TypeInv
<1>6. CASE Rst[s] = Rst'[s]
  BY <1>2, <1>6
<1> QED BY <1>2, <1>4, <1>5, <1>6 DEF TypeInv

LEMMA ShiftWords ==
  ASSUME NEW n \in Nat \ {0}, NEW f \in [1 .. n -> SUBSET Bit], NEW in \in SUBSET Bit
  PROVE  /\ Shift(f, in) \in [1 .. n -> SUBSET Bit]
         /\ Shift(f, in)[1] = in
         /\ \A k \in 2 .. n : k - 1 \in 1 .. n /\ Shift(f, in)[k] = f[k - 1]
<1>1. DOMAIN f = 1 .. n
  OBVIOUS
<1>2. \A k \in 1 .. n : k = 1 \/ (k \in 2 .. n /\ k - 1 \in 1 .. n)
  OBVIOUS
<1>3. 1 \in 1 .. n /\ \A k \in 2 .. n : k # 1 /\ k \in 1 .. n
  OBVIOUS
<1> QED BY <1>1, <1>2, <1>3 DEF Shift

\* What a step does to the flags of s.
FlagMove(s, C, rin) ==
  /\ Act'[s] \in BOOLEAN /\ Rst'[s] \in BOOLEAN /\ Over'[s] \in BOOLEAN
  /\ Flag'[s] \in [SyncStage -> BOOLEAN]
  /\ s \notin C => /\ Act'[s] = Act[s] /\ Rst'[s] = Rst[s] /\ Flag'[s] = Flag[s] /\ Word'[s] = Word[s]
                   /\ \A k \in SyncStage : Flag'[s][k] <=> Flag[s][k]
  /\ s \in C => /\ Act'[s] = IF RegisterResetActive = 1 THEN Rst[s] ELSE Rst'[s]
                /\ rin[s] \in BOOLEAN /\ (rin[s] = Act[Other(s)] \/ rin[s] = Act'[Other(s)])
                /\ Flag'[s][1] <=> rin[s]
                /\ \A k \in SyncStage : k # 1 => k - 1 \in SyncStage /\ (Flag'[s][k] <=> Flag[s][k - 1])

LEMMA FlagNext ==
  ASSUME TypeInv, NEW C \in SUBSET Side, NEW beat, NEW gin, NEW rin, Move(C, beat, gin, rin)
  PROVE  \A s \in Side : FlagMove(s, C, rin)
<1> SUFFICES ASSUME NEW s \in Side PROVE FlagMove(s, C, rin)
  OBVIOUS
<1>1. ASSUME NEW t \in Side
      PROVE  /\ Rst'[t] \in BOOLEAN
             /\ t \notin C => Act'[t] = Act[t] /\ Rst'[t] = Rst[t] /\ Flag'[t] = Flag[t] /\ Word'[t] = Word[t]
             /\ t \in C => /\ Act'[t] = IF RegisterResetActive = 1 THEN Rst[t] ELSE Rst'[t]
                           /\ rin[t] = Act[Other(t)] \/ rin[t] = Act'[Other(t)]
                           /\ Flag'[t] = Shift(Flag[t], rin[t])
             /\ Over'[t] = (~ResetsOver /\ (Over[t] \/ (t \in C /\ Act[t] /\ Flag[t][NumSyncStages])))
  BY DEF Move, Still, Tick, Resets
<1>2. \A t \in Side : Act'[t] \in BOOLEAN
  BY <1>1 DEF TypeInv
<1>3. Over'[s] \in BOOLEAN
  BY <1>1
<1>4. s \in C => rin[s] \in BOOLEAN
  BY <1>1, <1>2, OtherFacts DEF TypeInv
<1>5. CASE s \in C
  <2>1. Flag[s] \in [1 .. NumSyncStages -> BOOLEAN] /\ rin[s] \in BOOLEAN /\ NumSyncStages \in Nat \ {0}
    BY <1>4, <1>5, DelayFacts DEF TypeInv, SyncStage
  <2>2. Flag'[s] = [k \in 1 .. NumSyncStages |-> IF k = 1 THEN rin[s] ELSE Flag[s][k - 1]]
    <3>1. DOMAIN Flag[s] = 1 .. NumSyncStages
      BY <2>1
    <3> QED BY <1>1, <1>5, <3>1 DEF Shift
  <2>3. \A k \in SyncStage : k # 1 => k - 1 \in SyncStage
    BY DelayFacts DEF SyncStage
  <2>4. /\ Flag'[s][1] <=> rin[s]
        /\ \A k \in SyncStage : k # 1 => k - 1 \in SyncStage /\ (Flag'[s][k] <=> Flag[s][k - 1])
    BY <2>1, <2>2, <2>3, DelayFacts DEF SyncStage
  <2>5. \A k \in SyncStage : (IF k = 1 THEN rin[s] ELSE Flag[s][k - 1]) \in BOOLEAN
    BY <2>1, <2>3 DEF SyncStage
  <2>6. Flag'[s] \in [SyncStage -> BOOLEAN]
    BY <2>2, <2>5 DEF SyncStage
  <2> QED BY <1>1, <1>2, <1>3, <1>4, <1>5, <2>4, <2>6 DEF FlagMove
<1>6. CASE s \notin C
  <2>1. \A k \in SyncStage : Flag'[s][k] <=> Flag[s][k]
    BY <1>1, <1>6
  <2> QED BY <1>1, <1>2, <1>3, <1>6, <2>1 DEF TypeInv, FlagMove
<1> QED BY <1>5, <1>6

LEMMA ResetInvStep ==
  ASSUME TypeInv, ResetInv, NEW C \in SUBSET Side, NEW beat, NEW gin, NEW rin, Move(C, beat, gin, rin)
  PROVE  ResetInv'
<1> SUFFICES ASSUME NEW s \in Side
             PROVE  /\ s \in ended' => ~Rst'[s] /\ Over'[s]
                    /\ Over'[s] => s \in ended' \/ (Rst'[s] /\ Act'[s])
                    /\ Act'[s] => Rst'[s] \/ s \in ended'
                    /\ s \notin ended' => \A j \in SyncStage : Flag'[Other(s)][j] =>
                         Rst'[s] /\ Act'[s] /\ \A k \in SyncStage : k < j => Flag'[Other(s)][k]
                    /\ s \notin ended' /\ Over'[Other(s)] =>
                         Rst'[s] /\ Act'[s] /\ \A k \in SyncStage : Flag'[Other(s)][k]
  BY DEF ResetInv
<1> DEFINE r == Other(s)
<1>0. FlagMove(s, C, rin) /\ FlagMove(r, C, rin)
  BY FlagNext, OtherFacts
<1>1. r \in Side /\ Other(r) = s /\ r # s
  BY OtherFacts
<1>2. /\ \A t \in Side : Over'[t] = (~ResetsOver /\ (Over[t] \/ (t \in C /\ Act[t] /\ Flag[t][NumSyncStages])))
      /\ ended' = IF ResetsOver THEN {} ELSE ended \cup {t \in Side : Rst[t] /\ ~Rst'[t]}
  BY DEF Move, Resets
<1>3. NumSyncStages \in SyncStage /\ 1 \in SyncStage /\ SyncStage \subseteq Nat
      /\ \A k \in SyncStage : k <= NumSyncStages
  BY DelayFacts DEF SyncStage
<1> HIDE DEF r
<1>4. CASE ResetsOver
  <2>1. ended = Side /\ \A t \in Side : ~Rst[t] /\ ~Act[t] /\ \A i \in SyncStage : ~Flag[t][i]
    <3>1. ended = Side /\ ~push_reset_reg /\ ~pop_reset_reg
          /\ \A i \in SyncStage : ~push_pop_reset[i] /\ ~pop_push_reset[i]
      BY <1>4 DEF ResetsOver
    <3>2. ~push_rst /\ ~pop_rst
      BY <3>1, SideValues DEF ResetInv, Side
    <3> QED BY <3>1, <3>2, SideValues DEF Side, reset_active_push, reset_active_pop
  <2>2. \A t \in Side : ~Rst'[t]
    BY <2>1, ReleaseFacts
  <2>3. \A t \in Side : ~Act'[t]
    <3>1. \A t \in Side : FlagMove(t, C, rin)
      BY FlagNext
    <3> QED BY <2>1, <2>2, <3>1 DEF FlagMove
  <2>4. \A j \in SyncStage : ~Flag'[r][j]
    <3>1. CASE r \in C
      <4>1. ~rin[r]
        BY <1>0, <1>1, <2>1, <2>3, <3>1 DEF FlagMove
      <4> QED BY <1>0, <1>1, <2>1, <3>1, <4>1 DEF FlagMove
    <3>2. CASE r \notin C
      BY <1>0, <1>1, <2>1, <3>2 DEF FlagMove
    <3> QED BY <3>1, <3>2
  <2> QED BY <1>1, <1>2, <1>4, <2>2, <2>3, <2>4 DEF r
<1>5. CASE ~ResetsOver
  <2>1. s \in ended' => ~Rst'[s] /\ Over'[s]
    BY <1>0, <1>2, <1>5, ReleaseFacts DEF ResetInv, FlagMove
  <2>2. Rst[s] /\ Act[s] => s \in ended' \/ (Rst'[s] /\ Act'[s])
    BY <1>0, ReleaseFacts DEF FlagMove
  <2>3. Over'[s] => s \in ended' \/ (Rst'[s] /\ Act'[s])
    BY <1>2, <1>5, <2>2, ReleaseFacts DEF ResetInv
  <2>4. Act'[s] => Rst'[s] \/ s \in ended'
    BY <1>0, <1>2, <1>5, ReleaseFacts DEF ResetInv, FlagMove
  <2>5. ASSUME s \notin ended'
        PROVE  /\ s \notin ended
               /\ rin[r] /\ r \in C => Rst'[s] /\ Act'[s]
               /\ Rst[s] /\ Act[s] => Rst'[s] /\ Act'[s] /\ (r \in C => rin[r])
    <3>1. s \notin ended
      BY <1>2, <1>5, <2>5
    <3>2. Rst[s] /\ Act[s] => Rst'[s] /\ Act'[s]
      BY <2>2, <2>5
    <3>3. r \in C => rin[r] = Act[s] \/ rin[r] = Act'[s]
      BY <1>0, <1>1 DEF FlagMove
    <3>4. Act[s] => Rst[s]
      BY <3>1 DEF ResetInv
    <3> QED BY <2>4, <2>5, <3>1, <3>2, <3>3, <3>4
  <2>6. ASSUME s \notin ended', NEW j \in SyncStage, Flag'[r][j]
        PROVE  Rst'[s] /\ Act'[s] /\ \A k \in SyncStage : k < j => Flag'[r][k]
    <3>1. \A i \in SyncStage : Flag[r][i] => Rst[s] /\ Act[s] /\ \A k \in SyncStage : k < i => Flag[r][k]
      BY <2>5, <2>6 DEF ResetInv, r
    <3>2. CASE r \notin C
      <4>1. \A k \in SyncStage : Flag'[r][k] <=> Flag[r][k]
        BY <1>0, <1>1, <3>2 DEF FlagMove
      <4> QED BY <2>5, <2>6, <3>1, <4>1
    <3>3. CASE r \in C
      <4>1. (Flag'[r][1] <=> rin[r])
            /\ \A k \in SyncStage : k # 1 => k - 1 \in SyncStage /\ (Flag'[r][k] <=> Flag[r][k - 1])
        BY <1>0, <1>1, <3>3 DEF FlagMove
      <4>2. CASE j = 1
        BY <1>3, <2>5, <2>6, <3>3, <4>1, <4>2
      <4>3. CASE j # 1
        <5>1. Flag[r][j - 1] /\ j - 1 \in SyncStage
          BY <2>6, <4>1, <4>3
        <5>2. Rst[s] /\ Act[s] /\ \A k \in SyncStage : k < j - 1 => Flag[r][k]
          BY <3>1, <5>1
        <5>3. ASSUME NEW k \in SyncStage, k < j
              PROVE  Flag'[r][k]
          <6>1. CASE k = 1
            BY <2>5, <2>6, <3>3, <4>1, <5>2, <6>1
          <6>2. CASE k # 1
            <7>1. k - 1 \in SyncStage /\ k - 1 < j - 1 /\ (Flag'[r][k] <=> Flag[r][k - 1])
              BY <1>3, <4>1, <5>1, <5>3, <6>2
            <7> QED BY <5>2, <7>1
          <6> QED BY <6>1, <6>2
        <5> QED BY <2>5, <2>6, <5>2, <5>3
      <4> QED BY <4>2, <4>3
    <3> QED BY <3>2, <3>3
  <2>7. ASSUME s \notin ended', Over'[r]
        PROVE  Rst'[s] /\ Act'[s] /\ \A k \in SyncStage : Flag'[r][k]
    <3>1. Rst[s] /\ Act[s] /\ \A k \in SyncStage : Flag[r][k]
      <4>1. CASE Over[r]
        BY <2>5, <2>7, <4>1 DEF ResetInv, r
      <4>2. CASE Flag[r][NumSyncStages]
        <5>1. Rst[s] /\ Act[s] /\ \A k \in SyncStage : k < NumSyncStages => Flag[r][k]
          BY <1>3, <2>5, <2>7, <4>2 DEF ResetInv, r
        <5>2. \A k \in SyncStage : k = NumSyncStages \/ k < NumSyncStages
          BY DelayFacts DEF SyncStage
        <5> QED BY <4>2, <5>1, <5>2
      <4> QED BY <1>1, <1>2, <1>5, <2>7, <4>1, <4>2
    <3>2. Rst'[s] /\ Act'[s] /\ (r \in C => rin[r])
      BY <2>5, <2>7, <3>1
    <3> QED BY <1>0, <1>1, <3>1, <3>2 DEF FlagMove
  <2> QED BY <2>1, <2>3, <2>4, <2>6, <2>7 DEF r
<1> QED BY <1>4, <1>5

-----------------------------------------------------------------------------
\* The count after the beat, and what a step does to the counts and the words of s.
After(s, beat) == IF beat[s] THEN Succ(Cnt[s]) ELSE Cnt[s]

DataMove(s, C, beat, gin) ==
  /\ After(s, beat) \in Count /\ beat[s] \in BOOLEAN
  /\ beat[s] => ~Rst[s] /\ (Vis[s] \in Count => Room[s][Vis[s]] # 0)
  /\ s \notin C => /\ Cnt'[s] = Cnt[s] /\ Gray'[s] = Gray[s] /\ Saved'[s] = Saved[s] /\ Hold'[s] = Hold[s]
                   /\ Word'[s] = Word[s] /\ ~beat[s]
  /\ s \in C => /\ Cnt'[s] = IF Rst[s] THEN 0 ELSE After(s, beat)
                /\ Gray'[s] = Shift(Gray[s], Bin2Gray(After(s, beat)))
                /\ Gray'[s][1] = Bin2Gray(After(s, beat))
                /\ \A i \in 2 .. Delay[s] : i - 1 \in 1 .. Delay[s] /\ Gray'[s][i] = Gray[s][i - 1]
                /\ Saved'[s] = IF Rst[s] THEN 0 ELSE Vis[s]
                /\ Hold'[s] = IF ~Rst[s] THEN 0 ELSE IF Hold[s] < MinReset THEN Hold[s] + 1 ELSE Hold[s]
                /\ gin[s] \in SUBSET Bit
                /\ gin[s] \in Sampled(Gray[Other(s)][Delay[Other(s)]], Gray'[Other(s)][Delay[Other(s)]])
                /\ Word'[s][1] = gin[s]
                /\ \A k \in SyncStage : k # 1 => k - 1 \in SyncStage /\ Word'[s][k] = Word[s][k - 1]
  /\ Gray'[s] \in [1 .. Delay[s] -> SUBSET Bit] /\ Word'[s] \in [SyncStage -> SUBSET Bit]

LEMMA DataNext ==
  ASSUME TypeInv, NEW C \in SUBSET Side, NEW beat, NEW gin, NEW rin, Move(C, beat, gin, rin)
  PROVE  \A s \in Side : DataMove(s, C, beat, gin)
<1>1. ASSUME NEW s \in Side
      PROVE  /\ After(s, beat) \in Count /\ beat[s] \in BOOLEAN
             /\ CountAfter(Cnt[s], beat[s]) = After(s, beat)
  <2>1. Cnt[s] \in Count /\ beat[s] \in BOOLEAN
    BY DEF TypeInv, Move
  <2> QED BY <2>1, SuccFacts DEF After, CountAfter, Succ
<1>2. \A n : Bin2Gray(n) \in SUBSET Bit
  BY DEF Bin2Gray
<1>3. ASSUME NEW s \in Side
      PROVE  /\ Gray'[s] \in [1 .. Delay[s] -> SUBSET Bit]
             /\ s \in C => /\ Gray'[s] = Shift(Gray[s], Bin2Gray(After(s, beat)))
                           /\ Gray'[s][1] = Bin2Gray(After(s, beat))
                           /\ \A i \in 2 .. Delay[s] : i - 1 \in 1 .. Delay[s] /\ Gray'[s][i] = Gray[s][i - 1]
  <2>1. CASE s \in C
    <3>1. Gray'[s] = Shift(Gray[s], Bin2Gray(After(s, beat)))
      BY <1>1, <2>1 DEF Move, Tick
    <3>2. Delay[s] \in Nat \ {0} /\ Gray[s] \in [1 .. Delay[s] -> SUBSET Bit]
          /\ Bin2Gray(After(s, beat)) \in SUBSET Bit
      BY <1>2, DelayFacts DEF TypeInv
    <3> QED BY <2>1, <3>1, <3>2, ShiftWords
  <2>2. CASE s \notin C
    BY <2>2 DEF Move, Still, TypeInv
  <2> QED BY <2>1, <2>2
<1>4. ASSUME NEW s \in Side
      PROVE  /\ Word'[s] \in [SyncStage -> SUBSET Bit]
             /\ s \in C => /\ gin[s] \in SUBSET Bit
                           /\ gin[s] \in Sampled(Gray[Other(s)][Delay[Other(s)]],
                                                Gray'[Other(s)][Delay[Other(s)]])
                           /\ Word'[s][1] = gin[s]
                           /\ \A k \in SyncStage : k # 1 => k - 1 \in SyncStage /\ Word'[s][k] = Word[s][k - 1]
  <2>1. CASE s \in C
    <3>1. /\ Word'[s] = Shift(Word[s], gin[s])
          /\ gin[s] \in Sampled(Gray[Other(s)][Delay[Other(s)]], Gray'[Other(s)][Delay[Other(s)]])
      BY <2>1 DEF Move, Tick
    <3>2. /\ Gray[Other(s)] \in [1 .. Delay[Other(s)] -> SUBSET Bit]
          /\ Gray'[Other(s)] \in [1 .. Delay[Other(s)] -> SUBSET Bit]
          /\ Delay[Other(s)] \in 1 .. Delay[Other(s)]
      BY <1>3, OtherFacts, DelayFacts DEF TypeInv
    <3>3. gin[s] \in SUBSET Bit
      BY <3>1, <3>2 DEF Sampled
    <3>4. NumSyncStages \in Nat \ {0} /\ Word[s] \in [1 .. NumSyncStages -> SUBSET Bit]
      BY DelayFacts DEF TypeInv, SyncStage
    <3>5. /\ Word'[s] \in [1 .. NumSyncStages -> SUBSET Bit] /\ Word'[s][1] = gin[s]
          /\ \A k \in 2 .. NumSyncStages : k - 1 \in 1 .. NumSyncStages /\ Word'[s][k] = Word[s][k - 1]
      <4>1. /\ Shift(Word[s], gin[s]) \in [1 .. NumSyncStages -> SUBSET Bit]
            /\ Shift(Word[s], gin[s])[1] = gin[s]
            /\ \A k \in 2 .. NumSyncStages : k - 1 \in 1 .. NumSyncStages
                                            /\ Shift(Word[s], gin[s])[k] = Word[s][k - 1]
        BY <3>3, <3>4, ShiftWords
      <4> QED BY <3>1, <4>1
    <3>6. \A k \in SyncStage : k # 1 => k \in 2 .. NumSyncStages
      BY DelayFacts DEF SyncStage
    <3> QED BY <3>1, <3>3, <3>5, <3>6 DEF SyncStage
  <2>2. CASE s \notin C
    BY <2>2 DEF Move, Still, TypeInv
  <2> QED BY <2>1, <2>2
<1> SUFFICES ASSUME NEW s \in Side PROVE DataMove(s, C, beat, gin)
  OBVIOUS
<1>5. beat[s] => ~Rst[s] /\ (Vis[s] \in Count => Room[s][Vis[s]] # 0)
  BY DEF Move, Still, Tick
<1>6. s \notin C =>
        /\ Cnt'[s] = Cnt[s] /\ Gray'[s] = Gray[s] /\ Saved'[s] = Saved[s] /\ Hold'[s] = Hold[s]
        /\ Word'[s] = Word[s] /\ ~beat[s]
  BY DEF Move, Still
<1>7. s \in C =>
        /\ Cnt'[s] = IF Rst[s] THEN 0 ELSE After(s, beat)
        /\ Saved'[s] = IF Rst[s] THEN 0 ELSE Vis[s]
        /\ Hold'[s] = IF ~Rst[s] THEN 0 ELSE IF Hold[s] < MinReset THEN Hold[s] + 1 ELSE Hold[s]
  <2>1. s \in C => Tick(s, beat, gin, rin)
    BY DEF Move
  <2>2. Rst[s] \in BOOLEAN
    BY DEF TypeInv
  <2>3. Held(Rst[s], Hold[s]) = IF ~Rst[s] THEN 0 ELSE IF Hold[s] < MinReset THEN Hold[s] + 1 ELSE Hold[s]
    BY <2>2 DEF Held
  <2> QED BY <1>1, <2>1, <2>3 DEF Tick
<1> QED BY <1>1, <1>3, <1>4, <1>5, <1>6, <1>7 DEF DataMove

LEMMA TypeInvStep ==
  ASSUME TypeInv, NEW C \in SUBSET Side, NEW beat, NEW gin, NEW rin, Move(C, beat, gin, rin)
  PROVE  TypeInv'
<1>1. ASSUME NEW s \in Side
      PROVE  /\ Rst'[s] \in BOOLEAN /\ Act'[s] \in BOOLEAN /\ Over'[s] \in BOOLEAN
             /\ Hold'[s] \in 0 .. MinReset
             /\ Cnt'[s] \in Count /\ Gray'[s] \in [1 .. Delay[s] -> SUBSET Bit]
             /\ Word'[s] \in [SyncStage -> SUBSET Bit] /\ Flag'[s] \in [SyncStage -> BOOLEAN]
  <2>1. FlagMove(s, C, rin) /\ DataMove(s, C, beat, gin)
    BY FlagNext, DataNext
  <2>2. Hold[s] \in 0 .. MinReset /\ Cnt[s] \in Count /\ MinReset \in Nat \ {0} /\ 0 \in Count
    BY CdcAssumption, ZeroCode DEF TypeInv
  <2>3. Hold'[s] \in 0 .. MinReset
    BY <2>1, <2>2 DEF DataMove
  <2> QED BY <2>1, <2>2, <2>3 DEF FlagMove, DataMove
<1>2. ended' \in SUBSET Side
  BY DEF Move, Resets, TypeInv
<1> QED BY <1>1, <1>2 DEF TypeInv, Delay

-----------------------------------------------------------------------------
(* Zeros.  A reset that has been held clears the count, what has been saved  *)
(* and, beat by beat, the code on its way; and a side that left reset first  *)
(* keeps the zero it saved until the other one leaves its reset.            *)
ZeroInv ==
  /\ \A s \in Side :
       /\ Rst[s] /\ Hold[s] >= 1 => Cnt[s] = 0 /\ Saved[s] = 0
       /\ Rst[s] => \A i \in 1 .. Delay[s] : Hold[s] >= i + 1 => Gray[s][i] = {}
       /\ s \in ended /\ Other(s) \notin ended => Saved[s] = 0
  /\ "pop" \in ended /\ "push" \notin ended => Cnt["pop"] = 0

\* A side that left reset first falls back on what it has saved.
LEMMA FirstOut ==
  ASSUME TypeInv, ResetInv, NEW s \in Side, s \in ended, Other(s) \notin ended
  PROVE  /\ ~Rst[s] /\ Rst[Other(s)] /\ Act[Other(s)]
         /\ \A k \in SyncStage : Flag[s][k]
         /\ Vis[s] = Saved[s]
<1>1. ~Rst[s] /\ Over[s]
  BY DEF ResetInv
<1>2. Other(s) \in Side /\ Other(Other(s)) = s
  BY OtherFacts
<1>3. Rst[Other(s)] /\ Act[Other(s)] /\ \A k \in SyncStage : Flag[s][k]
  BY <1>1, <1>2 DEF ResetInv
<1>4. Vis[s] = Saved[s]
  BY <1>3, DelayFacts DEF Vis, Visible
<1> QED BY <1>1, <1>3, <1>4

LEMMA ZeroInvStep ==
  ASSUME TypeInv, ResetInv, ZeroInv,
         NEW C \in SUBSET Side, NEW beat, NEW gin, NEW rin, Move(C, beat, gin, rin)
  PROVE  ZeroInv'
<1>1. ASSUME NEW s \in Side
      PROVE  /\ FlagMove(s, C, rin) /\ DataMove(s, C, beat, gin)
             /\ Rst[s] \in BOOLEAN /\ Hold[s] \in 0 .. MinReset /\ MinReset \in Nat \ {0}
             /\ Delay[s] \in Nat \ {0}
  BY FlagNext, DataNext, CdcAssumption, DelayFacts DEF TypeInv
<1>2. ASSUME NEW s \in Side, Rst'[s], Hold'[s] >= 1
      PROVE  Cnt'[s] = 0 /\ Saved'[s] = 0
  <2>1. CASE s \in C
    <3>1. Rst[s]
      BY <1>1, <1>2, <2>1 DEF DataMove
    <3> QED BY <1>1, <2>1, <3>1 DEF DataMove
  <2>2. CASE s \notin C
    BY <1>1, <1>2, <2>2 DEF DataMove, FlagMove, ZeroInv
  <2> QED BY <2>1, <2>2
<1>3. ASSUME NEW s \in Side, Rst'[s], NEW i \in 1 .. Delay[s], Hold'[s] >= i + 1
      PROVE  Gray'[s][i] = {}
  <2>1. CASE s \in C
    <3>1. Rst[s] /\ Hold[s] >= i /\ Hold[s] >= 1
      <4>1. Hold'[s] = IF ~Rst[s] THEN 0 ELSE IF Hold[s] < MinReset THEN Hold[s] + 1 ELSE Hold[s]
        BY <1>1, <2>1 DEF DataMove
      <4> QED BY <1>1, <1>3, <4>1
    <3>2. CASE i = 1
      <4>1. After(s, beat) = 0
        BY <1>1, <3>1 DEF DataMove, After, ZeroInv
      <4> QED BY <1>1, <2>1, <3>2, <4>1, ZeroCode DEF DataMove
    <3>3. CASE i # 1
      <4>1. i \in 2 .. Delay[s] /\ i - 1 \in 1 .. Delay[s] /\ Hold[s] >= (i - 1) + 1
        BY <1>1, <1>3, <3>1, <3>3
      <4>2. Gray[s][i - 1] = {}
        BY <3>1, <4>1 DEF ZeroInv
      <4> QED BY <1>1, <2>1, <4>1, <4>2 DEF DataMove
    <3> QED BY <3>2, <3>3
  <2>2. CASE s \notin C
    BY <1>1, <1>3, <2>2 DEF DataMove, FlagMove, ZeroInv
  <2> QED BY <2>1, <2>2
<1>4. ~ResetsOver \/ ended' = {}
  BY DEF Move, Resets
<1>5. ASSUME NEW s \in Side, s \in ended', Other(s) \notin ended'
      PROVE  /\ Other(s) \notin ended
             /\ s \in ended \/ (Rst[s] /\ ~Rst'[s] /\ s \in C)
  <2>1. ~ResetsOver
    BY <1>4, <1>5
  <2> QED BY <1>5, <2>1, OtherFacts, ReleaseFacts
<1>6. ASSUME NEW s \in Side, s \in ended', Other(s) \notin ended'
      PROVE  Saved'[s] = 0
  <2>1. CASE s \in ended
    <3>1. Saved[s] = 0 /\ Vis[s] = Saved[s]
      BY <1>5, <1>6, <2>1, FirstOut DEF ZeroInv
    <3> QED BY <1>1, <3>1 DEF DataMove
  <2>2. CASE Rst[s] /\ ~Rst'[s] /\ s \in C
    BY <1>1, <2>2 DEF DataMove
  <2> QED BY <1>5, <1>6, <2>1, <2>2
<1>7. ASSUME "pop" \in ended', "push" \notin ended'
      PROVE  Cnt'["pop"] = 0
  <2>1. "pop" \in Side /\ Other("pop") = "push"
    BY DEF Side, Other
  <2>2. CASE "pop" \in ended
    <3>1. "push" \notin ended /\ Cnt["pop"] = 0 /\ Saved["pop"] = 0 /\ Vis["pop"] = 0 /\ ~Rst["pop"]
      BY <1>5, <1>7, <2>1, <2>2, FirstOut DEF ZeroInv
    <3>2. Room["pop"][0] = 0
      <4>1. Popped = 0
        BY <3>1, SideValues DEF Popped
      <4>2. Difference(0, 0) = 0
        BY ZeroCode, DifferenceFacts
      <4> QED BY <2>1, <4>1, <4>2, ZeroCode DEF Room
    <3>3. ~beat["pop"]
      BY <1>1, <2>1, <3>1, <3>2, ZeroCode DEF DataMove
    <3>4. After("pop", beat) = 0
      BY <3>1, <3>3 DEF After
    <3> QED BY <1>1, <2>1, <3>1, <3>4 DEF DataMove
  <2>3. CASE Rst["pop"] /\ ~Rst'["pop"] /\ "pop" \in C
    BY <1>1, <2>1, <2>3 DEF DataMove
  <2> QED BY <1>5, <1>7, <2>1, <2>2, <2>3
<1> QED BY <1>2, <1>3, <1>6, <1>7 DEF ZeroInv, Delay

-----------------------------------------------------------------------------
(* Counts on their way.  room is Room[r]: the further a word has come, the   *)
(* less room it promises to r, and none more than there is.                  *)

\* What r holds of the other side: base, and the words w of the stages in T.
Received(room, base, w, T) ==
  /\ base \in Count /\ room[base] \in 0 .. Depth
  /\ \A k \in T : w[k] \in Words /\ room[Val(w[k])] \in room[base] .. Depth
  /\ \A k, j \in T : k < j => room[Val(w[j])] <= room[Val(w[k])]

\* The codes g of the other side's count c, n stages before they cross.
Live(g, c, n) ==
  /\ g[1] = Bin2Gray(c)
  /\ \A i \in 1 .. n : g[i] \in Words
  /\ \A i \in 2 .. n : g[i - 1] = g[i] \/ g[i - 1] = Bin2Gray(Succ(Val(g[i])))

\* What r holds is older than what is yet to cross.
Linked(room, base, w, T, g, c, n) ==
  /\ room[c] \in 0 .. Depth
  /\ \A i \in 1 .. n : room[base] <= room[Val(g[i])] /\ room[Val(g[i])] <= room[c]
  /\ \A i, j \in 1 .. n : i <= j => room[Val(g[j])] <= room[Val(g[i])]
  /\ \A k \in T : room[Val(w[k])] <= room[Val(g[n])]

IsRoom(room) ==
  /\ room \in [Count -> Int]
  /\ \A x \in Count : room[x] <= Depth - 1 => room[Succ(x)] = room[x] + 1

\* r has used a place.
Lower(room, room2) ==
  /\ room2 \in [Count -> Int]
  /\ \A x \in Count : room[x] >= 1 => room2[x] = room[x] - 1

\* A source that counts on changes one bit of the code that crosses.
LEMMA LiveMoves ==
  ASSUME NEW n \in Nat \ {0}, NEW g, NEW c \in Count, NEW g2, NEW c2 \in Count, Live(g, c, n),
         c2 = c \/ c2 = Succ(c), g2[1] = Bin2Gray(c2), \A i \in 2 .. n : g2[i] = g[i - 1]
  PROVE  Live(g2, c2, n) /\ (g[n] = g2[n] \/ OneBit(g[n], g2[n]))
<1>1. /\ \A x \in Count : Val(Bin2Gray(x)) = x /\ Bin2Gray(x) \in Words
      /\ \A i \in 1 .. n : g[i] \in Words /\ Val(g[i]) \in Count
  BY GrayRoundTrip, WordFacts DEF Live, Words, Val
<1>2. /\ n \in 1 .. n /\ 1 \in 1 .. n
      /\ \A i \in 2 .. n : i - 1 \in 1 .. n /\ i \in 1 .. n /\ i # 1
      /\ \A i \in 1 .. n : i = 1 \/ i \in 2 .. n
  OBVIOUS
<1>3. \A i \in 1 .. n : g2[i] \in Words
  BY <1>1, <1>2
<1>4. \A i \in 2 .. n : g2[i - 1] = g2[i] \/ g2[i - 1] = Bin2Gray(Succ(Val(g2[i])))
  <2> TAKE i \in 2 .. n
  <2>1. CASE i = 2
    <3>1. g2[2] = Bin2Gray(c) /\ Val(g2[2]) = c /\ g2[1] = Bin2Gray(c2)
      BY <1>1, <2>1 DEF Live
    <3> QED BY <2>1, <3>1
  <2>2. CASE i # 2
    <3>1. i - 1 \in 2 .. n /\ g2[i] = g[i - 1] /\ g2[i - 1] = g[(i - 1) - 1]
      BY <2>2
    <3> QED BY <3>1 DEF Live
  <2> QED BY <2>1, <2>2
<1>5. g[n] = g2[n] \/ OneBit(g[n], g2[n])
  <2>1. CASE n = 1
    <3>1. g[1] = Bin2Gray(c)
      BY DEF Live
    <3>2. c2 = c \/ OneBit(Bin2Gray(c), Bin2Gray(c2))
      BY CodesInOneBit
    <3> QED BY <2>1, <3>1, <3>2
  <2>2. CASE n \in 2 .. n
    <3>1. g2[n] = g[n - 1]
      BY <2>2
    <3>2. g[n - 1] = g[n] \/ g[n - 1] = Bin2Gray(Succ(Val(g[n])))
      BY <2>2 DEF Live
    <3>3. OneBit(Bin2Gray(Val(g[n])), Bin2Gray(Succ(Val(g[n])))) /\ Bin2Gray(Val(g[n])) = g[n]
      BY <1>1, <1>2, CodesInOneBit, WordFacts
    <3> QED BY <3>1, <3>2, <3>3
  <2> QED BY <1>2, <2>1, <2>2
<1> QED BY <1>3, <1>4, <1>5 DEF Live

LEMMA SourceMoves ==
  ASSUME NEW room, IsRoom(room), NEW base, NEW w, NEW T \in SUBSET SyncStage, NEW n \in Nat \ {0},
         NEW g, NEW c \in Count, NEW g2, NEW c2 \in Count,
         Received(room, base, w, T), Live(g, c, n), Linked(room, base, w, T, g, c, n),
         c2 = c \/ (c2 = Succ(c) /\ room[c] <= Depth - 1),
         g2[1] = Bin2Gray(c2), \A i \in 2 .. n : g2[i] = g[i - 1]
  PROVE  /\ Live(g2, c2, n) /\ Linked(room, base, w, T, g2, c2, n)
         /\ \A in \in Sampled(g[n], g2[n]) : in = g[n] \/ in = g2[n]
         /\ room[Val(g[n])] <= room[Val(g2[n])]
<1>1. /\ \A x \in Count : room[x] \in Int /\ Val(Bin2Gray(x)) = x /\ Bin2Gray(x) \in Words
      /\ \A i \in 1 .. n : g[i] \in Words /\ Val(g[i]) \in Count /\ room[Val(g[i])] \in Int
      /\ base \in Count /\ room[base] \in Int /\ Depth \in Nat
  BY GrayRoundTrip, WordFacts, CountFacts DEF IsRoom, Live, Received, Words, Val
<1>2. /\ n \in 1 .. n /\ 1 \in 1 .. n
      /\ \A i \in 2 .. n : i - 1 \in 1 .. n /\ i \in 1 .. n /\ i # 1
      /\ \A i \in 1 .. n : i = 1 \/ i \in 2 .. n
  OBVIOUS
<1>3. room[c] <= room[c2] /\ room[c2] \in 0 .. Depth
  BY <1>1 DEF IsRoom, Linked
<1>4. \A i \in 1 .. n : /\ g2[i] \in Words /\ Val(g2[i]) \in Count /\ room[Val(g2[i])] \in Int
                       /\ room[base] <= room[Val(g2[i])] /\ room[Val(g2[i])] <= room[c2]
  <2> TAKE i \in 1 .. n
  <2>1. CASE i = 1
    <3>1. room[base] <= room[Val(g[1])] /\ room[Val(g[1])] <= room[c]
      BY <1>2 DEF Linked
    <3>2. Val(g2[1]) = c2 /\ g2[1] \in Words
      BY <1>1
    <3> QED BY <1>1, <1>2, <1>3, <2>1, <3>1, <3>2
  <2>2. CASE i \in 2 .. n
    <3>1. room[base] <= room[Val(g[i - 1])] /\ room[Val(g[i - 1])] <= room[c] /\ g2[i] = g[i - 1]
      BY <1>2, <2>2 DEF Linked
    <3> QED BY <1>1, <1>2, <1>3, <2>2, <3>1
  <2> QED BY <1>2, <2>1, <2>2
<1>5. \A i, j \in 1 .. n : i <= j => room[Val(g2[j])] <= room[Val(g2[i])]
  <2> TAKE i, j \in 1 .. n
  <2>1. CASE i = 1
    <3>1. Val(g2[1]) = c2
      BY <1>1
    <3> QED BY <1>4, <2>1, <3>1
  <2>2. CASE i \in 2 .. n /\ i <= j
    <3>1. j \in 2 .. n /\ i - 1 <= j - 1
      BY <2>2
    <3>2. room[Val(g[j - 1])] <= room[Val(g[i - 1])]
      BY <1>2, <2>2, <3>1 DEF Linked
    <3> QED BY <2>2, <3>1, <3>2
  <2> QED BY <1>2, <2>1, <2>2
<1>6. room[Val(g[n])] <= room[Val(g2[n])]
  <2>1. CASE n = 1
    <3>1. g[1] = Bin2Gray(c) /\ Val(g[1]) = c /\ Val(g2[1]) = c2
      BY <1>1 DEF Live
    <3> QED BY <1>3, <2>1, <3>1
  <2>2. CASE n \in 2 .. n
    <3>1. g2[n] = g[n - 1] /\ n - 1 \in 1 .. n /\ n - 1 <= n
      BY <1>2, <2>2
    <3>2. room[Val(g[n])] <= room[Val(g[n - 1])]
      BY <1>2, <3>1 DEF Linked
    <3> QED BY <3>1, <3>2
  <2> QED BY <1>2, <2>1, <2>2
<1>7. Live(g2, c2, n) /\ (g[n] = g2[n] \/ OneBit(g[n], g2[n]))
  BY LiveMoves
<1>8. \A in \in Sampled(g[n], g2[n]) : in = g[n] \/ in = g2[n]
  BY <1>7, SampledIsOneOfTheTwo
<1>9. \A k \in T : room[Val(w[k])] <= room[Val(g2[n])]
  <2> TAKE k \in T
  <2>1. room[Val(w[k])] <= room[Val(g[n])] /\ room[Val(w[k])] \in Int
    BY <1>1, WordFacts DEF Linked, Received
  <2> QED BY <1>1, <1>2, <1>4, <1>6, <2>1
<1>10. Linked(room, base, w, T, g2, c2, n)
  BY <1>3, <1>4, <1>5, <1>9 DEF Linked
<1> QED BY <1>6, <1>7, <1>8, <1>10

LEMMA ReceiverMoves ==
  ASSUME NEW room, IsRoom(room), NEW base, NEW w, NEW T \in SUBSET SyncStage,
         NEW base2, NEW w2, NEW T2 \in SUBSET SyncStage, Received(room, base, w, T),
         \A k \in T2 : k # 1 => k - 1 \in T /\ w2[k] = w[k - 1],
         base2 = base \/ (NumSyncStages \in T /\ base2 = Val(w[NumSyncStages])),
         1 \in T2 => /\ w2[1] \in Words /\ room[Val(w2[1])] \in room[base] .. Depth
                    /\ \A k \in T : room[Val(w[k])] <= room[Val(w2[1])]
  PROVE  /\ Received(room, base2, w2, T2)
         /\ \A g, c, n : n \in Nat \ {0} /\ Linked(room, base, w, T, g, c, n) /\ Live(g, c, n)
                /\ (1 \in T2 => room[Val(w2[1])] <= room[Val(g[n])])
              => Linked(room, base2, w2, T2, g, c, n)
<1>1. /\ \A x \in Count : room[x] \in Int
      /\ \A k \in T : Val(w[k]) \in Count /\ room[Val(w[k])] \in Int /\ room[Val(w[k])] \in room[base] .. Depth
                     /\ w[k] \in Words
      /\ base \in Count /\ room[base] \in Int /\ room[base] \in 0 .. Depth /\ Depth \in Nat
      /\ \A k, j \in T : k < j => room[Val(w[j])] <= room[Val(w[k])]
  BY WordFacts, CountFacts DEF IsRoom, Received
<1>2. \A k \in SyncStage : k \in Nat /\ 1 <= k /\ k <= NumSyncStages /\ (k # 1 => k - 1 < NumSyncStages)
  BY DelayFacts DEF SyncStage
<1>3. base2 \in Count /\ room[base2] \in room[base] .. Depth /\ room[base2] \in 0 .. Depth
  BY <1>1
<1>4. \A k \in T : k < NumSyncStages => room[base2] <= room[Val(w[k])]
  BY <1>1
<1>5. \A k \in T2 : w2[k] \in Words /\ room[Val(w2[k])] \in room[base2] .. Depth
  <2> TAKE k \in T2
  <2>1. CASE k = 1
    <3>1. room[Val(w2[1])] \in room[base] .. Depth /\ w2[1] \in Words /\ room[Val(w2[1])] \in Int
      BY <1>1, <2>1, WordFacts
    <3>2. room[base2] <= room[Val(w2[1])]
      <4>1. NumSyncStages \in T => room[Val(w[NumSyncStages])] <= room[Val(w2[1])]
        BY <2>1
      <4>2. room[base] <= room[Val(w2[1])]
        BY <1>1, <3>1
      <4> QED BY <4>1, <4>2
    <3> QED BY <1>1, <1>3, <2>1, <3>1, <3>2
  <2>2. CASE k # 1
    <3>1. k - 1 \in T /\ k - 1 < NumSyncStages /\ w2[k] = w[k - 1]
      BY <1>2, <2>2
    <3> QED BY <1>1, <1>3, <1>4, <3>1
  <2> QED BY <2>1, <2>2
<1>6. \A k, j \in T2 : k < j => room[Val(w2[j])] <= room[Val(w2[k])]
  <2> TAKE k, j \in T2
  <2> SUFFICES ASSUME k < j PROVE room[Val(w2[j])] <= room[Val(w2[k])]
    OBVIOUS
  <2>1. j # 1 /\ j - 1 \in T /\ w2[j] = w[j - 1]
    BY <1>2
  <2>2. CASE k = 1
    BY <2>1, <2>2
  <2>3. CASE k # 1
    <3>1. k - 1 \in T /\ w2[k] = w[k - 1] /\ k - 1 < j - 1
      BY <1>2, <2>1, <2>3
    <3> QED BY <1>1, <2>1, <3>1
  <2> QED BY <2>2, <2>3
<1>7. Received(room, base2, w2, T2)
  BY <1>3, <1>5, <1>6 DEF Received
<1>8. ASSUME NEW g, NEW c, NEW n, n \in Nat \ {0}, Linked(room, base, w, T, g, c, n), Live(g, c, n),
             1 \in T2 => room[Val(w2[1])] <= room[Val(g[n])]
      PROVE  Linked(room, base2, w2, T2, g, c, n)
  <2>1. \A i \in 1 .. n : room[Val(g[i])] \in Int
    BY <1>1, <1>8, WordFacts DEF Live
  <2>2. n \in 1 .. n /\ \A i \in 1 .. n : i <= n
    BY <1>8
  <2>3. \A i \in 1 .. n : room[base2] <= room[Val(g[i])]
    <3> TAKE i \in 1 .. n
    <3>1. room[base] <= room[Val(g[i])] /\ room[Val(g[n])] <= room[Val(g[i])]
      BY <1>8, <2>2 DEF Linked
    <3>2. NumSyncStages \in T => room[Val(w[NumSyncStages])] <= room[Val(g[n])]
      BY <1>8 DEF Linked
    <3> QED BY <1>1, <2>1, <2>2, <3>1, <3>2
  <2>4. \A k \in T2 : room[Val(w2[k])] <= room[Val(g[n])]
    <3> TAKE k \in T2
    <3>1. CASE k = 1
      BY <1>8, <3>1
    <3>2. CASE k # 1
      BY <1>8, <3>2 DEF Linked
    <3> QED BY <3>1, <3>2
  <2> QED BY <1>8, <2>3, <2>4 DEF Linked
<1> QED BY <1>7, <1>8

LEMMA RoomUsed ==
  ASSUME NEW room, IsRoom(room), NEW room2, Lower(room, room2), NEW base, NEW w, NEW T \in SUBSET SyncStage,
         Received(room, base, w, T), room[base] >= 1
  PROVE  /\ Received(room2, base, w, T)
         /\ \A g, c, n : c \in Count /\ n \in Nat \ {0} /\ Live(g, c, n) /\ Linked(room, base, w, T, g, c, n)
              => Linked(room2, base, w, T, g, c, n)
<1>1. /\ \A x \in Count : room[x] \in Int /\ (room[x] >= 1 => room2[x] = room[x] - 1)
      /\ \A k \in T : w[k] \in Words /\ Val(w[k]) \in Count /\ room[Val(w[k])] \in room[base] .. Depth
      /\ base \in Count /\ room[base] \in 0 .. Depth /\ Depth \in Nat
      /\ \A k, j \in T : k < j => room[Val(w[j])] <= room[Val(w[k])]
  BY WordFacts, CountFacts DEF IsRoom, Received, Lower
<1>2. \A x \in Count : room[x] >= room[base] => room2[x] = room[x] - 1
  BY <1>1
<1>3. room2[base] = room[base] - 1 /\ room2[base] \in 0 .. Depth
  BY <1>1
<1>4. \A k \in T : room2[Val(w[k])] = room[Val(w[k])] - 1 /\ room[Val(w[k])] \in Int
  BY <1>1, <1>2
<1>5. Received(room2, base, w, T)
  <2>1. \A k \in T : room2[Val(w[k])] \in room2[base] .. Depth
    BY <1>1, <1>3, <1>4
  <2>2. \A k, j \in T : k < j => room2[Val(w[j])] <= room2[Val(w[k])]
    BY <1>1, <1>4
  <2> QED BY <1>1, <1>3, <2>1, <2>2 DEF Received
<1>6. ASSUME NEW g, NEW c, NEW n, c \in Count, n \in Nat \ {0}, Live(g, c, n), Linked(room, base, w, T, g, c, n)
      PROVE  Linked(room2, base, w, T, g, c, n)
  <2>1. \A i \in 1 .. n : /\ Val(g[i]) \in Count /\ room[Val(g[i])] \in Int
                         /\ room[base] <= room[Val(g[i])] /\ room[Val(g[i])] <= room[c]
    BY <1>1, <1>6, WordFacts DEF Live, Linked
  <2>2. \A i \in 1 .. n : room2[Val(g[i])] = room[Val(g[i])] - 1
    BY <1>1, <1>2, <2>1
  <2>3. 1 \in 1 .. n /\ n \in 1 .. n
    BY <1>6
  <2>4. room[c] \in 0 .. Depth /\ room2[c] = room[c] - 1 /\ room2[c] \in 0 .. Depth
    <3>1. room[c] \in 0 .. Depth /\ room[base] <= room[c]
      BY <1>1, <1>6, <2>1, <2>3 DEF Linked
    <3> QED BY <1>1, <1>2, <1>6, <3>1
  <2>5. \A i \in 1 .. n : room2[base] <= room2[Val(g[i])] /\ room2[Val(g[i])] <= room2[c]
    BY <1>1, <1>3, <2>1, <2>2, <2>4
  <2>6. \A i, j \in 1 .. n : i <= j => room2[Val(g[j])] <= room2[Val(g[i])]
    <3>1. \A i, j \in 1 .. n : i <= j => room[Val(g[j])] <= room[Val(g[i])]
      BY <1>6 DEF Linked
    <3> QED BY <2>1, <2>2, <3>1
  <2>7. \A k \in T : room2[Val(w[k])] <= room2[Val(g[n])]
    <3>1. \A k \in T : room[Val(w[k])] <= room[Val(g[n])]
      BY <1>6 DEF Linked
    <3> QED BY <1>4, <2>1, <2>2, <2>3, <3>1
  <2> QED BY <2>4, <2>5, <2>6, <2>7 DEF Linked
<1> QED BY <1>5, <1>6

-----------------------------------------------------------------------------
\* The room of r once r has counted to p.
RoomOf(r, p) == IF r = "push" THEN [x \in Count |-> Depth - Difference(p, x)]
                              ELSE [x \in Count |-> Difference(x, p)]

LEMMA RoomValues ==
  ASSUME NEW r \in Side
  PROVE  /\ Room[r] = RoomOf(r, IF Rst[r] THEN 0 ELSE Cnt[r])
         /\ Room'[r] = RoomOf(r, IF Rst'[r] THEN 0 ELSE Cnt'[r])
<1>1. r = "push" \/ r = "pop"
  BY DEF Side
<1>2. Room[r] = RoomOf(r, IF Rst[r] THEN 0 ELSE Cnt[r])
  BY <1>1, SideValues DEF Room, RoomOf, Pushed, Popped
<1>3. Room'[r] = RoomOf(r, IF Rst'[r] THEN 0 ELSE Cnt'[r])
  BY <1>1, SideValuesNext DEF Room, RoomOf, Pushed, Popped
<1> QED BY <1>2, <1>3

LEMMA RoomOfFacts ==
  ASSUME NEW r \in Side, NEW p \in Count
  PROVE  /\ IsRoom(RoomOf(r, p))
         /\ RoomOf(r, 0)[0] \in 0 .. Depth
         /\ Lower(RoomOf(r, p), RoomOf(r, Succ(p)))
         /\ \A q \in Count : RoomOf(Other(r), q)[p] + RoomOf(r, p)[q] = Depth
<1> DEFINE M == MaxCountP1
<1>1. M \in Nat /\ M > Depth /\ Depth \in Nat /\ Depth >= 2 /\ Count = 0 .. M - 1
  BY CountFacts DEF Count
<1>2. \A a, b \in Count : Difference(a, b) = IF a >= b THEN a - b ELSE a - b + M
  BY DifferenceFacts
<1>3. \A a \in Count : Succ(a) \in Count /\ Succ(a) = IF a = M - 1 THEN 0 ELSE a + 1
  BY SuccFacts
<1>4. r = "push" \/ r = "pop"
  BY DEF Side
<1> HIDE DEF M
<1>5. ASSUME NEW a \in Count, NEW b \in Count
      PROVE  /\ Difference(a, b) \in 0 .. M - 1
             /\ Difference(a, b) < M - 1 => Difference(Succ(a), b) = Difference(a, b) + 1
             /\ Difference(a, b) >= 1 => Difference(a, Succ(b)) = Difference(a, b) - 1
  <2>1. /\ a \in Nat /\ b \in Nat /\ M \in Nat /\ a <= M - 1 /\ b <= M - 1
        /\ Succ(a) = IF a = M - 1 THEN 0 ELSE a + 1
        /\ Succ(b) = IF b = M - 1 THEN 0 ELSE b + 1
    BY <1>1, <1>3
  <2>2. Difference(a, b) = IF a >= b THEN a - b ELSE a - b + M
    BY <1>2
  <2>3. ASSUME Difference(a, b) < M - 1
        PROVE  Difference(Succ(a), b) = Difference(a, b) + 1
    <3>1. Difference(Succ(a), b) = IF Succ(a) >= b THEN Succ(a) - b ELSE Succ(a) - b + M
      BY <1>2, <1>3
    <3> QED BY <2>1, <2>2, <2>3, <3>1
  <2>4. ASSUME Difference(a, b) >= 1
        PROVE  Difference(a, Succ(b)) = Difference(a, b) - 1
    <3>1. Difference(a, Succ(b)) = IF a >= Succ(b) THEN a - Succ(b) ELSE a - Succ(b) + M
      BY <1>2, <1>3
    <3> QED BY <2>1, <2>2, <2>4, <3>1
  <2> QED BY <2>1, <2>2, <2>3, <2>4
<1>6. CASE r = "push"
  <2>1. \A q \in Count : RoomOf(r, q) = [x \in Count |-> Depth - Difference(q, x)]
    BY <1>6 DEF RoomOf
  <2>2. \A q, x \in Count : RoomOf(r, q)[x] = Depth - Difference(q, x) /\ Depth - Difference(q, x) \in Int
    BY <1>1, <1>5, <2>1
  <2>3. \A q \in Count : RoomOf(r, q) \in [Count -> Int]
    BY <2>1, <2>2
  <2>4. \A x \in Count : RoomOf(r, p)[x] <= Depth - 1 => RoomOf(r, p)[Succ(x)] = RoomOf(r, p)[x] + 1
    <3> TAKE x \in Count
    <3>1. Difference(p, x) >= 1 => Difference(p, Succ(x)) = Difference(p, x) - 1
      BY <1>5
    <3>2. Difference(p, x) \in Nat /\ Difference(p, x) <= M - 1 /\ M \in Nat /\ M > Depth /\ Depth \in Nat
      BY <1>1, <1>5
    <3>3. RoomOf(r, p)[x] = Depth - Difference(p, x) /\ RoomOf(r, p)[Succ(x)] = Depth - Difference(p, Succ(x))
      BY <1>3, <2>2
    <3> QED BY <3>1, <3>2, <3>3
  <2>5. \A x \in Count : RoomOf(r, p)[x] >= 1 => RoomOf(r, Succ(p))[x] = RoomOf(r, p)[x] - 1
    <3> TAKE x \in Count
    <3>1. Difference(p, x) < M - 1 => Difference(Succ(p), x) = Difference(p, x) + 1
      BY <1>5
    <3>2. Difference(p, x) \in Nat /\ Difference(p, x) <= M - 1 /\ M \in Nat /\ M > Depth /\ Depth \in Nat
      BY <1>1, <1>5
    <3>3. RoomOf(r, p)[x] = Depth - Difference(p, x) /\ RoomOf(r, Succ(p))[x] = Depth - Difference(Succ(p), x)
      BY <1>3, <2>2
    <3> QED BY <3>1, <3>2, <3>3
  <2>6. IsRoom(RoomOf(r, p)) /\ Lower(RoomOf(r, p), RoomOf(r, Succ(p)))
    BY <1>3, <2>3, <2>4, <2>5 DEF IsRoom, Lower
  <2>7. RoomOf(r, 0)[0] = Depth
    <3>1. 0 \in Count /\ Difference(0, 0) = 0
      BY <1>2, ZeroCode
    <3> QED BY <1>1, <2>2, <3>1
  <2>8. ASSUME NEW q \in Count
        PROVE  RoomOf(Other(r), q)[p] + RoomOf(r, p)[q] = Depth
    <3>1. RoomOf(Other(r), q)[p] = Difference(p, q)
      BY <1>6 DEF RoomOf, Other
    <3>2. RoomOf(r, p)[q] = Depth - Difference(p, q)
      BY <2>2
    <3>3. Difference(p, q) \in Int /\ Depth \in Int
      BY <1>1, <1>5
    <3> QED BY <3>1, <3>2, <3>3
  <2> QED BY <1>1, <2>6, <2>7, <2>8
<1>7. CASE r = "pop"
  <2>1. \A q \in Count : RoomOf(r, q) = [x \in Count |-> Difference(x, q)]
    BY <1>7 DEF RoomOf
  <2>2. \A q, x \in Count : RoomOf(r, q)[x] = Difference(x, q) /\ Difference(x, q) \in Int
    BY <1>1, <1>5, <2>1
  <2>3. \A q \in Count : RoomOf(r, q) \in [Count -> Int]
    BY <2>1, <2>2
  <2>4. \A x \in Count : RoomOf(r, p)[x] <= Depth - 1 => RoomOf(r, p)[Succ(x)] = RoomOf(r, p)[x] + 1
    <3> TAKE x \in Count
    <3>1. Difference(x, p) < M - 1 => Difference(Succ(x), p) = Difference(x, p) + 1
      BY <1>5
    <3>2. Difference(x, p) \in Nat /\ Difference(x, p) <= M - 1 /\ M \in Nat /\ M > Depth /\ Depth \in Nat
      BY <1>1, <1>5
    <3>3. RoomOf(r, p)[x] = Difference(x, p) /\ RoomOf(r, p)[Succ(x)] = Difference(Succ(x), p)
      BY <1>3, <2>2
    <3> QED BY <3>1, <3>2, <3>3
  <2>5. \A x \in Count : RoomOf(r, p)[x] >= 1 => RoomOf(r, Succ(p))[x] = RoomOf(r, p)[x] - 1
    <3> TAKE x \in Count
    <3>1. Difference(x, p) >= 1 => Difference(x, Succ(p)) = Difference(x, p) - 1
      BY <1>5
    <3>2. Difference(x, p) \in Nat /\ Difference(x, p) <= M - 1 /\ M \in Nat /\ M > Depth /\ Depth \in Nat
      BY <1>1, <1>5
    <3>3. RoomOf(r, p)[x] = Difference(x, p) /\ RoomOf(r, Succ(p))[x] = Difference(x, Succ(p))
      BY <1>3, <2>2
    <3> QED BY <3>1, <3>2, <3>3
  <2>6. IsRoom(RoomOf(r, p)) /\ Lower(RoomOf(r, p), RoomOf(r, Succ(p)))
    BY <1>3, <2>3, <2>4, <2>5 DEF IsRoom, Lower
  <2>7. RoomOf(r, 0)[0] = 0
    <3>1. 0 \in Count /\ Difference(0, 0) = 0
      BY <1>2, ZeroCode
    <3> QED BY <1>1, <2>2, <3>1
  <2>8. ASSUME NEW q \in Count
        PROVE  RoomOf(Other(r), q)[p] + RoomOf(r, p)[q] = Depth
    <3>1. RoomOf(Other(r), q)[p] = Depth - Difference(q, p)
      BY <1>7 DEF RoomOf, Other
    <3>2. RoomOf(r, p)[q] = Difference(q, p)
      BY <2>2
    <3>3. Difference(q, p) \in Int /\ Depth \in Int
      BY <1>1, <1>5
    <3> QED BY <3>1, <3>2, <3>3
  <2> QED BY <1>1, <2>6, <2>7, <2>8
<1> QED BY <1>4, <1>6, <1>7

LEMMA RoomNext ==
  ASSUME TypeInv, NEW C \in SUBSET Side, NEW beat, NEW gin, NEW rin, Move(C, beat, gin, rin),
         NEW r \in Side
  PROVE  /\ IsRoom(Room[r]) /\ IsRoom(Room'[r])
         /\ Rst'[r] => Room'[r][0] \in 0 .. Depth
         /\ Rst[r] \/ ~Rst'[r] => Room'[r] = Room[r] \/ (beat[r] /\ Lower(Room[r], Room'[r]))
<1>1. FlagMove(r, C, rin) /\ DataMove(r, C, beat, gin)
  BY FlagNext, DataNext
<1>2. Cnt[r] \in Count /\ Rst[r] \in BOOLEAN /\ 0 \in Count
  BY ZeroCode DEF TypeInv
<1>3. Cnt'[r] \in Count
  BY <1>1, <1>2 DEF DataMove
<1>4. (IF Rst[r] THEN 0 ELSE Cnt[r]) \in Count /\ (IF Rst'[r] THEN 0 ELSE Cnt'[r]) \in Count
  BY <1>2, <1>3
<1>5. IsRoom(Room[r]) /\ IsRoom(Room'[r])
  BY <1>4, RoomValues, RoomOfFacts
<1>6. Rst'[r] => Room'[r][0] \in 0 .. Depth
  BY <1>2, RoomValues, RoomOfFacts
<1>7. ASSUME Rst[r]
      PROVE  Room'[r] = Room[r]
  <2>1. Cnt'[r] = 0 \/ Rst'[r]
    BY <1>1, <1>7 DEF DataMove, FlagMove
  <2> QED BY <1>7, <2>1, RoomValues
<1>8. ASSUME ~Rst[r], ~Rst'[r]
      PROVE  Room'[r] = Room[r] \/ (beat[r] /\ Lower(Room[r], Room'[r]))
  <2>1. CASE ~beat[r]
    <3>1. Cnt'[r] = Cnt[r]
      BY <1>1, <1>8, <2>1 DEF DataMove, After
    <3> QED BY <1>8, <3>1, RoomValues
  <2>2. CASE beat[r]
    <3>1. Cnt'[r] = Succ(Cnt[r])
      BY <1>1, <1>8, <2>2 DEF DataMove, After
    <3> QED BY <1>2, <1>8, <2>2, <3>1, RoomValues, RoomOfFacts
  <2> QED BY <1>1, <2>1, <2>2
<1> QED BY <1>1, <1>2, <1>5, <1>6, <1>7, <1>8 DEF FlagMove

-----------------------------------------------------------------------------
\* Nothing is believed that was not believed one stage before.
LEMMA TrustNext ==
  ASSUME TypeInv, ResetInv, NEW C \in SUBSET Side, NEW beat, NEW gin, NEW rin, Move(C, beat, gin, rin),
         NEW r \in Side
  PROVE  /\ Trusted[r] \in SUBSET SyncStage /\ Trusted'[r] \in SUBSET SyncStage
         /\ r \notin C => Trusted'[r] \subseteq Trusted[r]
         /\ r \in C => /\ \A k \in Trusted'[r] : k # 1 => k - 1 \in Trusted[r]
                       /\ 1 \in Trusted'[r] => ~rin[r]
<1>1. /\ FlagMove(r, C, rin)
      /\ \A k \in SyncStage : k # 1 => k - 1 \in SyncStage /\ k - 1 < NumSyncStages
      /\ \A k \in SyncStage : k \in Nat /\ k >= 1
      /\ NumSyncStages \in SyncStage
  BY FlagNext, DelayFacts DEF SyncStage
<1>2. \A k : k \in Trusted[r] <=>
        k \in SyncStage /\ ~Flag[r][k] /\ (~Rst[r] \/ Over[r] \/ \E j \in SyncStage : j > k /\ Flag[r][j])
  BY DEF Trusted
<1>3. \A k : k \in Trusted'[r] <=>
        k \in SyncStage /\ ~Flag'[r][k]
        /\ (~Rst'[r] \/ Over'[r] \/ \E j \in SyncStage : j > k /\ Flag'[r][j])
  BY DEF Trusted
<1>4. Over'[r] => Over[r] \/ (r \in C /\ Flag[r][NumSyncStages])
  BY DEF Move, Resets
<1>5. Rst[r] /\ ~Rst'[r] => Over[r] \/ Flag[r][NumSyncStages]
  BY DEF Move, Resets, MayGo
<1>6. ASSUME r \notin C
      PROVE  Trusted'[r] \subseteq Trusted[r]
  BY <1>1, <1>2, <1>3, <1>4, <1>6 DEF FlagMove
<1>7. ASSUME r \in C, NEW k \in Trusted'[r], k # 1
      PROVE  k - 1 \in Trusted[r]
  <2>1. k \in SyncStage /\ k - 1 \in SyncStage /\ k - 1 < NumSyncStages /\ k \in Nat
    BY <1>1, <1>3, <1>7
  <2>2. ~Flag[r][k - 1]
    BY <1>1, <1>3, <1>7, <2>1 DEF FlagMove
  <2>3. CASE ~Rst'[r] \/ Over'[r]
    BY <1>1, <1>2, <1>4, <1>5, <2>1, <2>2, <2>3
  <2>4. CASE \E j \in SyncStage : j > k /\ Flag'[r][j]
    <3>1. PICK j \in SyncStage : j > k /\ Flag'[r][j]
      BY <2>4
    <3>2. j # 1 /\ j \in Nat
      BY <1>1, <2>1, <3>1
    <3>3. j - 1 \in SyncStage /\ j - 1 > k - 1 /\ Flag[r][j - 1]
      BY <1>1, <1>7, <2>1, <3>1, <3>2 DEF FlagMove
    <3> QED BY <1>2, <2>1, <2>2, <3>3
  <2> QED BY <1>3, <2>3, <2>4
<1>8. ASSUME r \in C, 1 \in Trusted'[r]
      PROVE  ~rin[r]
  BY <1>1, <1>3, <1>8 DEF FlagMove
<1> QED BY <1>2, <1>3, <1>6, <1>7, <1>8

\* What the invariant says of the counts that r receives from o.
LinkFrom(r, o) ==
  /\ Received(Room[r], Base[r], Word[r], Trusted[r])
  /\ ~(Rst[o] /\ Act[o]) => Live(Gray[o], Cnt[o], Delay[o])
  /\ ~(Rst[o] /\ Act[o]) /\ (Rst[r] => o \in ended) =>
       Linked(Room[r], Base[r], Word[r], Trusted[r], Gray[o], Cnt[o], Delay[o])

LinkInv == \A r \in Side : LinkFrom(r, Other(r))

\* The count r goes by is the one it falls back on, or one it may believe.
LEMMA Seen ==
  ASSUME TypeInv, LinkInv, NEW r \in Side, ~Rst[r]
  PROVE  /\ Vis[r] \in Count /\ Room[r][Vis[r]] \in 0 .. Depth
         /\ Vis[r] = Base[r]
            \/ (NumSyncStages \in Trusted[r] /\ Vis[r] = Val(Word[r][NumSyncStages]))
<1>1. Received(Room[r], Base[r], Word[r], Trusted[r])
  BY DEF LinkInv, LinkFrom
<1>2. NumSyncStages \in SyncStage /\ Depth \in Nat /\ IsRoom(Room[r])
  <2>1. Cnt[r] \in Count /\ 0 \in Count
    BY ZeroCode DEF TypeInv
  <2> QED BY <2>1, DelayFacts, CountFacts, RoomValues, RoomOfFacts
<1>3. CASE Flag[r][NumSyncStages]
  <2>1. Vis[r] = Base[r]
    BY <1>3 DEF Vis, Visible, Base
  <2> QED BY <1>1, <2>1 DEF Received
<1>4. CASE ~Flag[r][NumSyncStages]
  <2>1. NumSyncStages \in Trusted[r] /\ Vis[r] = Val(Word[r][NumSyncStages])
    BY <1>2, <1>4 DEF Trusted, Vis, Visible
  <2>2. /\ Word[r][NumSyncStages] \in Words /\ Val(Word[r][NumSyncStages]) \in Count
        /\ Room[r][Val(Word[r][NumSyncStages])] \in Room[r][Base[r]] .. Depth
        /\ Room[r][Base[r]] \in 0 .. Depth
    BY <1>1, <2>1, WordFacts DEF Received
  <2> QED BY <1>2, <2>1, <2>2
<1> QED BY <1>3, <1>4

\* r errs on the safe side, as long as the two sides describe one queue.
LEMMA Behind ==
  ASSUME TypeInv, ResetInv, ZeroInv, LinkInv, NEW r \in Side, ~Rst[r],
         Rst[Other(r)] => r \in ended
  PROVE  /\ Room[r][Vis[r]] <= Room[r][IF Rst[Other(r)] THEN 0 ELSE Cnt[Other(r)]]
<1> DEFINE o == Other(r)
<1>1. Vis[r] \in Count /\ Room[r][Vis[r]] \in 0 .. Depth /\ Depth \in Nat
  BY Seen, CountFacts
<1>2. CASE Rst[o]
  <2>1. r \in ended /\ o \notin ended
    BY <1>2, OtherFacts DEF ResetInv
  <2>2. Vis[r] = 0
    BY <2>1, FirstOut DEF ZeroInv
  <2> QED BY <1>1, <1>2, <2>2
<1>3. CASE ~Rst[o]
  <2>1. /\ Linked(Room[r], Base[r], Word[r], Trusted[r], Gray[o], Cnt[o], Delay[o])
        /\ Live(Gray[o], Cnt[o], Delay[o])
    BY <1>3 DEF LinkInv, LinkFrom
  <2>2. 1 \in 1 .. Delay[o] /\ Delay[o] \in 1 .. Delay[o]
    BY OtherFacts, DelayFacts
  <2>3. /\ Room[r][Base[r]] <= Room[r][Val(Gray[o][1])] /\ Room[r][Val(Gray[o][1])] <= Room[r][Cnt[o]]
        /\ Room[r][Val(Gray[o][Delay[o]])] <= Room[r][Cnt[o]]
        /\ NumSyncStages \in Trusted[r] =>
             Room[r][Val(Word[r][NumSyncStages])] <= Room[r][Val(Gray[o][Delay[o]])]
    BY <2>1, <2>2 DEF Linked
  <2>4. /\ IsRoom(Room[r]) /\ Val(Gray[o][1]) \in Count /\ Val(Gray[o][Delay[o]]) \in Count
        /\ Cnt[o] \in Count
    <3>1. Cnt[r] \in Count /\ Cnt[o] \in Count
      BY OtherFacts DEF TypeInv
    <3>2. Gray[o][1] \in Words /\ Gray[o][Delay[o]] \in Words
      BY <2>1, <2>2 DEF Live
    <3> QED BY <3>1, <3>2, WordFacts, RoomValues, RoomOfFacts
  <2>5. /\ Room[r][Val(Gray[o][1])] \in Int /\ Room[r][Val(Gray[o][Delay[o]])] \in Int
        /\ Room[r][Cnt[o]] \in Int
    BY <2>4 DEF IsRoom
  <2>6. CASE Vis[r] = Base[r]
    BY <1>1, <1>3, <2>3, <2>5, <2>6
  <2>7. CASE NumSyncStages \in Trusted[r] /\ Vis[r] = Val(Word[r][NumSyncStages])
    BY <1>1, <1>3, <2>3, <2>5, <2>7
  <2> QED BY <2>6, <2>7, Seen
<1> QED BY <1>2, <1>3

\* A beat of o has a place, as r counts.
LEMMA BeatHasRoom ==
  ASSUME TypeInv, ResetInv, ZeroInv, LinkInv,
         NEW C \in SUBSET Side, NEW beat, NEW gin, NEW rin, Move(C, beat, gin, rin),
         NEW o \in Side, beat[o], Rst[Other(o)] => o \in ended
  PROVE  Room[Other(o)][Cnt[o]] <= Depth - 1
<1> DEFINE r == Other(o)
           q == IF Rst[r] THEN 0 ELSE Cnt[r]
<1>1. DataMove(o, C, beat, gin) /\ ~Rst[o]
  <2>1. DataMove(o, C, beat, gin)
    BY DataNext
  <2> QED BY <2>1 DEF DataMove
<1>2. Vis[o] \in Count /\ Room[o][Vis[o]] \in 0 .. Depth /\ Room[o][Vis[o]] # 0 /\ Depth \in Nat
  BY <1>1, Seen, CountFacts DEF DataMove
<1>3. Room[o][Vis[o]] <= Room[o][q]
  BY <1>1, Behind
<1>4. r \in Side /\ r = Other(o) /\ q \in Count /\ Cnt[o] \in Count
  BY OtherFacts, ZeroCode DEF TypeInv
<1>5. Room[o] = RoomOf(o, Cnt[o]) /\ Room[r] = RoomOf(r, q)
  <2>1. Room[o] = RoomOf(o, Cnt[o])
    BY <1>1, RoomValues
  <2>2. r \in Side
    BY <1>4
  <2> HIDE DEF r
  <2> QED BY <2>1, <2>2, RoomValues
<1> HIDE DEF q, r
<1>6. RoomOf(r, q)[Cnt[o]] + RoomOf(o, Cnt[o])[q] = Depth
  BY <1>4, RoomOfFacts
<1>7. Room[r][Cnt[o]] \in Int /\ Room[o][q] \in Int
  BY <1>4, <1>5, RoomOfFacts DEF IsRoom
<1>8. Room[r][Cnt[o]] <= Depth - 1
  BY <1>2, <1>3, <1>5, <1>6, <1>7
<1> QED BY <1>8 DEF r

LEMMA BaseNext ==
  ASSUME TypeInv, NEW C \in SUBSET Side, NEW beat, NEW gin, NEW rin, Move(C, beat, gin, rin),
         NEW r \in Side, Rst[r] \/ ~Rst'[r]
  PROVE  /\ r \notin C => Base'[r] = Base[r]
         /\ r \in C => \/ Base'[r] = Base[r]
                       \/ NumSyncStages \in Trusted[r] /\ Base'[r] = Val(Word[r][NumSyncStages])
         /\ beat[r] => Base'[r] = Vis[r]
<1>1. FlagMove(r, C, rin) /\ DataMove(r, C, beat, gin)
  BY FlagNext, DataNext
<1>2. /\ Base[r] = IF Rst[r] THEN 0 ELSE Saved[r]
      /\ Base'[r] = IF Rst'[r] THEN 0 ELSE Saved'[r]
  BY DEF Base
<1>3. Rst[r] \in BOOLEAN
  BY DEF TypeInv
<1>4. ~Rst[r] => Vis[r] = Saved[r]
                 \/ (NumSyncStages \in Trusted[r] /\ Vis[r] = Val(Word[r][NumSyncStages]))
  BY DelayFacts DEF Vis, Visible, Trusted
<1>5. CASE r \notin C
  <2>1. Rst'[r] = Rst[r] /\ Saved'[r] = Saved[r] /\ ~beat[r]
    BY <1>1, <1>5 DEF FlagMove, DataMove
  <2> QED BY <1>2, <1>5, <2>1
<1>6. CASE r \in C /\ Rst[r]
  <2>1. Saved'[r] = 0 /\ ~beat[r]
    BY <1>1, <1>6 DEF DataMove
  <2> QED BY <1>2, <1>6, <2>1
<1>7. CASE r \in C /\ ~Rst[r]
  <2>1. Saved'[r] = Vis[r]
    BY <1>1, <1>7 DEF DataMove
  <2> QED BY <1>2, <1>4, <1>7, <2>1
<1> QED BY <1>3, <1>5, <1>6, <1>7

\* A reset is held until the zero has got through the delay of its own side.
LongResets == MinReset >= PushCountDelay + 2 - RegisterResetActive

\* A side that leaves reset starts at zero, and all it sends and is waited for is zero.
LEMMA Restart ==
  ASSUME LongResets, TypeInv, ResetInv, ZeroInv,
         NEW C \in SUBSET Side, NEW beat, NEW gin, NEW rin, Move(C, beat, gin, rin),
         NEW r \in Side, Rst[Other(r)], ~Rst'[Other(r)]
  PROVE  /\ Trusted[r] = {} /\ Base[r] = 0 /\ Cnt'[Other(r)] = 0
         /\ \A i \in 1 .. Delay[Other(r)] : Gray'[Other(r)][i] = {}
         /\ r \in C /\ 1 \in Trusted'[r] => gin[r] = {}
<1> DEFINE o == Other(r)
<1>1. o \in Side /\ Other(o) = r /\ FlagMove(o, C, rin) /\ DataMove(o, C, beat, gin)
      /\ FlagMove(r, C, rin) /\ DataMove(r, C, beat, gin)
  BY OtherFacts, FlagNext, DataNext
<1>2. /\ o \in C /\ o \notin ended /\ Act[o] /\ Hold[o] + 1 >= MinReset
      /\ r \notin ended => Rst[r]
  BY <1>1, ReleaseFacts
<1>3. /\ Delay[o] \in Nat \ {0} /\ Delay[o] <= PushCountDelay /\ PushCountDelay \in Nat
      /\ RegisterResetActive \in {0, 1} /\ Hold[o] \in Nat /\ MinReset \in Nat
  BY <1>1, DelayFacts, CdcAssumption DEF TypeInv
<1>4. Hold[o] >= Delay[o] /\ Hold[o] >= 1 /\ (RegisterResetActive = 0 => Hold[o] >= Delay[o] + 1)
  BY <1>2, <1>3 DEF LongResets
<1>5. Trusted[r] = {}
  <2> SUFFICES ASSUME NEW k \in Trusted[r] PROVE FALSE
    OBVIOUS
  <2>1. k \in SyncStage /\ ~Flag[r][k] /\ (~Rst[r] \/ Over[r] \/ \E j \in SyncStage : j > k /\ Flag[r][j])
    BY DEF Trusted
  <2>2. Over[r] => Flag[r][k]
    BY <1>1, <1>2, <2>1 DEF ResetInv
  <2>3. ~Rst[r] => Over[r]
    BY <1>2 DEF ResetInv
  <2>4. \A j \in SyncStage : j > k /\ Flag[r][j] => Flag[r][k]
    <3>1. \A j \in SyncStage : j > k => k < j
      BY <2>1, DelayFacts
    <3> QED BY <1>1, <1>2, <2>1, <3>1 DEF ResetInv
  <2> QED BY <2>1, <2>2, <2>3, <2>4
<1>6. Base[r] = 0
  <2>1. r \in ended => Saved[r] = 0
    BY <1>1, <1>2 DEF ZeroInv
  <2> QED BY <1>2, <2>1 DEF Base
<1>7. Cnt[o] = 0 /\ \A i \in 1 .. Delay[o] : Hold[o] >= i + 1 => Gray[o][i] = {}
  BY <1>1, <1>4 DEF ZeroInv
<1>8. After(o, beat) = 0
  BY <1>1, <1>7 DEF DataMove, After
<1>9. Cnt'[o] = 0
  BY <1>1, <1>2 DEF DataMove
<1>10. \A i \in 1 .. Delay[o] : Gray'[o][i] = {}
  <2> TAKE i \in 1 .. Delay[o]
  <2>1. CASE i = 1
    BY <1>1, <1>2, <1>8, <2>1, ZeroCode DEF DataMove
  <2>2. CASE i # 1
    <3>1. i \in 2 .. Delay[o] /\ i - 1 \in 1 .. Delay[o] /\ Hold[o] >= (i - 1) + 1
      BY <1>3, <1>4, <2>2
    <3>2. Gray'[o][i] = Gray[o][i - 1]
      BY <1>1, <1>2, <3>1 DEF DataMove
    <3> QED BY <1>7, <3>1, <3>2
  <2> QED BY <2>1, <2>2
<1>11. ASSUME r \in C, 1 \in Trusted'[r]
       PROVE  gin[r] = {}
  <2>1. ~rin[r] /\ (rin[r] = Act[o] \/ rin[r] = Act'[o])
    BY <1>1, <1>11, TrustNext DEF FlagMove
  <2>2. RegisterResetActive = 0
    BY <1>1, <1>2, <1>3, <2>1 DEF FlagMove
  <2>3. Gray[o][Delay[o]] = {} /\ Gray'[o][Delay[o]] = {}
    BY <1>3, <1>4, <1>7, <1>10, <2>2
  <2>4. gin[r] \in Sampled(Gray[o][Delay[o]], Gray'[o][Delay[o]])
    BY <1>1, <1>11 DEF DataMove
  <2> QED BY <2>3, <2>4 DEF Sampled
<1> QED BY <1>5, <1>6, <1>9, <1>10, <1>11

\* A source whose counts r goes by, and what r samples of it.
LEMMA GoodSource ==
  ASSUME TypeInv, ResetInv, ZeroInv, LinkInv,
         NEW C \in SUBSET Side, NEW beat, NEW gin, NEW rin, Move(C, beat, gin, rin),
         NEW r \in Side, ~(Rst[Other(r)] /\ Act[Other(r)]), Rst[r] => Other(r) \in ended
  PROVE  /\ Live(Gray'[Other(r)], After(Other(r), beat), Delay[Other(r)])
         /\ Linked(Room[r], Base[r], Word[r], Trusted[r],
                   Gray'[Other(r)], After(Other(r), beat), Delay[Other(r)])
         /\ r \in C => /\ gin[r] \in Words
                       /\ Room[r][Val(gin[r])] \in Room[r][Base[r]] .. Depth
                       /\ \A k \in Trusted[r] : Room[r][Val(Word[r][k])] <= Room[r][Val(gin[r])]
                       /\ Room[r][Val(gin[r])] <= Room[r][Val(Gray'[Other(r)][Delay[Other(r)]])]
<1> DEFINE o == Other(r)
           n == Delay[o]
           g == Gray[o]
           g2 == Gray'[o]
           c == Cnt[o]
           c2 == After(o, beat)
           room == Room[r]
           base == Base[r]
           w == Word[r]
           T == Trusted[r]
<1>1. o \in Side /\ Other(o) = r /\ DataMove(o, C, beat, gin) /\ DataMove(r, C, beat, gin)
  BY OtherFacts, DataNext
<1>2. /\ n \in Nat \ {0} /\ n \in 1 .. n /\ c \in Count /\ c2 \in Count
      /\ IsRoom(room) /\ T \in SUBSET SyncStage
  <2>1. n \in Nat \ {0} /\ n \in 1 .. n
    BY <1>1, DelayFacts
  <2>2. c \in Count /\ c2 \in Count
    BY <1>1 DEF TypeInv, DataMove
  <2>3. IsRoom(room) /\ T \in SUBSET SyncStage
    BY RoomNext, TrustNext
  <2> QED BY <2>1, <2>2, <2>3
<1>3. Received(room, base, w, T) /\ Live(g, c, n) /\ Linked(room, base, w, T, g, c, n)
  BY DEF LinkInv, LinkFrom
<1>4. c2 = c \/ (c2 = Succ(c) /\ room[c] <= Depth - 1)
  BY <1>1, BeatHasRoom DEF After
<1>5. /\ o \in C => g2[1] = Bin2Gray(c2) /\ \A i \in 2 .. n : g2[i] = g[i - 1]
      /\ o \notin C => g2 = g /\ c2 = c
  BY <1>1 DEF DataMove, After
<1>6. r \in C => gin[r] \in Sampled(g[n], g2[n])
  BY <1>1 DEF DataMove
<1> HIDE DEF o, n, g, g2, c, c2, room, base, w, T
<1>7. /\ Live(g2, c2, n) /\ Linked(room, base, w, T, g2, c2, n)
      /\ \A in \in Sampled(g[n], g2[n]) : in = g[n] \/ in = g2[n]
      /\ room[Val(g[n])] <= room[Val(g2[n])]
  <2>1. CASE o \in C
    BY <1>2, <1>3, <1>4, <1>5, <2>1, SourceMoves
  <2>2. CASE o \notin C
    <3>1. g2 = g /\ c2 = c
      BY <1>5, <2>2
    <3>2. \A in \in Sampled(g[n], g[n]) : in = g[n]
      BY DEF Sampled
    <3>3. room[Val(g[n])] <= room[Val(g[n])]
      BY <1>2, <1>3 DEF Linked
    <3> QED BY <1>3, <3>1, <3>2, <3>3
  <2> QED BY <2>1, <2>2
<1>8. \A v \in {g[n], g2[n]} : /\ v \in Words /\ Val(v) \in Count /\ room[Val(v)] \in Int
                              /\ room[base] <= room[Val(v)]
  BY <1>2, <1>3, <1>7, WordFacts DEF Live, Linked, IsRoom
<1>9. ASSUME r \in C
      PROVE  /\ gin[r] \in Words /\ room[Val(gin[r])] \in room[base] .. Depth
             /\ \A k \in T : room[Val(w[k])] <= room[Val(gin[r])]
             /\ room[Val(gin[r])] <= room[Val(g2[n])]
  <2>1. gin[r] = g[n] \/ gin[r] = g2[n]
    BY <1>6, <1>7, <1>9
  <2>2. /\ room[Val(g2[n])] <= room[c2] /\ room[c2] \in 0 .. Depth
        /\ \A k \in T : room[Val(w[k])] <= room[Val(g[n])] /\ room[Val(w[k])] <= room[Val(g2[n])]
    BY <1>2, <1>3, <1>7 DEF Linked
  <2>3. Depth \in Nat /\ room[base] \in 0 .. Depth
    BY <1>3, CountFacts DEF Received
  <2> QED BY <1>7, <1>8, <2>1, <2>2, <2>3
<1> QED BY <1>7, <1>9 DEF o, n, g2, c2, room, base, w, T

\* When the reset of r is asserted, r forgets what it has received.
LEMMA ResetForgets ==
  ASSUME TypeInv, ResetInv, ResetInv', NEW C \in SUBSET Side, NEW beat, NEW gin, NEW rin,
         Move(C, beat, gin, rin), NEW r \in Side, ~Rst[r], Rst'[r]
  PROVE  Trusted'[r] = {} /\ Base'[r] = 0 /\ Other(r) \notin ended'
<1>1. Other(r) \in Side /\ Other(Other(r)) = r
  BY OtherFacts
<1>2. r \notin ended /\ r \notin ended' /\ ~Over'[r]
  BY ReleaseFacts
<1>3. Other(r) \notin ended'
  <2>1. Other(r) \notin ended
    <3>1. Other(r) \in ended /\ r \notin ended => Rst[r]
      BY <1>1, FirstOut
    <3> QED BY <1>2, <3>1
  <2>2. ~(Rst[Other(r)] /\ ~Rst'[Other(r)])
    <3>1. Rst[Other(r)] /\ ~Rst'[Other(r)] => (r \notin ended => Rst[r])
      BY <1>1, ReleaseFacts
    <3> QED BY <1>2, <3>1
  <2>3. Other(r) \in ended' => Other(r) \in ended \/ (Rst[Other(r)] /\ ~Rst'[Other(r)])
    BY <1>1, ReleaseFacts
  <2> QED BY <2>1, <2>2, <2>3
<1>4. Trusted'[r] = {}
  <2> SUFFICES ASSUME NEW k \in Trusted'[r] PROVE FALSE
    OBVIOUS
  <2>1. k \in SyncStage /\ ~Flag'[r][k] /\ \E j \in SyncStage : j > k /\ Flag'[r][j]
    BY <1>2 DEF Trusted
  <2>2. \A j \in SyncStage : j > k => k < j
    BY <2>1, DelayFacts
  <2>3. \A j \in SyncStage : Flag'[r][j] => \A i \in SyncStage : i < j => Flag'[r][i]
    BY <1>1, <1>3 DEF ResetInv
  <2> QED BY <2>1, <2>2, <2>3
<1> QED BY <1>3, <1>4 DEF Base

\* While the two sides are apart, r believes nothing that it samples.
LEMMA Apart ==
  ASSUME TypeInv, ResetInv, ResetInv', NEW C \in SUBSET Side, NEW beat, NEW gin, NEW rin,
         Move(C, beat, gin, rin), NEW r \in Side,
         Rst[r] \/ ~Rst'[r], ~Rst[Other(r)] \/ Rst'[Other(r)],
         (Rst[Other(r)] /\ Act[Other(r)]) \/ (Rst[r] /\ Other(r) \notin ended)
  PROVE  /\ r \in C => 1 \notin Trusted'[r]
         /\ (Rst'[Other(r)] /\ Act'[Other(r)]) \/ (Rst'[r] /\ Other(r) \notin ended')
<1> DEFINE o == Other(r)
<1>1. o \in Side /\ Other(o) = r /\ FlagMove(o, C, rin) /\ FlagMove(r, C, rin)
  BY OtherFacts, FlagNext
<1>2. CASE Rst[o] /\ Act[o]
  <2>1. Rst'[o]
    BY <1>2
  <2>2. Act'[o]
    BY <1>1, <1>2, <2>1 DEF FlagMove
  <2>3. r \in C => rin[r]
    BY <1>1, <1>2, <2>2 DEF FlagMove
  <2> QED BY <2>1, <2>2, <2>3, TrustNext
<1>3. CASE ~(Rst[o] /\ Act[o])
  <2>1. Rst[r] /\ o \notin ended
    BY <1>3
  <2>2. Rst'[r]
    <3>1. ~Rst'[r] => (o \notin ended => Rst[o] /\ Act[o])
      BY <2>1, ReleaseFacts
    <3> QED BY <1>3, <2>1, <3>1
  <2>3. o \notin ended'
    <3>1. o \in ended' => o \in ended \/ (Rst[o] /\ ~Rst'[o])
      BY <1>1, ReleaseFacts
    <3> QED BY <2>1, <3>1
  <2>4. ASSUME 1 \in Trusted'[r]
        PROVE  FALSE
    <3>1. ~Flag'[r][1] /\ (~Rst'[r] \/ Over'[r] \/ \E j \in SyncStage : j > 1 /\ Flag'[r][j])
      BY <2>4 DEF Trusted
    <3>2. Over'[r] => Flag'[r][1]
      BY <1>1, <2>3, DelayFacts DEF ResetInv
    <3>3. \A j \in SyncStage : j > 1 => 1 < j
      BY DelayFacts
    <3>4. \A j \in SyncStage : Flag'[r][j] /\ 1 < j => Flag'[r][1]
      BY <1>1, <2>3, DelayFacts DEF ResetInv
    <3> QED BY <2>2, <3>1, <3>2, <3>3, <3>4
  <2> QED BY <2>2, <2>3, <2>4
<1> QED BY <1>2, <1>3

\* The words of r after a step in which it did not go into reset.
LEMMA ReceivedNext ==
  ASSUME LongResets, TypeInv, ResetInv, ZeroInv, LinkInv, ResetInv',
         NEW C \in SUBSET Side, NEW beat, NEW gin, NEW rin, Move(C, beat, gin, rin),
         NEW r \in Side, Rst[r] \/ ~Rst'[r]
  PROVE  /\ Received(Room[r], Base'[r], Word'[r], Trusted'[r])
         /\ \A g, c, n : /\ n \in Nat \ {0}
                         /\ Linked(Room[r], Base[r], Word[r], Trusted[r], g, c, n) /\ Live(g, c, n)
                         /\ r \in C /\ 1 \in Trusted'[r] =>
                              Room[r][Val(gin[r])] <= Room[r][Val(g[n])]
              => Linked(Room[r], Base'[r], Word'[r], Trusted'[r], g, c, n)
<1> DEFINE o == Other(r)
<1>1. DataMove(r, C, beat, gin)
  BY DataNext
<1>2. IsRoom(Room[r]) /\ Trusted[r] \in SUBSET SyncStage /\ Trusted'[r] \in SUBSET SyncStage
  BY RoomNext, TrustNext
<1>3. Received(Room[r], Base[r], Word[r], Trusted[r])
  BY DEF LinkInv, LinkFrom
<1>4. CASE r \notin C
  <2>1. Word'[r] = Word[r] /\ Base'[r] = Base[r] /\ Trusted'[r] \subseteq Trusted[r]
    BY <1>1, <1>4, BaseNext, TrustNext DEF DataMove
  <2>2. Received(Room[r], Base[r], Word[r], Trusted'[r])
    BY <1>3, <2>1 DEF Received
  <2>3. \A g, c, n : Linked(Room[r], Base[r], Word[r], Trusted[r], g, c, n) =>
                      Linked(Room[r], Base[r], Word[r], Trusted'[r], g, c, n)
    BY <2>1 DEF Linked
  <2> QED BY <2>1, <2>2, <2>3
<1>5. CASE r \in C
  <2>1. /\ Word'[r][1] = gin[r]
        /\ \A k \in Trusted'[r] : k # 1 => k - 1 \in Trusted[r] /\ Word'[r][k] = Word[r][k - 1]
    BY <1>1, <1>2, <1>5, TrustNext DEF DataMove
  <2>2. Base'[r] = Base[r] \/ (NumSyncStages \in Trusted[r] /\ Base'[r] = Val(Word[r][NumSyncStages]))
    BY <1>5, BaseNext
  <2>3. ASSUME 1 \in Trusted'[r]
        PROVE  /\ gin[r] \in Words /\ Room[r][Val(gin[r])] \in Room[r][Base[r]] .. Depth
               /\ \A k \in Trusted[r] : Room[r][Val(Word[r][k])] <= Room[r][Val(gin[r])]
    <3>1. CASE Rst[o] /\ ~Rst'[o]
      <4>1. Trusted[r] = {} /\ Base[r] = 0 /\ gin[r] = {}
        BY <1>5, <2>3, <3>1, Restart
      <4>2. gin[r] \in Words /\ Val(gin[r]) = 0
        BY <4>1, ZeroCode, GrayRoundTrip DEF Words, Val
      <4>3. Room[r][0] \in 0 .. Depth /\ Depth \in Nat
        BY <1>3, <4>1, CountFacts DEF Received
      <4> QED BY <4>1, <4>2, <4>3
    <3>2. CASE ~(Rst[o] /\ ~Rst'[o]) /\ ~(Rst[o] /\ Act[o]) /\ (Rst[r] => o \in ended)
      BY <1>5, <3>2, GoodSource
    <3>3. CASE /\ ~(Rst[o] /\ ~Rst'[o])
               /\ (Rst[o] /\ Act[o]) \/ (Rst[r] /\ o \notin ended)
      BY <1>5, <2>3, <3>3, Apart
    <3> QED BY <3>1, <3>2, <3>3
  <2> DEFINE room == Room[r]
             base == Base[r]
             w == Word[r]
             T == Trusted[r]
             base2 == Base'[r]
             w2 == Word'[r]
             T2 == Trusted'[r]
  <2>4. /\ IsRoom(room) /\ T \in SUBSET SyncStage /\ T2 \in SUBSET SyncStage /\ Received(room, base, w, T)
        /\ \A k \in T2 : k # 1 => k - 1 \in T /\ w2[k] = w[k - 1]
        /\ base2 = base \/ (NumSyncStages \in T /\ base2 = Val(w[NumSyncStages]))
        /\ 1 \in T2 => /\ w2[1] \in Words /\ room[Val(w2[1])] \in room[base] .. Depth
                       /\ \A k \in T : room[Val(w[k])] <= room[Val(w2[1])]
    BY <1>2, <1>3, <2>1, <2>2, <2>3
  <2> HIDE DEF o, room, base, w, T, base2, w2, T2
  <2>5. /\ Received(room, base2, w2, T2)
        /\ \A g, c, n : n \in Nat \ {0} /\ Linked(room, base, w, T, g, c, n) /\ Live(g, c, n)
               /\ (1 \in T2 => room[Val(w2[1])] <= room[Val(g[n])])
             => Linked(room, base2, w2, T2, g, c, n)
    BY <2>4, ReceiverMoves
  <2> USE DEF room, base, w, T, base2, w2, T2
  <2> QED BY <1>5, <2>1, <2>5
<1> QED BY <1>4, <1>5

\* The codes of o after a step.
LEMMA LiveNext ==
  ASSUME LongResets, TypeInv, ResetInv, ZeroInv, LinkInv,
         NEW C \in SUBSET Side, NEW beat, NEW gin, NEW rin, Move(C, beat, gin, rin), NEW o \in Side
  PROVE  /\ ~(Rst'[o] /\ Act'[o]) => Live(Gray'[o], Cnt'[o], Delay[o])
         /\ (Rst[o] => Rst'[o]) /\ ~(Rst'[o] /\ Act'[o]) => ~(Rst[o] /\ Act[o]) /\ Cnt'[o] = After(o, beat)
         /\ ~Rst[o] => \/ Gray'[o][Delay[o]] = Gray[o][Delay[o]]
                       \/ OneBit(Gray[o][Delay[o]], Gray'[o][Delay[o]])
<1> DEFINE r == Other(o)
           n == Delay[o]
           g == Gray[o]
           g2 == Gray'[o]
           c == Cnt[o]
           c2 == After(o, beat)
<1>1. /\ r \in Side /\ Other(r) = o /\ DataMove(o, C, beat, gin) /\ FlagMove(o, C, rin)
      /\ n \in Nat \ {0} /\ n \in 1 .. n /\ 1 \in 1 .. n
  BY OtherFacts, DelayFacts, DataNext, FlagNext
<1>2. /\ c \in Count /\ c2 \in Count /\ (c2 = c \/ c2 = Succ(c))
      /\ Rst[o] \in BOOLEAN /\ Act[o] \in BOOLEAN /\ RegisterResetActive \in {0, 1}
  BY <1>1, CdcAssumption DEF TypeInv, DataMove, After
<1>3. ASSUME Rst[o], ~Rst'[o]
      PROVE  Live(g2, Cnt'[o], n)
  <2>1. Cnt'[o] = 0 /\ \A i \in 1 .. n : g2[i] = {}
    <3> HIDE DEF r
    <3>1. r \in Side /\ Rst[Other(r)] /\ ~Rst'[Other(r)]
      BY <1>1, <1>3
    <3>2. Cnt'[Other(r)] = 0 /\ \A i \in 1 .. Delay[Other(r)] : Gray'[Other(r)][i] = {}
      BY <3>1, Restart
    <3> QED BY <1>1, <3>2
  <2>2. Bin2Gray(0) = {} /\ {} \in Words
    BY ZeroCode DEF Words
  <2>3. \A i \in 2 .. n : i - 1 \in 1 .. n /\ i \in 1 .. n
    BY <1>1
  <2> QED BY <1>1, <2>1, <2>2, <2>3 DEF Live
<1>4. ASSUME Rst[o] => Rst'[o], ~(Rst'[o] /\ Act'[o])
      PROVE  ~(Rst[o] /\ Act[o]) /\ Cnt'[o] = c2
  <2>1. CASE o \notin C
    BY <1>1, <1>4, <2>1 DEF FlagMove, DataMove, After
  <2>2. CASE o \in C
    <3>1. ~Rst[o]
      BY <1>1, <1>2, <1>4, <2>2 DEF FlagMove
    <3> QED BY <1>1, <2>2, <3>1 DEF DataMove
  <2> QED BY <2>1, <2>2
<1>5. ASSUME ~(Rst[o] /\ Act[o])
      PROVE  Live(g2, c2, n) /\ (g2[n] = g[n] \/ OneBit(g[n], g2[n]))
  <2>1. Live(g, c, n)
    BY <1>1, <1>5 DEF LinkInv, LinkFrom
  <2>2. CASE o \notin C
    <3>1. g2 = g /\ c2 = c
      BY <1>1, <2>2 DEF DataMove, After
    <3> QED BY <2>1, <3>1
  <2>3. CASE o \in C
    <3>1. g2[1] = Bin2Gray(c2) /\ \A i \in 2 .. n : g2[i] = g[i - 1]
      BY <1>1, <2>3 DEF DataMove
    <3> HIDE DEF n, g, g2, c, c2
    <3> QED BY <1>1, <1>2, <2>1, <3>1, LiveMoves
  <2> QED BY <2>2, <2>3
<1> QED BY <1>3, <1>4, <1>5

\* The words of r after r has used the place of its own beat.
LEMMA UsedNext ==
  ASSUME TypeInv, LinkInv,
         NEW C \in SUBSET Side, NEW beat, NEW gin, NEW rin, Move(C, beat, gin, rin),
         NEW r \in Side, Rst[r] \/ ~Rst'[r], Received(Room[r], Base'[r], Word'[r], Trusted'[r])
  PROVE  /\ Received(Room'[r], Base'[r], Word'[r], Trusted'[r])
         /\ \A g, c, n : /\ c \in Count /\ n \in Nat \ {0} /\ Live(g, c, n)
                         /\ Linked(Room[r], Base'[r], Word'[r], Trusted'[r], g, c, n)
              => Linked(Room'[r], Base'[r], Word'[r], Trusted'[r], g, c, n)
<1>1. CASE Room'[r] = Room[r]
  BY <1>1
<1>2. CASE beat[r] /\ Lower(Room[r], Room'[r])
  <2>1. ~Rst[r] /\ (Vis[r] \in Count => Room[r][Vis[r]] # 0)
    <3>1. DataMove(r, C, beat, gin)
      BY DataNext
    <3> QED BY <1>2, <3>1 DEF DataMove
  <2>2. Vis[r] \in Count /\ Room[r][Vis[r]] \in 0 .. Depth
    BY <2>1, Seen
  <2>3. Base'[r] = Vis[r]
    BY <1>2, BaseNext
  <2>4. Room[r][Base'[r]] >= 1
    BY <2>1, <2>2, <2>3, CountFacts
  <2>5. IsRoom(Room[r]) /\ Trusted'[r] \in SUBSET SyncStage
    <3>1. IsRoom(Room[r])
      BY RoomNext
    <3>2. Trusted'[r] \in SUBSET SyncStage
      BY DEF Trusted
    <3> QED BY <3>1, <3>2
  <2> DEFINE room == Room[r]
             room2 == Room'[r]
             base == Base'[r]
             w == Word'[r]
             T == Trusted'[r]
  <2>6. /\ IsRoom(room) /\ Lower(room, room2) /\ T \in SUBSET SyncStage
        /\ Received(room, base, w, T) /\ room[base] >= 1
    BY <1>2, <2>4, <2>5
  <2> HIDE DEF room, room2, base, w, T
  <2>7. /\ Received(room2, base, w, T)
        /\ \A g, c, n : c \in Count /\ n \in Nat \ {0} /\ Live(g, c, n) /\ Linked(room, base, w, T, g, c, n)
             => Linked(room2, base, w, T, g, c, n)
    BY <2>6, RoomUsed
  <2> QED BY <2>7 DEF room, room2, base, w, T
<1> QED BY <1>1, <1>2, RoomNext

LEMMA LinkInvStep ==
  ASSUME LongResets, TypeInv, ResetInv, ZeroInv, LinkInv, ResetInv', TypeInv',
         NEW C \in SUBSET Side, NEW beat, NEW gin, NEW rin, Move(C, beat, gin, rin)
  PROVE  LinkInv'
<1> SUFFICES ASSUME NEW r \in Side
             PROVE  /\ Received(Room'[r], Base'[r], Word'[r], Trusted'[r])
                    /\ ~(Rst'[Other(r)] /\ Act'[Other(r)]) =>
                         Live(Gray'[Other(r)], Cnt'[Other(r)], Delay[Other(r)])
                    /\ ~(Rst'[Other(r)] /\ Act'[Other(r)]) /\ (Rst'[r] => Other(r) \in ended') =>
                         Linked(Room'[r], Base'[r], Word'[r], Trusted'[r],
                                Gray'[Other(r)], Cnt'[Other(r)], Delay[Other(r)])
  BY DEF LinkInv, LinkFrom, Received, Live, Linked, Delay
<1> DEFINE o == Other(r)
<1>1. o \in Side /\ Other(o) = r /\ Delay[o] \in Nat \ {0} /\ Delay[o] \in 1 .. Delay[o] /\ Cnt'[o] \in Count
  BY OtherFacts, DelayFacts DEF TypeInv
<1>2. ~(Rst'[o] /\ Act'[o]) => Live(Gray'[o], Cnt'[o], Delay[o])
  BY <1>1, LiveNext
<1>3. CASE ~Rst[r] /\ Rst'[r]
  <2>1. Trusted'[r] = {} /\ Base'[r] = 0 /\ o \notin ended'
    BY <1>3, ResetForgets
  <2>2. 0 \in Count /\ Room'[r][0] \in 0 .. Depth
    BY <1>3, ZeroCode, RoomNext
  <2>3. Received(Room'[r], Base'[r], Word'[r], Trusted'[r])
    BY <2>1, <2>2 DEF Received
  <2> QED BY <1>2, <1>3, <2>1, <2>3
<1>4. CASE Rst[r] \/ ~Rst'[r]
  <2>1. Received(Room[r], Base'[r], Word'[r], Trusted'[r])
    BY <1>4, ReceivedNext
  <2>2. Received(Room'[r], Base'[r], Word'[r], Trusted'[r])
    BY <1>4, <2>1, UsedNext
  <2>3. ASSUME ~(Rst'[o] /\ Act'[o]), Rst'[r] => o \in ended'
        PROVE  Linked(Room'[r], Base'[r], Word'[r], Trusted'[r], Gray'[o], Cnt'[o], Delay[o])
    <3>1. CASE Rst[o] /\ ~Rst'[o]
      <4>1. /\ Trusted[r] = {} /\ Base[r] = 0 /\ Cnt'[o] = 0
            /\ \A i \in 1 .. Delay[o] : Gray'[o][i] = {}
            /\ r \in C /\ 1 \in Trusted'[r] => gin[r] = {}
        BY <3>1, Restart
      <4>2. Base'[r] = 0
        BY <1>4, <4>1, BaseNext
      <4>3. \A k \in Trusted'[r] : Word'[r][k] = {}
        <5>1. DataMove(r, C, beat, gin)
          BY DataNext
        <5>2. \A k \in Trusted'[r] : r \in C /\ k = 1
          BY <4>1, TrustNext
        <5> QED BY <4>1, <5>1, <5>2 DEF DataMove
      <4>4. Val({}) = 0
        BY ZeroCode, GrayRoundTrip DEF Val
      <4>5. Room'[r][0] \in 0 .. Depth /\ Depth \in Nat
        BY <2>2, <4>2, CountFacts DEF Received
      <4> DEFINE room == Room'[r]
                 T == Trusted'[r]
                 w == Word'[r]
                 g == Gray'[o]
                 n == Delay[o]
      <4>6. /\ \A k \in T : w[k] = {}
            /\ \A i \in 1 .. n : g[i] = {}
            /\ n \in 1 .. n /\ room[0] \in 0 .. Depth /\ Depth \in Nat
        BY <1>1, <4>1, <4>3, <4>5
      <4> HIDE DEF room, T, w, g, n
      <4>7. Linked(room, 0, w, T, g, 0, n)
        BY <4>4, <4>6 DEF Linked
      <4> QED BY <4>1, <4>2, <4>7 DEF room, T, w, g, n
    <3>2. CASE Rst[o] => Rst'[o]
      <4>1. ~(Rst[o] /\ Act[o]) /\ Cnt'[o] = After(o, beat)
        BY <1>1, <2>3, <3>2, LiveNext
      <4>2. Rst[r] => o \in ended
        BY <1>4, <2>3, <3>2, Apart
      <4>3. /\ Live(Gray'[o], After(o, beat), Delay[o])
            /\ Linked(Room[r], Base[r], Word[r], Trusted[r], Gray'[o], After(o, beat), Delay[o])
            /\ r \in C => Room[r][Val(gin[r])] <= Room[r][Val(Gray'[o][Delay[o]])]
        BY <4>1, <4>2, GoodSource
      <4>4. Linked(Room[r], Base'[r], Word'[r], Trusted'[r], Gray'[o], Cnt'[o], Delay[o])
        BY <1>1, <1>4, <4>1, <4>3, ReceivedNext
      <4> QED BY <1>1, <1>2, <1>4, <2>1, <2>3, <4>4, UsedNext
    <3> QED BY <3>1, <3>2
  <2> QED BY <1>2, <2>2, <2>3
<1> QED BY <1>3, <1>4

-----------------------------------------------------------------------------
(* The resets alone, whatever their length.                                  *)
ResetsInv == TypeInv /\ ResetInv

LEMMA InitValues ==
  ASSUME Init
  PROVE  /\ \A s \in Side : /\ Rst[s] = TRUE /\ Act[s] = TRUE /\ Over[s] = TRUE /\ Hold[s] = MinReset
                            /\ Cnt[s] = 0 /\ Saved[s] = 0
                            /\ Gray[s] = [i \in 1 .. Delay[s] |-> {}]
                            /\ Word[s] = [i \in SyncStage |-> {}]
                            /\ Flag[s] = [i \in SyncStage |-> TRUE]
         /\ ended = {}
<1>1. \A s \in Side : s = "push" \/ s = "pop"
  BY DEF Side
<1>2. reset_active_push = TRUE /\ reset_active_pop = TRUE
  BY DEF Init, reset_active_push, reset_active_pop
<1>3. ended = {}
  BY DEF Init
<1>4. \A s \in Side : /\ Rst[s] = TRUE /\ Act[s] = TRUE /\ Over[s] = TRUE /\ Hold[s] = MinReset
                      /\ Cnt[s] = 0 /\ Saved[s] = 0
  BY <1>1, <1>2, SideValues DEF Init
<1>5. \A s \in Side : /\ Gray[s] = [i \in 1 .. Delay[s] |-> {}]
                      /\ Word[s] = [i \in SyncStage |-> {}]
                      /\ Flag[s] = [i \in SyncStage |-> TRUE]
  BY <1>1, SideValues, DelayFacts DEF Init
<1> QED BY <1>3, <1>4, <1>5

LEMMA InitResets == Init => ResetsInv
<1> SUFFICES ASSUME Init PROVE ResetsInv
  OBVIOUS
<1>1. MinReset \in 0 .. MinReset /\ 0 \in Count
  BY CdcAssumption, ZeroCode
<1>2. TypeInv
  BY <1>1, InitValues DEF TypeInv
<1>3. ResetInv
  BY InitValues, OtherFacts DEF ResetInv
<1> QED BY <1>2, <1>3 DEF ResetsInv

LEMMA StillSides ==
  ASSUME UNCHANGED vars
  PROVE  /\ Rst' = Rst /\ Act' = Act /\ Hold' = Hold /\ Over' = Over /\ Cnt' = Cnt /\ Gray' = Gray
         /\ Word' = Word /\ Flag' = Flag /\ Saved' = Saved /\ Vis' = Vis /\ Room' = Room
         /\ Base' = Base /\ Trusted' = Trusted /\ ended' = ended
<1>1. /\ UNCHANGED <<push_rst, pop_rst, push_reset_reg, pop_reset_reg, held_push, held_pop,
                     overlap_push, overlap_pop, push_count, pop_count, push_gray, pop_gray>>
      /\ UNCHANGED <<push_pop_gray, pop_push_gray, push_pop_reset, pop_push_reset,
                     pop_count_saved, push_count_saved, ended>>
  BY DEF vars, pushVars, popVars, rstVars
<1>2. /\ Rst' = Rst /\ Act' = Act /\ Hold' = Hold /\ Over' = Over /\ Cnt' = Cnt /\ Gray' = Gray
      /\ Word' = Word /\ Flag' = Flag /\ Saved' = Saved /\ ended' = ended
  BY <1>1 DEF Rst, Act, Hold, Over, Cnt, Gray, Word, Flag, Saved, reset_active_push, reset_active_pop
<1>3. Room' = Room
  BY <1>1 DEF Room, Pushed, Popped
<1>4. Vis' = Vis /\ Base' = Base /\ Trusted' = Trusted
  BY <1>2 DEF Vis, Base, Trusted
<1> QED BY <1>2, <1>3, <1>4

LEMMA ResetsStep == ResetsInv /\ [Next]_vars => ResetsInv'
<1> SUFFICES ASSUME ResetsInv, [Next]_vars PROVE ResetsInv'
  OBVIOUS
<1>1. TypeInv /\ ResetInv
  BY DEF ResetsInv
<1>2. CASE Next
  <2>1. PICK C, beat, gin, rin : C \in SUBSET Side /\ Move(C, beat, gin, rin)
    BY <1>1, <1>2, MoveOfNext
  <2> QED BY <1>1, <2>1, TypeInvStep, ResetInvStep DEF ResetsInv
<1>3. CASE UNCHANGED vars
  BY <1>1, <1>3, StillSides DEF ResetsInv, TypeInv, ResetInv, Delay
<1> QED BY <1>2, <1>3

(* No domain sees a reset end before it has seen the two resets overlap,     *)
(* however short the resets are: the wait for both domains in the reset      *)
(* controller keeps reset_overlap_a.                                        *)
THEOREM ResetsOverlap == Spec => ResetOverlap
<1>1. ASSUME ResetsInv, Next
      PROVE  \A s \in Side : (Act[s] /\ ~Act'[s]) \/ (Flag[s][NumSyncStages] /\ ~Flag'[s][NumSyncStages])
                               => Over'[s]
  <2>1. TypeInv /\ ResetInv
    BY <1>1 DEF ResetsInv
  <2>2. PICK C, beat, gin, rin : C \in SUBSET Side /\ Move(C, beat, gin, rin)
    BY <1>1, <2>1, MoveOfNext
  <2> TAKE s \in Side
  <2>3. /\ FlagMove(s, C, rin) /\ FlagMove(Other(s), C, rin) /\ Other(s) \in Side /\ Other(Other(s)) = s
        /\ NumSyncStages \in SyncStage /\ (NumSyncStages # 1 => NumSyncStages - 1 < NumSyncStages)
    BY <2>1, <2>2, FlagNext, OtherFacts, DelayFacts
  <2>4. Over'[s] = (~ResetsOver /\ (Over[s] \/ (s \in C /\ Act[s] /\ Flag[s][NumSyncStages])))
    BY <2>2 DEF Move, Resets
  <2>5. ASSUME ResetsOver
        PROVE  ~Act[s] /\ ~Flag[s][NumSyncStages]
    <3>1. ~Rst[s] /\ ~push_reset_reg /\ ~pop_reset_reg
      BY <2>1, <2>5 DEF ResetsOver, ResetInv
    <3>2. s = "push" \/ s = "pop"
      BY DEF Side
    <3>3. ~Act[s]
      BY <3>1, <3>2, SideValues DEF reset_active_push, reset_active_pop
    <3>4. ~Flag[s][NumSyncStages]
      BY <2>3, <2>5, <3>2, SideValues DEF ResetsOver
    <3> QED BY <3>3, <3>4
  <2>6. CASE Act[s] /\ ~Act'[s]
    <3>1. Rst[s] /\ ~Rst'[s] => Over'[s]
      BY <2>1, <2>2, ReleaseFacts
    <3>2. s \in ended => Over'[s]
      BY <2>1, <2>4, <2>5, <2>6 DEF ResetInv
    <3>3. (Rst[s] /\ ~Rst'[s]) \/ s \in ended
      BY <2>1, <2>3, <2>6 DEF ResetInv, FlagMove
    <3> QED BY <3>1, <3>2, <3>3
  <2>7. CASE Flag[s][NumSyncStages] /\ ~Flag'[s][NumSyncStages]
    <3>1. s \in C /\ ~ResetsOver
      BY <2>3, <2>5, <2>7 DEF FlagMove
    <3>2. CASE s \in ended
      BY <2>1, <2>4, <3>1, <3>2 DEF ResetInv
    <3>3. CASE s \notin ended /\ Other(s) \in ended
      <4>1. Act[s]
        BY <2>1, <2>3, <3>3, FirstOut
      <4> QED BY <2>4, <2>7, <3>1, <4>1
    <3>4. CASE s \notin ended /\ Other(s) \notin ended
      <4>1. /\ Rst[Other(s)] /\ Act[Other(s)]
            /\ \A k \in SyncStage : k < NumSyncStages => Flag[s][k]
        BY <2>1, <2>3, <2>7, <3>4 DEF ResetInv
      <4>2. ~rin[s]
        BY <2>3, <2>7, <3>1, <4>1 DEF FlagMove
      <4>3. ~Act'[Other(s)]
        BY <2>3, <3>1, <4>1, <4>2 DEF FlagMove
      <4>4. ~Rst'[Other(s)]
        BY <2>3, <4>1, <4>3 DEF FlagMove
      <4>5. Act[s]
        BY <2>1, <2>2, <2>3, <3>4, <4>1, <4>4, ReleaseFacts
      <4> QED BY <2>4, <2>7, <3>1, <4>5
    <3> QED BY <3>2, <3>3, <3>4
  <2> QED BY <2>6, <2>7
<1>2. ASSUME ResetsInv, [Next]_vars
      PROVE  [ /\ (reset_active_push /\ ~reset_active_push') \/ (pop_reset_seen /\ ~pop_reset_seen')
                    => overlap_push'
               /\ (reset_active_pop /\ ~reset_active_pop') \/ (push_reset_seen /\ ~push_reset_seen')
                    => overlap_pop' ]_vars
  <2>1. CASE Next
    <3>1. "push" \in Side /\ "pop" \in Side
      BY DEF Side
    <3>2. /\ pop_reset_seen <=> Flag["push"][NumSyncStages]
          /\ pop_reset_seen' <=> Flag'["push"][NumSyncStages]
          /\ push_reset_seen <=> Flag["pop"][NumSyncStages]
          /\ push_reset_seen' <=> Flag'["pop"][NumSyncStages]
      BY SideValues, SideValuesNext DEF pop_reset_seen, push_reset_seen
    <3> QED BY <1>1, <1>2, <2>1, <3>1, <3>2, SideValues, SideValuesNext
  <2>2. CASE UNCHANGED vars
    BY <2>2
  <2> QED BY <1>2, <2>1, <2>2
<1>3. Spec => []ResetsInv
  BY InitResets, ResetsStep, PTL DEF Spec
<1> QED BY <1>2, <1>3, PTL DEF Spec, ResetOverlap

-----------------------------------------------------------------------------
(* The counts, for resets that are long enough.                              *)
IInv == TypeInv /\ ResetInv /\ ZeroInv /\ LinkInv

LEMMA InitIInv == Init => IInv
<1> SUFFICES ASSUME Init PROVE IInv
  OBVIOUS
<1>1. TypeInv /\ ResetInv
  BY InitResets DEF ResetsInv
<1>2. ZeroInv
  BY InitValues DEF ZeroInv
<1>3. ASSUME NEW r \in Side
      PROVE  LinkFrom(r, Other(r))
  <2>1. Other(r) \in Side
    BY OtherFacts
  <2>2. Trusted[r] = {} /\ Base[r] = 0
    BY <2>1, InitValues DEF Trusted, Base
  <2>3. 0 \in Count /\ Room[r] = RoomOf(r, 0)
    BY InitValues, ZeroCode, RoomValues
  <2>4. Received(Room[r], Base[r], Word[r], Trusted[r])
    BY <2>2, <2>3, RoomOfFacts DEF Received
  <2> QED BY <2>1, <2>4, InitValues DEF LinkFrom
<1> QED BY <1>1, <1>2, <1>3 DEF IInv, LinkInv

LEMMA IInvStep ==
  ASSUME LongResets
  PROVE  IInv /\ [Next]_vars => IInv'
<1> SUFFICES ASSUME IInv, [Next]_vars PROVE IInv'
  OBVIOUS
<1>1. TypeInv /\ ResetInv /\ ZeroInv /\ LinkInv
  BY DEF IInv
<1>2. CASE Next
  <2>1. PICK C, beat, gin, rin : C \in SUBSET Side /\ Move(C, beat, gin, rin)
    BY <1>1, <1>2, MoveOfNext
  <2>2. TypeInv' /\ ResetInv' /\ ZeroInv'
    BY <1>1, <2>1, TypeInvStep, ResetInvStep, ZeroInvStep
  <2>3. LinkInv'
    BY <1>1, <2>1, <2>2, LinkInvStep
  <2> QED BY <2>2, <2>3 DEF IInv
<1>3. CASE UNCHANGED vars
  <2>1. TypeInv' /\ ResetInv'
    BY <1>1, <1>3, StillSides DEF TypeInv, ResetInv, Delay
  <2>2. ZeroInv'
    BY <1>1, <1>3, StillSides DEF ZeroInv, Delay
  <2>3. LinkInv'
    BY <1>1, <1>3, StillSides DEF LinkInv, LinkFrom, Received, Live, Linked, Delay
  <2> QED BY <2>1, <2>2, <2>3 DEF IInv
<1> QED BY <1>2, <1>3

(* No reset of either side, however it falls into the traffic, makes a side   *)
(* see more entries, or less room, than the FIFO has, provided resets last    *)
(* until the zero is through br_delay_nr_push_count_gray: the hypothesis that *)
(* br_cdc_fifo_reset_overlap_checks does not make.                           *)
THEOREM CountsStayInRange == LongResets => (Spec => []CountsInRange)
<1> SUFFICES ASSUME LongResets PROVE Spec => []CountsInRange
  OBVIOUS
<1>1. IInv => CountsInRange
  <2> SUFFICES ASSUME IInv PROVE CountsInRange
    OBVIOUS
  <2>1. TypeInv /\ LinkInv /\ "push" \in Side /\ "pop" \in Side
    BY DEF IInv, Side
  <2>2. Depth \in Nat
    BY CountFacts
  <2>3. ASSUME ~push_rst
        PROVE  push_items <= Depth
    <3>1. ~Rst["push"]
      BY <2>3, SideValues
    <3>2. Vis["push"] \in Count /\ Room["push"][Vis["push"]] \in 0 .. Depth
      BY <2>1, <3>1, Seen
    <3>3. push_items = Difference(push_count, Vis["push"]) /\ push_count \in Count
      BY <2>1, VisValues, SideValues DEF push_items, TypeInv
    <3>4. Room["push"][Vis["push"]] = Depth - push_items
      BY <2>1, <2>3, <3>2, <3>3 DEF Room, Pushed
    <3>5. push_items \in Nat
      BY <3>2, <3>3, DifferenceFacts, CountFacts DEF Count
    <3> QED BY <2>2, <3>2, <3>4, <3>5
  <2>4. ASSUME ~pop_rst
        PROVE  pop_items <= Depth
    <3>1. ~Rst["pop"]
      BY <2>4, SideValues
    <3>2. Vis["pop"] \in Count /\ Room["pop"][Vis["pop"]] \in 0 .. Depth
      BY <2>1, <3>1, Seen
    <3>3. Room["pop"][Vis["pop"]] = pop_items
      BY <2>1, <2>4, <3>2, VisValues DEF Room, Popped, pop_items
    <3> QED BY <2>2, <3>2, <3>3
  <2> QED BY <2>3, <2>4 DEF CountsInRange
<1> QED BY <1>1, InitIInv, IInvStep, PTL DEF Spec

(* However many count bits are in flight, and whichever side has left reset   *)
(* first, the push side never believes the FIFO emptier than it is, nor the   *)
(* pop side fuller: neither overwrites an entry nor reads one that is not     *)
(* there.                                                                    *)
THEOREM FlagsErrSafely == LongResets => (Spec => []FlagsConservative)
<1> SUFFICES ASSUME LongResets PROVE Spec => []FlagsConservative
  OBVIOUS
<1>1. IInv => FlagsConservative
  <2> SUFFICES ASSUME IInv, Clean PROVE /\ ~push_rst => Occupancy <= push_items
                                        /\ ~pop_rst => pop_items <= Occupancy
    BY DEF FlagsConservative
  <2>1. TypeInv /\ ResetInv /\ ZeroInv /\ LinkInv /\ "push" \in Side /\ "pop" \in Side
    BY DEF IInv, Side
  <2>2. Depth \in Nat /\ Count \subseteq Nat
    BY CountFacts DEF Count
  <2>3. /\ push_count \in Count /\ pop_count \in Count /\ Pushed \in Count /\ Popped \in Count
        /\ Pushed = (IF Rst["push"] THEN 0 ELSE Cnt["push"])
        /\ Popped = (IF Rst["pop"] THEN 0 ELSE Cnt["pop"])
    BY <2>1, SideValues, ZeroCode DEF TypeInv, Pushed, Popped
  <2>4. ASSUME ~push_rst
        PROVE  Occupancy <= push_items
    <3>1. ~Rst["push"] /\ Other("push") = "pop"
      BY <2>4, SideValues DEF Other
    <3>2. Rst["pop"] => "push" \in ended
      BY <2>1, <3>1, SideValues DEF Clean, ResetInv, TypeInv, Side
    <3>3. Vis["push"] \in Count /\ Room["push"][Vis["push"]] <= Room["push"][Popped]
      BY <2>1, <2>3, <3>1, <3>2, Seen, Behind
    <3>4. /\ Room["push"][Vis["push"]] = Depth - Difference(Pushed, Vis["push"])
          /\ Room["push"][Popped] = Depth - Difference(Pushed, Popped)
      BY <2>1, <2>3, <3>3 DEF Room
    <3>5. push_items = Difference(Pushed, Vis["push"])
      BY <2>4, VisValues DEF push_items, Pushed
    <3>6. Difference(Pushed, Vis["push"]) \in Nat /\ Difference(Pushed, Popped) \in Nat
      BY <2>2, <2>3, <3>3, DifferenceFacts
    <3> QED BY <2>2, <3>3, <3>4, <3>5, <3>6 DEF Occupancy
  <2>5. ASSUME ~pop_rst
        PROVE  pop_items <= Occupancy
    <3>1. ~Rst["pop"] /\ Other("pop") = "push"
      BY <2>5, SideValues DEF Other
    <3>2. Rst["push"] => "pop" \in ended
      BY <2>1, <3>1, SideValues DEF Clean, ResetInv, TypeInv, Side
    <3>3. Vis["pop"] \in Count /\ Room["pop"][Vis["pop"]] <= Room["pop"][Pushed]
      BY <2>1, <2>3, <3>1, <3>2, Seen, Behind
    <3>4. /\ Room["pop"][Vis["pop"]] = Difference(Vis["pop"], Popped)
          /\ Room["pop"][Pushed] = Difference(Pushed, Popped)
      BY <2>1, <2>3, <3>3 DEF Room
    <3>5. pop_items = Difference(Vis["pop"], Popped)
      BY <2>5, VisValues DEF pop_items, Popped
    <3> QED BY <3>3, <3>4, <3>5 DEF Occupancy
  <2> QED BY <2>4, <2>5
<1> QED BY <1>1, InitIInv, IInvStep, PTL DEF Spec

(* The count that crosses changes in one bit at a time, at the end of a reset *)
(* too, if resets last until the zero is through the delay and one cycle     *)
(* more: while the count changes, what is sampled of it is a count it had.   *)
THEOREM OneBitAtATime == MinReset >= PushCountDelay + 2 => (Spec => SingleBitChange)
<1> SUFFICES ASSUME MinReset >= PushCountDelay + 2 PROVE Spec => SingleBitChange
  OBVIOUS
<1>1. LongResets
  BY DelayFacts, CdcAssumption DEF LongResets
<1>2. ASSUME NEW v \in SUBSET Bit, NEW w \in SUBSET Bit, v = w \/ OneBit(v, w)
      PROVE  Cardinality(SymDiff(v, w)) <= 1
  <2>1. CASE v = w
    <3>1. SymDiff(v, w) = {}
      BY <2>1 DEF SymDiff
    <3> QED BY <3>1, FS_EmptySet
  <2>2. CASE OneBit(v, w)
    <3>1. PICK k \in Bit : ((k \in v) # (k \in w)) /\ v \ {k} = w \ {k}
      BY <2>2 DEF OneBit
    <3>2. SymDiff(v, w) = {k}
      BY <3>1 DEF SymDiff
    <3> QED BY <3>2, FS_Singleton
  <2> QED BY <1>2, <2>1, <2>2
<1>3. ASSUME IInv, Next
      PROVE  \A s \in Side : ~Rst'[s] =>
               Cardinality(SymDiff(Gray[s][Delay[s]], Gray'[s][Delay[s]])) <= 1
  <2>1. TypeInv /\ ResetInv /\ ZeroInv /\ LinkInv
    BY <1>3 DEF IInv
  <2>2. PICK C, beat, gin, rin : C \in SUBSET Side /\ Move(C, beat, gin, rin)
    BY <1>3, <2>1, MoveOfNext
  <2> TAKE s \in Side
  <2> SUFFICES ASSUME ~Rst'[s]
               PROVE  Cardinality(SymDiff(Gray[s][Delay[s]], Gray'[s][Delay[s]])) <= 1
    OBVIOUS
  <2>3. /\ Delay[s] \in Nat \ {0} /\ Delay[s] \in 1 .. Delay[s] /\ Delay[s] <= PushCountDelay
        /\ PushCountDelay \in Nat /\ MinReset \in Nat
    BY DelayFacts, CdcAssumption
  <2>4. Gray[s][Delay[s]] \in SUBSET Bit /\ Gray'[s][Delay[s]] \in SUBSET Bit
    <3>1. DataMove(s, C, beat, gin)
      BY <2>1, <2>2, DataNext
    <3> QED BY <2>1, <2>3, <3>1 DEF TypeInv, DataMove
  <2>5. CASE ~Rst[s]
    <3>1. Gray'[s][Delay[s]] = Gray[s][Delay[s]] \/ OneBit(Gray[s][Delay[s]], Gray'[s][Delay[s]])
      BY <1>1, <2>1, <2>2, <2>5, LiveNext
    <3> QED BY <1>2, <2>4, <3>1
  <2>6. CASE Rst[s]
    <3>1. Hold[s] + 1 >= MinReset /\ Hold[s] \in Nat
      <4>1. Hold[s] + 1 >= MinReset
        BY <2>1, <2>2, <2>6, ReleaseFacts
      <4>2. Hold[s] \in 0 .. MinReset
        BY <2>1 DEF TypeInv
      <4> QED BY <2>3, <4>1, <4>2
    <3>2. Hold[s] >= Delay[s] + 1
      BY <2>3, <3>1
    <3>3. Gray[s][Delay[s]] = {}
      BY <2>1, <2>3, <2>6, <3>2 DEF ZeroInv
    <3>4. Gray'[s][Delay[s]] = {}
      <4>1. PICK r \in Side : Other(r) = s
        BY OtherFacts
      <4>2. \A i \in 1 .. Delay[Other(r)] : Gray'[Other(r)][i] = {}
        BY <1>1, <2>1, <2>2, <2>6, <4>1, Restart
      <4> QED BY <2>3, <4>1, <4>2
    <3> QED BY <1>2, <2>4, <3>3, <3>4
  <2> QED BY <2>5, <2>6
<1>4. ASSUME IInv, [Next]_vars
      PROVE  [ /\ ~push_rst' =>
                    Cardinality(SymDiff(push_gray[PushCountDelay], push_gray[PushCountDelay]')) <= 1
               /\ ~pop_rst' =>
                    Cardinality(SymDiff(pop_gray[PopCountDelay], pop_gray[PopCountDelay]')) <= 1 ]_vars
  <2>1. CASE Next
    <3>1. "push" \in Side /\ "pop" \in Side
      BY DEF Side
    <3>2. PushCountDelay' = PushCountDelay /\ PopCountDelay' = PopCountDelay
      BY DEF PushCountDelay, PopCountDelay
    <3> QED BY <1>3, <1>4, <2>1, <3>1, <3>2, SideValues, SideValuesNext, DelayFacts
  <2>2. CASE UNCHANGED vars
    BY <2>2
  <2> QED BY <1>4, <2>1, <2>2
<1> QED BY <1>1, <1>4, InitIInv, IInvStep, PTL DEF Spec, SingleBitChange

-----------------------------------------------------------------------------
(* The entries.  An entry is written to the RAM RamWriteLatency cycles after  *)
(* it was pushed, and its count crosses PushCountDelay cycles after: when    *)
(* the pop side learns of it, it is there.                                  *)
WriteStage == 1 .. RamWriteLatency - 1
WrAddr == IF push_rst THEN 0 ELSE ram_wr_addr

StoreType ==
  /\ ram_wr_addr \in Addr /\ ram_rd_addr \in Addr
  /\ ram \in [Addr -> Data \cup {NoData}]
  /\ DOMAIN ram_wr = WriteStage
  /\ \A i \in WriteStage : ram_wr[i] = NoWrite \/ ram_wr[i] \in [addr : Addr, data : Data]

\* A reset clears the addresses and, beat by beat, the write pipeline.
StoreZero ==
  /\ push_rst => /\ held_push >= 1 => ram_wr_addr = 0
                 /\ \A i \in WriteStage : held_push >= i => ram_wr[i] = NoWrite
  /\ pop_rst /\ held_pop >= 1 => ram_rd_addr = 0
  /\ "pop" \in ended /\ "push" \notin ended => ram_rd_addr = 0

(* The addresses enclose what the counts say is in the FIFO, and a write on   *)
(* its way is one whose count is not among those that may have crossed: that *)
(* of the stage after it was taken before the write.                        *)
StoreInv ==
  Clean =>
    /\ WrAddr = (Oldest + Occupancy) % Depth
    /\ ~push_rst => \A i \in WriteStage : ram_wr[i] # NoWrite =>
          /\ ram_wr[i].addr = (Oldest + Difference(Val(push_gray[i + 1]), Popped)) % Depth
          /\ Difference(Val(push_gray[i + 1]), Popped) <= Depth - 1

LEMMA StageFacts ==
  /\ RamWriteLatency \in Nat \ {0} /\ RamWriteLatency <= PushCountDelay
  /\ \A i \in WriteStage : /\ i \in Nat /\ i >= 1 /\ i <= RamWriteLatency - 1
                           /\ i \in 1 .. PushCountDelay /\ i + 1 \in 2 .. PushCountDelay
                           /\ i # 1 => i - 1 \in WriteStage
  /\ LongResets => \A i \in WriteStage : MinReset >= i + 1
<1>1. /\ RamWriteLatency \in Nat \ {0} /\ RegisterResetActive \in {0, 1} /\ MinReset \in Nat
      /\ PushCountDelay \in Nat
  BY CdcAssumption, DelayFacts
<1>2. RamWriteLatency <= PushCountDelay /\ RegisterResetActive + 1 <= PushCountDelay
  BY <1>1 DEF PushCountDelay, Larger
<1> HIDE DEF PushCountDelay
<1> QED BY <1>1, <1>2 DEF WriteStage, LongResets

\* Addresses that wrap.
LEMMA AddrFacts ==
  ASSUME NEW o \in Addr, NEW k \in 0 .. Depth
  PROVE  /\ (o + k) % Depth \in Addr
         /\ AddrAfter(o, TRUE) \in Addr
         /\ (o + 0) % Depth = o
         /\ k >= 1 /\ k <= Depth - 1 => (o + k) % Depth # o
         /\ k <= Depth - 1 => AddrAfter((o + k) % Depth, TRUE) = (o + (k + 1)) % Depth
         /\ k >= 1 => (AddrAfter(o, TRUE) + (k - 1)) % Depth = (o + k) % Depth
<1> DEFINE D == Depth
<1>1. D \in Nat /\ D >= 2 /\ o \in 0 .. D - 1 /\ k \in 0 .. D
  BY CountFacts DEF Addr
<1> HIDE DEF D
<1>2. \A n \in 0 .. 2 * D - 1 : n % D = IF n < D THEN n ELSE n - D
  BY <1>1
<1>3. /\ (o + k) % D = IF o + k < D THEN o + k ELSE o + k - D
      /\ (o + 1) % D = IF o + 1 < D THEN o + 1 ELSE o + 1 - D
      /\ (o + 0) % D = o
  BY <1>1, <1>2
<1>4. k <= D - 1 => (o + (k + 1)) % D = IF o + (k + 1) < D THEN o + (k + 1) ELSE o + (k + 1) - D
  BY <1>1, <1>2
<1>5. ASSUME k <= D - 1
      PROVE  (((o + k) % D) + 1) % D = (o + (k + 1)) % D
  <2>1. ((o + k) % D) + 1 \in 0 .. 2 * D - 1
    BY <1>1, <1>3
  <2>2. PICK m \in 0 .. 2 * D - 1 : m = ((o + k) % D) + 1
    BY <2>1
  <2>3. m % D = IF m < D THEN m ELSE m - D
    BY <1>2
  <2>4. m % D = (o + (k + 1)) % D
    BY <1>1, <1>3, <1>4, <1>5, <2>2, <2>3
  <2> QED BY <2>2, <2>4
<1>6. ASSUME k >= 1
      PROVE  (((o + 1) % D) + (k - 1)) % D = (o + k) % D
  <2>1. ((o + 1) % D) + (k - 1) \in 0 .. 2 * D - 1
    BY <1>1, <1>3, <1>6
  <2>2. PICK m \in 0 .. 2 * D - 1 : m = ((o + 1) % D) + (k - 1)
    BY <2>1
  <2>3. m % D = IF m < D THEN m ELSE m - D
    BY <1>2
  <2>4. m % D = (o + k) % D
    BY <1>1, <1>3, <1>6, <2>2, <2>3
  <2> QED BY <2>2, <2>4
<1>7. (o + k) % D \in 0 .. D - 1 /\ (o + 1) % D \in 0 .. D - 1
  BY <1>1, <1>3
<1>8. k >= 1 /\ k <= D - 1 => (o + k) % D # o
  BY <1>1, <1>3
<1> QED BY <1>3, <1>5, <1>6, <1>7, <1>8 DEF D, Addr, AddrAfter

\* The newest of the writes on their way to a.
LEMMA SettledIs ==
  ASSUME NEW a
  PROVE  /\ \A i \in DOMAIN ram_wr :
              /\ DOMAIN ram_wr \subseteq Nat
              /\ ram_wr[i] # NoWrite /\ ram_wr[i].addr = a
              /\ \A j \in DOMAIN ram_wr : ram_wr[j] # NoWrite /\ ram_wr[j].addr = a => i <= j
              => Settled(a) = ram_wr[i].data
         /\ (\A i \in DOMAIN ram_wr : ~(ram_wr[i] # NoWrite /\ ram_wr[i].addr = a)) => Settled(a) = ram[a]
<1> DEFINE P == {i \in DOMAIN ram_wr : ram_wr[i] # NoWrite /\ ram_wr[i].addr = a}
<1>1. Settled(a) = IF P = {} THEN ram[a]
                   ELSE ram_wr[CHOOSE i \in P : \A j \in P : i <= j].data
  BY DEF Settled
<1>2. ASSUME NEW i \in P, P \subseteq Nat, \A j \in P : i <= j
      PROVE  Settled(a) = ram_wr[i].data
  <2> DEFINE c == CHOOSE k \in P : \A j \in P : k <= j
  <2>1. c \in P /\ \A j \in P : c <= j
    BY <1>2
  <2> HIDE DEF c, P
  <2>2. c = i
    <3>1. c <= i /\ i <= c /\ c \in Nat /\ i \in Nat
      BY <1>2, <2>1
    <3> QED BY <3>1
  <2>3. P # {}
    BY <1>2
  <2> USE DEF c
  <2> QED BY <1>1, <2>2, <2>3
<1>3. P = {} => Settled(a) = ram[a]
  BY <1>1
<1> QED BY <1>2, <1>3

LEMMA SettledIsNext ==
  ASSUME NEW a
  PROVE  /\ \A i \in DOMAIN ram_wr' :
              /\ DOMAIN ram_wr' \subseteq Nat
              /\ ram_wr'[i] # NoWrite /\ ram_wr'[i].addr = a
              /\ \A j \in DOMAIN ram_wr' : ram_wr'[j] # NoWrite /\ ram_wr'[j].addr = a => i <= j
              => Settled(a)' = ram_wr'[i].data
         /\ (\A i \in DOMAIN ram_wr' : ~(ram_wr'[i] # NoWrite /\ ram_wr'[i].addr = a))
              => Settled(a)' = ram'[a]
<1> DEFINE P == {i \in DOMAIN ram_wr' : ram_wr'[i] # NoWrite /\ ram_wr'[i].addr = a}
<1>1. Settled(a)' = IF P = {} THEN ram'[a]
                   ELSE ram_wr'[CHOOSE i \in P : \A j \in P : i <= j].data
  BY DEF Settled, NoWrite
<1>2. ASSUME NEW i \in P, P \subseteq Nat, \A j \in P : i <= j
      PROVE  Settled(a)' = ram_wr'[i].data
  <2> DEFINE c == CHOOSE k \in P : \A j \in P : k <= j
  <2>1. c \in P /\ \A j \in P : c <= j
    BY <1>2
  <2> HIDE DEF c, P
  <2>2. c = i
    <3>1. c <= i /\ i <= c /\ c \in Nat /\ i \in Nat
      BY <1>2, <2>1
    <3> QED BY <3>1
  <2>3. P # {}
    BY <1>2
  <2> USE DEF c
  <2> QED BY <1>1, <2>2, <2>3
<1>3. P = {} => Settled(a)' = ram'[a]
  BY <1>1
<1> QED BY <1>2, <1>3

LEMMA WriteFacts ==
  ASSUME NEW x \in Addr, NEW d \in Data
  PROVE  /\ [addr |-> x, data |-> d] \in [addr : Addr, data : Data]
         /\ [addr |-> x, data |-> d] # NoWrite /\ [addr |-> x, data |-> d].addr = x
         /\ [addr |-> x, data |-> d].data = d
         /\ NoWrite \notin [addr : Addr, data : Data]
BY CdcAssumption DEF NoWrite

\* The stages of the write pipeline after a cycle of the push clock.
LEMMA PipelineNext ==
  ASSUME StoreType, NEW b \in BOOLEAN, NEW d, b => d \in Data, ram_wr' = Shift(ram_wr, NewWrite(b, d))
  PROVE  /\ DOMAIN ram_wr' = WriteStage
         /\ 1 \in WriteStage => ram_wr'[1] = NewWrite(b, d)
         /\ \A i \in WriteStage : i # 1 => i - 1 \in WriteStage /\ ram_wr'[i] = ram_wr[i - 1]
         /\ \A i \in WriteStage : ram_wr'[i] = NoWrite \/ ram_wr'[i] \in [addr : Addr, data : Data]
<1>1. DOMAIN ram_wr' = WriteStage
  BY DEF Shift, StoreType
<1>2. \A i \in WriteStage : ram_wr'[i] = IF i = 1 THEN NewWrite(b, d) ELSE ram_wr[i - 1]
  BY DEF Shift, StoreType
<1>3. NewWrite(b, d) = NoWrite \/ NewWrite(b, d) \in [addr : Addr, data : Data]
  BY WriteFacts DEF NewWrite, StoreType
<1>4. \A i \in WriteStage : i # 1 => i - 1 \in WriteStage
  BY StageFacts
<1>5. \A i \in WriteStage : ram_wr[i] = NoWrite \/ ram_wr[i] \in [addr : Addr, data : Data]
  BY DEF StoreType
<1> QED BY <1>1, <1>2, <1>3, <1>4, <1>5

(* What has been written and what is on its way are one store: a write counts  *)
(* from the cycle of the push.                                               *)
LEMMA SettledMoves ==
  ASSUME StoreType, NEW C, NEW beat, NEW d, StoreMove(C, beat, d),
         beat["push"] \in BOOLEAN, beat["push"] => "push" \in C, NEW a \in Addr
  PROVE  Settled(a)' = IF beat["push"] /\ a = ram_wr_addr THEN d ELSE Settled(a)
<1> DEFINE On(i) == ram_wr[i] # NoWrite /\ ram_wr[i].addr = a
           On2(i) == ram_wr'[i] # NoWrite /\ ram_wr'[i].addr = a
           b == beat["push"]
           new == NewWrite(b, d)
           N == RamWriteLatency - 1
<1>1. CASE "push" \notin C
  <2>1. ram_wr' = ram_wr /\ ram' = ram
    BY <1>1 DEF StoreMove
  <2> QED BY <1>1, <2>1 DEF Settled
<1>2. CASE "push" \in C
  <2>1. /\ b => d \in Data
        /\ ram_wr' = Shift(ram_wr, new)
        /\ ram' = IF Landing(b, d) = NoWrite THEN ram
                  ELSE [ram EXCEPT ![Landing(b, d).addr] = Landing(b, d).data]
    BY <1>2 DEF StoreMove
  <2>2. /\ N \in Nat /\ WriteStage = 1 .. N /\ DOMAIN ram_wr = WriteStage /\ DOMAIN ram_wr' = WriteStage
        /\ WriteStage \subseteq Nat
        /\ 1 \in WriteStage => ram_wr'[1] = new
        /\ \A i \in WriteStage : i # 1 => i - 1 \in WriteStage /\ ram_wr'[i] = ram_wr[i - 1]
        /\ ram \in [Addr -> Data \cup {NoData}]
    BY <2>1, StageFacts, PipelineNext DEF WriteStage, StoreType
  <2>3. /\ b => new # NoWrite /\ new.addr = ram_wr_addr /\ new.data = d
        /\ ~b => new = NoWrite
    BY <2>1, WriteFacts DEF NewWrite, StoreType
  <2>4. Landing(b, d) = IF N = 0 THEN new ELSE ram_wr[N]
    BY StageFacts DEF Landing
  <2> HIDE DEF new, b, N
  <2>5. CASE N = 0
    <3>1. WriteStage = {}
      BY <2>2, <2>5
    <3>2. Settled(a) = ram[a] /\ Settled(a)' = ram'[a]
      BY <2>2, <3>1, SettledIs, SettledIsNext
    <3>3. ram' = IF new = NoWrite THEN ram ELSE [ram EXCEPT ![new.addr] = new.data]
      BY <2>1, <2>4, <2>5
    <3>4. ram'[a] = IF b /\ a = ram_wr_addr THEN d ELSE ram[a]
      BY <2>2, <2>3, <3>3
    <3> QED BY <3>2, <3>4 DEF b
  <2>6. CASE N # 0
    <3>1. /\ 1 \in WriteStage /\ N \in WriteStage /\ ram_wr'[1] = new
          /\ \A i \in WriteStage : i >= 1 /\ i <= N
          /\ \A i \in WriteStage : i # N => i + 1 \in WriteStage /\ i + 1 # 1 /\ (i + 1) - 1 = i
      BY <2>2, <2>6
    <3>2. ram' = IF ram_wr[N] = NoWrite THEN ram ELSE [ram EXCEPT ![ram_wr[N].addr] = ram_wr[N].data]
      BY <2>1, <2>4, <2>6
    <3>3. ram'[a] = IF On(N) THEN ram_wr[N].data ELSE ram[a]
      BY <2>2, <3>2
    <3>4. \A i \in WriteStage : i # 1 => (On2(i) <=> On(i - 1))
      BY <2>2
    <3>5. On2(1) <=> (b /\ a = ram_wr_addr)
      BY <2>3, <3>1
    <3>6. CASE b /\ a = ram_wr_addr
      <4>1. Settled(a)' = ram_wr'[1].data
        BY <2>2, <3>1, <3>5, <3>6, SettledIsNext
      <4> QED BY <2>3, <3>1, <3>6, <4>1 DEF b
    <3>7. CASE ~(b /\ a = ram_wr_addr) /\ \A i \in WriteStage : ~On(i)
      <4>1. \A i \in WriteStage : ~On2(i)
        BY <2>2, <3>4, <3>5, <3>7
      <4>2. Settled(a) = ram[a] /\ Settled(a)' = ram'[a]
        BY <2>2, <3>7, <4>1, SettledIs, SettledIsNext
      <4> QED BY <3>1, <3>3, <3>7, <4>2 DEF b
    <3>8. CASE ~(b /\ a = ram_wr_addr) /\ \E i \in WriteStage : On(i)
      <4>1. PICK i \in WriteStage : On(i) /\ \A j \in WriteStage : On(j) => i <= j
        <5> DEFINE P == {j \in WriteStage : On(j)}
        <5>1. P \in SUBSET Nat /\ P # {}
          BY <2>2, <3>8
        <5>2. PICK i \in P : \A j \in P : i <= j
          <6> HIDE DEF P
          <6> QED BY <5>1, LeastNat
        <5> QED BY <5>2
      <4>2. Settled(a) = ram_wr[i].data
        BY <2>2, <4>1, SettledIs
      <4>3. ASSUME NEW j \in WriteStage, On2(j)
            PROVE  i + 1 <= j
        <5>1. j # 1 /\ j - 1 \in WriteStage /\ On(j - 1)
          BY <2>2, <3>4, <3>5, <3>8, <4>3
        <5>2. i <= j - 1 /\ i \in Nat /\ j \in Nat
          BY <2>2, <4>1, <5>1
        <5> QED BY <5>2
      <4>4. CASE i # N
        <5>1. i + 1 \in WriteStage /\ On2(i + 1) /\ ram_wr'[i + 1] = ram_wr[i]
          BY <2>2, <3>1, <3>4, <4>1, <4>4
        <5>2. Settled(a)' = ram_wr'[i + 1].data
          <6>1. PICK k \in WriteStage : k = i + 1
            BY <5>1
          <6>2. On2(k) /\ \A j \in WriteStage : On2(j) => k <= j
            BY <4>3, <5>1, <6>1
          <6>3. Settled(a)' = ram_wr'[k].data
            BY <2>2, <6>2, SettledIsNext
          <6> QED BY <6>1, <6>3
        <5> QED BY <3>8, <4>2, <5>1, <5>2 DEF b
      <4>5. CASE i = N
        <5>1. \A j \in WriteStage : ~On2(j)
          <6> SUFFICES ASSUME NEW j \in WriteStage, On2(j) PROVE FALSE
            OBVIOUS
          <6>1. N + 1 <= j /\ j <= N
            BY <3>1, <4>3, <4>5
          <6> QED BY <2>2, <6>1
        <5>2. Settled(a)' = ram'[a]
          BY <2>2, <5>1, SettledIsNext
        <5> QED BY <3>3, <3>8, <4>1, <4>2, <4>5, <5>2 DEF b
      <4> QED BY <4>4, <4>5
    <3> QED BY <3>6, <3>7, <3>8
  <2> QED BY <2>5, <2>6
<1> QED BY <1>1, <1>2

-----------------------------------------------------------------------------
\* Counts and addresses, a reset that is asserted taken as done.
LEMMA EffectiveMoves ==
  ASSUME TypeInv, ResetInv, NEW C \in SUBSET Side, NEW beat, NEW gin, NEW rin,
         Move(C, beat, gin, rin), NEW d, StoreMove(C, beat, d)
  PROVE  /\ push_rst \/ ~push_rst' => /\ Pushed' = IF beat["push"] THEN Succ(Pushed) ELSE Pushed
                                      /\ WrAddr' = AddrAfter(WrAddr, beat["push"])
         /\ pop_rst \/ ~pop_rst' => /\ Popped' = IF beat["pop"] THEN Succ(Popped) ELSE Popped
                                    /\ Oldest' = AddrAfter(Oldest, beat["pop"])
<1>1. "push" \in Side /\ "pop" \in Side
  BY DEF Side
<1>2. /\ DataMove("push", C, beat, gin) /\ DataMove("pop", C, beat, gin)
      /\ FlagMove("push", C, rin) /\ FlagMove("pop", C, rin)
  BY <1>1, DataNext, FlagNext
<1>3. /\ beat["push"] \in BOOLEAN /\ (beat["push"] => ~push_rst /\ "push" \in C)
      /\ push_rst \in BOOLEAN /\ ("push" \notin C => push_rst' = push_rst /\ push_count' = push_count)
      /\ "push" \in C => push_count' = IF push_rst THEN 0
                                       ELSE IF beat["push"] THEN Succ(push_count) ELSE push_count
  BY <1>1, <1>2, SideValues, SideValuesNext DEF DataMove, FlagMove, TypeInv, After
<1>4. /\ beat["pop"] \in BOOLEAN /\ (beat["pop"] => ~pop_rst /\ "pop" \in C)
      /\ pop_rst \in BOOLEAN /\ ("pop" \notin C => pop_rst' = pop_rst /\ pop_count' = pop_count)
      /\ "pop" \in C => pop_count' = IF pop_rst THEN 0
                                     ELSE IF beat["pop"] THEN Succ(pop_count) ELSE pop_count
  BY <1>1, <1>2, SideValues, SideValuesNext DEF DataMove, FlagMove, TypeInv, After
<1>5. ASSUME push_rst \/ ~push_rst'
      PROVE  /\ Pushed' = IF beat["push"] THEN Succ(Pushed) ELSE Pushed
             /\ WrAddr' = AddrAfter(WrAddr, beat["push"])
  <2>1. CASE "push" \in C
    <3>1. ram_wr_addr' = IF push_rst THEN 0 ELSE AddrAfter(ram_wr_addr, beat["push"])
      BY <2>1 DEF StoreMove
    <3> QED BY <1>3, <1>5, <2>1, <3>1 DEF Pushed, WrAddr, AddrAfter
  <2>2. CASE "push" \notin C
    <3>1. ram_wr_addr' = ram_wr_addr
      BY <2>2 DEF StoreMove
    <3> QED BY <1>3, <1>5, <2>2, <3>1 DEF Pushed, WrAddr, AddrAfter
  <2> QED BY <2>1, <2>2
<1>6. ASSUME pop_rst \/ ~pop_rst'
      PROVE  /\ Popped' = IF beat["pop"] THEN Succ(Popped) ELSE Popped
             /\ Oldest' = AddrAfter(Oldest, beat["pop"])
  <2>1. CASE "pop" \in C
    <3>1. ram_rd_addr' = IF pop_rst THEN 0 ELSE AddrAfter(ram_rd_addr, beat["pop"])
      BY <2>1 DEF StoreMove
    <3> QED BY <1>4, <1>6, <2>1, <3>1 DEF Popped, Oldest, AddrAfter
  <2>2. CASE "pop" \notin C
    <3>1. ram_rd_addr' = ram_rd_addr
      BY <2>2 DEF StoreMove
    <3> QED BY <1>4, <1>6, <2>2, <3>1 DEF Popped, Oldest, AddrAfter
  <2> QED BY <2>1, <2>2
<1> QED BY <1>5, <1>6

\* What a state in which the two sides describe one queue has in common.
LEMMA CleanFacts ==
  ASSUME TypeInv, ResetInv, ZeroInv, LinkInv, StoreType, Clean
  PROVE  /\ Pushed \in Count /\ Popped \in Count /\ Occupancy \in 0 .. Depth
         /\ Oldest \in Addr /\ WrAddr \in Addr
         /\ Occupancy = RoomOf("pop", Popped)[Pushed]
         /\ push_rst => Popped = 0 /\ Occupancy = 0 /\ ~pop_rst /\ "pop" \in ended /\ "push" \notin ended
         /\ pop_rst => ~push_rst /\ "push" \in ended /\ "pop" \notin ended
<1>1. /\ "push" \in Side /\ "pop" \in Side /\ Other("pop") = "push" /\ Other("push") = "pop"
      /\ ended \subseteq Side /\ push_rst \in BOOLEAN /\ pop_rst \in BOOLEAN
  BY SideValues DEF Side, Other, TypeInv
<1>2. Pushed \in Count /\ Popped \in Count
  BY <1>1, SideValues, ZeroCode DEF TypeInv, Pushed, Popped
<1>3. Oldest \in Addr /\ WrAddr \in Addr
  BY CountFacts DEF Oldest, WrAddr, StoreType, Addr
<1>4. Occupancy = RoomOf("pop", Popped)[Pushed]
  BY <1>2 DEF RoomOf, Occupancy
<1>5. /\ "push" \in ended => ~push_rst
      /\ "pop" \in ended => ~pop_rst
  BY <1>1, SideValues DEF ResetInv
<1>6. /\ push_rst => ~pop_rst /\ "pop" \in ended /\ "push" \notin ended
      /\ pop_rst => ~push_rst /\ "push" \in ended /\ "pop" \notin ended
  BY <1>1, <1>5 DEF Clean, Side
<1>7. ASSUME push_rst
      PROVE  Popped = 0 /\ Occupancy = 0
  <2>1. Popped = 0 /\ Pushed = 0
    BY <1>6, <1>7, SideValues DEF ZeroInv, Popped, Pushed
  <2>2. Difference(0, 0) = 0
    BY ZeroCode, DifferenceFacts
  <2> QED BY <2>1, <2>2 DEF Occupancy
<1>8. ASSUME ~push_rst
      PROVE  Occupancy \in 0 .. Depth
  <2>1. Linked(Room["pop"], Base["pop"], Word["pop"], Trusted["pop"], Gray["push"], Cnt["push"], Delay["push"])
    BY <1>1, <1>6, <1>8, SideValues DEF LinkInv, LinkFrom
  <2>2. Room["pop"][push_count] \in 0 .. Depth
    BY <2>1, SideValues DEF Linked
  <2>3. Room["pop"][push_count] = Occupancy
    BY <1>1, <1>2, <1>8 DEF Room, Pushed, Occupancy
  <2> QED BY <2>2, <2>3
<1>9. Occupancy \in 0 .. Depth
  BY <1>1, <1>7, <1>8, CountFacts
<1> QED BY <1>2, <1>3, <1>4, <1>6, <1>7, <1>9

\* A push has room, and a pop takes what has been there for as long as its count took to cross.
LEMMA BeatsAreCovered ==
  ASSUME TypeInv, ResetInv, ZeroInv, LinkInv, StoreType, Clean,
         NEW C \in SUBSET Side, NEW beat, NEW gin, NEW rin, Move(C, beat, gin, rin)
  PROVE  /\ beat["push"] => ~push_rst /\ "push" \in C /\ Occupancy <= Depth - 1
         /\ beat["pop"] => /\ ~pop_rst /\ ~push_rst /\ "pop" \in C /\ Occupancy >= 1
                           /\ \A i \in 1 .. PushCountDelay :
                                 Difference(Val(push_gray[i]), Popped) >= 1
<1>1. /\ "push" \in Side /\ "pop" \in Side /\ Other("pop") = "push" /\ Other("push") = "pop"
      /\ push_rst \in BOOLEAN /\ pop_rst \in BOOLEAN /\ Delay["push"] = PushCountDelay
  BY SideValues, DelayFacts DEF Side, Other, TypeInv
<1>2. DataMove("push", C, beat, gin) /\ DataMove("pop", C, beat, gin)
  BY <1>1, DataNext
<1>3. /\ Pushed \in Count /\ Popped \in Count /\ Occupancy \in 0 .. Depth /\ Depth \in Nat
      /\ push_rst => Popped = 0 /\ Occupancy = 0 /\ ~pop_rst /\ "pop" \in ended /\ "push" \notin ended
      /\ pop_rst => ~push_rst /\ "push" \in ended /\ "pop" \notin ended
  BY CleanFacts, CountFacts
<1>4. ASSUME beat["push"]
      PROVE  ~push_rst /\ "push" \in C /\ Occupancy <= Depth - 1
  <2>1. ~push_rst /\ "push" \in C
    BY <1>2, <1>4, SideValues DEF DataMove
  <2>2. Rst[Other("push")] => "push" \in ended
    BY <1>1, <1>3, SideValues
  <2>3. Room["pop"][Cnt["push"]] <= Depth - 1
    <3>1. Room[Other("push")][Cnt["push"]] <= Depth - 1
      BY <1>1, <1>4, <2>2, BeatHasRoom
    <3> QED BY <1>1, <3>1
  <2>4. Room["pop"][Cnt["push"]] = Occupancy
    BY <1>1, <1>3, <2>1, SideValues DEF Room, Pushed, Occupancy
  <2> QED BY <2>1, <2>3, <2>4
<1>5. ASSUME beat["pop"]
      PROVE  /\ ~pop_rst /\ ~push_rst /\ "pop" \in C /\ Occupancy >= 1
             /\ \A i \in 1 .. PushCountDelay : Difference(Val(push_gray[i]), Popped) >= 1
  <2>1. ~Rst["pop"] /\ "pop" \in C /\ (Vis["pop"] \in Count => Room["pop"][Vis["pop"]] # 0)
    BY <1>2, <1>5 DEF DataMove
  <2>2. /\ Vis["pop"] \in Count /\ Room["pop"][Vis["pop"]] \in 0 .. Depth
        /\ Vis["pop"] = Base["pop"]
           \/ (NumSyncStages \in Trusted["pop"] /\ Vis["pop"] = Val(Word["pop"][NumSyncStages]))
    BY <1>1, <2>1, Seen
  <2>3. Room["pop"][Vis["pop"]] >= 1
    BY <1>3, <2>1, <2>2
  <2>4. Room["pop"] = [x \in Count |-> Difference(x, Popped)]
    BY <1>1 DEF Room
  <2>5. Occupancy >= 1
    <3>1. Rst["push"] => "pop" \in ended
      BY <1>3, SideValues
    <3>2. Room["pop"][Vis["pop"]] <= Room["pop"][IF Rst["push"] THEN 0 ELSE Cnt["push"]]
      BY <1>1, <2>1, <3>1, Behind
    <3>3. Room["pop"][Vis["pop"]] <= Occupancy
      BY <1>3, <2>4, <3>2, SideValues DEF Occupancy, Pushed
    <3> QED BY <1>3, <2>2, <2>3, <3>3
  <2>6. ~push_rst
    BY <1>3, <2>5
  <2>7. /\ Linked(Room["pop"], Base["pop"], Word["pop"], Trusted["pop"], Gray["push"], Cnt["push"], Delay["push"])
        /\ Live(Gray["push"], Cnt["push"], Delay["push"])
    BY <1>1, <2>1, <2>6, SideValues DEF LinkInv, LinkFrom
  <2>8. ASSUME NEW i \in 1 .. PushCountDelay
        PROVE  Difference(Val(push_gray[i]), Popped) >= 1
    <3>1. /\ i \in 1 .. Delay["push"] /\ Delay["push"] \in 1 .. Delay["push"] /\ i <= Delay["push"]
      BY <1>1, DelayFacts
    <3>2. /\ Gray["push"][i] \in Words /\ Gray["push"][Delay["push"]] \in Words
          /\ Val(Gray["push"][i]) \in Count /\ Val(Gray["push"][Delay["push"]]) \in Count
      BY <2>7, <3>1, WordFacts DEF Live
    <3>3. /\ Room["pop"][Base["pop"]] <= Room["pop"][Val(Gray["push"][i])]
          /\ Room["pop"][Val(Gray["push"][Delay["push"]])] <= Room["pop"][Val(Gray["push"][i])]
          /\ NumSyncStages \in Trusted["pop"] =>
               Room["pop"][Val(Word["pop"][NumSyncStages])] <= Room["pop"][Val(Gray["push"][Delay["push"]])]
      BY <2>7, <3>1 DEF Linked
    <3>4. /\ Room["pop"][Val(Gray["push"][i])] \in Int
          /\ Room["pop"][Val(Gray["push"][Delay["push"]])] \in Int
      <4>1. IsRoom(Room["pop"])
        BY <1>1, RoomNext
      <4> QED BY <3>2, <4>1 DEF IsRoom
    <3>5. Room["pop"][Val(Gray["push"][i])] >= 1
      BY <2>2, <2>3, <3>3, <3>4
    <3> QED BY <2>4, <3>2, <3>5, SideValues
  <2> QED BY <2>1, <2>5, <2>6, <2>8, SideValues
<1> QED BY <1>4, <1>5

\* While the two sides describe one queue no reset is asserted, and they begin with an empty one.
LEMMA CleanStep ==
  ASSUME TypeInv, ResetInv, ResetInv', NEW C \in SUBSET Side, NEW beat, NEW gin, NEW rin,
         Move(C, beat, gin, rin), Clean'
  PROVE  /\ push_rst \/ ~push_rst'
         /\ pop_rst \/ ~pop_rst'
         /\ ~Clean => push_rst /\ pop_rst /\ ~beat["push"] /\ ~beat["pop"]
<1>1. /\ "push" \in Side /\ "pop" \in Side /\ Other("pop") = "push" /\ Other("push") = "pop"
      /\ push_rst \in BOOLEAN /\ pop_rst \in BOOLEAN /\ ended \subseteq Side /\ ended' \subseteq Side
  BY SideValues DEF Side, Other, TypeInv, Move, Resets
<1>2. push_rst' \/ pop_rst' => ended' # {}
  BY DEF Clean
<1>3. ASSUME ~push_rst, push_rst'
      PROVE  FALSE
  <2>1. "pop" \notin ended' /\ "push" \notin ended'
    <3>1. Other("push") \notin ended'
      BY <1>1, <1>3, SideValues, SideValuesNext, ResetForgets
    <3>2. "push" \notin ended'
      BY <1>1, <1>3, SideValues, SideValuesNext, ReleaseFacts
    <3> QED BY <1>1, <3>1, <3>2
  <2> QED BY <1>1, <1>2, <1>3, <2>1 DEF Side
<1>4. ASSUME ~pop_rst, pop_rst'
      PROVE  FALSE
  <2>1. "pop" \notin ended' /\ "push" \notin ended'
    <3>1. Other("pop") \notin ended'
      BY <1>1, <1>4, SideValues, SideValuesNext, ResetForgets
    <3>2. "pop" \notin ended'
      BY <1>1, <1>4, SideValues, SideValuesNext, ReleaseFacts
    <3> QED BY <1>1, <3>1, <3>2
  <2> QED BY <1>1, <1>2, <1>4, <2>1 DEF Side
<1>5. ASSUME ~Clean
      PROVE  push_rst /\ pop_rst
  <2>1. (push_rst \/ pop_rst) /\ ended = {}
    BY <1>5 DEF Clean
  <2>2. ASSUME NEW s \in Side, Rst[s], ~Rst'[s]
        PROVE  Rst[Other(s)]
    BY <2>1, <2>2, ReleaseFacts
  <2>3. \E s \in Side : Rst[s] /\ ~Rst'[s]
    <3>1. CASE push_rst' \/ pop_rst'
      <4>1. PICK s \in Side : s \in ended'
        BY <1>1, <1>2, <3>1
      <4>2. s \in ended' => s \in ended \/ (Rst[s] /\ ~Rst'[s])
        BY ReleaseFacts
      <4> QED BY <2>1, <4>1, <4>2
    <3>2. CASE ~push_rst' /\ ~pop_rst'
      BY <1>1, <2>1, <3>2, SideValues, SideValuesNext
    <3> QED BY <3>1, <3>2
  <2>4. PICK s \in Side : Rst[s] /\ ~Rst'[s]
    BY <2>3
  <2>5. Rst[s] /\ Rst[Other(s)] /\ (s = "push" \/ s = "pop")
    BY <2>2, <2>4 DEF Side
  <2> QED BY <1>1, <2>5, SideValues
<1>6. push_rst /\ pop_rst => ~beat["push"] /\ ~beat["pop"]
  <2>1. DataMove("push", C, beat, gin) /\ DataMove("pop", C, beat, gin)
    BY <1>1, DataNext
  <2> QED BY <2>1, SideValues DEF DataMove
<1> QED BY <1>1, <1>3, <1>4, <1>5, <1>6

LEMMA StoreTypeStep ==
  ASSUME TypeInv, StoreType, NEW C \in SUBSET Side, NEW beat, NEW gin, NEW rin,
         Move(C, beat, gin, rin), NEW d, StoreMove(C, beat, d)
  PROVE  StoreType'
<1>1. beat["push"] \in BOOLEAN /\ beat["pop"] \in BOOLEAN
  BY DEF Move, Side
<1>2. 0 \in Addr /\ \A a \in Addr, b \in BOOLEAN : AddrAfter(a, b) \in Addr
  <2>1. 0 \in Addr /\ 0 \in 0 .. Depth
    BY CountFacts DEF Addr
  <2>2. \A a \in Addr : AddrAfter(a, TRUE) \in Addr
    BY <2>1, AddrFacts
  <2> QED BY <2>1, <2>2 DEF AddrAfter
<1>3. ram_wr_addr' \in Addr /\ ram_rd_addr' \in Addr
  BY <1>1, <1>2 DEF StoreMove, StoreType
<1>4. CASE "push" \in C
  <2> DEFINE b == beat["push"]
             land == Landing(b, d)
  <2>1. /\ ram_wr' = Shift(ram_wr, NewWrite(b, d)) /\ (b => d \in Data)
        /\ ram' = IF land = NoWrite THEN ram ELSE [ram EXCEPT ![land.addr] = land.data]
    BY <1>4 DEF StoreMove
  <2>2. /\ DOMAIN ram_wr' = WriteStage
        /\ \A i \in WriteStage : ram_wr'[i] = NoWrite \/ ram_wr'[i] \in [addr : Addr, data : Data]
    BY <1>1, <2>1, PipelineNext
  <2>3. land = NoWrite \/ land \in [addr : Addr, data : Data]
    <3>1. CASE RamWriteLatency = 1
      BY <2>1, <3>1, WriteFacts DEF Landing, NewWrite, StoreType
    <3>2. CASE RamWriteLatency # 1
      <4>1. RamWriteLatency - 1 \in WriteStage
        BY <3>2, StageFacts DEF WriteStage
      <4> QED BY <3>2, <4>1 DEF Landing, StoreType
    <3> QED BY <3>1, <3>2
  <2> HIDE DEF land, b
  <2>4. ram' \in [Addr -> Data \cup {NoData}]
    BY <2>1, <2>3 DEF StoreType
  <2> QED BY <1>3, <2>2, <2>4 DEF StoreType, WriteStage, Addr
<1>5. CASE "push" \notin C
  <2>1. ram_wr' = ram_wr /\ ram' = ram
    BY <1>5 DEF StoreMove
  <2> QED BY <1>3, <2>1 DEF StoreType, WriteStage, Addr, NoWrite
<1> QED BY <1>4, <1>5

LEMMA StoreZeroStep ==
  ASSUME TypeInv, ResetInv, StoreType, StoreZero, NEW C \in SUBSET Side, NEW beat, NEW gin, NEW rin,
         Move(C, beat, gin, rin), NEW d, StoreMove(C, beat, d), ZeroInv, ResetInv'
  PROVE  /\ StoreZero'
         /\ LongResets /\ push_rst /\ ~push_rst' => \A i \in WriteStage : ram_wr'[i] = NoWrite
<1>1. /\ "push" \in Side /\ "pop" \in Side /\ Other("pop") = "push" /\ Other("push") = "pop"
      /\ push_rst \in BOOLEAN /\ pop_rst \in BOOLEAN /\ held_push \in 0 .. MinReset /\ MinReset \in Nat \ {0}
      /\ held_pop \in 0 .. MinReset
  BY SideValues, CdcAssumption DEF Side, Other, TypeInv
<1>2. /\ DataMove("push", C, beat, gin) /\ DataMove("pop", C, beat, gin)
      /\ FlagMove("push", C, rin) /\ FlagMove("pop", C, rin)
  BY <1>1, DataNext, FlagNext
<1>3. /\ beat["push"] \in BOOLEAN /\ (beat["push"] => ~push_rst)
      /\ "push" \notin C => push_rst' = push_rst /\ held_push' = held_push
      /\ "push" \in C => held_push' = IF ~push_rst THEN 0
                                      ELSE IF held_push < MinReset THEN held_push + 1 ELSE held_push
  BY <1>1, <1>2, SideValues, SideValuesNext DEF DataMove, FlagMove
<1>4. /\ beat["pop"] \in BOOLEAN /\ (beat["pop"] => ~pop_rst)
      /\ "pop" \notin C => pop_rst' = pop_rst /\ held_pop' = held_pop
      /\ "pop" \in C => held_pop' = IF ~pop_rst THEN 0
                                    ELSE IF held_pop < MinReset THEN held_pop + 1 ELSE held_pop
  BY <1>1, <1>2, SideValues, SideValuesNext DEF DataMove, FlagMove
<1>5. ASSUME push_rst, "push" \in C, NEW i \in WriteStage, held_push + 1 >= i
      PROVE  ram_wr'[i] = NoWrite
  <2>1. ram_wr' = Shift(ram_wr, NewWrite(beat["push"], d)) /\ (beat["push"] => d \in Data)
    BY <1>5 DEF StoreMove
  <2>2. /\ 1 \in WriteStage => ram_wr'[1] = NewWrite(beat["push"], d)
        /\ i # 1 => i - 1 \in WriteStage /\ ram_wr'[i] = ram_wr[i - 1]
    BY <1>3, <2>1, PipelineNext
  <2>3. NewWrite(beat["push"], d) = NoWrite
    BY <1>3, <1>5 DEF NewWrite
  <2>4. i # 1 => held_push >= i - 1
    BY <1>1, <1>5, StageFacts
  <2> QED BY <1>5, <2>2, <2>3, <2>4 DEF StoreZero
<1>6. ASSUME push_rst'
      PROVE  /\ held_push' >= 1 => ram_wr_addr' = 0
             /\ \A i \in WriteStage : held_push' >= i => ram_wr'[i] = NoWrite
  <2>1. CASE "push" \in C
    <3>1. held_push' >= 1 => push_rst
      BY <1>1, <1>3, <2>1
    <3>2. push_rst => ram_wr_addr' = 0
      BY <2>1 DEF StoreMove
    <3>3. ASSUME NEW i \in WriteStage, held_push' >= i
          PROVE  ram_wr'[i] = NoWrite
      <4>1. i >= 1 /\ i \in Nat
        BY StageFacts
      <4>2. push_rst /\ held_push + 1 >= i
        BY <1>1, <1>3, <2>1, <3>3, <4>1
      <4> QED BY <1>5, <2>1, <4>2
    <3> QED BY <3>1, <3>2, <3>3
  <2>2. CASE "push" \notin C
    <3>1. ram_wr_addr' = ram_wr_addr /\ ram_wr' = ram_wr /\ push_rst /\ held_push' = held_push
      BY <1>3, <1>6, <2>2 DEF StoreMove
    <3> QED BY <3>1 DEF StoreZero
  <2> QED BY <2>1, <2>2
<1>7. ASSUME pop_rst', held_pop' >= 1
      PROVE  ram_rd_addr' = 0
  <2>1. CASE "pop" \in C
    <3>1. pop_rst
      BY <1>1, <1>4, <1>7, <2>1
    <3> QED BY <2>1, <3>1 DEF StoreMove
  <2>2. CASE "pop" \notin C
    <3>1. ram_rd_addr' = ram_rd_addr /\ pop_rst /\ held_pop' = held_pop
      BY <1>4, <1>7, <2>2 DEF StoreMove
    <3> QED BY <1>7, <3>1 DEF StoreZero
  <2> QED BY <2>1, <2>2
<1>8. ASSUME "pop" \in ended', "push" \notin ended'
      PROVE  ram_rd_addr' = 0
  <2>1. CASE pop_rst /\ ~pop_rst'
    <3>1. "pop" \in C
      BY <1>4, <2>1
    <3> QED BY <2>1, <3>1 DEF StoreMove
  <2>2. CASE ~(pop_rst /\ ~pop_rst')
    <3>1. "pop" \in ended
      <4>1. "pop" \in ended' => "pop" \in ended \/ (Rst["pop"] /\ ~Rst'["pop"])
        BY <1>1, ReleaseFacts
      <4> QED BY <1>8, <2>2, <4>1, SideValues, SideValuesNext
    <3>2. "push" \notin ended
      <4>1. "push" \in ended /\ ~ResetsOver => "push" \in ended'
        BY <1>1, ReleaseFacts
      <4>2. ResetsOver => ended' = {}
        BY DEF Move, Resets
      <4> QED BY <1>8, <4>1, <4>2
    <3>3. ram_rd_addr = 0
      BY <3>1, <3>2 DEF StoreZero
    <3>4. ~beat["pop"]
      <4>1. Vis["pop"] = 0 /\ Popped = 0
        <5>1. Vis["pop"] = Saved["pop"] /\ ~pop_rst
          <6>1. \A k \in SyncStage : Flag["pop"][k]
            BY <1>1, <3>1, <3>2, FirstOut
          <6>2. ~Rst["pop"]
            BY <1>1, <3>1 DEF ResetInv
          <6> QED BY <1>1, <6>1, <6>2, DelayFacts, SideValues DEF Vis, Visible
        <5>2. Saved["pop"] = 0 /\ Cnt["pop"] = 0
          BY <1>1, <3>1, <3>2 DEF ZeroInv
        <5> QED BY <5>1, <5>2, SideValues DEF Popped
      <4>2. Room["pop"][0] = 0
        <5>1. 0 \in Count /\ Difference(0, 0) = 0
          BY ZeroCode, DifferenceFacts
        <5> QED BY <1>1, <4>1, <5>1 DEF Room
      <4> QED BY <1>2, <4>1, <4>2, ZeroCode DEF DataMove
    <3> QED BY <1>4, <3>3, <3>4 DEF StoreMove, AddrAfter
  <2> QED BY <2>1, <2>2
<1>9. ASSUME LongResets, push_rst, ~push_rst', NEW i \in WriteStage
      PROVE  ram_wr'[i] = NoWrite
  <2>1. "push" \in C
    BY <1>3, <1>9
  <2>2. held_push + 1 >= MinReset
    BY <1>1, <1>9, ReleaseFacts, SideValues, SideValuesNext
  <2>3. held_push + 1 >= i
    BY <1>1, <1>9, <2>2, StageFacts
  <2> QED BY <1>5, <1>9, <2>1, <2>3
<1> QED BY <1>6, <1>7, <1>8, <1>9 DEF StoreZero, WriteStage, NoWrite

LEMMA OccupancyMoves ==
  ASSUME TypeInv, ResetInv, ZeroInv, LinkInv, StoreType, ResetInv', Clean, Clean',
         NEW C \in SUBSET Side, NEW beat, NEW gin, NEW rin, Move(C, beat, gin, rin),
         NEW d, StoreMove(C, beat, d)
  PROVE  /\ Occupancy' = (IF beat["push"] THEN Occupancy + 1 ELSE Occupancy) - (IF beat["pop"] THEN 1 ELSE 0)
         /\ \A x \in Count : beat["pop"] /\ Difference(x, Popped) >= 1 =>
                               Difference(x, Popped') = Difference(x, Popped) - 1
         /\ ~beat["pop"] => Popped' = Popped /\ Oldest' = Oldest
         /\ beat["pop"] => Oldest' = AddrAfter(Oldest, TRUE)
         /\ WrAddr' = AddrAfter(WrAddr, beat["push"])
<1>1. /\ Pushed' = IF beat["push"] THEN Succ(Pushed) ELSE Pushed
      /\ WrAddr' = AddrAfter(WrAddr, beat["push"])
      /\ Popped' = IF beat["pop"] THEN Succ(Popped) ELSE Popped
      /\ Oldest' = AddrAfter(Oldest, beat["pop"])
  BY CleanStep, EffectiveMoves
<1>2. /\ beat["push"] => Occupancy <= Depth - 1
      /\ beat["pop"] => Occupancy >= 1
      /\ Pushed \in Count /\ Popped \in Count /\ Occupancy \in 0 .. Depth /\ Depth \in Nat
      /\ beat["push"] \in BOOLEAN /\ beat["pop"] \in BOOLEAN
  <2>1. beat["push"] \in BOOLEAN /\ beat["pop"] \in BOOLEAN
    BY DEF Move, Side
  <2> QED BY <2>1, BeatsAreCovered, CleanFacts, CountFacts
<1>3. "pop" \in Side /\ Succ(Pushed) \in Count /\ Succ(Popped) \in Count /\ Pushed' \in Count
  <2>1. Succ(Pushed) \in Count /\ Succ(Popped) \in Count
    BY <1>2, SuccFacts
  <2> QED BY <1>1, <1>2, <2>1 DEF Side
<1>4. \A x \in Count : Difference(x, Popped) >= 1 =>
         Difference(x, Succ(Popped)) = Difference(x, Popped) - 1
  <2>1. Lower(RoomOf("pop", Popped), RoomOf("pop", Succ(Popped)))
    BY <1>2, <1>3, RoomOfFacts
  <2> QED BY <2>1 DEF Lower, RoomOf
<1>5. Occupancy <= Depth - 1 => Difference(Succ(Pushed), Popped) = Occupancy + 1
  <2>1. IsRoom(RoomOf("pop", Popped))
    BY <1>2, <1>3, RoomOfFacts
  <2> QED BY <1>2, <1>3, <2>1 DEF IsRoom, RoomOf, Occupancy
<1>6. Difference(Pushed', Popped) = IF beat["push"] THEN Occupancy + 1 ELSE Occupancy
  BY <1>1, <1>2, <1>5 DEF Occupancy
<1>7. Occupancy' = Difference(Pushed', Popped')
  BY DEF Occupancy, Difference, MaxCountP1
<1>8. Occupancy' = (IF beat["push"] THEN Occupancy + 1 ELSE Occupancy) - (IF beat["pop"] THEN 1 ELSE 0)
  <2>1. CASE beat["pop"]
    <3>1. Difference(Pushed', Popped) >= 1
      BY <1>2, <1>6, <2>1
    <3>2. Difference(Pushed', Succ(Popped)) = Difference(Pushed', Popped) - 1
      BY <1>3, <1>4, <3>1
    <3> QED BY <1>1, <1>6, <1>7, <2>1, <3>2
  <2>2. CASE ~beat["pop"]
    BY <1>1, <1>2, <1>6, <1>7, <2>2
  <2> QED BY <2>1, <2>2
<1> QED BY <1>1, <1>2, <1>4, <1>8 DEF AddrAfter

LEMMA StoreInvStep ==
  ASSUME LongResets, TypeInv, ResetInv, ZeroInv, LinkInv, StoreType, StoreZero, StoreInv, ResetInv',
         NEW C \in SUBSET Side, NEW beat, NEW gin, NEW rin, Move(C, beat, gin, rin),
         NEW d, StoreMove(C, beat, d)
  PROVE  StoreInv'
<1> SUFFICES ASSUME Clean'
             PROVE  /\ WrAddr' = (Oldest' + Occupancy') % Depth
                    /\ ~push_rst' => \A i \in WriteStage : ram_wr'[i] # NoWrite =>
                          /\ ram_wr'[i].addr = (Oldest' + Difference(Val(push_gray'[i + 1]), Popped')) % Depth
                          /\ Difference(Val(push_gray'[i + 1]), Popped') <= Depth - 1
  BY DEF StoreInv, WriteStage, NoWrite, Val, Difference, MaxCountP1, Gray2Bin, Number, Bits, Bit
<1>1. /\ push_rst \/ ~push_rst'
      /\ pop_rst \/ ~pop_rst'
      /\ ~Clean => push_rst /\ pop_rst /\ ~beat["push"] /\ ~beat["pop"]
  BY CleanStep
<1>2. push_rst /\ ~push_rst' => \A i \in WriteStage : ram_wr'[i] = NoWrite
  BY StoreZeroStep
<1>3. beat["push"] \in BOOLEAN /\ beat["pop"] \in BOOLEAN /\ push_rst \in BOOLEAN /\ Depth \in Nat
  BY SideValues, CountFacts DEF Move, Side, TypeInv
<1>4. CASE ~Clean
  <2>1. Pushed' = 0 /\ WrAddr' = 0 /\ Popped' = 0 /\ Oldest' = 0
    <3>1. /\ Pushed' = Pushed /\ WrAddr' = AddrAfter(WrAddr, beat["push"])
          /\ Popped' = Popped /\ Oldest' = AddrAfter(Oldest, beat["pop"])
      BY <1>1, <1>4, EffectiveMoves
    <3> QED BY <1>1, <1>4, <3>1 DEF Pushed, WrAddr, Popped, Oldest, AddrAfter
  <2>2. Occupancy' = 0
    <3>1. Difference(0, 0) = 0
      BY ZeroCode, DifferenceFacts
    <3> QED BY <2>1, <3>1 DEF Occupancy, Difference, MaxCountP1
  <2>3. 0 = (0 + 0) % Depth
    <3>1. 0 \in Addr /\ 0 \in 0 .. Depth
      BY CountFacts DEF Addr
    <3> QED BY <3>1, AddrFacts
  <2> QED BY <1>1, <1>2, <1>4, <2>1, <2>2, <2>3
<1>5. CASE Clean
  <2>1. /\ Occupancy' = (IF beat["push"] THEN Occupancy + 1 ELSE Occupancy) - (IF beat["pop"] THEN 1 ELSE 0)
        /\ \A x \in Count : beat["pop"] /\ Difference(x, Popped) >= 1 =>
                              Difference(x, Popped') = Difference(x, Popped) - 1
        /\ ~beat["pop"] => Popped' = Popped /\ Oldest' = Oldest
        /\ beat["pop"] => Oldest' = AddrAfter(Oldest, TRUE)
        /\ WrAddr' = AddrAfter(WrAddr, beat["push"])
    BY <1>5, OccupancyMoves
  <2>2. /\ beat["push"] => ~push_rst /\ "push" \in C /\ Occupancy <= Depth - 1
        /\ beat["pop"] => /\ Occupancy >= 1 /\ ~push_rst
                          /\ \A i \in 1 .. PushCountDelay : Difference(Val(push_gray[i]), Popped) >= 1
    BY <1>5, BeatsAreCovered
  <2>3. /\ Pushed \in Count /\ Popped \in Count /\ Occupancy \in 0 .. Depth /\ Oldest \in Addr
        /\ WrAddr = (Oldest + Occupancy) % Depth
    BY <1>5, CleanFacts DEF StoreInv
  <2>4. WrAddr' = (Oldest' + Occupancy') % Depth
    <3>1. PICK k \in 0 .. Depth : k = IF beat["push"] THEN Occupancy + 1 ELSE Occupancy
      BY <1>3, <2>2, <2>3
    <3>2. AddrAfter((Oldest + Occupancy) % Depth, beat["push"]) = (Oldest + k) % Depth
      <4>1. Occupancy <= Depth - 1 =>
              AddrAfter((Oldest + Occupancy) % Depth, TRUE) = (Oldest + (Occupancy + 1)) % Depth
        BY <2>3, AddrFacts
      <4> QED BY <1>3, <2>2, <3>1, <4>1 DEF AddrAfter
    <3>3. CASE beat["pop"]
      <4>1. k >= 1 => (AddrAfter(Oldest, TRUE) + (k - 1)) % Depth = (Oldest + k) % Depth
        BY <2>3, AddrFacts
      <4>2. k >= 1 /\ Occupancy' = k - 1
        BY <2>1, <2>2, <2>3, <3>1, <3>3
      <4> QED BY <2>1, <2>3, <3>2, <3>3, <4>1, <4>2
    <3>4. CASE ~beat["pop"]
      BY <2>1, <2>3, <3>1, <3>2, <3>4
    <3> QED BY <3>3, <3>4
  <2>5. ASSUME ~push_rst', NEW i \in WriteStage, ram_wr'[i] # NoWrite
        PROVE  \E x \in Count : /\ Val(push_gray'[i + 1]) = x
                                /\ ram_wr'[i].addr = (Oldest + Difference(x, Popped)) % Depth
                                /\ Difference(x, Popped) <= Depth - 1
                                /\ beat["pop"] => Difference(x, Popped) >= 1
    <3>1. ~push_rst
      BY <1>2, <2>5
    <3>2. /\ "push" \in Side /\ "pop" \in Side /\ Delay["push"] = PushCountDelay
          /\ Other("pop") = "push" /\ DataMove("push", C, beat, gin)
      BY DelayFacts, DataNext DEF Side, Other
    <3>3. Live(push_gray, push_count, PushCountDelay)
      BY <3>1, <3>2, SideValues DEF LinkInv, LinkFrom
    <3>4. /\ i \in 1 .. PushCountDelay /\ i + 1 \in 2 .. PushCountDelay /\ i \in Nat
          /\ i # 1 => i - 1 \in WriteStage
          /\ i + 1 \in 1 .. PushCountDelay /\ 1 \in 1 .. PushCountDelay
      BY StageFacts, DelayFacts
    <3>5. \A j \in 1 .. PushCountDelay : Val(push_gray[j]) \in Count
      BY <3>3, WordFacts DEF Live
    <3>6. CASE "push" \notin C
      <4>1. push_gray' = push_gray /\ ram_wr' = ram_wr
        BY <3>2, <3>6, SideValues, SideValuesNext DEF DataMove, StoreMove
      <4> QED BY <1>5, <2>2, <2>5, <3>1, <3>4, <3>5, <4>1 DEF StoreInv
    <3>7. CASE "push" \in C
      <4>1. \A j \in 2 .. PushCountDelay : push_gray'[j] = push_gray[j - 1]
        BY <3>2, <3>7, SideValues, SideValuesNext DEF DataMove
      <4>2. push_gray'[i + 1] = push_gray[i]
        BY <3>4, <4>1
      <4>3. /\ 1 \in WriteStage => ram_wr'[1] = NewWrite(beat["push"], d)
            /\ i # 1 => i - 1 \in WriteStage /\ ram_wr'[i] = ram_wr[i - 1]
        <5>1. ram_wr' = Shift(ram_wr, NewWrite(beat["push"], d)) /\ (beat["push"] => d \in Data)
          BY <3>7 DEF StoreMove
        <5> QED BY <1>3, <5>1, PipelineNext
      <4>4. CASE i = 1
        <5>1. beat["push"] /\ ram_wr'[1].addr = ram_wr_addr
          BY <2>5, <4>3, <4>4 DEF NewWrite
        <5>2. Val(push_gray[1]) = push_count /\ push_count \in Count
          <6>1. push_count \in Count
            BY <3>2, SideValues DEF TypeInv
          <6> QED BY <3>3, <6>1, GrayRoundTrip DEF Live, Val
        <5>3. Pushed = push_count /\ WrAddr = ram_wr_addr
          BY <3>1 DEF Pushed, WrAddr
        <5>4. Difference(push_count, Popped) = Occupancy
          BY <5>3 DEF Occupancy
        <5> QED BY <2>2, <2>3, <4>2, <4>4, <5>1, <5>2, <5>3, <5>4
      <4>5. CASE i # 1
        <5>1. PICK j \in WriteStage : j = i - 1
          BY <4>3, <4>5
        <5>2. ram_wr'[i] = ram_wr[j] /\ j + 1 = i
          BY <3>4, <4>3, <4>5, <5>1
        <5>3. /\ ram_wr[j].addr = (Oldest + Difference(Val(push_gray[j + 1]), Popped)) % Depth
              /\ Difference(Val(push_gray[j + 1]), Popped) <= Depth - 1
          BY <1>5, <2>5, <3>1, <5>2 DEF StoreInv
        <5>4. Val(push_gray[i]) \in Count /\ (beat["pop"] => Difference(Val(push_gray[i]), Popped) >= 1)
          BY <2>2, <3>4, <3>5
        <5> QED BY <4>2, <5>2, <5>3, <5>4
      <4> QED BY <4>4, <4>5
    <3> QED BY <3>6, <3>7
  <2>6. ASSUME ~push_rst', NEW i \in WriteStage, ram_wr'[i] # NoWrite
        PROVE  /\ ram_wr'[i].addr = (Oldest' + Difference(Val(push_gray'[i + 1]), Popped')) % Depth
               /\ Difference(Val(push_gray'[i + 1]), Popped') <= Depth - 1
    <3>1. PICK x \in Count : /\ Val(push_gray'[i + 1]) = x
                             /\ ram_wr'[i].addr = (Oldest + Difference(x, Popped)) % Depth
                             /\ Difference(x, Popped) <= Depth - 1
                             /\ beat["pop"] => Difference(x, Popped) >= 1
      BY <2>5, <2>6
    <3>2. CASE ~beat["pop"]
      BY <2>1, <3>1, <3>2
    <3>3. CASE beat["pop"]
      <4>1. PICK k \in 0 .. Depth : k = Difference(x, Popped)
        <5>1. Difference(x, Popped) \in Nat
          <6>1. Difference(x, Popped) \in Count
            BY <2>3, DifferenceFacts
          <6> QED BY <6>1, CountFacts DEF Count
        <5> QED BY <1>3, <3>1, <5>1
      <4>2. k >= 1 => (AddrAfter(Oldest, TRUE) + (k - 1)) % Depth = (Oldest + k) % Depth
        BY <2>3, AddrFacts
      <4>3. Difference(x, Popped') = k - 1 /\ k >= 1 /\ k <= Depth - 1
        BY <2>1, <3>1, <3>3, <4>1
      <4>4. k - 1 <= Depth - 1
        BY <1>3, <4>3
      <4> QED BY <2>1, <3>1, <3>3, <4>1, <4>2, <4>3, <4>4
    <3> QED BY <3>2, <3>3
  <2> QED BY <2>4, <2>6
<1> QED BY <1>4, <1>5

-----------------------------------------------------------------------------
(* Refinement: the two sides, the RAM and the writes on their way are one      *)
(* bounded queue.                                                            *)

EntriesInv == IInv /\ StoreType /\ StoreZero /\ StoreInv

Values == Data \cup {NoData}
Store == [a \in Addr |-> Settled(a)]
Inside == IF Clean THEN Occupancy ELSE 0
Contents == [i \in 1 .. IF Clean THEN Occupancy ELSE 0 |-> Settled((Oldest + i - 1) % Depth)]
Accepted == IF Clean THEN accepted ELSE NoData
Delivered == IF Clean THEN out ELSE NoData

LEMMA AddrApart ==
  ASSUME NEW o \in Addr, NEW k \in 0 .. Depth - 1, NEW m \in 0 .. Depth - 1, k # m
  PROVE  (o + k) % Depth # (o + m) % Depth
<1> DEFINE D == Depth
<1>1. D \in Nat /\ D >= 2 /\ o \in 0 .. D - 1 /\ k \in 0 .. D - 1 /\ m \in 0 .. D - 1
  BY CountFacts DEF Addr
<1> HIDE DEF D
<1>2. \A n \in 0 .. 2 * D - 1 : n % D = IF n < D THEN n ELSE n - D
  BY <1>1
<1>3. /\ (o + k) % D = IF o + k < D THEN o + k ELSE o + k - D
      /\ (o + m) % D = IF o + m < D THEN o + m ELSE o + m - D
  BY <1>1, <1>2
<1>4. (o + k) % D # (o + m) % D
  BY <1>1, <1>3
<1> QED BY <1>4 DEF D

LEMMA StoreValues ==
  ASSUME StoreType
  PROVE  \A a \in Addr : Settled(a) \in Values
<1> SUFFICES ASSUME NEW a \in Addr PROVE Settled(a) \in Values
  OBVIOUS
<1> DEFINE P == {i \in WriteStage : ram_wr[i] # NoWrite /\ ram_wr[i].addr = a}
<1>1. DOMAIN ram_wr = WriteStage /\ WriteStage \subseteq Nat /\ ram[a] \in Values
  BY StageFacts DEF StoreType, Values
<1>2. CASE P = {}
  BY <1>1, <1>2, SettledIs
<1>3. CASE P # {}
  <2>1. PICK i \in P : \A j \in P : i <= j
    <3>1. P \in SUBSET Nat
      BY <1>1
    <3> HIDE DEF P
    <3> QED BY <1>3, <3>1, LeastNat
  <2>2. Settled(a) = ram_wr[i].data
    <3>1. /\ i \in WriteStage /\ ram_wr[i] # NoWrite /\ ram_wr[i].addr = a
          /\ \A j \in WriteStage : ram_wr[j] # NoWrite /\ ram_wr[j].addr = a => i <= j
      BY <2>1
    <3> HIDE DEF P
    <3> QED BY <1>1, <3>1, SettledIs
  <2>3. ram_wr[i].data \in Data
    BY <2>1 DEF StoreType
  <2> QED BY <2>2, <2>3 DEF Values
<1> QED BY <1>2, <1>3

ContentsAreEntries ==
  /\ Contents \in Seq(Values) /\ Len(Contents) = Inside
  /\ Inside \in 0 .. Depth
  /\ \A i \in 1 .. Inside : Contents[i] = Store[(Oldest + (i - 1)) % Depth]

(* The entries, read as a sequence.                                          *)
LEMMA ContentsSeq == EntriesInv => ContentsAreEntries
<1> SUFFICES ASSUME EntriesInv PROVE ContentsAreEntries
  OBVIOUS
<1>1. /\ TypeInv /\ ResetInv /\ ZeroInv /\ LinkInv /\ StoreType
      /\ Depth \in Nat
  BY CountFacts DEF EntriesInv, IInv
<1>2. Inside \in 0 .. Depth /\ (Clean => Oldest \in Addr)
  BY <1>1, CleanFacts DEF Inside
<1>3. ASSUME NEW i \in 1 .. Inside
      PROVE  /\ Contents[i] = Store[(Oldest + (i - 1)) % Depth]
             /\ Contents[i] \in Values
  <2>1. i - 1 \in 0 .. Depth /\ Clean /\ Oldest \in Addr
    BY <1>1, <1>2, <1>3 DEF Inside
  <2>2. PICK k \in 0 .. Depth : k = i - 1
    BY <2>1
  <2>3. (Oldest + k) % Depth \in Addr
    BY <2>1, AddrFacts
  <2>4. Contents[i] = Settled((Oldest + i - 1) % Depth)
    BY <1>3 DEF Contents, Inside
  <2>5. Oldest + i - 1 = Oldest + k /\ Oldest + (i - 1) = Oldest + k
    <3>1. Oldest \in Int /\ i \in Int
      BY <1>1, <2>1 DEF Addr
    <3> QED BY <2>2, <3>1
  <2>6. Contents[i] = Settled((Oldest + k) % Depth)
    BY <2>4, <2>5
  <2>7. Settled((Oldest + k) % Depth) = Store[(Oldest + k) % Depth]
    BY <2>3 DEF Store
  <2>8. Settled((Oldest + k) % Depth) \in Values
    BY <1>1, <2>3, StoreValues
  <2> QED BY <2>5, <2>6, <2>7, <2>8
<1>4. Contents \in [1 .. Inside -> Values]
  <2>1. Contents = [i \in 1 .. Inside |-> Contents[i]]
    BY DEF Contents, Inside
  <2> QED BY <1>3, <2>1
<1>5. Inside \in Nat
  BY <1>1, <1>2
<1>6. Contents \in Seq(Values) /\ Len(Contents) = Inside
  BY <1>4, <1>5
<1> QED BY <1>2, <1>3, <1>6 DEF ContentsAreEntries

LEMMA ContentsSeqNext == EntriesInv' => ContentsAreEntries'
BY ContentsSeq, PTL

LEMMA StoreMoves ==
  ASSUME StoreType, NEW C, NEW beat, NEW d, StoreMove(C, beat, d),
         beat["push"] \in BOOLEAN, beat["push"] => "push" \in C, NEW a \in Addr
  PROVE  Store'[a] = IF beat["push"] /\ a = ram_wr_addr THEN d ELSE Store[a]
<1>1. Settled(a)' = IF beat["push"] /\ a = ram_wr_addr THEN d ELSE Settled(a)
  BY SettledMoves
<1>2. Store[a] = Settled(a)
  BY DEF Store
<1>3. Store'[a] = Settled(a)'
  BY DEF Store, Addr
<1> QED BY <1>1, <1>2, <1>3

\* What a step does to the entries, one by one.
LEMMA EntriesMove ==
  ASSUME EntriesInv, EntriesInv', Clean, Clean',
         NEW C \in SUBSET Side, NEW beat, NEW gin, NEW rin, Move(C, beat, gin, rin),
         NEW d, StoreMove(C, beat, d)
  PROVE  /\ beat["push"] \in BOOLEAN /\ beat["pop"] \in BOOLEAN
         /\ Occupancy \in 0 .. Depth /\ Occupancy' \in 0 .. Depth /\ Depth \in Nat
         /\ beat["push"] => Occupancy <= Depth - 1 /\ d \in Data
         /\ beat["pop"] => Occupancy >= 1
         /\ Occupancy' = (IF beat["push"] THEN Occupancy + 1 ELSE Occupancy) - (IF beat["pop"] THEN 1 ELSE 0)
         /\ \A i \in 1 .. Occupancy' : \A j \in 1 .. Occupancy + 1 :
              j = (IF beat["pop"] THEN i + 1 ELSE i) =>
                Contents'[i] = IF j = Occupancy + 1 THEN d ELSE Contents[j]
<1>1. /\ TypeInv /\ ResetInv /\ ZeroInv /\ LinkInv /\ StoreType /\ StoreInv /\ ResetInv'
  BY DEF EntriesInv, IInv
<1>2. ContentsAreEntries /\ ContentsAreEntries'
  BY ContentsSeq, ContentsSeqNext
<1>3. /\ beat["push"] \in BOOLEAN /\ beat["pop"] \in BOOLEAN /\ Depth \in Nat
      /\ beat["push"] => d \in Data
  BY CountFacts DEF Move, Side, StoreMove
<1>4. Inside = Occupancy /\ Inside' = Occupancy'
  BY DEF Inside, Clean
<1>5. /\ Occupancy \in 0 .. Depth /\ Occupancy' \in 0 .. Depth /\ Oldest \in Addr
      /\ WrAddr = (Oldest + Occupancy) % Depth
      /\ \A i \in 1 .. Occupancy : Contents[i] = Store[(Oldest + (i - 1)) % Depth]
      /\ \A i \in 1 .. Occupancy' : Contents'[i] = Store'[(Oldest' + (i - 1)) % Depth]
  <2>1. Oldest \in Addr
    BY <1>1, CleanFacts
  <2>2. WrAddr = (Oldest + Occupancy) % Depth
    BY <1>1 DEF StoreInv
  <2>3. Occupancy \in 0 .. Depth /\ \A i \in 1 .. Occupancy : Contents[i] = Store[(Oldest + (i - 1)) % Depth]
    BY <1>2, <1>4 DEF ContentsAreEntries
  <2>4. Occupancy' \in 0 .. Depth /\ \A i \in 1 .. Occupancy' : Contents'[i] = Store'[(Oldest' + (i - 1)) % Depth]
    BY <1>2, <1>4 DEF ContentsAreEntries
  <2> QED BY <2>1, <2>2, <2>3, <2>4
<1>6. /\ beat["push"] => ~push_rst /\ "push" \in C /\ Occupancy <= Depth - 1
      /\ beat["pop"] => Occupancy >= 1
  BY <1>1, BeatsAreCovered
<1>7. /\ Occupancy' = (IF beat["push"] THEN Occupancy + 1 ELSE Occupancy) - (IF beat["pop"] THEN 1 ELSE 0)
      /\ ~beat["pop"] => Oldest' = Oldest
      /\ beat["pop"] => Oldest' = AddrAfter(Oldest, TRUE)
  BY <1>1, OccupancyMoves
<1>8. \A a \in Addr : Store'[a] = IF beat["push"] /\ a = ram_wr_addr THEN d ELSE Store[a]
  BY <1>1, <1>3, <1>6, StoreMoves
<1>9. ASSUME NEW i \in 1 .. Occupancy', NEW j \in 1 .. Occupancy + 1,
             j = IF beat["pop"] THEN i + 1 ELSE i
      PROVE  Contents'[i] = IF j = Occupancy + 1 THEN d ELSE Contents[j]
  <2>1. i \in Nat /\ i >= 1 /\ i <= Depth /\ j \in Nat /\ j >= 1 /\ j <= Occupancy + 1
    BY <1>3, <1>5
  <2>2. i - 1 \in 0 .. Depth /\ j - 1 \in 0 .. Depth
    <3>1. CASE j = i
      BY <1>3, <2>1, <3>1
    <3>2. CASE j = i + 1
      BY <1>3, <2>1, <3>2
    <3> QED BY <1>9, <3>1, <3>2
  <2>3. PICK k \in 0 .. Depth : k = j - 1
    BY <2>2
  <2>4. (Oldest' + (i - 1)) % Depth = (Oldest + k) % Depth
    <3>1. CASE beat["pop"]
      <4>1. k = i /\ k >= 1
        BY <1>9, <2>1, <2>3, <3>1
      <4>2. (AddrAfter(Oldest, TRUE) + (k - 1)) % Depth = (Oldest + k) % Depth
        BY <1>5, <4>1, AddrFacts
      <4> QED BY <1>7, <3>1, <4>1, <4>2
    <3>2. CASE ~beat["pop"]
      BY <1>7, <1>9, <2>3, <3>2
    <3> QED BY <3>1, <3>2
  <2>5. (Oldest + k) % Depth \in Addr
    BY <1>5, AddrFacts
  <2>6. Contents'[i] = IF beat["push"] /\ (Oldest + k) % Depth = ram_wr_addr THEN d
                       ELSE Store[(Oldest + k) % Depth]
    BY <1>5, <1>8, <2>4, <2>5
  <2>7. CASE j = Occupancy + 1
    <3>1. k = Occupancy
      BY <1>5, <2>3, <2>7
    <3>2. beat["push"]
      BY <1>3, <1>5, <1>7, <1>9, <2>7
    <3>3. ram_wr_addr = (Oldest + k) % Depth
      BY <1>5, <1>6, <3>1, <3>2 DEF WrAddr
    <3> QED BY <2>6, <2>7, <3>2, <3>3
  <2>8. CASE j # Occupancy + 1
    <3>1. j \in 1 .. Occupancy /\ k # Occupancy /\ k \in 0 .. Depth - 1
      BY <1>3, <1>5, <2>1, <2>3, <2>8
    <3>2. Contents[j] = Store[(Oldest + k) % Depth]
      BY <1>5, <2>3, <3>1
    <3>3. beat["push"] => (Oldest + k) % Depth # ram_wr_addr
      <4>1. beat["push"] => Occupancy \in 0 .. Depth - 1
        BY <1>3, <1>5, <1>6
      <4>2. beat["push"] => (Oldest + k) % Depth # (Oldest + Occupancy) % Depth
        BY <1>5, <3>1, <4>1, AddrApart
      <4> QED BY <1>5, <1>6, <4>2 DEF WrAddr
    <3> QED BY <2>6, <2>8, <3>2, <3>3
  <2> QED BY <2>7, <2>8
<1> QED BY <1>3, <1>5, <1>6, <1>7, <1>9

\* The contents after a step, as the sequence operations of the queue.
LEMMA StepContents ==
  ASSUME EntriesInv, EntriesInv', Clean, Clean',
         NEW C \in SUBSET Side, NEW beat, NEW gin, NEW rin, Move(C, beat, gin, rin),
         NEW d, StoreMove(C, beat, d)
  PROVE  /\ ~beat["push"] /\ ~beat["pop"] => Contents' = Contents
         /\ beat["push"] /\ ~beat["pop"] => Contents' = Append(Contents, d)
         /\ ~beat["push"] /\ beat["pop"] => Contents' = Tail(Contents)
         /\ beat["push"] /\ beat["pop"] => Contents' = Tail(Append(Contents, d))
<1> DEFINE n == Occupancy
           n2 == Occupancy'
           S == Values
           c == Contents
           c2 == Contents'
           b == beat["push"]
           p == beat["pop"]
<1>1. /\ b \in BOOLEAN /\ p \in BOOLEAN /\ n \in Nat /\ n2 \in Nat
      /\ b => d \in S
      /\ p => n >= 1
      /\ n2 = (IF b THEN n + 1 ELSE n) - (IF p THEN 1 ELSE 0)
      /\ \A i \in 1 .. n2 : \A j \in 1 .. n + 1 :
              j = (IF p THEN i + 1 ELSE i) => c2[i] = IF j = n + 1 THEN d ELSE c[j]
  <2>1. /\ b \in BOOLEAN /\ p \in BOOLEAN /\ n \in 0 .. Depth /\ n2 \in 0 .. Depth /\ Depth \in Nat
        /\ b => d \in Data
        /\ p => n >= 1
        /\ n2 = (IF b THEN n + 1 ELSE n) - (IF p THEN 1 ELSE 0)
        /\ \A i \in 1 .. n2 : \A j \in 1 .. n + 1 :
              j = (IF p THEN i + 1 ELSE i) => c2[i] = IF j = n + 1 THEN d ELSE c[j]
    BY EntriesMove
  <2> HIDE DEF b, p, n, n2, c, c2
  <2> QED BY <2>1 DEF Values
<1>2. /\ c \in Seq(S) /\ Len(c) = n
      /\ c2 \in Seq(S) /\ Len(c2) = n2
  <2>1. ContentsAreEntries /\ ContentsAreEntries'
    BY ContentsSeq, ContentsSeqNext
  <2>2. Inside = Occupancy /\ Inside' = Occupancy'
    BY DEF Inside, Clean
  <2>3. c \in Seq(S) /\ Len(c) = n
    BY <2>1, <2>2 DEF ContentsAreEntries
  <2>4. c2 \in Seq(S) /\ Len(c2) = n2
    BY <2>1, <2>2 DEF ContentsAreEntries, Values
  <2> QED BY <2>3, <2>4
<1> HIDE DEF b, p, n, n2, c, c2, S
<1>3. CASE ~b /\ ~p
  <2>1. n2 = n /\ \A i \in 1 .. n2 : i \in 1 .. n + 1 /\ i # n + 1
    BY <1>1, <1>3
  <2>2. \A i \in 1 .. n2 : c2[i] = c[i]
    BY <1>1, <1>3, <2>1
  <2>3. c2 = c
    BY <1>2, <2>1, <2>2
  <2> QED BY <1>3, <2>3 DEF b, p, c, c2
<1>4. CASE b /\ ~p
  <2>1. n2 = n + 1 /\ \A i \in 1 .. n2 : i \in 1 .. n + 1
    BY <1>1, <1>4
  <2>2. \A i \in 1 .. n2 : c2[i] = IF i = n + 1 THEN d ELSE c[i]
    BY <1>1, <1>4, <2>1
  <2>3. c2 = Append(c, d)
    BY <1>1, <1>2, <1>4, <2>1, <2>2
  <2> QED BY <1>4, <2>3 DEF b, p, c, c2
<1>5. CASE ~b /\ p
  <2>1. n2 = n - 1 /\ \A i \in 1 .. n2 : i + 1 \in 1 .. n + 1 /\ i + 1 # n + 1
    BY <1>1, <1>5
  <2>2. \A i \in 1 .. n2 : c2[i] = c[i + 1]
    BY <1>1, <1>5, <2>1
  <2>3. c2 = Tail(c)
    BY <1>1, <1>2, <1>5, <2>1, <2>2
  <2> QED BY <1>5, <2>3 DEF b, p, c, c2
<1>6. CASE b /\ p
  <2>1. n2 = n /\ \A i \in 1 .. n2 : i + 1 \in 1 .. n + 1
    BY <1>1, <1>6
  <2>2. \A i \in 1 .. n2 : c2[i] = IF i + 1 = n + 1 THEN d ELSE c[i + 1]
    BY <1>1, <1>6, <2>1
  <2>3. c2 = Tail(Append(c, d))
    <3>1. /\ Append(c, d) \in Seq(S) /\ Len(Append(c, d)) = n + 1
          /\ \A i \in 1 .. n + 1 : Append(c, d)[i] = IF i = n + 1 THEN d ELSE c[i]
      BY <1>1, <1>2, <1>6
    <3> QED BY <1>1, <1>2, <1>6, <2>1, <2>2, <3>1
  <2> QED BY <1>6, <2>3 DEF b, p, c, c2
<1> QED BY <1>1, <1>3, <1>4, <1>5, <1>6 DEF b, p

(* What is popped is the oldest entry: its write has landed before its count  *)
(* came out of the last stage, also when both clocks tick at once.           *)
LEMMA PopTakesOldest ==
  ASSUME EntriesInv, Clean, NEW C \in SUBSET Side, NEW beat, NEW gin, NEW rin,
         Move(C, beat, gin, rin), NEW d, StoreMove(C, beat, d), beat["pop"]
  PROVE  out' = Contents[1]
<1>1. /\ TypeInv /\ ResetInv /\ ZeroInv /\ LinkInv /\ StoreType /\ StoreInv
  BY DEF EntriesInv, IInv
<1>2. /\ ~pop_rst /\ ~push_rst /\ "pop" \in C /\ Occupancy >= 1
      /\ \A i \in 1 .. PushCountDelay : Difference(Val(push_gray[i]), Popped) >= 1
      /\ beat["push"] => Occupancy <= Depth - 1 /\ "push" \in C
  BY <1>1, BeatsAreCovered
<1>3. /\ Occupancy \in 0 .. Depth /\ Oldest = ram_rd_addr /\ Oldest \in Addr /\ WrAddr = ram_wr_addr
      /\ beat["push"] \in BOOLEAN /\ Depth \in Nat /\ WrAddr = (Oldest + Occupancy) % Depth
  BY <1>1, <1>2, CleanFacts, CountFacts DEF Oldest, WrAddr, Move, Side, StoreInv
<1>4. ASSUME NEW i \in WriteStage, ram_wr[i] # NoWrite
      PROVE  ram_wr[i].addr # Oldest
  <2>1. /\ ram_wr[i].addr = (Oldest + Difference(Val(push_gray[i + 1]), Popped)) % Depth
        /\ Difference(Val(push_gray[i + 1]), Popped) <= Depth - 1
    BY <1>1, <1>2, <1>4 DEF StoreInv
  <2>2. i + 1 \in 1 .. PushCountDelay
    BY StageFacts, DelayFacts
  <2>3. Difference(Val(push_gray[i + 1]), Popped) >= 1
    BY <1>2, <2>2
  <2>4. Difference(Val(push_gray[i + 1]), Popped) \in Count
    <3>1. Popped \in Count
      BY <1>1, CleanFacts
    <3>2. Live(push_gray, push_count, PushCountDelay)
      <4>1. "push" \in Side /\ "pop" \in Side /\ Other("pop") = "push" /\ Delay["push"] = PushCountDelay
        BY DelayFacts DEF Side, Other
      <4> QED BY <1>1, <1>2, <4>1, SideValues DEF LinkInv, LinkFrom
    <3>3. Val(push_gray[i + 1]) \in Count
      BY <2>2, <3>2, WordFacts DEF Live
    <3> QED BY <3>1, <3>3, DifferenceFacts
  <2>5. PICK k \in 0 .. Depth : k = Difference(Val(push_gray[i + 1]), Popped)
    <3>1. Difference(Val(push_gray[i + 1]), Popped) \in Nat
      BY <2>4, CountFacts DEF Count
    <3> QED BY <1>3, <2>1, <3>1
  <2>6. k >= 1 /\ k <= Depth - 1 => (Oldest + k) % Depth # Oldest
    BY <1>3, AddrFacts
  <2> QED BY <2>1, <2>3, <2>5, <2>6
<1>5. beat["push"] => ram_wr_addr # Oldest
  <2>1. Occupancy >= 1 /\ Occupancy <= Depth - 1 => (Oldest + Occupancy) % Depth # Oldest
    BY <1>3, AddrFacts
  <2> QED BY <1>2, <1>3, <2>1
<1>6. Settled(Oldest) = ram[Oldest]
  <2>1. DOMAIN ram_wr = WriteStage
    BY <1>1 DEF StoreType
  <2> QED BY <1>4, <2>1, SettledIs
<1>7. ram'[Oldest] = ram[Oldest]
  <2>1. CASE "push" \notin C
    BY <2>1 DEF StoreMove
  <2>2. CASE "push" \in C
    <3>1. Landing(beat["push"], d) # NoWrite => Landing(beat["push"], d).addr # Oldest
      <4>1. CASE RamWriteLatency = 1
        BY <1>3, <1>5, <4>1 DEF Landing, NewWrite
      <4>2. CASE RamWriteLatency # 1
        <5>1. RamWriteLatency - 1 \in WriteStage
          BY <4>2, StageFacts DEF WriteStage
        <5> QED BY <1>4, <4>2, <5>1 DEF Landing
      <4> QED BY <4>1, <4>2
    <3>2. ram' = IF Landing(beat["push"], d) = NoWrite THEN ram
                 ELSE [ram EXCEPT ![Landing(beat["push"], d).addr] = Landing(beat["push"], d).data]
      BY <2>2 DEF StoreMove
    <3>3. DOMAIN ram = Addr
      BY <1>1 DEF StoreType
    <3> QED BY <1>3, <3>1, <3>2, <3>3
  <2> QED BY <2>1, <2>2
<1>8. out' = ram[Oldest]
  BY <1>2, <1>3, <1>7 DEF StoreMove
<1>9. Contents[1] = Store[Oldest]
  <2>1. ContentsAreEntries /\ Inside = Occupancy
    BY ContentsSeq DEF Inside
  <2>2. 1 \in 1 .. Inside /\ 1 - 1 = 0
    BY <1>2, <1>3, <2>1
  <2>3. Contents[1] = Store[(Oldest + 0) % Depth]
    BY <2>1, <2>2 DEF ContentsAreEntries
  <2>4. 0 \in 0 .. Depth
    BY <1>3
  <2> QED BY <1>3, <2>3, <2>4, AddrFacts
<1>10. Store[Oldest] = Settled(Oldest)
  BY <1>3 DEF Store
<1> QED BY <1>6, <1>8, <1>9, <1>10

LEMMA EntriesInvStep ==
  ASSUME LongResets
  PROVE  EntriesInv /\ [Next]_vars => EntriesInv'
<1> SUFFICES ASSUME EntriesInv, [Next]_vars PROVE EntriesInv'
  OBVIOUS
<1>1. /\ IInv /\ TypeInv /\ ResetInv /\ ZeroInv /\ LinkInv /\ StoreType /\ StoreZero /\ StoreInv
  BY DEF EntriesInv, IInv
<1>2. IInv' /\ ResetInv'
  BY <1>1, IInvStep DEF IInv
<1>3. CASE Next
  <2>1. PICK C, beat, gin, rin, d : C \in SUBSET Side /\ Move(C, beat, gin, rin) /\ StoreMove(C, beat, d)
    BY <1>1, <1>3, MovesOfNext
  <2>2. StoreType'
    BY <1>1, <2>1, StoreTypeStep
  <2>3. StoreZero'
    BY <1>1, <1>2, <2>1, StoreZeroStep
  <2>4. StoreInv'
    BY <1>1, <1>2, <2>1, StoreInvStep
  <2> QED BY <1>2, <2>2, <2>3, <2>4 DEF EntriesInv
<1>4. CASE UNCHANGED vars
  <2>1. /\ ram_wr_addr' = ram_wr_addr /\ ram_rd_addr' = ram_rd_addr /\ ram' = ram /\ ram_wr' = ram_wr
        /\ push_rst' = push_rst /\ pop_rst' = pop_rst /\ held_push' = held_push /\ held_pop' = held_pop
        /\ ended' = ended /\ push_count' = push_count /\ pop_count' = pop_count /\ push_gray' = push_gray
    BY <1>4 DEF vars, pushVars, popVars, rstVars
  <2>2. StoreType'
    BY <1>1, <2>1 DEF StoreType, WriteStage, NoWrite, Addr
  <2>3. StoreZero'
    BY <1>1, <2>1 DEF StoreZero, WriteStage, NoWrite
  <2>4. StoreInv'
    <3>1. Clean' = Clean /\ WrAddr' = WrAddr /\ Oldest' = Oldest /\ Popped' = Popped /\ Pushed' = Pushed
      BY <2>1 DEF Clean, WrAddr, Oldest, Popped, Pushed
    <3>2. Occupancy' = Occupancy
      BY <3>1 DEF Occupancy, Difference, MaxCountP1
    <3> QED BY <1>1, <2>1, <3>1, <3>2 DEF StoreInv, WriteStage, NoWrite, Val, Difference, MaxCountP1,
                                          Gray2Bin, Number, Bits, Bit
  <2> QED BY <1>2, <2>2, <2>3, <2>4 DEF EntriesInv
<1> QED BY <1>3, <1>4

LEMMA InitEntriesInv == Init => EntriesInv
<1> SUFFICES ASSUME Init PROVE EntriesInv
  OBVIOUS
<1>1. ~Clean
  BY DEF Init, Clean
<1>2. IInv /\ StoreInv
  BY <1>1, InitIInv DEF StoreInv
<1>3. StoreType
  <2>1. 0 \in Addr
    BY CountFacts DEF Addr
  <2> QED BY <2>1 DEF Init, StoreType, WriteStage
<1>4. StoreZero
  BY DEF Init, StoreZero, WriteStage
<1> QED BY <1>2, <1>3, <1>4 DEF EntriesInv

(* A step of one clock or of both is a push, a pop, both, or nothing, of the   *)
(* queue; what a reset does to one side alone empties it.                    *)
LEMMA StepRefines ==
  ASSUME EntriesInv, EntriesInv', Next
  PROVE  Queue!Next
<1>1. /\ TypeInv /\ ResetInv /\ ResetInv' /\ ZeroInv /\ LinkInv /\ StoreType
  BY DEF EntriesInv, IInv
<1>2. PICK C, beat, gin, rin, d : C \in SUBSET Side /\ Move(C, beat, gin, rin) /\ StoreMove(C, beat, d)
  BY <1>1, MovesOfNext
<1>3. ContentsAreEntries /\ ContentsAreEntries'
  BY ContentsSeq, ContentsSeqNext
<1>4. /\ beat["push"] \in BOOLEAN /\ beat["pop"] \in BOOLEAN
      /\ "push" \in C => accepted' = IF beat["push"] THEN d ELSE NoData
      /\ "push" \notin C => accepted' = NoData
      /\ ~beat["pop"] => out' = NoData
  BY <1>2 DEF Move, Side, StoreMove
<1>5. CASE ~Clean'
  <2>1. Accepted' = NoData /\ Delivered' = NoData
    BY <1>5 DEF Accepted, Delivered, Clean
  <2>2. Inside' = 0
    BY <1>5 DEF Inside, Clean
  <2>3. Contents' = <<>>
    BY <1>3, <2>2 DEF ContentsAreEntries, Values
  <2> QED BY <2>1, <2>3 DEF Queue!Next, Queue!Reset, Contents, Accepted, Delivered
<1>6. CASE Clean' /\ ~Clean
  <2>1. push_rst /\ pop_rst /\ ~beat["push"] /\ ~beat["pop"]
    BY <1>1, <1>2, <1>6, CleanStep
  <2>2. Accepted' = NoData /\ Delivered' = NoData
    BY <1>4, <2>1 DEF Accepted, Delivered
  <2>3. Pushed' = 0 /\ Popped' = 0
    <3>1. /\ Pushed' = IF beat["push"] THEN Succ(Pushed) ELSE Pushed
          /\ Popped' = IF beat["pop"] THEN Succ(Popped) ELSE Popped
      BY <1>1, <1>2, <2>1, EffectiveMoves
    <3> QED BY <2>1, <3>1 DEF Pushed, Popped
  <2>4. Inside' = 0
    <3>1. Difference(0, 0) = 0
      BY ZeroCode, DifferenceFacts
    <3>2. Occupancy' = 0
      BY <2>3, <3>1 DEF Occupancy, Difference, MaxCountP1
    <3>3. Inside' = Occupancy'
      BY <1>6 DEF Inside, Clean
    <3> QED BY <3>2, <3>3
  <2>5. Contents' = <<>>
    BY <1>3, <2>4 DEF ContentsAreEntries, Values
  <2> QED BY <2>2, <2>5 DEF Queue!Next, Queue!Reset, Contents, Accepted, Delivered
<1>7. CASE Clean' /\ Clean
  <2>1. /\ Occupancy \in 0 .. Depth /\ Depth \in Nat
        /\ beat["push"] => Occupancy <= Depth - 1 /\ d \in Data
        /\ beat["pop"] => Occupancy >= 1
    BY <1>2, <1>7, EntriesMove
  <2>2. /\ ~beat["push"] /\ ~beat["pop"] => Contents' = Contents
        /\ beat["push"] /\ ~beat["pop"] => Contents' = Append(Contents, d)
        /\ ~beat["push"] /\ beat["pop"] => Contents' = Tail(Contents)
        /\ beat["push"] /\ beat["pop"] => Contents' = Tail(Append(Contents, d))
    BY <1>2, <1>7, StepContents
  <2>3. beat["push"] => "push" \in C
    BY <1>1, <1>2, <1>7, BeatsAreCovered
  <2>4. Accepted' = IF beat["push"] THEN d ELSE NoData
    <3>1. Accepted' = accepted'
      BY <1>7 DEF Accepted, Clean
    <3> QED BY <1>4, <2>3, <3>1
  <2>5. Delivered' = IF beat["pop"] THEN Contents[1] ELSE NoData
    <3>1. Delivered' = out'
      BY <1>7 DEF Delivered, Clean
    <3>2. beat["pop"] => out' = Contents[1]
      BY <1>2, <1>7, PopTakesOldest
    <3> QED BY <1>4, <3>1, <3>2
  <2>6. Contents \in Seq(Values) /\ Len(Contents) = Occupancy
    <3>1. Inside = Occupancy
      BY <1>7 DEF Inside
    <3> QED BY <1>3, <3>1 DEF ContentsAreEntries
  <2>7. beat["push"] => Len(Contents) < Depth
    BY <2>1, <2>6
  <2>8. beat["pop"] => Contents # <<>> /\ Contents[1] = Head(Contents)
    BY <2>1, <2>6
  <2>9. beat["pop"] /\ beat["push"] => Head(Append(Contents, d)) = Contents[1]
    <3> SUFFICES ASSUME beat["pop"], beat["push"] PROVE Head(Append(Contents, d)) = Contents[1]
      OBVIOUS
    <3>1. d \in Values /\ Len(Contents) >= 1
      BY <2>1, <2>6 DEF Values
    <3> QED BY <2>6, <3>1
  <2>10. CASE ~beat["push"] /\ ~beat["pop"]
    BY <2>2, <2>4, <2>5, <2>10 DEF Queue!Next, Queue!Idle, Contents, Accepted, Delivered
  <2>11. CASE beat["push"] /\ ~beat["pop"]
    <3>1. Len(Contents) < Depth /\ Contents' = Append(Contents, d) /\ Accepted' = d /\ Delivered' = NoData /\ d \in Data
      BY <2>1, <2>2, <2>4, <2>5, <2>7, <2>11
    <3> QED BY <3>1 DEF Queue!Next, Queue!Push, Contents, Accepted, Delivered
  <2>12. CASE ~beat["push"] /\ beat["pop"]
    <3>1. Contents # <<>> /\ Contents' = Tail(Contents) /\ Accepted' = NoData /\ Delivered' = Head(Contents)
      BY <2>2, <2>4, <2>5, <2>8, <2>12
    <3> QED BY <3>1 DEF Queue!Next, Queue!Pop, Contents, Accepted, Delivered
  <2>13. CASE beat["push"] /\ beat["pop"]
    <3>1. /\ Len(Contents) < Depth /\ d \in Data /\ Contents' = Tail(Append(Contents, d))
          /\ Accepted' = d /\ Delivered' = Head(Append(Contents, d))
      BY <2>1, <2>2, <2>4, <2>5, <2>7, <2>9, <2>13
    <3> QED BY <3>1 DEF Queue!Next, Queue!PushPop, Contents, Accepted, Delivered
  <2> QED BY <1>4, <2>10, <2>11, <2>12, <2>13
<1> QED BY <1>5, <1>6, <1>7

(* With resets that last until their zero is through br_delay_nr_push_count_gray *)
(* the FIFO implements the bounded queue between any two clocks: whatever goes *)
(* in comes out once, in order and intact, from the end of every reset to the  *)
(* beginning of the next.                                                    *)
THEOREM CrossingRefines == LongResets => (Spec => ImplementsQueue)
<1> SUFFICES ASSUME LongResets PROVE Spec => ImplementsQueue
  OBVIOUS
<1>1. Init => Queue!Init
  <2> SUFFICES ASSUME Init PROVE Contents = <<>> /\ Accepted = NoData /\ Delivered = NoData
    BY DEF Queue!Init, Contents, Accepted, Delivered
  <2>1. ~Clean
    BY DEF Init, Clean
  <2>2. ContentsAreEntries /\ Inside = 0
    BY <2>1, InitEntriesInv, ContentsSeq DEF Inside
  <2> QED BY <2>1, <2>2 DEF ContentsAreEntries, Accepted, Delivered
<1>2. ASSUME EntriesInv, EntriesInv', [Next]_vars
      PROVE  [Queue!Next]_(Queue!vars)
  <2>1. CASE Next
    BY <1>2, <2>1, StepRefines
  <2>2. CASE UNCHANGED vars
    <3>1. /\ ram_wr_addr' = ram_wr_addr /\ ram_rd_addr' = ram_rd_addr /\ ram' = ram /\ ram_wr' = ram_wr
          /\ push_rst' = push_rst /\ pop_rst' = pop_rst /\ ended' = ended
          /\ push_count' = push_count /\ pop_count' = pop_count /\ accepted' = accepted /\ out' = out
      BY <2>2 DEF vars, pushVars, popVars, rstVars
    <3> QED BY <3>1 DEF Queue!vars, Clean, Occupancy, Pushed, Popped, Oldest, Difference, MaxCountP1,
                        Settled, NoWrite
  <2> QED BY <1>2, <2>1, <2>2
<1>3. EntriesInv /\ EntriesInv' /\ [Next]_vars => [Queue!Next]_(Queue!vars)
  BY <1>2
<1> QED BY <1>1, <1>3, InitEntriesInv, EntriesInvStep, PTL DEF Spec, ImplementsQueue, Queue!Spec
=============================================================================
