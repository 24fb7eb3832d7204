------------------------ MODULE BrFifoSharedProofs -----------------------------
(***************************************************************************)
(* Theorems about the shared FIFOs.  First about BrFifoSharedPool, for any  *)
(* number of FIFOs, entries, write ports and lists per FIFO, any latency of *)
(* the pointer RAM, and direct or registered deallocation; then about       *)
(* BrFifoSharedDynamic, for any of its numbers of read ports, with and      *)
(* without staging buffers, of any depth, with and without output register, *)
(* for any latency of the data RAM.                                         *)
(***************************************************************************)
EXTENDS BrFifoSharedDynamic, FiniteSetTheorems, FunctionTheorems,
        SequenceTheorems, WellFoundedInduction, TLAPS

N == NumLinkedListsPerFifo
Lists == LL!LinkedList
Pointer == Address \cup {NoAddr}

Registers ==
    [count : [Lists -> Nat], head : [Lists -> Pointer], head_valid : [Lists -> BOOLEAN],
     tail : [Lists -> Pointer], head_select : Lists, tail_select : Lists,
     reads : [LL!Stage -> [valid : BOOLEAN, list : Lists, ptr : Pointer]]]

\* A list without a valid head is empty or has one pointer on its way.
Fetches(c) ==
    /\ \A l \in Lists :
          /\ c.head_valid[l] => c.count[l] > 0
          /\ c.count[l] > 0 /\ ~c.head_valid[l] =>
                \E k \in LL!Stage : c.reads[k].valid /\ c.reads[k].list = l
    /\ \A k \in LL!Stage : c.reads[k].valid =>
          /\ c.count[c.reads[k].list] > 0 /\ ~c.head_valid[c.reads[k].list]
          /\ \A j \in LL!Stage :
                c.reads[j].valid /\ c.reads[j].list = c.reads[k].list => j = k

ListInv(c, ptr, q) == c \in Registers /\ Fetches(c) /\ LL!InTurn(c, ptr, q)

LEMMA Constants ==
  /\ NumFifos \in Nat /\ NumFifos >= 2 /\ NumWritePorts \in Nat \ {0} /\ Depth \in Nat
  /\ N \in Nat \ {0} /\ PointerRamReadLatency \in Nat /\ RegisterDeallocation \in BOOLEAN
  /\ Lists = 0 .. N - 1 /\ LL!Stage = 1 .. PointerRamReadLatency
  /\ LL!Address = Address /\ LL!NoAddr = NoAddr
BY PoolAssumption DEF N, Lists, LL!LinkedList, LL!Stage, LL!Address, LL!NoAddr, Address, NoAddr

(* Arithmetic of turns.                                                      *)

LEMMA ModIs ==
  ASSUME NEW W \in Nat \ {0}, NEW x \in Int, NEW r \in 0 .. W - 1, NEW q \in Int, x = (W * q) + r
  PROVE  x % W = r
OBVIOUS
LEMMA ModParts ==
  ASSUME NEW W \in Nat \ {0}, NEW x \in Int
  PROVE  /\ x % W \in 0 .. W - 1 /\ x \div W \in Int
         /\ x = (W * (x \div W)) + (x % W)
OBVIOUS

LEMMA Spread ==
  ASSUME NEW W \in Nat \ {0}, NEW l \in 0 .. W - 1, NEW h \in 0 .. W - 1, NEW L \in Nat,
         NEW n \in Nat, ((l - h) % W) + (W * n) \in L .. L + W - 1
  PROVE  (l - ((h + L) % W)) % W = ((l - h) % W) + (W * n) - L
<1> DEFINE b == (l - h) % W
           u == (l - h) \div W
           t == (h + L) % W
           v == (h + L) \div W
           y == b + (W * n) - L
<1>0. l - h \in Int /\ h + L \in Int
  OBVIOUS
<1>1. b \in 0 .. W - 1 /\ u \in Int /\ l - h = (W * u) + b
  BY <1>0, ModParts
<1>2. t \in 0 .. W - 1 /\ v \in Int /\ h + L = (W * v) + t
  BY <1>0, ModParts
<1>3. y \in 0 .. W - 1
  BY <1>1
<1> DEFINE z == u + v - n
<1>4. z \in Int
  BY <1>1, <1>2
<1>6. W * z = (W * u) + (W * v) - (W * n)
  BY <1>1, <1>2
<1>5. l - t = (W * z) + y
  <2> HIDE DEF z
  <2> QED BY <1>1, <1>2, <1>4, <1>6
<1> HIDE DEF y, t, z, b, u, v
<1>8. l - t \in Int
  BY <1>2
<1>7. (l - t) % W = y
  BY <1>3, <1>4, <1>5, <1>8, ModIs
<1> QED BY <1>7 DEF y, t, b

LEMMA TakeTurn ==
  ASSUME NEW W \in Nat \ {0}, NEW l \in 0 .. W - 1, NEW h \in 0 .. W - 1
  PROVE  /\ (l - h) % W \in 0 .. W - 1
         /\ (l - h) % W = 0 <=> l = h
         /\ (l - ((h + 1) % W)) % W = IF l = h THEN W - 1 ELSE ((l - h) % W) - 1
<1>1. (l - h) % W = IF l >= h THEN l - h ELSE l - h + W
  <2>1. CASE l >= h
    BY <2>1, ModIs, l - h = (W * 0) + (l - h)
  <2>2. CASE ~(l >= h)
    BY <2>2, ModIs, l - h = (W * (-1)) + (l - h + W)
  <2> QED BY <2>1, <2>2
<1> DEFINE g == (h + 1) % W
<1>2. g = IF h = W - 1 THEN 0 ELSE h + 1
  <2>1. CASE h = W - 1
    BY <2>1, ModIs, h + 1 = (W * 1) + 0
  <2>2. CASE h # W - 1
    BY <2>2, ModIs, h + 1 = (W * 0) + (h + 1)
  <2> QED BY <2>1, <2>2
<1> HIDE DEF g
<1>3. (l - g) % W = IF l >= g THEN l - g ELSE l - g + W
  <2>1. CASE l >= g
    BY <1>2, <2>1, ModIs, l - g = (W * 0) + (l - g)
  <2>2. CASE ~(l >= g)
    BY <1>2, <2>2, ModIs, l - g = (W * (-1)) + (l - g + W)
  <2> QED BY <2>1, <2>2
<1> QED BY <1>1, <1>2, <1>3 DEF g

LEMMA Share ==
  ASSUME NEW W \in Nat \ {0}, NEW M \in Nat, NEW e \in 0 .. W - 1
  PROVE  /\ (M - (e + 1) + W) \div W \in Nat
         /\ W * ((M - (e + 1) + W) \div W) \in M - e .. M - e + W - 1
         /\ \A k \in Int : k >= 1 => 
               (k <= (M - (e + 1) + W) \div W <=> e + 1 + ((k - 1) * W) <= M)
<1> DEFINE x == M - (e + 1) + W
           K == x \div W
<1>0. x \in Int
  OBVIOUS
<1>1. K \in Int /\ x % W \in 0 .. W - 1 /\ x = (W * K) + (x % W)
  <2> HIDE DEF x
  <2> QED BY <1>0, ModParts
<1>2. x >= 0
  OBVIOUS
<1> HIDE DEF K
<1>3. K \in Nat
  <2>1. K < 0 => W * K <= - W
    BY <1>1
  <2> QED BY <1>1, <1>2, <2>1
<1>4. W * K \in M - e .. M - e + W - 1
  BY <1>1
<1>5. ASSUME NEW k \in Int, k >= 1 PROVE k <= K <=> e + 1 + ((k - 1) * W) <= M
  <2>1. k <= K => (k - 1) * W <= (W * K) - W
    BY <1>3
  <2>2. k > K => (k - 1) * W >= W * K
    BY <1>3
  <2>3. (k - 1) * W \in Int /\ W * K \in Int
    BY <1>3
  <2> QED BY <1>1, <1>3, <1>4, <2>1, <2>2, <2>3
<1> QED BY <1>3, <1>4, <1>5 DEF K

-----------------------------------------------------------------------------
(* Positions: list l has every N-th one from its turn on.            *)

LEMMA Positions ==
  ASSUME NEW c \in Registers, NEW l \in Lists
  PROVE  /\ c.head_select \in 0 .. N - 1 /\ c.tail_select \in 0 .. N - 1 /\ c.count[l] \in Nat
         /\ LL!Place(c, l, 0) \in 1 .. N
         /\ LL!Place(c, l, 0) = 1 <=> l = c.head_select
         /\ \A k \in Nat : LL!Place(c, l, k) \in Nat /\ LL!Place(c, l, k) >= 1
                           /\ LL!Place(c, l, k + 1) = LL!Place(c, l, k) + N
         /\ \A j, k \in Nat : j < k => LL!Place(c, l, j) + N <= LL!Place(c, l, k)
<1> DEFINE b == (l - c.head_select) % N
           mul(k) == N * k
<1>1. c.head_select \in 0 .. N - 1 /\ c.tail_select \in 0 .. N - 1 /\ l \in 0 .. N - 1
      /\ c.count[l] \in Nat /\ N \in Nat \ {0}
  BY Constants DEF Registers
<1>2. b \in 0 .. N - 1 /\ (b = 0 <=> l = c.head_select)
  <2>1. b = (l - c.head_select) % N
    BY DEF b
  <2> HIDE DEF b
  <2> QED BY <1>1, <2>1, TakeTurn
<1>3. mul(0) = 0 /\ \A k \in Nat : mul(k) \in Nat /\ mul(k + 1) = mul(k) + N
  BY <1>1
<1>4. \A j, k \in Nat : j < k => mul(j) + N <= mul(k)
  BY <1>1
<1>5. \A k : LL!Place(c, l, k) = b + mul(k) + 1
  BY DEF LL!Place, N
<1> HIDE DEF b, mul
<1>6. LL!Place(c, l, 0) = b + 1
  BY <1>2, <1>3, <1>5
<1>7. \A k \in Nat : LL!Place(c, l, k) \in Nat /\ LL!Place(c, l, k) >= 1 /\ LL!Place(c, l, k + 1) = LL!Place(c, l, k) + N
  <2> TAKE k \in Nat
  <2>1. k + 1 \in Nat /\ mul(k) \in Nat /\ mul(k + 1) = mul(k) + N
    BY <1>3
  <2> QED BY <1>1, <1>2, <1>5, <2>1
<1>8. \A j, k \in Nat : j < k => LL!Place(c, l, j) + N <= LL!Place(c, l, k)
  <2> TAKE j \in Nat, k \in Nat
  <2> HAVE j < k
  <2>1. mul(j) \in Nat /\ mul(k) \in Nat /\ mul(j) + N <= mul(k)
    BY <1>3, <1>4
  <2> QED BY <1>1, <1>2, <1>5, <2>1
<1>9. LL!Place(c, l, 0) \in 1 .. N /\ (LL!Place(c, l, 0) = 1 <=> l = c.head_select)
  BY <1>1, <1>2, <1>6
<1> QED BY <1>1, <1>7, <1>8, <1>9

(* Every position belongs to a list.                                        *)
LEMMA PositionOf ==
  ASSUME NEW c \in Registers, NEW i \in Nat, i >= 1
  PROVE  LET l == (c.head_select + i - 1) % N
             k == (i - 1) \div N
         IN  l \in Lists /\ k \in Nat /\ i = LL!Place(c, l, k)
<1> DEFINE h == c.head_select
           l == (h + i - 1) % N
           v == (h + i - 1) \div N
           r == (i - 1) % N
           k == (i - 1) \div N
<1>1. h \in 0 .. N - 1 /\ N \in Nat \ {0} /\ Lists = 0 .. N - 1
  BY Constants DEF Registers
<1>2. h + i - 1 \in Int /\ i - 1 \in Int
  BY <1>1
<1>3. l \in 0 .. N - 1 /\ v \in Int /\ h + i - 1 = (N * v) + l
  <2> DEFINE x == h + i - 1
  <2>1. x \in Int
    BY <1>2
  <2> HIDE DEF x
  <2>2. x % N \in 0 .. N - 1 /\ x \div N \in Int /\ x = (N * (x \div N)) + (x % N)
    BY <1>1, <2>1, ModParts
  <2> QED BY <2>2 DEF x
<1>4. r \in 0 .. N - 1 /\ k \in Int /\ i - 1 = (N * k) + r
  <2> DEFINE x == i - 1
  <2>1. x \in Int
    BY <1>2
  <2> HIDE DEF x
  <2>2. x % N \in 0 .. N - 1 /\ x \div N \in Int /\ x = (N * (x \div N)) + (x % N)
    BY <1>1, <2>1, ModParts
  <2> QED BY <2>2 DEF x
<1> HIDE DEF l, v, r, k
<1>5. k \in Nat
  <2>1. k < 0 => N * k <= -N
    BY <1>1, <1>4
  <2>2. N * k \in Int
    BY <1>1, <1>4
  <2> QED BY <1>1, <1>4, <2>1, <2>2
<1>6. (l - h) % N = r
  <2> DEFINE z == k - v
  <2>1. z \in Int /\ l - h \in Int /\ N * z = (N * k) - (N * v)
    BY <1>1, <1>3, <1>4
  <2> HIDE DEF z
  <2>2. N * k \in Int /\ N * v \in Int /\ N * z \in Int
    BY <1>1, <1>3, <1>4, <2>1
  <2>3. l - h = (N * z) + r
    <3> DEFINE zz == N * z
               kk == N * k
               vv == N * v
    <3>1. zz \in Int /\ kk \in Int /\ vv \in Int /\ zz = kk - vv
          /\ h + i - 1 = vv + l /\ i - 1 = kk + r /\ h \in Int /\ r \in Int /\ l \in Int
      BY <1>1, <1>3, <1>4, <2>1, <2>2
    <3> HIDE DEF zz, kk, vv
    <3>2. l - h = zz + r
      BY <3>1
    <3> QED BY <3>2 DEF zz
  <2> QED BY <1>1, <1>4, <2>1, <2>3, ModIs
<1>7. LL!Place(c, l, k) = r + (N * k) + 1
  BY <1>6 DEF LL!Place, N, h
<1>8. N * k \in Int
  BY <1>1, <1>5
<1>9. i = LL!Place(c, l, k)
  BY <1>4, <1>7, <1>8
<1> QED BY <1>1, <1>3, <1>5, <1>9 DEF h, l, k

LEMMA EveryPosition ==
  ASSUME NEW c \in Registers, NEW i \in Nat, i >= 1
  PROVE  \E l \in Lists, k \in Nat : i = LL!Place(c, l, k)
BY PositionOf

-----------------------------------------------------------------------------
(* The tail of the lists.                                                    *)

LEMMA Concatenation ==
  ASSUME NEW S, NEW q \in Seq(S), NEW s \in Seq(S)
  PROVE  /\ q \o s \in Seq(S) /\ Len(q \o s) = Len(q) + Len(s)
         /\ \A i \in 1 .. Len(q) : (q \o s)[i] = q[i]
         /\ \A i \in Len(q) + 1 .. Len(q) + Len(s) : (q \o s)[i] = s[i - Len(q)]
OBVIOUS

\* What InTurn says of the number of addresses of each list
Turns(c, q) ==
    /\ c.tail_select = (c.head_select + Len(q)) % N
    /\ \A l \in Lists : LL!Place(c, l, c.count[l]) \in Len(q) + 1 .. Len(q) + N

LEMMA InTurnTurns ==
  ASSUME NEW c, NEW ptr, NEW q, LL!InTurn(c, ptr, q)
  PROVE  Turns(c, q)
BY DEF LL!InTurn, Turns, Lists, N

(* The addresses that arrive for a list take the places that are its own     *)
(* among those of the queue with all that arrive.                            *)
LEMMA ArrivalsTakePlaces ==
  ASSUME NEW c \in Registers, NEW q \in Seq(Address), NEW s \in Seq(Address), Turns(c, q),
         NEW l \in Lists
  PROVE  LET A == LL!Arrivals(c, l, s)
             n == c.count[l]
         IN  /\ A \in Seq(Address)
             /\ LL!Place(c, l, n + Len(A)) \in Len(q) + Len(s) + 1 .. Len(q) + Len(s) + N
             /\ \A k \in 1 .. Len(A) :
                   /\ LL!Place(c, l, n + k - 1) \in Len(q) + 1 .. Len(q) + Len(s)
                   /\ A[k] = (q \o s)[LL!Place(c, l, n + k - 1)]
<1> DEFINE A == LL!Arrivals(c, l, s)
           n == c.count[l]
           h == c.head_select
           b == (l - h) % N
           e == (l - c.tail_select) % N
           K == (Len(s) - (e + 1) + N) \div N
           mul(k) == N * k
           place(k) == LL!Place(c, l, k)
           off(k) == (k - 1) * N
           pos(k) == e + 1 + off(k)
<1>1. /\ N \in Nat \ {0} /\ l \in 0 .. N - 1 /\ h \in 0 .. N - 1 /\ n \in Nat
      /\ Len(q) \in Nat /\ Len(s) \in Nat
  <2>1. N \in Nat \ {0} /\ l \in 0 .. N - 1
    BY Constants
  <2>2. h \in 0 .. N - 1 /\ n \in Nat
    BY Positions
  <2> QED BY <2>1, <2>2
<1>2. \A k : place(k) = b + mul(k) + 1
  BY DEF LL!Place, N
<1>3. b + mul(n) \in Len(q) .. Len(q) + N - 1
  <2>1. b \in Int /\ mul(n) \in Int
    BY <1>1, TakeTurn
  <2>2. place(n) \in Len(q) + 1 .. Len(q) + N
    BY DEF Turns
  <2> HIDE DEF b, mul, place, n
  <2> QED BY <1>1, <1>2, <2>1, <2>2
<1>4. e = b + mul(n) - Len(q) /\ e \in 0 .. N - 1 /\ b \in 0 .. N - 1
  <2>1. c.tail_select = (h + Len(q)) % N
    BY DEF Turns
  <2>2. (l - ((h + Len(q)) % N)) % N = b + mul(n) - Len(q)
    <3> HIDE DEF n, h
    <3> QED BY <1>1, <1>3, Spread
  <2>3. b \in 0 .. N - 1 /\ mul(n) \in Int
    BY <1>1, TakeTurn
  <2>4. e = b + mul(n) - Len(q)
    BY <2>1, <2>2
  <2> HIDE DEF b, mul, n, e
  <2> QED BY <1>1, <1>3, <2>3, <2>4
<1>5. A = [k \in 1 .. K |-> s[pos(k)]]
  BY DEF LL!Arrivals, N
<1>6. /\ K \in Nat /\ mul(K) \in Len(s) - e .. Len(s) - e + N - 1
      /\ \A k \in Int : k >= 1 => (k <= K <=> pos(k) <= Len(s))
  <2>1. e \in 0 .. N - 1
    BY <1>4
  <2> HIDE DEF e
  <2> QED BY <1>1, <2>1, Share
<1>7. /\ mul(n + K) = mul(n) + mul(K)
      /\ mul(n) \in Int /\ mul(K) \in Int
      /\ \A k \in 1 .. K : /\ mul(n + k - 1) = mul(n) + off(k)
                           /\ off(k) \in Nat
  <2> HIDE DEF K, n
  <2>1. \A k \in 1 .. K : k - 1 \in Nat /\ n + k - 1 = n + (k - 1)
    BY <1>1, <1>6
  <2>2. \A j \in Nat : N * (n + j) = (N * n) + (j * N) /\ j * N \in Nat
    BY <1>1
  <2> QED BY <1>1, <1>6, <2>1, <2>2
<1> HIDE DEF A, K, n, b, e, mul, place, off
<1>8. place(n + K) \in Len(q) + Len(s) + 1 .. Len(q) + Len(s) + N
  <2>1. place(n + K) = b + mul(n + K) + 1
    BY <1>2
  <2>2. mul(K) \in Len(s) - e .. Len(s) - e + N - 1
    BY <1>6
  <2>3. mul(n + K) = mul(n) + mul(K) /\ mul(n) \in Int /\ mul(K) \in Int
    BY <1>7
  <2>4. Len(q) + e = b + mul(n) /\ e \in Int /\ b \in Int
    BY <1>1, <1>4, <2>3
  <2>5. N \in Nat /\ Len(q) \in Nat /\ Len(s) \in Nat
    BY <1>1
  <2>6. place(n + K) = Len(q) + e + mul(K) + 1
    BY <2>1, <2>3, <2>4
  <2> QED BY <2>2, <2>3, <2>4, <2>5, <2>6
<1>9. ASSUME NEW k \in 1 .. K
      PROVE  /\ pos(k) \in 1 .. Len(s)
             /\ place(n + k - 1) = Len(q) + pos(k)
  <2>1. k \in Int /\ k >= 1 /\ k <= K /\ K \in Nat
    BY <1>6
  <2>2. pos(k) <= Len(s)
    BY <1>6, <2>1
  <2>3. mul(n + k - 1) = mul(n) + off(k) /\ off(k) \in Nat /\ mul(n) \in Int
    BY <1>7
  <2>4. place(n + k - 1) = b + mul(n + k - 1) + 1
    BY <1>2
  <2>5. Len(q) + e = b + mul(n) /\ e \in Nat /\ b \in Nat
    BY <1>1, <1>4, <2>3
  <2>6. place(n + k - 1) = b + mul(n) + off(k) + 1
    BY <2>3, <2>4, <2>5
  <2>7. pos(k) = e + 1 + off(k) /\ Len(q) \in Nat /\ Len(s) \in Nat
    BY <1>1
  <2> HIDE DEF pos
  <2>8. place(n + k - 1) = Len(q) + pos(k)
    BY <2>3, <2>5, <2>6, <2>7
  <2> QED BY <2>2, <2>3, <2>5, <2>7, <2>8
<1> HIDE DEF pos
<1>10. A \in Seq(Address) /\ Len(A) = K
  BY <1>5, <1>6, <1>9
<1>11. \A k \in 1 .. K : A[k] = (q \o s)[place(n + k - 1)]
                         /\ place(n + k - 1) \in Len(q) + 1 .. Len(q) + Len(s)
  <2> TAKE k \in 1 .. K
  <2>1. A[k] = s[pos(k)]
    BY <1>5
  <2>2. place(n + k - 1) = Len(q) + pos(k) /\ pos(k) \in 1 .. Len(s)
    BY <1>9
  <2> QED BY <1>1, <2>1, <2>2
<1> QED BY <1>8, <1>10, <1>11 DEF A, n, place

(* The pointer RAM is written with the links that are missing in the queue   *)
(* with all that arrive, and with nothing else.                              *)
LEMMA WritesAreLinks ==
  ASSUME NEW c \in Registers, NEW ptr, NEW q \in Seq(Address), NEW s \in Seq(Address),
         LL!InTurn(c, ptr, q)
  PROVE  LET W == LL!PtrRamWrites(c, s)
             z == q \o s
         IN  /\ \A w \in W : \E i \in 1 .. Len(z) - N :
                   i + N > Len(q) /\ w = [addr |-> z[i], data |-> z[i + N]]
             /\ \A i \in 1 .. Len(z) - N :
                   i + N > Len(q) => [addr |-> z[i], data |-> z[i + N]] \in W
<1> DEFINE W == LL!PtrRamWrites(c, s)
           z == q \o s
           A(l) == LL!Arrivals(c, l, s)
           n(l) == c.count[l]
           place(l, k) == LL!Place(c, l, k)
           write(l, k) == [addr |-> IF k = 1 THEN c.tail[l] ELSE A(l)[k - 1], data |-> A(l)[k]]
<1>1. /\ z \in Seq(Address) /\ Len(z) = Len(q) + Len(s)
      /\ \A i \in 1 .. Len(q) : z[i] = q[i]
      /\ Len(q) \in Nat /\ Len(s) \in Nat /\ N \in Nat \ {0}
  BY Concatenation, Constants
<1>2. Turns(c, q)
  BY InTurnTurns
<1>3. \A l \in Lists :
         /\ n(l) \in Nat
         /\ place(l, 0) \in 1 .. N
         /\ \A k \in Nat : place(l, k) \in Nat /\ place(l, k) >= 1
                           /\ place(l, k + 1) = place(l, k) + N
         /\ \A j, k \in Nat : j < k => place(l, j) + N <= place(l, k)
  BY Positions
<1>4. \A l \in Lists :
         /\ A(l) \in Seq(Address) /\ Len(A(l)) \in Nat
         /\ place(l, n(l) + Len(A(l))) \in Len(z) + 1 .. Len(z) + N
         /\ \A k \in 1 .. Len(A(l)) : place(l, n(l) + k - 1) \in Len(q) + 1 .. Len(z)
                                      /\ A(l)[k] = z[place(l, n(l) + k - 1)]
  <2> TAKE l \in Lists
  <2>1. A(l) \in Seq(Address) /\ Len(A(l)) \in Nat
    BY <1>2, ArrivalsTakePlaces
  <2>2. place(l, n(l) + Len(A(l))) \in Len(q) + Len(s) + 1 .. Len(q) + Len(s) + N
    BY <1>2, ArrivalsTakePlaces
  <2>3. \A k \in 1 .. Len(A(l)) :
          place(l, n(l) + k - 1) \in Len(q) + 1 .. Len(q) + Len(s)
          /\ A(l)[k] = z[place(l, n(l) + k - 1)]
    BY <1>2, ArrivalsTakePlaces
  <2> QED BY <1>1, <2>1, <2>2, <2>3
<1>5. \A l \in Lists : /\ place(l, n(l)) \in Len(q) + 1 .. Len(q) + N
                       /\ n(l) > 0 => c.tail[l] = q[place(l, n(l) - 1)]
  BY DEF LL!InTurn, Lists, N
<1>6. \A w : w \in W <=> \E l \in Lists : \E k \in 1 .. Len(A(l)) :
                            (k > 1 \/ n(l) # 0) /\ w = write(l, k)
  BY DEF LL!PtrRamWrites, LL!ListWrites, Lists
<1> HIDE DEF W, A, n, place
<1>7. ASSUME NEW l \in Lists, NEW k \in 1 .. Len(A(l)), k > 1 \/ n(l) # 0
      PROVE  LET i == place(l, n(l) + k - 1) - N
             IN  /\ i \in 1 .. Len(z) - N /\ i + N > Len(q)
                 /\ write(l, k) = [addr |-> z[i], data |-> z[i + N]]
  <2> DEFINE m == n(l) + k - 2
             i == place(l, n(l) + k - 1) - N
  <2>1. m \in Nat /\ m + 1 = n(l) + k - 1 /\ n(l) \in Nat
    <3>1. n(l) \in Nat /\ Len(A(l)) \in Nat
      BY <1>3, <1>4
    <3> QED BY <1>7, <3>1
  <2>2. place(l, m) \in Nat /\ place(l, m) >= 1 /\ place(l, n(l) + k - 1) = place(l, m) + N
    <3> HIDE DEF m
    <3>1. place(l, m + 1) = place(l, m) + N /\ place(l, m) \in Nat /\ place(l, m) >= 1
      BY <1>3, <2>1
    <3> QED BY <2>1, <3>1
  <2>3. place(l, n(l) + k - 1) \in Len(q) + 1 .. Len(z) /\ A(l)[k] = z[place(l, n(l) + k - 1)]
    BY <1>4
  <2>4. i = place(l, m) /\ i + N = place(l, n(l) + k - 1)
    BY <1>1, <2>2
  <2>5. i \in 1 .. Len(z) - N /\ i + N > Len(q)
    BY <1>1, <2>2, <2>3, <2>4
  <2>6. (IF k = 1 THEN c.tail[l] ELSE A(l)[k - 1]) = z[i]
    <3>1. CASE k = 1
      <4>1. m = n(l) - 1 /\ n(l) > 0
        BY <1>7, <2>1, <3>1
      <4>2. c.tail[l] = q[place(l, m)]
        BY <1>5, <4>1
      <4>3. place(l, m) \in 1 .. Len(q)
        <5>1. place(l, n(l)) \in Len(q) + 1 .. Len(q) + N
          BY <1>5
        <5>2. n(l) + k - 1 = n(l)
          BY <2>1, <3>1
        <5> QED BY <1>1, <2>2, <5>1, <5>2
      <4> QED BY <1>1, <2>4, <3>1, <4>2, <4>3
    <3>2. CASE k # 1
      <4>1. k - 1 \in 1 .. Len(A(l)) /\ n(l) + (k - 1) - 1 = m
        BY <1>4, <2>1, <3>2
      <4>2. A(l)[k - 1] = z[place(l, m)]
        BY <1>4, <4>1
      <4> QED BY <2>4, <3>2, <4>2
    <3> QED BY <3>1, <3>2
  <2>7. A(l)[k] = z[i + N]
    BY <2>3, <2>4
  <2> QED BY <2>5, <2>6, <2>7
<1>8. \A w \in W : \E i \in 1 .. Len(z) - N :
         i + N > Len(q) /\ w = [addr |-> z[i], data |-> z[i + N]]
  <2> TAKE w \in W
  <2>1. PICK l \in Lists : \E k \in 1 .. Len(A(l)) :
                            (k > 1 \/ n(l) # 0) /\ w = write(l, k)
    BY <1>6
  <2>2. PICK k \in 1 .. Len(A(l)) : (k > 1 \/ n(l) # 0) /\ w = write(l, k)
    BY <2>1
  <2> HIDE DEF z, write
  <2> QED BY <1>7, <2>2
<1>9. ASSUME NEW i \in 1 .. Len(z) - N, i + N > Len(q)
      PROVE  [addr |-> z[i], data |-> z[i + N]] \in W
  <2>1. i + N \in Nat /\ i + N >= 1
    BY <1>1
  <2>2. PICK l \in Lists, m \in Nat : i + N = place(l, m)
    BY <2>1, EveryPosition DEF place
  <2> DEFINE k == m - n(l) + 1
  <2>3. n(l) \in Nat
    BY <1>3
  <2>4. m >= n(l)
    <3>1. m < n(l) => place(l, m) + N <= place(l, n(l))
      BY <1>3, <2>3
    <3>2. place(l, n(l)) \in Len(q) + 1 .. Len(q) + N
      BY <1>5
    <3> QED BY <1>1, <1>9, <2>2, <2>3, <3>1, <3>2
  <2>5. m < n(l) + Len(A(l))
    <3>1. n(l) + Len(A(l)) \in Nat
      BY <1>4, <2>3
    <3>2. n(l) + Len(A(l)) < m => place(l, n(l) + Len(A(l))) + N <= place(l, m)
      BY <1>3, <3>1
    <3>3. place(l, n(l) + Len(A(l))) \in Len(z) + 1 .. Len(z) + N
      BY <1>4
    <3>4. ~(n(l) + Len(A(l)) < m) /\ n(l) + Len(A(l)) # m
      BY <1>1, <2>2, <3>2, <3>3
    <3> QED BY <3>1, <3>4
  <2>6. k \in 1 .. Len(A(l)) /\ m = n(l) + k - 1
    BY <1>4, <2>3, <2>4, <2>5
  <2>7. k > 1 \/ n(l) # 0
    <3>1. CASE m = 0
      BY <1>1, <1>3, <2>2, <3>1
    <3>2. CASE m # 0
      BY <2>3, <2>6, <3>2
    <3> QED BY <3>1, <3>2
  <2> HIDE DEF k
  <2>8. LET j == place(l, n(l) + k - 1) - N
        IN  write(l, k) = [addr |-> z[j], data |-> z[j + N]]
    <3> HIDE DEF z, write
    <3> QED BY <1>7, <2>6, <2>7
  <2>9. place(l, n(l) + k - 1) - N = i
    BY <1>1, <2>2, <2>6
  <2>10. write(l, k) = [addr |-> z[i], data |-> z[i + N]]
    <3> HIDE DEF z, write
    <3> QED BY <2>8, <2>9
  <2>11. write(l, k) \in W
    <3> HIDE DEF write
    <3> QED BY <1>6, <2>6, <2>7
  <2> QED BY <2>10, <2>11
<1> QED BY <1>8, <1>9 DEF W

-----------------------------------------------------------------------------
(* The head of the lists.                                                    *)

(* Whatever is valid of the first address of a list, its head or the pointer *)
(* being fetched, is that address.                                           *)
LEMMA FirstsAreFirst ==
  ASSUME NEW c, NEW ptr, NEW q, ListInv(c, ptr, q)
  PROVE  /\ \A l \in Lists : c.head_valid[l] =>
               c.count[l] > 0 /\ c.head[l] = q[LL!Place(c, l, 0)]
         /\ \A k \in LL!Stage : c.reads[k].valid =>
               /\ c.reads[k].list \in Lists /\ c.count[c.reads[k].list] > 0
               /\ c.reads[k].ptr = q[LL!Place(c, c.reads[k].list, 0)]
<1>1. ASSUME NEW l \in Lists, c.head_valid[l]
      PROVE  c.count[l] > 0 /\ c.head[l] = q[LL!Place(c, l, 0)]
  BY <1>1 DEF ListInv, Fetches, LL!InTurn, LL!FirstOf, Lists
<1>2. ASSUME NEW k \in LL!Stage, c.reads[k].valid
      PROVE  /\ c.reads[k].list \in Lists /\ c.count[c.reads[k].list] > 0
             /\ c.reads[k].ptr = q[LL!Place(c, c.reads[k].list, 0)]
  <2> DEFINE l == c.reads[k].list
             fetched == {j \in LL!Stage : c.reads[j].valid /\ c.reads[j].list = l}
  <2>1. l \in Lists /\ c.count[l] > 0 /\ ~c.head_valid[l]
    BY <1>2 DEF ListInv, Fetches, Registers
  <2>2. fetched = {k}
    BY <1>2 DEF ListInv, Fetches
  <2>3. (CHOOSE j \in fetched : TRUE) = k
    BY <2>2
  <2>4. LL!FirstOf(c, l) = c.reads[k].ptr
    BY <2>1, <2>2, <2>3 DEF LL!FirstOf
  <2> QED BY <2>1, <2>4 DEF ListInv, LL!InTurn, Lists
<1> QED BY <1>1, <1>2

(* The valid head is the oldest address.                                     *)
LEMMA HeadIsOldest ==
  ASSUME NEW c, NEW ptr, NEW q \in Seq(Address), ListInv(c, ptr, q), LL!head_valid(c)
  PROVE  /\ Len(q) >= 1 /\ LL!head(c) = q[1] /\ q[1] \in Address
         /\ c.head_select \in Lists /\ c.count[c.head_select] > 0
         /\ c.head_valid[c.head_select]
<1> DEFINE h == c.head_select
<1>1. c \in Registers /\ h \in Lists /\ c.head_valid[h] = TRUE
  BY DEF ListInv, Registers, LL!head_valid
<1>2. c.count[h] > 0 /\ c.head[h] = q[LL!Place(c, h, 0)] /\ c.count[h] \in Nat
  BY <1>1, FirstsAreFirst DEF Registers
<1>3. LL!Place(c, h, 0) = 1
  BY <1>1, Positions
<1>4. Len(q) >= 1
  <2>1. LL!Place(c, h, 0) + N <= LL!Place(c, h, c.count[h])
    BY <1>1, <1>2, Positions
  <2>2. LL!Place(c, h, c.count[h]) \in Len(q) + 1 .. Len(q) + N
    BY <1>1 DEF ListInv, LL!InTurn, Lists, N
  <2> QED BY <1>3, <2>1, <2>2, Constants
<1> QED BY <1>1, <1>2, <1>3, <1>4 DEF LL!head

(* The places move down when the head is taken.                              *)
LEMMA PlacesMove ==
  ASSUME NEW c \in Registers, NEW d \in Registers, NEW l \in Lists, NEW p \in BOOLEAN,
         d.head_select = (c.head_select + IF p THEN 1 ELSE 0) % N
  PROVE  \A k \in Nat :
            LL!Place(d, l, k) = IF ~p THEN LL!Place(c, l, k)
                                ELSE IF l = c.head_select THEN LL!Place(c, l, k + 1) - 1
                                ELSE LL!Place(c, l, k) - 1
<1> DEFINE h == c.head_select
           g == d.head_select
           b == (l - h) % N
           e == (l - g) % N
           mul(k) == N * k
<1>1. h \in 0 .. N - 1 /\ g \in 0 .. N - 1 /\ l \in 0 .. N - 1 /\ N \in Nat \ {0}
  BY Positions, Constants
<1>2. b \in 0 .. N - 1 /\ (b = 0 <=> l = h)
  <2> HIDE DEF h
  <2> QED BY <1>1, TakeTurn
<1>3. CASE p
  <2>1. g = (h + 1) % N
    BY <1>3
  <2>2. e = IF l = h THEN N - 1 ELSE b - 1
    <3> HIDE DEF h, g
    <3> QED BY <1>1, <2>1, TakeTurn
  <2> TAKE k \in Nat
  <2>3. /\ LL!Place(c, l, k) = b + mul(k) + 1 /\ LL!Place(c, l, k + 1) = b + mul(k + 1) + 1
        /\ LL!Place(d, l, k) = e + mul(k) + 1
    BY DEF LL!Place, N
  <2>4. mul(k) \in Int /\ mul(k + 1) = mul(k) + N
    BY <1>1
  <2> HIDE DEF b, e, mul, h
  <2>5. ASSUME l = h PROVE LL!Place(d, l, k) = LL!Place(c, l, k + 1) - 1
    <3>1. e = N - 1 /\ b = 0 /\ N \in Nat
      BY <1>1, <1>2, <2>2, <2>5
    <3> QED BY <2>3, <2>4, <3>1
  <2>6. ASSUME l # h PROVE LL!Place(d, l, k) = LL!Place(c, l, k) - 1
    <3>1. e = b - 1 /\ b \in Int
      BY <1>1, <1>2, <2>2, <2>6
    <3> QED BY <2>3, <2>4, <3>1
  <2> QED BY <1>3, <2>5, <2>6 DEF h
<1>4. CASE ~p
  <2>1. g = h
    <3>1. h = (N * 0) + h /\ h + 0 = h /\ h \in Int
      BY <1>1
    <3>2. h % N = h
      <4> HIDE DEF h
      <4> QED BY <1>1, <3>1, ModIs
    <3> QED BY <1>4, <3>1, <3>2
  <2> QED BY <1>4, <2>1 DEF LL!Place
<1> QED BY <1>3, <1>4

-----------------------------------------------------------------------------
(* One cycle of a controller: c with the queue q, to which s is appended,    *)
(* while p says whether the head is taken.                                   *)

Popped(c, p, l) == p /\ l = c.head_select

(* The pointer that the RAM delivers is for a list whose head is not valid,  *)
(* or is taken in this cycle, and is the first address it will then have.    *)
LEMMA DeliveredPointer ==
  ASSUME NEW c, NEW ptr, NEW q \in Seq(Address), NEW p \in BOOLEAN, ListInv(c, ptr, q),
         p => LL!head_valid(c), LL!PtrRamRdData(c, p, ptr).valid
  PROVE  LET rd == LL!PtrRamRdData(c, p, ptr)
             l == rd.list
         IN  /\ l \in Lists /\ c.count[l] > 0
             /\ PointerRamReadLatency > 0 =>
                   /\ rd = c.reads[PointerRamReadLatency]
                   /\ ~c.head_valid[l] /\ ~Popped(c, p, l)
                   /\ rd.ptr = q[LL!Place(c, l, 0)]
             /\ PointerRamReadLatency = 0 =>
                   /\ Popped(c, p, l) /\ c.count[l] > 1
                   /\ rd.ptr = q[LL!Place(c, l, 1)]
<1> DEFINE rd == LL!PtrRamRdData(c, p, ptr)
           h == c.head_select
<1>1. CASE PointerRamReadLatency > 0
  <2>1. rd = c.reads[PointerRamReadLatency] /\ PointerRamReadLatency \in LL!Stage
    BY <1>1, Constants DEF LL!PtrRamRdData
  <2>2. rd.list \in Lists /\ c.count[rd.list] > 0 /\ rd.ptr = q[LL!Place(c, rd.list, 0)]
    BY <2>1, FirstsAreFirst
  <2>3. ~c.head_valid[rd.list]
    BY <2>1 DEF ListInv, Fetches
  <2>4. ~Popped(c, p, rd.list)
    BY <2>3, HeadIsOldest DEF Popped
  <2> QED BY <1>1, <2>1, <2>2, <2>3, <2>4
<1>2. CASE PointerRamReadLatency = 0
  <2>1. LL!PtrRamRdAddrValid(c, p) /\ rd = [valid |-> TRUE, list |-> h, ptr |-> ptr[LL!head(c)]]
    BY <1>2 DEF LL!PtrRamRdData, LL!NoRead
  <2>2. LL!head_valid(c) /\ p /\ c.count[h] # 1
    BY <2>1 DEF LL!PtrRamRdAddrValid, LL!HeadBeat
  <2>3. Len(q) >= 1 /\ LL!head(c) = q[1] /\ h \in Lists /\ c.count[h] > 0 /\ c \in Registers
    BY <2>2, HeadIsOldest DEF ListInv
  <2>4. c.count[h] \in Nat /\ c.count[h] > 1
    <3>1. c.count[h] \in Nat
      BY <2>3, Positions
    <3> QED BY <2>2, <2>3, <3>1
  <2>5. LL!Place(c, h, 0) = 1 /\ LL!Place(c, h, 1) = 1 + N
    <3>1. LL!Place(c, h, 0) = 1 /\ LL!Place(c, h, 0 + 1) = LL!Place(c, h, 0) + N
      BY <2>3, Positions
    <3> QED BY <3>1
  <2>6. 1 + N <= Len(q)
    <3>1. LL!Place(c, h, 1) + N <= LL!Place(c, h, c.count[h])
      BY <2>3, <2>4, Positions
    <3>2. LL!Place(c, h, c.count[h]) \in Len(q) + 1 .. Len(q) + N
      BY <2>3 DEF ListInv, LL!InTurn, Lists, N
    <3> QED BY <2>5, <3>1, <3>2, Constants
  <2>7. ptr[q[1]] = q[1 + N]
    <3>1. 1 \in 1 .. Len(q) - N
      BY <2>6, Constants
    <3> QED BY <3>1 DEF ListInv, LL!InTurn, N
  <2> QED BY <1>2, <2>1, <2>2, <2>3, <2>4, <2>5, <2>7 DEF Popped
<1> QED BY <1>1, <1>2, Constants

(* The registers after the clock edge, list by list.                         *)
LEMMA RegistersNext ==
  ASSUME NEW c, NEW ptr, NEW q \in Seq(Address), NEW s \in Seq(Address), NEW p \in BOOLEAN,
         ptr \in [Address -> Pointer], ListInv(c, ptr, q), p => LL!head_valid(c)
  PROVE  LET d == LL!ListsNext(c, p, s, ptr)
             A(l) == LL!Arrivals(c, l, s)
             rd == LL!PtrRamRdData(c, p, ptr)
             pop(l) == Popped(c, p, l)
         IN  /\ d \in Registers
             /\ d.head_select = (c.head_select + IF p THEN 1 ELSE 0) % N
             /\ d.tail_select = (c.tail_select + Len(s)) % N
             /\ d.reads = LL!ReadsNext(c, p, ptr)
             /\ \A l \in Lists :
                   /\ d.count[l] = c.count[l] + Len(A(l)) - IF pop(l) THEN 1 ELSE 0
                   /\ d.head_valid[l] = LL!HeadValidNext(c, l, pop(l), A(l), rd)
                   /\ d.head[l] = LL!HeadNext(c, l, pop(l), A(l), rd)
                   /\ d.tail[l] = LL!TailNext(c, l, pop(l), A(l))
<1> DEFINE d == LL!ListsNext(c, p, s, ptr)
           A(l) == LL!Arrivals(c, l, s)
           rd == LL!PtrRamRdData(c, p, ptr)
           pop(l) == Popped(c, p, l)
           head_next(l) == LL!HeadNext(c, l, pop(l), A(l), rd)
           valid_next(l) == LL!HeadValidNext(c, l, pop(l), A(l), rd)
           tail_next(l) == LL!TailNext(c, l, pop(l), A(l))
           count_next(l) == c.count[l] + Len(A(l)) - IF pop(l) THEN 1 ELSE 0
           reads == LL!ReadsNext(c, p, ptr)
           hs == (c.head_select + IF p THEN 1 ELSE 0) % N
           ts == (c.tail_select + Len(s)) % N
<1>1. LL!HeadBeat(c, p) = p /\ \A l : LL!HeadPopped(c, l, p) = pop(l)
  BY DEF LL!HeadBeat, LL!HeadPopped, Popped, LL!head_valid
<1>2. d = [count       |-> [l \in Lists |-> count_next(l)],
           head        |-> [l \in Lists |-> head_next(l)],
           head_valid  |-> [l \in Lists |-> valid_next(l)],
           tail        |-> [l \in Lists |-> tail_next(l)],
           head_select |-> hs, tail_select |-> ts, reads |-> reads]
  BY <1>1, Zenon DEF LL!ListsNext, LL!CountNext, Lists, N
<1>3. c \in Registers /\ Turns(c, q)
  BY InTurnTurns DEF ListInv
<1>4. /\ N \in Nat \ {0} /\ Lists = 0 .. N - 1 /\ c.head_select \in 0 .. N - 1
      /\ c.tail_select \in 0 .. N - 1 /\ Len(s) \in Nat
  BY <1>3, Constants DEF Registers
<1>5. hs \in Lists /\ ts \in Lists
  <2>1. c.head_select + (IF p THEN 1 ELSE 0) \in Int /\ c.tail_select + Len(s) \in Int
    BY <1>4
  <2> QED BY <1>4, <2>1, ModParts
<1>6. \A l \in Lists : A(l) \in Seq(Address) /\ c.count[l] \in Nat
  BY <1>3, ArrivalsTakePlaces, Positions
<1>7. \A l \in Lists : count_next(l) \in Nat
  <2> TAKE l \in Lists
  <2>1. pop(l) => c.count[l] > 0
    BY HeadIsOldest DEF Popped
  <2>2. Len(A(l)) \in Nat /\ c.count[l] \in Nat
    BY <1>6
  <2> HIDE DEF A, pop
  <2> QED BY <2>1, <2>2
<1>8. Address \subseteq Pointer /\ NoAddr \in Pointer /\ LL!NoAddr = NoAddr
      /\ 0 \in Lists
  BY <1>4, Constants DEF Pointer
<1> DEFINE Read == [valid : BOOLEAN, list : Lists, ptr : Pointer]
           request == [valid |-> TRUE, list |-> c.head_select, ptr |-> ptr[LL!head(c)]]
<1>9. LL!NoRead \in Read /\ (p => request \in Read)
  <2>1. LL!NoRead \in Read
    BY <1>8 DEF LL!NoRead
  <2>2. p => LL!head(c) \in Address /\ c.head_select \in Lists
    BY HeadIsOldest
  <2>3. p => ptr[LL!head(c)] \in Pointer
    BY <2>2
  <2> QED BY <2>1, <2>2, <2>3
<1>10. c.reads \in [LL!Stage -> Read]
  BY <1>3 DEF Registers
<1>11. \A r : r = (IF LL!PtrRamRdAddrValid(c, p) THEN request ELSE LL!NoRead) => r \in Read
  BY <1>9, Zenon DEF LL!PtrRamRdAddrValid, LL!HeadBeat
<1>12. reads \in [LL!Stage -> Read]
  <2> SUFFICES ASSUME NEW k \in LL!Stage PROVE reads[k] \in Read
    BY DEF LL!ReadsNext
  <2>1. reads[k] = IF k > 1 THEN c.reads[k - 1]
                   ELSE IF LL!PtrRamRdAddrValid(c, p) THEN request ELSE LL!NoRead
    BY DEF LL!ReadsNext
  <2>2. k > 1 => k - 1 \in LL!Stage
    BY Constants
  <2> HIDE DEF reads, Read, request
  <2> QED BY <1>10, <1>11, <2>1, <2>2
<1>13. rd \in Read
  <2>1. CASE PointerRamReadLatency > 0
    <3>1. rd = c.reads[PointerRamReadLatency] /\ PointerRamReadLatency \in LL!Stage
      BY <2>1, Constants DEF LL!PtrRamRdData
    <3> HIDE DEF rd, Read
    <3> QED BY <1>10, <3>1
  <2>2. CASE ~(PointerRamReadLatency > 0)
    <3>1. rd = IF LL!PtrRamRdAddrValid(c, p) THEN request ELSE LL!NoRead
      BY <2>2 DEF LL!PtrRamRdData
    <3> HIDE DEF rd, Read, request
    <3> QED BY <1>11, <3>1
  <2> QED BY <2>1, <2>2
<1>14. ASSUME NEW l \in Lists
       PROVE  valid_next(l) \in BOOLEAN /\ head_next(l) \in Pointer /\ tail_next(l) \in Pointer
  <2>1. /\ c.head_valid[l] \in BOOLEAN /\ c.head[l] \in Pointer /\ c.tail[l] \in Pointer
        /\ A(l) \in Seq(Address)
    BY <1>3, <1>6 DEF Registers
  <2>2. rd.ptr \in Pointer
    BY <1>13
  <2>3. A(l) # <<>> => A(l)[1] \in Pointer /\ A(l)[Len(A(l))] \in Pointer
    <3> HIDE DEF A
    <3> QED BY <1>8, <2>1
  <2>4. valid_next(l) \in BOOLEAN
    <3> HIDE DEF A, rd, pop
    <3> QED BY <2>1 DEF LL!HeadValidNext, LL!HeadUpdate
  <2>5. head_next(l) \in Pointer
    <3> HIDE DEF A, rd, pop
    <3> QED BY <1>8, <2>1, <2>2, <2>3 DEF LL!HeadNext
  <2>6. tail_next(l) \in Pointer
    <3> HIDE DEF A, rd, pop
    <3> QED BY <1>8, <2>1, <2>3 DEF LL!TailNext, LL!Last
  <2> QED BY <2>4, <2>5, <2>6
<1> HIDE DEF d, A, rd, pop, head_next, valid_next, tail_next, count_next, reads, hs, ts, Read
<1>15. [l \in Lists |-> count_next(l)] \in [Lists -> Nat]
       /\ [l \in Lists |-> head_next(l)] \in [Lists -> Pointer]
       /\ [l \in Lists |-> valid_next(l)] \in [Lists -> BOOLEAN]
       /\ [l \in Lists |-> tail_next(l)] \in [Lists -> Pointer]
  BY <1>7, <1>14
<1>16. d \in Registers
  BY <1>2, <1>5, <1>12, <1>15 DEF Registers, Read
<1>17. \A l \in Lists : d.count[l] = count_next(l) /\ d.head_valid[l] = valid_next(l)
                        /\ d.head[l] = head_next(l) /\ d.tail[l] = tail_next(l)
  BY <1>2
<1>18. d.head_select = hs /\ d.tail_select = ts /\ d.reads = reads
  BY <1>2
<1> QED BY <1>16, <1>17, <1>18
        DEF d, A, rd, pop, head_next, valid_next, tail_next, count_next, reads, hs, ts

\* What d holds of list l: its first address is first, its last is last.
Edge(d, l, first, last) ==
    /\ d.head_valid[l] => d.count[l] > 0 /\ d.head[l] = first
    /\ d.count[l] > 0 /\ ~d.head_valid[l] =>
          \E k \in LL!Stage : d.reads[k].valid /\ d.reads[k].list = l
    /\ \A k \in LL!Stage : d.reads[k].valid /\ d.reads[k].list = l =>
          /\ d.count[l] > 0 /\ ~d.head_valid[l] /\ d.reads[k].ptr = first
          /\ \A j \in LL!Stage : d.reads[j].valid /\ d.reads[j].list = l => j = k
    /\ d.count[l] > 0 => d.tail[l] = last

(* What a cycle leaves of a list.                                            *)
LEMMA ListEdge ==
  ASSUME NEW c, NEW ptr, NEW q \in Seq(Address), NEW s \in Seq(Address), NEW p \in BOOLEAN,
         ptr \in [Address -> Pointer], ListInv(c, ptr, q), p => LL!head_valid(c),
         NEW l \in Lists
  PROVE  LET d == LL!ListsNext(c, p, s, ptr)
             z == q \o s
             first == z[LL!Place(c, l, IF Popped(c, p, l) THEN 1 ELSE 0)]
             last == z[LL!Place(c, l, c.count[l] + Len(LL!Arrivals(c, l, s)) - 1)]
         IN  Edge(d, l, first, last)
<1> DEFINE d == LL!ListsNext(c, p, s, ptr)
           z == q \o s
           A == LL!Arrivals(c, l, s)
           rd == LL!PtrRamRdData(c, p, ptr)
           pop == Popped(c, p, l)
           n == c.count[l]
           v == c.head_valid[l]
           place(k) == LL!Place(c, l, k)
           first == z[place(IF pop THEN 1 ELSE 0)]
<1>1. /\ c \in Registers /\ Turns(c, q) /\ d \in Registers
      /\ d.reads = LL!ReadsNext(c, p, ptr)
      /\ d.count[l] = n + Len(A) - IF pop THEN 1 ELSE 0
      /\ d.head_valid[l] = LL!HeadValidNext(c, l, pop, A, rd)
      /\ d.head[l] = LL!HeadNext(c, l, pop, A, rd)
      /\ d.tail[l] = LL!TailNext(c, l, pop, A)
  BY RegistersNext, InTurnTurns DEF ListInv
<1>2. /\ A \in Seq(Address) /\ Len(A) \in Nat /\ n \in Nat /\ v \in BOOLEAN /\ pop \in BOOLEAN
      /\ d.count[l] \in Nat /\ d.head_valid[l] \in BOOLEAN
  <2>1. A \in Seq(Address) /\ Len(A) \in Nat
    BY <1>1, ArrivalsTakePlaces
  <2> HIDE DEF A
  <2> QED BY <1>1, <2>1 DEF Registers, Popped
<1>3. /\ \A k \in 1 .. Len(q) : z[k] = q[k]
      /\ Len(q) \in Nat /\ N \in Nat \ {0}
  BY Concatenation, Constants
<1>4. \A k \in 0 .. n - 1 : place(k) \in 1 .. Len(q) /\ z[place(k)] = q[place(k)]
  <2> TAKE k \in 0 .. n - 1
  <2>0. k \in Nat /\ n \in Nat /\ k < n
    <3> HIDE DEF n
    <3> QED BY <1>2
  <2>1. place(k) \in Nat /\ place(k) >= 1 /\ place(k) + N <= place(n)
    <3> DEFINE pl(j) == LL!Place(c, l, j)
    <3>1. /\ \A j \in Nat : pl(j) \in Nat /\ pl(j) >= 1
          /\ \A i, j \in Nat : i < j => pl(i) + N <= pl(j)
      BY <1>1, Positions
    <3> HIDE DEF pl, n
    <3>2. pl(k) \in Nat /\ pl(k) >= 1 /\ pl(k) + N <= pl(n)
      BY <2>0, <3>1
    <3> QED BY <3>2 DEF pl
  <2>2. place(n) \in Len(q) + 1 .. Len(q) + N
    BY <1>1 DEF Turns
  <2> HIDE DEF place, z
  <2>3. place(k) \in 1 .. Len(q)
    BY <1>3, <2>1, <2>2
  <2> QED BY <1>3, <2>3
<1>5. \A k \in 1 .. Len(A) : A[k] = z[place(n + k - 1)]
  BY <1>1, ArrivalsTakePlaces
<1>6. pop => v /\ n > 0 /\ p /\ l = c.head_select
  BY HeadIsOldest DEF Popped
<1>7. v => n > 0 /\ c.head[l] = q[place(0)]
  BY FirstsAreFirst
<1>8. rd.valid /\ rd.list = l =>
        /\ PointerRamReadLatency > 0 => ~v /\ ~pop /\ n > 0 /\ rd.ptr = q[place(0)]
                                        /\ rd = c.reads[PointerRamReadLatency]
        /\ PointerRamReadLatency = 0 => pop /\ n > 1 /\ rd.ptr = q[place(1)]
  BY DeliveredPointer
<1>9. PointerRamReadLatency \in Nat /\ LL!Stage = 1 .. PointerRamReadLatency
  BY Constants
<1>10. \A k \in LL!Stage : c.reads[k].valid /\ c.reads[k].list = l =>
          /\ n > 0 /\ ~v /\ c.reads[k].ptr = q[place(0)]
          /\ \A j \in LL!Stage : c.reads[j].valid /\ c.reads[j].list = l => j = k
  BY FirstsAreFirst DEF ListInv, Fetches
<1>11. n > 0 /\ ~v => \E k \in LL!Stage : c.reads[k].valid /\ c.reads[k].list = l
  BY DEF ListInv, Fetches
<1>12. n > 0 => c.tail[l] = q[place(n - 1)]
  BY DEF ListInv, LL!InTurn, Lists
<1>13. \A k \in LL!Stage :
          d.reads[k] = IF k > 1 THEN c.reads[k - 1]
                       ELSE IF p /\ c.count[c.head_select] # 1
                            THEN [valid |-> TRUE, list |-> c.head_select,
                                  ptr |-> ptr[LL!head(c)]]
                            ELSE LL!NoRead
  BY <1>1, Zenon DEF LL!ReadsNext, LL!PtrRamRdAddrValid, LL!HeadBeat
<1>14. pop /\ n > 1 => ptr[LL!head(c)] = q[place(1)]
  <2> SUFFICES ASSUME pop, n > 1 PROVE ptr[LL!head(c)] = q[place(1)]
    OBVIOUS
  <2>0. n > 1
    OBVIOUS
  <2>1. LL!head(c) = q[1]
    BY <1>6, HeadIsOldest
  <2>2. place(0) = 1 /\ place(1) = 1 + N
    <3> DEFINE pl(j) == LL!Place(c, l, j)
    <3>0. l = c.head_select
      BY <1>6
    <3>1. pl(0) = 1 /\ \A j \in Nat : pl(j + 1) = pl(j) + N
      BY <1>1, <3>0, Positions
    <3> HIDE DEF pl
    <3>2. pl(0) = 1 /\ pl(0 + 1) = pl(0) + N /\ 0 + 1 = 1
      BY <3>1
    <3>3. pl(0) = 1 /\ pl(1) = 1 + N
      BY <3>2
    <3> QED BY <3>3 DEF pl
  <2>3. 1 \in 1 .. Len(q) - N
    <3>0. 1 \in 0 .. n - 1
      <4> HIDE DEF n
      <4> QED BY <1>2, <2>0
    <3>1. place(1) \in 1 .. Len(q)
      <4> HIDE DEF place, n, z
      <4> QED BY <1>4, <3>0
    <3> HIDE DEF place
    <3> QED BY <1>3, <2>2, <3>1
  <2> QED BY <2>1, <2>2, <2>3 DEF ListInv, LL!InTurn, N
<1>15. d.head_valid[l] <=> \/ v /\ ~pop
                           \/ A # <<>> /\ (n = 0 \/ (n = 1 /\ v /\ pop))
                           \/ rd.valid /\ rd.list = l
  BY <1>1, <1>2 DEF LL!HeadValidNext, LL!HeadUpdate, LL!HeadBypass
<1>16. d.head_valid[l] =>
         d.head[l] = IF ~(\/ A # <<>> /\ (n = 0 \/ (n = 1 /\ v /\ pop))
                          \/ rd.valid /\ rd.list = l) THEN c.head[l]
                     ELSE IF ~(n = 0 \/ (n = 1 /\ v /\ pop)) THEN rd.ptr
                     ELSE IF A = <<>> THEN LL!NoAddr ELSE A[1]
  BY <1>1, <1>2 DEF LL!HeadNext, LL!HeadUpdate, LL!HeadBypass
<1>17. d.count[l] > 0 => d.tail[l] = IF A # <<>> THEN A[Len(A)] ELSE c.tail[l]
  BY <1>1, <1>2 DEF LL!TailNext, LL!CountNext, LL!Last
<1>18. Len(A) = 0 <=> A = <<>>
  <2> HIDE DEF A
  <2> QED BY <1>2
<1>19. first = IF pop THEN z[place(1)] ELSE z[place(0)]
  BY <1>2
<1>20. d.count[l] = n + Len(A) - IF pop THEN 1 ELSE 0
  BY <1>1
<1> HIDE DEF d, z, A, rd, pop, n, v, place, first
<1>21. A # <<>> => A[1] = z[place(n)] /\ A[Len(A)] = z[place(n + Len(A) - 1)]
  <2> SUFFICES ASSUME A # <<>> PROVE A[1] = z[place(n)] /\ A[Len(A)] = z[place(n + Len(A) - 1)]
    OBVIOUS
  <2>1. 1 \in 1 .. Len(A) /\ Len(A) \in 1 .. Len(A) /\ n + 1 - 1 = n
    BY <1>2, <1>18
  <2> QED BY <1>5, <2>1
<1>22. /\ n > 0 => z[place(0)] = q[place(0)]
       /\ n > 1 => z[place(1)] = q[place(1)]
       /\ n > 0 => z[place(n - 1)] = q[place(n - 1)]
  BY <1>2, <1>4
<1>23. d.head_valid[l] => d.count[l] > 0
  BY <1>2, <1>6, <1>7, <1>8, <1>9, <1>15, <1>18, <1>20
<1>24. d.head_valid[l] => d.head[l] = first
  <2> SUFFICES ASSUME d.head_valid[l] PROVE d.head[l] = first
    OBVIOUS
  <2>1. CASE v /\ ~pop
    <3>1. ~(rd.valid /\ rd.list = l)
      BY <1>8, <1>9, <2>1
    <3>2. d.head[l] = c.head[l] /\ n > 0
      BY <1>7, <1>16, <2>1, <3>1
    <3> QED BY <1>7, <1>19, <1>22, <2>1, <3>2
  <2>2. CASE A # <<>> /\ (n = 0 \/ (n = 1 /\ v /\ pop))
    <3>1. d.head[l] = z[place(n)]
      BY <1>16, <1>21, <2>2
    <3>2. n = IF pop THEN 1 ELSE 0
      BY <1>2, <1>6, <2>2
    <3> QED BY <1>19, <3>1, <3>2
  <2>3. CASE rd.valid /\ rd.list = l
    <3>1. ~(n = 0 \/ (n = 1 /\ v /\ pop))
      BY <1>2, <1>8, <1>9, <2>3
    <3>2. d.head[l] = rd.ptr
      BY <1>16, <2>3, <3>1
    <3>3. rd.ptr = first
      BY <1>2, <1>8, <1>9, <1>19, <1>22, <2>3
    <3> QED BY <3>2, <3>3
  <2> QED BY <1>15, <2>1, <2>2, <2>3
<1>25. ASSUME NEW k \in LL!Stage, d.reads[k].valid, d.reads[k].list = l
       PROVE  \/ /\ k > 1 /\ k - 1 \in LL!Stage /\ d.reads[k] = c.reads[k - 1]
                 /\ c.reads[k - 1].valid /\ c.reads[k - 1].list = l /\ ~v /\ ~pop /\ n > 0
              \/ k = 1 /\ pop /\ n > 1 /\ d.reads[k].ptr = q[place(1)]
  <2>1. CASE k > 1
    <3>1. k - 1 \in LL!Stage
      BY <1>9, <2>1
    <3>2. d.reads[k] = c.reads[k - 1]
      BY <1>13, <2>1
    <3> QED BY <1>6, <1>10, <1>25, <2>1, <3>1, <3>2
  <2>2. CASE ~(k > 1)
    <3>1. k = 1
      BY <1>9, <2>2
    <3>2. d.reads[k] = IF p /\ c.count[c.head_select] # 1
                       THEN [valid |-> TRUE, list |-> c.head_select, ptr |-> ptr[LL!head(c)]]
                       ELSE LL!NoRead
      BY <1>13, <2>2
    <3>3. LL!NoRead.valid = FALSE
      BY DEF LL!NoRead
    <3>4. p /\ c.count[c.head_select] # 1
          /\ d.reads[k] = [valid |-> TRUE, list |-> c.head_select, ptr |-> ptr[LL!head(c)]]
      BY <1>25, <3>2, <3>3
    <3>5. l = c.head_select /\ d.reads[k].ptr = ptr[LL!head(c)]
      BY <1>25, <3>4
    <3>6. pop /\ n > 1
      <4>1. pop
        BY <3>4, <3>5 DEF pop, Popped
      <4>2. n # 1
        BY <3>4, <3>5 DEF n
      <4> QED BY <1>2, <1>6, <4>1, <4>2
    <3> QED BY <1>14, <3>1, <3>5, <3>6
  <2> QED BY <2>1, <2>2
<1>26. ASSUME NEW k \in LL!Stage, d.reads[k].valid, d.reads[k].list = l
       PROVE  /\ d.count[l] > 0 /\ ~d.head_valid[l] /\ d.reads[k].ptr = first
              /\ \A j \in LL!Stage : d.reads[j].valid /\ d.reads[j].list = l => j = k
  <2>1. CASE /\ k > 1 /\ k - 1 \in LL!Stage /\ d.reads[k] = c.reads[k - 1]
             /\ c.reads[k - 1].valid /\ c.reads[k - 1].list = l /\ ~v /\ ~pop /\ n > 0
    <3>1. d.count[l] > 0
      BY <1>2, <1>20, <2>1
    <3>2. d.reads[k].ptr = first
      BY <1>10, <1>19, <1>22, <2>1
    <3>3. ~(rd.valid /\ rd.list = l)
      <4> SUFFICES ASSUME rd.valid, rd.list = l PROVE FALSE
        OBVIOUS
      <4>1. PointerRamReadLatency > 0 /\ PointerRamReadLatency \in LL!Stage
        BY <1>9
      <4>2. rd = c.reads[PointerRamReadLatency]
        BY <1>8, <4>1
      <4>3. PointerRamReadLatency = k - 1
        BY <1>10, <2>1, <4>1, <4>2
      <4> QED BY <1>9, <4>3
    <3>4. ~d.head_valid[l]
      BY <1>15, <2>1, <3>3
    <3>5. ASSUME NEW j \in LL!Stage, d.reads[j].valid, d.reads[j].list = l PROVE j = k
      <4>1. j > 1 /\ j - 1 \in LL!Stage /\ c.reads[j - 1].valid /\ c.reads[j - 1].list = l
        BY <1>25, <2>1, <3>5
      <4>2. j - 1 = k - 1
        BY <1>10, <2>1, <4>1
      <4> QED BY <1>9, <4>2
    <3> QED BY <3>1, <3>2, <3>4, <3>5
  <2>2. CASE k = 1 /\ pop /\ n > 1 /\ d.reads[k].ptr = q[place(1)]
    <3>1. d.count[l] > 0
      BY <1>2, <1>20, <2>2
    <3>2. d.reads[k].ptr = first
      BY <1>19, <1>22, <2>2
    <3>3. ~d.head_valid[l]
      BY <1>2, <1>6, <1>8, <1>9, <1>15, <2>2
    <3>4. ASSUME NEW j \in LL!Stage, d.reads[j].valid, d.reads[j].list = l PROVE j = k
      BY <1>25, <2>2, <3>4
    <3> QED BY <3>1, <3>2, <3>3, <3>4
  <2> QED BY <1>25, <1>26, <2>1, <2>2
<1>27. d.count[l] > 0 /\ ~d.head_valid[l] =>
         \E k \in LL!Stage : d.reads[k].valid /\ d.reads[k].list = l
  <2> SUFFICES ASSUME d.count[l] > 0, ~d.head_valid[l]
               PROVE  \E k \in LL!Stage : d.reads[k].valid /\ d.reads[k].list = l
    OBVIOUS
  <2>1. ~(v /\ ~pop) /\ ~(A # <<>> /\ (n = 0 \/ (n = 1 /\ v /\ pop)))
        /\ ~(rd.valid /\ rd.list = l)
    BY <1>15
  <2>2. CASE pop
    <3>1. n > 1
      BY <1>2, <1>6, <1>18, <1>20, <2>1, <2>2
    <3>2. PointerRamReadLatency > 0
      <4> SUFFICES ASSUME PointerRamReadLatency = 0 PROVE FALSE
        BY <1>9
      <4>1. p /\ l = c.head_select /\ c.count[c.head_select] # 1 /\ LL!head_valid(c)
        BY <1>6, <2>2, <3>1 DEF n
      <4>2. LL!PtrRamRdAddrValid(c, p)
        BY <4>1 DEF LL!PtrRamRdAddrValid, LL!HeadBeat
      <4>3. rd = [valid |-> TRUE, list |-> c.head_select, ptr |-> ptr[LL!head(c)]]
        BY <4>2 DEF rd, LL!PtrRamRdData
      <4> QED BY <2>1, <4>1, <4>3
    <3>3. 1 \in LL!Stage
      BY <1>9, <3>2
    <3>4. p /\ c.count[c.head_select] # 1 /\ l = c.head_select
      BY <1>6, <2>2, <3>1 DEF n
    <3>5. d.reads[1] = [valid |-> TRUE, list |-> c.head_select, ptr |-> ptr[LL!head(c)]]
      <4>1. d.reads[1] = IF 1 > 1 THEN c.reads[1 - 1]
                         ELSE IF p /\ c.count[c.head_select] # 1
                              THEN [valid |-> TRUE, list |-> c.head_select,
                                    ptr |-> ptr[LL!head(c)]]
                              ELSE LL!NoRead
        BY <1>13, <3>3
      <4> QED BY <3>4, <4>1
    <3>6. d.reads[1].valid /\ d.reads[1].list = l
      BY <3>4, <3>5
    <3> QED BY <3>3, <3>6
  <2>3. CASE ~pop
    <3>1. ~v /\ n > 0
      BY <1>2, <1>18, <1>20, <2>1, <2>3
    <3>2. PICK k \in LL!Stage : c.reads[k].valid /\ c.reads[k].list = l
      BY <1>11, <3>1
    <3>3. k # PointerRamReadLatency
      <4> SUFFICES ASSUME k = PointerRamReadLatency PROVE FALSE
        OBVIOUS
      <4>1. rd = c.reads[k]
        BY <1>9 DEF rd, LL!PtrRamRdData
      <4> QED BY <2>1, <3>2, <4>1
    <3>4. k + 1 \in LL!Stage /\ k + 1 > 1 /\ (k + 1) - 1 = k
      BY <1>9, <3>3
    <3>5. d.reads[k + 1] = c.reads[k]
      BY <1>13, <3>4
    <3> QED BY <3>2, <3>4, <3>5
  <2> QED BY <1>2, <2>2, <2>3
<1>28. d.count[l] > 0 => d.tail[l] = z[place(n + Len(A) - 1)]
  <2> SUFFICES ASSUME d.count[l] > 0 PROVE d.tail[l] = z[place(n + Len(A) - 1)]
    OBVIOUS
  <2>1. CASE A # <<>>
    BY <1>17, <1>21, <2>1
  <2>2. CASE A = <<>>
    <3>1. n > 0 /\ n + Len(A) - 1 = n - 1
      BY <1>2, <1>6, <1>18, <1>20, <2>2
    <3>2. d.tail[l] = c.tail[l]
      BY <1>17, <2>2
    <3> QED BY <1>12, <1>22, <3>1, <3>2
  <2> QED BY <2>1, <2>2
<1> DEFINE last == z[place(n + Len(A) - 1)]
<1>29. Edge(d, l, first, last)
  BY <1>23, <1>24, <1>26, <1>27, <1>28 DEF Edge
<1> QED BY <1>29 DEF d, z, A, pop, n, place, first

LEMMA ModSum ==
  ASSUME NEW W \in Nat \ {0}, NEW x \in Int, NEW y \in Int
  PROVE  ((x % W) + y) % W = (x + y) % W
<1> DEFINE r == x % W
           u == x \div W
           t == (x + y) % W
           v == (x + y) \div W
<1>1. r \in 0 .. W - 1 /\ u \in Int /\ x = (W * u) + r
  BY ModParts
<1>2. t \in 0 .. W - 1 /\ v \in Int /\ x + y = (W * v) + t
  <2> DEFINE z == x + y
  <2>1. z \in Int
    OBVIOUS
  <2> HIDE DEF z
  <2>2. z % W \in 0 .. W - 1 /\ z \div W \in Int /\ z = (W * (z \div W)) + (z % W)
    BY <2>1, ModParts
  <2> QED BY <2>2 DEF z
<1> HIDE DEF r, u, t, v
<1> DEFINE k == v - u
<1>3. k \in Int /\ W * k = (W * v) - (W * u)
  BY <1>1, <1>2
<1> DEFINE kk == W * k
           vv == W * v
           uu == W * u
<1>4. kk \in Int /\ vv \in Int /\ uu \in Int /\ kk = vv - uu /\ x = uu + r /\ x + y = vv + t
  BY <1>1, <1>2, <1>3
<1> HIDE DEF k, kk, vv, uu
<1>5. r + y = kk + t /\ r + y \in Int
  BY <1>1, <1>2, <1>4
<1>6. (r + y) % W = t
  <2> DEFINE z == r + y
  <2>1. z \in Int /\ z = (W * k) + t
    BY <1>5 DEF kk
  <2> HIDE DEF z
  <2>2. z % W = t
    BY <1>2, <1>3, <2>1, ModIs
  <2> QED BY <2>2 DEF z
<1> QED BY <1>6 DEF r, t

(* The queue after the cycle is the rest of the queue with all that arrived. *)
LEMMA QueueNext ==
  ASSUME NEW S, NEW q \in Seq(S), NEW s \in Seq(S), NEW p \in BOOLEAN, p => Len(q) >= 1
  PROVE  LET z == q \o s
             t == (IF p THEN Tail(q) ELSE q) \o s
             off == IF p THEN 1 ELSE 0
         IN  /\ z \in Seq(S) /\ t \in Seq(S) /\ Len(z) = Len(q) + Len(s) /\ Len(t) = Len(z) - off
             /\ \A i \in 1 .. Len(t) : t[i] = z[i + off]
<1>1. CASE p
  <2>1. Tail(q) \in Seq(S) /\ Len(Tail(q)) = Len(q) - 1
        /\ \A i \in 1 .. Len(q) - 1 : Tail(q)[i] = q[i + 1]
    BY <1>1
  <2> DEFINE r == Tail(q)
             z == q \o s
             t == r \o s
  <2>2. r \in Seq(S) /\ Len(r) = Len(q) - 1 /\ \A i \in 1 .. Len(q) - 1 : r[i] = q[i + 1]
    BY <2>1
  <2> HIDE DEF r
  <2>3. /\ t \in Seq(S) /\ Len(t) = Len(r) + Len(s)
        /\ \A i \in 1 .. Len(r) : t[i] = r[i]
        /\ \A i \in Len(r) + 1 .. Len(r) + Len(s) : t[i] = s[i - Len(r)]
    BY <2>2, Concatenation
  <2>4. /\ z \in Seq(S) /\ Len(z) = Len(q) + Len(s)
        /\ \A i \in 1 .. Len(q) : z[i] = q[i]
        /\ \A i \in Len(q) + 1 .. Len(q) + Len(s) : z[i] = s[i - Len(q)]
    BY Concatenation
  <2> HIDE DEF t, z
  <2>5. Len(q) \in Nat /\ Len(s) \in Nat /\ Len(q) >= 1
    BY <1>1
  <2>6. \A i \in 1 .. Len(t) : t[i] = z[i + 1]
    <3> TAKE i \in 1 .. Len(t)
    <3>1. CASE i <= Len(r)
      <4>1. i \in 1 .. Len(r) /\ i \in 1 .. Len(q) - 1 /\ i + 1 \in 1 .. Len(q)
        BY <2>2, <2>3, <2>5, <3>1
      <4> QED BY <2>2, <2>3, <2>4, <4>1
    <3>2. CASE ~(i <= Len(r))
      <4>1. i \in Len(r) + 1 .. Len(r) + Len(s) /\ i + 1 \in Len(q) + 1 .. Len(q) + Len(s)
            /\ i - Len(r) = (i + 1) - Len(q)
        BY <2>2, <2>3, <2>5, <3>2
      <4> QED BY <2>3, <2>4, <4>1
    <3> QED BY <3>1, <3>2
  <2>7. Len(t) = Len(z) - 1
    BY <2>2, <2>3, <2>4, <2>5
  <2> QED BY <1>1, <2>3, <2>4, <2>6, <2>7 DEF t, z, r
<1>2. CASE ~p
  BY <1>2
<1> QED BY <1>1, <1>2

LEMMA ListStep ==
  ASSUME NEW c, NEW ptr, NEW ptr2, NEW q \in Seq(Address), NEW s \in Seq(Address),
         NEW p \in BOOLEAN, ptr \in [Address -> Pointer], ListInv(c, ptr, q),
         p => LL!head_valid(c),
         \A i \in 1 .. Len(q \o s) - N :
            (p => i > 1) => ptr2[(q \o s)[i]] = (q \o s)[i + N]
  PROVE  ListInv(LL!ListsNext(c, p, s, ptr), ptr2, (IF p THEN Tail(q) ELSE q) \o s)
<1> DEFINE d == LL!ListsNext(c, p, s, ptr)
           z == q \o s
           t == (IF p THEN Tail(q) ELSE q) \o s
           off == IF p THEN 1 ELSE 0
           h == c.head_select
           pop(l) == IF Popped(c, p, l) THEN 1 ELSE 0
           n(l) == c.count[l]
           len(l) == Len(LL!Arrivals(c, l, s))
           pc(l, k) == LL!Place(c, l, k)
           pd(l, k) == LL!Place(d, l, k)
<1>1. /\ c \in Registers /\ Turns(c, q) /\ d \in Registers
      /\ d.head_select = (h + off) % N /\ d.tail_select = (c.tail_select + Len(s)) % N
      /\ \A l \in Lists : d.count[l] = n(l) + len(l) - pop(l)
  BY RegistersNext, InTurnTurns DEF ListInv
<1>2. p => Len(q) >= 1
  BY HeadIsOldest
<1>3. /\ z \in Seq(Address) /\ t \in Seq(Address) /\ Len(z) = Len(q) + Len(s)
      /\ Len(t) = Len(z) - off /\ \A i \in 1 .. Len(t) : t[i] = z[i + off]
  BY <1>2, QueueNext
<1>4. Len(q) \in Nat /\ Len(s) \in Nat /\ Len(t) \in Nat /\ N \in Nat \ {0} /\ off \in 0 .. 1
      /\ h \in 0 .. N - 1 /\ h \in Lists /\ (p <=> off = 1)
  <2>1. Len(t) \in Nat /\ Len(q) \in Nat /\ Len(s) \in Nat
    BY <1>3
  <2>2. h \in 0 .. N - 1 /\ h \in Lists /\ N \in Nat \ {0}
    BY <1>1, Positions, Constants
  <2>3. off \in 0 .. 1 /\ (p <=> off = 1)
    OBVIOUS
  <2> HIDE DEF t, off, h
  <2> QED BY <2>1, <2>2, <2>3
<1>5. \A l \in Lists : Edge(d, l, z[pc(l, pop(l))], z[pc(l, n(l) + len(l) - 1)])
  BY ListEdge
<1> DEFINE dc(l) == d.count[l]
<1>17. \A l \in Lists : dc(l) = n(l) + len(l) - pop(l)
  BY <1>1
<1>6. \A l \in Lists : n(l) \in Nat /\ len(l) \in Nat
         /\ pc(l, n(l) + len(l)) \in Len(z) + 1 .. Len(z) + N
  <2> TAKE l \in Lists
  <2>1. LL!Arrivals(c, l, s) \in Seq(Address)
    BY <1>1, ArrivalsTakePlaces
  <2>2. len(l) \in Nat
    <3> DEFINE A == LL!Arrivals(c, l, s)
    <3> HIDE DEF A
    <3> QED BY <2>1 DEF A
  <2>3. pc(l, n(l) + len(l)) \in Len(q) + Len(s) + 1 .. Len(q) + Len(s) + N
    BY <1>1, ArrivalsTakePlaces
  <2>4. n(l) \in Nat
    BY <1>1 DEF Registers
  <2> QED BY <1>3, <2>2, <2>3, <2>4
<1>7. \A l \in Lists : pop(l) \in 0 .. 1 /\ (pop(l) = 1 <=> p /\ l = h)
  BY DEF Popped
<1>8. \A l \in Lists, k \in Nat : pd(l, k) = pc(l, k + pop(l)) - off /\ pc(l, k + pop(l)) \in Nat
  <2> TAKE l \in Lists, k \in Nat
  <2>1. pd(l, k) = IF ~p THEN pc(l, k) ELSE IF l = h THEN pc(l, k + 1) - 1 ELSE pc(l, k) - 1
    BY <1>1, PlacesMove
  <2>2. \A j \in Nat : pc(l, j) \in Nat
    BY <1>1, Positions
  <2> HIDE DEF pd, pc, h, d
  <2>4. k + 1 \in Nat /\ k + 0 = k
    OBVIOUS
  <2>3. k + 1 \in Nat /\ k + 0 = k /\ pc(l, k) \in Nat /\ pc(l, k + 1) \in Nat
    BY <2>2, <2>4, Zenon
  <2> QED BY <2>1, <2>3 DEF Popped, h
<1>9. \A l \in Lists : dc(l) \in Nat /\ pd(l, 0) \in Nat /\ pd(l, 0) >= 1
         /\ \A j, k \in Nat : j < k => pd(l, j) + N <= pd(l, k)
  <2> TAKE l \in Lists
  <2>1. pd(l, 0) \in 1 .. N /\ dc(l) \in Nat
    <3> HIDE DEF d
    <3> QED BY <1>1, Positions
  <2>2. \A j, k \in Nat : j < k => pd(l, j) + N <= pd(l, k)
    <3> HIDE DEF d
    <3> QED BY <1>1, Positions
  <2> HIDE DEF d, pd
  <2> QED BY <1>4, <2>1, <2>2
<1>10. d.tail_select = (d.head_select + Len(t)) % N
  <2>1. c.tail_select = (h + Len(q)) % N
    BY <1>1 DEF Turns
  <2>2. d.tail_select = (((h + Len(q)) % N) + Len(s)) % N
    BY <1>1, <2>1
  <2>3. d.tail_select = (h + Len(q) + Len(s)) % N
    <3> DEFINE x == h + Len(q)
               y == Len(s)
    <3>1. x \in Int /\ y \in Int
      BY <1>4
    <3>2. ((x % N) + y) % N = (x + y) % N
      <4> HIDE DEF x, y
      <4> QED BY <1>4, <3>1, ModSum
    <3> QED BY <2>2, <3>2
  <2>4. d.head_select + Len(t) = ((h + off) % N) + Len(t)
    BY <1>1
  <2>5. (((h + off) % N) + Len(t)) % N = (h + off + Len(t)) % N
    <3> DEFINE x == h + off
               y == Len(t)
    <3>1. x \in Int /\ y \in Int
      <4> HIDE DEF h, off, t
      <4> QED BY <1>4
    <3>2. ((x % N) + y) % N = (x + y) % N
      <4> HIDE DEF x, y
      <4> QED BY <1>4, <3>1, ModSum
    <3> QED BY <3>2
  <2>6. h + off + Len(t) = h + Len(q) + Len(s)
    <3> HIDE DEF t, z, off, h
    <3> QED BY <1>3, <1>4
  <2> QED BY <2>3, <2>4, <2>5, <2>6
<1> HIDE DEF dc, d, z, t, off, h, pop, n, len, pc, pd
<1>11. \A i \in 1 .. Len(t) - N : ptr2[t[i]] = t[i + N]
  <2> TAKE i \in 1 .. Len(t) - N
  <2>1. i \in 1 .. Len(t) /\ i + N \in 1 .. Len(t)
    BY <1>4
  <2>2. t[i] = z[i + off] /\ t[i + N] = z[i + N + off]
    BY <1>3, <2>1
  <2>3. i + off \in 1 .. Len(z) - N /\ (p => i + off > 1) /\ (i + off) + N = i + N + off
    BY <1>3, <1>4
  <2>4. ptr2[z[i + off]] = z[(i + off) + N]
    BY <2>3 DEF z
  <2> QED BY <2>2, <2>3, <2>4
<1>12. \A l \in Lists : pd(l, dc(l)) \in Len(t) + 1 .. Len(t) + N
  <2> TAKE l \in Lists
  <2>1. dc(l) + pop(l) = n(l) + len(l) /\ dc(l) \in Nat
    BY <1>6, <1>7, <1>9, <1>17
  <2>2. pd(l, dc(l)) = pc(l, n(l) + len(l)) - off
    BY <1>8, <2>1
  <2>3. pc(l, n(l) + len(l)) \in Len(z) + 1 .. Len(z) + N
    BY <1>6
  <2>4. Len(z) = Len(t) + off
    BY <1>3, <1>4
  <2> QED BY <1>4, <2>2, <2>3, <2>4
<1>13. ASSUME NEW l \in Lists, dc(l) > 0
       PROVE  /\ z[pc(l, pop(l))] = t[pd(l, 0)]
              /\ z[pc(l, n(l) + len(l) - 1)] = t[pd(l, dc(l) - 1)]
  <2>1. dc(l) \in Nat /\ dc(l) - 1 \in Nat /\ dc(l) + pop(l) = n(l) + len(l)
    BY <1>6, <1>7, <1>9, <1>17, <1>13
  <2>2. pd(l, 0) \in 1 .. Len(t)
    <3>1. pd(l, 0) + N <= pd(l, dc(l)) /\ pd(l, 0) \in Nat /\ pd(l, 0) >= 1
      BY <1>9, <1>13, <2>1
    <3>2. pd(l, dc(l)) \in Len(t) + 1 .. Len(t) + N
      BY <1>12
    <3> QED BY <1>4, <3>1, <3>2
  <2>3. pd(l, dc(l) - 1) \in 1 .. Len(t)
    <3>1. pd(l, dc(l) - 1) + N <= pd(l, dc(l))
      BY <1>9, <2>1
    <3>2. pd(l, dc(l) - 1) \in Int /\ pd(l, dc(l) - 1) >= 1
      <4>1. dc(l) - 1 = 0 \/ 0 < dc(l) - 1
        BY <2>1
      <4>2. pd(l, dc(l) - 1) \in Int
        <5>1. pd(l, dc(l) - 1) = pc(l, (dc(l) - 1) + pop(l)) - off
              /\ pc(l, (dc(l) - 1) + pop(l)) \in Nat
          BY <1>8, <2>1
        <5> QED BY <1>4, <5>1
      <4>3. 0 < dc(l) - 1 => pd(l, 0) + N <= pd(l, dc(l) - 1)
        BY <1>9, <2>1
      <4> QED BY <1>4, <1>9, <4>1, <4>2, <4>3
    <3>3. pd(l, dc(l)) \in Len(t) + 1 .. Len(t) + N
      BY <1>12
    <3> QED BY <1>4, <3>1, <3>2, <3>3
  <2>4. pd(l, 0) + off = pc(l, pop(l))
    <3>1. pd(l, 0) = pc(l, 0 + pop(l)) - off /\ pc(l, 0 + pop(l)) \in Nat /\ 0 + pop(l) = pop(l)
      BY <1>7, <1>8
    <3> QED BY <1>4, <3>1
  <2>5. pd(l, dc(l) - 1) + off = pc(l, n(l) + len(l) - 1)
    <3>1. (dc(l) - 1) + pop(l) = n(l) + len(l) - 1
      <4>1. n(l) \in Nat /\ len(l) \in Nat /\ pop(l) \in 0 .. 1
        BY <1>6, <1>7
      <4> QED BY <2>1, <4>1
    <3>2. pd(l, dc(l) - 1) = pc(l, n(l) + len(l) - 1) - off /\ pc(l, n(l) + len(l) - 1) \in Nat
      BY <1>8, <2>1, <3>1
    <3> QED BY <1>4, <3>2
  <2> QED BY <1>3, <2>2, <2>3, <2>4, <2>5
<1>14. ASSUME NEW l \in Lists, d.count[l] > 0
       PROVE  LL!FirstOf(d, l) = t[pd(l, 0)] /\ d.tail[l] = t[pd(l, d.count[l] - 1)]
  <2> DEFINE first == z[pc(l, pop(l))]
             last == z[pc(l, n(l) + len(l) - 1)]
  <2>1. first = t[pd(l, 0)] /\ last = t[pd(l, dc(l) - 1)]
    BY <1>13, <1>14 DEF dc
  <2>2. Edge(d, l, first, last)
    BY <1>5
  <2> HIDE DEF first, last
  <2>3. /\ d.head_valid[l] => d.head[l] = first
        /\ ~d.head_valid[l] => \E k \in LL!Stage : d.reads[k].valid /\ d.reads[k].list = l
        /\ \A k \in LL!Stage : d.reads[k].valid /\ d.reads[k].list = l => d.reads[k].ptr = first
        /\ d.tail[l] = last
    BY <1>14, <2>2, Zenon DEF Edge
  <2>4. LL!FirstOf(d, l) = first
    <3>1. d.head_valid[l] => d.head[l] = first
      BY <2>3
    <3>2. ~d.head_valid[l] => \E k \in LL!Stage : d.reads[k].valid /\ d.reads[k].list = l
      BY <2>3
    <3>3. \A k \in LL!Stage : d.reads[k].valid /\ d.reads[k].list = l => d.reads[k].ptr = first
      BY <2>3
    <3> DEFINE fetched == {k \in LL!Stage : d.reads[k].valid /\ d.reads[k].list = l}
    <3>4. CASE d.head_valid[l]
      BY <3>1, <3>4 DEF LL!FirstOf
    <3>5. CASE ~d.head_valid[l]
      <4>1. fetched # {}
        BY <3>2, <3>5
      <4>2. (CHOOSE k \in fetched : TRUE) \in fetched
        BY <4>1
      <4> QED BY <3>3, <3>5, <4>1, <4>2 DEF LL!FirstOf
    <3> QED BY <3>4, <3>5
  <2> QED BY <2>1, <2>3, <2>4 DEF dc
<1>15. LL!InTurn(d, ptr2, t)
  BY <1>10, <1>11, <1>12, <1>14 DEF LL!InTurn, N, Lists, pd, dc
<1>16. Fetches(d)
  <2>1. \A k \in LL!Stage : d.reads[k].list \in Lists
    BY <1>1 DEF Registers
  <2>2. ASSUME NEW l \in Lists
        PROVE  /\ d.head_valid[l] => d.count[l] > 0
               /\ d.count[l] > 0 /\ ~d.head_valid[l] =>
                     \E k \in LL!Stage : d.reads[k].valid /\ d.reads[k].list = l
               /\ \A k \in LL!Stage : d.reads[k].valid /\ d.reads[k].list = l =>
                     /\ d.count[l] > 0 /\ ~d.head_valid[l]
                     /\ \A j \in LL!Stage : d.reads[j].valid /\ d.reads[j].list = l => j = k
    <3> DEFINE first == z[pc(l, pop(l))]
               last == z[pc(l, n(l) + len(l) - 1)]
    <3>1. Edge(d, l, first, last)
      BY <1>5
    <3> HIDE DEF first, last
    <3> QED BY <3>1, Zenon DEF Edge
  <2>3. ASSUME NEW k \in LL!Stage, d.reads[k].valid
        PROVE  /\ d.count[d.reads[k].list] > 0 /\ ~d.head_valid[d.reads[k].list]
               /\ \A j \in LL!Stage :
                     d.reads[j].valid /\ d.reads[j].list = d.reads[k].list => j = k
    <3>1. d.reads[k].list \in Lists
      BY <2>1
    <3> QED BY <2>2, <2>3, <3>1, Zenon
  <2> QED BY <2>2, <2>3, Zenon DEF Fetches
<1> QED BY <1>1, <1>15, <1>16 DEF ListInv, d, t

-----------------------------------------------------------------------------
(* A finite set in the order of a key: the number of elements before one is  *)
(* its place, and every place is taken once.                                 *)

Rank(S, key, x) == Cardinality({y \in S : key[y] < key[x]})

Keyed(S, key) ==
    IsFiniteSet(S) /\ (\A x \in S : key[x] \in Int) /\ \A x, y \in S : key[x] = key[y] => x = y

Ranked(S, key) ==
    /\ Cardinality(S) \in Nat
    /\ \A x \in S : Rank(S, key, x) \in 0 .. Cardinality(S) - 1
    /\ \A x, y \in S : key[x] < key[y] => Rank(S, key, x) < Rank(S, key, y)
    /\ \A x, y \in S : Rank(S, key, x) = Rank(S, key, y) => x = y
    /\ \A k \in 0 .. Cardinality(S) - 1 : \E x \in S : Rank(S, key, x) = k

LEMMA Ranks ==
  ASSUME NEW S, NEW key, Keyed(S, key)
  PROVE  Ranked(S, key)
<1> USE DEF Keyed
<1> DEFINE before(x) == {y \in S : key[y] < key[x]}
           rank(x) == Cardinality(before(x))
           place == 0 .. Cardinality(S) - 1
           f == [x \in S |-> rank(x)]
<1>1. Cardinality(S) \in Nat
  BY FS_CardinalityType
<1>2. \A x \in S : IsFiniteSet(before(x)) /\ rank(x) \in place
  <2> TAKE x \in S
  <2>1. before(x) \in SUBSET S /\ x \notin before(x)
    OBVIOUS
  <2>2. IsFiniteSet(before(x)) /\ rank(x) <= Cardinality(S) /\ rank(x) # Cardinality(S)
    <3> HIDE DEF before
    <3> QED BY <2>1, FS_Subset
  <2>3. rank(x) \in Nat
    BY <2>2, FS_CardinalityType
  <2> HIDE DEF rank
  <2> QED BY <1>1, <2>2, <2>3
<1>9. \A x \in S : rank(x) \in Int
  <2> TAKE x \in S
  <2> DEFINE r == rank(x)
  <2>1. r \in place
    BY <1>2
  <2> HIDE DEF r
  <2>2. r \in Int
    BY <1>1, <2>1
  <2> QED BY <2>2 DEF r
<1>3. \A x, y \in S : key[x] < key[y] => rank(x) < rank(y)
  <2> TAKE x \in S, y \in S
  <2> HAVE key[x] < key[y]
  <2>1. before(x) \in SUBSET before(y) /\ x \in before(y) /\ x \notin before(x)
    OBVIOUS
  <2>2. rank(x) <= rank(y) /\ rank(x) # rank(y)
    <3> HIDE DEF before
    <3> QED BY <1>2, <2>1, FS_Subset
  <2>3. rank(x) \in Int /\ rank(y) \in Int
    BY <1>9
  <2> HIDE DEF rank
  <2> QED BY <2>2, <2>3
<1>4. \A x, y \in S : rank(x) = rank(y) => x = y
  <2> TAKE x \in S, y \in S
  <2> HAVE rank(x) = rank(y)
  <2>1. rank(x) \in Int /\ rank(y) \in Int
    BY <1>9
  <2> HIDE DEF rank
  <2>2. ~(key[x] < key[y]) /\ ~(key[y] < key[x])
    BY <1>3, <2>1
  <2> QED BY <2>2
<1>5. f \in Injection(S, place)
  <2>1. f \in [S -> place]
    BY <1>2
  <2>2. \A x, y \in S : f[x] = f[y] => x = y
    BY <1>4
  <2> HIDE DEF f, place
  <2> QED BY <2>1, <2>2 DEF Injection, IsInjective
<1>6. IsFiniteSet(place) /\ Cardinality(place) = Cardinality(S)
  <2>1. 0 \in Int /\ Cardinality(S) - 1 \in Int
    BY <1>1
  <2>2. IsFiniteSet(place)
        /\ Cardinality(place) = IF 0 > Cardinality(S) - 1 THEN 0 ELSE (Cardinality(S) - 1) - 0 + 1
    BY <2>1, FS_Interval
  <2> HIDE DEF place
  <2> QED BY <1>1, <2>2
<1>7. f \in Surjection(S, place)
  <2> HIDE DEF f, place
  <2> QED BY <1>5, <1>6, FS_Injection
<1>8. \A k \in place : \E x \in S : rank(x) = k
  <2> SUFFICES ASSUME NEW k \in place PROVE \E x \in S : f[x] = k
    OBVIOUS
  <2> HIDE DEF f, place
  <2> QED BY <1>7 DEF Surjection
<1> QED BY <1>1, <1>2, <1>3, <1>4, <1>8 DEF Rank, Ranked

(* A finite set of numbers as a sequence, in ascending order, cut to length. *)
Ascent(S, m) == [i \in 1 .. m |-> CHOOSE x \in S : Cardinality({y \in S : y < x}) = i - 1]

LEMMA Ascending ==
  ASSUME NEW S \in SUBSET Int, IsFiniteSet(S), NEW m \in 0 .. Cardinality(S),
         NEW s, s = Ascent(S, m)
  PROVE  /\ Cardinality(S) \in Nat /\ s \in Seq(S) /\ Len(s) = m
         /\ \A i, j \in 1 .. m : s[i] = s[j] => i = j
         /\ m = Cardinality(S) => \A x \in S : \E i \in 1 .. m : s[i] = x
<1> DEFINE key == [x \in S |-> x]
           rank(x) == Cardinality({y \in S : y < x})
<1>1. \A x \in S : rank(x) = Rank(S, key, x)
  <2> TAKE x \in S
  <2>1. {y \in S : y < x} = {y \in S : key[y] < key[x]}
    OBVIOUS
  <2> QED BY <2>1 DEF Rank
<1>2. /\ Cardinality(S) \in Nat
      /\ \A x \in S : rank(x) \in 0 .. Cardinality(S) - 1
      /\ \A x, y \in S : rank(x) = rank(y) => x = y
      /\ \A k \in 0 .. Cardinality(S) - 1 : \E x \in S : rank(x) = k
  <2> DEFINE rk(x) == Rank(S, key, x)
  <2>1. /\ \A x \in S : key[x] \in Int
        /\ \A x, y \in S : key[x] = key[y] => x = y
    OBVIOUS
  <2>2. /\ Cardinality(S) \in Nat
        /\ \A x \in S : rk(x) \in 0 .. Cardinality(S) - 1
        /\ \A x, y \in S : rk(x) = rk(y) => x = y
        /\ \A k \in 0 .. Cardinality(S) - 1 : \E x \in S : rk(x) = k
    <3>1. Keyed(S, key)
      BY <2>1 DEF Keyed
    <3> HIDE DEF key
    <3>2. Ranked(S, key)
      BY <3>1, Ranks
    <3> QED BY <3>2 DEF Ranked
  <2>3. \A x \in S : rank(x) = rk(x)
    BY <1>1
  <2> HIDE DEF rank, rk
  <2> QED BY <2>2, <2>3
<1>3. m \in Nat /\ m <= Cardinality(S)
  BY <1>2
<1>4. s = [i \in 1 .. m |-> CHOOSE x \in S : rank(x) = i - 1]
  BY DEF Ascent
<1> HIDE DEF rank
<1>5. \A i \in 1 .. m : s[i] \in S /\ rank(s[i]) = i - 1
  <2> TAKE i \in 1 .. m
  <2>1. i - 1 \in 0 .. Cardinality(S) - 1
    BY <1>2, <1>3
  <2>2. \E x \in S : rank(x) = i - 1
    BY <1>2, <2>1
  <2>3. s[i] = CHOOSE x \in S : rank(x) = i - 1
    BY <1>4
  <2> QED BY <2>2, <2>3
<1>6. s \in Seq(S) /\ Len(s) = m
  <2>1. s \in [1 .. m -> S]
    BY <1>4, <1>5
  <2> HIDE DEF rank
  <2>2. m \in Nat
    BY <1>3
  <2> QED
    <3>1. \A n \in Nat : \A r \in [1 .. n -> S] : r \in Seq(S) /\ Len(r) = n
      OBVIOUS
    <3> QED BY <2>1, <2>2, <3>1
<1>7. \A i, j \in 1 .. m : s[i] = s[j] => i = j
  <2> TAKE i \in 1 .. m, j \in 1 .. m
  <2> HAVE s[i] = s[j]
  <2>1. i - 1 = j - 1
    BY <1>5
  <2> QED BY <1>3, <2>1
<1>8. ASSUME m = Cardinality(S), NEW x \in S PROVE \E i \in 1 .. m : s[i] = x
  <2>1. rank(x) + 1 \in 1 .. m /\ (rank(x) + 1) - 1 = rank(x)
    BY <1>2, <1>8
  <2>2. s[rank(x) + 1] = x
    BY <1>2, <1>5, <2>1
  <2> QED BY <2>1, <2>2
<1> QED BY <1>2, <1>6, <1>7, <1>8

-----------------------------------------------------------------------------
(* Sequences without a repetition.                                           *)

LEMMA Elements ==
  ASSUME NEW S, NEW a \in Seq(S)
  PROVE  /\ DOMAIN a = 1 .. Len(a) /\ Len(a) \in Nat /\ ToSet(a) \in SUBSET S
         /\ \A x : x \in ToSet(a) <=> \E i \in 1 .. Len(a) : a[i] = x
         /\ IsInjective(a) <=> \A i, j \in 1 .. Len(a) : a[i] = a[j] => i = j
<1>1. DOMAIN a = 1 .. Len(a) /\ Len(a) \in Nat /\ \A i \in 1 .. Len(a) : a[i] \in S
  OBVIOUS
<1> QED BY <1>1 DEF ToSet, IsInjective

LEMMA Join ==
  ASSUME NEW S, NEW a \in Seq(S), NEW b \in Seq(S), IsInjective(a), IsInjective(b),
         ToSet(a) \cap ToSet(b) = {}
  PROVE  IsInjective(a \o b) /\ ToSet(a \o b) = ToSet(a) \cup ToSet(b)
<1> DEFINE c == a \o b
           m == Len(a)
           n == Len(b)
<1>1. /\ c \in Seq(S) /\ Len(c) = m + n /\ m \in Nat /\ n \in Nat
      /\ \A i \in 1 .. m : c[i] = a[i]
      /\ \A i \in m + 1 .. m + n : c[i] = b[i - m]
  <2>1. m \in Nat /\ n \in Nat
    OBVIOUS
  <2> QED BY <2>1, Concatenation
<1>2. /\ \A x : x \in ToSet(a) <=> \E i \in 1 .. m : a[i] = x
      /\ \A x : x \in ToSet(b) <=> \E i \in 1 .. n : b[i] = x
      /\ \A i, j \in 1 .. m : a[i] = a[j] => i = j
      /\ \A i, j \in 1 .. n : b[i] = b[j] => i = j
  BY Elements
<1> HIDE DEF c, m, n
<1>3. /\ \A x : x \in ToSet(c) <=> \E i \in 1 .. m + n : c[i] = x
      /\ IsInjective(c) <=> \A i, j \in 1 .. m + n : c[i] = c[j] => i = j
  <2>1. /\ \A x : x \in ToSet(c) <=> \E i \in 1 .. Len(c) : c[i] = x
        /\ IsInjective(c) <=> \A i, j \in 1 .. Len(c) : c[i] = c[j] => i = j
    BY <1>1, Elements
  <2> QED BY <1>1, <2>1
<1>4. ASSUME NEW i \in 1 .. m + n
      PROVE  \/ i \in 1 .. m /\ c[i] = a[i] /\ c[i] \in ToSet(a)
             \/ i - m \in 1 .. n /\ c[i] = b[i - m] /\ c[i] \in ToSet(b)
  <2>1. CASE i <= m
    <3>1. i \in 1 .. m
      BY <1>1, <2>1
    <3> QED BY <1>1, <1>2, <3>1
  <2>2. CASE ~(i <= m)
    <3>1. i \in m + 1 .. m + n /\ i - m \in 1 .. n
      BY <1>1, <2>2
    <3> QED BY <1>1, <1>2, <3>1
  <2> QED BY <2>1, <2>2
<1>5. ASSUME NEW i \in 1 .. m + n, NEW j \in 1 .. m + n, c[i] = c[j] PROVE i = j
  <2>1. ~(c[i] \in ToSet(a) /\ c[j] \in ToSet(b)) /\ ~(c[i] \in ToSet(b) /\ c[j] \in ToSet(a))
    BY <1>5
  <2>2. CASE i \in 1 .. m /\ j \in 1 .. m /\ c[i] = a[i] /\ c[j] = a[j]
    BY <1>2, <1>5, <2>2
  <2>3. CASE i - m \in 1 .. n /\ j - m \in 1 .. n /\ c[i] = b[i - m] /\ c[j] = b[j - m]
    <3>1. i - m = j - m
      BY <1>2, <1>5, <2>3
    <3> QED BY <1>1, <3>1
  <2> QED BY <1>4, <2>1, <2>2, <2>3
<1>6. ToSet(c) = ToSet(a) \cup ToSet(b)
  <2>1. ASSUME NEW x \in ToSet(a) PROVE x \in ToSet(c)
    <3>1. PICK i \in 1 .. m : a[i] = x
      BY <1>2
    <3>2. i \in 1 .. m + n
      BY <1>1
    <3> QED BY <1>1, <1>3, <3>1, <3>2
  <2>2. ASSUME NEW x \in ToSet(b) PROVE x \in ToSet(c)
    <3>1. PICK i \in 1 .. n : b[i] = x
      BY <1>2
    <3>2. i + m \in m + 1 .. m + n /\ i + m \in 1 .. m + n /\ (i + m) - m = i
      BY <1>1
    <3>3. c[i + m] = x
      BY <1>1, <3>1, <3>2
    <3> QED BY <1>3, <3>2, <3>3
  <2>3. ASSUME NEW x \in ToSet(c) PROVE x \in ToSet(a) \cup ToSet(b)
    BY <1>3, <1>4
  <2> QED BY <2>1, <2>2, <2>3
<1> QED BY <1>3, <1>5, <1>6 DEF c

LEMMA Part ==
  ASSUME NEW S, NEW a \in Seq(S), NEW k \in 0 .. Len(a), NEW m \in k .. Len(a)
  PROVE  LET b == SubSeq(a, k + 1, m)
         IN  /\ b \in Seq(S) /\ Len(b) = m - k
             /\ \A x : x \in ToSet(b) <=> \E i \in k + 1 .. m : a[i] = x
             /\ IsInjective(a) => IsInjective(b)
<1> DEFINE b == SubSeq(a, k + 1, m)
<1>1. /\ b \in Seq(S) /\ Len(b) = m - k /\ m - k \in Nat /\ Len(a) \in Nat
      /\ \A i \in 1 .. m - k : b[i] = a[k + i]
  OBVIOUS
<1> HIDE DEF b
<1>2. /\ \A x : x \in ToSet(b) <=> \E i \in 1 .. m - k : b[i] = x
      /\ IsInjective(b) <=> \A i, j \in 1 .. m - k : b[i] = b[j] => i = j
      /\ IsInjective(a) <=> \A i, j \in 1 .. Len(a) : a[i] = a[j] => i = j
  <2>1. /\ \A x : x \in ToSet(b) <=> \E i \in 1 .. Len(b) : b[i] = x
        /\ IsInjective(b) <=> \A i, j \in 1 .. Len(b) : b[i] = b[j] => i = j
    BY <1>1, Elements
  <2>2. IsInjective(a) <=> \A i, j \in 1 .. Len(a) : a[i] = a[j] => i = j
    BY Elements
  <2> QED BY <1>1, <2>1, <2>2
<1>3. ASSUME NEW x \in ToSet(b) PROVE \E i \in k + 1 .. m : a[i] = x
  <2>1. PICK i \in 1 .. m - k : b[i] = x
    BY <1>2
  <2>2. k + i \in k + 1 .. m
    OBVIOUS
  <2> QED BY <1>1, <2>1, <2>2
<1>4. ASSUME NEW i \in k + 1 .. m PROVE a[i] \in ToSet(b)
  <2>1. i - k \in 1 .. m - k /\ k + (i - k) = i
    OBVIOUS
  <2> QED BY <1>1, <1>2, <2>1
<1>5. ASSUME IsInjective(a), NEW i \in 1 .. m - k, NEW j \in 1 .. m - k, b[i] = b[j] PROVE i = j
  <2>1. k + i \in 1 .. Len(a) /\ k + j \in 1 .. Len(a)
    BY <1>1
  <2>2. k + i = k + j
    BY <1>1, <1>2, <1>5, <2>1
  <2> QED BY <2>2
<1> QED BY <1>1, <1>2, <1>3, <1>4, <1>5 DEF b

-----------------------------------------------------------------------------
(* The free list.                                                            *)

FreelistOK ==
    /\ freelist \in [unstaged : SUBSET Address, staged : Seq(Address)]
    /\ Len(freelist.staged) <= NumWritePorts
    /\ IsInjective(freelist.staged)
    /\ freelist.unstaged \cap ToSet(freelist.staged) = {}

LEMMA SameOperators ==
  /\ \A S : FL!Cardinality(S) = Cardinality(S) /\ RR!Cardinality(S) = Cardinality(S)
  /\ \A s : FL!ToSet(s) = ToSet(s)
BY Zenon DEF FL!Cardinality, RR!Cardinality, Cardinality, FL!ToSet, ToSet

LEMMA AddressIsFinite == Address \in SUBSET Int /\ IsFiniteSet(Address)
<1>1. 0 \in Int /\ Depth - 1 \in Int
  BY Constants
<1>2. IsFiniteSet(Address)
  BY <1>1, FS_Interval DEF Address
<1> QED BY <1>2, Constants DEF Address

(* What the vector offers to the output register are some of its entries.    *)
LEMMA Offered ==
  ASSUME FreelistOK
  PROVE  /\ FL!push_entry_id \in Seq(freelist.unstaged)
         /\ IsInjective(FL!push_entry_id)
<1> DEFINE U == freelist.unstaged
           m == FL!Least(Cardinality(U), NumWritePorts)
           s == FL!push_entry_id
<1>1. U \in SUBSET Int /\ IsFiniteSet(U)
  BY AddressIsFinite, FS_Subset DEF FreelistOK
<1>2. Cardinality(U) \in Nat
  BY <1>1, FS_CardinalityType
<1>3. m \in 0 .. Cardinality(U)
  BY <1>2, Constants DEF FL!Least
<1>4. s = Ascent(U, m)
  BY Zenon DEF FL!push_entry_id, Ascent, FL!Cardinality, Cardinality
<1> HIDE DEF s, U, m
<1>5. s \in Seq(U) /\ Len(s) = m /\ \A i, j \in 1 .. m : s[i] = s[j] => i = j
  BY <1>1, <1>3, <1>4, Ascending
<1>7. IsInjective(s)
  <2>1. \A i, j \in 1 .. Len(s) : s[i] = s[j] => i = j
    BY <1>5
  <2> QED BY <1>5, <2>1, Elements
<1> QED BY <1>5, <1>7 DEF s, U

LEMMA FreelistStep ==
  ASSUME FreelistOK, NEW accepted \in 0 .. Len(freelist.staged), NEW back \in SUBSET Address,
         back \cap (freelist.unstaged \cup ToSet(freelist.staged)) = {}
  PROVE  LET d == FL!FreelistNext(accepted, back)
         IN  /\ d \in [unstaged : SUBSET Address, staged : Seq(Address)]
             /\ Len(d.staged) <= NumWritePorts
             /\ IsInjective(d.staged)
             /\ d.unstaged \cap ToSet(d.staged) = {}
             /\ \A x : x \in d.unstaged \cup ToSet(d.staged) <=>
                   \/ x \in freelist.unstaged \cup back
                   \/ \E i \in accepted + 1 .. Len(freelist.staged) : freelist.staged[i] = x
<1> DEFINE U == freelist.unstaged
           S == freelist.staged
           m == Len(S)
           offer == FL!push_entry_id
           room == NumWritePorts - (m - accepted)
           t == FL!Least(Len(offer), room)
           T == SubSeq(offer, 1, t)
           K == SubSeq(S, accepted + 1, m)
           d == FL!FreelistNext(accepted, back)
<1>1. /\ U \in SUBSET Address /\ S \in Seq(Address) /\ m \in Nat /\ m <= NumWritePorts
      /\ NumWritePorts \in Nat /\ IsInjective(S) /\ U \cap ToSet(S) = {}
      /\ accepted \in Nat /\ accepted <= m
  <2>1. U \in SUBSET Address /\ S \in Seq(Address)
    BY DEF FreelistOK
  <2>2. m \in Nat /\ m <= NumWritePorts /\ NumWritePorts \in Nat
    BY <2>1, Constants DEF FreelistOK
  <2> QED BY <2>1, <2>2 DEF FreelistOK
<1>2. FL!AllocCount(accepted) = accepted /\ FL!alloc_sendable = m
  BY <1>1 DEF FL!AllocCount, FL!Least, FL!alloc_sendable
<1>3. d = [unstaged |-> (U \cup back) \ ToSet(T), staged |-> K \o T]
  <2>1. FL!PushReceivable(accepted) = room
    BY <1>2 DEF FL!PushReceivable
  <2>2. FL!Taken(accepted) = T
    BY <2>1, Zenon DEF FL!Taken
  <2> QED BY <1>2, <2>2, SameOperators, Zenon DEF FL!FreelistNext, FL!UnstagedNext
<1>4. offer \in Seq(U) /\ IsInjective(offer)
  BY Offered
<1>5. Len(offer) \in Nat /\ room \in Nat /\ t \in 0 .. Len(offer) /\ t <= room
  <2>1. Len(offer) \in Nat
    BY <1>4
  <2> HIDE DEF offer, m
  <2> QED BY <1>1, <2>1 DEF FL!Least
<1> HIDE DEF d, U, S, m, offer, t
<1>6. /\ K \in Seq(Address) /\ Len(K) = m - accepted /\ IsInjective(K)
      /\ \A x : x \in ToSet(K) <=> \E i \in accepted + 1 .. m : S[i] = x
  <2>1. accepted \in 0 .. m /\ m \in accepted .. m
    BY <1>1
  <2> QED BY <1>1, <2>1, Part DEF m
<1>7. T \in Seq(U) /\ Len(T) = t /\ IsInjective(T)
  <2>1. 0 \in 0 .. Len(offer) /\ t \in 0 .. Len(offer) /\ 0 + 1 = 1 /\ t - 0 = t
    BY <1>5
  <2>2. LET b == SubSeq(offer, 0 + 1, t) 
        IN  b \in Seq(U) /\ Len(b) = t - 0 /\ (IsInjective(offer) => IsInjective(b))
    BY <1>4, <2>1, Part
  <2> QED BY <1>4, <2>1, <2>2
<1> HIDE DEF K, T
<1>8. ToSet(T) \in SUBSET U /\ T \in Seq(Address) /\ Len(T) <= NumWritePorts - (m - accepted)
  <2>1. ToSet(T) \in SUBSET U
    BY <1>7, Elements
  <2>2. T \in Seq(Address)
    BY <1>1, <1>7
  <2> QED BY <1>5, <1>7, <2>1, <2>2
<1>9. ToSet(K) \in SUBSET ToSet(S)
  <2> SUFFICES ASSUME NEW x \in ToSet(K) PROVE x \in ToSet(S)
    OBVIOUS
  <2>1. PICK i \in accepted + 1 .. m : S[i] = x
    BY <1>6
  <2>2. i \in 1 .. m
    BY <1>1
  <2> QED BY <1>1, <2>1, <2>2, Elements DEF m
<1>10. IsInjective(K \o T) /\ ToSet(K \o T) = ToSet(K) \cup ToSet(T)
  <2>1. ToSet(K) \cap ToSet(T) = {}
    BY <1>1, <1>8, <1>9
  <2> QED BY <1>6, <1>7, <1>8, <2>1, Join
<1>11. K \o T \in Seq(Address) /\ Len(K \o T) <= NumWritePorts
  <2>1. K \o T \in Seq(Address) /\ Len(K \o T) = Len(K) + Len(T)
    BY <1>6, <1>8, Concatenation
  <2>2. Len(T) \in Nat
    BY <1>8
  <2> QED BY <1>1, <1>6, <1>8, <2>1, <2>2
<1>12. d.unstaged = (U \cup back) \ ToSet(T) /\ d.staged = K \o T
       /\ d \in [unstaged : SUBSET Address, staged : Seq(Address)]
  <2>1. (U \cup back) \ ToSet(T) \in SUBSET Address
    BY <1>1
  <2> QED BY <1>3, <1>11, <2>1
<1>13. back \cap ToSet(S) = {}
  BY DEF S
<1>14. d.unstaged \cap ToSet(d.staged) = {}
  BY <1>1, <1>9, <1>10, <1>12, <1>13
<1>15. \A x : x \in d.unstaged \cup ToSet(d.staged) <=>
          x \in U \cup back \/ \E i \in accepted + 1 .. m : S[i] = x
  BY <1>6, <1>8, <1>10, <1>12
<1> QED BY <1>10, <1>11, <1>12, <1>14, <1>15 DEF d, U, S, m

-----------------------------------------------------------------------------
(* The push side: the distributor gives each port whose push is accepted an  *)
(* entry of its own, in the order of its turns.                              *)

LEMMA Request ==
  ASSUME NEW push \in PushInputs
  PROVE  DOMAIN push \in SUBSET WritePort /\ \A p \in DOMAIN push : push[p].fifo \in Fifo
<1>1. PICK ports \in SUBSET WritePort : push \in [ports -> [fifo : Fifo, data : Data]]
  BY DEF PushInputs
<1> QED BY <1>1

Slot(R, p) == Cardinality(RR!Ahead(p, R)) + 1

LEMMA Slots ==
  ASSUME lowest_prio \in RR!Requester, NEW R \in SUBSET WritePort
  PROVE  /\ IsFiniteSet(R) /\ Cardinality(R) \in 0 .. NumWritePorts
         /\ \A p \in R : Slot(R, p) \in 1 .. Cardinality(R)
         /\ \A p, r \in R : Slot(R, p) = Slot(R, r) => p = r
         /\ \A p, r \in R : RR!Turn(p) < RR!Turn(r) => Slot(R, p) < Slot(R, r)
         /\ \A k \in 1 .. Cardinality(R) : \E p \in R : Slot(R, p) = k
         /\ \A p, r \in R : RR!Turn(p) \in Int
<1> DEFINE key == [p \in R |-> RR!Turn(p)]
           rank(p) == Rank(R, key, p)
           n == Cardinality(R)
<1>1. IsFiniteSet(R) /\ Cardinality(R) \in 0 .. NumWritePorts
  <2>1. 0 \in Int /\ NumWritePorts - 1 \in Int /\ NumWritePorts \in Nat \ {0}
    BY Constants
  <2>2. IsFiniteSet(WritePort) /\ Cardinality(WritePort) = NumWritePorts
    BY <2>1, FS_Interval DEF WritePort
  <2>3. IsFiniteSet(R) /\ Cardinality(R) <= NumWritePorts
    BY <2>2, FS_Subset
  <2> QED BY <2>1, <2>3, FS_CardinalityType
<1>2. \A p \in R : RR!Turn(p) \in Int
  BY Constants DEF RR!Turn, RR!Requester, WritePort
<1>3. \A p, r \in R : RR!Turn(p) = RR!Turn(r) => p = r
  BY Constants DEF RR!Turn, RR!Requester, WritePort
<1>4. Keyed(R, key)
  BY <1>1, <1>2, <1>3 DEF Keyed
<1>5. Ranked(R, key)
  <2> HIDE DEF key
  <2> QED BY <1>4, Ranks
<1>6. \A p \in R : key[p] = RR!Turn(p)
  OBVIOUS
<1>7. \A p \in R : Slot(R, p) = rank(p) + 1
  <2> TAKE p \in R
  <2>1. RR!Ahead(p, R) = {r \in R : key[r] < key[p]}
    BY <1>6 DEF RR!Ahead
  <2> QED BY <2>1 DEF Slot, Rank
<1>8. /\ n \in Nat
      /\ \A x \in R : rank(x) \in 0 .. n - 1
      /\ \A x, y \in R : key[x] < key[y] => rank(x) < rank(y)
      /\ \A x, y \in R : rank(x) = rank(y) => x = y
      /\ \A k \in 0 .. n - 1 : \E x \in R : rank(x) = k
  BY <1>5 DEF Ranked
<1> HIDE DEF rank, key, n
<1>9. \A p \in R : rank(p) \in Int
  BY <1>8
<1>10. \A p \in R : Slot(R, p) \in 1 .. n
  <2> TAKE p \in R
  <2>1. rank(p) \in 0 .. n - 1 /\ Slot(R, p) = rank(p) + 1
    BY <1>7, <1>8
  <2> QED BY <1>8, <2>1
<1>11. \A p, r \in R : Slot(R, p) = Slot(R, r) => p = r
  <2> TAKE p \in R, r \in R
  <2>1. Slot(R, p) = rank(p) + 1 /\ Slot(R, r) = rank(r) + 1 /\ rank(p) \in Int /\ rank(r) \in Int
    BY <1>7, <1>9
  <2>2. rank(p) = rank(r) => p = r
    BY <1>8
  <2> QED BY <2>1, <2>2
<1>12. \A p, r \in R : RR!Turn(p) < RR!Turn(r) => Slot(R, p) < Slot(R, r)
  <2> TAKE p \in R, r \in R
  <2>1. Slot(R, p) = rank(p) + 1 /\ Slot(R, r) = rank(r) + 1 /\ rank(p) \in Int /\ rank(r) \in Int
    BY <1>7, <1>9
  <2>2. RR!Turn(p) < RR!Turn(r) => rank(p) < rank(r)
    BY <1>6, <1>8
  <2> QED BY <2>1, <2>2
<1>13. \A k \in 1 .. n : \E p \in R : Slot(R, p) = k
  <2> TAKE k \in 1 .. n
  <2>1. k - 1 \in 0 .. n - 1 /\ k \in Int
    BY <1>8
  <2>2. PICK p \in R : rank(p) = k - 1
    BY <1>8, <2>1
  <2> QED BY <1>7, <2>1, <2>2
<1> QED BY <1>1, <1>2, <1>10, <1>11, <1>12, <1>13 DEF n

(* The ports that are granted are the first of them, as many as entries are  *)
(* on offer.                                                                 *)
LEMMA Grants ==
  ASSUME FreelistOK, lowest_prio \in RR!Requester, NEW push \in PushInputs
  PROVE  LET R == DOMAIN push
             G == Granted(push)
             n == Cardinality(G)
         IN  /\ G \in SUBSET R /\ IsFiniteSet(G) /\ n \in 0 .. Len(freelist.staged)
             /\ G = RR!Grant(R, FL!alloc_sendable)
             /\ \A p \in G : Slot(R, p) \in 1 .. n
             /\ \A k \in 1 .. n : \E p \in G : Slot(R, p) = k
<1> DEFINE R == DOMAIN push
           G == Granted(push)
           m == Len(freelist.staged)
           slot(p) == Slot(R, p)
<1>1. R \in SUBSET WritePort
  BY Request
<1>2. m \in Nat /\ FL!alloc_sendable = m
  BY DEF FreelistOK, FL!alloc_sendable
<1>3. /\ IsFiniteSet(R) /\ Cardinality(R) \in Nat
      /\ \A p \in R : slot(p) \in 1 .. Cardinality(R)
      /\ \A p, r \in R : slot(p) = slot(r) => p = r
      /\ \A k \in 1 .. Cardinality(R) : \E p \in R : slot(p) = k
  <2>1. Cardinality(R) \in 0 .. NumWritePorts
    BY <1>1, Slots
  <2>2. Cardinality(R) \in Nat
    BY <2>1
  <2> HIDE DEF R
  <2> QED BY <1>1, <2>2, Slots
<1>4. RR!Grant(R, m) = {p \in R : slot(p) <= m}
  <2>1. \A p \in R : (RR!Cardinality(RR!Ahead(p, R)) < m <=> slot(p) <= m)
    <3> TAKE p \in R
    <3> DEFINE ahead == Cardinality(RR!Ahead(p, R))
    <3>1. slot(p) = ahead + 1 /\ slot(p) \in Nat
      BY <1>3 DEF Slot
    <3>2. ahead \in Int
      <4>1. IsFiniteSet(RR!Ahead(p, R))
        BY <1>3, FS_Subset DEF RR!Ahead
      <4> QED BY <4>1, FS_CardinalityType
    <3>3. RR!Cardinality(RR!Ahead(p, R)) = ahead
      BY SameOperators
    <3> HIDE DEF ahead, slot
    <3> QED BY <1>2, <3>1, <3>2, <3>3
  <2> HIDE DEF slot, R, m
  <2> QED BY <2>1 DEF RR!Grant
<1>5. G = {p \in R : slot(p) <= m}
  <2>1. CASE NumWritePorts > 1
    BY <1>2, <1>4, <2>1 DEF Granted
  <2>2. CASE ~(NumWritePorts > 1)
    <3>1. NumWritePorts = 1 /\ WritePort = 0 .. 0
      BY <2>2, Constants DEF WritePort
    <3>2. G = IF m = 0 THEN {} ELSE R
      BY <1>2, <2>2 DEF Granted, push_full
    <3>3. \A p \in R : slot(p) = 1
      <4> TAKE p \in R
      <4>1. Cardinality(R) \in 0 .. 1
        BY <1>1, <3>1, Slots
      <4>2. slot(p) \in 1 .. Cardinality(R)
        BY <1>3
      <4> HIDE DEF slot, R
      <4> QED BY <4>1, <4>2
    <3> HIDE DEF slot, R, m, G
    <3> QED BY <1>2, <3>2, <3>3
  <2> QED BY <2>1, <2>2
<1> HIDE DEF R, G, slot, m
<1>6. IsFiniteSet(G) /\ G \in SUBSET R
  BY <1>3, <1>5, FS_Subset
<1>7. CASE Cardinality(R) <= m
  <2>1. G = R
    <3>1. \A p \in R : slot(p) <= m
      <4> TAKE p \in R
      <4>1. slot(p) \in 1 .. Cardinality(R)
        BY <1>3
      <4> QED BY <1>2, <1>3, <1>7, <4>1
    <3> QED BY <1>5, <3>1
  <2>2. Cardinality(G) \in 0 .. m
    BY <1>2, <1>3, <1>7, <2>1
  <2> QED BY <1>2, <1>3, <1>4, <1>5, <1>6, <2>1, <2>2 DEF R, G, slot, m
<1>8. CASE ~(Cardinality(R) <= m)
  <2> DEFINE place == 1 .. m
             f == [p \in G |-> slot(p)]
  <2>1. \A p \in G : p \in R /\ slot(p) \in place
    <3> TAKE p \in G
    <3>1. p \in R /\ slot(p) \in 1 .. Cardinality(R) /\ slot(p) <= m
      BY <1>3, <1>5
    <3> QED BY <1>2, <3>1
  <2>2. \A k \in place : \E p \in G : slot(p) = k
    <3> TAKE k \in place
    <3>1. k \in 1 .. Cardinality(R) /\ k <= m
      BY <1>2, <1>3, <1>8
    <3>2. PICK p \in R : slot(p) = k
      BY <1>3, <3>1
    <3> QED BY <1>5, <3>1, <3>2
  <2>3. f \in [G -> place] /\ \A p, r \in G : f[p] = f[r] => p = r
    BY <1>3, <2>1
  <2>4. f \in Injection(G, place)
    <3> HIDE DEF f, place
    <3> QED BY <2>3 DEF Injection, IsInjective
  <2>5. f \in Surjection(G, place)
    <3>1. \A k \in place : \E p \in G : f[p] = k
      BY <2>2
    <3> HIDE DEF f, place
    <3> QED BY <2>3, <3>1 DEF Surjection
  <2>6. IsFiniteSet(place) /\ Cardinality(place) = m
    <3>1. 1 \in Int /\ m \in Int
      BY <1>2
    <3>2. IsFiniteSet(place) /\ Cardinality(place) = IF 1 > m THEN 0 ELSE m - 1 + 1
      BY <3>1, FS_Interval
    <3> HIDE DEF place
    <3> QED BY <1>2, <3>2
  <2>7. Cardinality(G) = m
    <3> HIDE DEF f, place
    <3> QED BY <2>4, <2>5, <2>6, FS_Injection
  <2>8. m \in 0 .. m
    BY <1>2
  <2> QED BY <1>2, <1>4, <1>5, <1>6, <2>1, <2>2, <2>7, <2>8 DEF R, G, slot, m
<1> QED BY <1>7, <1>8

(* The port that was granted last gets the lowest priority.                  *)
LEMMA PriorityStep ==
  ASSUME FreelistOK, lowest_prio \in RR!Requester, NEW push \in PushInputs
  PROVE  PushSide(push).lowest_prio \in RR!Requester
<1> DEFINE R == DOMAIN push
           m == FL!alloc_sendable
           G == RR!Grant(R, m)
           n == Cardinality(G)
           slot(p) == Slot(R, p)
           turn(p) == RR!Turn(p)
<1>1. PushSide(push).lowest_prio = IF NumWritePorts = 1 THEN lowest_prio
                                   ELSE RR!LowestPrioNext(R, m)
  BY DEF PushSide
<1>2. /\ G \in SUBSET R /\ R \in SUBSET WritePort /\ WritePort = RR!Requester
      /\ IsFiniteSet(G) /\ n \in Nat
      /\ \A p \in G : slot(p) \in 1 .. n
      /\ \A k \in 1 .. n : \E p \in G : slot(p) = k
  <2>1. /\ G = Granted(push) /\ Granted(push) \in SUBSET R /\ IsFiniteSet(Granted(push))
        /\ \A p \in Granted(push) : slot(p) \in 1 .. Cardinality(Granted(push))
        /\ \A k \in 1 .. Cardinality(Granted(push)) : \E p \in Granted(push) : slot(p) = k
    BY Grants
  <2>2. n \in Nat
    BY <2>1, FS_CardinalityType
  <2>3. WritePort = RR!Requester
    BY DEF WritePort, RR!Requester
  <2> HIDE DEF G, slot, R, m
  <2> QED BY <2>1, <2>2, <2>3, Request DEF R
<1>3. /\ \A p, r \in R : turn(p) < turn(r) => slot(p) < slot(r)
      /\ \A p \in R : turn(p) \in Int
  BY <1>2, Slots
<1>4. RR!LowestPrioNext(R, m) = IF G = {} THEN lowest_prio
                                ELSE CHOOSE r \in G : \A o \in G : turn(o) <= turn(r)
  BY DEF RR!LowestPrioNext
<1> HIDE DEF R, m, G, slot, turn
<1>5. CASE G # {}
  <2>1. n # 0
    BY <1>2, <1>5, FS_EmptySet DEF n
  <2>2. n \in 1 .. n
    <3>1. n \in Nat
      BY <1>2
    <3> HIDE DEF n
    <3> QED BY <2>1, <3>1
  <2>3. PICK r \in G : slot(r) = n
    BY <1>2, <2>2
  <2>4. \A o \in G : turn(o) <= turn(r)
    <3> TAKE o \in G
    <3>1. slot(o) \in 1 .. n
      BY <1>2
    <3>2. o \in R /\ r \in R /\ turn(o) \in Int /\ turn(r) \in Int
      BY <1>2, <1>3
    <3>3. turn(r) < turn(o) => slot(r) < slot(o)
      BY <1>3, <3>2
    <3> HIDE DEF n
    <3> QED BY <1>2, <2>3, <3>1, <3>2, <3>3
  <2>5. (CHOOSE x \in G : \A o \in G : turn(o) <= turn(x)) \in G
    BY <2>3, <2>4
  <2>6. RR!LowestPrioNext(R, m) \in RR!Requester
    BY <1>2, <1>4, <1>5, <2>5
  <2> QED BY <1>1, <2>6
<1>6. CASE G = {}
  BY <1>1, <1>4, <1>6
<1> QED BY <1>5, <1>6

(* What is appended: each FIFO gets entries of its own of those accepted,    *)
(* and every one that was accepted goes to a FIFO.                           *)
NextTail(push, f) == PushSide(push).appends[f].next_tail

LEMMA Appends ==
  ASSUME FreelistOK, lowest_prio \in RR!Requester, NEW push \in PushInputs
  PROVE  LET S == freelist.staged
             n == PushSide(push).accepted
         IN  /\ n \in 0 .. Len(S)
             /\ \A f \in Fifo : /\ NextTail(push, f) \in Seq(Address)
                                /\ IsInjective(NextTail(push, f))
             /\ \A f \in Fifo : \A x \in ToSet(NextTail(push, f)) : \E j \in 1 .. n : S[j] = x
             /\ \A f, g \in Fifo : f # g => ToSet(NextTail(push, f)) \cap ToSet(NextTail(push, g)) = {}
             /\ \A j \in 1 .. n : \E f \in Fifo : S[j] \in ToSet(NextTail(push, f))
<1> DEFINE S == freelist.staged
           R == DOMAIN push
           G == Granted(push)
           n == Cardinality(G)
           slot(p) == Slot(R, p)
           ports(f) == {p \in G : push[p].fifo = f}
           line(f) == PushPorts(push, f)
           A(f) == NextTail(push, f)
<1>1. /\ S \in Seq(Address) /\ Len(S) \in Nat
      /\ \A i, j \in 1 .. Len(S) : S[i] = S[j] => i = j
  <2>1. S \in Seq(Address) /\ IsInjective(S)
    BY DEF FreelistOK
  <2> HIDE DEF S
  <2>2. Len(S) \in Nat
    BY <2>1
  <2> QED BY <2>1, <2>2, Elements
<1>2. /\ G \in SUBSET R /\ IsFiniteSet(G) /\ n \in 0 .. Len(S)
      /\ \A p \in G : slot(p) \in 1 .. n
      /\ \A k \in 1 .. n : \E p \in G : slot(p) = k
  BY Grants
<1>3. R \in SUBSET WritePort /\ \A p \in G : push[p].fifo \in Fifo
  BY <1>2, Request
<1>4. \A p, r \in R : slot(p) = slot(r) => p = r
  BY <1>3, Slots
<1>5. PushSide(push).accepted = n
  BY DEF PushSide
<1>6. \A f \in Fifo : A(f) = [i \in DOMAIN line(f) |-> WrAddr(push)[line(f)[i]]]
  BY DEF PushSide, NextTail
<1>7. \A p \in G : WrAddr(push)[p] = S[slot(p)]
  BY DEF WrAddr, Slot
<1>8. \A f : /\ line(f) \in Seq(ports(f)) /\ Len(line(f)) \in Nat
             /\ DOMAIN line(f) = 1 .. Len(line(f))
             /\ \A i, j \in 1 .. Len(line(f)) : line(f)[i] = line(f)[j] => i = j
             /\ \A p \in ports(f) : \E i \in 1 .. Len(line(f)) : line(f)[i] = p
  <2> TAKE f
  <2> DEFINE P == ports(f)
             m == Cardinality(P)
             s == line(f)
  <2>1. P \in SUBSET Int /\ IsFiniteSet(P)
    <3>1. P \in SUBSET G
      OBVIOUS
    <3>2. WritePort \in SUBSET Int
      BY Constants DEF WritePort
    <3> HIDE DEF P
    <3> QED BY <1>2, <1>3, <3>1, <3>2, FS_Subset
  <2>2. m \in Nat /\ m \in 0 .. m
    <3>1. m \in Nat
      <4> HIDE DEF P
      <4> QED BY <2>1, FS_CardinalityType
    <3> HIDE DEF m
    <3> QED BY <3>1
  <2>3. s = Ascent(P, m)
    BY Zenon DEF PushPorts, Ascent
  <2> HIDE DEF s, P
  <2>4. s \in Seq(P) /\ Len(s) = m /\ \A i, j \in 1 .. m : s[i] = s[j] => i = j
    BY <2>1, <2>2, <2>3, Ascending
  <2>5. \A x \in P : \E i \in 1 .. m : s[i] = x
    BY <2>1, <2>2, <2>3, Ascending
  <2> HIDE DEF m
  <2>6. DOMAIN s = 1 .. Len(s)
    BY <2>4
  <2>7. /\ s \in Seq(P) /\ Len(s) \in Nat /\ DOMAIN s = 1 .. Len(s)
        /\ \A i, j \in 1 .. Len(s) : s[i] = s[j] => i = j
        /\ \A p \in P : \E i \in 1 .. Len(s) : s[i] = p
    BY <2>2, <2>4, <2>5, <2>6
  <2> QED BY <2>7 DEF s, P
<1> HIDE DEF S, R, G, n, slot, line, A
<1>9. \A f \in Fifo : \A i \in 1 .. Len(line(f)) : line(f)[i] \in G /\ push[line(f)[i]].fifo = f
  <2> TAKE f \in Fifo
  <2> TAKE i \in 1 .. Len(line(f))
  <2>1. line(f)[i] \in ports(f)
    <3> HIDE DEF ports
    <3> QED BY <1>8
  <2> QED BY <2>1
<1>10. \A f \in Fifo : /\ A(f) \in Seq(Address) /\ Len(A(f)) = Len(line(f))
                       /\ \A i \in 1 .. Len(line(f)) :
                             A(f)[i] = S[slot(line(f)[i])] /\ slot(line(f)[i]) \in 1 .. n
  <2> TAKE f \in Fifo
  <2>1. \A i \in 1 .. Len(line(f)) :
          line(f)[i] \in G /\ slot(line(f)[i]) \in 1 .. n /\ slot(line(f)[i]) \in 1 .. Len(S)
    <3> TAKE i \in 1 .. Len(line(f))
    <3>1. line(f)[i] \in G /\ slot(line(f)[i]) \in 1 .. n
      BY <1>2, <1>9
    <3>2. n \in Nat /\ n <= Len(S)
      BY <1>1, <1>2
    <3> QED BY <1>1, <3>1, <3>2
  <2>2. A(f) = [i \in 1 .. Len(line(f)) |-> S[slot(line(f)[i])]]
    <3>1. A(f) = [i \in 1 .. Len(line(f)) |-> WrAddr(push)[line(f)[i]]]
      BY <1>6, <1>8
    <3> QED BY <1>7, <2>1, <3>1
  <2>3. A(f) \in [1 .. Len(line(f)) -> Address] /\ Len(line(f)) \in Nat
    BY <1>1, <1>8, <2>1, <2>2
  <2>4. \A k \in Nat : \A r \in [1 .. k -> Address] : r \in Seq(Address) /\ Len(r) = k
    OBVIOUS
  <2>5. A(f) \in Seq(Address) /\ Len(A(f)) = Len(line(f))
    BY <2>3, <2>4
  <2> QED BY <2>1, <2>2, <2>5
<1>11. \A f \in Fifo : /\ \A x : x \in ToSet(A(f)) <=> \E i \in 1 .. Len(line(f)) : A(f)[i] = x
                       /\ IsInjective(A(f)) <=> \A i, j \in 1 .. Len(line(f)) :
                                                   A(f)[i] = A(f)[j] => i = j
  <2> TAKE f \in Fifo
  <2>1. /\ \A x : x \in ToSet(A(f)) <=> \E i \in 1 .. Len(A(f)) : A(f)[i] = x
        /\ IsInjective(A(f)) <=> \A i, j \in 1 .. Len(A(f)) : A(f)[i] = A(f)[j] => i = j
    BY <1>10, Elements
  <2> QED BY <1>10, <2>1
<1>12. ASSUME NEW f \in Fifo, NEW g \in Fifo, NEW i \in 1 .. Len(line(f)), NEW j \in 1 .. Len(line(g)),
              A(f)[i] = A(g)[j]
       PROVE  f = g /\ i = j
  <2> DEFINE p == line(f)[i]
             r == line(g)[j]
  <2>1. p \in G /\ r \in G /\ push[p].fifo = f /\ push[r].fifo = g
    BY <1>9
  <2>2. S[slot(p)] = S[slot(r)] /\ slot(p) \in 1 .. n /\ slot(r) \in 1 .. n
    BY <1>10, <1>12
  <2>3. slot(p) \in 1 .. Len(S) /\ slot(r) \in 1 .. Len(S)
    BY <1>1, <1>2, <2>2
  <2>4. slot(p) = slot(r)
    BY <1>1, <2>2, <2>3
  <2>5. p = r
    BY <1>2, <1>4, <2>1, <2>4
  <2>6. f = g
    BY <2>1, <2>5
  <2> QED BY <1>8, <2>5, <2>6
<1>13. \A f \in Fifo : IsInjective(A(f))
  BY <1>11, <1>12
<1>14. \A f \in Fifo : \A x \in ToSet(A(f)) : \E j \in 1 .. n : S[j] = x
  <2> TAKE f \in Fifo
  <2> TAKE x \in ToSet(A(f))
  <2>1. PICK i \in 1 .. Len(line(f)) : A(f)[i] = x
    BY <1>11
  <2> QED BY <1>10, <2>1
<1>15. \A f, g \in Fifo : f # g => ToSet(A(f)) \cap ToSet(A(g)) = {}
  <2> SUFFICES ASSUME NEW f \in Fifo, NEW g \in Fifo, NEW x \in ToSet(A(f)), x \in ToSet(A(g))
               PROVE  f = g
    OBVIOUS
  <2>1. PICK i \in 1 .. Len(line(f)) : A(f)[i] = x
    BY <1>11
  <2>2. PICK j \in 1 .. Len(line(g)) : A(g)[j] = x
    BY <1>11
  <2> QED BY <1>12, <2>1, <2>2
<1>16. \A j \in 1 .. n : \E f \in Fifo : S[j] \in ToSet(A(f))
  <2> TAKE j \in 1 .. n
  <2>1. PICK p \in G : slot(p) = j
    BY <1>2
  <2> DEFINE f == push[p].fifo
  <2>2. f \in Fifo /\ p \in ports(f)
    BY <1>3, <2>1
  <2>3. PICK i \in 1 .. Len(line(f)) : line(f)[i] = p
    <3> HIDE DEF ports, f
    <3> QED BY <1>8, <2>2
  <2>4. A(f)[i] = S[j]
    BY <1>10, <2>1, <2>2, <2>3
  <2> QED BY <1>11, <2>2, <2>4
<1> QED BY <1>2, <1>5, <1>10, <1>13, <1>14, <1>15, <1>16 DEF S, n, A

-----------------------------------------------------------------------------
(* The inductive invariant.                                                  *)

PoolTypeOK ==
    /\ lowest_prio \in RR!Requester
    /\ dealloc \in SUBSET Address
    /\ ~RegisterDeallocation => dealloc = {}
    /\ ptr_ram \in [Address -> Pointer]
    /\ queued \in [Fifo -> Seq(Address)]

IInv ==
    /\ FreelistOK /\ PoolTypeOK /\ EntriesAccounted
    /\ \A f \in Fifo : ListInv(ll[f], ptr_ram, queued[f])

LEMMA Rest ==
  ASSUME NEW S, NEW q \in Seq(S), IsInjective(q), Len(q) >= 1
  PROVE  /\ Tail(q) \in Seq(S) /\ IsInjective(Tail(q))
         /\ ToSet(Tail(q)) = ToSet(q) \ {q[1]}
<1> DEFINE t == Tail(q)
<1>1. /\ t \in Seq(S) /\ Len(t) = Len(q) - 1 /\ Len(q) \in Nat
      /\ \A i \in 1 .. Len(q) - 1 : t[i] = q[i + 1]
  OBVIOUS
<1>2. /\ \A x : x \in ToSet(q) <=> \E i \in 1 .. Len(q) : q[i] = x
      /\ \A i, j \in 1 .. Len(q) : q[i] = q[j] => i = j
  BY Elements
<1> HIDE DEF t
<1>10. t \in Seq(S)
  BY <1>1
<1>3. \A x : x \in ToSet(t) <=> \E i \in 1 .. Len(t) : t[i] = x
  BY <1>10, Elements
<1>4. \A i \in 1 .. Len(t) : t[i] = q[i + 1] /\ i + 1 \in 1 .. Len(q) /\ 1 \in 1 .. Len(q) /\ i + 1 # 1
  BY <1>1
<1>5. \A i, j \in 1 .. Len(t) : t[i] = t[j] => i = j
  <2> TAKE i \in 1 .. Len(t), j \in 1 .. Len(t)
  <2> HAVE t[i] = t[j]
  <2>1. i + 1 = j + 1
    BY <1>2, <1>4
  <2> QED BY <2>1
<1>6. ASSUME NEW x \in ToSet(t) PROVE x \in ToSet(q) /\ x # q[1]
  <2>1. PICK i \in 1 .. Len(t) : t[i] = x
    BY <1>3
  <2> QED BY <1>2, <1>4, <2>1
<1>7. ASSUME NEW x \in ToSet(q), x # q[1] PROVE x \in ToSet(t)
  <2>1. PICK i \in 1 .. Len(q) : q[i] = x
    BY <1>2
  <2>2. i - 1 \in 1 .. Len(t) /\ (i - 1) + 1 = i
    BY <1>1, <1>7, <2>1
  <2>3. t[i - 1] = x
    BY <1>4, <2>1, <2>2
  <2> QED BY <1>3, <2>2, <2>3
<1>8. IsInjective(t)
  BY <1>5, <1>10, Elements
<1>9. ToSet(t) = ToSet(q) \ {q[1]}
  BY <1>6, <1>7
<1> QED BY <1>1, <1>8, <1>9 DEF t

(* The queues with all that is appended to them have no entry in common.     *)
Grown(push, f) == queued[f] \o NextTail(push, f)

LEMMA Apart ==
  ASSUME IInv, NEW push \in PushInputs
  PROVE  /\ \A f \in Fifo : /\ queued[f] \in Seq(Address) /\ NextTail(push, f) \in Seq(Address)
                            /\ Grown(push, f) \in Seq(Address)
                            /\ ToSet(NextTail(push, f)) \in SUBSET ToSet(freelist.staged)
         /\ \A f, g \in Fifo : \A i \in 1 .. Len(Grown(push, f)), j \in 1 .. Len(Grown(push, g)) :
               Grown(push, f)[i] = Grown(push, g)[j] => f = g /\ i = j
<1> DEFINE A(f) == NextTail(push, f)
           z(f) == Grown(push, f)
           S == freelist.staged
           used(f) == ToSet(queued[f])
           new(f) == ToSet(A(f))
<1>1. \A f \in Fifo : queued[f] \in Seq(Address) /\ A(f) \in Seq(Address) /\ IsInjective(A(f))
  BY Appends DEF IInv, PoolTypeOK
<1>2. \A f \in Fifo : new(f) \in SUBSET ToSet(S)
  <2> SUFFICES ASSUME NEW f \in Fifo, NEW x \in new(f) PROVE x \in ToSet(S)
    OBVIOUS
  <2> DEFINE n == PushSide(push).accepted
  <2>1. n \in 0 .. Len(S) /\ S \in Seq(Address)
    BY Appends DEF IInv, PoolTypeOK, FreelistOK
  <2>2. PICK j \in 1 .. n : S[j] = x
    BY Appends DEF IInv, PoolTypeOK
  <2> HIDE DEF n, S
  <2>3. j \in 1 .. Len(S)
    BY <2>1
  <2> QED BY <2>1, <2>2, <2>3, Elements
<1>3. \A f, g \in Fifo : f # g => new(f) \cap new(g) = {}
  BY Appends DEF IInv, PoolTypeOK
<1>4. \A f \in Fifo : /\ IsInjective(queued[f]) /\ used(f) \cap ToSet(S) = {}
                      /\ \A g \in Fifo \ {f} : used(f) \cap used(g) = {}
  BY DEF IInv, EntriesAccounted
<1>5. \A f \in Fifo : IsInjective(z(f)) /\ ToSet(z(f)) = used(f) \cup new(f)
  <2> TAKE f \in Fifo
  <2>1. used(f) \cap new(f) = {}
    BY <1>2, <1>4
  <2> QED BY <1>1, <1>4, <2>1, Join DEF Grown
<1>6. \A f \in Fifo : z(f) \in Seq(Address)
  <2> TAKE f \in Fifo
  <2>1. queued[f] \in Seq(Address) /\ A(f) \in Seq(Address)
    BY <1>1
  <2> QED BY <2>1, Concatenation DEF Grown
<1> HIDE DEF z, A, S, used, new
<1>7. ASSUME NEW f \in Fifo, NEW g \in Fifo, NEW i \in 1 .. Len(z(f)), NEW j \in 1 .. Len(z(g)),
             z(f)[i] = z(g)[j]
      PROVE  f = g /\ i = j
  <2>1. z(f)[i] \in ToSet(z(f)) /\ z(g)[j] \in ToSet(z(g))
    BY <1>6, Elements
  <2>2. f = g
    BY <1>2, <1>3, <1>4, <1>5, <1>7, <2>1
  <2>3. \A k, m \in 1 .. Len(z(f)) : z(f)[k] = z(f)[m] => k = m
    BY <1>5, <1>6, Elements
  <2> QED BY <1>7, <2>2, <2>3
<1> QED BY <1>1, <1>2, <1>6, <1>7 DEF z, A, S, new

(* The heads that are read are the oldest entries of their queues.           *)
Freed(heads) == {HeadAddr(f) : f \in heads}

LEMMA ReadHeads ==
  ASSUME IInv, NEW heads \in SUBSET ValidHeads
  PROVE  /\ heads \in SUBSET Fifo
         /\ \A f \in heads : /\ LL!head_valid(ll[f]) /\ Len(queued[f]) >= 1
                             /\ HeadAddr(f) = queued[f][1] /\ queued[f] # <<>>
         /\ \A x : x \in Freed(heads) <=> \E f \in heads : x = queued[f][1]
         /\ Freed(heads) \in SUBSET Address
<1>1. heads \in SUBSET Fifo /\ \A f \in heads : LL!head_valid(ll[f])
  BY DEF ValidHeads
<1>2. \A f \in heads : Len(queued[f]) >= 1 /\ HeadAddr(f) = queued[f][1] /\ queued[f] # <<>>
                       /\ queued[f][1] \in Address
  <2> TAKE f \in heads
  <2>1. queued[f] \in Seq(Address) /\ ListInv(ll[f], ptr_ram, queued[f]) /\ LL!head_valid(ll[f])
    BY <1>1 DEF IInv, PoolTypeOK
  <2>2. Len(queued[f]) >= 1 /\ LL!head(ll[f]) = queued[f][1] /\ queued[f][1] \in Address
    BY <2>1, HeadIsOldest
  <2>3. queued[f] # <<>>
    BY <2>2
  <2> QED BY <2>2, <2>3 DEF HeadAddr
<1>3. \A x : x \in Freed(heads) <=> \E f \in heads : x = queued[f][1]
  BY <1>2 DEF Freed
<1> QED BY <1>1, <1>2, <1>3

(* The links of the queues are in the pointer RAM after the cycle.           *)
LEMMA PtrRamStep ==
  ASSUME IInv, NEW push \in PushInputs, NEW heads \in SUBSET ValidHeads
  PROVE  LET ptr2 == PtrRamNext(PushSide(push).appends, Freed(heads))
         IN  /\ ptr2 \in [Address -> Pointer]
             /\ \A f \in Fifo : \A i \in 1 .. Len(Grown(push, f)) - N :
                   (f \in heads => i > 1) =>
                      ptr2[Grown(push, f)[i]] = Grown(push, f)[i + N]
<1> DEFINE z(f) == Grown(push, f)
           writes == UNION {LL!PtrRamWrites(ll[f], NextTail(push, f)) : f \in Fifo}
           written(a) == \E w \in writes : w.addr = a
           last(a) == CHOOSE w \in writes : w.addr = a
           freed == Freed(heads)
           ptr2 == PtrRamNext(PushSide(push).appends, freed)
<1>1. ptr2 = [a \in Address |-> IF a \in freed THEN NoAddr
                                ELSE IF written(a) THEN last(a).data ELSE ptr_ram[a]]
  BY DEF PtrRamNext, NextTail
<1>2. \A f \in Fifo : /\ queued[f] \in Seq(Address) /\ z(f) \in Seq(Address) /\ Len(z(f)) \in Nat
                      /\ Len(queued[f]) \in Nat /\ Len(queued[f]) <= Len(z(f))
                      /\ \A i \in 1 .. Len(queued[f]) : z(f)[i] = queued[f][i]
  <2> TAKE f \in Fifo
  <2>1. queued[f] \in Seq(Address) /\ NextTail(push, f) \in Seq(Address)
    BY Apart
  <2>2. /\ z(f) \in Seq(Address) /\ Len(z(f)) = Len(queued[f]) + Len(NextTail(push, f))
        /\ \A i \in 1 .. Len(queued[f]) : z(f)[i] = queued[f][i]
    BY <2>1, Concatenation DEF Grown
  <2>3. Len(queued[f]) \in Nat /\ Len(NextTail(push, f)) \in Nat
    BY <2>1
  <2> QED BY <2>1, <2>2, <2>3
<1>3. \A f, g \in Fifo : \A i \in 1 .. Len(z(f)), j \in 1 .. Len(z(g)) :
         z(f)[i] = z(g)[j] => f = g /\ i = j
  BY Apart
<1>4. N \in Nat \ {0} /\ ptr_ram \in [Address -> Pointer]
  BY Constants DEF IInv, PoolTypeOK
<1>5. \A w \in writes : \E f \in Fifo : \E i \in 1 .. Len(z(f)) - N :
         i + N > Len(queued[f]) /\ w = [addr |-> z(f)[i], data |-> z(f)[i + N]]
  <2> TAKE w \in writes
  <2>1. PICK f \in Fifo : w \in LL!PtrRamWrites(ll[f], NextTail(push, f))
    OBVIOUS
  <2>2. LL!InTurn(ll[f], ptr_ram, queued[f]) /\ ll[f] \in Registers
        /\ queued[f] \in Seq(Address) /\ NextTail(push, f) \in Seq(Address)
    BY Apart DEF IInv, ListInv
  <2>3. \E i \in 1 .. Len(z(f)) - N :
           i + N > Len(queued[f]) /\ w = [addr |-> z(f)[i], data |-> z(f)[i + N]]
    BY <2>1, <2>2, WritesAreLinks DEF Grown
  <2> QED BY <2>3
<1>6. \A f \in Fifo : \A i \in 1 .. Len(z(f)) - N :
         i + N > Len(queued[f]) => [addr |-> z(f)[i], data |-> z(f)[i + N]] \in writes
  <2> TAKE f \in Fifo
  <2> TAKE i \in 1 .. Len(z(f)) - N
  <2> HAVE i + N > Len(queued[f])
  <2>1. LL!InTurn(ll[f], ptr_ram, queued[f]) /\ ll[f] \in Registers
        /\ queued[f] \in Seq(Address) /\ NextTail(push, f) \in Seq(Address)
    BY Apart DEF IInv, ListInv
  <2>2. [addr |-> z(f)[i], data |-> z(f)[i + N]] \in LL!PtrRamWrites(ll[f], NextTail(push, f))
    BY <2>1, WritesAreLinks DEF Grown
  <2> QED BY <2>2
<1>7. \A f \in Fifo, i \in Nat : i \in 1 .. Len(z(f)) => z(f)[i] \in Address
  BY <1>2
<1>8. \A x : x \in freed => \E f \in Fifo : f \in heads /\ Len(z(f)) >= 1 /\ x = z(f)[1]
  <2> SUFFICES ASSUME NEW x \in freed PROVE \E f \in Fifo : f \in heads /\ Len(z(f)) >= 1 /\ x = z(f)[1]
    OBVIOUS
  <2>1. PICK f \in heads : x = queued[f][1]
    BY ReadHeads
  <2>2. f \in Fifo /\ Len(queued[f]) >= 1
    BY ReadHeads
  <2>3. Len(z(f)) >= 1 /\ z(f)[1] = queued[f][1]
    <3> HIDE DEF z
    <3>1. 1 \in 1 .. Len(queued[f]) /\ Len(z(f)) >= 1
      BY <1>2, <2>2
    <3> QED BY <1>2, <2>2, <3>1
  <2> QED BY <2>1, <2>2, <2>3
<1> HIDE DEF z, writes, written, last, freed, ptr2
<1>9. \A a : written(a) => last(a) \in writes /\ last(a).addr = a
  BY DEF written, last
<1>10. ptr2 \in [Address -> Pointer]
  <2> SUFFICES ASSUME NEW a \in Address, a \notin freed, written(a) PROVE last(a).data \in Pointer
    BY <1>1, <1>4 DEF Pointer
  <2>1. last(a) \in writes
    BY <1>9
  <2>2. PICK f \in Fifo : \E i \in 1 .. Len(z(f)) - N : last(a) = [addr |-> z(f)[i], data |-> z(f)[i + N]]
    BY <1>5, <2>1
  <2>3. PICK i \in 1 .. Len(z(f)) - N : last(a) = [addr |-> z(f)[i], data |-> z(f)[i + N]]
    BY <2>2
  <2>4. i + N \in 1 .. Len(z(f)) /\ i + N \in Nat
    BY <1>2, <1>4
  <2>5. z(f)[i + N] \in Address
    BY <1>7, <2>4
  <2> QED BY <2>3, <2>5 DEF Pointer
<1>11. ASSUME NEW f \in Fifo, NEW i \in 1 .. Len(z(f)) - N, f \in heads => i > 1
       PROVE  ptr2[z(f)[i]] = z(f)[i + N]
  <2> DEFINE a == z(f)[i]
  <2>1. i \in 1 .. Len(z(f)) /\ i \in Nat /\ i + N \in 1 .. Len(z(f))
    BY <1>2, <1>4
  <2>2. a \in Address
    BY <1>7, <2>1
  <2>3. a \notin freed
    <3> SUFFICES ASSUME a \in freed PROVE FALSE
      OBVIOUS
    <3>1. PICK g \in Fifo : g \in heads /\ Len(z(g)) >= 1 /\ a = z(g)[1]
      BY <1>8
    <3>2. 1 \in 1 .. Len(z(g))
      BY <1>2, <3>1
    <3>3. f = g /\ i = 1
      BY <1>3, <2>1, <3>1, <3>2
    <3> QED BY <1>11, <3>1, <3>3
  <2>4. ASSUME NEW w \in writes, w.addr = a PROVE i + N > Len(queued[f]) /\ w.data = z(f)[i + N]
    <3>1. PICK g \in Fifo : \E j \in 1 .. Len(z(g)) - N :
             j + N > Len(queued[g]) /\ w = [addr |-> z(g)[j], data |-> z(g)[j + N]]
      BY <1>5
    <3>2. PICK j \in 1 .. Len(z(g)) - N :
             j + N > Len(queued[g]) /\ w = [addr |-> z(g)[j], data |-> z(g)[j + N]]
      BY <3>1
    <3>3. j \in 1 .. Len(z(g)) /\ w.addr = z(g)[j] /\ w.data = z(g)[j + N]
      BY <1>2, <1>4, <3>2
    <3>4. f = g /\ i = j
      <4>1. z(f)[i] = z(g)[j]
        BY <2>4, <3>3
      <4> QED BY <1>3, <2>1, <3>3, <4>1
    <3> QED BY <3>2, <3>3, <3>4
  <2>5. CASE i + N > Len(queued[f])
    <3> DEFINE w == [addr |-> z(f)[i], data |-> z(f)[i + N]]
    <3>1. w \in writes /\ w.addr = a
      BY <1>6, <2>5
    <3>2. written(a)
      BY <3>1 DEF written
    <3>3. last(a) \in writes /\ last(a).addr = a
      BY <1>9, <3>2
    <3>4. last(a).data = z(f)[i + N]
      <4> HIDE DEF a
      <4> QED BY <2>4, <3>3
    <3> QED BY <1>1, <2>2, <2>3, <3>2, <3>4
  <2>6. CASE ~(i + N > Len(queued[f]))
    <3>1. ~written(a)
      <4> HIDE DEF a
      <4> QED BY <2>4, <2>6 DEF written
    <3>2. ptr2[a] = ptr_ram[a]
      BY <1>1, <2>2, <2>3, <3>1
    <3>3. i \in 1 .. Len(queued[f]) - N /\ i \in 1 .. Len(queued[f]) /\ i + N \in 1 .. Len(queued[f])
      BY <1>2, <1>4, <2>1, <2>6
    <3>4. ptr_ram[queued[f][i]] = queued[f][i + N]
      BY <3>3 DEF IInv, ListInv, LL!InTurn, N
    <3>5. a = queued[f][i] /\ z(f)[i + N] = queued[f][i + N]
      BY <1>2, <3>3
    <3> QED BY <3>2, <3>4, <3>5
  <2> QED BY <2>5, <2>6
<1> QED BY <1>10, <1>11 DEF z, ptr2, freed

(* Where the entries are after a cycle.                                      *)
LEMMA EntriesStep ==
  ASSUME IInv, NEW push \in PushInputs, NEW heads \in SUBSET ValidHeads,
         PoolCycle(PushSide(push), heads)
  PROVE  /\ FreelistOK' /\ EntriesAccounted'
         /\ \A f \in Fifo : queued'[f] =
               (IF f \in heads THEN Tail(queued[f]) ELSE queued[f]) \o NextTail(push, f)
         /\ queued' \in [Fifo -> Seq(Address)]
<1> DEFINE U == freelist.unstaged
           S == freelist.staged
           n == PushSide(push).accepted
           freed == Freed(heads)
           back == Returned(freed)
           A(f) == NextTail(push, f)
           rest(f) == IF f \in heads THEN Tail(queued[f]) ELSE queued[f]
           used(f) == ToSet(queued[f])
           new(f) == ToSet(A(f))
           kept(f) == ToSet(rest(f))
           later(x) == \E i \in n + 1 .. Len(S) : S[i] = x
           U1 == (freelist').unstaged
           S1 == ToSet((freelist').staged)
           used1(f) == ToSet(queued'[f])
<1>1. /\ freelist' = FL!FreelistNext(n, back)
      /\ dealloc' = IF RegisterDeallocation THEN freed ELSE {}
      /\ queued' = [f \in Fifo |->
                     (IF f \in heads /\ queued[f] # <<>> THEN Tail(queued[f]) ELSE queued[f]) \o A(f)]
  BY DEF PoolCycle, Freed, NextTail
<1>2. /\ heads \in SUBSET Fifo /\ freed \in SUBSET Address
      /\ \A f \in heads : Len(queued[f]) >= 1 /\ queued[f] # <<>>
      /\ \A x : x \in freed <=> \E f \in heads : x = queued[f][1]
  BY ReadHeads
<1>3. /\ FreelistOK /\ dealloc \in SUBSET Address /\ (~RegisterDeallocation => dealloc = {})
      /\ \A f \in Fifo : queued[f] \in Seq(Address)
      /\ lowest_prio \in RR!Requester
  BY DEF IInv, PoolTypeOK
<1>4. /\ U \cup ToSet(S) \cup dealloc \cup UNION {used(f) : f \in Fifo} = Address
      /\ U \cap ToSet(S) = {} /\ dealloc \cap (U \cup ToSet(S)) = {} /\ IsInjective(S)
      /\ \A f \in Fifo :
            /\ IsInjective(queued[f])
            /\ used(f) \cap (U \cup ToSet(S) \cup dealloc) = {}
            /\ \A g \in Fifo \ {f} : used(f) \cap used(g) = {}
  BY DEF IInv, EntriesAccounted
<1>5. /\ n \in 0 .. Len(S)
      /\ \A f \in Fifo : A(f) \in Seq(Address) /\ IsInjective(A(f))
      /\ \A f \in Fifo : \A x \in new(f) : \E j \in 1 .. n : S[j] = x
      /\ \A f, g \in Fifo : f # g => new(f) \cap new(g) = {}
      /\ \A j \in 1 .. n : \E f \in Fifo : S[j] \in new(f)
  BY <1>3, Appends
<1>6. /\ S \in Seq(Address) /\ Len(S) \in Nat
      /\ \A x : x \in ToSet(S) <=> \E i \in 1 .. Len(S) : S[i] = x
      /\ \A i, j \in 1 .. Len(S) : S[i] = S[j] => i = j
  <2>1. S \in Seq(Address)
    BY <1>3 DEF FreelistOK
  <2> HIDE DEF S
  <2>2. \A x : x \in ToSet(S) <=> \E i \in 1 .. Len(S) : S[i] = x
    BY <2>1, Elements
  <2>3. \A i, j \in 1 .. Len(S) : S[i] = S[j] => i = j
    BY <1>4, <2>1, Elements
  <2>4. Len(S) \in Nat
    BY <2>1
  <2> QED BY <2>1, <2>2, <2>3, <2>4
<1>7. \A f \in Fifo : queued'[f] = rest(f) \o A(f)
  <2> TAKE f \in Fifo
  <2>1. queued'[f] = (IF f \in heads /\ queued[f] # <<>> THEN Tail(queued[f]) ELSE queued[f]) \o A(f)
    BY <1>1
  <2> QED BY <1>2, <2>1
<1>8. \A f \in Fifo : /\ rest(f) \in Seq(Address) /\ IsInjective(rest(f))
                      /\ kept(f) = IF f \in heads THEN used(f) \ {queued[f][1]} ELSE used(f)
  <2> TAKE f \in Fifo
  <2>1. queued[f] \in Seq(Address) /\ IsInjective(queued[f])
    BY <1>3, <1>4
  <2>2. CASE f \in heads
    <3>1. Len(queued[f]) >= 1
      BY <1>2, <2>2
    <3>2. Tail(queued[f]) \in Seq(Address) /\ IsInjective(Tail(queued[f]))
          /\ ToSet(Tail(queued[f])) = ToSet(queued[f]) \ {queued[f][1]}
      BY <2>1, <3>1, Rest
    <3> QED BY <2>2, <3>2
  <2>3. CASE f \notin heads
    BY <2>1, <2>3
  <2> QED BY <2>2, <2>3
<1>9. back = IF RegisterDeallocation THEN dealloc ELSE freed
  BY DEF Returned
<1>10. RegisterDeallocation \in BOOLEAN
  BY Constants
<1>11. \A f \in heads : queued[f][1] \in used(f)
  <2> TAKE f \in heads
  <2>1. queued[f] \in Seq(Address) /\ Len(queued[f]) >= 1
    BY <1>2, <1>3
  <2>2. 1 \in 1 .. Len(queued[f])
    BY <2>1
  <2> QED BY <2>1, <2>2, Elements
<1> HIDE DEF U, S, n, freed, back, A, rest, used, new, kept, later
<1>12. \A x \in freed : \E f \in Fifo : x \in used(f)
  BY <1>2, <1>11
<1>13. back \in SUBSET Address /\ back \cap (U \cup ToSet(S)) = {}
  <2>1. freed \cap (U \cup ToSet(S)) = {}
    BY <1>4, <1>12
  <2> QED BY <1>2, <1>3, <1>4, <1>9, <2>1
<1>14. /\ freelist' \in [unstaged : SUBSET Address, staged : Seq(Address)]
       /\ Len((freelist').staged) <= NumWritePorts
       /\ IsInjective((freelist').staged)
       /\ U1 \cap S1 = {}
       /\ \A x : x \in U1 \cup S1 <=> x \in U \cup back \/ later(x)
  <2> DEFINE d == FL!FreelistNext(n, back)
  <2>1. /\ d \in [unstaged : SUBSET Address, staged : Seq(Address)]
        /\ Len(d.staged) <= NumWritePorts
        /\ IsInjective(d.staged)
        /\ d.unstaged \cap ToSet(d.staged) = {}
        /\ \A x : x \in d.unstaged \cup ToSet(d.staged) <=>
              \/ x \in U \cup back
              \/ \E i \in n + 1 .. Len(S) : S[i] = x
    <3>1. FreelistOK /\ n \in 0 .. Len(freelist.staged) /\ back \in SUBSET Address
          /\ back \cap (freelist.unstaged \cup ToSet(freelist.staged)) = {}
      BY <1>3, <1>5, <1>13 DEF U, S
    <3> QED BY <3>1, FreelistStep DEF U, S
  <2>2. freelist' = d
    BY <1>1
  <2> HIDE DEF d
  <2> QED BY <2>1, <2>2 DEF later
<1>15. \A f \in Fifo : new(f) \in SUBSET ToSet(S) /\ \A x \in new(f) : ~later(x)
  <2> TAKE f \in Fifo
  <2> SUFFICES ASSUME NEW x \in new(f) PROVE x \in ToSet(S) /\ ~later(x)
    OBVIOUS
  <2>1. PICK j \in 1 .. n : S[j] = x
    BY <1>5
  <2>2. j \in 1 .. Len(S) /\ n \in Nat
    BY <1>5, <1>6
  <2>3. ~later(x)
    <3> SUFFICES ASSUME NEW i \in n + 1 .. Len(S), S[i] = x PROVE FALSE
      BY DEF later
    <3>1. i \in 1 .. Len(S)
      BY <1>6, <2>2
    <3>2. i = j
      BY <1>6, <2>1, <2>2, <3>1
    <3> QED BY <2>1, <2>2, <3>2
  <2> QED BY <1>6, <2>1, <2>2, <2>3
<1>16. \A x \in ToSet(S) : later(x) \/ \E f \in Fifo : x \in new(f)
  <2> TAKE x \in ToSet(S)
  <2>1. PICK i \in 1 .. Len(S) : S[i] = x
    BY <1>6
  <2>2. CASE i <= n
    <3>1. i \in 1 .. n
      BY <1>5, <1>6, <2>2
    <3> QED BY <1>5, <2>1, <3>1
  <2>3. CASE ~(i <= n)
    <3>1. i \in n + 1 .. Len(S)
      BY <1>5, <1>6, <2>3
    <3> QED BY <2>1, <3>1 DEF later
  <2> QED BY <2>2, <2>3
<1>17. \A x : later(x) => x \in ToSet(S)
  <2> SUFFICES ASSUME NEW i \in n + 1 .. Len(S) PROVE S[i] \in ToSet(S)
    BY DEF later
  <2>1. i \in 1 .. Len(S)
    BY <1>5, <1>6
  <2> QED BY <1>6, <2>1
<1>18. \A f \in Fifo : kept(f) \in SUBSET used(f) /\ kept(f) \cap freed = {}
  <2> TAKE f \in Fifo
  <2>1. kept(f) \in SUBSET used(f)
    BY <1>8
  <2>2. ASSUME NEW x \in kept(f), x \in freed PROVE FALSE
    <3>1. PICK g \in heads : x = queued[g][1]
      BY <1>2, <2>2
    <3>2. x \in used(g) /\ g \in Fifo
      BY <1>2, <1>11, <3>1
    <3>3. g = f
      BY <1>4, <2>1, <2>2, <3>2
    <3> QED BY <1>8, <2>2, <3>1, <3>3
  <2> QED BY <2>1, <2>2
<1>19. \A f \in Fifo : IsInjective(queued'[f]) /\ used1(f) = kept(f) \cup new(f)
                       /\ queued'[f] \in Seq(Address)
  <2> TAKE f \in Fifo
  <2>1. kept(f) \cap new(f) = {}
    BY <1>4, <1>15, <1>18
  <2>2. rest(f) \in Seq(Address) /\ A(f) \in Seq(Address) /\ IsInjective(rest(f)) /\ IsInjective(A(f))
    BY <1>5, <1>8
  <2>3. IsInjective(rest(f) \o A(f)) /\ ToSet(rest(f) \o A(f)) = kept(f) \cup new(f)
    BY <2>1, <2>2, Join DEF kept, new
  <2>4. rest(f) \o A(f) \in Seq(Address)
    BY <2>2, Concatenation
  <2> QED BY <1>7, <2>3, <2>4
<1>20. \A x \in Address : \/ x \in U1 \cup S1 \cup dealloc'
                          \/ \E f \in Fifo : x \in used1(f)
  <2> TAKE x \in Address
  <2>1. CASE x \in U
    BY <1>14, <2>1
  <2>2. CASE x \in ToSet(S)
    BY <1>14, <1>16, <1>19, <2>2
  <2>3. CASE x \in dealloc
    BY <1>3, <1>9, <1>14, <2>3
  <2>4. CASE \E f \in Fifo : x \in used(f)
    <3>1. PICK f \in Fifo : x \in used(f)
      BY <2>4
    <3>2. CASE x \in kept(f)
      BY <1>19, <3>2
    <3>3. CASE x \notin kept(f)
      <4>1. f \in heads /\ x = queued[f][1]
        BY <1>8, <3>1, <3>3
      <4>2. x \in freed
        BY <1>2, <4>1
      <4> QED BY <1>1, <1>9, <1>14, <4>2
    <3> QED BY <3>2, <3>3
  <2> QED BY <1>4, <2>1, <2>2, <2>3, <2>4
<1>21. dealloc' \in SUBSET Address /\ dealloc' \in SUBSET freed
  BY <1>1, <1>2
<1>22. dealloc' \cap (U1 \cup S1) = {}
  <2> SUFFICES ASSUME NEW x \in dealloc', x \in U1 \cup S1 PROVE FALSE
    OBVIOUS
  <2>1. RegisterDeallocation /\ x \in freed
    BY <1>1
  <2>2. x \in U \cup dealloc \/ later(x)
    BY <1>9, <1>14, <2>1
  <2>3. PICK f \in Fifo : x \in used(f)
    BY <1>12, <2>1
  <2> QED BY <1>4, <1>17, <2>2, <2>3
<1>23. \A f \in Fifo : used1(f) \cap (U1 \cup S1 \cup dealloc') = {}
  <2> SUFFICES ASSUME NEW f \in Fifo, NEW x \in used1(f), x \in U1 \cup S1 \cup dealloc' PROVE FALSE
    OBVIOUS
  <2>1. x \in U \cup back \/ later(x) \/ x \in freed
    BY <1>14, <1>21
  <2>2. back \in SUBSET dealloc \cup freed
    BY <1>9, <1>10
  <2>3. CASE x \in kept(f)
    <3>1. x \in used(f) /\ x \notin freed
      BY <1>18, <2>3
    <3> QED BY <1>4, <1>17, <2>1, <2>2, <3>1
  <2>4. CASE x \in new(f)
    <3>1. x \in ToSet(S) /\ ~later(x)
      BY <1>15, <2>4
    <3>2. x \notin freed
      BY <1>4, <1>12, <3>1
    <3> QED BY <1>4, <2>1, <2>2, <3>1, <3>2
  <2> QED BY <1>19, <2>3, <2>4
<1>24. \A f \in Fifo : \A g \in Fifo \ {f} : used1(f) \cap used1(g) = {}
  <2> TAKE f \in Fifo
  <2> TAKE g \in Fifo \ {f}
  <2>1. used(f) \cap used(g) = {} /\ new(f) \cap new(g) = {}
    BY <1>4, <1>5
  <2>2. used(f) \cap new(g) = {} /\ used(g) \cap new(f) = {}
    BY <1>4, <1>15
  <2> QED BY <1>18, <1>19, <2>1, <2>2
<1>25. EntriesAccounted'
  <2>1. U1 \cup S1 \cup dealloc' \cup UNION {used1(f) : f \in Fifo} = Address
    <3>1. U1 \in SUBSET Address /\ S1 \in SUBSET Address
      <4>1. U1 \in SUBSET Address /\ (freelist').staged \in Seq(Address)
        BY <1>14
      <4> QED BY <4>1, Elements
    <3>2. \A f \in Fifo : used1(f) \in SUBSET Address
      BY <1>19, Elements
    <3> HIDE DEF U1, S1, used1
    <3> QED BY <1>20, <1>21, <3>1, <3>2
  <2> QED BY <1>14, <1>19, <1>22, <1>23, <1>24, <2>1 DEF EntriesAccounted
<1>26. FreelistOK'
  BY <1>14 DEF FreelistOK
<1>27. queued' \in [Fifo -> Seq(Address)]
  <2>1. queued' = [f \in Fifo |-> queued'[f]]
    BY <1>1
  <2> QED BY <1>19, <2>1
<1> QED BY <1>7, <1>25, <1>26, <1>27 DEF rest, A

LEMMA CycleStep ==
  ASSUME IInv, NEW push \in PushInputs, NEW heads \in SUBSET ValidHeads,
         PoolCycle(PushSide(push), heads)
  PROVE  IInv'
<1> DEFINE A(f) == NextTail(push, f)
<1>1. FreelistOK' /\ EntriesAccounted' /\ queued' \in [Fifo -> Seq(Address)]
  BY EntriesStep
<1>2. \A f \in Fifo : queued'[f] = (IF f \in heads THEN Tail(queued[f]) ELSE queued[f]) \o A(f)
  BY EntriesStep
<1>3. /\ ptr_ram' = PtrRamNext(PushSide(push).appends, Freed(heads))
      /\ lowest_prio' = PushSide(push).lowest_prio
      /\ dealloc' = IF RegisterDeallocation THEN Freed(heads) ELSE {}
      /\ \A f \in Fifo : ll'[f] = LL!ListsNext(ll[f], f \in heads, A(f), ptr_ram)
  BY DEF PoolCycle, Freed, NextTail
<1>4. lowest_prio' \in RR!Requester
  <2>1. FreelistOK /\ lowest_prio \in RR!Requester
    BY DEF IInv, PoolTypeOK
  <2> QED BY <1>3, <2>1, PriorityStep
<1>5. dealloc' \in SUBSET Address /\ (~RegisterDeallocation => dealloc' = {})
  BY <1>3, ReadHeads
<1>6. /\ ptr_ram' \in [Address -> Pointer]
      /\ \A f \in Fifo : \A i \in 1 .. Len(Grown(push, f)) - N :
                   (f \in heads => i > 1) =>
                      ptr_ram'[Grown(push, f)[i]] = Grown(push, f)[i + N]
  BY <1>3, PtrRamStep
<1>7. ASSUME NEW f \in Fifo PROVE ListInv(ll'[f], ptr_ram', queued'[f])
  <2> DEFINE c == ll[f]
             q == queued[f]
             s == A(f)
             p == f \in heads
  <2>1. q \in Seq(Address) /\ s \in Seq(Address) /\ p \in BOOLEAN /\ ptr_ram \in [Address -> Pointer]
        /\ ListInv(c, ptr_ram, q)
    BY Apart DEF IInv, PoolTypeOK
  <2>2. p => LL!head_valid(c)
    BY ReadHeads
  <2>3. \A i \in 1 .. Len(q \o s) - N : (p => i > 1) => ptr_ram'[(q \o s)[i]] = (q \o s)[i + N]
    BY <1>6 DEF Grown
  <2>4. ll'[f] = LL!ListsNext(c, p, s, ptr_ram) /\ queued'[f] = (IF p THEN Tail(q) ELSE q) \o s
    BY <1>2, <1>3
  <2> HIDE DEF c, q, s, p
  <2>5. ListInv(LL!ListsNext(c, p, s, ptr_ram), ptr_ram', (IF p THEN Tail(q) ELSE q) \o s)
    BY <2>1, <2>2, <2>3, ListStep
  <2> QED BY <2>4, <2>5
<1> QED BY <1>1, <1>4, <1>5, <1>6, <1>7 DEF IInv, PoolTypeOK

(* The state after reset.                                                    *)
LEMMA EmptyLists ==
  ASSUME NEW ptr
  PROVE  ListInv(LL!InitLists, ptr, <<>>)
<1> DEFINE c == LL!InitLists
<1>1. /\ c.count = [l \in Lists |-> 0] /\ c.head_valid = [l \in Lists |-> FALSE]
      /\ c.head = [l \in Lists |-> NoAddr] /\ c.tail = [l \in Lists |-> NoAddr]
      /\ c.head_select = 0 /\ c.tail_select = 0
      /\ c.reads = [k \in LL!Stage |-> LL!NoRead]
      /\ c = [count |-> c.count, head |-> c.head, head_valid |-> c.head_valid, tail |-> c.tail,
              head_select |-> c.head_select, tail_select |-> c.tail_select, reads |-> c.reads]
  BY Constants DEF LL!InitLists, Lists
<1>2. 0 \in Lists /\ N \in Nat \ {0} /\ NoAddr \in Pointer
  BY Constants DEF Pointer
<1>3. LL!NoRead = [valid |-> FALSE, list |-> 0, ptr |-> NoAddr]
  BY Constants DEF LL!NoRead
<1> HIDE DEF c
<1>4. c \in Registers
  <2>1. c.reads \in [LL!Stage -> [valid : BOOLEAN, list : Lists, ptr : Pointer]]
    BY <1>1, <1>2, <1>3
  <2>2. /\ c.count \in [Lists -> Nat] /\ c.head_valid \in [Lists -> BOOLEAN]
        /\ c.head \in [Lists -> Pointer] /\ c.tail \in [Lists -> Pointer]
        /\ c.head_select \in Lists /\ c.tail_select \in Lists
    BY <1>1, <1>2
  <2> DEFINE x1 == c.count
             x2 == c.head
             x3 == c.head_valid
             x4 == c.tail
             x5 == c.head_select
             x6 == c.tail_select
             x7 == c.reads
  <2>3. /\ x1 \in [Lists -> Nat] /\ x3 \in [Lists -> BOOLEAN]
        /\ x2 \in [Lists -> Pointer] /\ x4 \in [Lists -> Pointer]
        /\ x5 \in Lists /\ x6 \in Lists
        /\ x7 \in [LL!Stage -> [valid : BOOLEAN, list : Lists, ptr : Pointer]]
    BY <2>1, <2>2
  <2>4. c = [count |-> x1, head |-> x2, head_valid |-> x3, tail |-> x4, head_select |-> x5,
             tail_select |-> x6, reads |-> x7]
    BY <1>1, Zenon
  <2> HIDE DEF x1, x2, x3, x4, x5, x6, x7
  <2> QED BY <2>3, <2>4 DEF Registers
<1>5. Fetches(c)
  BY <1>1, <1>3 DEF Fetches
<1>6. LL!InTurn(c, ptr, <<>>)
  <2>1. Len(<<>>) = 0
    OBVIOUS
  <2>2. c.tail_select = (c.head_select + Len(<<>>)) % N
    <3>1. 0 = (N * 0) + 0 /\ 0 \in 0 .. N - 1
      BY <1>2
    <3>2. 0 % N = 0
      BY <1>2, <3>1, ModIs
    <3> QED BY <1>1, <2>1, <3>2
  <2>3. \A l \in Lists : c.count[l] = 0 /\ LL!Place(c, l, 0) \in 1 .. N
    BY <1>1, <1>4, Positions
  <2>4. 1 .. Len(<<>>) - N = {}
    BY <1>2, <2>1
  <2>5. Len(<<>>) + 1 = 1 /\ Len(<<>>) + N = N
    BY <1>2, <2>1
  <2> QED BY <2>2, <2>3, <2>4, <2>5 DEF LL!InTurn, N, Lists
<1> QED BY <1>4, <1>5, <1>6 DEF ListInv, c

LEMMA EmptyPool ==
  /\ FL!InitFreelist = [unstaged |-> Address, staged |-> <<>>]
  /\ RR!LowestPrioInit \in RR!Requester
  /\ <<>> \in Seq(Address) /\ Len(<<>>) = 0 /\ IsInjective(<<>>) /\ ToSet(<<>>) = {}
<1>1. FL!InitFreelist = [unstaged |-> Address, staged |-> <<>>]
  BY DEF FL!InitFreelist, FL!EntryId, Address
<1>2. RR!LowestPrioInit \in RR!Requester
  BY Constants DEF RR!LowestPrioInit, RR!Requester
<1>3. <<>> \in Seq(Address) /\ Len(<<>>) = 0 /\ DOMAIN <<>> = {}
  OBVIOUS
<1>4. IsInjective(<<>>) /\ ToSet(<<>>) = {}
  BY <1>3 DEF IsInjective, ToSet
<1> QED BY <1>1, <1>2, <1>3, <1>4

LEMMA InitIInv ==
  ASSUME PoolInit
  PROVE  IInv
<1>1. /\ freelist = [unstaged |-> Address, staged |-> <<>>] /\ lowest_prio \in RR!Requester
      /\ dealloc = {} /\ ptr_ram = [a \in Address |-> NoAddr] /\ queued = [f \in Fifo |-> <<>>]
      /\ \A f \in Fifo : ll[f] = LL!InitLists /\ queued[f] = <<>>
  BY EmptyPool DEF PoolInit
<1>2. FreelistOK
  BY <1>1, EmptyPool, Constants DEF FreelistOK
<1>3. PoolTypeOK
  BY <1>1, EmptyPool DEF PoolTypeOK, Pointer
<1>4. EntriesAccounted
  BY <1>1, EmptyPool DEF EntriesAccounted
<1>5. \A f \in Fifo : ListInv(ll[f], ptr_ram, queued[f])
  BY <1>1, EmptyLists
<1> QED BY <1>2, <1>3, <1>4, <1>5 DEF IInv

LEMMA ResetStep ==
  ASSUME PoolReset
  PROVE  IInv'
<1>1. /\ freelist' = [unstaged |-> Address, staged |-> <<>>] /\ lowest_prio' \in RR!Requester
      /\ dealloc' = {} /\ ptr_ram' = [a \in Address |-> NoAddr] /\ queued' = [f \in Fifo |-> <<>>]
      /\ \A f \in Fifo : ll'[f] = LL!InitLists /\ queued'[f] = <<>>
  BY EmptyPool DEF PoolReset
<1>2. FreelistOK'
  BY <1>1, EmptyPool, Constants DEF FreelistOK
<1>3. PoolTypeOK'
  BY <1>1, EmptyPool DEF PoolTypeOK, Pointer
<1>4. EntriesAccounted'
  BY <1>1, EmptyPool DEF EntriesAccounted
<1>5. \A f \in Fifo : ListInv(ll'[f], ptr_ram', queued'[f])
  BY <1>1, EmptyLists
<1> QED BY <1>2, <1>3, <1>4, <1>5 DEF IInv

LEMMA PoolInductive == IInv /\ [PoolNext]_pool_vars => IInv'
<1> SUFFICES ASSUME IInv, [PoolNext]_pool_vars PROVE IInv'
  OBVIOUS
<1>1. CASE \E push \in PushInputs, heads \in SUBSET ValidHeads : PoolCycle(PushSide(push), heads)
  BY <1>1, CycleStep
<1>2. CASE PoolReset
  BY <1>2, ResetStep
<1>3. CASE UNCHANGED pool_vars
  BY <1>3 DEF pool_vars, IInv, FreelistOK, PoolTypeOK, EntriesAccounted, ListInv
<1> QED BY <1>1, <1>2, <1>3 DEF PoolNext

(* In every state free list, linked list controllers, pointer RAM and        *)
(* returned entries fit the queues they stand for.                           *)
THEOREM PoolInvariance == PoolSpec => []IInv
<1>1. PoolInit => IInv
  BY InitIInv
<1> QED BY <1>1, PoolInductive, PTL DEF PoolSpec

(* No entry of the pool is lost, and none is in two places                   *)
(* (no_lost_entries_a, no_double_alloc_seq_a, no_dealloc_unallocated_a).     *)
THEOREM PoolIsAccounted == PoolSpec => []EntriesAccounted
<1>1. IInv => EntriesAccounted
  BY DEF IInv
<1> QED BY <1>1, PoolInvariance, PTL

(* Each FIFO's linked lists hold its entries in the order they came in.      *)
THEOREM PoolListsInTurn == PoolSpec => []ListsInTurn
<1>1. IInv => ListsInTurn
  BY DEF IInv, ListInv, ListsInTurn
<1> QED BY <1>1, PoolInvariance, PTL

(* A set of natural numbers that is not empty has a least one.               *)
LEMMA LeastNat ==
  ASSUME NEW S \in SUBSET Nat, S # {}
  PROVE  \E n \in S : \A m \in S : n <= m
<1>1. PICK n \in S : \A m \in S : <<m, n>> \notin OpToRel(<, Nat)
  BY NatLessThanWellFounded, WFMin, Zenon
<1>2. \A m \in S : ~(m < n)
  BY <1>1, Zenon DEF OpToRel
<1> QED BY <1>2

(* Induction over a set in place of a predicate.                             *)
LEMMA EveryNat ==
  ASSUME NEW S, 0 \in S, \A n \in Nat : n \in S => n + 1 \in S
  PROVE  Nat \subseteq S
<1> DEFINE T == Nat \ S
<1> SUFFICES ASSUME T # {} PROVE FALSE
  OBVIOUS
<1>1. PICK n \in T : \A m \in T : n <= m
  <2>1. T \in SUBSET Nat
    OBVIOUS
  <2> HIDE DEF T
  <2> QED BY <2>1, LeastNat
<1>2. n \in Nat /\ n # 0
  OBVIOUS
<1>3. n - 1 \in Nat /\ n - 1 \notin T
  BY <1>1, <1>2
<1>4. n - 1 \in S
  BY <1>3
<1> QED BY <1>1, <1>2, <1>3, <1>4

-----------------------------------------------------------------------------
(* The entries of the lists, numbered.                                       *)

Numbered(T, count) == UNION {{l} \X (1 .. count[l]) : l \in T}

LEMMA NumberedParts ==
  ASSUME NEW T, IsFiniteSet(T), NEW count, \A l \in T : count[l] \in Nat
  PROVE  /\ IsFiniteSet(Numbered(T, count))
         /\ \A l \in T : Cardinality(Numbered(T, count)) =
                            count[l] + Cardinality(Numbered(T \ {l}, count))
<1>1. ASSUME NEW l \in T
      PROVE  IsFiniteSet({l} \X (1 .. count[l])) /\ Cardinality({l} \X (1 .. count[l])) = count[l]
  <2>1. count[l] \in Nat
    OBVIOUS
  <2> DEFINE n == count[l]
  <2>2. n \in Nat
    BY <2>1
  <2> HIDE DEF n
  <2>3. IsFiniteSet(1 .. n) /\ Cardinality(1 .. n) = n
    BY <2>2, FS_Interval
  <2>4. IsFiniteSet({l}) /\ Cardinality({l}) = 1
    BY FS_Singleton
  <2>5. IsFiniteSet({l} \X (1 .. n)) /\ Cardinality({l} \X (1 .. n)) = 1 * n
    BY <2>3, <2>4, FS_Product
  <2> QED BY <2>2, <2>5 DEF n
<1>2. ASSUME NEW U \in SUBSET T
      PROVE  IsFiniteSet(Numbered(U, count))
  <2>1. IsFiniteSet(U)
    BY FS_Subset
  <2> DEFINE F == {{l} \X (1 .. count[l]) : l \in U}
             g == [l \in U |-> {l} \X (1 .. count[l])]
  <2>2. g \in Surjection(U, F)
    BY DEF Surjection
  <2>3. IsFiniteSet(F)
    <3> HIDE DEF g, F
    <3> QED BY <2>1, <2>2, FS_Surjection
  <2>4. \A x \in F : IsFiniteSet(x)
    BY <1>1
  <2> HIDE DEF F
  <2>5. IsFiniteSet(UNION F)
    BY <2>3, <2>4, FS_UNION
  <2> QED BY <2>5 DEF F, Numbered
<1>3. ASSUME NEW l \in T
      PROVE  Cardinality(Numbered(T, count)) = count[l] + Cardinality(Numbered(T \ {l}, count))
  <2> DEFINE A == {l} \X (1 .. count[l])
             B == Numbered(T \ {l}, count)
  <2>1. Numbered(T, count) = A \cup B
    BY DEF Numbered
  <2>2. A \cap B = {}
    BY DEF Numbered
  <2>3. IsFiniteSet(A) /\ Cardinality(A) = count[l] /\ IsFiniteSet(B)
    BY <1>1, <1>2
  <2> HIDE DEF A, B
  <2>4. Cardinality(A \cup B) = Cardinality(A) + Cardinality(B) - Cardinality(A \cap B)
    BY <2>3, FS_Union
  <2>5. Cardinality(A \cap B) = 0
    BY <2>2, FS_EmptySet
  <2>6. Cardinality(B) \in Nat /\ count[l] \in Nat
    BY <2>3, FS_CardinalityType
  <2> QED BY <2>1, <2>3, <2>4, <2>5, <2>6 DEF B
<1> QED BY <1>2, <1>3

Sums(T, count, g) ==
    g = [s \in SUBSET T |-> IF s = {} THEN 0
                            ELSE count[CHOOSE x \in s : TRUE] + g[s \ {CHOOSE x \in s : TRUE}]]

\* The recursion of the fold has a solution, and all agree on finite sets.
LEMMA SumIs ==
  ASSUME NEW T, IsFiniteSet(T), NEW count, DOMAIN count = T, \A l \in T : count[l] \in Nat
  PROVE  LL!SumFunction(count) = Cardinality(Numbered(T, count))
<1> DEFINE h == [s \in SUBSET T |-> Cardinality(Numbered(s, count))]
           g == CHOOSE f : Sums(T, count, f)
           any(s) == CHOOSE x \in s : TRUE
<1>1. \A s \in SUBSET T : s # {} => /\ any(s) \in s /\ s \ {any(s)} \in SUBSET T
                                    /\ h[s] = count[any(s)] + h[s \ {any(s)}]
  <2> TAKE s \in SUBSET T
  <2> HAVE s # {}
  <2>1. any(s) \in s /\ s \ {any(s)} \in SUBSET T /\ IsFiniteSet(s) /\ \A l \in s : count[l] \in Nat
    BY FS_Subset
  <2> HIDE DEF any
  <2>2. Cardinality(Numbered(s, count)) = count[any(s)] + Cardinality(Numbered(s \ {any(s)}, count))
    BY <2>1, NumberedParts
  <2> QED BY <2>1, <2>2
<1>2. h[{}] = 0
  BY FS_EmptySet DEF Numbered
<1>3. Sums(T, count, h)
  <2>1. \A s \in SUBSET T : h[s] = IF s = {} THEN 0 ELSE count[any(s)] + h[s \ {any(s)}]
    BY <1>1, <1>2
  <2> DEFINE u == [s \in SUBSET T |-> IF s = {} THEN 0 ELSE count[any(s)] + h[s \ {any(s)}]]
  <2>2. h = u
    <3>1. h = [s \in SUBSET T |-> h[s]]
      OBVIOUS
    <3> HIDE DEF h
    <3> QED BY <2>1, <3>1
  <2> QED BY <2>2 DEF Sums
<1>4. Sums(T, count, g)
  BY <1>3
<1>5. \A s \in SUBSET T : g[s] = IF s = {} THEN 0 ELSE count[any(s)] + g[s \ {any(s)}]
  <2> HIDE DEF g
  <2>1. g = [s \in SUBSET T |-> IF s = {} THEN 0 ELSE count[any(s)] + g[s \ {any(s)}]]
    BY <1>4 DEF Sums
  <2> QED BY <2>1
<1> HIDE DEF g, h, any
<1> DEFINE Good == {n \in Nat : \A s \in SUBSET T : Cardinality(s) = n => g[s] = h[s]}
<1>6. 0 \in Good
  <2>1. ASSUME NEW s \in SUBSET T, Cardinality(s) = 0 PROVE g[s] = h[s]
    <3>1. IsFiniteSet(s)
      BY FS_Subset
    <3>2. s = {}
      BY <2>1, <3>1, FS_EmptySet
    <3> QED BY <1>2, <1>5, <3>2
  <2> QED BY <2>1
<1>7. ASSUME NEW n \in Nat, n \in Good PROVE n + 1 \in Good
  <2>1. ASSUME NEW s \in SUBSET T, Cardinality(s) = n + 1 PROVE g[s] = h[s]
    <3>1. IsFiniteSet(s)
      BY FS_Subset
    <3>2. s # {}
      BY <2>1, FS_EmptySet
    <3>3. any(s) \in s /\ s \ {any(s)} \in SUBSET T /\ h[s] = count[any(s)] + h[s \ {any(s)}]
      BY <1>1, <3>2
    <3>4. Cardinality(s \ {any(s)}) = n
      <4>1. Cardinality(s \ {any(s)}) = Cardinality(s) - 1
        BY <3>1, <3>3, FS_RemoveElement
      <4> QED BY <1>7, <2>1, <4>1
    <3>5. g[s \ {any(s)}] = h[s \ {any(s)}]
      BY <1>7, <3>3, <3>4
    <3> QED BY <1>5, <3>2, <3>3, <3>5
  <2>2. n + 1 \in Nat
    OBVIOUS
  <2> HIDE DEF g, h
  <2> QED BY <2>1, <2>2
<1>8. Nat \subseteq Good
  <2> HIDE DEF Good
  <2> QED BY <1>6, <1>7, EveryNat
<1>9. g[T] = h[T]
  <2>1. Cardinality(T) \in Nat
    BY FS_CardinalityType
  <2> QED BY <1>8, <2>1
<1>10. LL!SumFunction(count) = g[T]
  <2>1. LL!SumFunctionOnSet(count, T) = (CHOOSE f : Sums(T, count, f))[T]
    BY DEF LL!SumFunctionOnSet, LL!FoldFunctionOnSet, LL!MapThenFoldSet, Sums
  <2> QED BY <2>1 DEF LL!SumFunction, g
<1> QED BY <1>9, <1>10 DEF h

(* No position belongs to two lists.                                         *)
LEMMA PlacesApart ==
  ASSUME NEW c \in Registers, NEW l \in Lists, NEW m \in Lists, NEW j \in Nat, NEW k \in Nat,
         LL!Place(c, l, j) = LL!Place(c, m, k)
  PROVE  l = m /\ j = k
<1> DEFINE h == c.head_select
           a == (l - h) % N
           b == (m - h) % N
<1>1. /\ h \in 0 .. N - 1 /\ N \in Nat \ {0}
      /\ l \in 0 .. N - 1 /\ m \in 0 .. N - 1
  BY Constants DEF Registers
<1>2. LL!Place(c, l, j) = a + (N * j) + 1 /\ LL!Place(c, m, k) = b + (N * k) + 1
  BY DEF LL!Place, N
<1>3. \A x \in Int : x % N \in 0 .. N - 1 /\ x \div N \in Int /\ x = (N * (x \div N)) + (x % N)
  BY <1>1, ModParts
<1>4. a \in 0 .. N - 1 /\ b \in 0 .. N - 1 /\ l - h \in Int /\ m - h \in Int
  BY <1>1, <1>3
<1>5. PICK v, w \in Int : l - h = (N * v) + a /\ m - h = (N * w) + b
  BY <1>3, <1>4
<1> HIDE DEF a, b
<1> DEFINE x == N * j
           y == N * k
<1>6. x \in Int /\ y \in Int
  BY <1>1
<1>7. ASSUME NEW z \in Int, z = x + a PROVE z % N = a
  <2>1. z = (N * j) + a /\ j \in Int
    BY <1>7
  <2> QED BY <1>1, <1>4, <2>1, ModIs
<1>8. ASSUME NEW z \in Int, z = y + b PROVE z % N = b
  <2>1. z = (N * k) + b /\ k \in Int
    BY <1>8
  <2> QED BY <1>1, <1>4, <2>1, ModIs
<1>14. LL!Place(c, l, j) = a + x + 1 /\ LL!Place(c, m, k) = b + y + 1
  BY <1>2
<1> HIDE DEF x, y
<1>15. a + x + 1 = b + y + 1 /\ a \in Int /\ b \in Int
  <2>1. a \in Int /\ b \in Int
    BY <1>1, <1>4
  <2> QED BY <1>14, <2>1, Zenon
<1>12. x + a = y + b
  BY <1>6, <1>15
<1>13. a = b /\ x = y
  <2>1. x + a \in Int
    BY <1>4, <1>6
  <2>2. a = b
    BY <1>7, <1>8, <1>12, <2>1
  <2> QED BY <1>4, <1>6, <1>12, <2>2
<1>9. N * j = N * k
  BY <1>13 DEF x, y
<1>10. j = k
  BY <1>1, <1>9
<1>11. l = m
  <2>1. l - m = (N * v) - (N * w) /\ N * v \in Int /\ N * w \in Int
    BY <1>1, <1>4, <1>5, <1>13
  <2>2. v = w
    <3>1. v < w => (N * v) <= (N * w) - N
      BY <1>1
    <3>2. v > w => (N * v) >= (N * w) + N
      BY <1>1
    <3> QED BY <1>1, <2>1, <3>1, <3>2
  <2> QED BY <1>1, <2>1, <2>2
<1> QED BY <1>10, <1>11

(* The number of items is the length of the queue.                           *)
LEMMA ItemsAre ==
  ASSUME NEW c, NEW ptr, NEW q \in Seq(Address), ListInv(c, ptr, q)
  PROVE  LL!items(c) = Len(q)
<1> DEFINE P == Numbered(Lists, c.count)
           F == [p \in P |-> LL!Place(c, p[1], p[2] - 1)]
<1>1. /\ c \in Registers /\ Len(q) \in Nat /\ N \in Nat \ {0}
      /\ c.count \in [Lists -> Nat] /\ Lists = 0 .. N - 1
  BY Constants DEF ListInv, Registers
<1>2. \A l \in Lists : /\ c.count[l] \in Nat
                       /\ LL!Place(c, l, c.count[l]) \in Len(q) + 1 .. Len(q) + N
  BY <1>1 DEF ListInv, LL!InTurn, Lists, N
<1>3. IsFiniteSet(Lists)
  BY <1>1, FS_Interval
<1>4. IsFiniteSet(P) /\ LL!items(c) = Cardinality(P)
  <2>1. DOMAIN c.count = Lists
    BY <1>1
  <2>2. IsFiniteSet(P)
    BY <1>2, <1>3, NumberedParts
  <2>3. LL!SumFunction(c.count) = Cardinality(P)
    BY <1>2, <1>3, <2>1, SumIs
  <2>4. LL!items(c) = LL!SumFunction(c.count)
    BY DEF LL!items
  <2> QED BY <2>2, <2>3, <2>4
<1>5. \A p \in P : /\ p = <<p[1], p[2]>> /\ p[1] \in Lists
                   /\ p[2] \in 1 .. c.count[p[1]] /\ p[2] - 1 \in Nat /\ p[2] - 1 < c.count[p[1]]
  BY <1>2 DEF Numbered
<1>6. \A l \in Lists : \A k \in Nat :
         /\ LL!Place(c, l, k) \in Nat /\ LL!Place(c, l, k) >= 1
         /\ k < c.count[l] <=> LL!Place(c, l, k) <= Len(q)
  <2> TAKE l \in Lists
  <2> TAKE k \in Nat
  <2>1. LL!Place(c, l, k) \in Nat /\ LL!Place(c, l, k) >= 1 /\ LL!Place(c, l, c.count[l]) \in Nat
    BY <1>1, <1>2, Positions
  <2>2. k < c.count[l] => LL!Place(c, l, k) + N <= LL!Place(c, l, c.count[l])
    BY <1>1, <1>2, Positions
  <2>3. k > c.count[l] => LL!Place(c, l, c.count[l]) + N <= LL!Place(c, l, k)
    BY <1>1, <1>2, Positions
  <2> QED BY <1>1, <1>2, <2>1, <2>2, <2>3
<1>7. F \in Injection(P, 1 .. Len(q))
  <2>1. F \in [P -> 1 .. Len(q)]
    BY <1>1, <1>5, <1>6
  <2>2. ASSUME NEW x \in P, NEW y \in P, F[x] = F[y] PROVE x = y
    <3>1. LL!Place(c, x[1], x[2] - 1) = LL!Place(c, y[1], y[2] - 1)
      BY <2>2
    <3>2. x[1] = y[1] /\ x[2] - 1 = y[2] - 1
      BY <1>1, <1>5, <3>1, PlacesApart
    <3>3. x[2] \in Int /\ y[2] \in Int
      BY <1>2, <1>5
    <3> QED BY <1>5, <3>2, <3>3
  <2> QED BY <2>1, <2>2 DEF Injection, IsInjective
<1>8. F \in Surjection(P, 1 .. Len(q))
  <2>1. ASSUME NEW i \in 1 .. Len(q) PROVE \E p \in P : F[p] = i
    <3>1. PICK l \in Lists, k \in Nat : i = LL!Place(c, l, k)
      BY <1>1, EveryPosition
    <3>2. k < c.count[l]
      BY <1>1, <1>6, <3>1
    <3>3. <<l, k + 1>> \in P /\ (k + 1) - 1 = k
      BY <1>2, <3>2 DEF Numbered
    <3> DEFINE p == <<l, k + 1>>
    <3>4. p \in P /\ p[1] = l /\ p[2] - 1 = k
      BY <3>3
    <3> HIDE DEF p, P
    <3>5. F[p] = i
      BY <3>1, <3>4
    <3> QED BY <3>4, <3>5
  <2> HIDE DEF P
  <2> QED BY <1>7, <2>1 DEF Surjection, Injection
<1>9. Cardinality(P) = Cardinality(1 .. Len(q))
  <2> HIDE DEF P, F
  <2> QED BY <1>4, <1>7, <1>8, FS_Bijection DEF Bijection, ExistsBijection
<1>10. Cardinality(1 .. Len(q)) = Len(q)
  <2> DEFINE n == Len(q)
  <2>1. n \in Nat
    BY <1>1
  <2> HIDE DEF n
  <2>2. Cardinality(1 .. n) = n
    BY <2>1, FS_Interval
  <2> QED BY <2>2 DEF n
<1> QED BY <1>4, <1>9, <1>10

\* A function that satisfies the recursion of Chain
Follows(c, l, ram, g) ==
    g = [n \in 0 .. c.count[l] - 1 |->
            IF n = 0 THEN LL!FirstOf(c, l) ELSE IF g[n - 1] = LL!NoAddr THEN LL!NoAddr ELSE ram[g[n - 1]]]

(* The chain of a list goes from place to place.                             *)
LEMMA ChainIs ==
  ASSUME NEW c, NEW ptr, NEW q \in Seq(Address), ListInv(c, ptr, q), NEW l \in Lists
  PROVE  \A k \in Nat : k < c.count[l] => LL!Chain(c, l, ptr)[k] = q[LL!Place(c, l, k)]
<1> DEFINE n == c.count[l]
           h == [k \in 0 .. n - 1 |-> q[LL!Place(c, l, k)]]
           g == CHOOSE f : Follows(c, l, ptr, f)
<1>1. /\ c \in Registers /\ Len(q) \in Nat /\ N \in Nat \ {0} /\ n \in Nat
      /\ LL!Place(c, l, n) \in Len(q) + 1 .. Len(q) + N
      /\ \A i \in 1 .. Len(q) - N : ptr[q[i]] = q[i + N]
      /\ n > 0 => LL!FirstOf(c, l) = q[LL!Place(c, l, 0)]
  <2>1. c \in Registers /\ LL!InTurn(c, ptr, q) /\ Len(q) \in Nat /\ N \in Nat \ {0}
    BY Constants DEF ListInv
  <2>2. n \in Nat
    BY <2>1 DEF Registers
  <2>3. /\ LL!Place(c, l, n) \in Len(q) + 1 .. Len(q) + N
        /\ \A i \in 1 .. Len(q) - N : ptr[q[i]] = q[i + N]
        /\ n > 0 => LL!FirstOf(c, l) = q[LL!Place(c, l, 0)]
    BY <2>1 DEF LL!InTurn, Lists, N
  <2> QED BY <2>1, <2>2, <2>3
<1>2. LL!NoAddr \notin Address /\ \A i \in 1 .. Len(q) : q[i] \in Address
  BY Constants DEF Address, NoAddr
<1>3. \A k \in Nat : k < n => /\ LL!Place(c, l, k) \in 1 .. Len(q)
                              /\ LL!Place(c, l, k + 1) = LL!Place(c, l, k) + N
  <2> TAKE k \in Nat
  <2> HAVE k < n
  <2>1. /\ LL!Place(c, l, k) \in Nat /\ LL!Place(c, l, k) >= 1
        /\ LL!Place(c, l, k + 1) = LL!Place(c, l, k) + N
        /\ LL!Place(c, l, k) + N <= LL!Place(c, l, n)
    BY <1>1, Positions
  <2> QED BY <1>1, <2>1
<1> HIDE DEF n
<1>4. \A k \in 1 .. n - 1 : ptr[q[LL!Place(c, l, k - 1)]] = q[LL!Place(c, l, k)]
  <2> TAKE k \in 1 .. n - 1
  <2>1. k - 1 \in Nat /\ k \in Nat /\ k - 1 < n /\ k < n /\ (k - 1) + 1 = k
    BY <1>1
  <2>2. LL!Place(c, l, k) = LL!Place(c, l, k - 1) + N /\ LL!Place(c, l, k) \in 1 .. Len(q)
        /\ LL!Place(c, l, k - 1) \in 1 .. Len(q)
    BY <1>3, <2>1
  <2>3. LL!Place(c, l, k - 1) \in 1 .. Len(q) - N
    BY <1>1, <2>2
  <2> QED BY <1>1, <2>2, <2>3
<1>5. Follows(c, l, ptr, h)
  <2> DEFINE u == [k \in 0 .. n - 1 |->
                     IF k = 0 THEN LL!FirstOf(c, l)
                     ELSE IF h[k - 1] = LL!NoAddr THEN LL!NoAddr ELSE ptr[h[k - 1]]]
  <2>1. ASSUME NEW k \in 0 .. n - 1
        PROVE  h[k] = IF k = 0 THEN LL!FirstOf(c, l)
                      ELSE IF h[k - 1] = LL!NoAddr THEN LL!NoAddr ELSE ptr[h[k - 1]]
    <3>1. CASE k = 0
      BY <1>1, <3>1 DEF n
    <3>2. CASE k # 0
      <4>1. k \in 1 .. n - 1 /\ k - 1 \in 0 .. n - 1 /\ k - 1 \in Nat /\ k - 1 < n
        BY <1>1, <3>2
      <4>2. h[k - 1] = q[LL!Place(c, l, k - 1)] /\ h[k] = q[LL!Place(c, l, k)]
        BY <4>1
      <4>3. h[k - 1] \in Address
        BY <1>2, <1>3, <4>1, <4>2
      <4>4. ptr[h[k - 1]] = h[k]
        BY <1>4, <4>1, <4>2
      <4> HIDE DEF h
      <4> QED BY <1>2, <3>2, <4>3, <4>4
    <3> QED BY <3>1, <3>2
  <2>2. h = u
    <3>1. h = [k \in 0 .. n - 1 |-> h[k]]
      OBVIOUS
    <3> HIDE DEF h
    <3> QED BY <2>1, <3>1
  <2> QED BY <2>2 DEF Follows, n
<1>6. Follows(c, l, ptr, g)
  BY <1>5
<1>7. \A k \in 0 .. n - 1 : g[k] = IF k = 0 THEN LL!FirstOf(c, l)
                                   ELSE IF g[k - 1] = LL!NoAddr THEN LL!NoAddr ELSE ptr[g[k - 1]]
  <2> HIDE DEF g
  <2>1. g = [k \in 0 .. n - 1 |-> IF k = 0 THEN LL!FirstOf(c, l)
                                  ELSE IF g[k - 1] = LL!NoAddr THEN LL!NoAddr ELSE ptr[g[k - 1]]]
    BY <1>6 DEF Follows, n
  <2> QED BY <2>1
<1>8. LL!Chain(c, l, ptr) = g
  BY DEF LL!Chain, Follows
<1> HIDE DEF g
<1> DEFINE Good == {k \in Nat : k < n => g[k] = q[LL!Place(c, l, k)]}
<1>9. 0 \in Good
  <2>1. 0 < n => 0 \in 0 .. n - 1
    BY <1>1 DEF n
  <2> QED BY <1>1, <1>7, <2>1 DEF n
<1>10. ASSUME NEW k \in Nat, k \in Good PROVE k + 1 \in Good
  <2> SUFFICES ASSUME k + 1 < n PROVE g[k + 1] = q[LL!Place(c, l, k + 1)]
    OBVIOUS
  <2>1. k + 1 \in 1 .. n - 1 /\ k + 1 \in 0 .. n - 1 /\ (k + 1) - 1 = k /\ k < n /\ k + 1 # 0
    BY <1>1 DEF n
  <2>2. g[k] = q[LL!Place(c, l, k)]
    BY <1>10, <2>1
  <2>3. g[k] \in Address
    BY <1>2, <1>3, <2>1, <2>2
  <2>4. g[k + 1] = IF g[k] = LL!NoAddr THEN LL!NoAddr ELSE ptr[g[k]]
    BY <1>7, <2>1
  <2>5. ptr[q[LL!Place(c, l, k)]] = q[LL!Place(c, l, k + 1)]
    BY <1>4, <2>1
  <2> QED BY <1>2, <2>2, <2>3, <2>4, <2>5
<1>11. Nat \subseteq Good
  <2> HIDE DEF Good
  <2> QED BY <1>9, <1>10, EveryNat
<1> QED BY <1>8, <1>11 DEF n

(* The addresses that the links of the pointer RAM name are the queue.       *)
LEMMA AddressesAre ==
  ASSUME NEW c, NEW ptr, NEW q \in Seq(Address), ListInv(c, ptr, q)
  PROVE  LL!Addresses(c, ptr) = q
<1> DEFINE l(i) == (c.head_select + i - 1) % N
           k(i) == (i - 1) \div N
           t == [i \in 1 .. Len(q) |-> IF k(i) < c.count[l(i)] THEN LL!Chain(c, l(i), ptr)[k(i)]
                                       ELSE LL!NoAddr]
<1>1. LL!Addresses(c, ptr) = t
  BY ItemsAre DEF LL!Addresses, N
<1>2. ASSUME NEW i \in 1 .. Len(q)
      PROVE  t[i] = q[i]
  <2>1. c \in Registers /\ i \in Nat /\ i >= 1 /\ Len(q) \in Nat /\ N \in Nat \ {0}
    BY Constants DEF ListInv
  <2>2. l(i) \in Lists /\ k(i) \in Nat /\ i = LL!Place(c, l(i), k(i))
    BY <2>1, PositionOf
  <2>3. t[i] = IF k(i) < c.count[l(i)] THEN LL!Chain(c, l(i), ptr)[k(i)] ELSE LL!NoAddr
    OBVIOUS
  <2> HIDE DEF l, k, t
  <2>4. LL!Place(c, l(i), c.count[l(i)]) \in Len(q) + 1 .. Len(q) + N /\ c.count[l(i)] \in Nat
    BY <2>1, <2>2 DEF ListInv, LL!InTurn, Lists, N, Registers
  <2>5. k(i) < c.count[l(i)]
    <3>1. k(i) > c.count[l(i)] => LL!Place(c, l(i), c.count[l(i)]) + N <= LL!Place(c, l(i), k(i))
      BY <2>1, <2>2, <2>4, Positions
    <3> QED BY <2>1, <2>2, <2>4, <3>1
  <2>6. LL!Chain(c, l(i), ptr)[k(i)] = q[LL!Place(c, l(i), k(i))]
    BY <2>2, <2>5, ChainIs
  <2> QED BY <2>2, <2>3, <2>5, <2>6
<1>3. q = [i \in 1 .. Len(q) |-> q[i]]
  OBVIOUS
<1>4. t = [i \in 1 .. Len(q) |-> t[i]]
  OBVIOUS
<1> HIDE DEF t
<1> QED BY <1>1, <1>2, <1>3, <1>4

(* The arbiter of a read port grants one FIFO.                               *)

\* Every FIFO has one place in the order.
IsOrder(o) ==
    /\ o \in [1 .. NumFifos -> Fifo]
    /\ \A i, j \in 1 .. NumFifos : o[i] = o[j] => i = j
    /\ \A f \in Fifo : \E i \in 1 .. NumFifos : o[i] = f

LEMMA FirstOrder == IsOrder(LRU!InitOrder)
<1> DEFINE o == LRU!InitOrder
<1>1. o = [i \in 1 .. NumFifos |-> i - 1] /\ Fifo = 0 .. NumFifos - 1 /\ NumFifos \in Nat
  BY Constants DEF LRU!InitOrder, Fifo
<1>2. o \in [1 .. NumFifos -> Fifo] /\ \A i, j \in 1 .. NumFifos : o[i] = o[j] => i = j
  BY <1>1
<1>3. ASSUME NEW f \in Fifo PROVE \E i \in 1 .. NumFifos : o[i] = f
  <2>1. f + 1 \in 1 .. NumFifos /\ o[f + 1] = f
    BY <1>1
  <2> QED BY <2>1
<1> QED BY <1>2, <1>3 DEF IsOrder

LEMMA OneGrant ==
  ASSUME NEW o, IsOrder(o), NEW S \in SUBSET Fifo, NEW r \in S, LRU!CanGrant(o, S, r)
  PROVE  LRU!Grant(o, S) = {r}
<1>1. r \in LRU!Grant(o, S)
  BY DEF LRU!Grant
<1>2. ASSUME NEW s \in LRU!Grant(o, S), s # r PROVE FALSE
  <2>1. s \in S /\ LRU!CanGrant(o, S, s)
    BY <1>2 DEF LRU!Grant
  <2>2. PICK i, j \in 1 .. NumFifos : o[i] = r /\ o[j] = s
    BY <2>1 DEF IsOrder
  <2>3. i < j \/ j < i
    BY <1>2, <2>2, Constants
  <2>4. LRU!Before(o, r, s) \/ LRU!Before(o, s, r)
    BY <2>2, <2>3 DEF LRU!Before
  <2> QED BY <2>1, <2>4 DEF LRU!CanGrant
<1> QED BY <1>1, <1>2

LEMMA OrderStep ==
  ASSUME NEW o, IsOrder(o), NEW S \in SUBSET Fifo
  PROVE  IsOrder(LRU!OrderNext(o, S))
<1>1. CASE S = {}
  BY <1>1 DEF LRU!OrderNext
<1>2. CASE S # {}
  <2> DEFINE M == NumFifos
             g == CHOOSE r \in LRU!Grant(o, S) : TRUE
             place == CHOOSE i \in 1 .. M : o[i] = g
             t == [i \in 1 .. M |-> IF i = M THEN g ELSE IF i < place THEN o[i] ELSE o[i + 1]]
  <2>1. M \in Nat /\ M >= 2 /\ o \in [1 .. M -> Fifo] /\ o \in Seq(Fifo) /\ Len(o) = M
    BY Constants DEF IsOrder
  <2>2. g \in Fifo
    <3> DEFINE I == {i \in 1 .. M : o[i] \in S}
    <3>1. I \in SUBSET Nat /\ I # {}
      BY <1>2, <2>1 DEF IsOrder
    <3>2. PICK i \in I : \A j \in I : i <= j
      <4> HIDE DEF I
      <4> QED BY <3>1, LeastNat
    <3>3. o[i] \in S /\ LRU!CanGrant(o, S, o[i])
      <4> SUFFICES ASSUME NEW s \in S, LRU!Before(o, s, o[i]) PROVE FALSE
        BY <3>2 DEF LRU!CanGrant
      <4>1. PICK a, b \in 1 .. M : a < b /\ o[a] = s /\ o[b] = o[i]
        BY DEF LRU!Before
      <4>2. b = i /\ a \in I
        BY <3>2, <4>1 DEF IsOrder
      <4> QED BY <2>1, <3>2, <4>1, <4>2
    <3>4. LRU!Grant(o, S) # {} /\ LRU!Grant(o, S) \in SUBSET Fifo
      BY <3>3 DEF LRU!Grant
    <3> QED BY <3>4
  <2> HIDE DEF g
  <2>3. place \in 1 .. M /\ o[place] = g
    BY <2>2 DEF IsOrder
  <2>4. LRU!OrderNext(o, S) = Append(LRU!RemoveAt(o, place), g)
    BY <1>2 DEF LRU!OrderNext, g
  <2> HIDE DEF place
  <2>5. Append(LRU!RemoveAt(o, place), g) = t
    <3> DEFINE u == SubSeq(o, 1, place - 1)
               v == SubSeq(o, place + 1, M)
    <3>1. /\ u \in Seq(Fifo) /\ Len(u) = place - 1
          /\ \A i \in 1 .. place - 1 : u[i] = o[i]
      BY <2>1, <2>3
    <3>2. /\ v \in Seq(Fifo) /\ Len(v) = M - place
          /\ \A i \in 1 .. M - place : v[i] = o[i + place]
      BY <2>1, <2>3
    <3>3. LRU!RemoveAt(o, place) = u \o v
      BY <2>1 DEF LRU!RemoveAt
    <3> HIDE DEF u, v
    <3>4. /\ u \o v \in Seq(Fifo) /\ Len(u \o v) = M - 1
          /\ \A i \in 1 .. M - 1 : (u \o v)[i] = IF i < place THEN o[i] ELSE o[i + 1]
      <4>1. u \o v \in Seq(Fifo) /\ Len(u \o v) = M - 1
        BY <2>1, <2>3, <3>1, <3>2
      <4>2. ASSUME NEW i \in 1 .. M - 1
            PROVE  (u \o v)[i] = IF i < place THEN o[i] ELSE o[i + 1]
        <5>1. CASE i < place
          <6>1. i \in 1 .. Len(u)
            BY <2>1, <2>3, <3>1, <5>1
          <6>2. (u \o v)[i] = u[i]
            BY <3>1, <3>2, <6>1
          <6> QED BY <2>3, <3>1, <5>1, <6>1, <6>2
        <5>2. CASE ~(i < place)
          <6>1. i \in Len(u) + 1 .. Len(u) + Len(v) /\ i - Len(u) = i - place + 1
            BY <2>1, <2>3, <3>1, <3>2, <5>2
          <6>2. (u \o v)[i] = v[i - Len(u)]
            BY <3>1, <3>2, <6>1
          <6>3. i - place + 1 \in 1 .. M - place /\ i - place + 1 + place = i + 1
            BY <2>1, <2>3, <5>2
          <6> QED BY <3>2, <5>2, <6>1, <6>2, <6>3
        <5> QED BY <5>1, <5>2
      <4> QED BY <4>1, <4>2
    <3> DEFINE w == u \o v
    <3>5. w \in Seq(Fifo) /\ Len(w) = M - 1
          /\ \A i \in 1 .. M - 1 : w[i] = IF i < place THEN o[i] ELSE o[i + 1]
      BY <3>4
    <3> HIDE DEF w
    <3>6. /\ Append(w, g) \in Seq(Fifo) /\ Len(Append(w, g)) = M
          /\ \A i \in 1 .. M : Append(w, g)[i] = t[i]
      BY <2>1, <2>2, <3>5
    <3>7. Append(w, g) = [i \in 1 .. M |-> Append(w, g)[i]]
      <4> DEFINE z == Append(w, g)
      <4>1. z \in Seq(Fifo) /\ Len(z) = M
        BY <3>6
      <4> HIDE DEF z
      <4>2. z = [i \in 1 .. M |-> z[i]]
        BY <4>1
      <4> QED BY <4>2 DEF z
    <3>8. Append(w, g) = t
      BY <3>6, <3>7
    <3> QED BY <3>3, <3>8 DEF w
  <2>6. IsOrder(t)
    <3>1. t \in [1 .. M -> Fifo]
      BY <2>1, <2>2, <2>3
    <3>2. ASSUME NEW i \in 1 .. M, NEW j \in 1 .. M, t[i] = t[j] PROVE i = j
      <4> DEFINE old(k) == IF k = M THEN place ELSE IF k < place THEN k ELSE k + 1
      <4>1. old(i) \in 1 .. M /\ old(j) \in 1 .. M /\ t[i] = o[old(i)] /\ t[j] = o[old(j)]
        BY <2>1, <2>3
      <4>2. old(i) = old(j)
        BY <3>2, <4>1 DEF IsOrder
      <4> QED BY <2>1, <2>3, <4>2
    <3>3. ASSUME NEW f \in Fifo PROVE \E i \in 1 .. M : t[i] = f
      <4>1. PICK k \in 1 .. M : o[k] = f
        BY DEF IsOrder
      <4>2. CASE k = place
        <5>1. M \in 1 .. M /\ t[M] = f
          BY <2>1, <2>3, <4>1, <4>2
        <5> QED BY <5>1
      <4>3. CASE k < place
        <5>1. k \in 1 .. M /\ t[k] = f
          BY <2>1, <2>3, <4>1, <4>3
        <5> QED BY <5>1
      <4>4. CASE k > place
        <5>1. k - 1 \in 1 .. M /\ t[k - 1] = f
          BY <2>1, <2>3, <4>1, <4>4
        <5> QED BY <5>1
      <4> QED BY <2>1, <2>3, <4>2, <4>3, <4>4
    <3> HIDE DEF t
    <3> QED BY <3>1, <3>2, <3>3 DEF IsOrder
  <2> QED BY <2>4, <2>5, <2>6
<1> QED BY <1>1, <1>2

-----------------------------------------------------------------------------
(* The staging buffers.                                                      *)

Word == Data \cup {NoData}

LEMMA BufferConstants ==
  /\ DataRamReadLatency \in Nat /\ SB!InternalDepth \in Nat /\ RegisterPopOutputs \in BOOLEAN
  /\ StagingBufferDepth = SB!InternalDepth + IF RegisterPopOutputs THEN 1 ELSE 0
  /\ StagingBufferDepth \in Nat \ {0} /\ NoData \notin Data
  /\ SB!Stage = 1 .. DataRamReadLatency /\ SB!Cell = 0 .. SB!InternalDepth - 1
BY SharedAssumption DEF SB!InternalDepth, SB!Stage, SB!Cell

(* A word as a sequence of the entries it is.                                *)
LEMMA OneFacts ==
  ASSUME NEW x \in Word
  PROVE  /\ SB!One(x) \in Seq(Data)
         /\ x = NoData => SB!One(x) = <<>> /\ Len(SB!One(x)) = 0
         /\ x # NoData => SB!One(x) = <<x>> /\ Len(SB!One(x)) = 1
BY DEF SB!One, Word

(* Concatenation of three sequences, and of two.                             *)
LEMMA Assoc ==
  ASSUME NEW s \in Seq(Data), NEW t \in Seq(Data), NEW u \in Seq(Data)
  PROVE  (s \o t) \o u = s \o (t \o u)
BY ConcatAssociative

LEMMA Joined ==
  ASSUME NEW s \in Seq(Data), NEW t \in Seq(Data)
  PROVE  /\ s \o t \in Seq(Data) /\ Len(s \o t) = Len(s) + Len(t)
         /\ s \o <<>> = s /\ <<>> \o s = s /\ Len(s) \in Nat
OBVIOUS

(* A queue that is shifted: r says whether its oldest entry left, w whether  *)
(* x was added.                                                              *)
OneIf(r, y) == IF r THEN <<y>> ELSE <<>>

IsShifted(s, t, x, y, r, w) ==
    /\ Len(t) = Len(s) + SB!B2N(w) - SB!B2N(r)
    /\ r => y = IF Len(s) > 0 THEN s[1] ELSE x
    /\ r /\ Len(s) = 0 => w
    /\ \A i \in 1 .. Len(t) :
          /\ i + SB!B2N(r) <= Len(s) => t[i] = s[i + SB!B2N(r)]
          /\ i + SB!B2N(r) > Len(s) => t[i] = x

LEMMA Shifted ==
  ASSUME NEW s \in Seq(Data), NEW t \in Seq(Data), NEW x \in Data, NEW y \in Data,
         NEW r \in BOOLEAN, NEW w \in BOOLEAN, IsShifted(s, t, x, y, r, w)
  PROVE  OneIf(r, y) \o t = s \o OneIf(w, x)
<1> USE DEF IsShifted, OneIf
<1> DEFINE a == IF r THEN <<y>> ELSE <<>>
           b == IF w THEN <<x>> ELSE <<>>
<1>1. a \in Seq(Data) /\ b \in Seq(Data) /\ Len(a) = SB!B2N(r) /\ Len(b) = SB!B2N(w)
  BY DEF SB!B2N
<1>2. a \o t \in Seq(Data) /\ s \o b \in Seq(Data)
  BY <1>1
<1>3. Len(a \o t) = Len(s \o b)
  BY <1>1 DEF SB!B2N
<1>4. ASSUME NEW i \in 1 .. Len(a \o t)
      PROVE  (a \o t)[i] = (s \o b)[i]
  <2>1. /\ (a \o t)[i] = IF i <= Len(a) THEN a[i] ELSE t[i - Len(a)]
        /\ (s \o b)[i] = IF i <= Len(s) THEN s[i] ELSE b[i - Len(s)]
    BY <1>1, <1>3
  <2>2. CASE r
    BY <1>1, <1>3, <2>1, <2>2 DEF SB!B2N
  <2>3. CASE ~r
    BY <1>1, <1>3, <2>1, <2>3 DEF SB!B2N
  <2> QED BY <2>2, <2>3
<1> HIDE DEF a, b
<1>5. a \o t = s \o b
  BY <1>2, <1>3, <1>4, SeqEqual
<1> QED BY <1>5 DEF a, b

(* The recursion that concatenates sequences has a solution.                 *)
LEMMA ConcatenationExists ==
  ASSUME NEW L \in Nat, NEW e \in [1 .. L -> Seq(Data)]
  PROVE  \E f \in [0 .. L -> Seq(Data)] :
            \A n \in 0 .. L : f[n] = IF n = 0 THEN <<>> ELSE f[n - 1] \o e[n]
<1> DEFINE G(m, f) == \A n \in 0 .. m : f[n] = IF n = 0 THEN <<>> ELSE f[n - 1] \o e[n]
           S == {m \in Nat : m <= L => \E f \in [0 .. m -> Seq(Data)] : G(m, f)}
<1>1. 0 \in S
  <2> DEFINE g == [n \in 0 .. 0 |-> <<>>]
  <2>1. g \in [0 .. 0 -> Seq(Data)] /\ G(0, g)
    OBVIOUS
  <2> HIDE DEF G, g
  <2> QED BY <2>1
<1>2. ASSUME NEW m \in Nat, m \in S
      PROVE  m + 1 \in S
  <2>1. CASE m + 1 <= L
    <3>1. PICK f \in [0 .. m -> Seq(Data)] : G(m, f)
      <4> HIDE DEF G
      <4> QED BY <1>2, <2>1
    <3> DEFINE g == [n \in 0 .. m + 1 |-> IF n = m + 1 THEN f[m] \o e[m + 1] ELSE f[n]]
    <3>2. f[m] \o e[m + 1] \in Seq(Data)
      <4>1. f[m] \in Seq(Data) /\ e[m + 1] \in Seq(Data)
        BY <2>1
      <4> QED BY <4>1
    <3>3. g \in [0 .. m + 1 -> Seq(Data)]
      BY <3>2
    <3>4. ASSUME NEW n \in 0 .. m + 1
          PROVE  g[n] = IF n = 0 THEN <<>> ELSE g[n - 1] \o e[n]
      <4>1. CASE n = m + 1
        <5>1. n # 0 /\ n - 1 = m /\ m \in 0 .. m + 1 /\ m # m + 1
          BY <4>1
        <5> QED BY <4>1, <5>1
      <4>2. CASE n # m + 1
        <5>1. n \in 0 .. m /\ (n # 0 => n - 1 \in 0 .. m /\ n - 1 # m + 1)
          BY <4>2
        <5>2. g[n] = f[n] /\ (n # 0 => g[n - 1] = f[n - 1])
          BY <5>1
        <5>3. f[n] = IF n = 0 THEN <<>> ELSE f[n - 1] \o e[n]
          BY <3>1, <5>1
        <5> HIDE DEF g
        <5> QED BY <5>2, <5>3
      <4> QED BY <4>1, <4>2
    <3>5. G(m + 1, g)
      <4> HIDE DEF g
      <4> QED BY <3>4
    <3> HIDE DEF G, g
    <3> QED BY <3>3, <3>5
  <2>2. CASE ~(m + 1 <= L)
    BY <2>2
  <2> QED BY <2>1, <2>2
<1>3. Nat \subseteq S
  <2> HIDE DEF S
  <2> QED BY <1>1, <1>2, EveryNat
<1>4. \E f \in [0 .. L -> Seq(Data)] : G(L, f)
  <2> HIDE DEF G
  <2> QED BY <1>3
<1> QED BY <1>4

(* The reads in the stages of the RAM, as a sequence, satisfy the recursion  *)
(* they are defined by.                                                      *)
StagesAre(f, reads) ==
    /\ f[0] = <<>>
    /\ \A n \in 1 .. DataRamReadLatency :
          f[n] = f[n - 1] \o SB!One(reads[DataRamReadLatency + 1 - n])
    /\ \A n \in 0 .. DataRamReadLatency : f[n] \in Seq(Data)

LEMMA StagesExist ==
  ASSUME NEW reads \in [SB!Stage -> Word]
  PROVE  \E f : StagesAre(f, reads) /\ SB!InStages(reads) = f[DataRamReadLatency]
<1> DEFINE L == DataRamReadLatency
           e == [n \in 1 .. L |-> SB!One(reads[L + 1 - n])]
           F(f) == [n \in 0 .. L |-> IF n = 0 THEN <<>> ELSE f[n - 1] \o SB!One(reads[L + 1 - n])]
<1>1. L \in Nat
  BY BufferConstants
<1>2. e \in [1 .. L -> Seq(Data)]
  <2> SUFFICES ASSUME NEW n \in 1 .. L PROVE SB!One(reads[L + 1 - n]) \in Seq(Data)
    OBVIOUS
  <2>1. L + 1 - n \in SB!Stage
    BY <1>1 DEF SB!Stage
  <2>2. reads[L + 1 - n] \in Word
    BY <2>1
  <2> QED BY <2>2, OneFacts
<1>3. PICK f \in [0 .. L -> Seq(Data)] :
         \A n \in 0 .. L : f[n] = IF n = 0 THEN <<>> ELSE f[n - 1] \o e[n]
  <2> HIDE DEF L, e
  <2> QED BY <1>1, <1>2, ConcatenationExists
<1>4. \A n \in 1 .. L : e[n] = SB!One(reads[L + 1 - n])
  BY Zenon
<1>5. \E g : g = F(g)
  <2>1. f = [n \in 0 .. L |-> f[n]]
    OBVIOUS
  <2>2. \A n \in 0 .. L : f[n] = IF n = 0 THEN <<>> ELSE f[n - 1] \o SB!One(reads[L + 1 - n])
    <3> SUFFICES ASSUME NEW n \in 0 .. L
                 PROVE  f[n] = IF n = 0 THEN <<>> ELSE f[n - 1] \o SB!One(reads[L + 1 - n])
      OBVIOUS
    <3>1. f[n] = IF n = 0 THEN <<>> ELSE f[n - 1] \o e[n]
      BY <1>3
    <3>2. n # 0 => e[n] = SB!One(reads[L + 1 - n])
      BY <1>1
    <3> HIDE DEF e
    <3> QED BY <3>1, <3>2
  <2>3. f = F(f)
    BY <2>1, <2>2, Zenon
  <2> HIDE DEF F
  <2> QED BY <2>3
<1> DEFINE h == CHOOSE g : g = F(g)
<1>6. h = F(h)
  BY <1>5, Zenon
<1>7. SB!InStages(reads) = h[L]
  BY Zenon DEF SB!InStages
<1> HIDE DEF h
<1>8. \A n \in 0 .. L : h[n] = IF n = 0 THEN <<>> ELSE h[n - 1] \o SB!One(reads[L + 1 - n])
  BY <1>6
<1>9. h[0] = <<>> /\ f[0] = <<>>
  <2>1. 0 \in 0 .. L
    BY <1>1
  <2> QED BY <1>3, <1>8, <2>1, Zenon
<1>10. ASSUME NEW n \in 1 .. L
       PROVE  /\ h[n] = h[n - 1] \o SB!One(reads[L + 1 - n])
              /\ f[n] = f[n - 1] \o SB!One(reads[L + 1 - n])
  <2>1. n \in 0 .. L /\ n # 0
    BY <1>1
  <2>2. h[n] = h[n - 1] \o SB!One(reads[L + 1 - n]) /\ f[n] = f[n - 1] \o e[n]
    BY <1>3, <1>8, <2>1, Zenon
  <2>3. e[n] = SB!One(reads[L + 1 - n])
    BY <1>4
  <2> HIDE DEF e
  <2> QED BY <2>2, <2>3
<1>11. \A n \in 0 .. L : h[n] = f[n]
  <2> DEFINE S == {n \in Nat : n <= L => h[n] = f[n]}
  <2> HIDE DEF e
  <2>1. 0 \in S
    BY <1>9
  <2>2. ASSUME NEW n \in Nat, n \in S
        PROVE  n + 1 \in S
    <3>1. CASE n + 1 <= L
      <4>1. n + 1 \in 1 .. L /\ n <= L /\ (n + 1) - 1 = n
        BY <1>1, <3>1
      <4>2. h[n] = f[n]
        BY <2>2, <4>1
      <4> DEFINE m == n + 1
      <4>3. /\ h[m] = h[m - 1] \o SB!One(reads[L + 1 - m])
            /\ f[m] = f[m - 1] \o SB!One(reads[L + 1 - m])
        <5>1. m \in 1 .. L
          BY <4>1
        <5> HIDE DEF m
        <5> QED BY <1>10, <5>1
      <4>4. h[m] = f[m]
        BY <4>1, <4>2, <4>3
      <4> QED BY <4>4
    <3>2. CASE ~(n + 1 <= L)
      BY <3>2
    <3> QED BY <3>1, <3>2
  <2>3. Nat \subseteq S
    <3> HIDE DEF S
    <3> QED BY <2>1, <2>2, EveryNat
  <2> QED BY <1>1, <2>3
<1>12. \A n \in 0 .. L : h[n] \in Seq(Data)
  BY <1>3, <1>11
<1> QED BY <1>7, <1>9, <1>10, <1>12 DEF StagesAre

(* The stages are a queue: the oldest read leaves, a new one enters.         *)
LEMMA StagesShift ==
  ASSUME DataRamReadLatency > 0, NEW r \in [SB!Stage -> Word], NEW s \in [SB!Stage -> Word],
         \A k \in 2 .. DataRamReadLatency : s[k] = r[k - 1]
  PROVE  SB!One(r[DataRamReadLatency]) \o SB!InStages(s) = SB!InStages(r) \o SB!One(s[1])
<1> DEFINE L == DataRamReadLatency
           out == SB!One(r[L])
           e(n) == SB!One(r[L + 1 - n])
<1>1. PICK f : StagesAre(f, r) /\ SB!InStages(r) = f[L]
  BY StagesExist
<1>2. PICK g : StagesAre(g, s) /\ SB!InStages(s) = g[L]
  BY StagesExist
<1>3. L \in Nat /\ L > 0
  BY BufferConstants
<1>4. out \in Seq(Data) /\ \A n \in 1 .. L : e(n) \in Seq(Data)
  <2>1. L \in SB!Stage /\ \A n \in 1 .. L : L + 1 - n \in SB!Stage
    BY <1>3 DEF SB!Stage
  <2> QED BY <2>1, OneFacts
<1>5. f[0] = <<>> /\ g[0] = <<>> /\ \A n \in 0 .. L : g[n] \in Seq(Data)
  BY <1>1, <1>2 DEF StagesAre
<1>6. \A n \in 1 .. L : f[n] = f[n - 1] \o e(n)
  BY <1>1 DEF StagesAre
<1>7. \A n \in 1 .. L - 1 : g[n] = g[n - 1] \o e(n + 1)
  <2> SUFFICES ASSUME NEW n \in 1 .. L - 1 PROVE g[n] = g[n - 1] \o e(n + 1)
    OBVIOUS
  <2>1. /\ n \in 1 .. L /\ L + 1 - n \in 2 .. L
        /\ (L + 1 - n) - 1 = L + 1 - (n + 1)
    BY <1>3
  <2>2. g[n] = g[n - 1] \o SB!One(s[L + 1 - n])
    BY <1>2, <2>1 DEF StagesAre
  <2>3. s[L + 1 - n] = r[L + 1 - (n + 1)]
    BY <2>1
  <2> QED BY <2>2, <2>3
<1>8. f[1] = f[0] \o out
  <2>1. 1 \in 1 .. L /\ 1 - 1 = 0 /\ L + 1 - 1 = L
    BY <1>3
  <2> QED BY <1>6, <2>1
<1>9. g[L] = g[L - 1] \o SB!One(s[1]) /\ SB!One(s[1]) \in Seq(Data)
  <2>1. L \in 1 .. L /\ L + 1 - L = 1 /\ 1 \in SB!Stage
    BY <1>3 DEF SB!Stage
  <2>2. g[L] = g[L - 1] \o SB!One(s[L + 1 - L])
    BY <1>2, <2>1 DEF StagesAre
  <2> QED BY <2>1, <2>2, OneFacts
<1> HIDE DEF out, e
<1> DEFINE S == {n \in Nat : n < L => out \o g[n] = f[n + 1]}
<1>10. 0 \in S
  BY <1>4, <1>5, <1>8
<1>11. ASSUME NEW n \in Nat, n \in S
       PROVE  n + 1 \in S
  <2>1. CASE n + 1 < L
    <3>1. /\ n + 1 \in 1 .. L - 1 /\ n + 2 \in 1 .. L /\ n \in 0 .. L /\ n < L
          /\ (n + 1) - 1 = n /\ (n + 2) - 1 = n + 1 /\ (n + 1) + 1 = n + 2
      BY <1>3, <2>1
    <3>2. g[n + 1] = g[n] \o e(n + 2)
      BY <1>7, <3>1
    <3>3. f[n + 2] = f[n + 1] \o e(n + 2)
      BY <1>6, <3>1
    <3>4. out \o (g[n] \o e(n + 2)) = (out \o g[n]) \o e(n + 2)
      <4>1. g[n] \in Seq(Data) /\ e(n + 2) \in Seq(Data)
        BY <1>4, <1>5, <3>1
      <4>2. PICK x \in Seq(Data) : x = e(n + 2)
        BY <4>1
      <4> QED BY <1>4, <4>1, <4>2, Assoc
    <3>5. out \o g[n] = f[n + 1]
      BY <1>11, <3>1
    <3>6. out \o g[n + 1] = f[n + 2]
      BY <3>2, <3>3, <3>4, <3>5
    <3> QED BY <3>1, <3>6
  <2>2. CASE ~(n + 1 < L)
    BY <2>2
  <2> QED BY <2>1, <2>2
<1>12. Nat \subseteq S
  <2> HIDE DEF S
  <2> QED BY <1>10, <1>11, EveryNat
<1>13. out \o g[L - 1] = f[L]
  <2>1. L - 1 \in Nat /\ L - 1 < L /\ (L - 1) + 1 = L
    BY <1>3
  <2> QED BY <1>12, <2>1
<1>14. out \o (g[L - 1] \o SB!One(s[1])) = (out \o g[L - 1]) \o SB!One(s[1])
  <2>1. g[L - 1] \in Seq(Data)
    BY <1>3, <1>5
  <2> QED BY <1>4, <1>9, <2>1, Assoc
<1>15. out \o SB!InStages(s) = SB!InStages(r) \o SB!One(s[1])
  BY <1>1, <1>2, <1>9, <1>13, <1>14
<1> QED BY <1>15 DEF out

(* What the stages hold is a sequence of entries, and not empty when a read  *)
(* returns.                                                                  *)
LEMMA StagesFacts ==
  ASSUME NEW r \in [SB!Stage -> Word]
  PROVE  /\ SB!InStages(r) \in Seq(Data)
         /\ DataRamReadLatency > 0 /\ r[DataRamReadLatency] # NoData => Len(SB!InStages(r)) > 0
         /\ DataRamReadLatency = 0 => SB!InStages(r) = <<>>
<1> DEFINE L == DataRamReadLatency
<1>1. L \in Nat
  BY BufferConstants
<1>2. PICK f : StagesAre(f, r) /\ SB!InStages(r) = f[L]
  BY StagesExist
<1>3. SB!InStages(r) \in Seq(Data)
  BY <1>1, <1>2 DEF StagesAre
<1>4. L = 0 => SB!InStages(r) = <<>>
  BY <1>2 DEF StagesAre
<1>6. ASSUME L > 0, r[L] # NoData PROVE Len(SB!InStages(r)) > 0
  <2> DEFINE s == [k \in SB!Stage |-> IF k = 1 THEN NoData ELSE r[k - 1]]
  <2>1. s \in [SB!Stage -> Word]
    BY <1>1 DEF SB!Stage, Word
  <2>2. s[1] = NoData /\ \A k \in 2 .. L : s[k] = r[k - 1]
    BY <1>1, <1>6 DEF SB!Stage
  <2> HIDE DEF s
  <2>3. SB!One(r[L]) \o SB!InStages(s) = SB!InStages(r) \o SB!One(s[1])
    BY <1>6, <2>1, <2>2, StagesShift
  <2>4. SB!InStages(s) \in Seq(Data)
    <3>1. PICK g : StagesAre(g, s) /\ SB!InStages(s) = g[L]
      BY <2>1, StagesExist
    <3> QED BY <1>1, <3>1 DEF StagesAre
  <2>5. SB!One(s[1]) = <<>>
    BY <2>2 DEF SB!One
  <2>6. SB!One(r[L]) \in Seq(Data) /\ Len(SB!One(r[L])) = 1
    <3>1. r[L] \in Word
      BY <1>1, <1>6 DEF SB!Stage
    <3> QED BY <1>6, <3>1, OneFacts
  <2>7. Len(SB!One(r[L]) \o SB!InStages(s)) = 1 + Len(SB!InStages(s))
    BY <2>4, <2>6, Joined
  <2>8. SB!InStages(r) \o SB!One(s[1]) = SB!InStages(r)
    BY <1>3, <2>5
  <2>9. Len(SB!InStages(s)) \in Nat
    BY <2>4
  <2> QED BY <2>3, <2>7, <2>8, <2>9
<1> QED BY <1>3, <1>4, <1>6

(* The ring of cells.                                                        *)

D == SB!InternalDepth

BufferType(b) ==
    /\ b.reads \in [SB!Stage -> Word]
    /\ b.reg \in Word /\ (~RegisterPopOutputs => b.reg = NoData)
    /\ b.buf \in Word /\ b.buf_bypass = FALSE
    /\ b.mem \in [SB!Cell -> Word] /\ b.maybe_full \in BOOLEAN
    /\ D > 1 => b.rd_ptr \in SB!Cell /\ b.wr_ptr \in SB!Cell

CellsAreFull(b) == \A i \in 0 .. SB!CellsUsed(b) - 1 : b.mem[SB!CellAt(b, i)] \in Data

\* Where a cell is, without the record.
At(p, i) == IF p + i < D THEN p + i ELSE p + i - D

LEMMA Ring ==
  ASSUME NEW b, BufferType(b), D > 1
  PROVE  /\ SB!CellsUsed(b) \in 0 .. D
         /\ SB!CellsUsed(b) = 0 <=> SB!circ_empty(b)
         /\ b.wr_ptr = At(b.rd_ptr, SB!CellsUsed(b))
         /\ \A i : SB!CellAt(b, i) = At(b.rd_ptr, i)
         /\ \A i \in 0 .. D : At(b.rd_ptr, i) \in SB!Cell
         /\ \A i, j \in 0 .. D - 1 : At(b.rd_ptr, i) = At(b.rd_ptr, j) => i = j
         /\ \A i \in 0 .. D - 1 : At(SB!NextCell(b.rd_ptr), i) = At(b.rd_ptr, i + 1)
         /\ At(b.rd_ptr, 0) = b.rd_ptr /\ At(b.rd_ptr, D) = b.rd_ptr
         /\ SB!NextCell(b.rd_ptr) \in SB!Cell /\ SB!NextCell(b.wr_ptr) \in SB!Cell
<1> DEFINE p == b.rd_ptr
           w == b.wr_ptr
           m == b.maybe_full
<1>1. /\ D \in Nat /\ D > 1 /\ p \in 0 .. D - 1 /\ w \in 0 .. D - 1 /\ m \in BOOLEAN
      /\ SB!Cell = 0 .. D - 1
  BY BufferConstants DEF BufferType, D
<1>2. /\ SB!CellsUsed(b) = IF p = w THEN IF m THEN D ELSE 0 ELSE IF p < w THEN w - p ELSE w - p + D
      /\ SB!circ_empty(b) <=> p = w /\ ~m
      /\ \A i : SB!CellAt(b, i) = At(p, i)
      /\ \A i : At(p, i) = IF p + i < D THEN p + i ELSE p + i - D
      /\ \A q : SB!NextCell(q) = IF q = D - 1 THEN 0 ELSE q + 1
  BY DEF SB!CellsUsed, SB!circ_empty, SB!CellAt, At, SB!NextCell, D
<1> DEFINE u == SB!CellsUsed(b)
<1>3. \A i : At(SB!NextCell(p), i) = IF SB!NextCell(p) + i < D THEN SB!NextCell(p) + i
                                     ELSE SB!NextCell(p) + i - D
  BY DEF At
<1> HIDE DEF p, w, m, u, D
<1>4. u \in 0 .. D /\ (u = 0 <=> SB!circ_empty(b)) /\ w = At(p, u)
  BY <1>1, <1>2 DEF u
<1>5. \A i \in 0 .. D : At(p, i) \in 0 .. D - 1
  BY <1>1, <1>2
<1>6. \A i, j \in 0 .. D - 1 : At(p, i) = At(p, j) => i = j
  BY <1>1, <1>2
<1>7. \A i \in 0 .. D - 1 : At(SB!NextCell(p), i) = At(p, i + 1)
  <2> TAKE i \in 0 .. D - 1
  <2>1. SB!NextCell(p) = IF p = D - 1 THEN 0 ELSE p + 1
    BY <1>2
  <2>2. At(p, i + 1) = IF p + (i + 1) < D THEN p + (i + 1) ELSE p + (i + 1) - D
    BY <1>2
  <2> QED BY <1>1, <1>3, <2>1, <2>2
<1>8. At(p, 0) = p /\ At(p, D) = p
  BY <1>1, <1>2
<1>9. SB!NextCell(p) \in 0 .. D - 1 /\ SB!NextCell(w) \in 0 .. D - 1
  BY <1>1, <1>2
<1> QED BY <1>1, <1>2, <1>4, <1>5, <1>6, <1>7, <1>8, <1>9 DEF p, w, u

(* A step of the ring: with R the head is freed, with W the next cell is     *)
(* taken into use.                                                           *)
LEMMA RingStep ==
  ASSUME NEW b, BufferType(b), NEW c, BufferType(c), D > 1, NEW W \in BOOLEAN, NEW R \in BOOLEAN,
         W => SB!CellsUsed(b) < D \/ R, R => SB!CellsUsed(b) > 0,
         c.rd_ptr = IF R THEN SB!NextCell(b.rd_ptr) ELSE b.rd_ptr,
         c.wr_ptr = IF W THEN SB!NextCell(b.wr_ptr) ELSE b.wr_ptr,
         c.maybe_full = IF W = R THEN b.maybe_full ELSE W
  PROVE  SB!CellsUsed(c) = SB!CellsUsed(b) + SB!B2N(W) - SB!B2N(R)
<1> DEFINE p == b.rd_ptr
           w == b.wr_ptr
           m == b.maybe_full
           u == SB!CellsUsed(b)
           pp == c.rd_ptr
           ww == c.wr_ptr
           mm == c.maybe_full
<1>1. /\ D \in Nat /\ D > 1 /\ p \in 0 .. D - 1 /\ w \in 0 .. D - 1 /\ m \in BOOLEAN
  BY BufferConstants DEF BufferType, D
<1>2. u = IF p = w THEN IF m THEN D ELSE 0 ELSE IF p < w THEN w - p ELSE w - p + D
  BY DEF SB!CellsUsed, D
<1>3. SB!CellsUsed(c) = IF pp = ww THEN IF mm THEN D ELSE 0
                        ELSE IF pp < ww THEN ww - pp ELSE ww - pp + D
  BY DEF SB!CellsUsed, D
<1>4. /\ pp = IF R THEN IF p = D - 1 THEN 0 ELSE p + 1 ELSE p
      /\ ww = IF W THEN IF w = D - 1 THEN 0 ELSE w + 1 ELSE w
      /\ mm = IF W = R THEN m ELSE W
      /\ (W => u < D \/ R) /\ (R => u > 0)
  BY DEF SB!NextCell, D
<1> HIDE DEF p, w, m, u, pp, ww, mm, D
<1>5. SB!CellsUsed(c) = u + (IF W THEN 1 ELSE 0) - (IF R THEN 1 ELSE 0)
  <2>1. CASE W /\ R
    <3>1. mm = m
      BY <1>4, <2>1
    <3> QED BY <1>1, <1>2, <1>3, <1>4, <2>1, <3>1
  <2>2. CASE W /\ ~R
    <3>1. mm /\ u < D /\ pp = p /\ ww = IF w = D - 1 THEN 0 ELSE w + 1
      BY <1>4, <2>2
    <3>2. SB!CellsUsed(c) = u + 1
      BY <1>1, <1>2, <1>3, <3>1
    <3> QED BY <1>1, <1>2, <2>2, <3>2
  <2>3. CASE ~W /\ R
    <3>1. ~mm /\ u > 0 /\ ww = w /\ pp = IF p = D - 1 THEN 0 ELSE p + 1
      BY <1>4, <2>3
    <3>2. SB!CellsUsed(c) = u - 1
      BY <1>1, <1>2, <1>3, <3>1
    <3> QED BY <1>1, <1>2, <2>3, <3>2
  <2>4. CASE ~W /\ ~R
    <3>1. mm = m
      BY <1>4, <2>4
    <3> QED BY <1>1, <1>2, <1>3, <1>4, <2>4, <3>1
  <2> QED BY <2>1, <2>2, <2>3, <2>4
<1> QED BY <1>5 DEF u, SB!B2N

LEMMA CellsSequence ==
  ASSUME NEW b, BufferType(b), D > 1, CellsAreFull(b)
  PROVE  /\ SB!Cells(b) \in Seq(Data) /\ Len(SB!Cells(b)) = SB!CellsUsed(b)
         /\ \A i \in 1 .. SB!CellsUsed(b) : SB!Cells(b)[i] = b.mem[At(b.rd_ptr, i - 1)]
<1>1. SB!CellsUsed(b) \in Nat /\ \A i : SB!CellAt(b, i) = At(b.rd_ptr, i)
  BY Ring, BufferConstants DEF D
<1>2. SB!Cells(b) = [i \in 1 .. SB!CellsUsed(b) |-> b.mem[At(b.rd_ptr, i - 1)]]
  BY <1>1 DEF SB!Cells, SB!CellEntry
<1>3. \A i \in 1 .. SB!CellsUsed(b) : b.mem[At(b.rd_ptr, i - 1)] \in Data
  <2> TAKE i \in 1 .. SB!CellsUsed(b)
  <2>1. i - 1 \in 0 .. SB!CellsUsed(b) - 1
    BY <1>1
  <2> QED BY <1>1, <2>1 DEF CellsAreFull
<1> DEFINE u == SB!CellsUsed(b)
           t == [i \in 1 .. u |-> b.mem[At(b.rd_ptr, i - 1)]]
<1>4. u \in Nat /\ \A i \in 1 .. u : t[i] \in Data
  BY <1>1, <1>3
<1>5. t = [i \in 1 .. u |-> t[i]]
  OBVIOUS
<1>6. \A i \in 1 .. u : t[i] = b.mem[At(b.rd_ptr, i - 1)]
  OBVIOUS
<1> HIDE DEF t, u
<1>7. t \in Seq(Data) /\ Len(t) = u
  BY <1>4, <1>5
<1> QED BY <1>2, <1>6, <1>7 DEF t, u

\* The head y leaves the cells if R, and x goes into the next cell if W.
CellsShift(b, c, x, y, R, W) ==
    /\ W => SB!CellsUsed(b) < D \/ R
    /\ R => SB!CellsUsed(b) > 0 /\ y = b.mem[b.rd_ptr]
    /\ c.rd_ptr = IF R THEN SB!NextCell(b.rd_ptr) ELSE b.rd_ptr
    /\ c.wr_ptr = IF W THEN SB!NextCell(b.wr_ptr) ELSE b.wr_ptr
    /\ c.maybe_full = IF W = R THEN b.maybe_full ELSE W
    /\ \A k \in SB!Cell : c.mem[k] = IF W /\ k = b.wr_ptr THEN x ELSE b.mem[k]

LEMMA CellsStep ==
  ASSUME NEW b, BufferType(b), NEW c, BufferType(c), D > 1, CellsAreFull(b),
         NEW x \in Data, NEW y \in Data, NEW R \in BOOLEAN, NEW W \in BOOLEAN,
         CellsShift(b, c, x, y, R, W)
  PROVE  /\ CellsAreFull(c)
         /\ OneIf(R, y) \o SB!Cells(c) = SB!Cells(b) \o OneIf(W, x)
<1> USE DEF CellsShift
<1> DEFINE u == SB!CellsUsed(b)
           v == SB!CellsUsed(c)
           r == SB!B2N(R)
           p == b.rd_ptr
<1>1. /\ D \in Nat /\ u \in 0 .. D /\ v \in 0 .. D /\ r \in {0, 1} /\ (R <=> r = 1)
      /\ v = u + SB!B2N(W) - r /\ SB!B2N(W) \in {0, 1} /\ (W <=> SB!B2N(W) = 1)
  <2>1. D \in Nat /\ u \in 0 .. D /\ v \in 0 .. D
    BY Ring, BufferConstants DEF D
  <2>2. v = u + SB!B2N(W) - r
    BY RingStep
  <2>3. r \in {0, 1} /\ (R <=> r = 1) /\ SB!B2N(W) \in {0, 1} /\ (W <=> SB!B2N(W) = 1)
    BY DEF SB!B2N
  <2> QED BY <2>1, <2>2, <2>3
<1>2. /\ b.wr_ptr = At(p, u) /\ SB!Cell = 0 .. D - 1
      /\ \A i \in 0 .. D : At(p, i) \in SB!Cell
      /\ \A i, j \in 0 .. D - 1 : At(p, i) = At(p, j) => i = j
      /\ At(p, 0) = p /\ At(p, D) = p
  BY Ring, BufferConstants DEF D
<1>3. \A i \in 0 .. D - 1 : At(c.rd_ptr, i) = At(p, i + r)
  <2>1. \A i \in 0 .. D - 1 : At(SB!NextCell(p), i) = At(p, i + 1)
    BY Ring
  <2>2. CASE R
    <3>1. r = 1 /\ c.rd_ptr = SB!NextCell(p)
      BY <1>1, <2>2
    <3> QED BY <2>1, <3>1
  <2>3. CASE ~R
    <3>1. r = 0 /\ c.rd_ptr = p
      BY <1>1, <2>3
    <3>2. \A i \in 0 .. D - 1 : i + 0 = i
      BY <1>1
    <3> HIDE DEF r, p
    <3> QED BY <3>1, <3>2
  <2> QED BY <2>2, <2>3
<1>4. (W => u < D \/ R) /\ (R => u > 0)
  OBVIOUS
<1> HIDE DEF u, v, r, p
<1>5. ASSUME NEW i \in 0 .. v - 1
      PROVE  /\ i + r < u => i + r \in 0 .. u - 1 /\ c.mem[At(c.rd_ptr, i)] = b.mem[At(p, i + r)]
             /\ i + r >= u => W /\ c.mem[At(c.rd_ptr, i)] = x
  <2>1. i \in 0 .. D - 1 /\ i + r \in 0 .. D /\ i + r < u + SB!B2N(W) /\ i \in Nat
    <3> DEFINE a == SB!B2N(W)
    <3>1. a \in {0, 1} /\ v = u + a - r /\ D \in Nat /\ u \in 0 .. D /\ v \in 0 .. D /\ r \in {0, 1}
      BY <1>1
    <3> HIDE DEF a, D
    <3>2. i \in 0 .. D - 1 /\ i + r \in 0 .. D /\ i + r < u + a /\ i \in Nat
      BY <3>1
    <3> QED BY <3>2 DEF a
  <2>2. At(c.rd_ptr, i) = At(p, i + r) /\ At(p, i + r) \in SB!Cell
    BY <1>2, <1>3, <2>1
  <2>3. CASE i + r < u
    <3>1. W => At(p, i + r) # b.wr_ptr
      <4> SUFFICES ASSUME W, At(p, i + r) = At(p, u) PROVE FALSE
        BY <1>2
      <4>1. CASE u < D
        <5>1. i + r \in 0 .. D - 1 /\ u \in 0 .. D - 1
          BY <1>1, <2>1, <2>3, <4>1
        <5>2. i + r = u
          BY <1>2, <5>1
        <5> QED BY <1>1, <2>1, <2>3, <5>2
      <4>2. CASE ~(u < D)
        <5>1. u = D /\ r = 1
          BY <1>1, <1>4, <4>2
        <5>2. At(p, i + r) = At(p, 0)
          BY <1>2, <5>1
        <5>3. i + r \in 0 .. D - 1 /\ 0 \in 0 .. D - 1
          BY <1>1, <2>1, <2>3, <5>1
        <5>4. i + r = 0
          BY <1>2, <5>2, <5>3
        <5> QED BY <2>1, <5>1, <5>4
      <4> QED BY <4>1, <4>2
    <3>2. c.mem[At(p, i + r)] = b.mem[At(p, i + r)]
      BY <2>2, <3>1
    <3> QED BY <1>1, <2>1, <2>2, <2>3, <3>2
  <2>4. CASE i + r >= u
    <3>1. W /\ i + r = u
      BY <1>1, <2>1, <2>4 DEF SB!B2N
    <3> QED BY <1>1, <1>2, <2>1, <2>2, <2>4, <3>1
  <2>5. u \in Nat /\ i + r \in Nat
    BY <1>1, <2>1
  <2> QED BY <2>3, <2>4, <2>5
<1>6. CellsAreFull(c)
  <2> SUFFICES ASSUME NEW i \in 0 .. v - 1 PROVE c.mem[At(c.rd_ptr, i)] \in Data
    BY Ring DEF CellsAreFull, v
  <2>1. CASE i + r < u
    <3>1. i + r \in 0 .. u - 1 /\ c.mem[At(c.rd_ptr, i)] = b.mem[At(p, i + r)]
      BY <1>5, <2>1
    <3>2. b.mem[At(p, i + r)] \in Data
      BY <3>1, Ring DEF CellsAreFull, u, p
    <3> QED BY <3>1, <3>2
  <2>2. CASE i + r >= u
    BY <1>5, <2>2
  <2>3. i + r \in Int /\ u \in Int
    BY <1>1
  <2> QED BY <2>1, <2>2, <2>3
<1> DEFINE s == SB!Cells(b)
           t == SB!Cells(c)
<1>7. /\ s \in Seq(Data) /\ Len(s) = u /\ \A i \in 1 .. u : s[i] = b.mem[At(p, i - 1)]
  BY CellsSequence DEF u, p
<1>8. /\ t \in Seq(Data) /\ Len(t) = v /\ \A i \in 1 .. v : t[i] = c.mem[At(c.rd_ptr, i - 1)]
  BY <1>6, CellsSequence DEF v
<1> HIDE DEF s, t
<1>9. IsShifted(s, t, x, y, R, W)
  <2>1. Len(t) = Len(s) + SB!B2N(W) - SB!B2N(R)
    BY <1>1, <1>7, <1>8 DEF r
  <2>2. R => Len(s) > 0 /\ y = s[1]
    <3> SUFFICES ASSUME R PROVE Len(s) > 0 /\ y = s[1]
      OBVIOUS
    <3>1. 1 \in 1 .. u /\ 1 - 1 = 0
      BY <1>1, <1>4
    <3>2. s[1] = b.mem[At(p, 0)]
      BY <1>7, <3>1
    <3> QED BY <1>1, <1>2, <1>4, <1>7, <3>2 DEF p
  <2>3. ASSUME NEW i \in 1 .. Len(t)
        PROVE  /\ i + r <= Len(s) => t[i] = s[i + r]
               /\ i + r > Len(s) => t[i] = x
    <3>1. /\ i - 1 \in 0 .. v - 1 /\ t[i] = c.mem[At(c.rd_ptr, i - 1)]
          /\ (i - 1) + r = (i + r) - 1 /\ i + r \in Nat /\ i + r >= 1
      BY <1>1, <1>8
    <3>2. CASE i + r <= Len(s)
      <4>1. i + r \in 1 .. u /\ (i - 1) + r < u
        BY <1>1, <1>7, <3>1, <3>2
      <4>2. t[i] = b.mem[At(p, (i - 1) + r)]
        BY <1>5, <3>1, <4>1
      <4>3. s[i + r] = b.mem[At(p, (i + r) - 1)]
        BY <1>7, <4>1
      <4> QED BY <1>1, <1>7, <3>1, <3>2, <4>2, <4>3
    <3>3. CASE i + r > Len(s)
      <4>1. (i - 1) + r >= u
        BY <1>1, <1>7, <3>1, <3>3
      <4> QED BY <1>1, <1>5, <1>7, <3>1, <3>3, <4>1
    <3>4. Len(s) \in Nat
      BY <1>1, <1>7
    <3> QED BY <3>1, <3>2, <3>3, <3>4
  <2> QED BY <2>1, <2>2, <2>3 DEF IsShifted, r
<1>10. OneIf(R, y) \o t = s \o OneIf(W, x)
  <2>1. s \in Seq(Data) /\ t \in Seq(Data)
    BY <1>7, <1>8
  <2> QED BY <1>9, <2>1, Shifted
<1> QED BY <1>6, <1>10 DEF s, t

(* A cycle of a staging buffer.  Each layer (the reads in flight, the cells, *)
(* the output register) satisfies one equation between sequences: what left  *)
(* in the cycle, followed by what is held after it, is what was held before  *)
(* it, followed by what came in.                                             *)

InputType(b, in) ==
    /\ in.bypass_valid = FALSE /\ in.rd_ready \in BOOLEAN /\ in.pop_ready \in BOOLEAN
    /\ SB!RdAddrBeat(b, in) => in.rd_data \in Data

\* What is read, what the RAM delivers, what leaves the cells, and what the
\* consumer takes.
Given(b, in) == OneIf(SB!RdAddrBeat(b, in), in.rd_data)
Delivered(b, in) == OneIf(SB!RdDataValid(b, in), SB!RdData(b, in))
InternalBeat(b, in) == SB!InternalPopValid(b, in) /\ SB!InternalPopReady(b, in)
Moved(b, in) == OneIf(InternalBeat(b, in), SB!InternalPopData(b, in))
Taken(b, in) == OneIf(SB!PopBeat(b, in), SB!PopData(b, in))

\* What the storage between the RAM and the output register holds.
Stored(b) == IF D = 0 THEN <<>> ELSE IF D = 1 THEN SB!One(b.buf) ELSE SB!Cells(b)

BufferInv(b) ==
    /\ BufferType(b)
    /\ D > 1 => CellsAreFull(b)
    /\ RegisterPopOutputs /\ b.reg = NoData => Stored(b) = <<>>
    /\ b.staged \in Nat /\ b.staged = Len(SB!Staged(b)) /\ b.staged <= StagingBufferDepth

\* The wires of a buffer without a bypass.
LEMMA BufferWires ==
  ASSUME NEW b, NEW in, b.buf_bypass = FALSE, in.bypass_valid = FALSE
  PROVE  /\ SB!BypassBeat(b, in) = FALSE
         /\ SB!RdAddrBeat(b, in) <=> /\ SB!SpaceAvailable(b, in) /\ in.total_items > 0
                                     /\ in.rd_ready
         /\ SB!PushValid(b, in) <=> SB!RdDataValid(b, in)
         /\ SB!RdDataValid(b, in) => SB!PushData(b, in) = SB!RdData(b, in)
         /\ SB!buffer_fwd_block(b) = FALSE /\ (SB!buffer_fwd_valid(b) <=> b.buf # NoData)
         /\ SB!head_valid(b) <=> ~SB!circ_empty(b)
         /\ SB!AdvanceWr(b, in) <=>
                D > 1 /\ SB!RdDataValid(b, in) /\ ~(SB!circ_empty(b) /\ SB!InternalPopReady(b, in))
         /\ SB!AdvanceRd(b, in) <=>
                D > 1 /\ ~SB!circ_empty(b) /\ SB!InternalPopReady(b, in)
<1>1. /\ SB!BypassBeat(b, in) = FALSE /\ SB!BypassReady(b, in) = FALSE
      /\ SB!BypassWrite(b, in) = FALSE
  BY DEF SB!BypassBeat, SB!BypassReady, SB!BypassWrite
<1>2. SB!RdAddrBeat(b, in) <=> SB!SpaceAvailable(b, in) /\ in.total_items > 0 /\ in.rd_ready
  BY <1>1 DEF SB!RdAddrBeat, SB!RdAddrValid, SB!ItemsNotStaged
<1>3. /\ SB!PushValid(b, in) <=> SB!RdDataValid(b, in)
      /\ SB!RdDataValid(b, in) => SB!PushData(b, in) = SB!RdData(b, in)
  BY <1>1 DEF SB!PushValid, SB!PushData
<1>4. SB!buffer_fwd_block(b) = FALSE /\ (SB!buffer_fwd_valid(b) <=> b.buf # NoData)
  BY DEF SB!buffer_fwd_block, SB!buffer_fwd_valid
<1>5. SB!head_valid(b) <=> ~SB!circ_empty(b)
  BY DEF SB!head_valid
<1>6. SB!AdvanceWr(b, in) <=>
         D > 1 /\ SB!RdDataValid(b, in) /\ ~(SB!circ_empty(b) /\ SB!InternalPopReady(b, in))
  BY <1>5 DEF SB!AdvanceWr, SB!RdDataWrite, D
<1>7. SB!AdvanceRd(b, in) <=> D > 1 /\ ~SB!circ_empty(b) /\ SB!InternalPopReady(b, in)
  BY <1>5 DEF SB!AdvanceRd, D
<1> QED BY <1>1, <1>2, <1>3, <1>4, <1>5, <1>6, <1>7

LEMMA NextFields ==
  ASSUME NEW b, NEW in, NEW c, c = SB!StagingNext(b, in)
  PROVE  /\ c.staged = SB!StagedNext(b, in) /\ c.reads = SB!ReadsNext(b, in)
         /\ c.reg = SB!RegNext(b, in)
         /\ c.buf = SB!BufferDataNext(b, in) /\ c.buf_bypass = SB!BufferBypassNext(b, in)
         /\ c.mem = SB!MemNext(b, in)
         /\ c.rd_ptr = IF SB!AdvanceRd(b, in) THEN SB!NextCell(b.rd_ptr) ELSE b.rd_ptr
         /\ c.wr_ptr = IF SB!AdvanceWr(b, in) THEN SB!NextCell(b.wr_ptr) ELSE b.wr_ptr
         /\ c.maybe_full = IF SB!AdvanceWr(b, in) = SB!AdvanceRd(b, in) THEN b.maybe_full
                           ELSE SB!AdvanceWr(b, in)
BY DEF SB!StagingNext

LEMMA OneIfFacts ==
  ASSUME NEW r \in BOOLEAN, NEW x, r => x \in Data
  PROVE  /\ OneIf(r, x) \in Seq(Data) /\ Len(OneIf(r, x)) = SB!B2N(r)
         /\ r => OneIf(r, x) = <<x>> /\ Len(OneIf(r, x)) = 1
         /\ ~r => OneIf(r, x) = <<>> /\ Len(OneIf(r, x)) = 0
BY DEF OneIf, SB!B2N

\* The stages take the reads a step further, and the oldest returns.
LEMMA ReadsMove ==
  ASSUME NEW b, BufferType(b), NEW in, InputType(b, in), NEW c, c = SB!StagingNext(b, in)
  PROVE  /\ c.reads \in [SB!Stage -> Word]
         /\ SB!RdDataValid(b, in) \in BOOLEAN /\ (SB!RdDataValid(b, in) => SB!RdData(b, in) \in Data)
         /\ Given(b, in) \in Seq(Data) /\ Delivered(b, in) \in Seq(Data)
         /\ SB!InFlight(b) \in Seq(Data) /\ SB!InFlight(c) \in Seq(Data)
         /\ Delivered(b, in) \o SB!InFlight(c) = SB!InFlight(b) \o Given(b, in)
         /\ DataRamReadLatency > 0 /\ SB!RdDataValid(b, in) => Len(SB!InFlight(b)) > 0
         /\ DataRamReadLatency = 0 => /\ SB!InFlight(b) = <<>> /\ SB!InFlight(c) = <<>>
                                      /\ SB!RdDataValid(b, in) <=> SB!RdAddrBeat(b, in)
<1> DEFINE L == DataRamReadLatency
           A == SB!RdAddrBeat(b, in)
           r == b.reads
           s == c.reads
<1>1. L \in Nat /\ SB!Stage = 1 .. L /\ NoData \notin Data
  BY BufferConstants
<1>2. A \in BOOLEAN /\ (A => in.rd_data \in Data)
  BY DEF InputType, SB!RdAddrBeat, SB!RdAddrValid
<1>3. s = [k \in SB!Stage |-> IF k > 1 THEN r[k - 1] ELSE IF A THEN in.rd_data ELSE NoData]
  BY NextFields DEF SB!ReadsNext
<1>4. r \in [SB!Stage -> Word]
  BY DEF BufferType
<1> HIDE DEF A, r, s
<1>5. s \in [SB!Stage -> Word]
  BY <1>1, <1>2, <1>3, <1>4 DEF Word
<1>6. SB!InFlight(b) = SB!InStages(r) /\ SB!InFlight(c) = SB!InStages(s)
  BY DEF SB!InFlight, r, s
<1>7. Given(b, in) \in Seq(Data)
  BY <1>2, OneIfFacts DEF Given, A
<1>8. CASE L > 0
  <2>1. /\ L \in SB!Stage /\ 1 \in SB!Stage /\ r[L] \in Word
        /\ \A k \in 2 .. L : s[k] = r[k - 1]
        /\ s[1] = IF A THEN in.rd_data ELSE NoData
    BY <1>1, <1>3, <1>4, <1>8
  <2>2. /\ SB!RdDataValid(b, in) <=> r[L] # NoData
        /\ SB!RdData(b, in) = r[L]
        /\ SB!RdDataValid(b, in) \in BOOLEAN
    <3>1. L # 0
      BY <1>1, <1>8
    <3>2. SB!RdDataValid(b, in) = SB!ReadReturns(b) /\ SB!RdData(b, in) = r[L]
      BY <3>1, Zenon DEF SB!RdDataValid, SB!RdData, r
    <3>3. SB!ReadReturns(b) = (r[L] # NoData)
      BY <1>8 DEF SB!ReadReturns, r
    <3> QED BY <3>2, <3>3
  <2>3. Delivered(b, in) = SB!One(r[L]) /\ Given(b, in) = SB!One(s[1])
    BY <1>1, <1>2, <2>1, <2>2 DEF Delivered, Given, OneIf, SB!One, A
  <2>4. SB!One(r[L]) \o SB!InStages(s) = SB!InStages(r) \o SB!One(s[1])
    BY <1>4, <1>5, <1>8, <2>1, StagesShift
  <2>5. SB!InStages(r) \in Seq(Data) /\ SB!InStages(s) \in Seq(Data) /\ SB!One(r[L]) \in Seq(Data)
        /\ (r[L] # NoData => Len(SB!InStages(r)) > 0)
    BY <1>4, <1>5, <1>8, <2>1, StagesFacts, OneFacts
  <2>6. SB!RdDataValid(b, in) => SB!RdData(b, in) \in Data
    BY <2>1, <2>2 DEF Word
  <2> QED BY <1>5, <1>6, <1>7, <1>8, <2>2, <2>3, <2>4, <2>5, <2>6 DEF s
<1>9. CASE L = 0
  <2>1. /\ SB!RdDataValid(b, in) <=> A
        /\ SB!RdData(b, in) = in.rd_data
        /\ SB!RdDataValid(b, in) \in BOOLEAN
    BY <1>2, <1>9 DEF SB!RdDataValid, SB!RdData, A
  <2>2. Delivered(b, in) = Given(b, in)
    BY <1>2, <2>1 DEF Delivered, Given, OneIf, A
  <2>3. SB!InStages(r) = <<>> /\ SB!InStages(s) = <<>>
    BY <1>4, <1>5, <1>9, StagesFacts
  <2>4. Given(b, in) \o <<>> = <<>> \o Given(b, in) /\ <<>> \in Seq(Data)
    BY <1>7, Joined
  <2>5. Delivered(b, in) \o SB!InFlight(c) = SB!InFlight(b) \o Given(b, in)
    BY <1>6, <2>2, <2>3, <2>4
  <2> QED BY <1>2, <1>5, <1>6, <1>7, <1>9, <2>1, <2>2, <2>3, <2>4, <2>5 DEF s, A
<1>10. L > 0 \/ L = 0
  BY <1>1
<1> QED BY <1>8, <1>9, <1>10, Zenon

\* The storage: no word that the RAM delivers is lost, when there is room for
\* it or the head leaves (no_push_overflow_a, no_single_push_overflow_a).
LEMMA StoredMoves ==
  ASSUME NEW b, BufferType(b), D > 1 => CellsAreFull(b), NEW in, InputType(b, in),
         NEW c, c = SB!StagingNext(b, in),
         SB!RdDataValid(b, in) /\ ~SB!InternalPopReady(b, in) => Len(Stored(b)) < D
  PROVE  /\ c.buf \in Word /\ c.buf_bypass = FALSE
         /\ c.mem \in [SB!Cell -> Word] /\ c.maybe_full \in BOOLEAN
         /\ D > 1 => c.rd_ptr \in SB!Cell /\ c.wr_ptr \in SB!Cell
         /\ Stored(b) \in Seq(Data)
         /\ InternalBeat(b, in) \in BOOLEAN
         /\ InternalBeat(b, in) => SB!InternalPopData(b, in) \in Data
         /\ InternalBeat(b, in) \/ ~SB!InternalPopReady(b, in) \/ (Stored(b) = <<>> /\ ~SB!RdDataValid(b, in))
         /\ BufferType(c) => /\ Stored(c) \in Seq(Data) /\ (D > 1 => CellsAreFull(c))
                             /\ Moved(b, in) \o Stored(c) = Stored(b) \o Delivered(b, in)
<1> DEFINE V == SB!RdDataValid(b, in)
           v == SB!RdData(b, in)
           I == SB!InternalPopReady(b, in)
<1>1. /\ D \in Nat /\ D = SB!InternalDepth /\ NoData \notin Data
      /\ V \in BOOLEAN /\ (V => v \in Data)
  BY ReadsMove, BufferConstants DEF D
<1>2. I \in BOOLEAN
  BY DEF InputType, SB!InternalPopReady
<1>3. /\ SB!BypassBeat(b, in) = FALSE /\ (SB!PushValid(b, in) <=> V) /\ (V => SB!PushData(b, in) = v)
      /\ SB!buffer_fwd_block(b) = FALSE /\ (SB!buffer_fwd_valid(b) <=> b.buf # NoData)
      /\ SB!head_valid(b) <=> ~SB!circ_empty(b)
      /\ SB!AdvanceWr(b, in) <=> D > 1 /\ V /\ ~(SB!circ_empty(b) /\ I)
      /\ SB!AdvanceRd(b, in) <=> D > 1 /\ ~SB!circ_empty(b) /\ I
  BY BufferWires DEF BufferType, InputType
<1>4. /\ b.buf \in Word /\ b.buf_bypass = FALSE /\ b.mem \in [SB!Cell -> Word]
      /\ b.maybe_full \in BOOLEAN
  BY DEF BufferType
<1>5. /\ c.buf = SB!BufferDataNext(b, in) /\ c.buf_bypass = SB!BufferBypassNext(b, in)
      /\ c.mem = SB!MemNext(b, in)
      /\ c.rd_ptr = IF SB!AdvanceRd(b, in) THEN SB!NextCell(b.rd_ptr) ELSE b.rd_ptr
      /\ c.wr_ptr = IF SB!AdvanceWr(b, in) THEN SB!NextCell(b.wr_ptr) ELSE b.wr_ptr
      /\ c.maybe_full = IF SB!AdvanceWr(b, in) = SB!AdvanceRd(b, in) THEN b.maybe_full
                        ELSE SB!AdvanceWr(b, in)
  BY NextFields
<1>6. c.buf_bypass = FALSE
  BY <1>3, <1>4, <1>5 DEF SB!BufferBypassNext
<1>7. c.buf = IF D # 1 THEN NoData
              ELSE IF b.buf = NoData THEN IF V /\ ~I THEN v ELSE NoData
              ELSE IF I THEN IF V THEN v ELSE NoData ELSE b.buf
  <2>1. SB!BufferValidNext(b, in) <=> IF b.buf # NoData THEN V \/ ~I ELSE V /\ ~I
    BY <1>1, <1>2, <1>3 DEF SB!BufferValidNext, SB!buffer_fwd_ready
  <2>2. SB!buffer_fwd_ready(b, in) <=> I
    BY <1>2, <1>3 DEF SB!buffer_fwd_ready
  <2>3. SB!BufferLoad(b, in) <=> SB!BufferValidNext(b, in) /\ (b.buf = NoData \/ I)
    BY <2>2 DEF SB!BufferLoad
  <2> QED BY <1>1, <1>2, <1>3, <1>5, <2>1, <2>3 DEF SB!BufferDataNext
<1>8. c.mem = [k \in SB!Cell |->
                 IF D = 1 THEN NoData
                 ELSE IF V /\ ~(SB!circ_empty(b) /\ I) /\ k = b.wr_ptr THEN v ELSE b.mem[k]]
  <2>1. /\ SB!BypassWrite(b, in) = FALSE
        /\ SB!RdDataWrite(b, in) <=> V /\ ~(SB!circ_empty(b) /\ I)
        /\ SB!DelayedCell(b) = b.wr_ptr
    BY <1>3 DEF SB!BypassWrite, SB!RdDataWrite, SB!DelayedCell
  <2> QED BY <1>1, <1>5, <2>1 DEF SB!MemNext
<1>9. c.buf \in Word /\ c.mem \in [SB!Cell -> Word] /\ c.maybe_full \in BOOLEAN
  <2>1. c.maybe_full \in BOOLEAN
    <3>1. SB!AdvanceWr(b, in) \in BOOLEAN
      BY <1>1, <1>2 DEF SB!AdvanceWr, SB!RdDataWrite
    <3> QED BY <1>4, <1>5, <3>1
  <2>2. NoData \in Word /\ (V => v \in Word)
    BY <1>1 DEF Word
  <2>3. c.buf \in Word
    BY <1>1, <1>4, <1>7, <2>2
  <2>4. c.mem \in [SB!Cell -> Word]
    BY <1>1, <1>4, <1>8, <2>2
  <2> QED BY <2>1, <2>3, <2>4
<1>10. ASSUME D > 1 PROVE c.rd_ptr \in SB!Cell /\ c.wr_ptr \in SB!Cell
  <2>1. /\ SB!NextCell(b.rd_ptr) \in SB!Cell /\ SB!NextCell(b.wr_ptr) \in SB!Cell
        /\ b.rd_ptr \in SB!Cell /\ b.wr_ptr \in SB!Cell
    BY <1>10, Ring DEF BufferType
  <2> QED BY <1>5, <2>1
<1> DEFINE Goal ==
         /\ Stored(b) \in Seq(Data)
         /\ InternalBeat(b, in) \in BOOLEAN
         /\ InternalBeat(b, in) => SB!InternalPopData(b, in) \in Data
         /\ InternalBeat(b, in) \/ ~I \/ (Stored(b) = <<>> /\ ~V)
         /\ BufferType(c) => /\ Stored(c) \in Seq(Data) /\ (D > 1 => CellsAreFull(c))
                             /\ Moved(b, in) \o Stored(c) = Stored(b) \o Delivered(b, in)
<1>11. ASSUME D = 0 PROVE Goal
  <2>1. Stored(b) = <<>> /\ Stored(c) = <<>> /\ Len(<<>>) = 0
    BY <1>11 DEF Stored
  <2>2. V => I
    BY <1>1, <1>2, <1>11, <2>1
  <2>3. (SB!InternalPopValid(b, in) <=> V) /\ (V => SB!InternalPopData(b, in) = v)
    BY <1>1, <1>3, <1>11 DEF SB!InternalPopValid, SB!InternalPopData
  <2>4. (InternalBeat(b, in) <=> V) /\ InternalBeat(b, in) \in BOOLEAN
    BY <1>1, <1>2, <2>2, <2>3 DEF InternalBeat
  <2>5. Moved(b, in) = Delivered(b, in) /\ Delivered(b, in) \in Seq(Data)
    BY <1>1, <2>3, <2>4, ReadsMove DEF Moved, Delivered, OneIf
  <2>6. Moved(b, in) \o <<>> = <<>> \o Delivered(b, in) /\ <<>> \in Seq(Data)
    BY <2>5, Joined
  <2> QED BY <1>1, <1>11, <2>1, <2>2, <2>3, <2>4, <2>6
<1>12. ASSUME D = 1 PROVE Goal
  <2> DEFINE x == b.buf
             y == c.buf
  <2>1. Stored(b) = SB!One(x) /\ Stored(c) = SB!One(y)
    BY <1>12 DEF Stored
  <2>2. /\ SB!InternalPopValid(b, in) <=> x # NoData \/ V
        /\ x # NoData => SB!InternalPopData(b, in) = x
        /\ x = NoData /\ V => SB!InternalPopData(b, in) = v
    BY <1>1, <1>3, <1>12 DEF SB!InternalPopValid, SB!InternalPopData
  <2>3. (InternalBeat(b, in) <=> (x # NoData \/ V) /\ I) /\ InternalBeat(b, in) \in BOOLEAN
    BY <1>2, <2>2 DEF InternalBeat
  <2>4. V /\ ~I => x = NoData
    <3> SUFFICES ASSUME V, ~I, x # NoData PROVE FALSE
      OBVIOUS
    <3>1. Len(Stored(b)) = 1
      BY <1>4, <2>1, OneFacts
    <3> QED BY <1>12, <3>1
  <2>5. x \in Word /\ y \in Word
    BY <1>4, <1>9
  <2>6. y = IF x = NoData THEN IF V /\ ~I THEN v ELSE NoData
            ELSE IF I THEN IF V THEN v ELSE NoData ELSE x
    BY <1>7, <1>12
  <2>7. Moved(b, in) = IF I THEN IF x # NoData THEN <<x>> ELSE IF V THEN <<v>> ELSE <<>> ELSE <<>>
    BY <1>1, <1>2, <2>2, <2>3 DEF Moved, OneIf
  <2>8. Delivered(b, in) = IF V THEN <<v>> ELSE <<>>
    BY DEF Delivered, OneIf
  <2>9. SB!One(x) = (IF x = NoData THEN <<>> ELSE <<x>>) /\ SB!One(y) = (IF y = NoData THEN <<>> ELSE <<y>>)
    BY DEF SB!One
  <2>10. SB!One(x) \in Seq(Data) /\ SB!One(y) \in Seq(Data)
    BY <2>5, OneFacts
  <2>11. Moved(b, in) \o SB!One(y) = SB!One(x) \o Delivered(b, in)
    <3> HIDE DEF V, v, I, x, y
    <3>1. x # NoData => x \in Data
      BY <2>5 DEF Word
    <3>2. \A z \in Data : <<z>> \o <<>> = <<z>> /\ <<>> \o <<z>> = <<z>>
      OBVIOUS
    <3>3. <<>> \o <<>> = <<>>
      OBVIOUS
    <3>4. CASE x = NoData /\ V
      BY <1>1, <1>2, <2>6, <2>7, <2>8, <2>9, <3>2, <3>4
    <3>5. CASE x = NoData /\ ~V
      BY <1>1, <1>2, <2>6, <2>7, <2>8, <2>9, <3>3, <3>5
    <3>6. CASE x # NoData /\ V
      BY <1>1, <1>2, <2>4, <2>6, <2>7, <2>8, <2>9, <3>6
    <3>7. CASE x # NoData /\ ~V
      BY <1>1, <1>2, <2>6, <2>7, <2>8, <2>9, <3>1, <3>2, <3>7
    <3> QED BY <1>1, <3>4, <3>5, <3>6, <3>7
  <2>12. InternalBeat(b, in) => SB!InternalPopData(b, in) \in Data
    BY <1>1, <2>2, <2>3, <2>5 DEF Word
  <2>13. InternalBeat(b, in) \/ ~I \/ (Stored(b) = <<>> /\ ~V)
    BY <2>1, <2>3, <2>9
  <2> HIDE DEF V, I, x, y
  <2> QED BY <1>1, <1>12, <2>1, <2>3, <2>10, <2>11, <2>12, <2>13
<1>13. ASSUME D > 1 PROVE Goal
  <2> DEFINE u == SB!CellsUsed(b)
             W == V /\ ~(SB!circ_empty(b) /\ I)
             R == ~SB!circ_empty(b) /\ I
             h == b.mem[b.rd_ptr]
  <2>1. /\ u \in 0 .. D /\ (u = 0 <=> SB!circ_empty(b)) /\ At(b.rd_ptr, 0) = b.rd_ptr
        /\ SB!CellAt(b, 0) = At(b.rd_ptr, 0)
    BY <1>13, Ring
  <2>2. Stored(b) = SB!Cells(b) /\ Stored(b) \in Seq(Data) /\ Len(Stored(b)) = u
    BY <1>13, CellsSequence DEF Stored
  <2>3. u > 0 => h \in Data
    <3>1. u > 0 => 0 \in 0 .. u - 1
      BY <1>1, <2>1
    <3> QED BY <1>13, <2>1, <3>1 DEF CellsAreFull
  <2>4. W \in BOOLEAN /\ R \in BOOLEAN /\ (W => u < D \/ R) /\ (R => u > 0)
    BY <1>1, <1>2, <1>13, <2>1, <2>2
  <2>5. /\ SB!InternalPopValid(b, in) <=> ~SB!circ_empty(b) \/ V
        /\ ~SB!circ_empty(b) => SB!InternalPopData(b, in) = h
        /\ SB!circ_empty(b) /\ V => SB!InternalPopData(b, in) = v
    BY <1>1, <1>3, <1>13 DEF SB!InternalPopValid, SB!InternalPopData
  <2>6. /\ InternalBeat(b, in) <=> (~SB!circ_empty(b) \/ V) /\ I
        /\ InternalBeat(b, in) \in BOOLEAN
    BY <1>2, <2>5 DEF InternalBeat
  <2>7. InternalBeat(b, in) => SB!InternalPopData(b, in) \in Data
    BY <1>1, <2>1, <2>3, <2>5, <2>6
  <2>8. u = 0 => Stored(b) = <<>>
    BY <2>2
  <2>9. InternalBeat(b, in) \/ ~I \/ (Stored(b) = <<>> /\ ~V)
    BY <2>1, <2>6, <2>8
  <2>10. ASSUME BufferType(c)
         PROVE  /\ Stored(c) \in Seq(Data) /\ CellsAreFull(c)
                /\ Moved(b, in) \o Stored(c) = Stored(b) \o Delivered(b, in)
    <3>1. PICK x, y \in Data : (V => x = v) /\ (u > 0 => y = h)
      BY <1>1, <2>3, SharedAssumption
    <3>2. /\ c.rd_ptr = IF R THEN SB!NextCell(b.rd_ptr) ELSE b.rd_ptr
          /\ c.wr_ptr = IF W THEN SB!NextCell(b.wr_ptr) ELSE b.wr_ptr
          /\ c.maybe_full = IF W = R THEN b.maybe_full ELSE W
      <4>1. (SB!AdvanceRd(b, in) <=> R) /\ (SB!AdvanceWr(b, in) <=> W)
        BY <1>3, <1>13
      <4>2. SB!AdvanceRd(b, in) \in BOOLEAN /\ SB!AdvanceWr(b, in) \in BOOLEAN
        BY <1>1, <1>2 DEF SB!AdvanceRd, SB!AdvanceWr
      <4>3. SB!AdvanceRd(b, in) = R /\ SB!AdvanceWr(b, in) = W
        BY <2>4, <4>1, <4>2
      <4> QED BY <1>5, <4>3
    <3>3. \A k \in SB!Cell : c.mem[k] = IF W /\ k = b.wr_ptr THEN x ELSE b.mem[k]
      BY <1>1, <1>8, <1>13, <3>1
    <3>4. R => y = h
      BY <2>4, <3>1
    <3>5. CellsAreFull(c) /\ OneIf(R, y) \o SB!Cells(c) = SB!Cells(b) \o OneIf(W, x)
      <4>1. PICK w, r \in BOOLEAN : w = W /\ r = R
        BY <2>4
      <4>2. CellsShift(b, c, x, y, r, w) /\ CellsAreFull(b)
        BY <1>13, <2>4, <3>2, <3>3, <3>4, <4>1 DEF CellsShift
      <4> HIDE DEF W, R
      <4>4. CellsAreFull(c) /\ OneIf(r, y) \o SB!Cells(c) = SB!Cells(b) \o OneIf(w, x)
        BY <1>13, <2>10, <4>2, CellsStep
      <4> QED BY <4>1, <4>4
    <3> HIDE DEF W, R
    <3>6. Stored(c) = SB!Cells(c) /\ Stored(c) \in Seq(Data)
      BY <1>13, <2>10, <3>5, CellsSequence DEF Stored
    <3>7. CASE SB!circ_empty(b) /\ I /\ V
      <4>1. ~R /\ ~W
        BY <3>7 DEF R, W
      <4>2. SB!Cells(c) = SB!Cells(b) /\ SB!Cells(b) = <<>>
        <5>1. <<>> \o SB!Cells(c) = SB!Cells(b) \o <<>>
          BY <3>5, <4>1 DEF OneIf
        <5>2. SB!Cells(c) \in Seq(Data) /\ SB!Cells(b) \in Seq(Data)
          BY <2>2, <3>6
        <5> QED BY <2>1, <2>2, <2>8, <3>7, <5>1, <5>2, Joined
      <4>3. Moved(b, in) = <<x>> /\ Delivered(b, in) = <<x>>
        BY <2>5, <2>6, <3>1, <3>7 DEF Moved, Delivered, OneIf
      <4>4. <<x>> \o <<>> = <<>> \o <<x>>
        OBVIOUS
      <4> QED BY <2>2, <3>5, <3>6, <4>2, <4>3, <4>4
    <3>8. CASE ~(SB!circ_empty(b) /\ I /\ V)
      <4>1. W <=> V
        BY <1>1, <3>8 DEF W
      <4>2. Delivered(b, in) = OneIf(W, x)
        BY <3>1, <4>1 DEF Delivered, OneIf
      <4>3. InternalBeat(b, in) <=> R
        BY <1>2, <2>6, <3>8 DEF R
      <4>4. Moved(b, in) = OneIf(R, y)
        BY <2>1, <2>4, <2>5, <3>4, <4>3 DEF Moved, OneIf, R
      <4> QED BY <2>2, <3>5, <3>6, <4>2, <4>4
    <3> QED BY <3>7, <3>8
  <2> QED BY <1>13, <2>2, <2>6, <2>7, <2>9, <2>10
<1>14. Goal
  BY <1>1, <1>11, <1>12, <1>13
<1> HIDE DEF D
<1> QED BY <1>6, <1>9, <1>10, <1>14

\* A queue whose oldest entries out leave it and that takes in.
QueueStep(out, q, r, in) ==
    /\ out \in Seq(Data) /\ q \in Seq(Data) /\ r \in Seq(Data) /\ in \in Seq(Data)
    /\ out \o r = q \o in

(* Queues in series: what leaves the one enters the other.                   *)
LEMMA InSeries ==
  ASSUME NEW a, NEW c, NEW cn, NEW m, NEW f, NEW fn, NEW g,
         QueueStep(a, c, cn, m), QueueStep(m, f, fn, g)
  PROVE  QueueStep(a, c \o f, cn \o fn, g)
<1>1. /\ a \in Seq(Data) /\ c \in Seq(Data) /\ cn \in Seq(Data) /\ m \in Seq(Data)
      /\ f \in Seq(Data) /\ fn \in Seq(Data) /\ g \in Seq(Data)
      /\ a \o cn = c \o m /\ m \o fn = f \o g
  BY DEF QueueStep
<1>2. a \o (cn \o fn) = (a \o cn) \o fn
  BY <1>1, Assoc
<1>3. (c \o m) \o fn = c \o (m \o fn)
  BY <1>1, Assoc
<1>4. c \o (f \o g) = (c \o f) \o g
  BY <1>1, Assoc
<1>5. c \o f \in Seq(Data) /\ cn \o fn \in Seq(Data)
  BY <1>1, Joined
<1> QED BY <1>1, <1>2, <1>3, <1>4, <1>5 DEF QueueStep

\* What a buffer holds, part by part.
LEMMA HeldIs ==
  ASSUME NEW b, BufferType(b), Stored(b) \in Seq(Data), SB!InFlight(b) \in Seq(Data)
  PROVE  /\ SB!Staged(b) = SB!One(b.reg) \o (Stored(b) \o SB!InFlight(b))
         /\ SB!One(b.reg) \in Seq(Data) /\ Len(SB!One(b.reg)) = IF b.reg = NoData THEN 0 ELSE 1
         /\ SB!Staged(b) \in Seq(Data)
         /\ Len(SB!Staged(b)) =
                Len(SB!One(b.reg)) + Len(Stored(b)) + Len(SB!InFlight(b))
<1>1. SB!Held(b) = Stored(b) \o SB!InFlight(b)
  <2>1. CASE D = 0
    <3>1. SB!Held(b) = SB!InFlight(b) /\ Stored(b) = <<>>
      BY <2>1 DEF SB!Held, Stored, D
    <3> QED BY <3>1, Joined
  <2>2. CASE D = 1
    BY <2>2 DEF SB!Held, Stored, D, BufferType
  <2>3. CASE D # 0 /\ D # 1
    BY <2>3 DEF SB!Held, Stored, D
  <2> QED BY <2>1, <2>2, <2>3
<1>2. b.reg \in Word
  BY DEF BufferType
<1>3. SB!One(b.reg) \in Seq(Data) /\ Len(SB!One(b.reg)) = IF b.reg = NoData THEN 0 ELSE 1
  BY <1>2, OneFacts
<1>4. /\ Stored(b) \o SB!InFlight(b) \in Seq(Data)
      /\ Len(Stored(b) \o SB!InFlight(b)) = Len(Stored(b)) + Len(SB!InFlight(b))
  BY Joined
<1>5. SB!Staged(b) = SB!One(b.reg) \o (Stored(b) \o SB!InFlight(b))
  BY <1>1 DEF SB!Staged
<1>6. Len(Stored(b)) \in Nat /\ Len(SB!InFlight(b)) \in Nat /\ Len(SB!One(b.reg)) \in Nat
  BY <1>3
<1>7. SB!Staged(b) \in Seq(Data) /\ Len(SB!Staged(b)) = Len(SB!One(b.reg)) + (Len(Stored(b)) + Len(SB!InFlight(b)))
  BY <1>3, <1>4, <1>5, Joined
<1> QED BY <1>3, <1>5, <1>6, <1>7

\* The output register, if there is one.
LEMMA RegMoves ==
  ASSUME NEW b, BufferType(b), NEW in, InputType(b, in), NEW c, c = SB!StagingNext(b, in),
         InternalBeat(b, in) => SB!InternalPopData(b, in) \in Data,
         InternalBeat(b, in) \in BOOLEAN
  PROVE  /\ c.reg \in Word /\ (~RegisterPopOutputs => c.reg = NoData)
         /\ SB!PopBeat(b, in) \in BOOLEAN
         /\ QueueStep(Taken(b, in), SB!One(b.reg), SB!One(c.reg), Moved(b, in))
         /\ RegisterPopOutputs /\ c.reg = NoData =>
                ~InternalBeat(b, in) /\ SB!InternalPopReady(b, in)
<1> DEFINE B == InternalBeat(b, in)
           v == SB!InternalPopData(b, in)
<1>1. /\ b.reg \in Word /\ in.pop_ready \in BOOLEAN /\ RegisterPopOutputs \in BOOLEAN
      /\ NoData \notin Data /\ (~RegisterPopOutputs => b.reg = NoData)
  BY BufferConstants DEF BufferType, InputType
<1>2. c.reg = SB!RegNext(b, in)
  BY NextFields
<1>3. Moved(b, in) = (IF B THEN <<v>> ELSE <<>>) /\ Moved(b, in) \in Seq(Data)
  BY OneIfFacts DEF Moved, OneIf
<1>4. CASE RegisterPopOutputs
  <2> DEFINE P == in.pop_ready
  <2>1. /\ SB!InternalPopReady(b, in) <=> P \/ b.reg = NoData
        /\ SB!PopBeat(b, in) <=> b.reg # NoData /\ P
        /\ SB!PopData(b, in) = b.reg
    BY <1>4 DEF SB!InternalPopReady, SB!PopBeat, SB!PopValid, SB!PopData
  <2>2. c.reg = IF P \/ b.reg = NoData THEN IF B THEN v ELSE NoData ELSE b.reg
    BY <1>2, <1>4, <2>1 DEF SB!RegNext, InternalBeat
  <2>3. B => P \/ b.reg = NoData
    BY <2>1 DEF InternalBeat
  <2>4. c.reg \in Word
    BY <1>1, <2>2 DEF Word
  <2>5. SB!PopBeat(b, in) \in BOOLEAN
    BY DEF SB!PopBeat
  <2>6. Taken(b, in) = IF b.reg # NoData /\ P THEN <<b.reg>> ELSE <<>>
    BY <2>1 DEF Taken, OneIf
  <2>7. SB!One(b.reg) \in Seq(Data) /\ SB!One(c.reg) \in Seq(Data)
    BY <1>1, <2>4, OneFacts
  <2>8. /\ SB!One(b.reg) = IF b.reg = NoData THEN <<>> ELSE <<b.reg>>
        /\ SB!One(c.reg) = IF c.reg = NoData THEN <<>> ELSE <<c.reg>>
    BY DEF SB!One
  <2>9. Taken(b, in) \in Seq(Data)
    BY <2>6, <2>7, <2>8
  <2>10. Taken(b, in) \o SB!One(c.reg) = SB!One(b.reg) \o Moved(b, in)
    <3> DEFINE x == b.reg
               y == c.reg
    <3>1. \A s \in Seq(Data) : s \o <<>> = s /\ <<>> \o s = s
      BY Joined
    <3>2. P \in BOOLEAN /\ B \in BOOLEAN /\ (B => v # NoData)
      BY <1>1
    <3>3. CASE x = NoData
      <4>1. Taken(b, in) = <<>> /\ SB!One(x) = <<>> /\ y = IF B THEN v ELSE NoData
        BY <2>2, <2>6, <2>8, <3>3
      <4>2. SB!One(y) = Moved(b, in)
        BY <1>3, <2>8, <3>2, <4>1
      <4> QED BY <2>7, <3>1, <4>1, <4>2
    <3>4. CASE x # NoData /\ P
      <4>1. Taken(b, in) = SB!One(x) /\ y = IF B THEN v ELSE NoData
        BY <2>2, <2>6, <2>8, <3>4
      <4>2. SB!One(y) = Moved(b, in)
        BY <1>3, <2>8, <3>2, <4>1
      <4> QED BY <4>1, <4>2
    <3>5. CASE x # NoData /\ ~P
      <4>1. Taken(b, in) = <<>> /\ y = x /\ ~B
        BY <2>2, <2>3, <2>6, <3>5
      <4>2. Moved(b, in) = <<>>
        BY <1>3, <4>1
      <4> QED BY <2>7, <3>1, <4>1, <4>2
    <3> QED BY <3>2, <3>3, <3>4, <3>5
  <2>11. c.reg = NoData => ~B /\ SB!InternalPopReady(b, in)
    BY <1>1, <2>1, <2>2
  <2> QED BY <1>3, <1>4, <2>4, <2>5, <2>7, <2>9, <2>10, <2>11 DEF QueueStep
<1>5. CASE ~RegisterPopOutputs
  <2>1. b.reg = NoData /\ c.reg = NoData
    BY <1>1, <1>2, <1>5 DEF SB!RegNext
  <2>2. (SB!PopBeat(b, in) <=> B) /\ SB!PopData(b, in) = v
    BY <1>5 DEF SB!PopBeat, SB!PopValid, SB!PopData, InternalBeat, SB!InternalPopReady
  <2>3. Taken(b, in) = Moved(b, in)
    BY <2>2 DEF Taken, Moved, OneIf
  <2>4. SB!One(NoData) = <<>> /\ NoData \in Word
    BY DEF SB!One, Word
  <2>5. Moved(b, in) \o <<>> = <<>> \o Moved(b, in) /\ <<>> \in Seq(Data)
    BY <1>3, Joined
  <2>6. SB!PopBeat(b, in) \in BOOLEAN
    BY DEF SB!PopBeat
  <2> QED BY <1>3, <1>5, <2>1, <2>3, <2>4, <2>5, <2>6 DEF QueueStep
<1> QED BY <1>1, <1>4, <1>5

\* A read that returns finds a place (no_push_overflow_a), and a read is only
\* issued when its entry will have one.
LEMMA ThereIsRoom ==
  ASSUME HasStagingBuffer, NEW b, BufferInv(b), NEW in, InputType(b, in),
         Stored(b) \in Seq(Data), SB!InFlight(b) \in Seq(Data)
  PROVE  /\ SB!RdDataValid(b, in) /\ ~SB!InternalPopReady(b, in) => Len(Stored(b)) < D
         /\ SB!RdAddrBeat(b, in) => b.staged < StagingBufferDepth \/ SB!PopBeat(b, in)
<1> DEFINE V == SB!RdDataValid(b, in)
           n == Len(Stored(b))
           m == Len(SB!InFlight(b))
           k == Len(SB!One(b.reg))
           S == StagingBufferDepth
           L == DataRamReadLatency
<1>1. BufferType(b) /\ in.bypass_valid = FALSE /\ b.buf_bypass = FALSE /\ in.pop_ready \in BOOLEAN
  BY DEF BufferInv, BufferType, InputType
<1>2. /\ n \in Nat /\ m \in Nat /\ k = (IF b.reg = NoData THEN 0 ELSE 1)
      /\ b.staged = k + n + m /\ b.staged <= S
  BY <1>1, HeldIs DEF BufferInv
<1>3. L \in Nat /\ S \in Nat /\ S > 0 /\ D \in Nat /\ S = D + IF RegisterPopOutputs THEN 1 ELSE 0
  BY BufferConstants DEF D
<1>4. /\ L > 0 /\ V => m > 0
      /\ L = 0 => m = 0 /\ (V <=> SB!RdAddrBeat(b, in))
      /\ V \in BOOLEAN
  BY <1>1, ReadsMove
<1>5. SB!RdAddrBeat(b, in) <=> SB!SpaceAvailable(b, in) /\ in.total_items > 0 /\ in.rd_ready
  BY <1>1, BufferWires
<1>6. SB!SpaceAvailable(b, in) <=>
         \/ b.staged < S
         \/ in.pop_ready /\ (L > 0 => SB!pop_valid_nonbypass(b))
  BY DEF SB!SpaceAvailable
<1>7. RegisterPopOutputs /\ b.reg = NoData => n = 0
  BY DEF BufferInv
<1>8. /\ ~SB!InternalPopReady(b, in) => ~in.pop_ready
      /\ ~SB!InternalPopReady(b, in) /\ RegisterPopOutputs => b.reg # NoData
  BY DEF SB!InternalPopReady
<1>9. L = 0 => RegisterPopOutputs
  BY DEF HasStagingBuffer
<1> HIDE DEF V, n, m, k
<1>10. V /\ ~SB!InternalPopReady(b, in) => n < D
  <2> SUFFICES ASSUME V, ~SB!InternalPopReady(b, in) PROVE n < D
    OBVIOUS
  <2>1. CASE L > 0
    <3>1. m > 0 /\ (RegisterPopOutputs => k = 1)
      BY <1>2, <1>4, <1>8, <2>1
    <3>2. RegisterPopOutputs \/ k >= 0
      BY <1>2
    <3> HIDE DEF D
    <3> QED BY <1>2, <1>3, <3>1, <3>2
  <2>2. CASE L = 0
    <3>1. b.staged < S
      BY <1>4, <1>5, <1>6, <1>8, <2>2
    <3>2. k = 1 /\ S = D + 1
      BY <1>2, <1>3, <1>8, <1>9, <2>2
    <3> HIDE DEF D
    <3> QED BY <1>2, <1>3, <3>1, <3>2
  <2> QED BY <1>3, <2>1, <2>2
<1>11. ASSUME SB!RdAddrBeat(b, in), ~(b.staged < S) PROVE SB!PopBeat(b, in)
  <2>1. in.pop_ready /\ (L > 0 => SB!pop_valid_nonbypass(b))
    BY <1>5, <1>6, <1>11
  <2>2. CASE RegisterPopOutputs
    <3>1. b.reg # NoData
      <4>1. CASE L > 0
        BY <2>1, <2>2, <4>1 DEF SB!pop_valid_nonbypass
      <4>2. CASE L = 0
        BY <1>2, <1>3, <1>4, <1>7, <1>11, <2>2, <4>2
      <4> QED BY <1>3, <4>1, <4>2
    <3> QED BY <2>1, <2>2, <3>1 DEF SB!PopBeat, SB!PopValid
  <2>3. CASE ~RegisterPopOutputs
    <3>1. L > 0 /\ SB!internal_pop_valid_nonbypass(b)
      BY <1>3, <1>9, <2>1, <2>3 DEF SB!pop_valid_nonbypass
    <3>2. SB!ReadReturns(b) <=> SB!RdDataValid(b, in)
      <4>1. L # 0
        BY <1>3, <3>1
      <4>2. SB!RdDataValid(b, in) = SB!ReadReturns(b)
        BY <4>1, Zenon DEF SB!RdDataValid
      <4> QED BY <4>2
    <3>3. SB!RdDataValid(b, in) => SB!PushValid(b, in)
      BY DEF SB!PushValid
    <3>4. SB!InternalPopValid(b, in)
      <4>1. CASE D = 0
        BY <3>1, <3>2, <3>3, <4>1 DEF SB!internal_pop_valid_nonbypass, SB!InternalPopValid, D
      <4>2. CASE D = 1
        BY <3>1, <3>2, <3>3, <4>2 DEF SB!internal_pop_valid_nonbypass, SB!InternalPopValid, D
      <4>3. CASE D # 0 /\ D # 1
        BY <3>1, <3>2, <3>3, <4>3 DEF SB!internal_pop_valid_nonbypass, SB!InternalPopValid, D
      <4> QED BY <4>1, <4>2, <4>3
    <3> QED BY <2>1, <2>3, <3>4 DEF SB!PopBeat, SB!PopValid
  <2> QED BY <2>2, <2>3
<1> QED BY <1>10, <1>11 DEF V, n

(* A cycle of the buffer: it is a queue.                                     *)
LEMMA StagedMoves ==
  ASSUME HasStagingBuffer, NEW b, BufferInv(b), NEW in, InputType(b, in),
         NEW c, c = SB!StagingNext(b, in)
  PROVE  /\ BufferInv(c)
         /\ QueueStep(Taken(b, in), SB!Staged(b), SB!Staged(c), Given(b, in))
         /\ SB!PopBeat(b, in) \in BOOLEAN
<1>1. BufferType(b) /\ (D > 1 => CellsAreFull(b))
  BY DEF BufferInv
<1>2. /\ c.reads \in [SB!Stage -> Word]
      /\ Given(b, in) \in Seq(Data) /\ Delivered(b, in) \in Seq(Data)
      /\ SB!InFlight(b) \in Seq(Data) /\ SB!InFlight(c) \in Seq(Data)
      /\ Delivered(b, in) \o SB!InFlight(c) = SB!InFlight(b) \o Given(b, in)
  BY <1>1, ReadsMove
<1>3. Stored(b) \in Seq(Data)
  <2>1. CASE D = 0
    BY <2>1 DEF Stored
  <2>2. CASE D = 1
    <3>1. b.buf \in Word
      BY <1>1 DEF BufferType
    <3> QED BY <2>2, <3>1, OneFacts DEF Stored
  <2>3. CASE D > 1
    BY <1>1, <2>3, CellsSequence DEF Stored
  <2>4. D \in Nat
    BY BufferConstants DEF D
  <2> QED BY <2>1, <2>2, <2>3, <2>4
<1>4. /\ SB!RdDataValid(b, in) /\ ~SB!InternalPopReady(b, in) => Len(Stored(b)) < D
      /\ SB!RdAddrBeat(b, in) => b.staged < StagingBufferDepth \/ SB!PopBeat(b, in)
  BY <1>2, <1>3, ThereIsRoom
<1>5. /\ c.buf \in Word /\ c.buf_bypass = FALSE
      /\ c.mem \in [SB!Cell -> Word] /\ c.maybe_full \in BOOLEAN
      /\ D > 1 => c.rd_ptr \in SB!Cell /\ c.wr_ptr \in SB!Cell
      /\ InternalBeat(b, in) \in BOOLEAN
      /\ InternalBeat(b, in) => SB!InternalPopData(b, in) \in Data
      /\ InternalBeat(b, in) \/ ~SB!InternalPopReady(b, in) \/ (Stored(b) = <<>> /\ ~SB!RdDataValid(b, in))
      /\ BufferType(c) => /\ Stored(c) \in Seq(Data) /\ (D > 1 => CellsAreFull(c))
                          /\ Moved(b, in) \o Stored(c) = Stored(b) \o Delivered(b, in)
  BY <1>1, <1>4, StoredMoves
<1>6. /\ c.reg \in Word /\ (~RegisterPopOutputs => c.reg = NoData)
      /\ SB!PopBeat(b, in) \in BOOLEAN
      /\ QueueStep(Taken(b, in), SB!One(b.reg), SB!One(c.reg), Moved(b, in))
      /\ RegisterPopOutputs /\ c.reg = NoData =>
             ~InternalBeat(b, in) /\ SB!InternalPopReady(b, in)
  BY <1>1, <1>5, RegMoves
<1>7. BufferType(c)
  BY <1>2, <1>5, <1>6 DEF BufferType
<1>8. /\ Stored(c) \in Seq(Data) /\ (D > 1 => CellsAreFull(c))
      /\ Moved(b, in) \o Stored(c) = Stored(b) \o Delivered(b, in)
  BY <1>5, <1>7
<1>9. QueueStep(Taken(b, in), SB!Staged(b), SB!Staged(c), Given(b, in))
  <2>1. QueueStep(Delivered(b, in), SB!InFlight(b), SB!InFlight(c), Given(b, in))
    BY <1>2 DEF QueueStep
  <2>2. QueueStep(Moved(b, in), Stored(b), Stored(c), Delivered(b, in))
    BY <1>2, <1>3, <1>6, <1>8 DEF QueueStep
  <2>3. QueueStep(Moved(b, in), Stored(b) \o SB!InFlight(b), Stored(c) \o SB!InFlight(c), Given(b, in))
    BY <2>1, <2>2, InSeries
  <2>4. QueueStep(Taken(b, in), SB!One(b.reg) \o (Stored(b) \o SB!InFlight(b)),
                  SB!One(c.reg) \o (Stored(c) \o SB!InFlight(c)), Given(b, in))
    BY <1>6, <2>3, InSeries
  <2>5. /\ SB!Staged(b) = SB!One(b.reg) \o (Stored(b) \o SB!InFlight(b))
        /\ SB!Staged(c) = SB!One(c.reg) \o (Stored(c) \o SB!InFlight(c))
    BY <1>1, <1>2, <1>3, <1>7, <1>8, HeldIs
  <2> QED BY <2>4, <2>5
<1>10. RegisterPopOutputs /\ c.reg = NoData => Stored(c) = <<>>
  <2> SUFFICES ASSUME RegisterPopOutputs, c.reg = NoData PROVE Stored(c) = <<>>
    OBVIOUS
  <2>1. ~InternalBeat(b, in) /\ Stored(b) = <<>> /\ ~SB!RdDataValid(b, in)
    BY <1>5, <1>6
  <2>2. Moved(b, in) = <<>> /\ Delivered(b, in) = <<>>
    BY <2>1 DEF Moved, Delivered, OneIf
  <2>3. <<>> \o Stored(c) = <<>> \o <<>> /\ <<>> \in Seq(Data)
    BY <1>8, <2>1, <2>2
  <2>4. <<>> \o Stored(c) = Stored(c) /\ <<>> \o <<>> = <<>>
    BY <1>8, Joined
  <2> QED BY <2>3, <2>4
<1>11. /\ c.staged = b.staged + SB!B2N(SB!RdAddrBeat(b, in)) - SB!B2N(SB!PopBeat(b, in))
       /\ Len(Taken(b, in)) = SB!B2N(SB!PopBeat(b, in)) /\ Len(Given(b, in)) = SB!B2N(SB!RdAddrBeat(b, in))
  <2>1. ~SB!BypassBeat(b, in)
    BY DEF InputType, SB!BypassBeat
  <2>2. c.staged = b.staged + SB!B2N(SB!RdAddrBeat(b, in)) - SB!B2N(SB!PopBeat(b, in))
    <3>1. SB!RdAddrBeat(b, in) \/ SB!BypassBeat(b, in) <=> SB!RdAddrBeat(b, in)
      BY <2>1
    <3>2. SB!B2N(SB!RdAddrBeat(b, in) \/ SB!BypassBeat(b, in)) = SB!B2N(SB!RdAddrBeat(b, in))
      BY <3>1 DEF SB!B2N
    <3> QED BY <3>2, NextFields DEF SB!StagedNext
  <2>3. Len(Taken(b, in)) = SB!B2N(SB!PopBeat(b, in)) /\ Len(Given(b, in)) = SB!B2N(SB!RdAddrBeat(b, in))
    BY DEF Taken, Given, OneIf, SB!B2N
  <2> QED BY <2>2, <2>3
<1>12. c.staged \in Nat /\ c.staged = Len(SB!Staged(c)) /\ c.staged <= StagingBufferDepth
  <2>1. /\ b.staged \in Nat /\ b.staged = Len(SB!Staged(b)) /\ b.staged <= StagingBufferDepth
    BY DEF BufferInv
  <2>2. /\ Taken(b, in) \in Seq(Data) /\ SB!Staged(b) \in Seq(Data) /\ SB!Staged(c) \in Seq(Data)
        /\ Taken(b, in) \o SB!Staged(c) = SB!Staged(b) \o Given(b, in)
    BY <1>9 DEF QueueStep
  <2>3. Len(Taken(b, in)) + Len(SB!Staged(c)) = Len(SB!Staged(b)) + Len(Given(b, in))
    BY <1>2, <2>2, Joined
  <2>4. Len(SB!Staged(c)) \in Nat
    BY <2>2
  <2>5. c.staged = Len(SB!Staged(c))
    <3>1. SB!B2N(SB!PopBeat(b, in)) \in {0, 1} /\ SB!B2N(SB!RdAddrBeat(b, in)) \in {0, 1}
      BY DEF SB!B2N
    <3> QED BY <1>11, <2>1, <2>3, <2>4, <3>1
  <2>6. c.staged <= StagingBufferDepth
    <3>1. StagingBufferDepth \in Nat
      BY BufferConstants
    <3>2. CASE SB!RdAddrBeat(b, in)
      BY <1>4, <1>11, <2>1, <3>1, <3>2 DEF SB!B2N
    <3>3. CASE ~SB!RdAddrBeat(b, in)
      BY <1>11, <2>1, <3>1, <3>3 DEF SB!B2N
    <3> QED BY <3>2, <3>3
  <2> QED BY <2>4, <2>5, <2>6
<1> QED BY <1>6, <1>7, <1>8, <1>9, <1>10, <1>12 DEF BufferInv

(* The buffer out of reset.                                                  *)
LEMMA EmptyBufferInv ==
  BufferInv(SB!EmptyBuffer) /\ SB!Staged(SB!EmptyBuffer) = <<>>
<1> DEFINE e == SB!EmptyBuffer
<1>1. /\ e.staged = 0 /\ e.reg = NoData /\ e.buf = NoData /\ e.buf_bypass = FALSE
      /\ e.reads = [k \in SB!Stage |-> NoData] /\ e.mem = [k \in SB!Cell |-> NoData]
      /\ e.rd_ptr = 0 /\ e.wr_ptr = 0 /\ e.maybe_full = FALSE
  BY DEF SB!EmptyBuffer
<1>2. NoData \in Word
  BY DEF Word
<1>3. D \in Nat /\ StagingBufferDepth \in Nat /\ SB!Cell = 0 .. D - 1 /\ DataRamReadLatency \in Nat
      /\ SB!Stage = 1 .. DataRamReadLatency
  BY BufferConstants DEF D
<1> HIDE DEF e
<1>4. e.reads \in [SB!Stage -> Word] /\ e.mem \in [SB!Cell -> Word]
  BY <1>1, <1>2
<1>5. D > 1 => 0 \in SB!Cell
  BY <1>3
<1>6. BufferType(e)
  BY <1>1, <1>2, <1>4, <1>5 DEF BufferType
<1>7. D > 1 => SB!CellsUsed(e) = 0
  BY <1>1 DEF SB!CellsUsed
<1>8. D > 1 => CellsAreFull(e)
  BY <1>7 DEF CellsAreFull
<1>9. Stored(e) = <<>>
  <2>1. CASE D = 0
    BY <2>1 DEF Stored
  <2>2. CASE D = 1
    BY <1>1, <2>2 DEF Stored, SB!One
  <2>3. CASE D > 1
    <3>1. SB!Cells(e) \in Seq(Data) /\ Len(SB!Cells(e)) = 0
      BY <1>6, <1>7, <1>8, <2>3, CellsSequence
    <3> QED BY <2>3, <3>1 DEF Stored
  <2> QED BY <1>3, <2>1, <2>2, <2>3
<1>10. SB!InFlight(e) = <<>>
  <2>1. PICK f : StagesAre(f, e.reads) /\ SB!InStages(e.reads) = f[DataRamReadLatency]
    BY <1>4, StagesExist
  <2> DEFINE L == DataRamReadLatency
             T == {n \in Nat : n <= L => f[n] = <<>>}
  <2>2. 0 \in T
    BY <2>1 DEF StagesAre
  <2>3. ASSUME NEW n \in Nat, n \in T PROVE n + 1 \in T
    <3> SUFFICES ASSUME n + 1 <= L PROVE f[n + 1] = <<>>
      OBVIOUS
    <3>1. n + 1 \in 1 .. L /\ L + 1 - (n + 1) \in SB!Stage /\ (n + 1) - 1 = n
      BY <1>3
    <3>2. f[n + 1] = f[n] \o SB!One(e.reads[L + 1 - (n + 1)])
      BY <2>1, <3>1 DEF StagesAre
    <3>3. SB!One(e.reads[L + 1 - (n + 1)]) = <<>>
      BY <1>1, <3>1 DEF SB!One
    <3>4. f[n] = <<>>
      BY <1>3, <2>3
    <3> QED BY <3>2, <3>3, <3>4
  <2>4. Nat \subseteq T
    <3> HIDE DEF T
    <3> QED BY <2>2, <2>3, EveryNat
  <2> QED BY <1>3, <2>1, <2>4 DEF SB!InFlight
<1>11. SB!Staged(e) = <<>>
  <2>1. SB!One(e.reg) = <<>>
    BY <1>1 DEF SB!One
  <2>2. <<>> \in Seq(Data)
    OBVIOUS
  <2>3. SB!Staged(e) = <<>> \o (<<>> \o <<>>)
    BY <1>6, <1>9, <1>10, <2>1, <2>2, HeldIs
  <2> QED BY <2>3
<1>12. BufferInv(e)
  BY <1>1, <1>3, <1>6, <1>8, <1>9, <1>11 DEF BufferInv
<1> QED BY <1>11, <1>12 DEF e

-----------------------------------------------------------------------------
(* The data RAM.                                                             *)

NewData(push, f) == PushSide(push).appends[f].data

\* The words of a queue of entries.
Words(q, ram) == [i \in 1 .. Len(q) |-> ram[q[i]]]

LEMMA WordsAre ==
  ASSUME NEW q \in Seq(Address), NEW ram, \A i \in 1 .. Len(q) : ram[q[i]] \in Data
  PROVE  /\ Words(q, ram) \in Seq(Data) /\ Len(Words(q, ram)) = Len(q) /\ Len(q) \in Nat
         /\ \A i \in 1 .. Len(q) : Words(q, ram)[i] = ram[q[i]]
<1> DEFINE w == Words(q, ram)
<1>1. Len(q) \in Nat
  OBVIOUS
<1>2. w = [i \in 1 .. Len(q) |-> ram[q[i]]]
  BY DEF Words
<1>3. \A i \in 1 .. Len(q) : w[i] = ram[q[i]] /\ w[i] \in Data
  BY <1>2
<1>4. w = [i \in 1 .. Len(q) |-> w[i]]
  BY <1>2
<1> HIDE DEF w
<1>5. w \in Seq(Data) /\ Len(w) = Len(q)
  BY <1>1, <1>3, <1>4
<1> QED BY <1>1, <1>3, <1>5 DEF w

\* After a write of d to the entries s, and none to the entries q
IsWritten(q, s, d, ram, ram2) ==
    /\ q \in Seq(Address) /\ s \in Seq(Address) /\ d \in Seq(Data) /\ Len(d) = Len(s)
    /\ \A i \in 1 .. Len(q) : ram[q[i]] \in Data /\ ram2[q[i]] = ram[q[i]]
    /\ \A i \in 1 .. Len(s) : ram2[s[i]] = d[i]

LEMMA WordsApart ==
  ASSUME NEW q, NEW s, NEW d, NEW ram, NEW ram2, IsWritten(q, s, d, ram, ram2)
  PROVE  /\ Words(q \o s, ram2) = Words(q, ram) \o d
         /\ \A i \in 1 .. Len(q \o s) : ram2[(q \o s)[i]] \in Data
<1> USE DEF IsWritten
<1> DEFINE a == Words(q, ram)
           z == q \o s
           b == Words(z, ram2)
           c == a \o d
<1>1. a \in Seq(Data) /\ Len(a) = Len(q) /\ Len(q) \in Nat /\ \A i \in 1 .. Len(q) : a[i] = ram[q[i]]
  BY WordsAre
<1>2. /\ z \in Seq(Address) /\ Len(z) = Len(q) + Len(s) /\ Len(s) \in Nat
      /\ \A i \in 1 .. Len(q) : z[i] = q[i]
      /\ \A i \in Len(q) + 1 .. Len(q) + Len(s) : z[i] = s[i - Len(q)]
  BY Concatenation
<1> HIDE DEF a, z
<1>3. /\ c \in Seq(Data) /\ Len(c) = Len(q) + Len(d)
      /\ \A i \in 1 .. Len(q) : c[i] = a[i]
      /\ \A i \in Len(q) + 1 .. Len(q) + Len(d) : c[i] = d[i - Len(q)]
  <2>1. a \in Seq(Data) /\ d \in Seq(Data)
    BY <1>1
  <2>2. \A x, y \in Seq(Data) :
           /\ x \o y \in Seq(Data) /\ Len(x \o y) = Len(x) + Len(y)
           /\ \A i \in 1 .. Len(x) : (x \o y)[i] = x[i]
           /\ \A i \in Len(x) + 1 .. Len(x) + Len(y) : (x \o y)[i] = y[i - Len(x)]
    BY Concatenation
  <2>3. /\ c \in Seq(Data) /\ Len(c) = Len(a) + Len(d)
        /\ \A i \in 1 .. Len(a) : c[i] = a[i]
        /\ \A i \in Len(a) + 1 .. Len(a) + Len(d) : c[i] = d[i - Len(a)]
    BY <2>1, <2>2, Zenon
  <2> HIDE DEF c
  <2> QED BY <1>1, <2>3
<1>4. ASSUME NEW i \in 1 .. Len(z) PROVE ram2[z[i]] = c[i] /\ c[i] \in Data
  <2>1. CASE i <= Len(q)
    <3>1. i \in 1 .. Len(q)
      BY <1>1, <1>2, <2>1
    <3> QED BY <1>1, <1>2, <1>3, <3>1
  <2>2. CASE i > Len(q)
    <3>1. i \in Len(q) + 1 .. Len(q) + Len(s) /\ i - Len(q) \in 1 .. Len(s)
      BY <1>1, <1>2, <2>2
    <3>2. d[i - Len(q)] \in Data
      BY <3>1
    <3> QED BY <1>2, <1>3, <3>1, <3>2
  <2> QED BY <1>1, <1>2, <2>1, <2>2
<1> HIDE DEF c
<1>5. b \in Seq(Data) /\ Len(b) = Len(z) /\ \A i \in 1 .. Len(z) : b[i] = ram2[z[i]]
  <2>1. z \in Seq(Address) /\ \A i \in 1 .. Len(z) : ram2[z[i]] \in Data
    BY <1>2, <1>4
  <2> QED BY <2>1, WordsAre
<1>6. b = c
  <2> HIDE DEF b, IsWritten
  <2>1. b \in Seq(Data) /\ c \in Seq(Data) /\ Len(b) = Len(c)
    BY <1>2, <1>3, <1>5 DEF IsWritten
  <2>2. \A i \in 1 .. Len(b) : b[i] = c[i]
    BY <1>4, <1>5
  <2> QED BY <2>1, <2>2, SeqEqual
<1> QED BY <1>4, <1>6 DEF a, b, c, z

\* As many data as entries are appended.
LEMMA DataAppended ==
  ASSUME IInv, NEW push \in PushInputs, NEW f \in Fifo
  PROVE  NewData(push, f) \in Seq(Data) /\ Len(NewData(push, f)) = Len(NextTail(push, f))
<1> DEFINE G == Granted(push)
           P == {p \in G : push[p].fifo = f}
           m == Cardinality(P)
           s == PushPorts(push, f)
<1>1. G \in SUBSET DOMAIN push /\ IsFiniteSet(G)
  BY Grants DEF IInv, PoolTypeOK
<1>2. DOMAIN push \in SUBSET WritePort /\ \A p \in DOMAIN push : push[p].data \in Data
  BY DEF PushInputs
<1>3. P \in SUBSET G
  OBVIOUS
<1>4. s = Ascent(P, m)
  BY Zenon DEF PushPorts, Ascent
<1>5. /\ NextTail(push, f) = [i \in DOMAIN s |-> WrAddr(push)[s[i]]]
      /\ NewData(push, f) = [i \in DOMAIN s |-> push[s[i]].data]
  BY DEF PushSide, NextTail, NewData
<1> HIDE DEF s, P, G
<1>6. P \in SUBSET Int /\ IsFiniteSet(P)
  <2>1. WritePort \in SUBSET Int
    BY Constants DEF WritePort
  <2> QED BY <1>1, <1>2, <1>3, <2>1, FS_Subset
<1>7. m \in Nat
  BY <1>6, FS_CardinalityType
<1> HIDE DEF m
<1>8. m \in 0 .. m
  BY <1>7
<1>9. s \in Seq(P) /\ Len(s) = m
  BY <1>4, <1>6, <1>8, Ascending DEF m
<1>10. DOMAIN s = 1 .. m /\ \A i \in 1 .. m : s[i] \in P
  BY <1>9
<1>11. \A i \in 1 .. m : push[s[i]].data \in Data
  BY <1>1, <1>2, <1>3, <1>10
<1> DEFINE d == NewData(push, f)
<1>12. d = [i \in 1 .. m |-> push[s[i]].data]
  BY <1>5, <1>10
<1>13. d = [i \in 1 .. m |-> d[i]] /\ \A i \in 1 .. m : d[i] \in Data
  BY <1>11, <1>12
<1> HIDE DEF d
<1>14. d \in Seq(Data) /\ Len(d) = m
  BY <1>7, <1>13
<1>15. Len(NextTail(push, f)) = m
  <2>1. NextTail(push, f) \in Seq(Address)
    BY Apart
  <2>2. DOMAIN NextTail(push, f) = 1 .. m
    BY <1>5, <1>10
  <2> HIDE DEF NextTail
  <2> QED BY <1>7, <2>1, <2>2
<1> QED BY <1>14, <1>15 DEF d

\* What is written is what was pushed, to entries that no queue holds; the
\* word of an entry that stays in its queue is not touched.
LEMMA DataRamStep ==
  ASSUME IInv, data_ram \in [Address -> Word], NEW push \in PushInputs,
         NEW heads \in SUBSET ValidHeads, NEW ram,
         ram = DataRamNext(PushSide(push).appends, Freed(heads))
  PROVE  /\ ram \in [Address -> Word]
         /\ \A f \in Fifo : \A i \in 1 .. Len(NextTail(push, f)) :
               ram[NextTail(push, f)[i]] = NewData(push, f)[i]
         /\ \A f \in Fifo : \A i \in 1 .. Len(queued[f]) :
               (f \in heads => i > 1) => ram[queued[f][i]] = data_ram[queued[f][i]]
<1> DEFINE A(f) == NextTail(push, f)
           d(f) == NewData(push, f)
           q(f) == queued[f]
           z(f) == Grown(push, f)
           one(f, i) == [addr |-> A(f)[i], data |-> d(f)[i]]
           writes == UNION {{one(f, i) : i \in DOMAIN d(f)} : f \in Fifo}
           written(a) == \E w \in writes : w.addr = a
           last(a) == CHOOSE w \in writes : w.addr = a
           freed == Freed(heads)
<1>1. ram = [a \in Address |-> IF written(a) THEN last(a).data
                               ELSE IF a \in freed THEN NoData ELSE data_ram[a]]
  BY DEF DataRamNext, NextTail, NewData
<1>2. \A f \in Fifo : /\ q(f) \in Seq(Address) /\ A(f) \in Seq(Address) /\ z(f) \in Seq(Address)
                      /\ Len(q(f)) \in Nat /\ Len(A(f)) \in Nat /\ Len(z(f)) = Len(q(f)) + Len(A(f))
                      /\ \A i \in 1 .. Len(q(f)) : z(f)[i] = q(f)[i]
                      /\ \A i \in 1 .. Len(A(f)) : z(f)[Len(q(f)) + i] = A(f)[i]
  <2> TAKE f \in Fifo
  <2>1. q(f) \in Seq(Address) /\ A(f) \in Seq(Address) /\ z(f) \in Seq(Address)
    BY Apart
  <2>2. /\ Len(z(f)) = Len(q(f)) + Len(A(f))
        /\ \A i \in 1 .. Len(q(f)) : z(f)[i] = q(f)[i]
        /\ \A i \in Len(q(f)) + 1 .. Len(q(f)) + Len(A(f)) : z(f)[i] = A(f)[i - Len(q(f))]
    BY <2>1, Concatenation DEF Grown
  <2>3. Len(q(f)) \in Nat /\ Len(A(f)) \in Nat
    BY <2>1
  <2> HIDE DEF q, A, z
  <2>4. ASSUME NEW i \in 1 .. Len(A(f)) PROVE z(f)[Len(q(f)) + i] = A(f)[i]
    <3>1. Len(q(f)) + i \in Len(q(f)) + 1 .. Len(q(f)) + Len(A(f)) /\ (Len(q(f)) + i) - Len(q(f)) = i
      BY <2>3
    <3> QED BY <2>2, <3>1
  <2> QED BY <2>1, <2>2, <2>3, <2>4
<1>3. \A f \in Fifo : d(f) \in Seq(Data) /\ Len(d(f)) = Len(A(f))
  BY DataAppended
<1>4. \A f, g \in Fifo : \A i \in 1 .. Len(z(f)), j \in 1 .. Len(z(g)) :
         z(f)[i] = z(g)[j] => f = g /\ i = j
  BY Apart
<1>5. \A x \in freed : \E f \in heads : f \in Fifo /\ Len(q(f)) >= 1 /\ x = q(f)[1]
  BY ReadHeads
<1>6. \A f \in Fifo : \A i \in DOMAIN d(f) : one(f, i) \in writes
  OBVIOUS
<1>7. \A w \in writes : \E f \in Fifo : \E i \in DOMAIN d(f) : w = one(f, i)
  OBVIOUS
<1> HIDE DEF writes, freed, z, d, A, q
<1>8. \A f \in Fifo : DOMAIN d(f) = 1 .. Len(A(f)) /\ \A i \in DOMAIN d(f) : d(f)[i] \in Data
  BY <1>3
<1>9. \A w \in writes : w.data \in Word
  BY <1>7, <1>8 DEF Word
<1>10. \A a : written(a) => last(a) \in writes /\ last(a).addr = a
  OBVIOUS
<1> HIDE DEF written, last
<1>11. ram \in [Address -> Word]
  <2>1. NoData \in Word
    BY DEF Word
  <2>2. \A a : written(a) => last(a).data \in Word
    BY <1>9, <1>10
  <2> QED BY <1>1, <2>1, <2>2
<1>12. ASSUME NEW f \in Fifo, NEW i \in 1 .. Len(A(f)) PROVE ram[A(f)[i]] = d(f)[i]
  <2> DEFINE a == A(f)[i]
  <2>1. a \in Address
    BY <1>2, <1>12
  <2>2. written(a)
    <3>1. i \in DOMAIN d(f) /\ one(f, i) \in writes
      BY <1>6, <1>8
    <3>2. one(f, i).addr = a
      OBVIOUS
    <3> HIDE DEF one, a
    <3> QED BY <3>1, <3>2 DEF written
  <2>8. PICK g \in Fifo : \E j \in DOMAIN d(g) : last(a) = one(g, j)
    BY <1>7, <1>10, <2>2
  <2>3. PICK j \in DOMAIN d(g) : last(a) = one(g, j)
    BY <2>8
  <2>4. j \in 1 .. Len(A(g)) /\ A(g)[j] = A(f)[i]
    BY <1>8, <1>10, <2>2, <2>3
  <2>5. /\ Len(q(f)) + i \in 1 .. Len(z(f)) /\ Len(q(g)) + j \in 1 .. Len(z(g))
        /\ z(f)[Len(q(f)) + i] = A(f)[i] /\ z(g)[Len(q(g)) + j] = A(g)[j]
        /\ Len(q(f)) \in Nat
    BY <1>2, <2>4
  <2>6. f = g /\ Len(q(f)) + i = Len(q(g)) + j
    BY <1>4, <2>4, <2>5
  <2>7. i = j
    BY <2>4, <2>5, <2>6
  <2> QED BY <1>1, <2>1, <2>2, <2>3, <2>6, <2>7
<1>13. ASSUME NEW f \in Fifo, NEW i \in 1 .. Len(q(f)), f \in heads => i > 1
       PROVE  ram[q(f)[i]] = data_ram[q(f)[i]]
  <2> DEFINE a == q(f)[i]
  <2>1. a \in Address /\ i \in 1 .. Len(z(f)) /\ z(f)[i] = a /\ i <= Len(q(f))
    BY <1>2, <1>13
  <2>2. ~written(a)
    <3> SUFFICES ASSUME NEW w \in writes, w.addr = a PROVE FALSE
      BY DEF written
    <3>5. PICK g \in Fifo : \E j \in DOMAIN d(g) : w = one(g, j)
      BY <1>7
    <3>1. PICK j \in DOMAIN d(g) : w = one(g, j)
      BY <3>5
    <3>2. j \in 1 .. Len(A(g)) /\ A(g)[j] = a
      BY <1>8, <3>1
    <3>3. Len(q(g)) + j \in 1 .. Len(z(g)) /\ z(g)[Len(q(g)) + j] = a /\ Len(q(g)) \in Nat
      BY <1>2, <3>2
    <3>4. f = g /\ i = Len(q(g)) + j
      BY <1>4, <2>1, <3>3
    <3> QED BY <2>1, <3>2, <3>3, <3>4
  <2>3. a \notin freed
    <3> SUFFICES ASSUME a \in freed PROVE FALSE
      OBVIOUS
    <3>1. PICK g \in heads : g \in Fifo /\ Len(q(g)) >= 1 /\ a = q(g)[1]
      BY <1>5
    <3>2. 1 \in 1 .. Len(q(g)) /\ 1 \in 1 .. Len(z(g))
      BY <1>2, <3>1
    <3>3. z(g)[1] = a
      BY <1>2, <3>1, <3>2
    <3>4. f = g /\ i = 1
      BY <1>4, <2>1, <3>1, <3>2, <3>3
    <3> QED BY <1>13, <3>1, <3>4
  <2> QED BY <1>1, <2>1, <2>2, <2>3
<1> QED BY <1>11, <1>12, <1>13 DEF A, d, q

-----------------------------------------------------------------------------
(* The pop side.  Its inductive invariant: with the pool's, the arbiters     *)
(* have an order, the staging buffers count what they hold, every queued     *)
(* entry has its word, and a FIFO's staging buffer and its queued words are  *)
(* what is expected of it.                                                   *)

Buffered(b) == IF HasStagingBuffer THEN SB!Staged(b) ELSE <<>>

DataInv ==
    /\ IInv
    /\ \A p \in ReadPort : IsOrder(order[p])
    /\ HasStagingBuffer => \A f \in Fifo : BufferInv(sb[f])
    /\ data_ram \in [Address -> Word]
    /\ \A f \in Fifo : \A i \in 1 .. Len(queued[f]) : data_ram[queued[f][i]] \in Data
    /\ \A f \in Fifo : expected[f] = Buffered(sb[f]) \o Words(queued[f], data_ram)

LEMMA InvParts ==
  ASSUME DataInv, NEW f \in Fifo
  PROVE  /\ IInv /\ queued[f] \in Seq(Address) /\ ListInv(ll[f], ptr_ram, queued[f])
         /\ Words(queued[f], data_ram) \in Seq(Data) /\ Buffered(sb[f]) \in Seq(Data)
         /\ expected[f] = Buffered(sb[f]) \o Words(queued[f], data_ram)
<1>1. /\ IInv /\ queued[f] \in Seq(Address) /\ ListInv(ll[f], ptr_ram, queued[f])
      /\ expected[f] = Buffered(sb[f]) \o Words(queued[f], data_ram)
      /\ \A i \in 1 .. Len(queued[f]) : data_ram[queued[f][i]] \in Data
  BY DEF DataInv, IInv, PoolTypeOK
<1>2. Words(queued[f], data_ram) \in Seq(Data)
  BY <1>1, WordsAre
<1>3. Buffered(sb[f]) \in Seq(Data)
  <2>1. CASE HasStagingBuffer
    <3>1. BufferInv(sb[f])
      BY <2>1 DEF DataInv
    <3>2. BufferType(sb[f]) /\ (D > 1 => CellsAreFull(sb[f])) /\ D \in Nat
      BY <3>1, BufferConstants DEF BufferInv, D
    <3>3. sb[f].buf \in Word /\ sb[f].reads \in [SB!Stage -> Word]
      BY <3>2 DEF BufferType
    <3>4. Stored(sb[f]) \in Seq(Data)
      <4>1. CASE D = 0
        BY <4>1 DEF Stored
      <4>2. CASE D = 1
        BY <3>3, <4>2, OneFacts DEF Stored
      <4>3. CASE D > 1
        BY <3>2, <4>3, CellsSequence DEF Stored
      <4> QED BY <3>2, <4>1, <4>2, <4>3
    <3>5. SB!InFlight(sb[f]) \in Seq(Data)
      BY <3>3, StagesFacts DEF SB!InFlight
    <3>6. SB!Staged(sb[f]) \in Seq(Data)
      BY <3>2, <3>4, <3>5, HeldIs
    <3> QED BY <2>1, <3>6 DEF Buffered
  <2>2. CASE ~HasStagingBuffer
    BY <2>2 DEF Buffered
  <2> QED BY <2>1, <2>2
<1> QED BY <1>1, <1>2, <1>3

\* A valid head is the oldest entry; who reads it gets its word, whoever else
\* competes for the port.
LEMMA ReadIsHead ==
  ASSUME DataInv, NEW pr \in SUBSET Fifo, NEW f \in Fifo
  PROVE  /\ LL!items(ll[f]) = Len(queued[f]) /\ LL!head_valid(ll[f]) \in BOOLEAN
         /\ RdAddrReady(f, pr) \in BOOLEAN /\ HeadBeat(f, pr) \in BOOLEAN
         /\ LL!head_valid(ll[f]) => /\ Len(queued[f]) >= 1 /\ queued[f][1] \in Address
                                    /\ HeadAddr(f) = queued[f][1]
                                    /\ data_ram[queued[f][1]] \in Data
         /\ HeadBeat(f, pr) => /\ LL!head_valid(ll[f])
                               /\ ReadData(f, pr) = data_ram[queued[f][1]]
<1>1. queued[f] \in Seq(Address) /\ ListInv(ll[f], ptr_ram, queued[f]) /\ Len(queued[f]) \in Nat
  BY InvParts
<1>2. LL!items(ll[f]) = Len(queued[f])
  BY <1>1, ItemsAre
<1>3. ASSUME LL!head_valid(ll[f])
      PROVE  /\ Len(queued[f]) >= 1 /\ queued[f][1] \in Address /\ HeadAddr(f) = queued[f][1]
             /\ data_ram[queued[f][1]] \in Data
  <2>1. Len(queued[f]) >= 1 /\ queued[f][1] \in Address /\ LL!head(ll[f]) = queued[f][1]
    BY <1>1, <1>3, HeadIsOldest
  <2>2. 1 \in 1 .. Len(queued[f])
    BY <1>1, <2>1
  <2>3. data_ram[queued[f][1]] \in Data
    BY <2>2 DEF DataInv
  <2> QED BY <2>1, <2>3 DEF HeadAddr
<1>4. ASSUME HeadBeat(f, pr)
      PROVE  LL!head_valid(ll[f]) /\ ReadData(f, pr) = data_ram[queued[f][1]]
  <2> DEFINE p == ReadPortOf(HeadAddr(f))
             S == Requests(p, pr)
  <2>1. RdAddrValid(f, pr) /\ RdAddrReady(f, pr) /\ LL!head_valid(ll[f])
    BY <1>4 DEF HeadBeat, RdAddrValid
  <2>2. HeadAddr(f) = queued[f][1] /\ queued[f][1] \in Address
    BY <1>3, <2>1
  <2>3. p \in ReadPort
    <3>1. HeadAddr(f) \in Nat /\ NumReadPorts \in Nat \ {0}
      BY <2>2, SharedAssumption, Constants DEF Address
    <3> QED BY <3>1 DEF ReadPortOf, ReadPort
  <2>4. IsOrder(order[p])
    BY <2>3 DEF DataInv
  <2>5. S \in SUBSET Fifo /\ f \in S
    BY <2>1 DEF Requests
  <2>6. LRU!CanGrant(order[p], S, f)
    BY <2>1 DEF RdAddrReady
  <2>7. LRU!Grant(order[p], S) = {f}
    <3> HIDE DEF p, S
    <3> QED BY <2>4, <2>5, <2>6, OneGrant
  <2>8. ReadData(f, pr) = data_ram[HeadAddr(f)]
    BY <2>7 DEF ReadData
  <2> QED BY <2>1, <2>2, <2>8
<1>5. LL!head_valid(ll[f]) \in BOOLEAN
  <2>1. ll[f].head_valid \in [Lists -> BOOLEAN] /\ ll[f].head_select \in Lists
    BY <1>1 DEF ListInv, Registers
  <2> QED BY <2>1 DEF LL!head_valid
<1>6. RdAddrReady(f, pr) \in BOOLEAN /\ HeadBeat(f, pr) \in BOOLEAN
  <2>1. RdAddrReady(f, pr) \in BOOLEAN
    BY DEF RdAddrReady, LRU!CanGrant
  <2> QED BY <2>1 DEF HeadBeat, RdAddrValid
<1> QED BY <1>2, <1>3, <1>4, <1>5, <1>6

\* What the staging buffer sees.
LEMMA InputsAre ==
  ASSUME DataInv, HasStagingBuffer, NEW pr \in SUBSET Fifo, NEW f \in Fifo
  PROVE  /\ InputType(sb[f], Inputs(f, pr))
         /\ SB!RdAddrBeat(sb[f], Inputs(f, pr)) <=> HeadBeat(f, pr)
         /\ HeadBeat(f, pr) => Inputs(f, pr).rd_data = data_ram[queued[f][1]]
<1> DEFINE in == Inputs(f, pr)
           low == StagingInputs(f, pr, FALSE, NoData)
           ready == LL!head_valid(ll[f]) /\ RdAddrReady(f, pr)
<1>1. ready \in BOOLEAN /\ HeadBeat(f, pr) \in BOOLEAN
  BY ReadIsHead
<1>2. /\ in.total_items = LL!items(ll[f]) /\ in.bypass_valid = FALSE
      /\ in.rd_ready = ready /\ in.pop_ready = (f \in pr)
      /\ in.rd_data = IF ready THEN ReadData(f, pr) ELSE NoData
  BY DEF Inputs, StagingInputs
<1>3. low.total_items = LL!items(ll[f]) /\ low.pop_ready = (f \in pr)
  BY DEF StagingInputs
<1>4. RdAddrValid(f, pr) <=> LL!head_valid(ll[f]) /\ SB!RdAddrValid(sb[f], low)
  BY DEF RdAddrValid
<1> HIDE DEF in, low
<1>5. SB!RdAddrValid(sb[f], in) <=> SB!RdAddrValid(sb[f], low)
  <2>1. /\ SB!BypassReady(sb[f], in) = FALSE /\ SB!BypassReady(sb[f], low) = FALSE
    BY DEF SB!BypassReady
  <2>2. SB!SpaceAvailable(sb[f], in) <=> SB!SpaceAvailable(sb[f], low)
    BY <1>2, <1>3 DEF SB!SpaceAvailable
  <2>3. SB!ItemsNotStaged(sb[f], in) <=> SB!ItemsNotStaged(sb[f], low)
    BY <1>2, <1>3 DEF SB!ItemsNotStaged
  <2> QED BY <2>1, <2>2, <2>3 DEF SB!RdAddrValid
<1>6. SB!RdAddrBeat(sb[f], in) <=> HeadBeat(f, pr)
  BY <1>1, <1>2, <1>4, <1>5 DEF SB!RdAddrBeat, HeadBeat
<1>7. HeadBeat(f, pr) => ready /\ in.rd_data = data_ram[queued[f][1]] /\ in.rd_data \in Data
  <2> SUFFICES ASSUME HeadBeat(f, pr)
               PROVE  ready /\ in.rd_data = data_ram[queued[f][1]] /\ in.rd_data \in Data
    OBVIOUS
  <2>1. ready
    BY ReadIsHead DEF HeadBeat
  <2>2. ReadData(f, pr) = data_ram[queued[f][1]] /\ data_ram[queued[f][1]] \in Data
    BY ReadIsHead
  <2> QED BY <1>2, <2>1, <2>2
<1>8. InputType(sb[f], in)
  BY <1>1, <1>2, <1>6, <1>7 DEF InputType
<1> QED BY <1>6, <1>7, <1>8 DEF in

\* What leaves FIFO f, what its staging buffer is after the cycle, and the
\* entries that stay queued.
Out(f, pr) == OneIf(PopBeat(f, pr), PopData(f, pr))
BufferNext(f, pr) == IF HasStagingBuffer THEN SB!StagingNext(sb[f], Inputs(f, pr)) ELSE sb[f]
Kept(f, pr) == IF HeadBeat(f, pr) THEN Tail(queued[f]) ELSE queued[f]

\* Entries leave a FIFO in the order they are expected in.
LEMMA LeaveInOrder ==
  ASSUME DataInv, NEW pr \in SUBSET Fifo, NEW f \in Fifo
  PROVE  /\ PopBeat(f, pr) \in BOOLEAN /\ Out(f, pr) \in Seq(Data)
         /\ Kept(f, pr) \in Seq(Address)
         /\ \A i \in 1 .. Len(Kept(f, pr)) : data_ram[Kept(f, pr)[i]] \in Data
         /\ Words(Kept(f, pr), data_ram) \in Seq(Data)
         /\ Buffered(BufferNext(f, pr)) \in Seq(Data)
         /\ HasStagingBuffer => BufferInv(BufferNext(f, pr))
         /\ expected[f] =
                Out(f, pr) \o (Buffered(BufferNext(f, pr)) \o Words(Kept(f, pr), data_ram))
<1> DEFINE q == queued[f]
           k == Kept(f, pr)
           H == HeadBeat(f, pr)
           wq == Words(q, data_ram)
           wk == Words(k, data_ram)
           g == OneIf(H, data_ram[q[1]])
           out == Out(f, pr)
           b == Buffered(sb[f])
           c == Buffered(BufferNext(f, pr))
<1>1. /\ q \in Seq(Address) /\ wq \in Seq(Data) /\ b \in Seq(Data) /\ expected[f] = b \o wq
      /\ \A i \in 1 .. Len(q) : data_ram[q[i]] \in Data
  BY InvParts DEF DataInv
<1>2. /\ H \in BOOLEAN
      /\ H => Len(q) >= 1 /\ data_ram[q[1]] \in Data
  BY ReadIsHead
<1>3. /\ k \in Seq(Address) /\ wk \in Seq(Data) /\ g \in Seq(Data) /\ wq = g \o wk
      /\ \A i \in 1 .. Len(k) : data_ram[k[i]] \in Data
  <2>1. CASE ~H
    <3>1. k = q /\ g = <<>>
      BY <2>1 DEF Kept, OneIf
    <3> QED BY <1>1, <3>1, Joined
  <2>2. CASE H
    <3>1. k = Tail(q) /\ g = <<data_ram[q[1]]>> /\ g \in Seq(Data) /\ Len(g) = 1
      BY <1>2, <2>2 DEF Kept, OneIf
    <3>2. /\ k \in Seq(Address) /\ Len(k) = Len(q) - 1 /\ Len(q) \in Nat /\ Len(q) >= 1
          /\ \A i \in 1 .. Len(k) : k[i] = q[i + 1]
      BY <1>1, <1>2, <2>2, <3>1
    <3> HIDE DEF k, q, wk, wq, g
    <3>3. \A i \in 1 .. Len(k) : i + 1 \in 1 .. Len(q)
      BY <3>2
    <3>4. \A i \in 1 .. Len(k) : data_ram[k[i]] \in Data
      BY <1>1, <3>2, <3>3
    <3>5. wk \in Seq(Data) /\ Len(wk) = Len(k) /\ \A i \in 1 .. Len(k) : wk[i] = data_ram[k[i]]
      BY <3>2, <3>4, WordsAre DEF wk
    <3>6. Len(wq) = Len(q) /\ \A i \in 1 .. Len(q) : wq[i] = data_ram[q[i]]
      BY <1>1, WordsAre DEF wq
    <3>10. \A x \in Data : \A w \in Seq(Data) :
              /\ <<x>> \o w \in Seq(Data) /\ Len(<<x>> \o w) = Len(w) + 1
              /\ \A i \in 1 .. Len(w) + 1 : (<<x>> \o w)[i] = IF i = 1 THEN x ELSE w[i - 1]
      OBVIOUS
    <3>11. data_ram[q[1]] \in Data /\ Len(q) = Len(wk) + 1
      BY <1>2, <2>2, <3>2, <3>5
    <3>7. /\ g \o wk \in Seq(Data) /\ Len(g \o wk) = Len(q)
          /\ \A i \in 1 .. Len(q) : (g \o wk)[i] = IF i = 1 THEN data_ram[q[1]] ELSE wk[i - 1]
      <4> DEFINE x == data_ram[q[1]]
      <4>1. x \in Data /\ g = <<x>> /\ wk \in Seq(Data)
        BY <3>1, <3>5, <3>11 DEF q
      <4> HIDE DEF x
      <4>2. /\ g \o wk \in Seq(Data) /\ Len(g \o wk) = Len(wk) + 1
            /\ \A i \in 1 .. Len(wk) + 1 : (g \o wk)[i] = IF i = 1 THEN x ELSE wk[i - 1]
        BY <3>10, <4>1, Zenon
      <4> QED BY <3>11, <4>2 DEF x
    <3>8. ASSUME NEW i \in 1 .. Len(q) PROVE (g \o wk)[i] = wq[i]
      <4>1. CASE i = 1
        BY <3>6, <3>7, <4>1
      <4>2. CASE i # 1
        <5>1. i - 1 \in 1 .. Len(k) /\ (i - 1) + 1 = i
          BY <3>2, <4>2
        <5>2. (g \o wk)[i] = wk[i - 1]
          BY <3>7, <4>2
        <5>3. wk[i - 1] = data_ram[k[i - 1]] /\ k[i - 1] = q[i]
          BY <3>2, <3>5, <5>1
        <5> QED BY <3>6, <5>2, <5>3
      <4> QED BY <4>1, <4>2
    <3>9. g \o wk = wq
      <4> DEFINE y == g \o wk
      <4>1. y \in Seq(Data) /\ wq \in Seq(Data) /\ Len(y) = Len(wq)
        BY <1>1, <3>6, <3>7
      <4>2. \A i \in 1 .. Len(y) : y[i] = wq[i]
        BY <3>7, <3>8
      <4> HIDE DEF y
      <4>3. y = wq
        BY <4>1, <4>2, SeqEqual
      <4> QED BY <4>3 DEF y
    <3> QED BY <3>1, <3>2, <3>4, <3>5, <3>9
  <2> QED BY <1>2, <2>1, <2>2
<1>4. /\ PopBeat(f, pr) \in BOOLEAN /\ out \in Seq(Data) /\ c \in Seq(Data)
      /\ HasStagingBuffer => BufferInv(BufferNext(f, pr))
      /\ out \o c = b \o g
  <2>1. CASE HasStagingBuffer
    <3> DEFINE s == sb[f]
               in == Inputs(f, pr)
               t == SB!StagingNext(s, in)
    <3>1. BufferInv(s)
      BY <2>1 DEF DataInv
    <3>2. /\ InputType(s, in) /\ (SB!RdAddrBeat(s, in) <=> H)
          /\ H => in.rd_data = data_ram[q[1]]
      BY <2>1, InputsAre
    <3>3. /\ BufferInv(t) /\ SB!PopBeat(s, in) \in BOOLEAN
          /\ QueueStep(Taken(s, in), SB!Staged(s), SB!Staged(t), Given(s, in))
      BY <2>1, <3>1, <3>2, StagedMoves
    <3>4. (PopBeat(f, pr) <=> SB!PopBeat(s, in)) /\ PopData(f, pr) = SB!PopData(s, in)
      BY <2>1 DEF PopBeat, PopValid, PopData, SB!PopBeat, Inputs, StagingInputs
    <3>5. out = Taken(s, in) /\ PopBeat(f, pr) \in BOOLEAN
      BY <3>3, <3>4 DEF Out, Taken, OneIf, PopBeat
    <3>6. g = Given(s, in)
      BY <3>2 DEF Given, OneIf
    <3>7. b = SB!Staged(s) /\ BufferNext(f, pr) = t /\ c = SB!Staged(t)
      BY <2>1 DEF Buffered, BufferNext
    <3> QED BY <3>3, <3>5, <3>6, <3>7 DEF QueueStep
  <2>2. CASE ~HasStagingBuffer
    <3>1. b = <<>> /\ c = <<>> /\ <<>> \in Seq(Data)
      BY <2>2 DEF Buffered
    <3>2. PopBeat(f, pr) <=> H
      BY <2>2 DEF PopBeat, PopValid, HeadBeat, RdAddrValid
    <3>3. PopData(f, pr) = ReadData(f, pr) /\ PopBeat(f, pr) \in BOOLEAN
      BY <2>2 DEF PopData, PopBeat
    <3>4. H => ReadData(f, pr) = data_ram[q[1]]
      BY ReadIsHead
    <3>5. out = g
      BY <3>2, <3>3, <3>4 DEF Out, OneIf
    <3> QED BY <1>3, <2>2, <3>1, <3>3, <3>5, Joined
  <2> QED BY <2>1, <2>2
<1> HIDE DEF q, k, H, wq, wk, g, out, b, c
<1>5. b \o (g \o wk) = (b \o g) \o wk
  BY <1>1, <1>3, Assoc
<1>6. (out \o c) \o wk = out \o (c \o wk)
  BY <1>3, <1>4, Assoc
<1>7. expected[f] = out \o (c \o wk)
  BY <1>1, <1>3, <1>4, <1>5, <1>6
<1> QED BY <1>3, <1>4, <1>7 DEF q, k, wk, out, c

-----------------------------------------------------------------------------
(* The cycle.                                                                *)

Heads(pr) == {f \in Fifo : HeadBeat(f, pr)}

\* What the pop side does to the pool is to read valid heads.
LEMMA HeadsAreValid ==
  ASSUME NEW pr
  PROVE  /\ Heads(pr) \in SUBSET ValidHeads
         /\ PopSide(pr).heads = Heads(pr)
         /\ \A f \in Fifo : f \in Heads(pr) <=> HeadBeat(f, pr)
BY DEF Heads, ValidHeads, HeadBeat, RdAddrValid, PopSide

LEMMA DataCycle ==
  ASSUME DataInv, NEW pr \in SUBSET Fifo, NEW push \in PushInputs,
         Cycle(PushSide(push), PopSide(pr))
  PROVE  DataInv'
<1> DEFINE heads == Heads(pr)
<1>1. /\ PoolCycle(PushSide(push), heads) /\ heads \in SUBSET ValidHeads
      /\ \A f \in Fifo : f \in heads <=> HeadBeat(f, pr)
  BY HeadsAreValid DEF Cycle
<1>2. IInv /\ data_ram \in [Address -> Word]
  BY DEF DataInv
<1>3. IInv'
  BY <1>1, <1>2, CycleStep
<1>4. \A f \in Fifo : sb'[f] = BufferNext(f, pr)
  BY DEF Cycle, PopSide, BufferNext
<1>5. ASSUME NEW p \in ReadPort PROVE IsOrder(order'[p])
  <2>1. order'[p] = LRU!OrderNext(order[p], Requests(p, pr))
    BY DEF Cycle, PopSide
  <2>2. IsOrder(order[p]) /\ Requests(p, pr) \in SUBSET Fifo
    BY DEF DataInv, Requests
  <2> QED BY <2>1, <2>2, OrderStep
<1>6. /\ data_ram' \in [Address -> Word]
      /\ \A f \in Fifo : \A i \in 1 .. Len(NextTail(push, f)) :
            data_ram'[NextTail(push, f)[i]] = NewData(push, f)[i]
      /\ \A f \in Fifo : \A i \in 1 .. Len(queued[f]) :
            (f \in heads => i > 1) => data_ram'[queued[f][i]] = data_ram[queued[f][i]]
  <2>1. data_ram' = DataRamNext(PushSide(push).appends, Freed(heads))
    BY HeadsAreValid DEF Cycle, Freed
  <2> HIDE DEF heads
  <2> QED BY <1>1, <1>2, <2>1, DataRamStep
<1>7. ASSUME NEW f \in Fifo
      PROVE  /\ HasStagingBuffer => BufferInv(sb'[f])
             /\ \A i \in 1 .. Len(queued'[f]) : data_ram'[queued'[f][i]] \in Data
             /\ expected'[f] = Buffered(sb'[f]) \o Words(queued'[f], data_ram')
  <2> DEFINE k == Kept(f, pr)
             s == NextTail(push, f)
             d == NewData(push, f)
             out == Out(f, pr)
             c == Buffered(BufferNext(f, pr))
             wk == Words(k, data_ram)
             e == expected[f]
  <2>1. /\ PopBeat(f, pr) \in BOOLEAN /\ out \in Seq(Data) /\ k \in Seq(Address)
        /\ \A i \in 1 .. Len(k) : data_ram[k[i]] \in Data
        /\ wk \in Seq(Data) /\ c \in Seq(Data)
        /\ HasStagingBuffer => BufferInv(BufferNext(f, pr))
        /\ e = out \o (c \o wk)
    BY LeaveInOrder
  <2>2. queued'[f] = k \o s
    <3>1. queued'[f] = (IF f \in heads THEN Tail(queued[f]) ELSE queued[f]) \o s
      <4> HIDE DEF heads
      <4> QED BY <1>1, <1>2, EntriesStep
    <3> QED BY <1>1, <3>1 DEF Kept
  <2>3. s \in Seq(Address) /\ d \in Seq(Data) /\ Len(d) = Len(s)
        /\ queued[f] \in Seq(Address)
    BY <1>2, Apart, DataAppended
  <2>4. \A i \in 1 .. Len(k) : data_ram'[k[i]] = data_ram[k[i]]
    <3>1. CASE ~HeadBeat(f, pr)
      <4>1. k = queued[f] /\ f \notin heads
        BY <1>1, <3>1 DEF Kept
      <4> QED BY <1>6, <4>1
    <3>2. CASE HeadBeat(f, pr)
      <4>1. k = Tail(queued[f]) /\ Len(queued[f]) >= 1
        BY <3>2, ReadIsHead DEF Kept
      <4> DEFINE q == queued[f]
      <4>2. Len(k) = Len(q) - 1 /\ Len(q) \in Nat /\ \A i \in 1 .. Len(k) : k[i] = q[i + 1]
        BY <2>3, <4>1
      <4> HIDE DEF k, q, heads
      <4> TAKE i \in 1 .. Len(k)
      <4>3. i + 1 \in 1 .. Len(q) /\ i + 1 > 1 /\ k[i] = q[i + 1]
        BY <4>2
      <4>4. data_ram'[q[i + 1]] = data_ram[q[i + 1]]
        BY <1>6, <4>3 DEF q
      <4> QED BY <4>3, <4>4
    <3> QED BY <3>1, <3>2
  <2>5. \A i \in 1 .. Len(s) : data_ram'[s[i]] = d[i]
    BY <1>6
  <2>6. expected'[f] = (IF PopBeat(f, pr) /\ e # <<>> THEN Tail(e) ELSE e) \o d
    <3>1. f \in PopSide(pr).taken <=> PopBeat(f, pr)
      BY DEF PopSide, PopBeat
    <3> QED BY <3>1 DEF Cycle, NewData
  <2>7. out = IF PopBeat(f, pr) THEN <<PopData(f, pr)>> ELSE <<>>
    BY DEF Out, OneIf
  <2>8. /\ HasStagingBuffer => BufferInv(sb'[f])
        /\ Buffered(sb'[f]) = c
    BY <1>4, <2>1
  <2> HIDE DEF k, s, d, out, c, wk, e, heads
  <2>9. /\ Words(k \o s, data_ram') = wk \o d
        /\ \A i \in 1 .. Len(k \o s) : data_ram'[(k \o s)[i]] \in Data
    <3>1. PICK ram : ram = data_ram'
      OBVIOUS
    <3>2. IsWritten(k, s, d, data_ram, ram)
      BY <2>1, <2>3, <2>4, <2>5, <3>1 DEF IsWritten
    <3>3. /\ Words(k \o s, ram) = Words(k, data_ram) \o d
          /\ \A i \in 1 .. Len(k \o s) : ram[(k \o s)[i]] \in Data
      BY <3>2, WordsApart
    <3> QED BY <3>1, <3>3 DEF wk
  <2>10. (IF PopBeat(f, pr) /\ e # <<>> THEN Tail(e) ELSE e) = c \o wk
    <3> DEFINE r == c \o wk
    <3>1. r \in Seq(Data)
      BY <2>1, Joined
    <3> HIDE DEF r
    <3>2. e = out \o r
      BY <2>1 DEF r
    <3>3. CASE PopBeat(f, pr)
      <4>1. out = <<PopData(f, pr)>> /\ PopData(f, pr) \in Data
        BY <2>1, <2>7, <3>3
      <4>2. \A x \in Data : <<x>> \o r # <<>> /\ Tail(<<x>> \o r) = r
        BY <3>1
      <4> QED BY <3>2, <3>3, <4>1, <4>2 DEF r
    <3>4. CASE ~PopBeat(f, pr)
      BY <2>7, <3>1, <3>2, <3>4 DEF r
    <3> QED BY <3>3, <3>4
  <2>11. (c \o wk) \o d = c \o (wk \o d)
    BY <2>1, <2>3, Assoc
  <2> QED BY <2>2, <2>6, <2>8, <2>9, <2>10, <2>11
<1> QED BY <1>3, <1>5, <1>6, <1>7 DEF DataInv

LEMMA EmptyData ==
  ASSUME NEW f \in Fifo, queued[f] = <<>>, expected[f] = <<>>,
         sb[f] = IF HasStagingBuffer THEN SB!EmptyBuffer ELSE NoData
  PROVE  /\ HasStagingBuffer => BufferInv(sb[f])
         /\ \A i \in 1 .. Len(queued[f]) : data_ram[queued[f][i]] \in Data
         /\ expected[f] = Buffered(sb[f]) \o Words(queued[f], data_ram)
<1>1. Len(<<>>) = 0 /\ 1 .. 0 = {}
  OBVIOUS
<1>2. Words(<<>>, data_ram) = <<>>
  BY <1>1 DEF Words
<1>3. Buffered(sb[f]) = <<>> /\ (HasStagingBuffer => BufferInv(sb[f]))
  BY EmptyBufferInv DEF Buffered
<1> QED BY <1>1, <1>2, <1>3

LEMMA InitDataInv ==
  ASSUME Init
  PROVE  DataInv
<1>1. IInv
  BY InitIInv DEF Init
<1>2. \A p \in ReadPort : IsOrder(order[p])
  BY FirstOrder DEF Init
<1>3. data_ram \in [Address -> Word]
  BY DEF Init, Word
<1>4. ASSUME NEW f \in Fifo
      PROVE  /\ HasStagingBuffer => BufferInv(sb[f])
             /\ \A i \in 1 .. Len(queued[f]) : data_ram[queued[f][i]] \in Data
             /\ expected[f] = Buffered(sb[f]) \o Words(queued[f], data_ram)
  <2>1. /\ queued[f] = <<>> /\ expected[f] = <<>>
        /\ sb[f] = IF HasStagingBuffer THEN SB!EmptyBuffer ELSE NoData
    BY DEF Init, PoolInit
  <2> QED BY <2>1, EmptyData
<1> QED BY <1>1, <1>2, <1>3, <1>4 DEF DataInv

LEMMA ResetData ==
  ASSUME Reset
  PROVE  DataInv'
<1>1. IInv'
  BY ResetStep DEF Reset
<1>2. \A p \in ReadPort : IsOrder(order'[p])
  BY FirstOrder DEF Reset
<1>3. data_ram' \in [Address -> Word]
  BY DEF Reset, Word
<1>4. ASSUME NEW f \in Fifo
      PROVE  /\ HasStagingBuffer => BufferInv(sb'[f])
             /\ \A i \in 1 .. Len(queued'[f]) : data_ram'[queued'[f][i]] \in Data
             /\ expected'[f] = Buffered(sb'[f]) \o Words(queued'[f], data_ram')
  <2>1. /\ queued'[f] = <<>> /\ expected'[f] = <<>>
        /\ sb'[f] = IF HasStagingBuffer THEN SB!EmptyBuffer ELSE NoData
    BY DEF Reset, PoolReset
  <2>2. Len(<<>>) = 0 /\ 1 .. 0 = {}
    OBVIOUS
  <2>3. Words(<<>>, data_ram') = <<>>
    BY <2>2 DEF Words
  <2>4. Buffered(sb'[f]) = <<>> /\ (HasStagingBuffer => BufferInv(sb'[f]))
    BY <2>1, EmptyBufferInv DEF Buffered
  <2> QED BY <2>1, <2>2, <2>3, <2>4
<1> QED BY <1>1, <1>2, <1>3, <1>4 DEF DataInv

LEMMA DataInductive == DataInv /\ [Next]_vars => DataInv'
<1> SUFFICES ASSUME DataInv, [Next]_vars PROVE DataInv'
  OBVIOUS
<1>1. CASE Operate
  <2>1. PICK pr \in SUBSET Fifo : \E push \in PushInputs : Cycle(PushSide(push), PopSide(pr))
    BY <1>1 DEF Operate, OperateWith
  <2>2. PICK push \in PushInputs : Cycle(PushSide(push), PopSide(pr))
    BY <2>1
  <2> QED BY <2>2, DataCycle
<1>2. CASE Reset
  BY <1>2, ResetData
<1>3. CASE UNCHANGED vars
  BY <1>3 DEF vars, pool_vars, DataInv, IInv, FreelistOK, PoolTypeOK, EntriesAccounted, ListInv
<1> QED BY <1>1, <1>2, <1>3 DEF Next

(* In every state the pool is in order, each arbiter has an order, and the   *)
(* staging buffer of a FIFO with the words of its queued entries is what     *)
(* the scoreboard expects of it.                                             *)
THEOREM Invariance == Spec => []DataInv
<1>1. Init => DataInv
  BY InitDataInv
<1> QED BY <1>1, DataInductive, PTL DEF Spec

(* The FIFOs with arbiters, staging buffers and data RAM are a pool: what    *)
(* they read are valid heads.                                                *)
THEOREM ImplementsPool == Spec => PoolSpec
<1>1. Init => PoolInit
  BY DEF Init
<1>2. [Next]_vars => [PoolNext]_pool_vars
  <2> SUFFICES ASSUME [Next]_vars PROVE [PoolNext]_pool_vars
    OBVIOUS
  <2>1. CASE Operate
    <3>1. PICK pr \in SUBSET Fifo : \E push \in PushInputs : Cycle(PushSide(push), PopSide(pr))
      BY <2>1 DEF Operate, OperateWith
    <3>2. PICK push \in PushInputs : Cycle(PushSide(push), PopSide(pr))
      BY <3>1
    <3>3. PoolCycle(PushSide(push), Heads(pr)) /\ Heads(pr) \in SUBSET ValidHeads
      BY <3>2, HeadsAreValid DEF Cycle
    <3> QED BY <3>3 DEF PoolNext
  <2>2. CASE Reset
    BY <2>2 DEF Reset, PoolNext
  <2>3. CASE UNCHANGED vars
    BY <2>3 DEF vars
  <2> QED BY <2>1, <2>2, <2>3 DEF Next
<1> QED BY <1>1, <1>2, PTL DEF Spec, PoolSpec

(* No entry of the shared pool is lost or in two places.                     *)
THEOREM AlwaysAccounted == Spec => []EntriesAccounted
BY ImplementsPool, PoolIsAccounted, PTL

(* The linked lists of each FIFO hold its entries in the order they came in. *)
THEOREM AlwaysInTurn == Spec => []ListsInTurn
BY ImplementsPool, PoolListsInTurn, PTL

(* Each FIFO holds what was pushed to it and not yet popped, in order (the   *)
(* scoreboard of br_fifo_shared_dynamic_basic_fpv_monitor).                  *)
THEOREM NothingIsLost == Spec => []HoldsWhatWasPushed
<1>1. ASSUME DataInv, NEW f \in Fifo PROVE Contents(f) = expected[f]
  <2>1. /\ queued[f] \in Seq(Address) /\ ListInv(ll[f], ptr_ram, queued[f])
        /\ expected[f] = Buffered(sb[f]) \o Words(queued[f], data_ram)
    BY <1>1, InvParts
  <2>2. Queued(f) = queued[f]
    BY <2>1, AddressesAre DEF Queued
  <2> DEFINE q == queued[f]
  <2>3. DOMAIN q = 1 .. Len(q) /\ \A i \in 1 .. Len(q) : q[i] # NoAddr
    <3>1. \A a \in Address : a # NoAddr
      BY Constants DEF Address, NoAddr
    <3> QED BY <2>1, <3>1
  <2>4. [i \in DOMAIN q |-> IF q[i] = NoAddr THEN NoData ELSE data_ram[q[i]]] = Words(q, data_ram)
    <3> HIDE DEF q
    <3> QED BY <2>3 DEF Words
  <2> QED BY <2>1, <2>2, <2>4 DEF Contents, Buffered
<1>2. DataInv => HoldsWhatWasPushed
  BY <1>1 DEF HoldsWhatWasPushed
<1> QED BY <1>2, Invariance, PTL

(* Whoever wins the read ports, an entry that changes hands is the oldest of *)
(* its FIFO.                                                                 *)
THEOREM OldestFirst == Spec => []DeliversOldest
<1>1. ASSUME DataInv, NEW pr \in SUBSET Fifo, NEW f \in Fifo, PopBeat(f, pr)
      PROVE  expected[f] # <<>> /\ PopData(f, pr) = Head(expected[f])
  <2> DEFINE r == Buffered(BufferNext(f, pr)) \o Words(Kept(f, pr), data_ram)
             x == PopData(f, pr)
  <2>1. /\ Out(f, pr) \in Seq(Data) /\ expected[f] = Out(f, pr) \o r
        /\ Words(Kept(f, pr), data_ram) \in Seq(Data)
        /\ Buffered(BufferNext(f, pr)) \in Seq(Data)
    BY <1>1, LeaveInOrder
  <2>2. r \in Seq(Data)
    BY <2>1, Joined
  <2>3. Out(f, pr) = <<x>>
    BY <1>1 DEF Out, OneIf
  <2> HIDE DEF r, x
  <2>4. x \in Data
    BY <2>1, <2>3
  <2>5. <<x>> \o r # <<>> /\ Head(<<x>> \o r) = x
    BY <2>2, <2>4
  <2> QED BY <2>1, <2>3, <2>5 DEF x
<1>2. DataInv => DeliversOldest
  BY <1>1 DEF DeliversOldest
<1> QED BY <1>2, Invariance, PTL
=============================================================================
