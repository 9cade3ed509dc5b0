--------------------------- MODULE EthernetProofs ---------------------------
(***************************************************************************)
(* The Ethernet driver and the EMAC share the buffers of both rings, and   *)
(* the stack their references, for every size of the rings and the pools:  *)
(* as long as other protocols than TCP queue one buffer at a time.         *)
(*                                                                         *)
(* The invariant says for every buffer who holds its references (RefInv);  *)
(* it needs the shape of chains, the order of the indices, that no buffer  *)
(* is in two slots, and that what may be queued fits the ring (RoomInv).   *)
(***************************************************************************)
EXTENDS EthernetSafety, FiniteSetTheorems, WellFoundedInduction, TLAPS

-----------------------------------------------------------------------------
(* Indices of the rings.                                                   *)

LEMMA Sizes ==
  /\ NUM_TX_DESC \in Nat /\ NUM_TX_DESC > 1 /\ NUM_TX_DESC = TCP_SND_QUEUELEN + 2
  /\ NUM_RX_BUF \in Nat /\ NUM_RX_BUF > 1 /\ PBUF_POOL \in Nat
  /\ PBUF_POOL >= NUM_RX_BUF /\ RAM_BUFS \in Nat /\ TCP_SND_QUEUELEN \in Nat
  /\ Others \in Nat /\ CountMod \in Nat /\ CountMod > 0
BY EthernetAssumption

LEMMA WrapOnce ==
  ASSUME NEW size \in Nat \ {0}, NEW a \in Nat, a < 2 * size
  PROVE  a % size = IF a < size THEN a ELSE a - size
<1>1. CASE a < size
  BY <1>1, SMT
<1>2. CASE ~(a < size)
  <2>1. a - size \in 0 .. size - 1
    BY <1>2, SMT
  <2>2. a = 1 * size + (a - size)
    BY SMT
  <2>3. QED
    BY <1>2, <2>1, <2>2, SMT
<1>3. QED
  BY <1>1, <1>2

LEMMA WrapNext ==
  ASSUME NEW size \in Nat \ {0}, NEW a \in Nat, a < size
  PROVE  (a + 1) % size = IF a + 1 < size THEN a + 1 ELSE 0
BY SMT

LEMMA TxIndex ==
  ASSUME NEW a \in TxIdx, NEW b \in TxIdx
  PROVE  /\ TxDist(a, b) = IF a <= b THEN b - a ELSE b - a + NUM_TX_DESC
         /\ NextTx(a) = IF a + 1 < NUM_TX_DESC THEN a + 1 ELSE 0
<1> DEFINE d == b - a + NUM_TX_DESC
<1>1. a \in Nat /\ b \in Nat /\ a < NUM_TX_DESC /\ b < NUM_TX_DESC
  BY Sizes DEF TxIdx
<1>2. /\ d \in Nat /\ d < 2 * NUM_TX_DESC /\ NUM_TX_DESC \in Nat \ {0}
      /\ a + 1 \in Nat /\ a + 1 < 2 * NUM_TX_DESC
  BY <1>1, Sizes
<1>3. d % NUM_TX_DESC = IF d < NUM_TX_DESC THEN d ELSE d - NUM_TX_DESC
  BY <1>2, WrapOnce
<1>4. (a + 1) % NUM_TX_DESC = IF a + 1 < NUM_TX_DESC THEN a + 1 ELSE 0
  BY <1>1, <1>2, WrapNext
<1>5. TxDist(a, b) = d % NUM_TX_DESC /\ NextTx(a) = (a + 1) % NUM_TX_DESC
  BY DEF TxDist, NextTx
<1>6. QED
  BY <1>1, <1>3, <1>4, <1>5, Sizes

LEMMA RxIndex ==
  ASSUME NEW a \in RxIdx, NEW b \in RxIdx
  PROVE  /\ RxDist(a, b) = IF a <= b THEN b - a ELSE b - a + NUM_RX_BUF
         /\ NextRx(a) = IF a + 1 < NUM_RX_BUF THEN a + 1 ELSE 0
<1> DEFINE d == b - a + NUM_RX_BUF
<1>1. a \in Nat /\ b \in Nat /\ a < NUM_RX_BUF /\ b < NUM_RX_BUF
  BY Sizes DEF RxIdx
<1>2. /\ d \in Nat /\ d < 2 * NUM_RX_BUF /\ NUM_RX_BUF \in Nat \ {0}
      /\ a + 1 \in Nat /\ a + 1 < 2 * NUM_RX_BUF
  BY <1>1, Sizes
<1>3. d % NUM_RX_BUF = IF d < NUM_RX_BUF THEN d ELSE d - NUM_RX_BUF
  BY <1>2, WrapOnce
<1>4. (a + 1) % NUM_RX_BUF = IF a + 1 < NUM_RX_BUF THEN a + 1 ELSE 0
  BY <1>1, <1>2, WrapNext
<1>5. RxDist(a, b) = d % NUM_RX_BUF /\ NextRx(a) = (a + 1) % NUM_RX_BUF
  BY DEF RxDist, NextRx
<1>6. QED
  BY <1>1, <1>3, <1>4, <1>5, Sizes

(* The same, as it is used: distances, and what one step does to them.     *)
LEMMA TxStep ==
  ASSUME NEW a \in TxIdx, NEW b \in TxIdx
  PROVE  /\ TxDist(a, b) \in 0 .. NUM_TX_DESC - 1 /\ NextTx(a) \in TxIdx
         /\ TxDist(a, b) = 0 <=> a = b
         /\ \A c \in TxIdx : TxDist(a, b) = TxDist(a, c) => b = c
         /\ TxDist(a, b) < NUM_TX_DESC - 1
              => TxDist(a, NextTx(b)) = TxDist(a, b) + 1
         /\ a # b => TxDist(NextTx(a), b) = TxDist(a, b) - 1
         /\ TxDist(NextTx(a), a) = NUM_TX_DESC - 1
<1>1. /\ a \in 0 .. NUM_TX_DESC - 1 /\ b \in 0 .. NUM_TX_DESC - 1
      /\ NUM_TX_DESC \in Nat /\ NUM_TX_DESC > 1
  BY Sizes DEF TxIdx
<1>2. /\ NextTx(a) \in TxIdx /\ NextTx(b) \in TxIdx
      /\ NextTx(a) = IF a + 1 < NUM_TX_DESC THEN a + 1 ELSE 0
      /\ NextTx(b) = IF b + 1 < NUM_TX_DESC THEN b + 1 ELSE 0
  BY <1>1, TxIndex DEF TxIdx
<1>3. TxDist(a, b) = IF a <= b THEN b - a ELSE b - a + NUM_TX_DESC
  BY TxIndex
<1>4. TxDist(a, NextTx(b)) = IF a <= NextTx(b) THEN NextTx(b) - a
                             ELSE NextTx(b) - a + NUM_TX_DESC
  BY <1>2, TxIndex
<1>5. TxDist(NextTx(a), b) = IF NextTx(a) <= b THEN b - NextTx(a)
                             ELSE b - NextTx(a) + NUM_TX_DESC
  BY <1>2, TxIndex
<1>6. TxDist(NextTx(a), a) = IF NextTx(a) <= a THEN a - NextTx(a)
                             ELSE a - NextTx(a) + NUM_TX_DESC
  BY <1>2, TxIndex
<1>7. ASSUME NEW c \in TxIdx, TxDist(a, b) = TxDist(a, c) PROVE b = c
  <2>1. c \in 0 .. NUM_TX_DESC - 1
    BY DEF TxIdx
  <2>2. TxDist(a, c) = IF a <= c THEN c - a ELSE c - a + NUM_TX_DESC
    BY TxIndex
  <2>3. QED
    BY <1>1, <1>3, <1>7, <2>1, <2>2
<1>8. QED
  BY <1>1, <1>2, <1>3, <1>4, <1>5, <1>6, <1>7

LEMMA RxStep ==
  ASSUME NEW a \in RxIdx, NEW b \in RxIdx
  PROVE  /\ RxDist(a, b) \in 0 .. NUM_RX_BUF - 1 /\ NextRx(a) \in RxIdx
         /\ RxDist(a, b) = 0 <=> a = b
         /\ \A c \in RxIdx : RxDist(a, b) = RxDist(a, c) => b = c
         /\ RxDist(a, b) < NUM_RX_BUF - 1
              => RxDist(a, NextRx(b)) = RxDist(a, b) + 1
         /\ RxDist(a, b) = NUM_RX_BUF - 1 => NextRx(b) = a
         /\ a # b => RxDist(NextRx(a), b) = RxDist(a, b) - 1
         /\ RxDist(NextRx(a), a) = NUM_RX_BUF - 1
<1>1. /\ a \in 0 .. NUM_RX_BUF - 1 /\ b \in 0 .. NUM_RX_BUF - 1
      /\ NUM_RX_BUF \in Nat /\ NUM_RX_BUF > 1
  BY Sizes DEF RxIdx
<1>2. /\ NextRx(a) \in RxIdx /\ NextRx(b) \in RxIdx
      /\ NextRx(a) = IF a + 1 < NUM_RX_BUF THEN a + 1 ELSE 0
      /\ NextRx(b) = IF b + 1 < NUM_RX_BUF THEN b + 1 ELSE 0
  BY <1>1, RxIndex DEF RxIdx
<1>3. RxDist(a, b) = IF a <= b THEN b - a ELSE b - a + NUM_RX_BUF
  BY RxIndex
<1>4. RxDist(a, NextRx(b)) = IF a <= NextRx(b) THEN NextRx(b) - a
                             ELSE NextRx(b) - a + NUM_RX_BUF
  BY <1>2, RxIndex
<1>5. RxDist(NextRx(a), b) = IF NextRx(a) <= b THEN b - NextRx(a)
                             ELSE b - NextRx(a) + NUM_RX_BUF
  BY <1>2, RxIndex
<1>6. RxDist(NextRx(a), a) = IF NextRx(a) <= a THEN a - NextRx(a)
                             ELSE a - NextRx(a) + NUM_RX_BUF
  BY <1>2, RxIndex
<1>7. ASSUME NEW c \in RxIdx, RxDist(a, b) = RxDist(a, c) PROVE b = c
  <2>1. c \in 0 .. NUM_RX_BUF - 1
    BY DEF RxIdx
  <2>2. RxDist(a, c) = IF a <= c THEN c - a ELSE c - a + NUM_RX_BUF
    BY RxIndex
  <2>3. QED
    BY <1>1, <1>3, <1>7, <2>1, <2>2
<1>8. QED
  BY <1>1, <1>2, <1>3, <1>4, <1>5, <1>6, <1>7

(* Distances from one index give those from another.                       *)
LEMMA RxShift ==
  ASSUME NEW a \in RxIdx, NEW b \in RxIdx, NEW i \in RxIdx
  PROVE  RxDist(b, i) = IF RxDist(a, b) <= RxDist(a, i)
                        THEN RxDist(a, i) - RxDist(a, b)
                        ELSE RxDist(a, i) - RxDist(a, b) + NUM_RX_BUF
<1>1. /\ a \in 0 .. NUM_RX_BUF - 1 /\ b \in 0 .. NUM_RX_BUF - 1
      /\ i \in 0 .. NUM_RX_BUF - 1 /\ NUM_RX_BUF \in Nat
  BY Sizes DEF RxIdx
<1>2. /\ RxDist(a, b) = IF a <= b THEN b - a ELSE b - a + NUM_RX_BUF
      /\ RxDist(a, i) = IF a <= i THEN i - a ELSE i - a + NUM_RX_BUF
      /\ RxDist(b, i) = IF b <= i THEN i - b ELSE i - b + NUM_RX_BUF
  BY RxIndex
<1>3. QED
  BY <1>1, <1>2

LEMMA TxShift ==
  ASSUME NEW a \in TxIdx, NEW b \in TxIdx, NEW i \in TxIdx
  PROVE  TxDist(b, i) = IF TxDist(a, b) <= TxDist(a, i)
                        THEN TxDist(a, i) - TxDist(a, b)
                        ELSE TxDist(a, i) - TxDist(a, b) + NUM_TX_DESC
<1>1. /\ a \in 0 .. NUM_TX_DESC - 1 /\ b \in 0 .. NUM_TX_DESC - 1
      /\ i \in 0 .. NUM_TX_DESC - 1 /\ NUM_TX_DESC \in Nat
  BY Sizes DEF TxIdx
<1>2. /\ TxDist(a, b) = IF a <= b THEN b - a ELSE b - a + NUM_TX_DESC
      /\ TxDist(a, i) = IF a <= i THEN i - a ELSE i - a + NUM_TX_DESC
      /\ TxDist(b, i) = IF b <= i THEN i - b ELSE i - b + NUM_TX_DESC
  BY TxIndex
<1>3. QED
  BY <1>1, <1>2

(* The slots from index c to index p.                                      *)
Between(c, p) == {i \in TxIdx : TxDist(c, i) < TxDist(c, p)}

LEMMA BetweenIs ==
  ASSUME NEW c \in TxIdx, NEW p \in TxIdx
  PROVE  /\ c # p => c \in Between(c, p)
                     /\ Between(NextTx(c), p) = Between(c, p) \ {c}
         /\ TxDist(c, p) < NUM_TX_DESC - 1
              => p \notin Between(c, p)
                 /\ Between(c, NextTx(p)) = Between(c, p) \union {p}
         /\ c = p => Between(c, p) = {}
<1>1. NUM_TX_DESC \in Nat /\ NUM_TX_DESC > 1
  BY Sizes
<1>2. ASSUME c # p
      PROVE  c \in Between(c, p) /\ Between(NextTx(c), p) = Between(c, p) \ {c}
  <2>1. TxDist(c, c) = 0 /\ TxDist(c, p) \in 1 .. NUM_TX_DESC - 1
        /\ TxDist(NextTx(c), p) = TxDist(c, p) - 1
        /\ TxDist(NextTx(c), c) = NUM_TX_DESC - 1
    BY <1>1, <1>2, TxStep
  <2>2. c \in Between(c, p)
    BY <2>1 DEF Between
  <2>3. ASSUME NEW i \in TxIdx
        PROVE  i \in Between(NextTx(c), p) <=> i \in Between(c, p) /\ i # c
    <3>1. CASE i = c
      BY <1>1, <2>1, <3>1 DEF Between
    <3>2. CASE i # c
      <4>1. TxDist(NextTx(c), i) = TxDist(c, i) - 1 /\ TxDist(c, i) \in Int
        BY <1>1, <3>2, TxStep
      <4>2. QED
        BY <2>1, <3>2, <4>1 DEF Between
    <3>3. QED
      BY <3>1, <3>2
  <2>4. QED
    BY <2>2, <2>3 DEF Between
<1>3. ASSUME TxDist(c, p) < NUM_TX_DESC - 1
      PROVE  /\ p \notin Between(c, p)
             /\ Between(c, NextTx(p)) = Between(c, p) \union {p}
  <2>1. TxDist(c, NextTx(p)) = TxDist(c, p) + 1 /\ TxDist(c, p) \in Nat
    BY <1>1, <1>3, TxStep
  <2>2. p \notin Between(c, p)
    BY <2>1 DEF Between
  <2>3. ASSUME NEW i \in TxIdx
        PROVE  i \in Between(c, NextTx(p)) <=> i \in Between(c, p) \/ i = p
    <3>1. TxDist(c, i) \in Nat /\ (TxDist(c, i) = TxDist(c, p) <=> i = p)
      BY <1>1, TxStep
    <3>2. QED
      BY <2>1, <3>1 DEF Between
  <2>4. QED
    BY <2>2, <2>3 DEF Between
<1>4. c = p => Between(c, p) = {}
  <2>1. TxDist(c, c) = 0 /\ \A i \in TxIdx : TxDist(c, i) >= 0
    BY TxStep, <1>1
  <2>2. QED
    BY <1>1, <2>1, TxStep DEF Between
<1>5. QED
  BY <1>2, <1>3, <1>4

LEMMA BetweenSize ==
  ASSUME NEW c \in TxIdx, NEW p \in TxIdx
  PROVE  IsFiniteSet(Between(c, p)) /\ TxDist(c, p) <= Cardinality(Between(c, p))
<1> DEFINE d == TxDist(c, p)
           f == [k \in 1 .. d |-> IF c + k - 1 < NUM_TX_DESC THEN c + k - 1
                                 ELSE c + k - 1 - NUM_TX_DESC]
<1>1. /\ NUM_TX_DESC \in Nat /\ NUM_TX_DESC > 1 /\ c \in 0 .. NUM_TX_DESC - 1
      /\ d \in 0 .. NUM_TX_DESC - 1
  BY Sizes, TxStep DEF TxIdx
<1>2. IsFiniteSet(Between(c, p))
  <2>1. IsFiniteSet(TxIdx)
    BY <1>1, FS_Interval DEF TxIdx
  <2>2. QED
    BY <2>1, FS_Subset DEF Between
<1> HIDE DEF d
<1>3. ASSUME NEW k \in 1 .. d PROVE f[k] \in TxIdx /\ TxDist(c, f[k]) = k - 1
  <2>1. f[k] \in 0 .. NUM_TX_DESC - 1
    BY <1>1
  <2>2. f[k] \in TxIdx
    BY <2>1 DEF TxIdx
  <2>3. TxDist(c, f[k]) = IF c <= f[k] THEN f[k] - c ELSE f[k] - c + NUM_TX_DESC
    BY <2>2, TxIndex
  <2>4. f[k] = IF c + k - 1 < NUM_TX_DESC THEN c + k - 1 ELSE c + k - 1 - NUM_TX_DESC
    OBVIOUS
  <2> HIDE DEF f
  <2>5. QED
    BY <1>1, <2>1, <2>2, <2>3, <2>4
<1>4. f \in [1 .. d -> Between(c, p)]
  <2>1. \A k \in 1 .. d : f[k] \in Between(c, p)
    <3> TAKE k \in 1 .. d
    <3>1. f[k] \in TxIdx /\ TxDist(c, f[k]) = k - 1 /\ k - 1 < d
      BY <1>1, <1>3
    <3> HIDE DEF f
    <3>2. QED
      BY <3>1 DEF Between, d
  <2>2. f = [k \in 1 .. d |-> f[k]]
    OBVIOUS
  <2> HIDE DEF f
  <2>3. QED
    BY <2>1, <2>2
<1> HIDE DEF f
<1>5. \A j, k \in 1 .. d : f[j] = f[k] => j = k
  <2> SUFFICES ASSUME NEW j \in 1 .. d, NEW k \in 1 .. d, f[j] = f[k] PROVE j = k
    OBVIOUS
  <2>1. j - 1 = k - 1
    BY <1>3
  <2>2. QED
    BY <2>1, <1>1
<1>6. f \in Injection(1 .. d, Between(c, p))
  BY <1>4, <1>5 DEF Injection, IsInjective
<1>7. Cardinality(1 .. d) <= Cardinality(Between(c, p))
  BY <1>2, <1>6, FS_Injection
<1>8. Cardinality(1 .. d) = d
  BY <1>1, FS_Interval
<1>9. QED
  BY <1>2, <1>7, <1>8 DEF d

-----------------------------------------------------------------------------
(* Chains of buffers.                                                      *)

LEMMA BufSets ==
  /\ None \notin Bufs /\ Bufs \subseteq Nat /\ Pool \subseteq Bufs
  /\ Ram \subseteq Bufs /\ Bufs = Pool \union Ram /\ Pool \cap Ram = {}
  /\ IsFiniteSet(Bufs) /\ IsFiniteSet(Ram)
<1>1. IsFiniteSet(Pool) /\ IsFiniteSet(Ram)
  BY Sizes, FS_Interval DEF Pool, Ram
<1>2. IsFiniteSet(Bufs)
  BY <1>1, FS_Union DEF Bufs
<1>3. None \notin Bufs /\ Bufs \subseteq Nat /\ Pool \cap Ram = {}
  BY Sizes DEF None, Bufs, Pool, Ram
<1>4. QED
  BY <1>1, <1>2, <1>3 DEF Bufs

(* Links that do not lead to a buffer with a link.                         *)
Flat(nx) ==
  /\ nx \in [Bufs -> Bufs \union {None}]
  /\ \A b \in Bufs : nx[b] # None => nx[nx[b]] = None

Linked(nx, p) == IF nx[p] = None THEN {} ELSE {nx[p]}

ChainOf(nx, p) ==
  LET from[b \in Bufs \union {None}] ==
        IF b = None THEN {} ELSE {b} \union from[nx[b]]
  IN from[p]

LEMMA ChainIs ==
  ASSUME NEW nx, Flat(nx)
  PROVE  /\ ChainOf(nx, None) = {}
         /\ \A p \in Bufs : ChainOf(nx, p) = {p} \union Linked(nx, p)
<1> DEFINE D == Bufs \union {None}
           F == CHOOSE from : from = [b \in D |-> IF b = None THEN {} ELSE {b} \union from[nx[b]]]
           w == [b \in D |-> IF b = None THEN {} ELSE {b} \union Linked(nx, b)]
<1> USE BufSets
<1>1. w = [b \in D |-> IF b = None THEN {} ELSE {b} \union w[nx[b]]]
  <2>1. \A b \in D : w[b] = IF b = None THEN {} ELSE {b} \union w[nx[b]]
    <3> TAKE b \in D
    <3>1. CASE b = None
      BY <3>1
    <3>2. CASE b # None
      <4>1. b \in Bufs /\ nx[b] \in D
        BY <3>2 DEF Flat
      <4>2. w[nx[b]] = Linked(nx, b)
        BY <4>1 DEF Flat, Linked
      <4>3. w[b] = {b} \union Linked(nx, b)
        BY <3>2
      <4>4. QED
        BY <3>2, <4>2, <4>3
    <3>3. QED
      BY <3>1, <3>2
  <2>2. w = [b \in D |-> w[b]]
    OBVIOUS
  <2>3. QED
    BY <2>1, <2>2, Zenon
<1> HIDE DEF w
<1>2. F = [b \in D |-> IF b = None THEN {} ELSE {b} \union F[nx[b]]]
  BY <1>1, Zenon
<1>3. \A p \in D : ChainOf(nx, p) = F[p]
  BY DEF ChainOf
<1> HIDE DEF F
<1>4. F[None] = {}
  BY <1>2
<1>5. \A b \in Bufs : F[b] = {b} \union F[nx[b]]
  BY <1>2
<1>6. ASSUME NEW p \in Bufs PROVE F[p] = {p} \union Linked(nx, p)
  <2>1. CASE nx[p] = None
    BY <1>4, <1>5, <2>1 DEF Linked
  <2>2. CASE nx[p] # None
    <3>1. nx[p] \in Bufs /\ nx[nx[p]] = None
      BY <2>2 DEF Flat
    <3>2. F[nx[p]] = {nx[p]}
      BY <1>4, <1>5, <3>1
    <3>3. QED
      BY <1>5, <2>2, <3>2 DEF Linked
  <2>3. QED
    BY <2>1, <2>2
<1>7. QED
  BY <1>3, <1>4, <1>6

LEMMA Chains ==
  ASSUME NEW p
  PROVE  Chain(p) = ChainOf(next, p)
BY DEF Chain, ChainOf

(* pbuf_free of a buffer: only the last reference takes the next along.    *)
ReleasedOf(nx, r, p) ==
  LET released[b \in Bufs \union {None}] ==
        IF b = None THEN {}
        ELSE {b} \union IF r[b] = 1 THEN released[nx[b]] ELSE {}
  IN released[p]

LEMMA ReleasedIs ==
  ASSUME NEW nx, NEW r, Flat(nx), NEW p \in Bufs
  PROVE  ReleasedOf(nx, r, p) = {p} \union (IF r[p] = 1 THEN Linked(nx, p) ELSE {})
<1> DEFINE D == Bufs \union {None}
           F == CHOOSE released : released =
                  [b \in D |-> IF b = None THEN {}
                               ELSE {b} \union IF r[b] = 1 THEN released[nx[b]] ELSE {}]
           w == [b \in D |-> IF b = None THEN {}
                             ELSE {b} \union (IF r[b] = 1 THEN Linked(nx, b) ELSE {})]
<1> USE BufSets
<1>1. w = [b \in D |-> IF b = None THEN {}
                       ELSE {b} \union IF r[b] = 1 THEN w[nx[b]] ELSE {}]
  <2>1. \A b \in D : w[b] = IF b = None THEN {}
                             ELSE {b} \union IF r[b] = 1 THEN w[nx[b]] ELSE {}
    <3> TAKE b \in D
    <3>1. CASE b = None
      BY <3>1
    <3>2. CASE b # None
      <4>1. b \in Bufs /\ nx[b] \in D
        BY <3>2 DEF Flat
      <4>2. w[nx[b]] = Linked(nx, b)
        <5>1. CASE nx[b] = None
          BY <5>1 DEF Linked
        <5>2. CASE nx[b] # None
          BY <4>1, <5>2 DEF Flat, Linked
        <5>3. QED
          BY <5>1, <5>2
      <4>3. w[b] = {b} \union (IF r[b] = 1 THEN Linked(nx, b) ELSE {})
        BY <3>2
      <4>4. QED
        BY <3>2, <4>2, <4>3
    <3>3. QED
      BY <3>1, <3>2
  <2>2. w = [b \in D |-> w[b]]
    OBVIOUS
  <2>3. QED
    BY <2>1, <2>2, Zenon
<1> HIDE DEF w
<1>2. F = [b \in D |-> IF b = None THEN {}
                       ELSE {b} \union IF r[b] = 1 THEN F[nx[b]] ELSE {}]
  BY <1>1, Zenon
<1>3. ReleasedOf(nx, r, p) = F[p]
  BY DEF ReleasedOf
<1> HIDE DEF F
<1>4. F[None] = {}
  BY <1>2
<1>5. \A b \in Bufs : F[b] = {b} \union IF r[b] = 1 THEN F[nx[b]] ELSE {}
  BY <1>2
<1>6. F[p] = {p} \union (IF r[p] = 1 THEN Linked(nx, p) ELSE {})
  <2>1. CASE nx[p] = None
    BY <1>4, <1>5, <2>1 DEF Linked
  <2>2. CASE nx[p] # None
    <3>1. nx[p] \in Bufs /\ nx[nx[p]] = None
      BY <2>2 DEF Flat
    <3>2. F[nx[p]] = {nx[p]}
      BY <1>4, <1>5, <3>1
    <3>3. QED
      BY <1>5, <2>2, <3>2 DEF Linked
  <2>3. QED
    BY <2>1, <2>2
<1>7. QED
  BY <1>3, <1>6

LEMMA FreeIs ==
  ASSUME NEW r, NEW p \in Bufs, Flat(next)
  PROVE  pbuf_free(r, p)
           = [b \in Bufs |-> IF b = p \/ (r[p] = 1 /\ next[p] # None /\ b = next[p])
                            THEN r[b] - 1 ELSE r[b]]
<1>1. pbuf_free(r, p) = [b \in Bufs |-> IF b \in ReleasedOf(next, r, p) THEN r[b] - 1
                                       ELSE r[b]]
  BY DEF pbuf_free, ReleasedOf
<1>2. ReleasedOf(next, r, p) = {p} \union (IF r[p] = 1 THEN Linked(next, p) ELSE {})
  BY ReleasedIs
<1>3. \A b : b \in ReleasedOf(next, r, p)
                <=> b = p \/ (r[p] = 1 /\ next[p] # None /\ b = next[p])
  BY <1>2 DEF Linked
<1>4. QED
  BY <1>1, <1>3

(* skub_alloc takes the lowest of the free buffers.                        *)
LEMMA Lowest ==
  ASSUME NEW pool \in SUBSET Bufs, NEW r, FreeBufs(pool, r) # {}
  PROVE  LET p == skub_alloc(pool, r) IN
           /\ p \in pool /\ r[p] = 0 /\ \A b \in pool : r[b] = 0 => p <= b
<1> DEFINE S == FreeBufs(pool, r)
<1>1. S \in SUBSET Nat /\ S # {}
  BY BufSets DEF FreeBufs
<1>2. PICK m \in S : \A n \in S : ~(<<n, m>> \in OpToRel(<, Nat))
  BY <1>1, NatLessThanWellFounded, WFMin
<1>3. \A n \in S : m <= n
  <2>1. \A n \in S : ~(n < m)
    BY <1>1, <1>2 DEF OpToRel
  <2>2. QED
    BY <1>1, <2>1
<1>4. Min(S) \in S /\ \A n \in S : Min(S) <= n
  BY <1>2, <1>3 DEF Min
<1>5. QED
  BY <1>4 DEF skub_alloc, FreeBufs

(* The buffers TCP keeps, and the fragments that are already written.      *)
KeptOf(nx, T) == UNION {ChainOf(nx, p) : p \in T}

LEMMA KeptIs ==
  ASSUME NEW nx, Flat(nx), NEW T \in SUBSET Bufs
  PROVE  \A b : b \in KeptOf(nx, T)
                  <=> b \in Bufs /\ (b \in T \/ \E p \in T : nx[p] = b)
<1> TAKE b
<1>1. b \in KeptOf(nx, T) <=> \E p \in T : b \in ChainOf(nx, p)
  BY DEF KeptOf
<1>2. \A p \in T : b \in ChainOf(nx, p) <=> b = p \/ (b = nx[p] /\ b # None)
  BY ChainIs DEF Linked
<1>3. \A p \in T : nx[p] \in Bufs \union {None}
  BY DEF Flat
<1>4. QED
  BY <1>1, <1>2, <1>3, BufSets

WritingOf(nx, place, h, f) ==
  IF place = "fragment" THEN ChainOf(nx, h) \ ChainOf(nx, f) ELSE {}

LEMMA WritingIs ==
  ASSUME NEW nx, Flat(nx), NEW h \in Bufs
  PROVE  /\ WritingOf(nx, "fragment", h, h) = {}
         /\ WritingOf(nx, "fragment", h, nx[h]) = {h}
         /\ WritingOf(nx, "fragment", h, None) = {h} \union Linked(nx, h)
<1>1. /\ ChainOf(nx, h) = {h} \union Linked(nx, h) /\ ChainOf(nx, None) = {}
  BY ChainIs
<1>2. ChainOf(nx, nx[h]) = Linked(nx, h)
  <2>1. CASE nx[h] = None
    BY <1>1, <2>1 DEF Linked
  <2>2. CASE nx[h] # None
    <3>1. nx[h] \in Bufs /\ nx[nx[h]] = None
      BY <2>2 DEF Flat
    <3>2. ChainOf(nx, nx[h]) = {nx[h]}
      BY <3>1, ChainIs DEF Linked
    <3>3. QED
      BY <2>2, <3>2 DEF Linked
  <2>3. QED
    BY <2>1, <2>2
<1>3. nx[h] # h
  BY BufSets DEF Flat
<1>4. QED
  BY <1>1, <1>2, <1>3 DEF WritingOf, Linked

LEMMA Sets ==
  /\ Held = Between(eth_tx_free_consume, TxProduceIndex)
  /\ Held' = Between(eth_tx_free_consume', TxProduceIndex')
  /\ TcpBufs = KeptOf(next, tcp) /\ TcpBufs' = KeptOf(next', tcp')
  /\ Writing = WritingOf(next, pc, head, frag)
  /\ Writing' = WritingOf(next', pc', head', frag')
BY DEF Held, Between, TcpBufs, KeptOf, Writing, WritingOf, Chain, ChainOf

LEMMA Links ==
  ASSUME TypeOK, ChainInv
  PROVE  /\ Flat(next) /\ \A b \in Bufs : next[b] # b
         /\ \A b : b \in TcpBufs <=> b \in Bufs /\ (b \in tcp \/ \E p \in tcp : next[p] = b)
<1>1. Flat(next)
  BY DEF TypeOK, ChainInv, Flat
<1>2. tcp \in SUBSET Bufs
  BY BufSets DEF TypeOK
<1>3. QED
  BY <1>1, <1>2, KeptIs, Sets, BufSets DEF Flat

LEMMA NextLinks ==
  ASSUME TypeOK', ChainInv'
  PROVE  \A b : b \in TcpBufs' <=> b \in Bufs /\ (b \in tcp' \/ \E p \in tcp' : next'[p] = b)
<1>1. Flat(next')
  BY DEF TypeOK, ChainInv, Flat
<1>2. tcp' \in SUBSET Bufs
  BY BufSets DEF TypeOK
<1>3. QED
  BY <1>1, <1>2, KeptIs, Sets

(* Freeing a buffer that has no rest, or is not freed for the last time.   *)
LEMMA FreeOne ==
  ASSUME NEW r \in [Bufs -> Nat], NEW p \in Bufs, Flat(next),
         r[p] = 1 => next[p] = None
  PROVE  pbuf_free(r, p) = [r EXCEPT ![p] = @ - 1]
<1>1. pbuf_free(r, p)
        = [b \in Bufs |-> IF b = p \/ (r[p] = 1 /\ next[p] # None /\ b = next[p])
                         THEN r[b] - 1 ELSE r[b]]
  BY ONLY FreeIs, Flat(next)
<1>2. \A b : b = p \/ (r[p] = 1 /\ next[p] # None /\ b = next[p]) <=> b = p
  OBVIOUS
<1>3. pbuf_free(r, p) = [b \in Bufs |-> IF b = p THEN r[b] - 1 ELSE r[b]]
  BY <1>1, <1>2
<1>4. QED
  BY <1>3

-----------------------------------------------------------------------------
(* What the parts of the invariant say together.                           *)

(* What is queued of TCP's and of others', with what is about to be queued,*)
(* fits the ring.                                                          *)
LEMMA Room ==
  ASSUME Others <= 1, TypeOK, ChainInv, SlotsInv, CallInv, RoomInv,
         pc \in {"wait", "fragment"}
  PROVE  TxDist(eth_tx_free_consume, TxProduceIndex)
           + (IF next[head] = None THEN 1 ELSE 2) <= NUM_TX_DESC - 1
<1> DEFINE T == Held \ OthersQueued
           X == IF head \in tcp THEN {head} \union Linked(next, head) ELSE {}
           x == IF head \notin tcp THEN 0 ELSE IF next[head] = None THEN 1 ELSE 2
           Y == TcpBufs \ X
           f == [i \in T |-> eth_tx_pbufs[i]]
<1>1. /\ eth_tx_free_consume \in TxIdx /\ TxProduceIndex \in TxIdx
      /\ head \in Bufs /\ head \notin Queued /\ next[head] \notin Queued
      /\ head \notin tcp => next[head] = None /\ Cardinality(OthersQueued) < Others
      /\ next[head] \in Bufs \union {None} /\ next[head] # head
  BY Links DEF TypeOK, CallInv
<1>2. /\ IsFiniteSet(Held)
      /\ TxDist(eth_tx_free_consume, TxProduceIndex) <= Cardinality(Held)
      /\ TxDist(eth_tx_free_consume, TxProduceIndex) \in Nat
  <2>1. Held = Between(eth_tx_free_consume, TxProduceIndex)
    BY Sets
  <2>2. TxDist(eth_tx_free_consume, TxProduceIndex) \in 0 .. NUM_TX_DESC - 1
    BY <1>1, TxStep
  <2>3. /\ IsFiniteSet(Between(eth_tx_free_consume, TxProduceIndex))
        /\ TxDist(eth_tx_free_consume, TxProduceIndex)
             <= Cardinality(Between(eth_tx_free_consume, TxProduceIndex))
    BY <1>1, BetweenSize
  <2>4. QED
    BY <2>1, <2>2, <2>3, Sizes
<1>3. OthersQueued \subseteq Held /\ T \subseteq Held /\ T \cap OthersQueued = {}
      /\ Held = T \union OthersQueued
  BY DEF OthersQueued
<1>4. IsFiniteSet(OthersQueued) /\ IsFiniteSet(T)
      /\ Cardinality(OthersQueued) \in Nat /\ Cardinality(T) \in Nat
  BY <1>2, <1>3, FS_Subset, FS_CardinalityType
<1>5. Cardinality(Held) = Cardinality(T) + Cardinality(OthersQueued)
  <2>1. Cardinality(T \union OthersQueued)
          = Cardinality(T) + Cardinality(OthersQueued) - Cardinality(T \cap OthersQueued)
    BY <1>4, FS_Union
  <2>2. Cardinality(T \cap OthersQueued) = 0
    BY <1>3, FS_EmptySet
  <2> HIDE DEF T
  <2>3. QED
    BY <1>3, <1>4, <2>1, <2>2
<1>6. TcpBufs \subseteq Bufs /\ IsFiniteSet(TcpBufs) /\ Cardinality(TcpBufs) \in Nat
  BY Links, BufSets, FS_Subset, FS_CardinalityType
<1>7. X \subseteq TcpBufs /\ X \subseteq {head, next[head]}
  BY <1>1, Links DEF Linked
<1>8. IsFiniteSet(X) /\ Cardinality(X) = x
  <2>1. CASE head \notin tcp
    BY <2>1, FS_EmptySet
  <2>2. CASE head \in tcp /\ next[head] = None
    <3>1. X = {head}
      BY <2>2 DEF Linked
    <3> HIDE DEF X
    <3>2. QED
      BY <2>2, <3>1, FS_Singleton
  <2>3. CASE head \in tcp /\ next[head] # None
    <3>1. X = {head} \union {next[head]}
      BY <2>3 DEF Linked
    <3> HIDE DEF X
    <3>2. IsFiniteSet({head}) /\ Cardinality({head}) = 1 /\ next[head] \notin {head}
      BY <1>1, FS_Singleton
    <3>3. IsFiniteSet(X) /\ Cardinality(X) = 1 + 1
      BY <3>1, <3>2, FS_AddElement
    <3>4. QED
      BY <2>3, <3>3
  <2>4. QED
    BY <2>1, <2>2, <2>3
<1>9. IsFiniteSet(Y) /\ Cardinality(Y) = Cardinality(TcpBufs) - x
  <2> HIDE DEF X, x
  <2>1. TcpBufs \cap X = X
    BY <1>7
  <2>2. /\ IsFiniteSet(TcpBufs \ X)
        /\ Cardinality(TcpBufs \ X)
             = Cardinality(TcpBufs) - Cardinality(TcpBufs \cap X)
    BY ONLY <1>6, FS_Difference
  <2>3. QED
    BY <1>8, <2>1, <2>2
<1>10. f \in Injection(T, Y)
  <2>1. ASSUME NEW i \in T PROVE f[i] \in Y
    <3>1. i \in Held /\ eth_tx_pbufs[i] \in TcpBufs
      BY DEF OthersQueued
    <3>2. eth_tx_pbufs[i] \in Queued
      BY <3>1 DEF Queued
    <3>3. eth_tx_pbufs[i] \notin X
      BY <1>1, <1>7, <3>2
    <3> HIDE DEF X
    <3>4. QED
      BY <3>1, <3>3
  <2>2. \A i, j \in T : f[i] = f[j] => i = j
    BY <1>3 DEF SlotsInv
  <2>3. f \in [T -> Y]
    <3>1. f = [i \in T |-> f[i]]
      OBVIOUS
    <3> HIDE DEF f, T, Y
    <3>2. QED
      BY <2>1, <3>1
  <2> HIDE DEF f, T, Y
  <2>4. QED
    BY <2>2, <2>3 DEF Injection, IsInjective
<1> HIDE DEF f, T, Y, X
<1>11. Cardinality(T) <= Cardinality(Y)
  BY <1>9, <1>10, FS_Injection
<1>12. Cardinality(OthersQueued) <= 1
       /\ (head \notin tcp => Cardinality(OthersQueued) = 0)
       /\ Cardinality(TcpBufs) <= TCP_SND_QUEUELEN
  BY <1>1, <1>4, Sizes DEF RoomInv
<1>13. QED
  BY <1>1, <1>2, <1>4, <1>5, <1>6, <1>9, <1>11, <1>12, Sizes

(* Who has a reference has only the references the invariant counts.       *)
LEMMA Counts ==
  ASSUME TypeOK, ChainInv, SlotsInv, CallInv, RefInv
  PROVE  /\ \A b \in Bufs : b \in Queued \/ b \in Received \/ b \in Writing
                            \/ b \in Caller \/ b \in TcpBufs => ref[b] > 0
         /\ \A b \in Received : /\ b \in Pool /\ b \in Bufs /\ b \notin Queued
                                /\ b \notin Writing /\ b \notin Caller
                                /\ b \notin TcpBufs
         /\ Queued \subseteq Bufs /\ None \notin Queued
         /\ \A b \in tcp : ref[b] > 0 /\ b \in TcpBufs /\ b \in Ram /\ b \notin Pool
         /\ pc = "packet" => /\ cur \in Bufs /\ cur \in Caller /\ cur \notin Queued
                             /\ cur \notin Received /\ cur \notin TcpBufs
                             /\ next[cur] = None /\ cur \notin tcp /\ ref[cur] = 1
<1>1. Queued \subseteq Bufs /\ None \notin Queued
  BY BufSets DEF SlotsInv, Queued
<1>2. \A b \in Bufs : ref[b] = One(b \in Queued) + One(b \in Received)
         + One(b \in Writing) + One(b \in Caller) + One(b \in TcpBufs)
  BY DEF RefInv
<1>3. \A b \in Received : b \in Pool /\ b \in Bufs /\ ref[b] = 1
  BY BufSets DEF Received, SlotsInv, RefInv
<1>4. \A b \in tcp : b \in Bufs /\ b \in TcpBufs /\ b \in Ram /\ b \notin Pool
  BY Links, BufSets DEF TypeOK
<1>5. \A b \in Bufs : b \in Queued \/ b \in Received \/ b \in Writing
                       \/ b \in Caller \/ b \in TcpBufs => ref[b] > 0
  BY <1>2 DEF One
<1>6. ASSUME NEW b \in Received
      PROVE  b \notin Queued /\ b \notin Writing /\ b \notin Caller /\ b \notin TcpBufs
  BY <1>2, <1>3 DEF One
<1>7. ASSUME pc = "packet"
      PROVE  /\ cur \in Bufs /\ cur \in Caller /\ cur \notin Queued
             /\ cur \notin Received /\ cur \notin TcpBufs
             /\ next[cur] = None /\ cur \notin tcp /\ ref[cur] = 1
  <2>1. cur \in Pool /\ ref[cur] = 1 /\ cur \in Bufs /\ cur \notin Ram
    BY <1>7, BufSets DEF RefInv
  <2>2. cur \notin tcp /\ cur \in Caller
    BY <1>4, <2>1 DEF Caller
  <2>3. next[cur] = None
    BY <2>1 DEF ChainInv
  <2>4. cur \notin Queued /\ cur \notin Received /\ cur \notin TcpBufs
    BY <1>2, <2>1, <2>2 DEF One
  <2>5. QED
    BY <2>1, <2>2, <2>3, <2>4
<1>8. QED
  BY <1>1, <1>3, <1>4, <1>5, <1>6, <1>7

-----------------------------------------------------------------------------
(* The inductive invariant.                                                *)
Inv == /\ TypeOK /\ RingsInv /\ ChainInv /\ SlotsInv
       /\ CallInv /\ RoomInv /\ RefInv /\ OrderInv

(* What the stack sees is left alone, but for the place of the main loop.  *)
Still == /\ UNCHANGED <<bufVars, txVars, eth_rx_pbufs, tcp, cur, head, frag>>
         /\ pc' = "packet" <=> pc = "packet"
         /\ Owned' = Owned /\ Writing' = Writing

LEMMA StillKept ==
  ASSUME ChainInv, SlotsInv, RoomInv, RefInv, Still
  PROVE  /\ ChainInv' /\ SlotsInv' /\ RoomInv' /\ RefInv'
         /\ Queued' = Queued /\ OthersQueued' = OthersQueued
<1>1. Held' = Held
  BY DEF Still, Held, txVars
<1>2. Queued' = Queued
  BY <1>1 DEF Still, Queued, txVars
<1>3. TcpBufs' = TcpBufs
  BY Sets DEF Still, bufVars
<1>4. OthersQueued' = OthersQueued
  BY <1>1, <1>3 DEF Still, OthersQueued, txVars
<1>5. Received' = Received /\ Caller' = Caller
  BY DEF Still, Received, Caller
<1>6. ChainInv'
  BY DEF Still, ChainInv, bufVars
<1>7. SlotsInv'
  BY <1>1 DEF Still, SlotsInv, txVars
<1>8. RoomInv'
  BY <1>3, <1>4 DEF RoomInv
<1>9. RefInv'
  <2>1. ref' = ref /\ cur' = cur /\ Writing' = Writing /\ (pc' = "packet" <=> pc = "packet")
    BY DEF Still, bufVars
  <2>2. \A b \in Bufs : ref'[b] = One(b \in Queued') + One(b \in Received')
           + One(b \in Writing') + One(b \in Caller') + One(b \in TcpBufs')
    BY <1>2, <1>3, <1>5, <2>1 DEF RefInv
  <2>3. \A b \in Received' : ref'[b] = 1
    BY <1>5, <2>1 DEF RefInv
  <2>4. IF pc' = "packet" THEN cur' \in Pool /\ ref'[cur'] = 1 ELSE cur' = None
    BY <2>1 DEF RefInv
  <2>5. QED
    BY <2>2, <2>3, <2>4 DEF RefInv
<1>10. QED
  BY <1>2, <1>4, <1>6, <1>7, <1>8, <1>9

(* Outside a call of linkoutput there is nothing to say of it.             *)
LEMMA NoCall ==
  ASSUME CallInv, UNCHANGED <<head, frag>>, pc \notin {"wait", "fragment"},
         pc' \notin {"wait", "fragment"}
  PROVE  CallInv' /\ Writing' = Writing
BY DEF CallInv, Writing

LEMMA OrderKept ==
  ASSUME OrderInv, UNCHANGED <<handled, arrived, data, eth_rx_pbufs, RxProduceIndex>>,
         UNCHANGED <<eth_rx_read_index, cur>>, pc' = "packet" <=> pc = "packet"
  PROVE  OrderInv'
BY DEF OrderInv, One

LEMMA TxDoneKeeps ==
  ASSUME Inv, TxDone
  PROVE  Inv'
<1>1. Still
  BY DEF TxDone, Still, callVars, txVars, rxVars, Owned, Writing, Chain, bufVars
<1>2. ChainInv' /\ SlotsInv' /\ RoomInv' /\ RefInv' /\ Queued' = Queued
      /\ OthersQueued' = OthersQueued
  BY <1>1, StillKept DEF Inv
<1>3. OrderInv'
  BY OrderKept DEF Inv, TxDone, rxVars
<1>4. CallInv'
  BY <1>2 DEF Inv, CallInv, TxDone, callVars, txVars, bufVars
<1>5. TxConsumeIndex \in TxIdx /\ TxConsumeIndex' \in TxIdx
  BY TxStep DEF Inv, TypeOK, TxDone
<1>6. TypeOK'
  BY <1>5 DEF Inv, TypeOK, TxDone, callVars, txVars, rxVars, bufVars
<1>7. RingsInv'
  <2> DEFINE c == eth_tx_free_consume
  <2>1. c \in TxIdx /\ TxProduceIndex \in TxIdx /\ TxConsumeIndex # TxProduceIndex
        /\ TxConsumeIndex' = NextTx(TxConsumeIndex) /\ c' = c
        /\ TxProduceIndex' = TxProduceIndex
    BY DEF Inv, TypeOK, TxDone, txVars
  <2>2. TxDist(c, TxConsumeIndex) <= TxDist(c, TxProduceIndex)
        /\ TxDist(c, TxConsumeIndex) # TxDist(c, TxProduceIndex)
        /\ TxDist(c, TxConsumeIndex) \in Nat
        /\ TxDist(c, TxProduceIndex) \in 0 .. NUM_TX_DESC - 1
    BY <1>5, <2>1, TxStep, Sizes DEF Inv, RingsInv
  <2>3. TxDist(c, TxConsumeIndex') = TxDist(c, TxConsumeIndex) + 1
    BY <1>5, <2>1, <2>2, TxStep, Sizes
  <2>4. pc = "cleanup" => TxDist(c, produce) \in Int
    BY <2>1, TxStep, Sizes DEF Inv, TypeOK
  <2>5. QED
    BY <2>1, <2>2, <2>3, <2>4, Sizes DEF Inv, RingsInv, TxDone, rxVars, callVars
<1>8. QED
  BY <1>2, <1>3, <1>4, <1>6, <1>7 DEF Inv

(* Steps of the main loop that only move on.                               *)
LEMMA MoveKeeps ==
  ASSUME Inv, CleanupBegin \/ CleanupDone \/ NothingReceived
  PROVE  Inv'
<1>1. /\ UNCHANGED <<bufVars, txVars, rxVars, emacVars, head, frag, cur, tcp, handled>>
      /\ pc \in {"poll_1", "cleanup", "rx"} /\ pc' \in {"cleanup", "rx", "polls"}
      /\ pc' = "cleanup" => produce' = TxConsumeIndex
      /\ pc' # "cleanup" => produce' = 0
  BY DEF Inv, TypeOK, CleanupBegin, CleanupDone, NothingReceived, callVars
<1>2. CallInv' /\ Writing' = Writing
  BY <1>1, NoCall DEF Inv
<1>3. Owned' = Owned
  BY <1>1 DEF Owned, rxVars
<1>4. Still
  BY <1>1, <1>2, <1>3 DEF Still, rxVars
<1>5. ChainInv' /\ SlotsInv' /\ RoomInv' /\ RefInv'
  BY <1>4, StillKept DEF Inv
<1>6. OrderInv'
  BY <1>1, OrderKept DEF Inv, rxVars, emacVars
<1>7. TypeOK'
  BY <1>1 DEF Inv, TypeOK, bufVars, txVars, rxVars, emacVars
<1>8. RingsInv'
  <2>1. TxDist(eth_tx_free_consume, TxConsumeIndex) \in Nat
    <3>1. eth_tx_free_consume \in TxIdx /\ TxConsumeIndex \in TxIdx
      BY DEF Inv, TypeOK
    <3>2. QED
      BY <3>1, TxStep, Sizes
  <2>2. QED
    BY <1>1, <2>1 DEF Inv, RingsInv, txVars, rxVars, emacVars
<1>9. QED
  BY <1>2, <1>5, <1>6, <1>7, <1>8 DEF Inv

LEMMA PollTwoKeeps ==
  ASSUME Inv, PollTwo
  PROVE  Inv'
<1>1. /\ UNCHANGED <<bufVars, txVars, rxVars, emacVars, head, frag, cur, tcp, handled>>
      /\ pc = "polls" /\ pc' = "poll_2" /\ produce' = RxConsumeIndex
  BY DEF PollTwo
<1>2. CallInv' /\ Writing' = Writing
  BY <1>1, NoCall DEF Inv
<1>3. /\ RxDist(RxConsumeIndex, RxConsumeIndex) = 0
      /\ \A i \in RxIdx : RxDist(RxConsumeIndex, i) \in Nat
      /\ RxConsumeIndex \in RxIdx /\ eth_rx_read_index \in RxIdx
  BY SMTT(20), RxStep, Sizes DEF Inv, TypeOK
<1>4. Owned' = Owned
  BY <1>1, <1>3 DEF Owned, rxVars
<1>5. Still
  BY <1>1, <1>2, <1>4 DEF Still, rxVars
<1>6. ChainInv' /\ SlotsInv' /\ RoomInv' /\ RefInv'
  BY <1>5, StillKept DEF Inv
<1>7. OrderInv'
  BY <1>1, OrderKept DEF Inv, rxVars, emacVars
<1>8. TypeOK'
  BY <1>1, <1>3 DEF Inv, TypeOK, bufVars, txVars, rxVars, emacVars
<1>9. RingsInv'
  BY <1>1, <1>3 DEF Inv, RingsInv, txVars, rxVars, emacVars
<1>10. QED
  BY <1>2, <1>6, <1>7, <1>8, <1>9 DEF Inv

LEMMA PollTwoDoneKeeps ==
  ASSUME Inv, PollTwoDone
  PROVE  Inv'
<1>1. /\ UNCHANGED <<bufVars, txVars, eth_rx_pbufs, eth_rx_read_index, emacVars>>
      /\ UNCHANGED <<head, frag, cur, tcp, handled>>
      /\ pc = "poll_2" /\ pc' = "poll_1" /\ produce' = 0 /\ RxConsumeIndex' = produce
  BY DEF PollTwoDone
<1>2. CallInv' /\ Writing' = Writing
  BY <1>1, NoCall DEF Inv
<1>3. /\ RxConsumeIndex \in RxIdx /\ produce \in RxIdx
      /\ eth_rx_read_index \in RxIdx /\ RxProduceIndex \in RxIdx
  BY <1>1 DEF Inv, TypeOK
<1>4. \A i \in RxIdx :
        /\ RxDist(RxConsumeIndex, i) \in 0 .. NUM_RX_BUF - 1
        /\ RxDist(produce, i) = IF RxDist(RxConsumeIndex, produce) <= RxDist(RxConsumeIndex, i)
             THEN RxDist(RxConsumeIndex, i) - RxDist(RxConsumeIndex, produce)
             ELSE RxDist(RxConsumeIndex, i) - RxDist(RxConsumeIndex, produce) + NUM_RX_BUF
  BY <1>3, RxStep, RxShift
<1>5. /\ RxDist(RxConsumeIndex, eth_rx_read_index) <= RxDist(RxConsumeIndex, RxProduceIndex)
      /\ RxDist(RxConsumeIndex, produce) <= RxDist(RxConsumeIndex, eth_rx_read_index)
  BY <1>1 DEF Inv, RingsInv
<1>6. Owned' = Owned
  <2>1. ASSUME NEW i \in RxIdx
        PROVE  RxDist(produce, i) >= RxDist(produce, eth_rx_read_index)
                 <=> \/ RxDist(RxConsumeIndex, i) >= RxDist(RxConsumeIndex, eth_rx_read_index)
                     \/ RxDist(RxConsumeIndex, i) < RxDist(RxConsumeIndex, produce)
    BY <1>3, <1>4, <1>5, Sizes
  <2>2. QED
    BY <1>1, <2>1 DEF Owned
<1>7. Still
  BY <1>1, <1>2, <1>6 DEF Still
<1>8. ChainInv' /\ SlotsInv' /\ RoomInv' /\ RefInv'
  BY <1>7, StillKept DEF Inv
<1>9. OrderInv'
  BY <1>1, OrderKept DEF Inv, emacVars
<1>10. TypeOK'
  BY <1>1, <1>3 DEF Inv, TypeOK, bufVars, txVars, emacVars
<1>11. RingsInv'
  <2>1. RxDist(produce, eth_rx_read_index) <= RxDist(produce, RxProduceIndex)
    BY <1>3, <1>4, <1>5, Sizes
  <2>2. QED
    BY <1>1, <2>1 DEF Inv, RingsInv, txVars, emacVars
<1>12. QED
  BY <1>2, <1>8, <1>9, <1>10, <1>11 DEF Inv

LEMMA WaitKeeps ==
  ASSUME Inv, WaitForRoom
  PROVE  Inv'
<1>1. /\ UNCHANGED <<bufVars, txVars, rxVars, emacVars, head, frag, cur, tcp, handled>>
      /\ pc = "wait" /\ pc' = "fragment" /\ produce' = TxProduceIndex
  BY DEF WaitForRoom
<1>2. /\ TxProduceIndex \in TxIdx /\ TxDist(TxProduceIndex, TxProduceIndex) = 0
      /\ head \in Bufs /\ frag = head
  BY <1>1, TxStep DEF Inv, TypeOK, CallInv
<1>3. Writing' = {} /\ Writing = {}
  <2>1. WritingOf(next, "fragment", head, head) = {}
    BY <1>2, Links, WritingIs DEF Inv
  <2>2. QED
    BY <1>1, <1>2, <2>1, Sets DEF Writing, bufVars
<1>4. Owned' = Owned
  BY <1>1 DEF Owned, rxVars
<1>5. Still
  BY <1>1, <1>3, <1>4 DEF Still, rxVars
<1>6. ChainInv' /\ SlotsInv' /\ RoomInv' /\ RefInv' /\ Queued' = Queued
      /\ OthersQueued' = OthersQueued
  BY <1>5, StillKept DEF Inv
<1>7. OrderInv'
  BY <1>1, OrderKept DEF Inv, rxVars, emacVars
<1>8. TypeOK'
  BY <1>1, <1>2 DEF Inv, TypeOK, bufVars, txVars, rxVars, emacVars
<1>9. RingsInv'
  BY <1>1 DEF Inv, RingsInv, txVars, rxVars, emacVars
<1>10. CallInv'
  <2>1. /\ head' = head /\ frag' = head /\ next' = next /\ tcp' = tcp
        /\ TxProduceIndex' = TxProduceIndex /\ pc' = "fragment"
    BY <1>1, <1>2 DEF bufVars, txVars
  <2>2. /\ head \in Bufs /\ head \notin Queued /\ next[head] \notin Queued
        /\ head \notin tcp => next[head] = None /\ Cardinality(OthersQueued) < Others
    BY <1>1 DEF Inv, CallInv
  <2>3. TxDist(TxProduceIndex', produce') = 0
    BY <1>1, <1>2, <2>1
  <2>4. QED
    BY <1>6, <2>1, <2>2, <2>3 DEF CallInv
<1>11. QED
  BY <1>6, <1>7, <1>8, <1>9, <1>10 DEF Inv

-----------------------------------------------------------------------------
(* Numbers of packets.                                                     *)
After(h, k) == (h + k) % CountMod

LEMMA AfterIs ==
  ASSUME NEW h \in 0 .. CountMod - 1, NEW k \in 0 .. CountMod
  PROVE  /\ After(h, k) = IF h + k < CountMod THEN h + k ELSE h + k - CountMod
         /\ After(h, k) \in 0 .. CountMod - 1
<1>1. CountMod \in Nat /\ CountMod > 0
  BY Sizes
<1>2. (h + k) % CountMod = IF h + k < CountMod THEN h + k ELSE h + k - CountMod
  <2>1. CASE h + k < CountMod
    BY <1>1, <2>1, SMT
  <2>2. CASE ~(h + k < CountMod)
    <3>1. h + k - CountMod \in 0 .. CountMod - 1
      BY <1>1, <2>2, SMT
    <3>2. h + k = 1 * CountMod + (h + k - CountMod)
      BY <1>1, SMT
    <3>3. QED
      BY <1>1, <2>2, <3>1, <3>2, SMT
  <2>3. QED
    BY <2>1, <2>2
<1>3. QED
  BY <1>1, <1>2 DEF After

LEMMA AfterNext ==
  ASSUME NEW h \in 0 .. CountMod - 1, NEW k \in 0 .. CountMod - 1
  PROVE  /\ After(After(h, k), 1) = After(h, k + 1)
         /\ After(After(h, 1), k) = After(h, k + 1)
         /\ After(h, 1) \in 0 .. CountMod - 1 /\ After(h, 0) = h
<1>1. CountMod \in Nat /\ CountMod > 0
  BY Sizes
<1>2. /\ After(h, k) = IF h + k < CountMod THEN h + k ELSE h + k - CountMod
      /\ After(h, k) \in 0 .. CountMod - 1
  BY <1>1, AfterIs
<1>3. /\ After(h, 1) = IF h + 1 < CountMod THEN h + 1 ELSE h + 1 - CountMod
      /\ After(h, 1) \in 0 .. CountMod - 1
  BY <1>1, AfterIs
<1>4. After(h, k + 1) = IF h + (k + 1) < CountMod THEN h + (k + 1)
                        ELSE h + (k + 1) - CountMod
  <2>1. k + 1 \in 0 .. CountMod
    BY <1>1
  <2>2. QED
    BY <2>1, AfterIs
<1>5. After(After(h, k), 1) = IF After(h, k) + 1 < CountMod THEN After(h, k) + 1
                              ELSE After(h, k) + 1 - CountMod
  <2>1. After(h, k) \in 0 .. CountMod - 1 /\ 1 \in 0 .. CountMod
    BY <1>1, <1>2
  <2>2. QED
    BY ONLY <2>1, AfterIs
<1>6. After(After(h, 1), k) = IF After(h, 1) + k < CountMod THEN After(h, 1) + k
                              ELSE After(h, 1) + k - CountMod
  <2>1. After(h, 1) \in 0 .. CountMod - 1 /\ k \in 0 .. CountMod
    BY <1>1, <1>3
  <2>2. QED
    BY ONLY <2>1, AfterIs
<1>7. After(h, 0) = h
  <2>1. 0 \in 0 .. CountMod /\ h + 0 < CountMod
    BY <1>1
  <2>2. QED
    BY <1>1, <2>1, AfterIs
<1>8. QED
  BY <1>1, <1>2, <1>3, <1>4, <1>5, <1>6, <1>7

LEMMA Order ==
  /\ OrderInv <=>
       /\ handled \in 0 .. CountMod - 1
       /\ pc = "packet" => data[cur] = handled
       /\ arrived = After(handled, One(pc = "packet")
                            + RxDist(eth_rx_read_index, RxProduceIndex))
       /\ \A i \in RxIdx :
            RxDist(eth_rx_read_index, i) < RxDist(eth_rx_read_index, RxProduceIndex)
              => data[eth_rx_pbufs[i]]
                   = After(handled, One(pc = "packet") + RxDist(eth_rx_read_index, i))
  /\ OrderInv' <=>
       /\ handled' \in 0 .. CountMod - 1
       /\ pc' = "packet" => data'[cur'] = handled'
       /\ arrived' = After(handled', One(pc' = "packet")
                            + RxDist(eth_rx_read_index', RxProduceIndex'))
       /\ \A i \in RxIdx :
            RxDist(eth_rx_read_index', i) < RxDist(eth_rx_read_index', RxProduceIndex')
              => data'[eth_rx_pbufs'[i]]
                   = After(handled', One(pc' = "packet") + RxDist(eth_rx_read_index', i))
BY DEF OrderInv, After, One

-----------------------------------------------------------------------------
(* The receive ring.                                                       *)

(* Slots received into, and the one received into next, are all owned.     *)
LEMMA Ready ==
  ASSUME TypeOK, RingsInv
  PROVE  /\ RxDist(eth_rx_read_index, RxProduceIndex)
              = RxDist(RxConsumeIndex, RxProduceIndex)
                  - RxDist(RxConsumeIndex, eth_rx_read_index)
         /\ RxDist(RxConsumeIndex, RxProduceIndex) \in 0 .. NUM_RX_BUF - 1
         /\ RxDist(RxConsumeIndex, eth_rx_read_index) \in 0 .. NUM_RX_BUF - 1
         /\ RxDist(eth_rx_read_index, RxProduceIndex) \in 0 .. NUM_RX_BUF - 1
         /\ \A i \in RxIdx :
              /\ RxDist(RxConsumeIndex, i) \in 0 .. NUM_RX_BUF - 1
              /\ RxDist(eth_rx_read_index, i) \in 0 .. NUM_RX_BUF - 1
              /\ RxDist(eth_rx_read_index, i)
                   <= RxDist(eth_rx_read_index, RxProduceIndex) => i \in Owned
<1>1. /\ RxConsumeIndex \in RxIdx /\ eth_rx_read_index \in RxIdx
      /\ RxProduceIndex \in RxIdx
      /\ RxDist(RxConsumeIndex, eth_rx_read_index)
           <= RxDist(RxConsumeIndex, RxProduceIndex)
  BY DEF TypeOK, RingsInv
<1>2. \A i \in RxIdx :
        /\ RxDist(RxConsumeIndex, i) \in 0 .. NUM_RX_BUF - 1
        /\ RxDist(eth_rx_read_index, i) \in 0 .. NUM_RX_BUF - 1
        /\ RxDist(eth_rx_read_index, i)
             = IF RxDist(RxConsumeIndex, eth_rx_read_index) <= RxDist(RxConsumeIndex, i)
               THEN RxDist(RxConsumeIndex, i) - RxDist(RxConsumeIndex, eth_rx_read_index)
               ELSE RxDist(RxConsumeIndex, i)
                      - RxDist(RxConsumeIndex, eth_rx_read_index) + NUM_RX_BUF
  BY <1>1, RxStep, RxShift
<1>3. RxDist(eth_rx_read_index, RxProduceIndex)
        = RxDist(RxConsumeIndex, RxProduceIndex)
            - RxDist(RxConsumeIndex, eth_rx_read_index)
  BY <1>1, <1>2
<1>4. ASSUME NEW i \in RxIdx,
             RxDist(eth_rx_read_index, i) <= RxDist(eth_rx_read_index, RxProduceIndex)
      PROVE  i \in Owned
  <2>1. RxDist(RxConsumeIndex, eth_rx_read_index) <= RxDist(RxConsumeIndex, i)
    BY <1>1, <1>2, <1>3, <1>4, Sizes
  <2>2. QED
    BY <1>1, <1>2, <2>1, Sizes DEF Owned
<1>5. QED
  BY <1>1, <1>2, <1>3, <1>4

LEMMA RxDoneKeeps ==
  ASSUME Inv, RxDone
  PROVE  Inv'
<1> DEFINE b == eth_rx_pbufs[RxProduceIndex]
           d == RxDist(eth_rx_read_index, RxProduceIndex)
           f == One(pc = "packet")
<1>1. /\ UNCHANGED <<bufVars, txVars, rxVars, TxConsumeIndex, callVars, pc, cur, tcp,
                     handled>>
      /\ data' = [data EXCEPT ![b] = arrived] /\ RxProduceIndex' = NextRx(RxProduceIndex)
      /\ arrived' = After(arrived, 1) /\ NextRx(RxProduceIndex) # RxConsumeIndex
  BY DEF RxDone, RxStarved, After
<1>2. TypeOK /\ RingsInv /\ SlotsInv /\ RefInv /\ OrderInv /\ ChainInv /\ CallInv
  BY DEF Inv
<1>3. Still
  BY <1>1 DEF Still, callVars, txVars, rxVars, Owned, Writing, Chain, bufVars
<1>4. ChainInv' /\ SlotsInv' /\ RoomInv' /\ RefInv' /\ Queued' = Queued
      /\ OthersQueued' = OthersQueued
  BY <1>2, <1>3, StillKept DEF Inv
<1>5. CallInv'
  BY <1>2, <1>4, <1>1 DEF CallInv, callVars, txVars, bufVars
<1>6. /\ RxConsumeIndex \in RxIdx /\ RxProduceIndex \in RxIdx
      /\ eth_rx_read_index \in RxIdx /\ NextRx(RxProduceIndex) \in RxIdx
  BY <1>2, RxStep DEF TypeOK
<1>7. RxProduceIndex \in Owned /\ b \in Pool /\ b \in Received /\ b \in Bufs
  <2>1. RxProduceIndex \in Owned
    BY <1>2, <1>6, Ready, Sizes
  <2>2. QED
    BY <1>2, <2>1, BufSets DEF SlotsInv, Received
<1>8. /\ RxDist(RxConsumeIndex, RxProduceIndex) < NUM_RX_BUF - 1
      /\ RxDist(RxConsumeIndex, NextRx(RxProduceIndex))
           = RxDist(RxConsumeIndex, RxProduceIndex) + 1
      /\ d < NUM_RX_BUF - 1 /\ d \in Nat
      /\ RxDist(eth_rx_read_index, NextRx(RxProduceIndex)) = d + 1
  <2>1. /\ RxDist(RxConsumeIndex, RxProduceIndex) \in 0 .. NUM_RX_BUF - 1
        /\ RxDist(RxConsumeIndex, RxProduceIndex) # NUM_RX_BUF - 1
    BY <1>1, <1>6, RxStep
  <2>2. /\ d = RxDist(RxConsumeIndex, RxProduceIndex)
                 - RxDist(RxConsumeIndex, eth_rx_read_index)
        /\ RxDist(RxConsumeIndex, eth_rx_read_index) \in 0 .. NUM_RX_BUF - 1
        /\ d \in 0 .. NUM_RX_BUF - 1
    BY <1>2, Ready
  <2>3. d < NUM_RX_BUF - 1 /\ RxDist(RxConsumeIndex, RxProduceIndex) < NUM_RX_BUF - 1
    BY <2>1, <2>2, Sizes
  <2>4. QED
    BY <1>6, <2>2, <2>3, RxStep, Sizes
<1>9. /\ handled \in 0 .. CountMod - 1 /\ arrived = After(handled, f + d)
      /\ f \in 0 .. 1 /\ f + d \in 0 .. CountMod - 1
  BY <1>2, <1>8, Order, EthernetAssumption, Sizes DEF One
<1>10. arrived \in 0 .. CountMod - 1 /\ arrived' = After(handled, f + d + 1)
       /\ arrived' \in 0 .. CountMod - 1
  <2>1. arrived \in 0 .. CountMod - 1
    BY <1>9, AfterIs, Sizes
  <2>2. arrived' = After(handled, f + d + 1)
    BY <1>1, <1>9, AfterNext
  <2>3. After(arrived, 1) \in 0 .. CountMod - 1
    BY <2>1, AfterNext, Sizes
  <2>4. QED
    BY <1>1, <2>1, <2>2, <2>3
<1>11. TypeOK'
  <2>1. data' \in [Pool -> Nat \union {None}]
    BY <1>1, <1>2, <1>7, <1>10, Sizes DEF TypeOK
  <2>2. arrived' \in Nat
    BY <1>10, Sizes
  <2>3. QED
    BY <1>1, <1>2, <1>6, <2>1, <2>2 DEF TypeOK, bufVars, txVars, rxVars, callVars
<1>12. RingsInv'
  <2>1. RxDist(RxConsumeIndex, eth_rx_read_index)
          <= RxDist(RxConsumeIndex, NextRx(RxProduceIndex))
    <3>1. RxDist(RxConsumeIndex, eth_rx_read_index) \in 0 .. NUM_RX_BUF - 1
          /\ RxDist(RxConsumeIndex, RxProduceIndex) \in 0 .. NUM_RX_BUF - 1
      BY <1>2, Ready
    <3>2. QED
      BY <1>2, <1>8, <3>1, Sizes DEF RingsInv
  <2>2. QED
    BY <1>1, <1>2, <2>1 DEF RingsInv, txVars, rxVars, callVars
<1>13. OrderInv'
  <2>1. UNCHANGED <<handled, eth_rx_pbufs, eth_rx_read_index, pc, cur>>
    BY <1>1 DEF rxVars
  <2>2. RxDist(eth_rx_read_index', RxProduceIndex') = d + 1
    BY <1>1, <1>8, <2>1
  <2>3. pc = "packet" => data'[cur] = handled
    <3>1. pc = "packet" => cur # b /\ cur \in Pool
      BY <1>2, <1>7, Counts DEF RefInv
    <3>2. QED
      BY <1>1, <1>2, <3>1 DEF OrderInv, TypeOK
  <2>4. ASSUME NEW i \in RxIdx, RxDist(eth_rx_read_index, i) < d + 1
        PROVE  data'[eth_rx_pbufs[i]] = After(handled, f + RxDist(eth_rx_read_index, i))
    <3>1. CASE i = RxProduceIndex
      <4>1. data'[b] = arrived
        BY <1>1, <1>2, <1>7 DEF TypeOK
      <4>2. QED
        BY <1>9, <3>1, <4>1
    <3>2. CASE i # RxProduceIndex
      <4>1. RxDist(eth_rx_read_index, i) < d
        BY <1>6, <1>8, <2>4, <3>2, RxStep, Sizes
      <4>2. i \in Owned /\ eth_rx_pbufs[i] # b /\ eth_rx_pbufs[i] \in Pool
        <5>1. i \in Owned
          BY <1>2, <1>8, <4>1, Ready, Sizes
        <5>2. QED
          BY <1>2, <1>7, <3>2, <5>1 DEF SlotsInv
      <4>3. data'[eth_rx_pbufs[i]] = data[eth_rx_pbufs[i]]
        BY <1>1, <1>2, <4>2 DEF TypeOK
      <4>4. data[eth_rx_pbufs[i]] = After(handled, f + RxDist(eth_rx_read_index, i))
        BY <1>2, <4>1, Order
      <4>5. QED
        BY <4>3, <4>4
    <3>3. QED
      BY <3>1, <3>2
  <2>5. f + (d + 1) = f + d + 1
    BY <1>8, <1>9
  <2> HIDE DEF d, f
  <2>6. arrived' = After(handled, One(pc = "packet") + (d + 1))
    BY <1>10, <2>5 DEF f
  <2>7. /\ handled' \in 0 .. CountMod - 1
        /\ pc' = "packet" => data'[cur'] = handled'
        /\ arrived' = After(handled', One(pc' = "packet")
                              + RxDist(eth_rx_read_index', RxProduceIndex'))
    BY <1>9, <2>1, <2>2, <2>3, <2>6
  <2>8. \A i \in RxIdx :
          RxDist(eth_rx_read_index', i) < RxDist(eth_rx_read_index', RxProduceIndex')
            => data'[eth_rx_pbufs'[i]]
                 = After(handled', One(pc' = "packet") + RxDist(eth_rx_read_index', i))
    BY <2>1, <2>2, <2>4 DEF f
  <2>9. QED
    BY <2>7, <2>8, Order
<1>14. QED
  BY <1>4, <1>5, <1>11, <1>12, <1>13 DEF Inv

LEMMA ReceiveKeeps ==
  ASSUME Inv, Receive
  PROVE  Inv'
<1> DEFINE b == eth_rx_pbufs[eth_rx_read_index]
           d == RxDist(eth_rx_read_index, RxProduceIndex)
<1>1. /\ UNCHANGED <<bufVars, txVars, eth_rx_pbufs, RxConsumeIndex, emacVars, callVars>>
      /\ UNCHANGED <<tcp, handled>>
      /\ pc = "rx" /\ pc' = "packet" /\ RxProduceIndex # eth_rx_read_index
      /\ cur' = b /\ eth_rx_read_index' = NextRx(eth_rx_read_index)
  BY DEF Receive
<1>2. TypeOK /\ RingsInv /\ SlotsInv /\ RefInv /\ OrderInv /\ ChainInv /\ CallInv
      /\ RoomInv
  BY DEF Inv
<1>3. /\ RxConsumeIndex \in RxIdx /\ RxProduceIndex \in RxIdx
      /\ eth_rx_read_index \in RxIdx /\ NextRx(eth_rx_read_index) \in RxIdx
  BY <1>2, RxStep DEF TypeOK
<1>4. /\ d \in 1 .. NUM_RX_BUF - 1
      /\ d = RxDist(RxConsumeIndex, RxProduceIndex)
               - RxDist(RxConsumeIndex, eth_rx_read_index)
      /\ RxDist(RxConsumeIndex, RxProduceIndex) \in 0 .. NUM_RX_BUF - 1
      /\ RxDist(RxConsumeIndex, eth_rx_read_index) \in 0 .. NUM_RX_BUF - 1
      /\ RxDist(eth_rx_read_index, eth_rx_read_index) = 0
  <2>1. d # 0 /\ RxDist(eth_rx_read_index, eth_rx_read_index) = 0
    BY <1>1, <1>3, RxStep
  <2>2. /\ d \in 0 .. NUM_RX_BUF - 1
        /\ d = RxDist(RxConsumeIndex, RxProduceIndex)
                 - RxDist(RxConsumeIndex, eth_rx_read_index)
        /\ RxDist(RxConsumeIndex, RxProduceIndex) \in 0 .. NUM_RX_BUF - 1
        /\ RxDist(RxConsumeIndex, eth_rx_read_index) \in 0 .. NUM_RX_BUF - 1
    BY <1>2, Ready
  <2>3. QED
    BY <2>1, <2>2, Sizes
<1>5. eth_rx_read_index \in Owned /\ b \in Received /\ b \in Pool /\ b \in Bufs
      /\ b \notin tcp
  <2>1. eth_rx_read_index \in Owned
    BY <1>2, <1>3, <1>4, Ready, Sizes
  <2>2. b \in Received /\ b \in Pool
    BY <1>2, <2>1 DEF SlotsInv, Received
  <2>3. QED
    BY <1>2, <2>1, <2>2, Counts, BufSets
<1>6. RxDist(RxConsumeIndex, NextRx(eth_rx_read_index))
        = RxDist(RxConsumeIndex, eth_rx_read_index) + 1
  BY <1>3, <1>4, RxStep, Sizes
<1>7. Owned' = Owned \ {eth_rx_read_index}
  <2>1. Owned = {i \in RxIdx : RxDist(RxConsumeIndex, i)
                                 >= RxDist(RxConsumeIndex, eth_rx_read_index)}
    BY <1>1 DEF Owned
  <2>2. Owned' = {i \in RxIdx : RxDist(RxConsumeIndex, i)
                                 >= RxDist(RxConsumeIndex, eth_rx_read_index) + 1}
    BY <1>1, <1>6 DEF Owned
  <2>3. \A i \in RxIdx :
          /\ RxDist(RxConsumeIndex, i) \in 0 .. NUM_RX_BUF - 1
          /\ RxDist(RxConsumeIndex, i) = RxDist(RxConsumeIndex, eth_rx_read_index)
               => i = eth_rx_read_index
    <3> TAKE i \in RxIdx
    <3>1. RxConsumeIndex \in RxIdx /\ eth_rx_read_index \in RxIdx
      BY <1>3
    <3>2. QED
      BY <3>1, RxStep
  <2>4. QED
    BY <1>4, <2>1, <2>2, <2>3, Sizes
<1>8. Received' = Received \ {b}
  <2>1. \A i, j \in Owned : eth_rx_pbufs[i] = eth_rx_pbufs[j] => i = j
    BY <1>2 DEF SlotsInv
  <2>2. QED
    BY <1>1, <1>5, <1>7, <2>1 DEF Received
<1>9. /\ Held' = Held /\ Queued' = Queued /\ TcpBufs' = TcpBufs
      /\ OthersQueued' = OthersQueued /\ Writing' = {} /\ Writing = {}
  <2>1. Held' = Held
    BY <1>1 DEF Held, txVars
  <2>2. TcpBufs' = TcpBufs
    BY <1>1, Sets DEF bufVars
  <2>3. QED
    BY <1>1, <2>1, <2>2 DEF Queued, OthersQueued, Writing, txVars
<1>10. /\ \A x \in Bufs : x \in Caller' <=> x \in Caller \/ x = b
       /\ b \notin Caller /\ cur = None /\ head = None /\ head' = None
  <2>1. cur = None /\ head = None /\ head' = None
    BY <1>1, <1>2 DEF RefInv, CallInv, callVars
  <2>2. QED
    BY <1>1, <1>5, <2>1, BufSets DEF Caller
<1>11. CallInv'
  BY <1>1, <1>2 DEF CallInv, callVars
<1>12. ChainInv' /\ RoomInv'
  BY <1>1, <1>2, <1>9 DEF ChainInv, RoomInv, bufVars
<1>13. SlotsInv'
  BY <1>1, <1>2, <1>7, <1>9 DEF SlotsInv, txVars
<1>14. RefInv'
  <2>1. ref' = ref /\ ref[b] = 1
    BY <1>1, <1>2, <1>5 DEF RefInv, bufVars
  <2>2. ASSUME NEW x \in Bufs
        PROVE  ref'[x] = One(x \in Queued') + One(x \in Received')
                 + One(x \in Writing') + One(x \in Caller') + One(x \in TcpBufs')
    <3>1. ref[x] = One(x \in Queued) + One(x \in Received)
             + One(x \in Writing) + One(x \in Caller) + One(x \in TcpBufs)
      BY <1>2 DEF RefInv
    <3>2. CASE x = b
      BY <1>5, <1>8, <1>9, <1>10, <2>1, <3>1, <3>2 DEF One
    <3>3. CASE x # b
      BY <1>8, <1>9, <1>10, <2>1, <3>1, <3>3 DEF One
    <3>4. QED
      BY <3>2, <3>3
  <2>3. \A x \in Received' : ref'[x] = 1
    BY <1>2, <1>8, <2>1 DEF RefInv
  <2>4. cur' \in Pool /\ ref'[cur'] = 1
    BY <1>1, <1>5, <2>1
  <2>5. QED
    BY <1>1, <2>2, <2>3, <2>4 DEF RefInv
<1>15. TypeOK'
  BY <1>1, <1>2, <1>3, <1>5 DEF TypeOK, bufVars, txVars, emacVars, callVars
<1>16. RingsInv'
  BY <1>1, <1>2, <1>4, <1>6, Sizes DEF RingsInv, txVars, emacVars
<1>17. OrderInv'
  <2>1. UNCHANGED <<handled, eth_rx_pbufs, RxProduceIndex, data, arrived>>
    BY <1>1 DEF emacVars
  <2>2. /\ handled \in 0 .. CountMod - 1 /\ arrived = After(handled, 0 + d)
        /\ data[b] = After(handled, 0 + 0)
    <3>1. One(pc = "packet") = 0
      BY <1>1 DEF One
    <3>2. 0 < d
      BY <1>4
    <3>3. QED
      BY <1>2, <1>3, <1>4, <3>1, <3>2, Order
  <2>3. After(handled, 0) = handled /\ One(pc' = "packet") = 1
    BY <1>1, <2>2, AfterNext, Sizes DEF One
  <2>4. RxDist(eth_rx_read_index', RxProduceIndex') = d - 1
    BY <1>1, <1>3, <2>1, RxStep
  <2>5. ASSUME NEW i \in RxIdx, RxDist(NextRx(eth_rx_read_index), i) < d - 1
        PROVE  data[eth_rx_pbufs[i]]
                 = After(handled, 1 + RxDist(NextRx(eth_rx_read_index), i))
    <3>1. i # eth_rx_read_index
      BY <1>3, <1>4, <2>5, RxStep, Sizes
    <3>2. RxDist(NextRx(eth_rx_read_index), i) = RxDist(eth_rx_read_index, i) - 1
          /\ RxDist(eth_rx_read_index, i) \in 0 .. NUM_RX_BUF - 1
      BY <1>3, <3>1, RxStep
    <3>3. RxDist(eth_rx_read_index, i) < d
      BY <1>4, <2>5, <3>2, Sizes
    <3>4. data[eth_rx_pbufs[i]]
            = After(handled, One(pc = "packet") + RxDist(eth_rx_read_index, i))
      BY <1>2, <3>3, Order
    <3>5. One(pc = "packet") + RxDist(eth_rx_read_index, i)
            = 1 + RxDist(NextRx(eth_rx_read_index), i)
      BY <1>1, <3>2, Sizes DEF One
    <3>6. QED
      BY <3>4, <3>5
  <2>6. 0 + d = 1 + (d - 1)
    BY <1>4
  <2> HIDE DEF d
  <2>7. /\ handled' \in 0 .. CountMod - 1
        /\ pc' = "packet" => data'[cur'] = handled'
        /\ arrived' = After(handled', One(pc' = "packet")
                              + RxDist(eth_rx_read_index', RxProduceIndex'))
    BY <1>1, <2>1, <2>2, <2>3, <2>4, <2>6
  <2>8. \A i \in RxIdx :
          RxDist(eth_rx_read_index', i) < RxDist(eth_rx_read_index', RxProduceIndex')
            => data'[eth_rx_pbufs'[i]]
                 = After(handled', One(pc' = "packet") + RxDist(eth_rx_read_index', i))
    BY <1>1, <2>1, <2>3, <2>4, <2>5
  <2>9. QED
    BY <2>7, <2>8, Order
<1>18. QED
  BY <1>11, <1>12, <1>13, <1>14, <1>15, <1>16, <1>17 DEF Inv

LEMMA RefillKeeps ==
  ASSUME Inv, Refill
  PROVE  Inv'
<1> DEFINE b == skub_alloc(Pool, ref)
<1>1. /\ UNCHANGED <<txVars, RxConsumeIndex, eth_rx_read_index, emacVars, head, frag>>
      /\ UNCHANGED <<pc, cur, tcp, handled>>
      /\ pc = "poll_2" /\ produce # eth_rx_read_index /\ FreeBufs(Pool, ref) # {}
      /\ ref' = [ref EXCEPT ![b] = 1] /\ next' = [next EXCEPT ![b] = None]
      /\ eth_rx_pbufs' = [eth_rx_pbufs EXCEPT ![produce] = b]
      /\ produce' = NextRx(produce)
  BY DEF Refill
<1>2. TypeOK /\ RingsInv /\ SlotsInv /\ RefInv /\ OrderInv /\ ChainInv /\ CallInv
      /\ RoomInv
  BY DEF Inv
<1>3. b \in Pool /\ ref[b] = 0 /\ b \in Bufs /\ b \notin Ram
  BY <1>1, BufSets, Lowest
<1>4. next' = next
  <2>1. next[b] = None /\ next \in [Bufs -> Bufs \union {None}]
    BY <1>2, <1>3 DEF ChainInv, TypeOK
  <2> HIDE DEF b
  <2>2. QED
    BY <1>1, <2>1
<1>5. /\ RxConsumeIndex \in RxIdx /\ produce \in RxIdx /\ RxProduceIndex \in RxIdx
      /\ eth_rx_read_index \in RxIdx /\ NextRx(produce) \in RxIdx
  BY <1>1, <1>2, RxStep DEF TypeOK
<1>6. /\ RxDist(RxConsumeIndex, produce) \in 0 .. NUM_RX_BUF - 1
      /\ RxDist(RxConsumeIndex, eth_rx_read_index) \in 0 .. NUM_RX_BUF - 1
      /\ RxDist(RxConsumeIndex, produce) < RxDist(RxConsumeIndex, eth_rx_read_index)
      /\ RxDist(RxConsumeIndex, NextRx(produce)) = RxDist(RxConsumeIndex, produce) + 1
  <2>1. /\ RxDist(RxConsumeIndex, produce) \in 0 .. NUM_RX_BUF - 1
        /\ RxDist(RxConsumeIndex, eth_rx_read_index) \in 0 .. NUM_RX_BUF - 1
        /\ RxDist(RxConsumeIndex, produce) # RxDist(RxConsumeIndex, eth_rx_read_index)
    BY <1>1, <1>5, RxStep
  <2>2. RxDist(RxConsumeIndex, produce) < RxDist(RxConsumeIndex, eth_rx_read_index)
    BY <1>1, <1>2, <2>1, Sizes DEF RingsInv
  <2>3. QED
    BY <1>5, <2>1, <2>2, RxStep, Sizes
<1>7. produce \notin Owned /\ Owned' = Owned \union {produce}
  <2>1. \A i \in RxIdx :
          /\ RxDist(RxConsumeIndex, i) \in 0 .. NUM_RX_BUF - 1
          /\ RxDist(RxConsumeIndex, i) = RxDist(RxConsumeIndex, produce) => i = produce
    BY <1>5, RxStep
  <2>2. Owned = {i \in RxIdx :
                   \/ RxDist(RxConsumeIndex, i) >= RxDist(RxConsumeIndex, eth_rx_read_index)
                   \/ RxDist(RxConsumeIndex, i) < RxDist(RxConsumeIndex, produce)}
    BY <1>1 DEF Owned
  <2>3. Owned' = {i \in RxIdx :
                   \/ RxDist(RxConsumeIndex, i) >= RxDist(RxConsumeIndex, eth_rx_read_index)
                   \/ RxDist(RxConsumeIndex, i) < RxDist(RxConsumeIndex, produce) + 1}
    BY <1>1, <1>6 DEF Owned
  <2>4. QED
    BY <1>5, <1>6, <2>1, <2>2, <2>3, Sizes
<1>8. /\ eth_rx_pbufs'[produce] = b
      /\ \A i \in Owned : i # produce /\ eth_rx_pbufs'[i] = eth_rx_pbufs[i]
                          /\ eth_rx_pbufs[i] # b
  <2>1. \A i \in Owned : eth_rx_pbufs[i] \in Received /\ i \in RxIdx
    BY DEF Received, Owned
  <2>2. b \notin Received
    BY <1>2, <1>3 DEF RefInv
  <2> HIDE DEF b
  <2>3. QED
    BY <1>1, <1>2, <1>5, <1>7, <2>1, <2>2 DEF TypeOK
<1>9. Received' = Received \union {b}
  <2> HIDE DEF b
  <2>1. QED
    BY <1>7, <1>8 DEF Received
<1>10. /\ Held' = Held /\ Queued' = Queued /\ TcpBufs' = TcpBufs
       /\ OthersQueued' = OthersQueued /\ Writing' = {} /\ Writing = {}
       /\ Caller' = Caller
  <2>1. Held' = Held
    BY <1>1 DEF Held, txVars
  <2>2. TcpBufs' = TcpBufs
    BY <1>1, <1>4, Sets
  <2>3. QED
    BY <1>1, <2>1, <2>2 DEF Queued, OthersQueued, Writing, txVars, Caller
<1>11. CallInv'
  BY <1>1, <1>2 DEF CallInv
<1> HIDE DEF b
<1>12. /\ ref'[b] = 1 /\ \A x \in Bufs : x # b => ref'[x] = ref[x]
       /\ ref' \in [Bufs -> Nat]
  BY <1>1, <1>2, <1>3 DEF TypeOK
<1>13. ChainInv' /\ RoomInv'
  <2>1. \A x \in Bufs : ref'[x] > 0 /\ next[x] # None => x \in tcp
    BY <1>2, <1>3, <1>12 DEF ChainInv
  <2>2. QED
    BY <1>1, <1>2, <1>4, <1>10, <2>1 DEF ChainInv, RoomInv
<1>14. SlotsInv'
  <2>1. \A i \in Owned' : eth_rx_pbufs'[i] \in Pool
    BY <1>2, <1>3, <1>7, <1>8 DEF SlotsInv
  <2>2. \A i, j \in Owned' : eth_rx_pbufs'[i] = eth_rx_pbufs'[j] => i = j
    BY <1>2, <1>7, <1>8 DEF SlotsInv
  <2>3. QED
    BY <1>1, <1>2, <1>10, <2>1, <2>2 DEF SlotsInv, txVars
<1>15. RefInv'
  <2>2. ASSUME NEW x \in Bufs
        PROVE  ref'[x] = One(x \in Queued') + One(x \in Received')
                 + One(x \in Writing') + One(x \in Caller') + One(x \in TcpBufs')
    <3>1. ref[x] = One(x \in Queued) + One(x \in Received)
             + One(x \in Writing) + One(x \in Caller) + One(x \in TcpBufs)
      BY <1>2 DEF RefInv
    <3>2. CASE x = b
      BY <1>3, <1>9, <1>10, <1>12, <3>1, <3>2 DEF One
    <3>3. CASE x # b
      BY <1>9, <1>10, <1>12, <3>1, <3>3 DEF One
    <3>4. QED
      BY <3>2, <3>3
  <2>3. \A x \in Received' : ref'[x] = 1
    <3>1. \A x \in Received : x \in Bufs /\ ref[x] = 1
      BY <1>2, Counts DEF RefInv
    <3>2. QED
      BY <1>9, <1>12, <3>1
  <2>4. cur' = None /\ pc' # "packet"
    BY <1>1, <1>2 DEF RefInv
  <2>5. QED
    BY <2>2, <2>3, <2>4 DEF RefInv
<1>16. TypeOK'
  <2>1. eth_rx_pbufs' \in [RxIdx -> Bufs]
    BY <1>1, <1>2, <1>3 DEF TypeOK
  <2>2. QED
    BY <1>1, <1>2, <1>4, <1>5, <1>12, <2>1 DEF TypeOK, txVars, emacVars
<1>17. RingsInv'
  BY <1>1, <1>2, <1>6, Sizes DEF RingsInv, txVars, emacVars
<1>18. OrderInv'
  <2>1. UNCHANGED <<handled, RxProduceIndex, data, arrived, eth_rx_read_index, pc, cur>>
    BY <1>1 DEF emacVars
  <2>2. ASSUME NEW i \in RxIdx, RxDist(eth_rx_read_index, i)
                                  < RxDist(eth_rx_read_index, RxProduceIndex)
        PROVE  eth_rx_pbufs'[i] = eth_rx_pbufs[i]
    <3>1. i \in Owned
      BY <1>2, <2>2, Ready, Sizes
    <3>2. QED
      BY <1>8, <3>1
  <2>3. QED
    BY <1>2, <2>1, <2>2, Order
<1>19. QED
  BY <1>11, <1>13, <1>14, <1>15, <1>16, <1>17, <1>18 DEF Inv

-----------------------------------------------------------------------------
(* Buffers come back from the transmit ring.                               *)
LEMMA ReclaimKeeps ==
  ASSUME Inv, Reclaim
  PROVE  Inv'
<1> DEFINE c == eth_tx_free_consume
           b == eth_tx_pbufs[c]
<1>1. /\ UNCHANGED <<next, TxProduceIndex, rxVars, emacVars, callVars, pc, cur, tcp,
                     handled>>
      /\ pc = "cleanup" /\ c # produce
      /\ ref' = pbuf_free(ref, b)
      /\ eth_tx_pbufs' = [eth_tx_pbufs EXCEPT ![c] = None]
      /\ eth_tx_free_consume' = NextTx(c)
  BY DEF Reclaim
<1>2. TypeOK /\ RingsInv /\ SlotsInv /\ RefInv /\ OrderInv /\ ChainInv /\ CallInv
      /\ RoomInv
  BY DEF Inv
<1>3. /\ c \in TxIdx /\ produce \in TxIdx /\ TxConsumeIndex \in TxIdx
      /\ TxProduceIndex \in TxIdx /\ NextTx(c) \in TxIdx
  BY <1>1, <1>2, TxStep DEF TypeOK
<1>4. /\ TxDist(c, produce) \in 1 .. NUM_TX_DESC - 1
      /\ TxDist(c, produce) <= TxDist(c, TxConsumeIndex)
      /\ TxDist(c, TxConsumeIndex) <= TxDist(c, TxProduceIndex)
      /\ TxDist(c, TxConsumeIndex) \in 1 .. NUM_TX_DESC - 1
      /\ TxDist(c, TxProduceIndex) \in 1 .. NUM_TX_DESC - 1
      /\ c # TxProduceIndex /\ c # TxConsumeIndex
  <2>1. /\ TxDist(c, produce) \in 0 .. NUM_TX_DESC - 1 /\ TxDist(c, produce) # 0
        /\ TxDist(c, TxConsumeIndex) \in 0 .. NUM_TX_DESC - 1
        /\ TxDist(c, TxProduceIndex) \in 0 .. NUM_TX_DESC - 1
        /\ TxDist(c, TxConsumeIndex) = 0 <=> c = TxConsumeIndex
        /\ TxDist(c, TxProduceIndex) = 0 <=> c = TxProduceIndex
    BY <1>1, <1>3, TxStep
  <2>2. QED
    BY <1>1, <1>2, <2>1, Sizes DEF RingsInv
<1>5. c \in Held /\ Held' = Held \ {c}
  <2>1. /\ c \in Between(c, TxProduceIndex)
        /\ Between(NextTx(c), TxProduceIndex) = Between(c, TxProduceIndex) \ {c}
    BY <1>3, <1>4, BetweenIs
  <2>2. QED
    BY <1>1, <2>1, Sets
<1>6. b \in Bufs /\ b \in Queued
  BY <1>2, <1>5 DEF SlotsInv, Queued
<1>7. ref[b] > 0 /\ (ref[b] = 1 => next[b] = None)
  <2>1. ref[b] = One(b \in Queued) + One(b \in Received)
             + One(b \in Writing) + One(b \in Caller) + One(b \in TcpBufs)
    BY <1>2, <1>6 DEF RefInv
  <2>2. ref[b] > 0
    BY <1>6, <2>1 DEF One
  <2>3. ref[b] = 1 => b \notin TcpBufs
    BY <1>6, <2>1 DEF One
  <2>4. ref[b] = 1 => b \notin tcp
    BY <1>2, <2>3, Counts
  <2>5. QED
    BY <1>2, <1>6, <2>2, <2>4 DEF ChainInv
<1>8. ref' = [ref EXCEPT ![b] = @ - 1]
  <2>1. ref \in [Bufs -> Nat] /\ Flat(next)
    BY <1>2, Links DEF TypeOK
  <2>2. QED
    BY <1>1, <1>6, <1>7, <2>1, FreeOne
<1>9. b \notin Received
  BY <1>2, <1>6, Counts
<1>10. /\ ref'[b] = ref[b] - 1 /\ \A x \in Bufs : x # b => ref'[x] = ref[x]
       /\ ref' \in [Bufs -> Nat]
  BY <1>2, <1>6, <1>7, <1>8 DEF TypeOK
<1>11. /\ \A i \in Held' : i # c /\ i \in Held /\ eth_tx_pbufs'[i] = eth_tx_pbufs[i]
       /\ eth_tx_pbufs' \in [TxIdx -> Bufs \union {None}]
  <2>1. Held \subseteq TxIdx
    BY DEF Held
  <2>2. QED
    BY <1>1, <1>2, <1>3, <1>5, <2>1 DEF TypeOK
<1>12. Queued' = Queued \ {b}
  BY <1>2, <1>5, <1>11 DEF SlotsInv, Queued
<1>13. /\ Received' = Received /\ Owned' = Owned /\ TcpBufs' = TcpBufs
       /\ Caller' = Caller /\ Writing' = {} /\ Writing = {}
  <2>1. TcpBufs' = TcpBufs
    BY <1>1, Sets
  <2>2. Owned' = Owned
    BY <1>1 DEF Owned, rxVars, callVars
  <2>3. QED
    BY <1>1, <2>1, <2>2 DEF Received, Caller, Writing, rxVars, callVars
<1> HIDE DEF b
<1>14. RoomInv'
  <2>1. OthersQueued' \subseteq OthersQueued
    BY <1>11, <1>13 DEF OthersQueued
  <2>2. IsFiniteSet(OthersQueued)
    <3>1. IsFiniteSet(Held)
      BY <1>3, BetweenSize, Sets
    <3>2. OthersQueued \subseteq Held
      BY DEF OthersQueued
    <3>3. QED
      BY <3>1, <3>2, FS_Subset
  <2>3. Cardinality(OthersQueued') <= Cardinality(OthersQueued)
        /\ Cardinality(OthersQueued') \in Nat /\ Cardinality(OthersQueued) \in Nat
    BY <2>1, <2>2, FS_Subset, FS_CardinalityType
  <2>4. QED
    BY <1>2, <1>13, <2>3, Sizes DEF RoomInv
<1>15. ChainInv'
  <2>1. \A x \in Bufs : ref'[x] > 0 /\ next[x] # None => x \in tcp
    <3> TAKE x \in Bufs
    <3>1. ref[x] \in Nat
      BY <1>2 DEF TypeOK
    <3>2. ref'[x] > 0 => ref[x] > 0
      BY <1>7, <1>10, <3>1
    <3>3. QED
      BY <1>2, <3>2 DEF ChainInv
  <2>2. QED
    BY <1>1, <1>2, <2>1 DEF ChainInv
<1>16. SlotsInv'
  BY <1>1, <1>2, <1>11, <1>13 DEF SlotsInv, rxVars
<1>17. CallInv'
  BY <1>1, <1>2 DEF CallInv, callVars
<1>18. RefInv'
  <2>1. ASSUME NEW x \in Bufs
        PROVE  ref'[x] = One(x \in Queued') + One(x \in Received')
                 + One(x \in Writing') + One(x \in Caller') + One(x \in TcpBufs')
    <3>1. ref[x] = One(x \in Queued) + One(x \in Received)
             + One(x \in Writing) + One(x \in Caller) + One(x \in TcpBufs)
      BY <1>2 DEF RefInv
    <3>2. CASE x = b
      BY <1>6, <1>10, <1>12, <1>13, <3>1, <3>2 DEF One
    <3>3. CASE x # b
      BY <1>10, <1>12, <1>13, <3>1, <3>3 DEF One
    <3>4. QED
      BY <3>2, <3>3
  <2>2. \A x \in Received' : ref'[x] = 1
    <3>1. \A x \in Received : x \in Bufs /\ ref[x] = 1 /\ x # b
      BY <1>2, <1>9, Counts DEF RefInv
    <3>2. QED
      BY <1>10, <1>13, <3>1
  <2>3. cur' = None /\ pc' # "packet"
    BY <1>1, <1>2 DEF RefInv
  <2>4. QED
    BY <2>1, <2>2, <2>3 DEF RefInv
<1>19. TypeOK'
  BY <1>1, <1>2, <1>3, <1>10, <1>11 DEF TypeOK, rxVars, emacVars, callVars
<1>20. RingsInv'
  <2>1. /\ TxDist(NextTx(c), produce) = TxDist(c, produce) - 1
        /\ TxDist(NextTx(c), TxConsumeIndex) = TxDist(c, TxConsumeIndex) - 1
        /\ TxDist(NextTx(c), TxProduceIndex) = TxDist(c, TxProduceIndex) - 1
    BY <1>1, <1>3, <1>4, TxStep
  <2>2. /\ TxDist(NextTx(c), TxConsumeIndex) <= TxDist(NextTx(c), TxProduceIndex)
        /\ TxDist(NextTx(c), produce) <= TxDist(NextTx(c), TxConsumeIndex)
    BY <1>4, <2>1, Sizes
  <2> HIDE DEF c
  <2>3. QED
    BY <1>1, <1>2, <2>2 DEF RingsInv, rxVars, emacVars, callVars
<1>21. OrderInv'
  BY <1>1, <1>2, OrderKept DEF rxVars, emacVars
<1>22. QED
  BY <1>14, <1>15, <1>16, <1>17, <1>18, <1>19, <1>20, <1>21 DEF Inv

-----------------------------------------------------------------------------
(* The stack is done with a packet, or sends it back.                      *)

(* What every way to handle it has in common.                              *)
Handles ==
  /\ pc = "packet" /\ cur' = None /\ pc' \in {"polls", "wait"}
  /\ handled' = After(handled, 1) /\ data' = [data EXCEPT ![cur] = None]
  /\ UNCHANGED <<next, txVars, rxVars, TxConsumeIndex, RxProduceIndex, arrived,
                 produce>>

LEMMA HandlesKeeps ==
  ASSUME Inv, Handles
  PROVE  /\ RingsInv' /\ SlotsInv' /\ OrderInv'
         /\ Received' = Received /\ Held' = Held /\ Queued' = Queued
         /\ Writing' = {} /\ Writing = {} /\ head = None
         /\ data' \in [Pool -> Nat \union {None}] /\ handled' \in Nat
<1>1. TypeOK /\ RingsInv /\ SlotsInv /\ RefInv /\ OrderInv /\ ChainInv /\ CallInv
      /\ RoomInv
  BY DEF Inv
<1>2. /\ UNCHANGED <<eth_rx_pbufs, eth_rx_read_index, RxProduceIndex, arrived>>
      /\ UNCHANGED <<RxConsumeIndex, eth_tx_pbufs, TxProduceIndex, eth_tx_free_consume>>
      /\ UNCHANGED <<TxConsumeIndex, produce, next>>
      /\ pc = "packet" /\ pc' # "packet" /\ pc' # "poll_2" /\ pc' # "fragment"
      /\ pc' # "cleanup"
      /\ handled' = After(handled, 1) /\ data' = [data EXCEPT ![cur] = None]
  BY DEF Handles, txVars, rxVars
<1>3. Owned' = Owned /\ Held' = Held
  BY <1>2 DEF Owned, Held
<1>4. Received' = Received /\ Queued' = Queued /\ Writing' = {} /\ Writing = {}
  BY <1>2, <1>3 DEF Received, Queued, Writing
<1>5. SlotsInv'
  BY <1>1, <1>2, <1>3 DEF SlotsInv
<1>6. RingsInv'
  BY <1>1, <1>2 DEF RingsInv
<1>7. head = None
  BY <1>1, <1>2 DEF CallInv
<1>8. cur \in Pool /\ cur \notin Received
  BY <1>1, <1>2, Counts DEF RefInv
<1> DEFINE d == RxDist(eth_rx_read_index, RxProduceIndex)
<1>9. /\ d \in 0 .. CountMod - 1 /\ NUM_RX_BUF <= CountMod /\ CountMod \in Nat
      /\ handled \in 0 .. CountMod - 1
  <2>1. d \in 0 .. NUM_RX_BUF - 1
    BY <1>1, Ready
  <2>2. NUM_RX_BUF <= CountMod /\ CountMod \in Nat
    BY EthernetAssumption
  <2>3. QED
    BY <1>1, <2>1, <2>2, Sizes, Order
<1>10. handled' \in 0 .. CountMod - 1
       /\ \A k \in 0 .. CountMod - 1 : After(handled', k) = After(handled, k + 1)
  BY <1>2, <1>9, AfterNext
<1>11. /\ One(pc = "packet") = 1 /\ One(pc' = "packet") = 0
  BY <1>2 DEF One
<1>12. arrived' = After(handled', 0 + d)
  <2>1. arrived = After(handled, 1 + d)
    BY <1>1, <1>11, Order
  <2>2. 1 + d = d + 1 /\ 0 + d = d
    BY <1>9
  <2> HIDE DEF d
  <2>3. QED
    BY <1>2, <1>9, <1>10, <2>1, <2>2
<1>13. ASSUME NEW i \in RxIdx, RxDist(eth_rx_read_index, i) < d
       PROVE  data'[eth_rx_pbufs[i]] = After(handled', 0 + RxDist(eth_rx_read_index, i))
  <2>1. /\ RxDist(eth_rx_read_index, i) \in 0 .. NUM_RX_BUF - 1 /\ i \in Owned
    BY <1>1, <1>9, <1>13, Ready, Sizes
  <2>2. eth_rx_pbufs[i] # cur /\ eth_rx_pbufs[i] \in Pool
    BY <1>1, <1>8, <2>1 DEF Received, SlotsInv
  <2>3. data'[eth_rx_pbufs[i]] = data[eth_rx_pbufs[i]]
    BY <1>1, <1>2, <2>2 DEF TypeOK
  <2>4. data[eth_rx_pbufs[i]] = After(handled, 1 + RxDist(eth_rx_read_index, i))
    BY <1>1, <1>11, <1>13, Order
  <2>5. PICK k \in 0 .. CountMod - 1 : k = RxDist(eth_rx_read_index, i)
    BY <1>9, <2>1, Sizes
  <2>6. 1 + k = k + 1 /\ 0 + k = k
    OBVIOUS
  <2>7. QED
    BY <1>10, <2>3, <2>4, <2>5, <2>6
<1>14. OrderInv'
  BY <1>2, <1>10, <1>11, <1>12, <1>13, Order
<1>15. data' \in [Pool -> Nat \union {None}] /\ handled' \in Nat
  <2>1. data \in [Pool -> Nat \union {None}] /\ cur \in Pool
    BY <1>1, <1>8 DEF TypeOK
  <2>2. data' \in [Pool -> Nat \union {None}]
    BY <1>2, <2>1
  <2>3. handled' \in Nat
    BY <1>9, <1>10
  <2>4. QED
    BY <2>2, <2>3
<1>16. QED
  BY <1>3, <1>4, <1>5, <1>6, <1>7, <1>14, <1>15

LEMMA DropKeeps ==
  ASSUME Inv, Handles, Done(pbuf_free(ref, cur)), UNCHANGED tcp
  PROVE  Inv'
<1>1. TypeOK /\ RingsInv /\ SlotsInv /\ RefInv /\ OrderInv /\ ChainInv /\ CallInv
      /\ RoomInv
  BY DEF Inv
<1>2. /\ ref' = pbuf_free(ref, cur) /\ pc' = "polls" /\ UNCHANGED <<head, frag>>
      /\ tcp' = tcp /\ next' = next /\ cur' = None /\ pc = "packet"
      /\ UNCHANGED <<txVars, rxVars, TxConsumeIndex, RxProduceIndex, arrived, produce>>
  BY DEF Done, Handles
<1>3. /\ RingsInv' /\ SlotsInv' /\ OrderInv'
      /\ Received' = Received /\ Held' = Held /\ Queued' = Queued
      /\ Writing' = {} /\ Writing = {} /\ head = None
      /\ data' \in [Pool -> Nat \union {None}] /\ handled' \in Nat
  BY HandlesKeeps
<1>4. /\ cur \in Bufs /\ cur \in Caller /\ cur \notin Queued /\ cur \notin Received
      /\ cur \notin TcpBufs /\ next[cur] = None /\ cur \notin tcp /\ ref[cur] = 1
  BY <1>1, <1>2, Counts
<1>5. ref' = [ref EXCEPT ![cur] = @ - 1]
  <2>1. ref \in [Bufs -> Nat] /\ Flat(next)
    BY <1>1, Links DEF TypeOK
  <2>2. QED
    BY <1>2, <1>4, <2>1, FreeOne
<1>6. /\ ref'[cur] = 0 /\ \A x \in Bufs : x # cur => ref'[x] = ref[x]
      /\ ref' \in [Bufs -> Nat]
  BY <1>1, <1>4, <1>5 DEF TypeOK
<1>7. TcpBufs' = TcpBufs
  BY <1>2, Sets
<1>8. OthersQueued' = OthersQueued
  BY <1>2, <1>3, <1>7 DEF OthersQueued, txVars
<1>9. \A x \in Bufs : x \in Caller' <=> x \in Caller /\ x # cur
  BY <1>2, <1>3, BufSets DEF Caller
<1>10. CallInv'
  BY <1>1, <1>2 DEF CallInv
<1>11. ChainInv'
  <2>1. \A x \in Bufs : ref'[x] > 0 /\ next[x] # None => x \in tcp
    BY <1>1, <1>4, <1>6 DEF ChainInv
  <2>2. QED
    BY <1>1, <1>2, <2>1 DEF ChainInv
<1>12. RoomInv'
  BY <1>1, <1>7, <1>8 DEF RoomInv
<1>13. RefInv'
  <2>1. ASSUME NEW x \in Bufs
        PROVE  ref'[x] = One(x \in Queued') + One(x \in Received')
                 + One(x \in Writing') + One(x \in Caller') + One(x \in TcpBufs')
    <3>1. ref[x] = One(x \in Queued) + One(x \in Received)
             + One(x \in Writing) + One(x \in Caller) + One(x \in TcpBufs)
      BY <1>1 DEF RefInv
    <3>2. CASE x = cur
      BY <1>3, <1>4, <1>6, <1>7, <1>9, <3>1, <3>2 DEF One
    <3>3. CASE x # cur
      BY <1>3, <1>6, <1>7, <1>9, <3>1, <3>3 DEF One
    <3>4. QED
      BY <3>2, <3>3
  <2>2. \A x \in Received' : ref'[x] = 1
    <3>1. \A x \in Received : x \in Bufs /\ ref[x] = 1 /\ x # cur
      BY <1>1, <1>4, Counts DEF RefInv
    <3>2. QED
      BY <1>3, <1>6, <3>1
  <2>3. cur' = None /\ pc' # "packet"
    BY <1>2
  <2>4. QED
    BY <2>1, <2>2, <2>3 DEF RefInv
<1>14. TypeOK'
  BY <1>1, <1>2, <1>3, <1>6 DEF TypeOK, txVars, rxVars
<1>15. QED
  BY <1>3, <1>10, <1>11, <1>12, <1>13, <1>14 DEF Inv

LEMMA SendBackKeeps ==
  ASSUME Inv, Handles, NotTcp(1), Call(cur, ref), UNCHANGED tcp
  PROVE  Inv'
<1>1. TypeOK /\ RingsInv /\ SlotsInv /\ RefInv /\ OrderInv /\ ChainInv /\ CallInv
      /\ RoomInv
  BY DEF Inv
<1>2. /\ ref' = ref /\ pc' = "wait" /\ head' = cur /\ frag' = cur
      /\ tcp' = tcp /\ next' = next /\ cur' = None /\ pc = "packet"
      /\ UNCHANGED <<txVars, rxVars, TxConsumeIndex, RxProduceIndex, arrived, produce>>
  BY DEF Call, Handles
<1>3. /\ RingsInv' /\ SlotsInv' /\ OrderInv'
      /\ Received' = Received /\ Held' = Held /\ Queued' = Queued
      /\ Writing' = {} /\ Writing = {} /\ head = None
      /\ data' \in [Pool -> Nat \union {None}] /\ handled' \in Nat
  BY HandlesKeeps
<1>4. /\ cur \in Bufs /\ cur \in Caller /\ cur \notin Queued /\ cur \notin Received
      /\ cur \notin TcpBufs /\ next[cur] = None /\ cur \notin tcp /\ ref[cur] = 1
      /\ None \notin Queued
  BY <1>1, <1>2, Counts
<1>5. TcpBufs' = TcpBufs
  BY <1>2, Sets
<1>6. OthersQueued' = OthersQueued
  BY <1>2, <1>3, <1>5 DEF OthersQueued, txVars
<1>7. \A x \in Bufs : x \in Caller' <=> x \in Caller
  BY <1>2, <1>3, <1>4, BufSets DEF Caller
<1>8. CallInv'
  <2>1. Cardinality(OthersQueued) < Others
    <3>1. Cardinality(OthersQueued) + 1 <= Others
      BY DEF NotTcp
    <3>2. IsFiniteSet(OthersQueued)
      <4>1. IsFiniteSet(Held)
        BY <1>1, BetweenSize, Sets DEF TypeOK
      <4>2. QED
        BY <4>1, FS_Subset DEF OthersQueued
    <3>3. Cardinality(OthersQueued) \in Nat
      BY <3>2, FS_CardinalityType
    <3>4. QED
      BY <3>1, <3>3, Sizes
  <2>2. QED
    BY <1>2, <1>3, <1>4, <1>6, <2>1 DEF CallInv
<1>9. ChainInv'
  BY <1>1, <1>2 DEF ChainInv
<1>10. RoomInv'
  BY <1>1, <1>5, <1>6 DEF RoomInv
<1>11. RefInv'
  BY <1>1, <1>2, <1>3, <1>5, <1>7 DEF RefInv
<1>12. TypeOK'
  BY <1>1, <1>2, <1>3, <1>4 DEF TypeOK, txVars, rxVars
<1>13. QED
  BY <1>3, <1>8, <1>9, <1>10, <1>11, <1>12 DEF Inv

(* An acknowledgement frees a chain of TCP together with the packet.       *)
LEMMA AckKeeps ==
  ASSUME Inv, Handles, NEW p \in tcp, Chain(p) \cap Queued = {},
         Done(pbuf_free(pbuf_free(ref, p), cur)), tcp' = tcp \ {p}
  PROVE  Inv'
<1> DEFINE q == next[p]
           r == pbuf_free(ref, p)
<1>1. TypeOK /\ RingsInv /\ SlotsInv /\ RefInv /\ OrderInv /\ ChainInv /\ CallInv
      /\ RoomInv
  BY DEF Inv
<1>2. /\ ref' = pbuf_free(r, cur) /\ pc' = "polls" /\ UNCHANGED <<head, frag>>
      /\ next' = next /\ cur' = None /\ pc = "packet"
      /\ UNCHANGED <<txVars, rxVars, TxConsumeIndex, RxProduceIndex, arrived, produce>>
  BY DEF Done, Handles
<1>3. /\ RingsInv' /\ SlotsInv' /\ OrderInv'
      /\ Received' = Received /\ Held' = Held /\ Queued' = Queued
      /\ Writing' = {} /\ Writing = {} /\ head = None
      /\ data' \in [Pool -> Nat \union {None}] /\ handled' \in Nat
  BY HandlesKeeps
<1>4. /\ cur \in Bufs /\ cur \in Caller /\ cur \notin Queued /\ cur \notin Received
      /\ cur \notin TcpBufs /\ next[cur] = None /\ cur \notin tcp /\ ref[cur] = 1
  BY <1>1, <1>2, Counts
<1>5. /\ p \in Bufs /\ p \in TcpBufs /\ p \notin Received /\ p \notin Queued
      /\ p # None /\ p # cur
      /\ q \in Bufs \union {None} /\ q # p
      /\ q # None => /\ q \in Bufs /\ q \in TcpBufs /\ q \notin Received
                     /\ q \notin Queued /\ q # cur /\ q \notin tcp
  <2>1. p \in Bufs /\ p \in TcpBufs
    BY <1>1, Counts, BufSets
  <2>2. q \in Bufs \union {None} /\ q # p
    BY <1>1, <2>1, Links DEF TypeOK
  <2>3. Chain(p) = {p} \union Linked(next, p)
    BY <1>1, <2>1, Links, ChainIs, Chains
  <2>4. p \notin Queued /\ (q # None => q \notin Queued)
    BY <2>3 DEF Linked
  <2>5. q # None => q \in Bufs /\ q \in TcpBufs /\ q \notin tcp
    BY <1>1, <2>2, Links DEF ChainInv
  <2>6. p \notin Received /\ (q # None => q \notin Received)
    BY <1>1, <2>1, <2>5, Counts
  <2>7. QED
    BY <1>4, <2>1, <2>2, <2>4, <2>5, <2>6, BufSets
<1>6. /\ p \notin Caller /\ ref[p] = 1
      /\ q # None => q \notin Caller /\ ref[q] = 1
  <2>1. \A x \in Bufs : x \in Caller => x = cur
    BY <1>3, BufSets DEF Caller
  <2>2. \A x \in Bufs : ref[x] = One(x \in Queued) + One(x \in Received)
             + One(x \in Writing) + One(x \in Caller) + One(x \in TcpBufs)
    BY <1>1 DEF RefInv
  <2>3. p \notin Caller /\ (q # None => q \notin Caller)
    BY <1>5, <2>1
  <2> HIDE DEF q
  <2>4. QED
    BY <1>3, <1>5, <2>2, <2>3 DEF One
<1>7. Flat(next) /\ ref \in [Bufs -> Nat]
  BY <1>1, Links DEF TypeOK
<1>8. /\ r \in [Bufs -> Nat] /\ r[p] = 0 /\ (q # None => r[q] = 0)
      /\ \A x \in Bufs : x # p /\ x # q => r[x] = ref[x]
  <2>1. r = [b \in Bufs |-> IF b = p \/ (ref[p] = 1 /\ next[p] # None /\ b = next[p])
                            THEN ref[b] - 1 ELSE ref[b]]
    BY <1>5, <1>7, FreeIs
  <2>2. \A x \in Bufs : r[x] = IF x = p \/ (q # None /\ x = q) THEN ref[x] - 1 ELSE ref[x]
    BY <1>6, <2>1
  <2>3. \A x \in Bufs : r[x] \in Nat
    BY <1>5, <1>6, <1>7, <2>2
  <2>4. r = [b \in Bufs |-> r[b]]
    BY <2>1
  <2> HIDE DEF r, q
  <2>5. r \in [Bufs -> Nat]
    BY <2>3, <2>4
  <2>6. r[p] = 0 /\ (q # None => r[q] = 0)
    BY <1>5, <1>6, <2>2
  <2>7. QED
    BY <2>2, <2>5, <2>6
<1>9. r[cur] = 1
  <2>1. cur # p /\ cur # q /\ cur \in Bufs /\ ref[cur] = 1
    BY <1>4, <1>5, BufSets
  <2> HIDE DEF r, q
  <2>2. QED
    BY <1>8, <2>1
<1> HIDE DEF r
<1>10. ref' = [r EXCEPT ![cur] = @ - 1]
  BY <1>2, <1>4, <1>7, <1>8, <1>9, FreeOne
<1>11. /\ ref' \in [Bufs -> Nat] /\ ref'[cur] = 0 /\ ref'[p] = 0
       /\ q # None => ref'[q] = 0
       /\ \A x \in Bufs : x # p /\ x # q /\ x # cur => ref'[x] = ref[x]
  <2> HIDE DEF q
  <2>1. QED
    BY <1>4, <1>5, <1>8, <1>9, <1>10
<1>12. TypeOK'
  BY <1>1, <1>2, <1>3, <1>11 DEF TypeOK, txVars, rxVars
<1>13. ChainInv'
  <2>1. \A x \in Bufs : ref'[x] > 0 /\ next[x] # None => x \in tcp'
    <3> TAKE x \in Bufs
    <3>1. CASE x = p \/ x = cur \/ (q # None /\ x = q)
      BY <1>11, <3>1
    <3>2. CASE x # p /\ x # cur /\ x # q
      BY <1>1, <1>11, <3>2 DEF ChainInv
    <3>3. QED
      BY <1>5, <3>1, <3>2, BufSets
  <2>2. QED
    BY <1>1, <1>2, <2>1 DEF ChainInv
<1>14. \A x \in Bufs : x \in TcpBufs' <=> x \in TcpBufs /\ x # p /\ (q # None => x # q)
  <2>1. \A x : x \in TcpBufs' <=> x \in Bufs
                 /\ (x \in tcp \ {p} \/ \E y \in tcp \ {p} : next[y] = x)
    BY <1>2, <1>12, <1>13, NextLinks
  <2>2. \A x : x \in TcpBufs <=> x \in Bufs /\ (x \in tcp \/ \E y \in tcp : next[y] = x)
    BY <1>1, Links
  <2>3. TAKE x \in Bufs
  <2>4. x # None
    BY BufSets
  <2>5. ASSUME x \in TcpBufs' PROVE x \in TcpBufs /\ x # p /\ (q # None => x # q)
    <3>1. CASE x \in tcp \ {p}
      BY <1>5, <2>2, <3>1
    <3>2. CASE \E y \in tcp \ {p} : next[y] = x
      <4>1. PICK y \in tcp \ {p} : next[y] = x
        BY <3>2
      <4>2. x # p
        BY <1>1, <4>1 DEF ChainInv
      <4>3. x # q
        BY <1>1, <2>4, <4>1 DEF ChainInv
      <4>4. QED
        BY <2>2, <4>1, <4>2, <4>3
    <3>3. QED
      BY <2>1, <2>5, <3>1, <3>2
  <2>6. ASSUME x \in TcpBufs, x # p, q # None => x # q PROVE x \in TcpBufs'
    <3>1. x \in tcp \/ \E y \in tcp : next[y] = x
      BY <2>2, <2>6
    <3>2. ASSUME NEW y \in tcp, next[y] = x PROVE y # p
      BY <2>4, <2>6, <3>2
    <3>3. QED
      BY <2>1, <2>6, <3>1, <3>2
  <2>7. QED
    BY <2>5, <2>6
<1>15. TcpBufs' \subseteq TcpBufs /\ TcpBufs \subseteq Bufs
  <2>1. TcpBufs' \subseteq Bufs
    BY <1>12, <1>13, NextLinks
  <2>2. TcpBufs \subseteq Bufs
    BY <1>1, Links
  <2>3. QED
    BY <1>14, <2>1, <2>2
<1>16. OthersQueued' = OthersQueued
  <2>1. \A i \in Held : eth_tx_pbufs[i] \in Queued /\ eth_tx_pbufs[i] \in Bufs
    BY <1>1 DEF Queued, SlotsInv
  <2>2. \A i \in Held : eth_tx_pbufs[i] \in TcpBufs' <=> eth_tx_pbufs[i] \in TcpBufs
    BY <1>5, <1>14, <2>1
  <2>3. QED
    BY <1>2, <1>3, <2>2 DEF OthersQueued, txVars
<1>17. RoomInv'
  <2>1. IsFiniteSet(TcpBufs)
    BY <1>15, BufSets, FS_Subset
  <2>2. Cardinality(TcpBufs') <= Cardinality(TcpBufs)
        /\ Cardinality(TcpBufs') \in Nat /\ Cardinality(TcpBufs) \in Nat
    BY <1>15, <2>1, FS_Subset, FS_CardinalityType
  <2>3. QED
    BY <1>1, <1>16, <2>2, Sizes DEF RoomInv
<1>18. CallInv'
  BY <1>1, <1>2 DEF CallInv
<1>19. \A x \in Bufs : x \in Caller' <=> x \in Caller /\ x # cur
  BY <1>2, <1>3, BufSets DEF Caller
<1>20. RefInv'
  <2>1. ASSUME NEW x \in Bufs
        PROVE  ref'[x] = One(x \in Queued') + One(x \in Received')
                 + One(x \in Writing') + One(x \in Caller') + One(x \in TcpBufs')
    <3>1. ref[x] = One(x \in Queued) + One(x \in Received)
             + One(x \in Writing) + One(x \in Caller) + One(x \in TcpBufs)
      BY <1>1 DEF RefInv
    <3> HIDE DEF q
    <3>2. CASE x = cur
      BY <1>3, <1>4, <1>11, <1>14, <1>19, <3>2 DEF One
    <3>3. CASE x = p
      BY <1>3, <1>5, <1>6, <1>11, <1>14, <1>19, <3>3 DEF One
    <3>4. CASE x = q /\ q # None
      BY <1>3, <1>5, <1>6, <1>11, <1>14, <1>19, <3>4 DEF One
    <3>5. CASE x # cur /\ x # p /\ x # q
      BY <1>3, <1>11, <1>14, <1>19, <3>1, <3>5 DEF One
    <3>6. QED
      BY <3>2, <3>3, <3>4, <3>5, BufSets
  <2>2. \A x \in Received' : ref'[x] = 1
    <3>1. \A x \in Received : x \in Bufs /\ ref[x] = 1 /\ x # cur /\ x # p /\ x # q
      BY <1>1, <1>4, <1>5, Counts, BufSets DEF RefInv
    <3>2. QED
      BY <1>3, <1>11, <3>1
  <2>3. cur' = None /\ pc' # "packet"
    BY <1>2
  <2>4. QED
    BY <2>1, <2>2, <2>3 DEF RefInv
<1>21. QED
  BY <1>3, <1>12, <1>13, <1>17, <1>18, <1>20 DEF Inv

LEMMA HandlePacketKeeps ==
  ASSUME Inv, HandlePacket
  PROVE  Inv'
<1>1. Handles
  BY DEF HandlePacket, Handles, Done, Call, After
<1>2. CASE Done(pbuf_free(ref, cur)) /\ UNCHANGED tcp
  BY <1>1, <1>2, DropKeeps
<1>3. CASE NotTcp(1) /\ Call(cur, ref) /\ UNCHANGED tcp
  BY <1>1, <1>3, SendBackKeeps
<1>4. CASE \E p \in tcp : /\ Chain(p) \cap Queued = {}
                          /\ Done(pbuf_free(pbuf_free(ref, p), cur)) /\ tcp' = tcp \ {p}
  BY <1>1, <1>4, AckKeeps
<1>5. QED
  BY <1>2, <1>3, <1>4 DEF HandlePacket

LEMMA RetransmitKeeps ==
  ASSUME Inv, TcpRetransmit
  PROVE  Inv'
<1>1. PICK p \in tcp : Chain(p) \cap Queued = {} /\ Call(p, ref)
  BY DEF TcpRetransmit
<1>2. TypeOK /\ RingsInv /\ SlotsInv /\ RefInv /\ OrderInv /\ ChainInv /\ CallInv
      /\ RoomInv
  BY DEF Inv
<1>3. /\ ref' = ref /\ pc = "polls" /\ pc' = "wait" /\ head' = p /\ frag' = p
      /\ UNCHANGED <<next, txVars, rxVars, emacVars, produce, cur, tcp, handled>>
  BY <1>1 DEF TcpRetransmit, Call
<1>4. p \in Bufs /\ p \notin Queued /\ next[p] \notin Queued
  <2>1. p \in Bufs /\ None \notin Queued
    BY <1>2, Counts, BufSets
  <2>2. Chain(p) = {p} \union Linked(next, p)
    BY <1>2, <2>1, Links, ChainIs, Chains
  <2>3. QED
    BY <1>1, <2>1, <2>2 DEF Linked
<1>5. /\ Held' = Held /\ Queued' = Queued /\ TcpBufs' = TcpBufs /\ Owned' = Owned
      /\ OthersQueued' = OthersQueued /\ Writing' = {} /\ Writing = {}
      /\ Received' = Received
  <2>1. Held' = Held
    BY <1>3 DEF Held, txVars
  <2>2. TcpBufs' = TcpBufs
    BY <1>3, Sets
  <2>3. Owned' = Owned
    BY <1>3 DEF Owned, rxVars
  <2>4. QED
    BY <1>3, <2>1, <2>2, <2>3 DEF Queued, OthersQueued, Writing, Received, txVars, rxVars
<1>6. \A x \in Bufs : x \in Caller' <=> x \in Caller
  <2>1. head = None
    BY <1>2, <1>3 DEF CallInv
  <2>2. QED
    BY <1>3, <2>1, BufSets DEF Caller
<1>7. CallInv'
  BY <1>1, <1>3, <1>4, <1>5 DEF CallInv
<1>8. ChainInv' /\ RoomInv' /\ SlotsInv'
  BY <1>2, <1>3, <1>5 DEF ChainInv, RoomInv, SlotsInv, txVars, rxVars
<1>9. RefInv'
  BY <1>2, <1>3, <1>5, <1>6 DEF RefInv
<1>10. RingsInv'
  BY <1>2, <1>3 DEF RingsInv, txVars, rxVars, emacVars
<1>11. TypeOK'
  BY <1>2, <1>3, <1>4 DEF TypeOK, txVars, rxVars, emacVars
<1>12. OrderInv'
  BY <1>2, <1>3, OrderKept DEF rxVars, emacVars
<1>13. QED
  BY <1>7, <1>8, <1>9, <1>10, <1>11, <1>12 DEF Inv

-----------------------------------------------------------------------------
(* The stack allocates a buffer, or a chain of two, and transmits it.      *)
Fresh(p, q) ==
  /\ pc = "polls" /\ p \in Ram /\ ref[p] = 0 /\ \A b \in Ram : ref[b] = 0 => p <= b
  /\ q \in Ram \union {None} /\ (q # None => ref[q] = 0 /\ p < q)
  /\ ref' \in [Bufs -> Nat] /\ ref'[p] = 1 /\ (q # None => ref'[q] = 1)
  /\ next' \in [Bufs -> Bufs \union {None}] /\ next'[p] = q
  /\ q # None => next'[q] = None
  /\ \A b \in Bufs : b # p /\ b # q => ref'[b] = ref[b] /\ next'[b] = next[b]
  /\ pc' = "wait" /\ head' = p /\ frag' = p
  /\ \/ tcp' = tcp /\ q = None /\ NotTcp(1)
     \/ tcp' = tcp \union {p} /\ Cardinality(TcpBufs) + (IF q = None THEN 1 ELSE 2)
                                   <= TCP_SND_QUEUELEN
  /\ UNCHANGED <<txVars, rxVars, emacVars, produce, cur, handled>>

LEMMA FreshKeeps ==
  ASSUME Inv, NEW p, NEW q, Fresh(p, q)
  PROVE  Inv'
<1>1. TypeOK /\ RingsInv /\ SlotsInv /\ RefInv /\ OrderInv /\ ChainInv /\ CallInv
      /\ RoomInv
  BY DEF Inv
<1>2. /\ pc = "polls" /\ pc' = "wait" /\ head' = p /\ frag' = p
      /\ UNCHANGED <<txVars, rxVars, emacVars, produce, cur, handled>>
  BY DEF Fresh
<1>3. /\ p \in Bufs /\ p \in Ram /\ ref[p] = 0 /\ p # q /\ p # None
      /\ q # None => q \in Bufs /\ q \in Ram /\ ref[q] = 0 /\ p < q
      /\ q \in Bufs \union {None} /\ p \notin Pool /\ q \notin Pool
  BY BufSets DEF Fresh
<1>4. /\ ref'[p] = 1 /\ (q # None => ref'[q] = 1)
      /\ next'[p] = q /\ (q # None => next'[q] = None)
      /\ \A b \in Bufs : b # p /\ b # q => ref'[b] = ref[b] /\ next'[b] = next[b]
      /\ (tcp' = tcp /\ q = None) \/ tcp' = tcp \union {p}
      /\ ref' \in [Bufs -> Nat] /\ next' \in [Bufs -> Bufs \union {None}]
  BY DEF Fresh
<1>5. /\ p \notin Queued /\ p \notin Received /\ p \notin TcpBufs /\ p \notin tcp
      /\ q \notin Queued
      /\ q # None => q \notin Received /\ q \notin TcpBufs /\ q \notin tcp
      /\ None \notin Queued /\ Queued \subseteq Bufs
  BY <1>1, <1>3, Counts
<1>6. \A b \in tcp : b \in Bufs /\ b # p /\ b # q /\ next'[b] = next[b] /\ next[b] # p
                     /\ (q # None => next[b] # q)
  <2>1. \A b \in tcp : b \in Bufs /\ b # p /\ (q # None => b # q)
    BY <1>1, <1>5, Counts, BufSets
  <2>2. \A b \in tcp : next[b] # p /\ (q # None => next[b] # q)
    BY <1>1, <1>3, <1>5, Links
  <2>3. QED
    BY <1>4, <2>1, <2>2, BufSets
<1>7. TypeOK'
  <2>1. tcp' \subseteq Ram
    BY <1>1, <1>3, <1>4 DEF TypeOK
  <2>2. QED
    BY <1>1, <1>2, <1>3, <1>4, <2>1 DEF TypeOK, txVars, rxVars, emacVars
<1>8. ChainInv'
  <2>1. ASSUME NEW b \in Bufs, next'[b] # None
        PROVE  b \in Ram /\ next'[b] \in Ram /\ b < next'[b] /\ next'[next'[b]] = None
    <3>1. CASE b = p
      BY <1>3, <1>4, <2>1, <3>1
    <3>2. CASE b # p
      <4>1. b # q /\ next'[b] = next[b]
        BY <1>4, <2>1, <3>2, BufSets
      <4>2. /\ b \in Ram /\ next[b] \in Ram /\ next[b] \in Bufs /\ b < next[b]
            /\ next[next[b]] = None
        BY <1>1, <2>1, <4>1, BufSets DEF ChainInv
      <4>3. next[b] # p
        <5>1. CASE ref[b] > 0
          <6>1. b \in tcp
            BY <1>1, <2>1, <4>1, <5>1 DEF ChainInv
          <6>2. QED
            BY <1>6, <6>1
        <5>2. CASE ~(ref[b] > 0)
          <6>1. ref[b] = 0
            BY <1>1, <5>2 DEF TypeOK
          <6>2. p <= b /\ b \in Nat /\ p \in Nat
            BY <1>3, <4>2, <6>1, BufSets DEF Fresh
          <6>3. QED
            BY <4>2, <6>2
        <5>3. QED
          BY <5>1, <5>2
      <4>4. next'[next[b]] = None
        <5>1. CASE next[b] = q
          BY <1>4, <2>1, <4>1, <5>1
        <5>2. CASE next[b] # q
          BY <1>4, <4>2, <4>3, <5>2
        <5>3. QED
          BY <5>1, <5>2
      <4>5. QED
        BY <4>1, <4>2, <4>4
    <3>3. QED
      BY <3>1, <3>2
  <2>2. ASSUME NEW b \in Bufs, ref'[b] > 0, next'[b] # None PROVE b \in tcp'
    <3>1. CASE b = p
      BY <1>4, <2>2, <3>1
    <3>2. CASE b # p
      <4>1. b # q
        BY <1>4, <2>2, BufSets
      <4>2. b \in tcp
        BY <1>1, <1>4, <2>2, <3>2, <4>1 DEF ChainInv
      <4>3. QED
        BY <1>4, <4>2
    <3>3. QED
      BY <3>1, <3>2
  <2>3. \A b \in tcp' : next'[b] \notin tcp'
    <3>1. \A b \in tcp : next'[b] \notin tcp /\ next'[b] # p
      BY <1>1, <1>6 DEF ChainInv
    <3>2. p \in tcp' => next'[p] \notin tcp /\ next'[p] # p
      <4>1. None \notin tcp
        BY <1>6, BufSets
      <4>2. QED
        BY <1>3, <1>4, <1>5, <4>1
    <3>3. QED
      BY <1>4, <3>1, <3>2
  <2>4. \A a, b \in tcp' : next'[a] # None /\ next'[a] = next'[b] => a = b
    <3>1. \A a, b \in tcp : next'[a] # None /\ next'[a] = next'[b] => a = b
      BY <1>1, <1>6 DEF ChainInv
    <3>2. \A a \in tcp : next'[a] # None /\ next'[p] # None => next'[a] # next'[p]
      BY <1>4, <1>6
    <3>3. QED
      BY <1>4, <3>1, <3>2
  <2>5. QED
    BY <2>1, <2>2, <2>3, <2>4 DEF ChainInv
<1>9. /\ Held' = Held /\ Queued' = Queued /\ Owned' = Owned
      /\ Writing' = {} /\ Writing = {} /\ Received' = Received
  <2>1. Held' = Held
    BY <1>2 DEF Held, txVars
  <2>2. Owned' = Owned
    BY <1>2 DEF Owned, rxVars
  <2>3. QED
    BY <1>2, <2>1, <2>2 DEF Queued, Writing, Received, txVars, rxVars
<1>10. \A x \in Bufs : x \in TcpBufs' <=>
         x \in TcpBufs \/ (tcp' # tcp /\ (x = p \/ (q # None /\ x = q)))
  <2>1. \A x : x \in TcpBufs' <=> x \in Bufs
                 /\ (x \in tcp' \/ \E y \in tcp' : next'[y] = x)
    BY <1>7, <1>8, NextLinks
  <2>2. \A x : x \in TcpBufs <=> x \in Bufs /\ (x \in tcp \/ \E y \in tcp : next[y] = x)
    BY <1>1, Links
  <2>3. TAKE x \in Bufs
  <2>4. (\E y \in tcp : next'[y] = x) <=> \E y \in tcp : next[y] = x
    BY <1>6
  <2>5. CASE tcp' = tcp
    BY <2>1, <2>2, <2>4, <2>5
  <2>6. CASE tcp' = tcp \union {p} /\ tcp' # tcp
    <3>1. (\E y \in tcp' : next'[y] = x) <=> (\E y \in tcp : next[y] = x) \/ x = q
      BY <1>4, <2>4, <2>6
    <3>2. x # None
      BY BufSets
    <3>3. QED
      BY <2>1, <2>2, <2>6, <3>1, <3>2
  <2>7. QED
    BY <1>4, <2>5, <2>6
<1>11. OthersQueued' = OthersQueued
  <2>1. \A i \in Held : eth_tx_pbufs[i] \in Queued /\ eth_tx_pbufs[i] \in Bufs
    BY <1>1 DEF Queued, SlotsInv
  <2>2. \A i \in Held : eth_tx_pbufs[i] \in TcpBufs' <=> eth_tx_pbufs[i] \in TcpBufs
    BY <1>5, <1>10, <2>1
  <2>3. QED
    BY <1>2, <1>9, <2>2 DEF OthersQueued, txVars
<1>12. /\ IsFiniteSet(TcpBufs) /\ Cardinality(TcpBufs) \in Nat
       /\ IsFiniteSet(OthersQueued) /\ Cardinality(OthersQueued) \in Nat
  <2>1. TcpBufs \subseteq Bufs
    BY <1>1, Links
  <2>2. IsFiniteSet(Held) /\ OthersQueued \subseteq Held
    BY <1>1, BetweenSize, Sets DEF TypeOK, OthersQueued
  <2>3. QED
    BY <2>1, <2>2, BufSets, FS_Subset, FS_CardinalityType
<1>13. RoomInv'
  <2>1. Cardinality(TcpBufs') <= TCP_SND_QUEUELEN
    <3>1. CASE tcp' = tcp
      <4>1. TcpBufs' \subseteq Bufs /\ TcpBufs \subseteq Bufs
        BY <1>1, <1>7, <1>8, Links, NextLinks
      <4>2. TcpBufs' = TcpBufs
        BY <1>10, <3>1, <4>1
      <4>3. QED
        BY <1>1, <4>2 DEF RoomInv
    <3>2. CASE tcp' # tcp
      <4>1. TcpBufs' \subseteq Bufs /\ TcpBufs \subseteq Bufs
        BY <1>1, <1>7, <1>8, Links, NextLinks
      <4>2. /\ IsFiniteSet(TcpBufs \union {p})
            /\ Cardinality(TcpBufs \union {p}) = Cardinality(TcpBufs) + 1
        BY <1>5, <1>12, FS_AddElement
      <4>3. Cardinality(TcpBufs) + (IF q = None THEN 1 ELSE 2) <= TCP_SND_QUEUELEN
        BY <3>2 DEF Fresh
      <4>4. CASE q = None
        <5>1. TcpBufs' = TcpBufs \union {p}
          BY <1>3, <1>10, <3>2, <4>1, <4>4
        <5>2. QED
          BY <4>2, <4>3, <4>4, <5>1
      <4>5. CASE q # None
        <5>1. TcpBufs' = (TcpBufs \union {p}) \union {q}
          BY <1>3, <1>10, <3>2, <4>1, <4>5
        <5>2. q \notin TcpBufs \union {p}
          BY <1>3, <1>5, <4>5
        <5>3. Cardinality((TcpBufs \union {p}) \union {q}) = Cardinality(TcpBufs) + 1 + 1
          BY <4>2, <5>2, FS_AddElement
        <5>4. QED
          BY <1>12, <4>3, <4>5, <5>1, <5>3
      <4>6. QED
        BY <4>4, <4>5
    <3>3. QED
      BY <3>1, <3>2
  <2>2. QED
    BY <1>1, <1>11, <2>1 DEF RoomInv
<1>14. SlotsInv'
  BY <1>1, <1>2, <1>9 DEF SlotsInv, txVars, rxVars
<1>15. CallInv'
  <2>1. p \notin tcp' => q = None /\ Cardinality(OthersQueued') < Others
    <3>1. p \notin tcp' => q = None /\ Cardinality(OthersQueued) + 1 <= Others
      BY DEF Fresh, NotTcp
    <3>2. QED
      BY <1>11, <1>12, <3>1, Sizes
  <2>2. QED
    BY <1>2, <1>3, <1>4, <1>5, <1>9, <2>1 DEF CallInv
<1>16. \A x \in Bufs : x \in Caller' <=> (x = p /\ tcp' = tcp) \/ x \in Caller
  <2>1. head = None /\ cur = None /\ cur' = None
    BY <1>1, <1>2 DEF CallInv, RefInv
  <2>2. p \in tcp' <=> tcp' # tcp
    BY <1>4, <1>5
  <2>3. QED
    BY <1>2, <2>1, <2>2, BufSets DEF Caller
<1>17. RefInv'
  <2>1. cur = None /\ cur' = None /\ head = None
    BY <1>1, <1>2 DEF RefInv, CallInv
  <2>2. \A x \in Bufs : x \notin Caller
    BY <2>1, BufSets DEF Caller
  <2>3. ASSUME NEW x \in Bufs
        PROVE  ref'[x] = One(x \in Queued') + One(x \in Received')
                 + One(x \in Writing') + One(x \in Caller') + One(x \in TcpBufs')
    <3>1. ref[x] = One(x \in Queued) + One(x \in Received)
             + One(x \in Writing) + One(x \in Caller) + One(x \in TcpBufs)
      BY <1>1 DEF RefInv
    <3>2. CASE x = p
      BY <1>4, <1>5, <1>9, <1>10, <1>16, <2>2, <3>2 DEF One
    <3>3. CASE x = q /\ q # None
      BY <1>3, <1>4, <1>5, <1>9, <1>10, <1>16, <2>2, <3>3 DEF One
    <3>4. CASE x # p /\ x # q
      BY <1>4, <1>9, <1>10, <1>16, <3>1, <3>4 DEF One
    <3>5. QED
      BY <3>2, <3>3, <3>4, BufSets
  <2>4. \A x \in Received' : ref'[x] = 1
    <3>1. \A x \in Received : x \in Bufs /\ ref[x] = 1 /\ x # p /\ x # q
      BY <1>1, <1>3, Counts, BufSets DEF RefInv
    <3>2. QED
      BY <1>4, <1>9, <3>1
  <2>5. QED
    BY <1>2, <2>1, <2>3, <2>4 DEF RefInv
<1>18. RingsInv'
  BY <1>1, <1>2 DEF RingsInv, txVars, rxVars, emacVars
<1>19. OrderInv'
  BY <1>1, <1>2, OrderKept DEF rxVars, emacVars
<1>20. QED
  BY <1>7, <1>8, <1>13, <1>14, <1>15, <1>17, <1>18, <1>19 DEF Inv

LEMMA NewChainIs ==
  ASSUME TypeOK, NEW n \in 1 .. 2, NEW keep \in BOOLEAN, NewChain(n, keep), pc = "polls",
         keep => Cardinality(TcpBufs) + n <= TCP_SND_QUEUELEN,
         ~keep => n = 1 /\ NotTcp(1),
         UNCHANGED <<txVars, rxVars, emacVars, produce, cur, handled>>
  PROVE  \E p, q : Fresh(p, q)
<1> DEFINE p == skub_alloc(Ram, ref)
           q == skub_alloc(Ram \ {p}, ref)
           F == FreeBufs(Ram, ref)
<1>1. /\ ref \in [Bufs -> Nat] /\ next \in [Bufs -> Bufs \union {None}]
      /\ tcp \subseteq Ram
  BY DEF TypeOK
<1>2. IsFiniteSet(F) /\ Cardinality(F) >= n /\ Cardinality(F) \in Nat
  <2>1. IsFiniteSet(F)
    BY BufSets, FS_Subset DEF FreeBufs
  <2>2. Cardinality(F) >= n
    BY DEF NewChain
  <2>3. QED
    BY <2>1, <2>2, FS_CardinalityType
<1>3. F # {}
  BY <1>2, FS_EmptySet
<1>4. p \in Ram /\ ref[p] = 0 /\ \A b \in Ram : ref[b] = 0 => p <= b
  BY <1>3, BufSets, Lowest
<1>5. p \in Bufs /\ p # None
  BY <1>4, BufSets
<1> HIDE DEF p
<1>6. CASE n = 1
  <2>1. /\ ref' = [ref EXCEPT ![p] = 1] /\ next' = [next EXCEPT ![p] = None]
        /\ head' = p /\ frag' = p /\ pc' = "wait"
        /\ tcp' = tcp \union (IF keep THEN {p} ELSE {})
    BY <1>6 DEF NewChain, Call, p
  <2>2. /\ ref' \in [Bufs -> Nat] /\ ref'[p] = 1
        /\ next' \in [Bufs -> Bufs \union {None}] /\ next'[p] = None
        /\ \A b \in Bufs : b # p => ref'[b] = ref[b] /\ next'[b] = next[b]
    BY <1>1, <1>5, <2>1
  <2>3. tcp' = IF keep THEN tcp \union {p} ELSE tcp
    BY <2>1
  <2>4. Fresh(p, None)
    BY <1>4, <1>6, <2>1, <2>2, <2>3 DEF Fresh
  <2>5. QED
    BY <2>4
<1>7. CASE n = 2
  <2>1. FreeBufs(Ram \ {p}, ref) # {}
    <3>1. SUFFICES ASSUME FreeBufs(Ram \ {p}, ref) = {} PROVE FALSE
      OBVIOUS
    <3>2. F = {p}
      BY <1>4, <3>1 DEF FreeBufs
    <3> HIDE DEF F
    <3>3. Cardinality(F) = 1
      BY <3>2, FS_Singleton
    <3>4. QED
      BY <1>2, <1>7, <3>3
  <2>2. q \in Ram \ {p} /\ ref[q] = 0
    <3>1. Ram \ {p} \in SUBSET Bufs
      BY BufSets
    <3>2. QED
      BY <2>1, <3>1, Lowest
  <2>3. q \in Ram /\ q \in Bufs /\ q # p /\ q # None /\ p < q
    <3>1. q \in Ram /\ q \in Bufs /\ q # p /\ q # None /\ p <= q
      BY <1>4, <2>2, BufSets
    <3>2. p \in Nat /\ q \in Nat
      BY <1>5, <3>1, BufSets
    <3>3. QED
      BY <3>1, <3>2
  <2>4. /\ ref' = [ref EXCEPT ![p] = 1, ![q] = 1]
        /\ next' = [next EXCEPT ![p] = q, ![q] = None]
        /\ head' = p /\ frag' = p /\ pc' = "wait"
        /\ tcp' = tcp \union (IF keep THEN {p} ELSE {})
    BY <1>7 DEF NewChain, Call, p
  <2> HIDE DEF q
  <2>5. /\ ref' \in [Bufs -> Nat] /\ ref'[p] = 1 /\ ref'[q] = 1
        /\ next' \in [Bufs -> Bufs \union {None}] /\ next'[p] = q /\ next'[q] = None
        /\ \A b \in Bufs : b # p /\ b # q => ref'[b] = ref[b] /\ next'[b] = next[b]
    BY <1>1, <1>5, <2>3, <2>4
  <2>6. keep = TRUE /\ tcp' = tcp \union {p}
    BY <1>7, <2>4
  <2>7. Cardinality(TcpBufs) + 2 <= TCP_SND_QUEUELEN
    BY <1>7, <2>6
  <2>8. Fresh(p, q)
    BY <1>4, <2>2, <2>3, <2>4, <2>5, <2>6, <2>7 DEF Fresh
  <2>9. QED
    BY <2>8
<1>8. QED
  BY <1>6, <1>7

LEMMA NewChainKeeps ==
  ASSUME Inv, TcpWrite \/ Datagram
  PROVE  Inv'
<1>1. TypeOK
  BY DEF Inv
<1>2. ASSUME TcpWrite PROVE \E p, q : Fresh(p, q)
  <2>1. PICK n \in 1 .. 2 : /\ Cardinality(TcpBufs) + n <= TCP_SND_QUEUELEN
                            /\ NewChain(n, TRUE)
    BY <1>2 DEF TcpWrite
  <2>2. pc = "polls" /\ UNCHANGED <<txVars, rxVars, emacVars, produce, cur, handled>>
    BY <1>2 DEF TcpWrite
  <2>3. QED
    BY <1>1, <2>1, <2>2, NewChainIs
<1>3. ASSUME Datagram PROVE \E p, q : Fresh(p, q)
  <2>1. /\ pc = "polls" /\ UNCHANGED <<txVars, rxVars, emacVars, produce, cur, handled>>
        /\ NotTcp(1) /\ NewChain(1, FALSE)
    BY <1>3 DEF Datagram
  <2>2. 1 \in 1 .. 2 /\ FALSE \in BOOLEAN
    OBVIOUS
  <2>3. QED
    BY <1>1, <2>1, <2>2, NewChainIs
<1>4. QED
  BY <1>2, <1>3, FreshKeeps

-----------------------------------------------------------------------------
(* A descriptor per fragment, outside what is held, then all at once.      *)
LEMMA Place ==
  ASSUME Others <= 1, Inv, pc = "fragment", frag # None
  PROVE  /\ produce \in TxIdx /\ produce \notin Held /\ frag \in Bufs
         /\ \/ /\ frag = head /\ produce = TxProduceIndex /\ Writing = {}
            \/ /\ frag = next[head] /\ produce = NextTx(TxProduceIndex)
               /\ produce # TxProduceIndex /\ frag # head
               /\ eth_tx_pbufs[TxProduceIndex] = head /\ Writing = {head}
         /\ TxDist(TxProduceIndex, NextTx(TxProduceIndex)) = 1
         /\ frag = next[head]
              => TxDist(TxProduceIndex, NextTx(NextTx(TxProduceIndex))) = 2
<1> DEFINE c == eth_tx_free_consume
           p == TxProduceIndex
<1>1. TypeOK /\ ChainInv /\ SlotsInv /\ CallInv /\ RoomInv /\ c \in TxIdx /\ p \in TxIdx
      /\ produce \in TxIdx /\ frag \in Bufs
  BY DEF Inv, TypeOK
<1>2. /\ head \in Bufs
      /\ \/ TxDist(p, produce) = 0 /\ frag = head
         \/ TxDist(p, produce) = 1 /\ frag = next[head] /\ eth_tx_pbufs[p] = head
  BY <1>1 DEF CallInv
<1>3. Flat(next) /\ next[head] # head
  BY <1>1, <1>2, Links
<1>4. TxDist(c, p) + (IF next[head] = None THEN 1 ELSE 2) <= NUM_TX_DESC - 1
  BY <1>1, Room
<1>5. TxDist(c, p) \in 0 .. NUM_TX_DESC - 1 /\ NUM_TX_DESC \in Nat /\ NextTx(p) \in TxIdx
      /\ TxDist(p, p) = 0
  BY <1>1, TxStep, Sizes
<1>6. TxDist(c, p) < NUM_TX_DESC - 1 /\ 0 < NUM_TX_DESC - 1
  BY <1>4, <1>5
<1>7. p \notin Held /\ TxDist(c, NextTx(p)) = TxDist(c, p) + 1
      /\ TxDist(p, NextTx(p)) = 1
  <2>1. p \notin Between(c, p)
    BY <1>1, <1>6, BetweenIs
  <2>2. TxDist(c, NextTx(p)) = TxDist(c, p) + 1
    BY <1>1, <1>6, TxStep
  <2>3. TxDist(p, NextTx(p)) = TxDist(p, p) + 1
    BY <1>1, <1>5, <1>6, TxStep
  <2>4. QED
    BY <1>5, <2>1, <2>2, <2>3, Sets
<1>8. NextTx(p) \notin Held
  BY <1>5, <1>7 DEF Held
<1>9. frag = next[head] => TxDist(p, NextTx(NextTx(p))) = 2
  <2>1. SUFFICES ASSUME frag = next[head] PROVE TxDist(p, NextTx(NextTx(p))) = 2
    OBVIOUS
  <2>2. 1 < NUM_TX_DESC - 1
    BY <1>4, <1>5, <2>1
  <2>3. TxDist(p, NextTx(NextTx(p))) = TxDist(p, NextTx(p)) + 1
    BY <1>1, <1>5, <1>7, <2>2, TxStep
  <2>4. QED
    BY <1>7, <2>3
<1>10. CASE TxDist(p, produce) = 0 /\ frag = head
  <2>1. produce = p
    BY <1>1, <1>10, TxStep
  <2>2. Writing = {}
    BY <1>2, <1>3, <1>10, WritingIs, Sets
  <2>3. QED
    BY <1>1, <1>7, <1>9, <1>10, <2>1, <2>2
<1>11. CASE TxDist(p, produce) = 1 /\ frag = next[head] /\ eth_tx_pbufs[p] = head
  <2>1. produce = NextTx(p) /\ produce # p
    BY <1>1, <1>5, <1>7, <1>11, TxStep
  <2>2. Writing = {head}
    BY <1>2, <1>3, <1>11, WritingIs, Sets
  <2>3. QED
    BY <1>1, <1>3, <1>7, <1>8, <1>9, <1>11, <2>1, <2>2
<1>12. QED
  BY <1>2, <1>10, <1>11

LEMMA FragmentKeeps ==
  ASSUME Others <= 1, Inv, Fragment
  PROVE  Inv'
<1> DEFINE p == TxProduceIndex
<1>1. /\ pc = "fragment" /\ frag # None
      /\ eth_tx_pbufs' = [eth_tx_pbufs EXCEPT ![produce] = frag]
      /\ ref' = [ref EXCEPT ![frag] = @ + 1]
      /\ frag' = next[frag] /\ produce' = NextTx(produce)
      /\ UNCHANGED <<next, TxProduceIndex, eth_tx_free_consume, rxVars, emacVars,
                     head, pc, cur, tcp, handled>>
  BY DEF Fragment
<1>2. TypeOK /\ RingsInv /\ SlotsInv /\ RefInv /\ OrderInv /\ ChainInv /\ CallInv
      /\ RoomInv
  BY DEF Inv
<1>3. /\ produce \in TxIdx /\ produce \notin Held /\ frag \in Bufs
      /\ \/ /\ frag = head /\ produce = p /\ Writing = {}
         \/ /\ frag = next[head] /\ produce = NextTx(p) /\ produce # p /\ frag # head
            /\ eth_tx_pbufs[p] = head /\ Writing = {head}
      /\ TxDist(p, NextTx(p)) = 1
      /\ frag = next[head] => TxDist(p, NextTx(NextTx(p))) = 2
  BY <1>1, Place
<1>4. /\ head \in Bufs /\ head \notin Queued /\ next[head] \notin Queued
      /\ head \notin tcp => next[head] = None /\ Cardinality(OthersQueued) < Others
      /\ p \in TxIdx /\ NextTx(produce) \in TxIdx
  BY <1>1, <1>2, <1>3, TxStep DEF CallInv, TypeOK
<1>5. /\ eth_tx_pbufs' \in [TxIdx -> Bufs \union {None}]
      /\ eth_tx_pbufs'[produce] = frag
      /\ \A i \in TxIdx : i # produce => eth_tx_pbufs'[i] = eth_tx_pbufs[i]
      /\ ref' \in [Bufs -> Nat] /\ ref'[frag] = ref[frag] + 1
      /\ \A x \in Bufs : x # frag => ref'[x] = ref[x]
  BY <1>1, <1>2, <1>3 DEF TypeOK
<1>6. /\ Held' = Held /\ TcpBufs' = TcpBufs /\ Owned' = Owned /\ Received' = Received
      /\ Caller' = Caller
  <2>1. Held' = Held
    BY <1>1 DEF Held
  <2>2. TcpBufs' = TcpBufs
    BY <1>1, Sets
  <2>3. Owned' = Owned
    BY <1>1 DEF Owned, rxVars
  <2>4. QED
    BY <1>1, <2>1, <2>2, <2>3 DEF Received, Caller, rxVars
<1>7. \A i \in Held : i \in TxIdx /\ i # produce /\ eth_tx_pbufs'[i] = eth_tx_pbufs[i]
  BY <1>3, <1>5 DEF Held
<1>8. Queued' = Queued /\ OthersQueued' = OthersQueued
  BY <1>6, <1>7 DEF Queued, OthersQueued
<1>9. frag \notin Writing /\ \A x \in Bufs : x \in Writing' <=> x \in Writing \/ x = frag
  <2>1. Flat(next)
    BY <1>2, Links
  <2>2. CASE frag = head
    <3>1. frag' = next[head]
      BY <1>1, <2>2
    <3>2. Writing' = {head}
      BY <1>1, <1>4, <2>1, <3>1, WritingIs, Sets
    <3>3. QED
      BY <1>3, <2>2, <3>2
  <2>3. CASE frag = next[head] /\ frag # head
    <3>1. frag' = None
      BY <1>1, <1>4, <2>1, <2>3 DEF Flat
    <3>2. Writing' = {head} \union {next[head]}
      BY <1>1, <1>4, <2>1, <2>3, <3>1, WritingIs, Sets DEF Linked
    <3>3. QED
      BY <1>3, <2>3, <3>2
  <2>4. QED
    BY <1>3, <2>2, <2>3
<1>10. frag \notin Received
  <2>1. CASE frag = head
    <3>1. head \in tcp => head \in TcpBufs
      BY <1>2, Counts
    <3>2. head \notin tcp => head \in Caller
      BY DEF Caller
    <3>3. QED
      BY <1>2, <2>1, <3>1, <3>2, Counts
  <2>2. CASE frag = next[head]
    <3>1. frag \in Ram
      BY <1>1, <1>2, <1>4, <2>2 DEF ChainInv
    <3>2. QED
      BY <1>2, <3>1, BufSets, Counts
  <2>3. QED
    BY <1>3, <2>1, <2>2
<1>11. ChainInv'
  <2>1. \A x \in Bufs : ref'[x] > 0 /\ next[x] # None => x \in tcp
    <3> TAKE x \in Bufs
    <3>1. CASE x # frag
      BY <1>2, <1>5, <3>1 DEF ChainInv
    <3>2. CASE x = frag /\ frag = head
      BY <1>4, <3>2
    <3>3. CASE x = frag /\ frag = next[head]
      BY <1>1, <1>2, <1>4, <3>3 DEF ChainInv
    <3>4. QED
      BY <1>3, <3>1, <3>2, <3>3
  <2>2. QED
    BY <1>1, <1>2, <2>1 DEF ChainInv
<1>12. SlotsInv'
  BY <1>1, <1>2, <1>6, <1>7 DEF SlotsInv, rxVars
<1>13. RoomInv'
  BY <1>2, <1>6, <1>8 DEF RoomInv
<1>14. RefInv'
  <2>1. ASSUME NEW x \in Bufs
        PROVE  ref'[x] = One(x \in Queued') + One(x \in Received')
                 + One(x \in Writing') + One(x \in Caller') + One(x \in TcpBufs')
    <3>1. ref[x] = One(x \in Queued) + One(x \in Received)
             + One(x \in Writing) + One(x \in Caller) + One(x \in TcpBufs)
      BY <1>2 DEF RefInv
    <3>2. CASE x = frag
      BY <1>5, <1>6, <1>8, <1>9, <3>1, <3>2 DEF One
    <3>3. CASE x # frag
      BY <1>5, <1>6, <1>8, <1>9, <3>1, <3>3 DEF One
    <3>4. QED
      BY <3>2, <3>3
  <2>2. \A x \in Received' : ref'[x] = 1
    <3>1. \A x \in Received : x \in Bufs /\ ref[x] = 1 /\ x # frag
      BY <1>2, <1>10, Counts DEF RefInv
    <3>2. QED
      BY <1>5, <1>6, <3>1
  <2>3. cur' = None /\ pc' # "packet"
    BY <1>1, <1>2 DEF RefInv
  <2>4. QED
    BY <2>1, <2>2, <2>3 DEF RefInv
<1>15. TypeOK'
  <2>1. frag' \in Bufs \union {None}
    BY <1>1, <1>2, <1>3 DEF TypeOK
  <2>2. QED
    BY <1>1, <1>2, <1>4, <1>5, <2>1 DEF TypeOK, rxVars, emacVars
<1>16. CallInv'
  <2>1. /\ head' = head /\ next' = next /\ tcp' = tcp /\ pc' = "fragment"
        /\ TxProduceIndex' = p
    BY <1>1
  <2>2. CASE frag = head /\ produce = p
    <3>1. TxDist(p, produce') = 1 /\ frag' = next[head] /\ eth_tx_pbufs'[p] = head
      BY <1>1, <1>3, <1>5, <2>2
    <3>2. QED
      BY <1>4, <1>8, <2>1, <3>1 DEF CallInv
  <2>3. CASE /\ frag = next[head] /\ produce = NextTx(p) /\ produce # p
             /\ eth_tx_pbufs[p] = head
    <3>1. /\ TxDist(p, produce') = 2 /\ next[head] # None
          /\ eth_tx_pbufs'[p] = head /\ eth_tx_pbufs'[NextTx(p)] = next[head]
      BY <1>1, <1>3, <1>4, <1>5, <2>3
    <3>2. frag' = None
      BY <1>1, <1>2, <1>4, <2>3, Links DEF Flat
    <3>3. QED
      BY <1>4, <1>8, <2>1, <3>1, <3>2 DEF CallInv
  <2>4. QED
    BY <1>3, <2>2, <2>3
<1>17. RingsInv'
  BY <1>1, <1>2 DEF RingsInv, rxVars, emacVars
<1>18. OrderInv'
  BY <1>1, <1>2, OrderKept DEF rxVars, emacVars
<1>19. QED
  BY <1>11, <1>12, <1>13, <1>14, <1>15, <1>16, <1>17, <1>18 DEF Inv

(* The descriptors that are published.                                     *)
Written == IF next[head] = None THEN {TxProduceIndex}
           ELSE {TxProduceIndex, NextTx(TxProduceIndex)}

LEMMA Published ==
  ASSUME Others <= 1, Inv, pc = "fragment", frag = None
  PROVE  /\ produce \in TxIdx /\ Written \subseteq TxIdx /\ Written \cap Held = {}
         /\ Between(eth_tx_free_consume, produce) = Held \union Written
         /\ TxDist(eth_tx_free_consume, TxProduceIndex)
              <= TxDist(eth_tx_free_consume, produce)
         /\ eth_tx_pbufs[TxProduceIndex] = head
         /\ next[head] # None => /\ NextTx(TxProduceIndex) # TxProduceIndex
                                 /\ eth_tx_pbufs[NextTx(TxProduceIndex)] = next[head]
         /\ Writing = {head} \union Linked(next, head)
<1> DEFINE c == eth_tx_free_consume
           p == TxProduceIndex
           q == NextTx(p)
<1>1. TypeOK /\ ChainInv /\ SlotsInv /\ CallInv /\ RoomInv /\ c \in TxIdx /\ p \in TxIdx
      /\ produce \in TxIdx
  BY DEF Inv, TypeOK
<1>2. /\ head \in Bufs /\ head # None
      /\ \/ TxDist(p, produce) = 0 /\ frag = head
         \/ TxDist(p, produce) = 1 /\ frag = next[head] /\ eth_tx_pbufs[p] = head
         \/ TxDist(p, produce) = 2 /\ next[head] # None /\ eth_tx_pbufs[p] = head
            /\ eth_tx_pbufs[q] = next[head]
  BY <1>1, BufSets DEF CallInv
<1>3. TxDist(c, p) + (IF next[head] = None THEN 1 ELSE 2) <= NUM_TX_DESC - 1
  BY <1>1, Room
<1>4. TxDist(c, p) \in 0 .. NUM_TX_DESC - 1 /\ NUM_TX_DESC \in Nat /\ q \in TxIdx
      /\ TxDist(p, p) = 0 /\ NextTx(q) \in TxIdx
  BY <1>1, TxStep, Sizes
<1>5. TxDist(c, p) < NUM_TX_DESC - 1 /\ 0 < NUM_TX_DESC - 1
  BY <1>3, <1>4
<1>6. /\ p \notin Between(c, p) /\ Between(c, q) = Between(c, p) \union {p}
      /\ TxDist(c, q) = TxDist(c, p) + 1 /\ TxDist(p, q) = 1
  <2>1. TxDist(p, q) = TxDist(p, p) + 1
    BY <1>1, <1>4, <1>5, TxStep
  <2>2. p \notin Between(c, p) /\ Between(c, q) = Between(c, p) \union {p}
    BY <1>1, <1>5, BetweenIs
  <2>3. TxDist(c, q) = TxDist(c, p) + 1
    BY <1>1, <1>5, TxStep
  <2>4. QED
    BY <1>4, <2>1, <2>2, <2>3
<1>7. Writing = {head} \union Linked(next, head)
  <2>1. Flat(next)
    BY <1>1, Links
  <2>2. QED
    BY <1>2, <2>1, WritingIs, Sets
<1>8. Held = Between(c, p)
  BY Sets
<1>9. CASE next[head] = None
  <2>1. TxDist(p, produce) = 1 /\ eth_tx_pbufs[p] = head
    BY <1>2, <1>9
  <2>2. produce = q
    BY <1>1, <1>4, <1>6, <2>1, TxStep
  <2>3. Written = {p}
    BY <1>9 DEF Written
  <2>4. TxDist(c, p) <= TxDist(c, produce)
    BY <1>4, <1>6, <2>2
  <2> HIDE DEF c, q
  <2>5. QED
    BY <1>1, <1>6, <1>7, <1>8, <1>9, <2>1, <2>2, <2>3, <2>4 DEF c
<1>10. CASE next[head] # None
  <2>1. TxDist(p, produce) = 2 /\ eth_tx_pbufs[p] = head /\ eth_tx_pbufs[q] = next[head]
    BY <1>2, <1>10
  <2>2. TxDist(c, q) < NUM_TX_DESC - 1 /\ 1 < NUM_TX_DESC - 1
    BY <1>3, <1>4, <1>6, <1>10
  <2>3. /\ q \notin Between(c, q) /\ Between(c, NextTx(q)) = Between(c, q) \union {q}
        /\ TxDist(c, NextTx(q)) = TxDist(c, q) + 1
        /\ TxDist(p, NextTx(q)) = TxDist(p, q) + 1
    <3>1. q \notin Between(c, q) /\ Between(c, NextTx(q)) = Between(c, q) \union {q}
      BY <1>1, <1>4, <2>2, BetweenIs
    <3>2. TxDist(c, NextTx(q)) = TxDist(c, q) + 1
      BY <1>1, <1>4, <2>2, TxStep
    <3>3. TxDist(p, NextTx(q)) = TxDist(p, q) + 1
      BY <1>1, <1>4, <1>6, <2>2, TxStep
    <3>4. QED
      BY <3>1, <3>2, <3>3
  <2>4. TxDist(p, NextTx(q)) = 2
    BY <1>6, <2>3
  <2>5. produce = NextTx(q)
    BY <1>1, <1>4, <2>1, <2>4, TxStep
  <2>6. Written = {p, q} /\ q # p
    BY <1>4, <1>6, <1>10 DEF Written
  <2>7. TxDist(c, p) <= TxDist(c, produce)
    BY <1>4, <1>6, <2>3, <2>5
  <2>8. q \notin Between(c, p) /\ Between(c, produce) = Between(c, p) \union {p, q}
    BY <1>6, <2>3, <2>5
  <2> HIDE DEF c
  <2>9. QED
    BY <1>1, <1>4, <1>6, <1>7, <1>8, <1>10, <2>1, <2>6, <2>7, <2>8 DEF c
<1>11. QED
  BY <1>9, <1>10

LEMMA PublishKeeps ==
  ASSUME Others <= 1, Inv, Publish
  PROVE  Inv'
<1> DEFINE p == TxProduceIndex
           q == NextTx(p)
<1>1. /\ pc = "fragment" /\ frag = None /\ frag' = None
      /\ TxProduceIndex' = produce /\ pc' = "polls"
      /\ ref' = IF head \in tcp THEN ref ELSE pbuf_free(ref, head)
      /\ head' = None /\ produce' = 0
      /\ UNCHANGED <<next, eth_tx_pbufs, eth_tx_free_consume, rxVars, emacVars, cur,
                     tcp, handled>>
  BY DEF Publish
<1>2. TypeOK /\ RingsInv /\ SlotsInv /\ RefInv /\ OrderInv /\ ChainInv /\ CallInv
      /\ RoomInv
  BY DEF Inv
<1>3. /\ produce \in TxIdx /\ Written \subseteq TxIdx /\ Written \cap Held = {}
      /\ Between(eth_tx_free_consume, produce) = Held \union Written
      /\ TxDist(eth_tx_free_consume, p) <= TxDist(eth_tx_free_consume, produce)
      /\ eth_tx_pbufs[p] = head
      /\ next[head] # None => q # p /\ eth_tx_pbufs[q] = next[head]
      /\ Writing = {head} \union Linked(next, head)
  BY <1>1, <1>2, Published
<1>4. /\ head \in Bufs /\ head \notin Queued /\ next[head] \notin Queued
      /\ head \notin tcp => next[head] = None /\ Cardinality(OthersQueued) < Others
      /\ next[head] # head /\ next[head] \in Bufs \union {None}
  BY <1>1, <1>2, Links DEF CallInv, TypeOK
<1>5. Held' = Held \union Written
  BY <1>1, <1>3, Sets
<1>6. /\ \A i \in Written : i = p \/ (next[head] # None /\ i = q)
      /\ \A i \in Written : eth_tx_pbufs[i] \in Bufs /\ eth_tx_pbufs[i] \in Writing
                            /\ eth_tx_pbufs[i] \notin Queued
      /\ \A i, j \in Written : eth_tx_pbufs[i] = eth_tx_pbufs[j] => i = j
      /\ p \in Written /\ (next[head] # None => q \in Written)
  <2>1. Written = IF next[head] = None THEN {p} ELSE {p, q}
    BY DEF Written
  <2>2. p \in Written /\ (next[head] # None => q \in Written)
    BY <2>1
  <2>3. \A i \in Written : i = p \/ (next[head] # None /\ i = q)
    BY <2>1
  <2> HIDE DEF p, q
  <2>4. \A i \in Written : eth_tx_pbufs[i] \in Bufs /\ eth_tx_pbufs[i] \in Writing
                            /\ eth_tx_pbufs[i] \notin Queued
    BY <1>3, <1>4, <2>3 DEF Linked
  <2>5. \A i, j \in Written : eth_tx_pbufs[i] = eth_tx_pbufs[j] => i = j
    BY <1>3, <1>4, <2>3
  <2>6. QED
    BY <2>2, <2>3, <2>4, <2>5
<1>7. \A x : x \in Queued' <=> x \in Queued \/ x \in Writing
  <2>1. \A x \in Writing : x = head \/ (next[head] # None /\ x = next[head])
    BY <1>3 DEF Linked
  <2>2. \A x \in Writing : \E i \in Written : x = eth_tx_pbufs[i]
    BY <1>3, <1>6, <2>1
  <2>3. Queued' = {eth_tx_pbufs[i] : i \in Held \union Written}
    BY <1>1, <1>5 DEF Queued
  <2>4. QED
    BY <1>6, <2>2, <2>3 DEF Queued
<1>8. /\ Owned' = Owned /\ Received' = Received /\ TcpBufs' = TcpBufs /\ Writing' = {}
      /\ cur = None /\ cur' = None
  <2>1. cur = None /\ cur' = None
    BY <1>1, <1>2 DEF RefInv
  <2>2. TcpBufs' = TcpBufs
    BY <1>1, Sets
  <2>3. Owned' = Owned
    BY <1>1 DEF Owned, rxVars
  <2>4. QED
    BY <1>1, <2>1, <2>2, <2>3 DEF Received, Writing, rxVars
<1>9. \A x \in Bufs : /\ x \notin Caller'
                      /\ x \in Caller <=> x = head /\ head \notin tcp
  BY <1>1, <1>8, BufSets DEF Caller
<1>10. \A x \in Bufs : ref[x] = One(x \in Queued) + One(x \in Received)
             + One(x \in Writing) + One(x \in Caller) + One(x \in TcpBufs)
  BY <1>2 DEF RefInv
<1>11. head \in Writing
  BY <1>3
<1>12. head \notin tcp => ref[head] > 1 /\ ref' = [ref EXCEPT ![head] = @ - 1]
  <2>1. head \notin tcp => head \in Caller
    BY <1>4, <1>9
  <2>2. head \notin tcp => ref[head] > 1
    BY <1>4, <1>10, <1>11, <2>1 DEF One
  <2>3. ref \in [Bufs -> Nat] /\ Flat(next)
    BY <1>2, Links DEF TypeOK
  <2>4. QED
    BY <1>1, <1>4, <2>2, <2>3, FreeOne
<1>13. /\ ref' \in [Bufs -> Nat]
       /\ ref'[head] = IF head \in tcp THEN ref[head] ELSE ref[head] - 1
       /\ \A x \in Bufs : x # head => ref'[x] = ref[x]
  <2>1. ref \in [Bufs -> Nat]
    BY <1>2 DEF TypeOK
  <2>2. CASE head \in tcp
    BY <1>1, <2>1, <2>2
  <2>3. CASE head \notin tcp
    BY <1>4, <1>12, <2>1, <2>3
  <2>4. QED
    BY <2>2, <2>3
<1>14. ChainInv'
  <2>1. \A x \in Bufs : ref'[x] > 0 /\ next[x] # None => x \in tcp
    <3> TAKE x \in Bufs
    <3>1. CASE x # head
      BY <1>2, <1>13, <3>1 DEF ChainInv
    <3>2. CASE x = head
      BY <1>4, <3>2
    <3>3. QED
      BY <3>1, <3>2
  <2>2. QED
    BY <1>1, <1>2, <2>1 DEF ChainInv
<1>15. SlotsInv'
  <2>1. \A i \in Held : eth_tx_pbufs[i] \in Bufs /\ eth_tx_pbufs[i] \in Queued
    BY <1>2 DEF SlotsInv, Queued
  <2>2. \A i \in Held' : eth_tx_pbufs'[i] \in Bufs
    BY <1>1, <1>5, <1>6, <2>1
  <2>3. \A i, j \in Held : eth_tx_pbufs[i] = eth_tx_pbufs[j] => i = j
    BY <1>2 DEF SlotsInv
  <2>4. \A i, j \in Held' : eth_tx_pbufs'[i] = eth_tx_pbufs'[j] => i = j
    BY <1>1, <1>5, <1>6, <2>1, <2>3
  <2>5. QED
    BY <1>1, <1>2, <1>8, <2>2, <2>4 DEF SlotsInv, rxVars
<1>16. RoomInv'
  <2>1. IsFiniteSet(OthersQueued) /\ Cardinality(OthersQueued) \in Nat
    <3>1. IsFiniteSet(Held)
      BY <1>2, BetweenSize, Sets DEF TypeOK
    <3>2. QED
      BY <3>1, FS_Subset, FS_CardinalityType DEF OthersQueued
  <2>2. Cardinality(OthersQueued') <= Others
    <3>1. CASE head \in tcp
      <4>1. \A i \in Written : eth_tx_pbufs[i] \in TcpBufs
        BY <1>2, <1>3, <1>6, <3>1, Links
      <4>2. OthersQueued' = OthersQueued
        BY <1>1, <1>5, <1>8, <4>1 DEF OthersQueued
      <4>3. QED
        BY <1>2, <4>2 DEF RoomInv
    <3>2. CASE head \notin tcp
      <4>1. Written = {p}
        BY <1>4, <3>2 DEF Written
      <4>2. OthersQueued' \subseteq OthersQueued \union {p}
        BY <1>1, <1>5, <1>8, <4>1 DEF OthersQueued
      <4>3. p \notin OthersQueued
        BY <1>3, <1>6 DEF OthersQueued
      <4>4. /\ IsFiniteSet(OthersQueued \union {p})
            /\ Cardinality(OthersQueued \union {p}) = Cardinality(OthersQueued) + 1
        BY <2>1, <4>3, FS_AddElement
      <4>5. Cardinality(OthersQueued') <= Cardinality(OthersQueued) + 1
            /\ Cardinality(OthersQueued') \in Nat
        BY <4>2, <4>4, FS_Subset, FS_CardinalityType
      <4>6. QED
        BY <1>4, <2>1, <3>2, <4>5, Sizes
    <3>3. QED
      BY <3>1, <3>2
  <2>3. QED
    BY <1>2, <1>8, <2>2 DEF RoomInv
<1>17. RefInv'
  <2>1. ASSUME NEW x \in Bufs
        PROVE  ref'[x] = One(x \in Queued') + One(x \in Received')
                 + One(x \in Writing') + One(x \in Caller') + One(x \in TcpBufs')
    <3>1. x \in Writing => x \notin Queued
      BY <1>3, <1>4 DEF Linked
    <3>2. CASE x = head
      BY <1>7, <1>8, <1>9, <1>10, <1>13, <3>1, <3>2 DEF One
    <3>3. CASE x # head
      BY <1>7, <1>8, <1>9, <1>10, <1>13, <3>1, <3>3 DEF One
    <3>4. QED
      BY <3>2, <3>3
  <2>2. \A x \in Received' : ref'[x] = 1
    <3>1. \A x \in Received : x \in Bufs /\ ref[x] = 1 /\ x # head
      BY <1>2, <1>11, Counts DEF RefInv
    <3>2. QED
      BY <1>8, <1>13, <3>1
  <2>3. QED
    BY <1>1, <1>8, <2>1, <2>2 DEF RefInv
<1>18. TypeOK'
  BY <1>1, <1>2, <1>3, <1>13 DEF TypeOK, rxVars, emacVars
<1>19. CallInv'
  BY <1>1 DEF CallInv
<1>20. RingsInv'
  <2>1. /\ TxDist(eth_tx_free_consume, p) \in 0 .. NUM_TX_DESC - 1
        /\ TxDist(eth_tx_free_consume, produce) \in 0 .. NUM_TX_DESC - 1
        /\ TxDist(eth_tx_free_consume, TxConsumeIndex) \in 0 .. NUM_TX_DESC - 1
    <3>1. /\ eth_tx_free_consume \in TxIdx /\ p \in TxIdx /\ TxConsumeIndex \in TxIdx
          /\ produce \in TxIdx
      BY <1>2, <1>3 DEF TypeOK
    <3>2. QED
      BY <3>1, TxStep
  <2>2. TxDist(eth_tx_free_consume, TxConsumeIndex) <= TxDist(eth_tx_free_consume, produce)
    BY <1>2, <1>3, <2>1, Sizes DEF RingsInv
  <2>3. QED
    BY <1>1, <1>2, <2>2 DEF RingsInv, rxVars, emacVars
<1>21. OrderInv'
  BY <1>1, <1>2, OrderKept DEF rxVars, emacVars
<1>22. QED
  BY <1>14, <1>15, <1>16, <1>17, <1>18, <1>19, <1>20, <1>21 DEF Inv

-----------------------------------------------------------------------------
LEMMA InitInv == Init => Inv
<1> SUFFICES ASSUME Init PROVE Inv
  OBVIOUS
<1>1. /\ ref = [b \in Bufs |-> IF b \in RxIdx THEN 1 ELSE 0]
      /\ next = [b \in Bufs |-> None] /\ eth_tx_pbufs = [i \in TxIdx |-> None]
      /\ TxProduceIndex = 0 /\ TxConsumeIndex = 0 /\ eth_tx_free_consume = 0
      /\ eth_rx_pbufs = [i \in RxIdx |-> i]
      /\ RxProduceIndex = 0 /\ RxConsumeIndex = 0 /\ eth_rx_read_index = 0
      /\ pc = "poll_1" /\ cur = None /\ head = None /\ frag = None /\ produce = 0
      /\ tcp = {} /\ data = [b \in Pool |-> None] /\ arrived = 0 /\ handled = 0
  BY DEF Init
<1>2. /\ RxIdx \subseteq Pool /\ RxIdx \subseteq Bufs /\ 0 \in RxIdx /\ 0 \in TxIdx
  BY Sizes, BufSets DEF RxIdx, TxIdx, Pool
<1>3. TypeOK
  <2>1. ref \in [Bufs -> Nat] /\ data \in [Pool -> Nat \union {None}]
    BY <1>1
  <2>2. eth_rx_pbufs \in [RxIdx -> Bufs]
    BY <1>1, <1>2
  <2>3. QED
    BY <1>1, <1>2, <2>1, <2>2 DEF TypeOK
<1>4. /\ TxDist(0, 0) = 0 /\ RxDist(0, 0) = 0
      /\ \A i \in TxIdx : TxDist(0, i) \in Nat
      /\ \A i \in RxIdx : RxDist(0, i) \in Nat
  <2>1. \A i \in TxIdx : TxDist(0, i) \in 0 .. NUM_TX_DESC - 1
    BY <1>2, TxStep
  <2>2. \A i \in RxIdx : RxDist(0, i) \in 0 .. NUM_RX_BUF - 1
    BY <1>2, RxStep
  <2>3. TxDist(0, 0) = 0 /\ RxDist(0, 0) = 0
    BY <1>2, TxStep, RxStep
  <2>4. QED
    BY <2>1, <2>2, <2>3, Sizes
<1>5. RingsInv
  BY <1>1, <1>4 DEF RingsInv
<1>6. ChainInv
  BY <1>1 DEF ChainInv
<1>7. Held = {} /\ Queued = {} /\ TcpBufs = {} /\ OthersQueued = {} /\ Writing = {}
  <2>1. Held = {}
    <3>1. \A i \in TxIdx : ~(TxDist(0, i) < TxDist(0, 0))
      BY <1>4
    <3>2. QED
      BY <1>1, <3>1 DEF Held
  <2>2. QED
    BY <1>1, <2>1 DEF Queued, TcpBufs, OthersQueued, Writing
<1>8. Owned = RxIdx
  BY <1>1, <1>4 DEF Owned
<1>9. Received = RxIdx
  BY <1>1, <1>8 DEF Received
<1>10. \A b \in Bufs : b \notin Caller
  BY <1>1, BufSets DEF Caller
<1>11. SlotsInv
  BY <1>1, <1>2, <1>7, <1>8 DEF SlotsInv
<1>12. CallInv
  BY <1>1 DEF CallInv
<1>13. RoomInv
  BY <1>7, FS_EmptySet, Sizes DEF RoomInv
<1>14. RefInv
  <2>1. \A b \in Bufs : ref[b] = One(b \in Queued) + One(b \in Received)
           + One(b \in Writing) + One(b \in Caller) + One(b \in TcpBufs)
    BY <1>1, <1>7, <1>9, <1>10 DEF One
  <2>2. \A b \in Received : ref[b] = 1
    BY <1>1, <1>2, <1>9
  <2>3. QED
    BY <1>1, <2>1, <2>2 DEF RefInv
<1>15. OrderInv
  <2>1. handled \in 0 .. CountMod - 1 /\ One(pc = "packet") = 0 /\ 0 + 0 = 0
    BY <1>1, Sizes DEF One
  <2>2. After(0, 0) = 0
    BY <1>1, <2>1, AfterNext
  <2>3. \A i \in RxIdx : ~(RxDist(0, i) < RxDist(0, 0))
    BY <1>2, <1>4, RxStep, Sizes
  <2>4. QED
    BY <1>1, <1>4, <2>1, <2>2, <2>3, Order
<1>16. QED
  BY <1>3, <1>5, <1>6, <1>11, <1>12, <1>13, <1>14, <1>15 DEF Inv

LEMMA InvUnchanged ==
  ASSUME Inv, UNCHANGED vars
  PROVE  Inv'
<1>1. /\ UNCHANGED <<ref, next, eth_tx_pbufs, TxProduceIndex, eth_tx_free_consume>>
      /\ UNCHANGED <<eth_rx_pbufs, RxConsumeIndex, eth_rx_read_index, TxConsumeIndex>>
      /\ UNCHANGED <<RxProduceIndex, data, arrived, head, frag, produce, pc, cur, tcp>>
      /\ handled' = handled
  BY DEF vars, bufVars, txVars, rxVars, emacVars, callVars
<1>2. Owned' = Owned /\ Writing' = Writing
  BY <1>1 DEF Owned, Writing, Chain
<1>3. Still
  BY <1>1, <1>2 DEF Still, bufVars, txVars
<1>4. /\ ChainInv' /\ SlotsInv' /\ RoomInv' /\ RefInv'
      /\ Queued' = Queued /\ OthersQueued' = OthersQueued
  BY <1>3, StillKept DEF Inv
<1>5. TypeOK' /\ RingsInv'
  BY <1>1 DEF Inv, TypeOK, RingsInv
<1>6. CallInv'
  BY <1>1, <1>4 DEF Inv, CallInv
<1>7. OrderInv'
  BY <1>1, OrderKept DEF Inv
<1>8. QED
  BY <1>4, <1>5, <1>6, <1>7 DEF Inv

LEMMA InvStep ==
  ASSUME Others <= 1, Inv, [Next]_vars
  PROVE  Inv'
<1>1. CASE UNCHANGED vars
  BY <1>1, InvUnchanged
<1>2. CASE Emac
  BY <1>2, TxDoneKeeps, RxDoneKeeps DEF Emac
<1>3. CASE Transmit
  BY <1>3, WaitKeeps, FragmentKeeps, PublishKeeps DEF Transmit
<1>4. CASE Poll
  BY <1>4, MoveKeeps, ReclaimKeeps, ReceiveKeeps, HandlePacketKeeps, PollTwoKeeps,
     RefillKeeps, PollTwoDoneKeeps DEF Poll
<1>5. CASE Stack
  BY <1>5, NewChainKeeps, RetransmitKeeps DEF Stack
<1>6. QED
  BY <1>1, <1>2, <1>3, <1>4, <1>5 DEF Next

LEMMA Invariant ==
  ASSUME Others <= 1
  PROVE  Spec => []Inv
<1>1. Inv /\ [Next]_vars => Inv'
  BY InvStep
<1>2. QED
  BY <1>1, InitInv, PTL DEF Spec

-----------------------------------------------------------------------------
(* What the invariant says of each property.                               *)

LEMMA ToReadIsOwned ==
  ASSUME TypeOK, RingsInv
  PROVE  /\ ToRead \subseteq Owned
         /\ \A i \in Owned : i \in ToRead \/
              (pc = "poll_2" /\ i \in RxIdx
               /\ RxDist(RxConsumeIndex, i) < RxDist(RxConsumeIndex, produce))
         /\ \A i \in ToRead : ~(pc = "poll_2"
               /\ RxDist(RxConsumeIndex, i) < RxDist(RxConsumeIndex, produce))
<1> DEFINE c == RxConsumeIndex
           r == eth_rx_read_index
<1>1. c \in RxIdx /\ r \in RxIdx
  BY DEF TypeOK
<1>2. /\ RxDist(c, r) \in 0 .. NUM_RX_BUF - 1 /\ (RxDist(c, r) = 0 <=> c = r)
      /\ RxDist(r, c) = IF RxDist(c, r) <= RxDist(c, c) THEN RxDist(c, c) - RxDist(c, r)
                        ELSE RxDist(c, c) - RxDist(c, r) + NUM_RX_BUF
      /\ RxDist(c, c) = 0
  BY <1>1, RxStep, RxShift
<1>3. ASSUME NEW i \in RxIdx
      PROVE  i \in ToRead <=> RxDist(c, i) >= RxDist(c, r)
  <2>1. /\ RxDist(c, i) \in 0 .. NUM_RX_BUF - 1
        /\ RxDist(r, i) = IF RxDist(c, r) <= RxDist(c, i) THEN RxDist(c, i) - RxDist(c, r)
                          ELSE RxDist(c, i) - RxDist(c, r) + NUM_RX_BUF
    BY <1>1, RxStep, RxShift
  <2>2. CASE c = r
    <3>1. i \in ToRead
      BY <2>2 DEF ToRead
    <3>2. QED
      BY <1>2, <2>1, <2>2, <3>1, Sizes
  <2>3. CASE c # r
    <3>1. i \in ToRead <=> RxDist(r, i) < RxDist(r, c)
      BY <2>3 DEF ToRead
    <3>2. QED
      BY <1>2, <2>1, <2>3, <3>1, Sizes
  <2>4. QED
    BY <2>2, <2>3
<1>4. ToRead \subseteq RxIdx /\ Owned \subseteq RxIdx
  BY DEF ToRead, Owned
<1>5. pc = "poll_2" => /\ RxDist(c, produce) <= RxDist(c, r)
                       /\ RxDist(c, produce) \in 0 .. NUM_RX_BUF - 1
  BY <1>1, RxStep DEF RingsInv, TypeOK
<1>6. \A i \in RxIdx : RxDist(c, i) \in 0 .. NUM_RX_BUF - 1
  BY <1>1, RxStep
<1>7. QED
  BY <1>2, <1>3, <1>4, <1>5, <1>6, Sizes DEF Owned

LEMMA Live ==
  ASSUME Inv
  PROVE  SendsLiveBuffers
<1>1. TypeOK /\ RingsInv /\ SlotsInv /\ RefInv /\ ChainInv /\ CallInv
  BY DEF Inv
<1> DEFINE c == eth_tx_free_consume
<1>2. /\ c \in TxIdx /\ TxConsumeIndex \in TxIdx /\ TxProduceIndex \in TxIdx
      /\ TxDist(c, TxConsumeIndex) <= TxDist(c, TxProduceIndex)
  BY <1>1 DEF TypeOK, RingsInv
<1>3. ASSUME NEW i \in ToSend
      PROVE i \in Held /\ eth_tx_pbufs[i] # None /\ ref[eth_tx_pbufs[i]] > 0
  <2>1. i \in TxIdx /\ TxDist(TxConsumeIndex, i) < TxDist(TxConsumeIndex, TxProduceIndex)
    BY DEF ToSend
  <2>2. /\ TxDist(c, i) \in 0 .. NUM_TX_DESC - 1
        /\ TxDist(c, TxConsumeIndex) \in 0 .. NUM_TX_DESC - 1
        /\ TxDist(c, TxProduceIndex) \in 0 .. NUM_TX_DESC - 1
    BY <1>2, <2>1, TxStep
  <2>3. /\ TxDist(TxConsumeIndex, i)
             = IF TxDist(c, TxConsumeIndex) <= TxDist(c, i)
               THEN TxDist(c, i) - TxDist(c, TxConsumeIndex)
               ELSE TxDist(c, i) - TxDist(c, TxConsumeIndex) + NUM_TX_DESC
        /\ TxDist(TxConsumeIndex, TxProduceIndex)
             = IF TxDist(c, TxConsumeIndex) <= TxDist(c, TxProduceIndex)
               THEN TxDist(c, TxProduceIndex) - TxDist(c, TxConsumeIndex)
               ELSE TxDist(c, TxProduceIndex) - TxDist(c, TxConsumeIndex) + NUM_TX_DESC
    BY <1>2, <2>1, TxShift
  <2>4. TxDist(c, i) < TxDist(c, TxProduceIndex)
    BY <1>2, <2>1, <2>2, <2>3, Sizes
  <2>5. i \in Held
    BY <2>1, <2>4 DEF Held
  <2>6. eth_tx_pbufs[i] \in Bufs /\ eth_tx_pbufs[i] \in Queued
    BY <1>1, <2>5 DEF SlotsInv, Queued
  <2>7. QED
    BY <1>1, <2>5, <2>6, Counts, BufSets
<1>4. QED
  BY <1>3 DEF SendsLiveBuffers

LEMMA Alone ==
  ASSUME Inv
  PROVE  ReceivesAlone
<1>1. TypeOK /\ RingsInv /\ SlotsInv /\ RefInv /\ ChainInv /\ CallInv
  BY DEF Inv
<1>2. ToRead \subseteq Owned
  BY <1>1, ToReadIsOwned
<1>3. ASSUME NEW i \in ToRead
      PROVE  /\ ref[eth_rx_pbufs[i]] = 1 /\ eth_rx_pbufs[i] # cur
             /\ eth_rx_pbufs[i] # head /\ eth_rx_pbufs[i] \notin Queued
  <2> DEFINE b == eth_rx_pbufs[i]
  <2>1. b \in Received
    BY <1>2 DEF Received
  <2>2. ref[b] = 1 /\ b \notin Queued /\ b \notin Caller /\ b \notin TcpBufs /\ b \in Pool
    BY <1>1, <2>1, Counts DEF RefInv
  <2>3. b \notin tcp
    BY <1>1, <2>2, Counts
  <2>4. QED
    BY <2>2, <2>3 DEF Caller
<1>4. QED
  BY <1>1, <1>2, <1>3 DEF ReceivesAlone, SlotsInv

(* A set of one thing at most has as many elements as it has one.          *)
LEMMA Single ==
  ASSUME NEW S, \A x, y \in S : x = y
  PROVE  Cardinality(S) = One(S # {})
<1>1. CASE S = {}
  BY <1>1, FS_EmptySet DEF One
<1>2. CASE S # {}
  <2>1. PICK x \in S : TRUE
    BY <1>2
  <2>2. S = {x}
    BY <2>1
  <2>3. QED
    BY <1>2, <2>2, FS_Singleton DEF One
<1>3. QED
  BY <1>1, <1>2

LEMMA AllHeld ==
  ASSUME Inv
  PROVE  EveryReferenceHeld
<1>1. TypeOK /\ RingsInv /\ SlotsInv /\ RefInv /\ ChainInv /\ CallInv
  BY DEF Inv
<1>2. SUFFICES ASSUME NEW b \in Bufs PROVE ref[b] = Holders(b)
  BY DEF EveryReferenceHeld
<1> DEFINE S1 == {i \in Held : eth_tx_pbufs[i] = b}
           S2 == {i \in ToRead : eth_rx_pbufs[i] = b}
           R  == pc = "poll_2" /\ \E j \in RxIdx :
                   RxDist(RxConsumeIndex, j) < RxDist(RxConsumeIndex, produce)
                   /\ eth_rx_pbufs[j] = b
           S3 == {i \in {0} : pc = "poll_2"
                   /\ \E j \in RxIdx : /\ RxDist(RxConsumeIndex, j)
                                            < RxDist(RxConsumeIndex, produce)
                                       /\ eth_rx_pbufs[j] = b}
           S4 == {i \in {0} : b \in Writing}
           S5 == {i \in {0} : b = cur \/ (b = head /\ head \notin tcp)}
           S6 == {i \in {0} : b \in tcp}
           S7 == {c \in Bufs : ref[c] > 0 /\ next[c] = b}
<1>3. Cardinality(S1) = One(b \in Queued)
  <2>1. \A x, y \in S1 : x = y
    BY <1>1 DEF SlotsInv
  <2>2. S1 # {} <=> b \in Queued
    BY DEF Queued
  <2> HIDE DEF S1
  <2>3. QED
    BY <2>1, <2>2, Single DEF One
<1>4. Cardinality(S2) + Cardinality(S3) = One(b \in Received)
  <2>1. \A x, y \in S2 : x = y
    BY <1>1, ToReadIsOwned DEF SlotsInv
  <2>2. Cardinality(S2) = One(S2 # {})
    BY <2>1, Single
  <2>3. Cardinality(S3) = One(S3 # {})
    BY Single
  <2>4. S3 # {} <=> R
    OBVIOUS
  <2>5. b \in Received <=> S2 # {} \/ R
    <3>1. S2 # {} \/ R => b \in Received
      BY <1>1, ToReadIsOwned DEF Received, Owned
    <3>2. b \in Received => S2 # {} \/ R
      BY <1>1, ToReadIsOwned DEF Received
    <3>3. QED
      BY <3>1, <3>2
  <2>6. ~(S2 # {} /\ R)
    <3>1. SUFFICES ASSUME S2 # {}, R PROVE FALSE
      OBVIOUS
    <3>2. PICK i \in ToRead : eth_rx_pbufs[i] = b
      BY <3>1
    <3>3. PICK j \in RxIdx : /\ RxDist(RxConsumeIndex, j) < RxDist(RxConsumeIndex, produce)
                             /\ eth_rx_pbufs[j] = b
      BY <3>1
    <3>4. i \in Owned /\ j \in Owned
      BY <1>1, <3>1, <3>3, ToReadIsOwned DEF Owned
    <3>5. i = j
      BY <1>1, <3>2, <3>3, <3>4 DEF SlotsInv
    <3>6. QED
      BY <1>1, <3>1, <3>3, <3>5, ToReadIsOwned
  <2> HIDE DEF S2, S3, R
  <2>7. QED
    BY <2>2, <2>3, <2>4, <2>5, <2>6 DEF One
<1>5. Cardinality(S4) = One(b \in Writing)
  <2>1. S4 # {} <=> b \in Writing
    OBVIOUS
  <2>2. Cardinality(S4) = One(S4 # {})
    BY Single
  <2> HIDE DEF S4
  <2>3. QED
    BY <2>1, <2>2 DEF One
<1>6. Cardinality(S5) = One(b \in Caller)
  <2>1. cur \notin tcp /\ b # None
    <3>1. cur = None \/ cur \in Pool
      BY <1>1 DEF RefInv
    <3>2. tcp \subseteq Ram
      BY <1>1 DEF TypeOK
    <3>3. QED
      BY <3>1, <3>2, BufSets
  <2>2. S5 # {} <=> b \in Caller
    BY <2>1 DEF Caller
  <2>3. Cardinality(S5) = One(S5 # {})
    BY Single
  <2> HIDE DEF S5
  <2>4. QED
    BY <2>2, <2>3 DEF One
<1>7. Cardinality(S6) + Cardinality(S7) = One(b \in TcpBufs)
  <2>1. S6 # {} <=> b \in tcp
    OBVIOUS
  <2>2. Cardinality(S6) = One(S6 # {})
    BY Single
  <2>3. b # None
    BY BufSets
  <2>4. \A c \in S7 : c \in tcp /\ next[c] = b
    BY <1>1, <2>3 DEF ChainInv
  <2>5. \A x, y \in S7 : x = y
    BY <1>1, <2>3, <2>4 DEF ChainInv
  <2>6. Cardinality(S7) = One(S7 # {})
    BY <2>5, Single
  <2>7. S7 # {} <=> \E p \in tcp : next[p] = b
    BY <1>1, <2>4, Counts, BufSets
  <2>8. b \in TcpBufs <=> b \in tcp \/ S7 # {}
    BY <1>1, <2>7, Links
  <2>9. ~(b \in tcp /\ S7 # {})
    BY <1>1, <2>4 DEF ChainInv
  <2> HIDE DEF S6, S7
  <2>10. QED
    BY <2>1, <2>2, <2>6, <2>8, <2>9 DEF One
<1>8. ref[b] = One(b \in Queued) + One(b \in Received)
             + One(b \in Writing) + One(b \in Caller) + One(b \in TcpBufs)
  BY <1>1 DEF RefInv
<1>9. Holders(b) = Cardinality(S1) + Cardinality(S2) + Cardinality(S3) + Cardinality(S4)
                     + Cardinality(S5) + Cardinality(S6) + Cardinality(S7)
  BY DEF Holders
<1>10. /\ Cardinality(S2) \in Int /\ Cardinality(S3) \in Int
       /\ Cardinality(S6) \in Int /\ Cardinality(S7) \in Int
  <2>1. \A x, y \in S2 : x = y
    BY <1>1, ToReadIsOwned DEF SlotsInv
  <2>2. \A x, y \in S7 : x = y
    BY <1>1, BufSets DEF ChainInv
  <2>3. /\ Cardinality(S2) = One(S2 # {}) /\ Cardinality(S3) = One(S3 # {})
        /\ Cardinality(S6) = One(S6 # {}) /\ Cardinality(S7) = One(S7 # {})
    BY <2>1, <2>2, Single
  <2> HIDE DEF S2, S3, S6, S7
  <2>4. QED
    BY <2>3 DEF One
<1> HIDE DEF S1, S2, S3, S4, S5, S6, S7
<1>11. QED
  BY <1>3, <1>4, <1>5, <1>6, <1>7, <1>8, <1>9, <1>10 DEF One

-----------------------------------------------------------------------------
(* Every index, buffer and place of the driver is in its range.            *)
THEOREM TypeCorrect ==
  ASSUME Others <= 1
  PROVE  Spec => []TypeOK
<1>1. Inv => TypeOK
  BY DEF Inv
<1>2. QED
  BY <1>1, Invariant, PTL

(* eth_tx_cleanup frees nothing the EMAC has yet to send, and a descriptor *)
(* is reused only when its buffer was freed: what the EMAC sends is live.  *)
THEOREM LiveBuffers ==
  ASSUME Others <= 1
  PROVE  Spec => []SendsLiveBuffers
<1>1. Inv => SendsLiveBuffers
  BY Live
<1>2. QED
  BY <1>1, Invariant, PTL

(* The EMAC receives into buffers that nobody else has: no slot of the     *)
(* ring, no packet in the stack's hands and no transmission.               *)
THEOREM ReceptionAlone ==
  ASSUME Others <= 1
  PROVE  Spec => []ReceivesAlone
<1>1. Inv => ReceivesAlone
  BY Alone
<1>2. QED
  BY <1>1, Invariant, PTL

(* The reference count of every buffer is the number of those that will    *)
(* give it back: none leaks, none is freed twice.                          *)
THEOREM ReferencesHeld ==
  ASSUME Others <= 1
  PROVE  Spec => []EveryReferenceHeld
<1>1. Inv => EveryReferenceHeld
  BY AllHeld
<1>2. QED
  BY <1>1, Invariant, PTL

(* Packets reach the stack in the order they arrived, none left out, with  *)
(* the contents they arrived with.                                         *)
THEOREM PacketsInOrder ==
  ASSUME Others <= 1
  PROVE  Spec => []HandedOverInOrder
<1>1. Inv => HandedOverInOrder
  BY DEF Inv, OrderInv, HandedOverInOrder
<1>2. QED
  BY <1>1, Invariant, PTL
=============================================================================
