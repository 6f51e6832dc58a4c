---------------------------- MODULE TxRingProofs ----------------------------
(***************************************************************************)
(* Theorems about TxRing, for any ring and thresholds the driver accepts,  *)
(* any number of packets, any length of bursts and any garbage.            *)
(*                                                                         *)
(* The types say that reclaiming moves from whole group to whole group.    *)
(* As long as bursts are plain, PlainInv divides the ring into slots that  *)
(* are reclaimed (before Base), sent (before head), queued (before the     *)
(* tail) and unused, and says for every packet what its place means for    *)
(* its buffer.  It is inductive because the driver accepts thresholds only *)
(* with tx_rs_thresh + tx_free_thresh <= nb_tx_desc: below tx_free_thresh  *)
(* free descriptors the group to be reclaimed has been written, so the DD  *)
(* bit found there was set by the card and not by the reset of the queue.  *)
(***************************************************************************)
EXTENDS TxRing, FiniteSetTheorems, TLAPS

----------------------------------------------------------------------------
(* Multiples of the length of a group, and 16 bits.                        *)

\* Quotient and remainder.
LEMMA Divide ==
    ASSUME NEW r \in Nat \ {0}, NEW x \in Nat
    PROVE  x = (x \div r) * r + (x % r) /\ x \div r \in Nat
BY SMT

\* A number without a remainder is a multiple.
LEMMA Multiple ==
    ASSUME NEW r \in Nat \ {0}, NEW x \in Nat, x % r = 0
    PROVE  \E k \in Nat : x = k * r
<1>1. x = (x \div r) * r + (x % r) /\ x \div r \in Nat
  BY Divide
<1> QED BY <1>1

\* A multiple has no remainder.
LEMMA NoRemainder ==
    ASSUME NEW r \in Nat \ {0}, NEW k \in Nat
    PROVE  (k * r) % r = 0
BY SMT

\* The next multiple.
LEMMA NextMultiple ==
    ASSUME NEW r \in Nat \ {0}, NEW x \in Nat, x % r = 0
    PROVE  (x + r) % r = 0
<1>1. PICK k \in Nat : x = k * r
  BY Multiple
<1>2. x + r = (k + 1) * r /\ k + 1 \in Nat
  BY <1>1
<1> QED BY <1>2, NoRemainder

\* Two multiples are a group apart.
LEMMA Apart ==
    ASSUME NEW r \in Nat \ {0}, NEW x \in Nat, NEW y \in Nat, x % r = 0, y % r = 0, x < y
    PROVE  x + r <= y
<1>1. PICK k \in Nat : x = k * r
  BY Multiple
<1>2. PICK j \in Nat : y = j * r
  BY Multiple
<1>3. k < j
  BY <1>1, <1>2
<1>4. (k + 1) * r <= j * r
  BY <1>3
<1> QED BY <1>1, <1>2, <1>4

\* What 16 bits hold.
LEMMA SixteenBits ==
    /\ \A x : x \in uint16_t <=> x \in Nat /\ x < 65536
    /\ \A x \in Int : u16(x) \in uint16_t
    /\ \A x \in uint16_t : u16(x) = x
<1>1. \A x : x \in uint16_t <=> x \in Nat /\ x < 65536
  <2> DEFINE M == 65535
  <2>1. uint16_t = 0 .. M
    BY DEF uint16_t
  <2>2. M \in Nat /\ \A x \in Nat : x <= M <=> x < 65536
    OBVIOUS
  <2> HIDE DEF M
  <2> QED BY <2>1, <2>2
<1>2. \A x \in Int : u16(x) \in Nat /\ u16(x) < 65536
  BY DEF u16
<1>3. \A x \in Nat : x < 65536 => u16(x) = x
  BY DEF u16
<1> QED BY <1>1, <1>2, <1>3

\* The ring and its thresholds.
LEMMA Ring ==
    /\ nb_tx_desc \in Nat \ {0} /\ nb_tx_desc <= 65535
    /\ tx_rs_thresh \in Nat \ {0} /\ tx_free_thresh \in Nat
    /\ 2 * tx_rs_thresh <= nb_tx_desc /\ tx_free_thresh <= nb_tx_desc - tx_rs_thresh
    /\ nb_tx_desc % tx_rs_thresh = 0
BY RingAssumption

----------------------------------------------------------------------------
(* Types.                                                                  *)

\* ixgbe_tx_free_bufs goes from one whole group of the ring to another.
LEMMA ReclaimType ==
    ASSUME TypeOK
    PROVE  /\ NextDd \in Slots /\ (NextDd + 1) % tx_rs_thresh = 0
           /\ tx_next_dd - (tx_rs_thresh - 1) \in Nat
           /\ FreeAfterReclaim \in uint16_t
           /\ Reclaimed \subseteq Slots /\ IsFiniteSet(Reclaimed)
<1>1. /\ tx_next_dd \in Nat /\ tx_next_dd < nb_tx_desc /\ (tx_next_dd + 1) % tx_rs_thresh = 0
      /\ nb_tx_free \in Nat
  BY Ring, SixteenBits DEF TypeOK, Slots
<1>2. NextDd \in Slots
  BY <1>1, Ring DEF NextDd, Slots
<1>3. (NextDd + 1) % tx_rs_thresh = 0
  <2>1. ((tx_next_dd + 1) + tx_rs_thresh) % tx_rs_thresh = 0
    <3> DEFINE x == tx_next_dd + 1
    <3>1. x \in Nat /\ x % tx_rs_thresh = 0
      BY <1>1
    <3> HIDE DEF x
    <3>2. tx_rs_thresh \in Nat \ {0}
      BY Ring
    <3>3. (x + tx_rs_thresh) % tx_rs_thresh = 0
      BY <3>1, <3>2, NextMultiple
    <3> QED BY <3>3 DEF x
  <2>2. (tx_rs_thresh - 1) + 1 = tx_rs_thresh /\ tx_rs_thresh % tx_rs_thresh = 0
    BY Ring
  <2>3. (tx_next_dd + tx_rs_thresh) + 1 = (tx_next_dd + 1) + tx_rs_thresh
    BY <1>1, Ring
  <2> QED BY <1>1, <2>1, <2>2, <2>3 DEF NextDd
<1>4. tx_next_dd - (tx_rs_thresh - 1) \in Nat
  <2>1. 0 + tx_rs_thresh <= tx_next_dd + 1
    BY <1>1, Ring, Apart
  <2> QED BY <1>1, <2>1, Ring
<1>5. FreeAfterReclaim \in uint16_t
  <2>1. u16(nb_tx_free + tx_rs_thresh) \in uint16_t
    BY <1>1, Ring, SixteenBits
  <2>2. nb_tx_free \in uint16_t
    BY DEF TypeOK
  <2> QED BY <2>1, <2>2 DEF FreeAfterReclaim
<1>6. Reclaimed \subseteq Slots
  BY <1>1, <1>4, Ring DEF Reclaimed, Slots
<1>7. IsFiniteSet(Reclaimed)
  BY <1>1, <1>4, Ring, FS_Interval, FS_EmptySet DEF Reclaimed
<1> QED BY <1>2, <1>3, <1>4, <1>5, <1>6, <1>7

\* The number of buffers of a packet that are given back is a number.
LEMMA CountType ==
    ASSUME NEW S, IsFiniteSet(S)
    PROVE  \A T \in SUBSET S : IsFiniteSet(T) /\ Cardinality(T) \in Nat
BY FS_Subset, FS_CardinalityType

\* The first n numbers.
LEMMA UpTo ==
    ASSUME NEW n \in Nat
    PROVE  IsFiniteSet(1 .. n) /\ Cardinality(1 .. n) = n
<1>1. Cardinality(1 .. n) = IF 1 > n THEN 0 ELSE n - 1 + 1
  BY FS_Interval
<1> QED BY <1>1, FS_Interval

\* A burst of one choice of the verdicts and of the start value.
Taken(n)  == Min(FreeAfterReclaim, Min(n, tx_rs_thresh))
Pkt(n, i) == IF i <= n THEN taken + i ELSE Stray
Handled(l) == 1 .. l.first + l.second
At(l, s)  == {i \in Handled(l) : SlotOf(l, i) = s}
Back(p)   == Cardinality({s \in Reclaimed : sw_ring[s] = p})

\* The descriptor of slot s after a burst.
Desc(n, l, sent, s) ==
    IF At(l, s) \cap sent = {} THEN tx_ring[s]
    ELSE [pkt |-> Pkt(n, CHOOSE i \in At(l, s) \cap sent : TRUE),
          rs |-> l.wraps /\ s = nb_tx_desc - 1, dd |-> FALSE, new |-> TRUE]

BurstOf(n, g, sent, l) ==
    /\ taken + n <= MaxPackets /\ tx_tail < nb_tx_desc /\ Taken(n) > 0
    /\ sent \subseteq Handled(l)
    /\ sw_ring' = [s \in Slots |-> IF At(l, s) = {} THEN sw_ring[s]
                                   ELSE Pkt(n, CHOOSE i \in At(l, s) : TRUE)]
    /\ tx_ring' = [s \in Slots |->
                     IF NewTail(l, sent, g) > Rs(l) /\ s = Rs(l)
                     THEN [Desc(n, l, sent, s) EXCEPT !.rs = TRUE] ELSE Desc(n, l, sent, s)]
    /\ tx_next_rs' = IF NewTail(l, sent, g) > Rs(l) THEN Rs(l) + tx_rs_thresh ELSE Rs(l)
    /\ tx_tail' = NewTail(l, sent, g) /\ tdt' = NewTail(l, sent, g)
    /\ nb_tx_free' = u16(FreeAfterReclaim - Moved(l, sent, g))
    /\ returned' = [p \in Packets |-> returned[p] + Back(p)
                                    + Cardinality({i \in Handled(l) \ sent : Pkt(n, i) = p})]
    /\ plain' = (plain /\ PlainBurst(Taken(n), l, sent, g))
    /\ tx_next_dd' = NextDd /\ taken' = taken + Taken(n)
    /\ UNCHANGED <<head, onWire, logs>>

\* The choices of a burst.
LEMMA BurstChoices ==
    ASSUME NEW n \in 1 .. MaxBurst, Burst(n)
    PROVE  \E g \in Garbage, sent \in SUBSET (1 .. 2 * tx_rs_thresh) :
              BurstOf(n, g, sent, Layout(Taken(n), sent))
BY Zenon DEF Burst, BurstOf, Taken, Pkt, Handled, At, Back, Desc

\* How a burst is laid out.
LEMMA LayoutType ==
    ASSUME TypeOK, tx_tail < nb_tx_desc, NEW nb \in Nat, NEW sent
    PROVE  LET l == Layout(nb, sent)
           IN  /\ l.wraps \in BOOLEAN /\ l.first \in Nat /\ l.sent1 \in Nat
               /\ l.second \in Nat /\ l.start \in Nat
<1> DEFINE l == Layout(nb, sent)
           m == nb_tx_desc - tx_tail
<1>1. m \in Nat
  BY Ring, SixteenBits DEF TypeOK
<1>2. /\ l.wraps = (nb >= m) /\ l.first = (IF nb >= m THEN m ELSE 0)
      /\ l.sent1 = Cardinality(sent \cap 1 .. l.first)
      /\ l.second = (IF nb >= m THEN nb - l.sent1 ELSE nb)
      /\ l.start = (IF nb >= m THEN 0 ELSE tx_tail)
  BY DEF Layout
<1> HIDE DEF l, m
<1>3. l.first \in Nat /\ (nb >= m => l.first <= nb)
  BY <1>1, <1>2
<1>4. l.sent1 \in Nat /\ l.sent1 <= l.first
  <2>1. IsFiniteSet(1 .. l.first) /\ Cardinality(1 .. l.first) = l.first
    BY <1>3, UpTo
  <2> QED BY <1>2, <2>1, FS_Subset, FS_CardinalityType
<1>5. l.second \in Nat
  BY <1>2, <1>3, <1>4
<1>6. l.start \in Nat
  BY <1>2, SixteenBits DEF TypeOK
<1> QED BY <1>2, <1>3, <1>4, <1>5, <1>6 DEF l

\* What vtx adds up is a number, whatever it started at.
LEMMA VtxType ==
    ASSUME NEW k \in Nat, NEW g \in Nat, NEW sent
    PROVE  vtx(k, sent, g) \in Nat
<1> DEFINE I == (1 .. k) \X (1 .. k)
           T == {x \in I : x[1] \in sent /\ x[1] <= x[2]}
<1>1. IsFiniteSet(1 .. k)
  BY UpTo
<1>2. IsFiniteSet(I)
  BY <1>1, FS_Product
<1>3. Cardinality(T) \in Nat
  BY <1>2, CountType
<1>4. vtx(k, sent, g) = k * g + Cardinality(T)
  BY DEF vtx
<1> HIDE DEF T
<1> QED BY <1>3, <1>4

\* The types after a burst.
LEMMA BurstType ==
    ASSUME TypeOK, NEW n \in 1 .. MaxBurst, NEW g \in Garbage, NEW sent,
           BurstOf(n, g, sent, Layout(Taken(n), sent))
    PROVE  TypeOK'
<1> DEFINE l    == Layout(Taken(n), sent)
           tail == NewTail(l, sent, g)
<1>0. BurstOf(n, g, sent, l)
  OBVIOUS
<1>n. n \in Nat \ {0} /\ taken \in Nat /\ taken + n <= MaxPackets /\ MaxPackets \in Nat /\ g \in Nat
  BY BoundAssumption DEF BurstOf, TypeOK
<1>1. Taken(n) \in Nat /\ Taken(n) <= n
  <2>1. FreeAfterReclaim \in Nat /\ tx_rs_thresh \in Nat
    BY ReclaimType, SixteenBits, Ring
  <2> QED BY <1>n, <2>1 DEF Taken, Min
<1>2. /\ l.wraps \in BOOLEAN /\ l.first \in Nat /\ l.sent1 \in Nat
      /\ l.second \in Nat /\ l.start \in Nat
  BY <1>1, LayoutType DEF BurstOf
<1> HIDE DEF l
<1>3. Moved(l, sent, g) \in Nat
  BY <1>n, <1>2, VtxType DEF Moved
<1>4. tail \in uint16_t /\ u16(FreeAfterReclaim - Moved(l, sent, g)) \in uint16_t
  <2>1. FreeAfterReclaim \in Nat
    BY ReclaimType, SixteenBits
  <2>2. l.start + Moved(l, sent, g) \in Int /\ FreeAfterReclaim - Moved(l, sent, g) \in Int
    BY <1>2, <1>3, <2>1
  <2> QED BY <2>2, SixteenBits DEF NewTail
<1>5. \A i \in Nat \ {0} : Pkt(n, i) \in Packets \cup {Stray, None}
  BY <1>n DEF Pkt, Packets
<1>6. Handled(l) \subseteq Nat \ {0} /\ IsFiniteSet(Handled(l))
  <2>1. l.first + l.second \in Nat
    BY <1>2
  <2> QED BY <2>1, UpTo DEF Handled
<1>7. sw_ring' \in [Slots -> Packets \cup {Stray, None}]
  <2>1. ASSUME NEW s \in Slots
        PROVE  (IF At(l, s) = {} THEN sw_ring[s] ELSE Pkt(n, CHOOSE i \in At(l, s) : TRUE))
                  \in Packets \cup {Stray, None}
    <3>1. CASE At(l, s) = {}
      BY <3>1 DEF TypeOK
    <3>2. CASE At(l, s) # {}
      <4>1. (CHOOSE i \in At(l, s) : TRUE) \in Handled(l)
        BY <3>2 DEF At
      <4> QED BY <1>5, <1>6, <3>2, <4>1
    <3> QED BY <3>1, <3>2
  <2> QED BY <1>0, <2>1 DEF BurstOf
<1> DEFINE D == [pkt : Packets \cup {Stray, None}, rs : BOOLEAN, dd : BOOLEAN, new : BOOLEAN]
<1>8. tx_ring' \in [Slots -> D]
  <2>1. ASSUME NEW s \in Slots
        PROVE  Desc(n, l, sent, s) \in D /\ [Desc(n, l, sent, s) EXCEPT !.rs = TRUE] \in D
    <3>1. CASE At(l, s) \cap sent = {}
      BY <3>1 DEF TypeOK, Desc
    <3>2. CASE At(l, s) \cap sent # {}
      <4>1. (CHOOSE i \in At(l, s) \cap sent : TRUE) \in Handled(l)
        BY <3>2 DEF At
      <4>2. Pkt(n, CHOOSE i \in At(l, s) \cap sent : TRUE) \in Packets \cup {Stray, None}
        BY <1>5, <1>6, <4>1
      <4> QED BY <1>2, <3>2, <4>2 DEF Desc
    <3> QED BY <3>1, <3>2
  <2> HIDE DEF D
  <2> QED BY <1>0, <2>1 DEF BurstOf
<1>9. tx_next_rs' \in Nat /\ (tx_next_rs' + 1) % tx_rs_thresh = 0
  <2>0. tx_rs_thresh \in Nat \ {0}
    BY Ring
  <2>1. Rs(l) \in Nat /\ (Rs(l) + 1) % tx_rs_thresh = 0
    <3>1. (tx_rs_thresh - 1) + 1 = tx_rs_thresh /\ tx_rs_thresh % tx_rs_thresh = 0
      BY <2>0
    <3>2. CASE Rs(l) = tx_rs_thresh - 1
      BY <2>0, <3>1, <3>2
    <3>3. CASE Rs(l) = tx_next_rs
      BY <3>3 DEF TypeOK
    <3> QED BY <3>2, <3>3 DEF Rs
  <2>2. ((Rs(l) + tx_rs_thresh) + 1) % tx_rs_thresh = 0
    <3> DEFINE x == Rs(l) + 1
    <3>1. x \in Nat /\ x % tx_rs_thresh = 0 /\ (Rs(l) + tx_rs_thresh) + 1 = x + tx_rs_thresh
      BY <2>0, <2>1
    <3> HIDE DEF x
    <3>2. (x + tx_rs_thresh) % tx_rs_thresh = 0
      BY <2>0, <3>1, NextMultiple
    <3> QED BY <3>1, <3>2
  <2>3. tx_next_rs' = Rs(l) \/ tx_next_rs' = Rs(l) + tx_rs_thresh
    BY <1>0 DEF BurstOf
  <2> QED BY <2>0, <2>1, <2>2, <2>3
<1>10. returned' \in [Packets -> Nat]
  <2>1. ASSUME NEW p \in Packets
        PROVE  returned[p] + Back(p)
                  + Cardinality({i \in Handled(l) \ sent : Pkt(n, i) = p}) \in Nat
    <3>1. Cardinality({i \in Handled(l) \ sent : Pkt(n, i) = p}) \in Nat
      BY <1>6, CountType
    <3>2. Back(p) \in Nat
      BY ReclaimType, CountType DEF Back
    <3> QED BY <3>1, <3>2 DEF TypeOK
  <2> QED BY <1>0, <2>1 DEF BurstOf
<1>11. /\ tx_tail' \in uint16_t /\ nb_tx_free' \in uint16_t /\ tdt' = tx_tail'
       /\ tx_next_dd' \in Slots /\ (tx_next_dd' + 1) % tx_rs_thresh = 0
       /\ head' \in Slots /\ logs' \in Nat /\ onWire' \in [Packets -> Nat]
  BY <1>0, <1>4, ReclaimType DEF BurstOf, TypeOK
<1>12. taken' \in 0 .. MaxPackets /\ plain' \in BOOLEAN
  <2>1. taken' = taken + Taken(n) /\ plain' = (plain /\ PlainBurst(Taken(n), l, sent, g))
    BY <1>0 DEF BurstOf
  <2> QED BY <1>n, <1>1, <2>1 DEF TypeOK
<1> QED BY <1>7, <1>8, <1>9, <1>10, <1>11, <1>12 DEF TypeOK

\* The types after the other steps.
LEMMA TypeInit == Init => TypeOK
<1> SUFFICES ASSUME Init PROVE TypeOK
  OBVIOUS
<1>1. /\ tx_tail \in uint16_t /\ nb_tx_free \in uint16_t /\ tdt = tx_tail
  BY Ring, SixteenBits DEF Init
<1>2. /\ tx_next_dd \in Slots /\ (tx_next_dd + 1) % tx_rs_thresh = 0
      /\ tx_next_rs \in Nat /\ (tx_next_rs + 1) % tx_rs_thresh = 0
  <2>1. (tx_rs_thresh - 1) + 1 = tx_rs_thresh /\ tx_rs_thresh % tx_rs_thresh = 0
    BY Ring
  <2>2. tx_rs_thresh - 1 \in Nat /\ tx_rs_thresh - 1 \in Slots
    BY Ring DEF Slots
  <2> QED BY <2>1, <2>2 DEF Init
<1>3. head \in Slots /\ taken \in 0 .. MaxPackets
  BY Ring, BoundAssumption DEF Init, Slots
<1> QED BY <1>1, <1>2, <1>3 DEF Init, TypeOK

\* Every step keeps the types.
LEMMA TypeNext == TypeOK /\ [Next]_vars => TypeOK'
<1> SUFFICES ASSUME TypeOK, [Next]_vars PROVE TypeOK'
  OBVIOUS
<1>1. CASE BurstFull
  <2>1. \A p \in Packets : returned[p] + Back(p) \in Nat
    BY ReclaimType, CountType DEF Back, TypeOK
  <2>2. returned' \in [Packets -> Nat]
    BY <1>1, <2>1 DEF BurstFull, Back
  <2>3. logs' \in Nat
    BY <1>1 DEF BurstFull, TypeOK
  <2> QED BY <1>1, <2>2, <2>3, ReclaimType DEF BurstFull, TypeOK
<1>2. ASSUME NEW n \in 1 .. MaxBurst, Burst(n) PROVE TypeOK'
  BY <1>2, BurstChoices, BurstType
<1>3. CASE Transmit
  <2>1. head' \in Slots
    BY <1>3, Ring DEF Transmit, TypeOK, Slots
  <2>2. onWire' \in [Packets -> Nat]
    BY <1>3 DEF Transmit, TypeOK
  <2>3. tx_ring' \in [Slots -> [pkt : Packets \cup {Stray, None}, rs : BOOLEAN,
                                dd : BOOLEAN, new : BOOLEAN]]
    BY <1>3 DEF Transmit, TypeOK
  <2> QED BY <1>3, <2>1, <2>2, <2>3 DEF Transmit, TypeOK
<1>4. CASE UNCHANGED vars
  BY <1>4 DEF vars, TypeOK
<1> QED BY <1>1, <1>2, <1>3, <1>4 DEF Next

\* Type correctness of the transmit queue.
THEOREM TypeCorrect == Spec => []TypeOK
BY TypeInit, TypeNext, PTL DEF Spec

----------------------------------------------------------------------------
(* The inductive invariant of plain bursts.                                *)

\* The first slot of the group that is reclaimed next.
Base == tx_next_dd - (tx_rs_thresh - 1)

\* The slots that were given to the card.
Written == 0 .. tx_tail - 1

\* Where the pieces of the ring are: reclaimed, sent, queued, unused.
Order ==
    /\ Base <= head /\ head <= tx_tail /\ tx_tail < nb_tx_desc
    /\ nb_tx_free = nb_tx_desc - 1 - (tx_tail - Base)

\* The descriptors that the card has not sent.
Fresh == \A s \in head .. tx_tail - 1 : tx_ring[s].new /\ ~tx_ring[s].dd

\* Both rings agree, and no packet is in two slots.
Slotted ==
    /\ \A s \in Written : tx_ring[s].pkt \in 1 .. taken /\ sw_ring[s] = tx_ring[s].pkt
    /\ \A r, s \in Written : tx_ring[r].pkt = tx_ring[s].pkt => r = s

\* What the position of a packet in the ring says of its buffer.
Accounted ==
    \A p \in Packets :
        /\ p > taken => returned[p] = 0 /\ onWire[p] = 0
        /\ \A s \in Written : tx_ring[s].pkt = p =>
              /\ returned[p] = IF s < Base THEN 1 ELSE 0
              /\ onWire[p] = IF s < head THEN 1 ELSE 0
        /\ p <= taken /\ (\A s \in Written : tx_ring[s].pkt # p) =>
              returned[p] = 1 /\ onWire[p] = 0

PlainInv == plain => Order /\ Fresh /\ Slotted /\ Accounted

----------------------------------------------------------------------------
(* Taking back buffers.                                                    *)

\* Where ixgbe_tx_free_bufs leaves the first slot of the next group.
NewBase == NextDd - (tx_rs_thresh - 1)

\* The numbers of the invariant are integers.
LEMMA Numbers ==
    ASSUME TypeOK
    PROVE  /\ head \in Nat /\ head < nb_tx_desc /\ tx_tail \in Nat /\ taken \in Nat
           /\ tx_next_dd \in Nat /\ tx_next_dd < nb_tx_desc /\ nb_tx_free \in Nat
           /\ Base \in Nat /\ Base + tx_rs_thresh = tx_next_dd + 1
           /\ MaxPackets \in Nat /\ taken <= MaxPackets
BY ReclaimType, Ring, SixteenBits, BoundAssumption DEF TypeOK, Slots, Base

\* Below tx_free_thresh free descriptors the next group has been written, and
\* with DD set it has been sent: what is reclaimed lies before head.
LEMMA ReclaimPlain ==
    ASSUME TypeOK, Order, Fresh
    PROVE  /\ NewBase \in Nat /\ Base <= NewBase /\ NewBase <= head
           /\ FreeAfterReclaim = nb_tx_desc - 1 - (tx_tail - NewBase)
           /\ FreeAfterReclaim \in Nat /\ FreeAfterReclaim < nb_tx_desc
           /\ Reclaimed = Base .. NewBase - 1
<1>0. /\ Base <= head /\ head <= tx_tail /\ tx_tail < nb_tx_desc
      /\ nb_tx_free = nb_tx_desc - 1 - (tx_tail - Base)
  BY DEF Order
<1>1. CASE ~Reclaims
  <2>1. NewBase = Base /\ FreeAfterReclaim = nb_tx_free /\ Reclaimed = {}
    BY <1>1 DEF NewBase, NextDd, Base, FreeAfterReclaim, Reclaimed
  <2>2. Reclaimed = Base .. NewBase - 1
    <3>1. Base .. Base - 1 = {}
      BY Numbers
    <3> QED BY <2>1, <3>1
  <2>3. NewBase \in Nat /\ Base <= NewBase /\ NewBase <= head
    BY <1>0, <2>1, Numbers
  <2>4. nb_tx_free \in Nat /\ nb_tx_free < nb_tx_desc
    BY <1>0, Numbers, Ring
  <2> QED BY <1>0, <2>1, <2>2, <2>3, <2>4
<1>2. CASE Reclaims
  <2>1. nb_tx_free < tx_free_thresh /\ tx_ring[tx_next_dd].dd
    BY <1>2 DEF Reclaims
  <2>2. tx_next_dd < tx_tail
    BY <1>0, <2>1, Numbers, Ring
  <2>3. tx_next_dd < head
    <3>1. ~(tx_next_dd \in head .. tx_tail - 1)
      BY <2>1 DEF Fresh
    <3> QED BY <2>2, <3>1, Numbers
  <2>4. tx_next_dd + tx_rs_thresh < nb_tx_desc
    <3> DEFINE x == tx_next_dd + 1
    <3>1. x \in Nat /\ x % tx_rs_thresh = 0 /\ x < nb_tx_desc
      <4>1. x \in Nat /\ x < nb_tx_desc
        BY <1>0, <2>3, Numbers, Ring
      <4>2. x % tx_rs_thresh = 0
        BY DEF TypeOK
      <4> QED BY <4>1, <4>2
    <3>2. tx_rs_thresh \in Nat \ {0} /\ nb_tx_desc \in Nat /\ nb_tx_desc % tx_rs_thresh = 0
      BY Ring
    <3> HIDE DEF x
    <3>3. x + tx_rs_thresh <= nb_tx_desc
      BY <3>1, <3>2, Apart
    <3> QED BY <3>2, <3>3, Numbers DEF x
  <2>5. NextDd = tx_next_dd + tx_rs_thresh
    BY <1>2, <2>4, Numbers, Ring DEF NextDd
  <2>6. NewBase = tx_next_dd + 1
    BY <2>5, Numbers, Ring DEF NewBase
  <2>7. nb_tx_free + tx_rs_thresh = nb_tx_desc - 1 - (tx_tail - NewBase)
    BY <1>0, <2>6, Numbers, Ring
  <2>8. /\ nb_tx_free + tx_rs_thresh \in Nat /\ nb_tx_free + tx_rs_thresh < nb_tx_desc
        /\ nb_tx_free + tx_rs_thresh < 65536
    BY <1>0, <2>3, <2>6, <2>7, Numbers, Ring
  <2>9. FreeAfterReclaim = nb_tx_free + tx_rs_thresh
    BY <1>2, <2>8, SixteenBits DEF FreeAfterReclaim
  <2>10. Reclaimed = Base .. NewBase - 1
    <3>1. tx_next_dd = NewBase - 1
      BY <2>6, Numbers
    <3>2. Reclaimed = Base .. tx_next_dd
      BY <1>2 DEF Reclaimed, Base
    <3> QED BY <3>1, <3>2
  <2>11. NewBase \in Nat /\ Base <= NewBase /\ NewBase <= head
    BY <2>3, <2>6, Numbers, Ring
  <2> QED BY <2>7, <2>8, <2>9, <2>10, <2>11
<1> QED BY <1>1, <1>2

\* A packet's buffer is given back once by the group its slot is in.
LEMMA BackPlain ==
    ASSUME TypeOK, Order, Fresh, Slotted, NEW p \in Packets
    PROVE  /\ \A s \in Written : tx_ring[s].pkt = p =>
                 Back(p) = IF Base <= s /\ s < NewBase THEN 1 ELSE 0
           /\ (\A s \in Written : tx_ring[s].pkt # p) => Back(p) = 0
<1> DEFINE B == {s \in Reclaimed : sw_ring[s] = p}
<1>0. /\ Base \in Nat /\ NewBase \in Nat /\ NewBase <= tx_tail /\ tx_tail \in Nat
      /\ Reclaimed = Base .. NewBase - 1
  BY ReclaimPlain, Numbers DEF Order
<1>1. Reclaimed \subseteq Written
  BY <1>0 DEF Written
<1>2. B = {s \in Reclaimed : tx_ring[s].pkt = p}
  BY <1>1 DEF Slotted
<1>3. Back(p) = Cardinality(B)
  BY DEF Back
<1> HIDE DEF B
<1>4. ASSUME NEW s \in Written, tx_ring[s].pkt = p
      PROVE  Back(p) = IF Base <= s /\ s < NewBase THEN 1 ELSE 0
  <2>0. s \in Nat
    BY <1>0 DEF Written
  <2>1. \A r \in B : r = s
    BY <1>1, <1>2, <1>4 DEF Slotted
  <2>2. s \in B <=> (Base <= s /\ s < NewBase)
    BY <1>0, <1>2, <1>4, <2>0
  <2>3. CASE s \in B
    <3>1. B = {s}
      BY <2>1, <2>3
    <3> QED BY <1>3, <2>2, <2>3, <3>1, FS_Singleton
  <2>4. CASE s \notin B
    <3>1. B = {}
      BY <2>1, <2>4
    <3> QED BY <1>3, <2>2, <2>4, <3>1, FS_EmptySet
  <2> QED BY <2>3, <2>4
<1>5. ASSUME \A s \in Written : tx_ring[s].pkt # p
      PROVE  Back(p) = 0
  <2>1. B = {}
    BY <1>1, <1>2, <1>5
  <2> QED BY <1>3, <2>1, FS_EmptySet
<1> QED BY <1>4, <1>5

\* The buffers given back so far, with those of this call.
LEMMA BackAccounted ==
    ASSUME TypeOK, Order, Fresh, Slotted, Accounted, NEW p \in Packets
    PROVE  /\ p > taken => returned[p] + Back(p) = 0
           /\ \A s \in Written : tx_ring[s].pkt = p =>
                 returned[p] + Back(p) = IF s < NewBase THEN 1 ELSE 0
           /\ p <= taken /\ (\A s \in Written : tx_ring[s].pkt # p) =>
                 returned[p] + Back(p) = 1
<1>0. /\ Base \in Nat /\ NewBase \in Nat /\ Base <= NewBase /\ taken \in Nat /\ p \in Nat
      /\ tx_tail \in Nat
  BY ReclaimPlain, Numbers DEF Packets
<1>1. ASSUME p > taken PROVE returned[p] + Back(p) = 0
  <2>1. \A s \in Written : tx_ring[s].pkt # p
    BY <1>0, <1>1 DEF Slotted
  <2>2. Back(p) = 0
    BY <2>1, BackPlain
  <2>3. returned[p] = 0
    BY <1>1 DEF Accounted
  <2> QED BY <2>2, <2>3
<1>2. ASSUME NEW s \in Written, tx_ring[s].pkt = p
      PROVE  returned[p] + Back(p) = IF s < NewBase THEN 1 ELSE 0
  <2>1. Back(p) = IF Base <= s /\ s < NewBase THEN 1 ELSE 0
    BY <1>2, BackPlain
  <2>2. returned[p] = IF s < Base THEN 1 ELSE 0
    BY <1>2 DEF Accounted
  <2>3. s \in Nat
    BY <1>0 DEF Written
  <2> QED BY <1>0, <2>1, <2>2, <2>3
<1>3. ASSUME p <= taken, \A s \in Written : tx_ring[s].pkt # p
      PROVE  returned[p] + Back(p) = 1
  <2>1. Back(p) = 0
    BY <1>3, BackPlain
  <2>2. returned[p] = 1
    BY <1>3 DEF Accounted
  <2> QED BY <2>1, <2>2
<1> QED BY <1>1, <1>2, <1>3

----------------------------------------------------------------------------
(* A plain burst: k of its m packets, none or the only one, is admitted.   *)

SameDesc(s) ==
    /\ tx_ring'[s].pkt = tx_ring[s].pkt /\ tx_ring'[s].dd = tx_ring[s].dd
    /\ tx_ring'[s].new = tx_ring[s].new /\ sw_ring'[s] = sw_ring[s]

PlainEffect(k, m) ==
    /\ k \in 0 .. 1 /\ m \in Nat \ {0} /\ (k = 1 => m = 1)
    /\ tx_tail' = tx_tail + k /\ tx_tail + k < nb_tx_desc
    /\ taken' = taken + m /\ head' = head /\ onWire' = onWire /\ tx_next_dd' = NextDd
    /\ nb_tx_free' = FreeAfterReclaim - k
    /\ \A s \in Written : SameDesc(s)
    /\ k = 1 => /\ tx_ring'[tx_tail].pkt = taken + 1 /\ tx_ring'[tx_tail].new
                /\ ~tx_ring'[tx_tail].dd /\ sw_ring'[tx_tail] = taken + 1
    /\ \A p \in Packets : returned'[p] = returned[p] + Back(p)
                            + (IF k = 0 /\ taken < p /\ p <= taken + m THEN 1 ELSE 0)

\* vtx adds up right when it starts at 0 and nothing, or one packet, is sent.
LEMMA VtxPlain ==
    /\ \A m \in Nat : vtx(m, {}, 0) = 0
    /\ vtx(1, {1}, 0) = 1
<1>1. ASSUME NEW m \in Nat PROVE vtx(m, {}, 0) = 0
  <2>1. {x \in (1 .. m) \X (1 .. m) : x[1] \in {} /\ x[1] <= x[2]} = {}
    OBVIOUS
  <2> QED BY <2>1, FS_EmptySet DEF vtx
<1>2. vtx(1, {1}, 0) = 1
  <2> DEFINE T == {x \in (1 .. 1) \X (1 .. 1) : x[1] \in {1} /\ x[1] <= x[2]}
  <2>1. T = {<<1, 1>>}
    OBVIOUS
  <2>2. vtx(1, {1}, 0) = 1 * 0 + Cardinality(T)
    BY DEF vtx
  <2>3. Cardinality(T) = 1
    BY <2>1, FS_Singleton
  <2> HIDE DEF T
  <2> QED BY <2>2, <2>3
<1> QED BY <1>1, <1>2

\* What a burst does that is plain.
LEMMA BurstPlain ==
    ASSUME TypeOK, Order, Fresh, NEW n \in 1 .. MaxBurst, NEW g, NEW sent,
           BurstOf(n, g, sent, Layout(Taken(n), sent)),
           PlainBurst(Taken(n), Layout(Taken(n), sent), sent, g)
    PROVE  \E k \in 0 .. 1 : PlainEffect(k, Taken(n))
<1> DEFINE l == Layout(Taken(n), sent)
           m == Taken(n)
<1>0. BurstOf(n, g, sent, l) /\ ~l.wraps /\ g = 0 /\ (m = 1 \/ sent = {})
  BY DEF PlainBurst
<1>n. /\ n \in Nat /\ taken \in Nat /\ taken + n <= MaxPackets /\ MaxPackets \in Nat
      /\ tx_tail \in Nat /\ tx_tail < nb_tx_desc /\ nb_tx_desc \in Nat
      /\ FreeAfterReclaim \in Nat /\ FreeAfterReclaim < nb_tx_desc /\ nb_tx_desc <= 65535
  BY Numbers, Ring, ReclaimPlain DEF BurstOf
<1>m. m \in Nat \ {0} /\ m <= n /\ m <= FreeAfterReclaim
  BY <1>0, <1>n, Ring DEF BurstOf, Taken, Min
<1>l. /\ l.first = 0 /\ l.second = m /\ l.start = tx_tail /\ m < nb_tx_desc - tx_tail
      /\ l.sent1 = Cardinality(sent \cap 1 .. 0)
  <2> DEFINE d == nb_tx_desc - tx_tail
  <2>1. /\ l.wraps = (m >= d) /\ l.first = (IF m >= d THEN d ELSE 0)
        /\ l.sent1 = Cardinality(sent \cap 1 .. l.first)
        /\ l.second = (IF m >= d THEN m - l.sent1 ELSE m)
        /\ l.start = (IF m >= d THEN 0 ELSE tx_tail)
    BY DEF Layout
  <2>2. d \in Nat
    BY <1>n
  <2> HIDE DEF l, m, d
  <2>3. ~(m >= d)
    <3>1. ~l.wraps /\ l.wraps = (m >= d)
      BY <1>0, <2>1
    <3> QED BY <3>1, Zenon
  <2>4. m < d
    BY <1>m, <2>2, <2>3
  <2> QED BY <2>1, <2>3, <2>4 DEF d
<1> HIDE DEF l, m
<1>1. Handled(l) = 1 .. m
  BY <1>l, <1>m DEF Handled
<1>2. \A i \in 1 .. m : SlotOf(l, i) = tx_tail + i - 1
  BY <1>l, <1>m, <1>n DEF SlotOf
<1>3. l.sent1 = 0
  <2>1. sent \cap 1 .. 0 = {}
    OBVIOUS
  <2> QED BY <1>l, <2>1, FS_EmptySet
<1>4. /\ \A s \in Written : At(l, s) = {}
      /\ At(l, tx_tail) = {1}
  BY <1>1, <1>2, <1>m, <1>n DEF At, Written
<1>5. sent \subseteq 1 .. m
  BY <1>0, <1>1 DEF BurstOf
<1>6. {i - l.first : i \in sent \ (1 .. l.first)} = sent
  <2>1. \A i \in sent : i - 0 = i /\ i \notin 1 .. 0
    BY <1>5, <1>m
  <2> QED BY <1>l, <2>1
<1>7. Moved(l, sent, g) = vtx(m, sent, 0)
  <2>1. vtx(m, sent, 0) \in Nat
    BY <1>m, VtxType
  <2>2. Moved(l, sent, g) = 0 + vtx(m, sent, 0)
    BY <1>0, <1>3, <1>6, <1>l DEF Moved
  <2> QED BY <2>1, <2>2
<1>8. \A s \in Slots : /\ tx_ring'[s].pkt = Desc(n, l, sent, s).pkt
                       /\ tx_ring'[s].dd = Desc(n, l, sent, s).dd
                       /\ tx_ring'[s].new = Desc(n, l, sent, s).new
  <2> SUFFICES ASSUME NEW s \in Slots
               PROVE  /\ tx_ring'[s].pkt = Desc(n, l, sent, s).pkt
                      /\ tx_ring'[s].dd = Desc(n, l, sent, s).dd
                      /\ tx_ring'[s].new = Desc(n, l, sent, s).new
    OBVIOUS
  <2>1. Desc(n, l, sent, s) \in [pkt : {Desc(n, l, sent, s).pkt}, rs : {Desc(n, l, sent, s).rs},
                                 dd : {Desc(n, l, sent, s).dd}, new : {Desc(n, l, sent, s).new}]
    BY DEF Desc, TypeOK
  <2>2. tx_ring'[s] = Desc(n, l, sent, s) \/ tx_ring'[s] = [Desc(n, l, sent, s) EXCEPT !.rs = TRUE]
    BY <1>0 DEF BurstOf
  <2> QED BY <2>1, <2>2
<1>9. Written \subseteq Slots /\ tx_tail \in Slots
  BY <1>n DEF Written, Slots
<1>10. \A s \in Written : SameDesc(s)
  BY <1>0, <1>4, <1>8, <1>9 DEF SameDesc, Desc, BurstOf
<1>c. /\ taken' = taken + m /\ head' = head /\ onWire' = onWire /\ tx_next_dd' = NextDd
      /\ tx_tail' = u16(tx_tail + Moved(l, sent, g))
      /\ nb_tx_free' = u16(FreeAfterReclaim - Moved(l, sent, g))
      /\ \A p \in Packets : returned'[p] = returned[p] + Back(p)
                               + Cardinality({i \in (1 .. m) \ sent : Pkt(n, i) = p})
  BY <1>0, <1>1, <1>l DEF BurstOf, NewTail, m
<1>p. \A i \in 1 .. m : Pkt(n, i) = taken + i
  <2>1. \A i \in 1 .. m : i <= n
    BY <1>m, <1>n
  <2> QED BY <2>1 DEF Pkt
<1>11. CASE sent = {}
  <2>1. Moved(l, sent, g) = 0
    BY <1>7, <1>11, <1>m, VtxPlain
  <2>2. tx_tail' = tx_tail + 0 /\ nb_tx_free' = FreeAfterReclaim - 0
    BY <1>c, <1>n, <2>1, SixteenBits
  <2>3. ASSUME NEW p \in Packets
        PROVE  Cardinality({i \in (1 .. m) \ sent : Pkt(n, i) = p})
                 = IF taken < p /\ p <= taken + m THEN 1 ELSE 0
    <3> DEFINE T == {i \in (1 .. m) \ sent : Pkt(n, i) = p}
    <3>0. p \in Nat
      BY DEF Packets
    <3>1. T = {i \in 1 .. m : taken + i = p}
      BY <1>11, <1>p
    <3> HIDE DEF T
    <3>2. CASE taken < p /\ p <= taken + m
      <4>1. T = {p - taken}
        BY <1>m, <1>n, <3>0, <3>1, <3>2
      <4> QED BY <3>2, <4>1, FS_Singleton DEF T
    <3>3. CASE ~(taken < p /\ p <= taken + m)
      <4>1. T = {}
        BY <1>m, <1>n, <3>0, <3>1, <3>3
      <4> QED BY <3>3, <4>1, FS_EmptySet DEF T
    <3> QED BY <3>2, <3>3
  <2>4. \A p \in Packets : returned'[p] = returned[p] + Back(p)
                            + (IF taken < p /\ p <= taken + m THEN 1 ELSE 0)
    BY <1>c, <2>3
  <2>5. tx_tail + 0 < nb_tx_desc
    BY <1>n
  <2>6. PlainEffect(0, m)
    BY <1>10, <1>c, <1>m, <2>2, <2>4, <2>5 DEF PlainEffect
  <2> QED BY <2>6 DEF m
<1>12. CASE sent # {}
  <2>0. m = 1 /\ sent = {1}
    <3>1. m = 1
      BY <1>0, <1>12
    <3>2. 1 .. 1 = {1}
      OBVIOUS
    <3> QED BY <1>5, <1>12, <3>1, <3>2
  <2>1. Moved(l, sent, g) = 1
    BY <1>7, <2>0, VtxPlain
  <2>2. tx_tail' = tx_tail + 1 /\ nb_tx_free' = FreeAfterReclaim - 1 /\ tx_tail + 1 < nb_tx_desc
    BY <1>c, <1>l, <1>m, <1>n, <2>0, <2>1, SixteenBits
  <2>3. \A p \in Packets : Cardinality({i \in (1 .. m) \ sent : Pkt(n, i) = p}) = 0
    <3>1. \A p \in Packets : {i \in (1 .. m) \ sent : Pkt(n, i) = p} = {}
      BY <2>0
    <3> QED BY <3>1, FS_EmptySet
  <2>4. At(l, tx_tail) \cap sent = {1} /\ (CHOOSE i \in {1} : TRUE) = 1 /\ Pkt(n, 1) = taken + 1
    BY <1>4, <1>p, <2>0
  <2>5. /\ Desc(n, l, sent, tx_tail).pkt = taken + 1 /\ Desc(n, l, sent, tx_tail).new
        /\ ~Desc(n, l, sent, tx_tail).dd
    BY <2>4 DEF Desc
  <2>6. sw_ring'[tx_tail] = taken + 1
    BY <1>0, <1>4, <1>9, <2>4 DEF BurstOf
  <2>7. \A p \in Packets : returned'[p] = returned[p] + Back(p) + 0
    BY <1>c, <2>3
  <2>8. PlainEffect(1, m)
    BY <1>8, <1>9, <1>10, <1>c, <1>m, <1>n, <2>0, <2>2, <2>5, <2>6, <2>7 DEF PlainEffect
  <2> QED BY <2>8 DEF m
<1> QED BY <1>11, <1>12

\* A plain burst keeps the invariant.
LEMMA EffectKeeps ==
    ASSUME TypeOK, Order, Fresh, Slotted, Accounted, NEW k \in 0 .. 1, NEW m, PlainEffect(k, m)
    PROVE  (Order /\ Fresh /\ Slotted /\ Accounted)'
<1>0. /\ m \in Nat \ {0} /\ k \in Nat /\ k <= 1 /\ (k = 1 => m = 1)
      /\ tx_tail' = tx_tail + k /\ tx_tail + k < nb_tx_desc
      /\ taken' = taken + m /\ head' = head /\ onWire' = onWire /\ Base' = NewBase
      /\ nb_tx_free' = FreeAfterReclaim - k
  BY DEF PlainEffect, Base, NewBase
<1>1. /\ tx_tail \in Nat /\ head \in Nat /\ taken \in Nat /\ NewBase \in Nat /\ NewBase <= head
      /\ head <= tx_tail /\ nb_tx_desc \in Nat
      /\ FreeAfterReclaim = nb_tx_desc - 1 - (tx_tail - NewBase)
  BY Numbers, ReclaimPlain, Ring DEF Order
<1>2. \A s \in Written : /\ tx_ring'[s].pkt = tx_ring[s].pkt /\ tx_ring'[s].dd = tx_ring[s].dd
                         /\ tx_ring'[s].new = tx_ring[s].new /\ sw_ring'[s] = sw_ring[s]
  BY DEF PlainEffect, SameDesc
<1>3. k = 1 => /\ tx_ring'[tx_tail].pkt = taken + 1 /\ tx_ring'[tx_tail].new
               /\ ~tx_ring'[tx_tail].dd /\ sw_ring'[tx_tail] = taken + 1
  BY DEF PlainEffect
<1>4. \A s \in Written' : s \in Written \/ (k = 1 /\ s = tx_tail)
  BY <1>0, <1>1 DEF Written
<1>5. Order'
  BY <1>0, <1>1 DEF Order
<1>6. Fresh'
  <2> SUFFICES ASSUME NEW s \in head .. tx_tail' - 1
               PROVE  tx_ring'[s].new /\ ~tx_ring'[s].dd
    BY <1>0 DEF Fresh
  <2>1. CASE s < tx_tail
    <3>1. s \in Written /\ s \in head .. tx_tail - 1
      BY <1>1, <2>1 DEF Written
    <3> QED BY <1>2, <3>1 DEF Fresh
  <2>2. CASE k = 1 /\ s = tx_tail
    BY <1>3, <2>2
  <2> QED BY <1>0, <1>1, <2>1, <2>2
<1>7. ASSUME NEW s \in Written'
      PROVE  tx_ring'[s].pkt \in 1 .. taken' /\ sw_ring'[s] = tx_ring'[s].pkt
  <2>1. CASE s \in Written
    <3>1. tx_ring[s].pkt \in 1 .. taken /\ sw_ring[s] = tx_ring[s].pkt
      BY <2>1 DEF Slotted
    <3> QED BY <1>0, <1>1, <1>2, <2>1, <3>1
  <2>2. CASE k = 1 /\ s = tx_tail
    BY <1>0, <1>1, <1>3, <2>2
  <2> QED BY <1>4, <2>1, <2>2
<1>8. ASSUME NEW r \in Written', NEW s \in Written', tx_ring'[r].pkt = tx_ring'[s].pkt
      PROVE  r = s
  <2>0. \A q \in Written : tx_ring'[q].pkt # taken + 1
    BY <1>1, <1>2 DEF Slotted
  <2>1. CASE r \in Written /\ s \in Written
    BY <1>2, <1>8, <2>1 DEF Slotted
  <2>2. CASE r \in Written /\ k = 1 /\ s = tx_tail
    BY <1>3, <1>8, <2>0, <2>2
  <2>3. CASE s \in Written /\ k = 1 /\ r = tx_tail
    BY <1>3, <1>8, <2>0, <2>3
  <2> QED BY <1>4, <2>1, <2>2, <2>3
<1>9. Slotted'
  BY <1>7, <1>8 DEF Slotted
<1>10. Accounted'
  <2> SUFFICES ASSUME NEW p \in Packets
               PROVE  /\ p > taken' => returned'[p] = 0 /\ onWire'[p] = 0
                      /\ \A s \in Written' : tx_ring'[s].pkt = p =>
                            /\ returned'[p] = IF s < Base' THEN 1 ELSE 0
                            /\ onWire'[p] = IF s < head' THEN 1 ELSE 0
                      /\ p <= taken' /\ (\A s \in Written' : tx_ring'[s].pkt # p) =>
                            returned'[p] = 1 /\ onWire'[p] = 0
    BY DEF Accounted
  <2> DEFINE R == returned[p] + Back(p)
             fresh == k = 0 /\ taken < p /\ p <= taken + m
  <2>1. /\ p > taken => R = 0
        /\ \A s \in Written : tx_ring[s].pkt = p => R = IF s < NewBase THEN 1 ELSE 0
        /\ p <= taken /\ (\A s \in Written : tx_ring[s].pkt # p) => R = 1
    BY BackAccounted
  <2>2. returned'[p] = R + (IF fresh THEN 1 ELSE 0)
    BY DEF PlainEffect
  <2>3. p \in Nat /\ R \in Nat
    BY <1>1, <2>1 DEF Packets
  <2>4. /\ p > taken => onWire[p] = 0
        /\ \A s \in Written : tx_ring[s].pkt = p => onWire[p] = IF s < head THEN 1 ELSE 0
        /\ p <= taken /\ (\A s \in Written : tx_ring[s].pkt # p) => onWire[p] = 0
    BY DEF Accounted
  <2> HIDE DEF R
  <2>5. ASSUME p > taken' PROVE returned'[p] = 0 /\ onWire'[p] = 0
    BY <1>0, <1>1, <2>1, <2>2, <2>3, <2>4, <2>5
  <2>6. ASSUME NEW s \in Written', tx_ring'[s].pkt = p
        PROVE  /\ returned'[p] = IF s < Base' THEN 1 ELSE 0
               /\ onWire'[p] = IF s < head' THEN 1 ELSE 0
    <3>1. CASE s \in Written
      <4>1. tx_ring[s].pkt = p /\ p <= taken
        BY <1>1, <1>2, <2>6, <3>1 DEF Slotted
      <4>2. returned'[p] = R
        BY <1>1, <2>2, <2>3, <4>1
      <4> QED BY <1>0, <2>1, <2>4, <3>1, <4>1, <4>2
    <3>2. CASE k = 1 /\ s = tx_tail
      <4>1. p = taken + 1
        BY <1>3, <2>6, <3>2
      <4>2. R = 0 /\ onWire[p] = 0
        BY <1>1, <2>1, <2>4, <4>1
      <4>3. returned'[p] = 0
        BY <2>2, <3>2, <4>2
      <4>4. ~(s < Base') /\ ~(s < head')
        BY <1>0, <1>1, <3>2
      <4> QED BY <1>0, <4>2, <4>3, <4>4
    <3> QED BY <1>4, <3>1, <3>2
  <2>7. ASSUME p <= taken', \A s \in Written' : tx_ring'[s].pkt # p
        PROVE  returned'[p] = 1 /\ onWire'[p] = 0
    <3>1. Written \subseteq Written'
      BY <1>0, <1>1 DEF Written
    <3>2. \A s \in Written : tx_ring[s].pkt # p
      BY <1>2, <2>7, <3>1
    <3>3. CASE p <= taken
      BY <1>0, <1>1, <2>1, <2>2, <2>3, <2>4, <3>2, <3>3
    <3>4. CASE p > taken
      <4>1. k = 0
        <5>1. SUFFICES ASSUME k = 1 PROVE FALSE
          BY <1>0
        <5>2. p = taken + 1
          BY <1>0, <1>1, <2>3, <2>7, <3>4, <5>1
        <5>3. tx_tail \in Written'
          BY <1>0, <1>1, <5>1 DEF Written
        <5> QED BY <1>3, <2>7, <5>1, <5>2, <5>3
      <4>2. fresh
        BY <1>0, <2>7, <3>4, <4>1
      <4> QED BY <1>0, <2>1, <2>2, <2>4, <3>4, <4>2
    <3> QED BY <1>1, <2>3, <3>3, <3>4
  <2> QED BY <2>5, <2>6, <2>7
<1> QED BY <1>5, <1>6, <1>9, <1>10

\* A full ring: buffers are taken back, nothing else happens.
LEMMA FullKeeps ==
    ASSUME TypeOK, Order, Fresh, Slotted, Accounted, BurstFull
    PROVE  (Order /\ Fresh /\ Slotted /\ Accounted)'
<1>0. /\ UNCHANGED <<tx_tail, tx_ring, sw_ring, head, taken, onWire>>
      /\ nb_tx_free' = FreeAfterReclaim /\ Base' = NewBase
      /\ \A p \in Packets : returned'[p] = returned[p] + Back(p)
  BY DEF BurstFull, Base, NewBase, Back
<1>1. Order'
  BY <1>0, ReclaimPlain DEF Order
<1>2. Fresh' /\ Slotted'
  BY <1>0 DEF Fresh, Slotted, Written
<1>3. Accounted'
  <2>1. Written' = Written
    BY <1>0 DEF Written
  <2> QED BY <1>0, <2>1, BackAccounted DEF Accounted
<1> QED BY <1>1, <1>2, <1>3

\* The card sends one packet of the queue.
LEMMA TransmitKeeps ==
    ASSUME TypeOK, Order, Fresh, Slotted, Accounted, Transmit
    PROVE  (Order /\ Fresh /\ Slotted /\ Accounted)'
<1>0. /\ UNCHANGED <<tx_tail, nb_tx_free, tx_next_dd, sw_ring, taken, returned>>
      /\ head # tx_tail /\ head' = (head + 1) % nb_tx_desc /\ Base' = Base /\ Written' = Written
  BY DEF Transmit, TypeOK, Base, Written
<1>1. /\ tx_tail \in Nat /\ head \in Nat /\ nb_tx_desc \in Nat \ {0} /\ Base \in Nat
      /\ Base <= head /\ head <= tx_tail /\ tx_tail < nb_tx_desc
  BY Numbers, Ring DEF Order
<1>2. head' = head + 1 /\ head < tx_tail
  <2>1. head < tx_tail /\ head + 1 \in Nat /\ head + 1 < nb_tx_desc
    BY <1>0, <1>1
  <2>2. (head + 1) % nb_tx_desc = head + 1
    BY <1>1, <2>1
  <2> QED BY <1>0, <2>1, <2>2
<1>3. Written \subseteq Slots /\ head \in Written /\ \A s \in Written : s \in Nat
  BY <1>1, <1>2 DEF Written, Slots
<1>4. \A s \in Slots : /\ tx_ring'[s].pkt = tx_ring[s].pkt
                       /\ s # head => tx_ring'[s] = tx_ring[s]
  BY DEF Transmit, TypeOK
<1>5. Order'
  BY <1>0, <1>1, <1>2 DEF Order
<1>6. Fresh'
  <2> SUFFICES ASSUME NEW s \in head + 1 .. tx_tail - 1
               PROVE  tx_ring'[s].new /\ ~tx_ring'[s].dd
    BY <1>0, <1>2 DEF Fresh
  <2>1. s \in Slots /\ s # head /\ s \in head .. tx_tail - 1
    BY <1>1 DEF Slots
  <2> QED BY <1>4, <2>1 DEF Fresh
<1>7. Slotted'
  BY <1>0, <1>3, <1>4 DEF Slotted
<1>8. Accounted'
  <2> SUFFICES ASSUME NEW p \in Packets
               PROVE  /\ p > taken => returned[p] = 0 /\ onWire'[p] = 0
                      /\ \A s \in Written : tx_ring[s].pkt = p =>
                            /\ returned[p] = IF s < Base THEN 1 ELSE 0
                            /\ onWire'[p] = IF s < head + 1 THEN 1 ELSE 0
                      /\ p <= taken /\ (\A s \in Written : tx_ring[s].pkt # p) =>
                            returned[p] = 1 /\ onWire'[p] = 0
    BY <1>0, <1>2, <1>3, <1>4 DEF Accounted
  <2>1. onWire'[p] = onWire[p] + (IF tx_ring[head].pkt = p THEN 1 ELSE 0)
    BY DEF Transmit
  <2>2. p > taken => tx_ring[head].pkt # p
    BY <1>3, Numbers DEF Slotted, Packets
  <2>3. p > taken => returned[p] = 0 /\ onWire'[p] = 0
    BY <2>1, <2>2 DEF Accounted
  <2>4. ASSUME NEW s \in Written, tx_ring[s].pkt = p
        PROVE  /\ returned[p] = IF s < Base THEN 1 ELSE 0
               /\ onWire'[p] = IF s < head + 1 THEN 1 ELSE 0
    <3>1. /\ returned[p] = IF s < Base THEN 1 ELSE 0
          /\ onWire[p] = IF s < head THEN 1 ELSE 0
      BY <2>4 DEF Accounted
    <3>2. tx_ring[head].pkt = p <=> s = head
      BY <1>3, <2>4 DEF Slotted
    <3>3. s \in Nat
      BY <1>3
    <3> QED BY <1>1, <2>1, <3>1, <3>2, <3>3
  <2>5. p <= taken /\ (\A s \in Written : tx_ring[s].pkt # p) => returned[p] = 1 /\ onWire'[p] = 0
    BY <1>3, <2>1 DEF Accounted
  <2> QED BY <2>3, <2>4, <2>5
<1> QED BY <1>5, <1>6, <1>7, <1>8

----------------------------------------------------------------------------
(* The theorems.                                                           *)

\* An empty ring.
LEMMA PlainInit == Init => PlainInv
<1> SUFFICES ASSUME Init PROVE Order /\ Fresh /\ Slotted /\ Accounted
  BY DEF PlainInv
<1>1. Base = 0 /\ Written = {} /\ \A p \in Packets : p \in Nat /\ p > 0
  BY Ring DEF Init, Base, Written, Packets
<1>2. Order
  BY <1>1, Ring DEF Init, Order
<1>3. Fresh
  BY DEF Init, Fresh
<1> QED BY <1>1, <1>2, <1>3 DEF Init, Slotted, Accounted

\* Every step keeps the invariant; a burst that is not plain ends its reach.
LEMMA PlainNext == TypeOK /\ PlainInv /\ [Next]_vars => PlainInv'
<1> SUFFICES ASSUME TypeOK, PlainInv, [Next]_vars, plain'
             PROVE  (Order /\ Fresh /\ Slotted /\ Accounted)'
  BY DEF PlainInv
<1>1. CASE BurstFull
  <2>1. plain
    BY <1>1 DEF BurstFull
  <2> QED BY <1>1, <2>1, FullKeeps DEF PlainInv
<1>2. ASSUME NEW n \in 1 .. MaxBurst, Burst(n)
      PROVE  (Order /\ Fresh /\ Slotted /\ Accounted)'
  <2>1. PICK g \in Garbage, sent \in SUBSET (1 .. 2 * tx_rs_thresh) :
          BurstOf(n, g, sent, Layout(Taken(n), sent))
    BY <1>2, BurstChoices
  <2>2. plain /\ PlainBurst(Taken(n), Layout(Taken(n), sent), sent, g)
    BY <2>1 DEF BurstOf
  <2>3. Order /\ Fresh /\ Slotted /\ Accounted
    BY <2>2 DEF PlainInv
  <2>4. PICK k \in 0 .. 1 : PlainEffect(k, Taken(n))
    BY <2>1, <2>2, <2>3, BurstPlain
  <2> QED BY <2>3, <2>4, EffectKeeps
<1>3. CASE Transmit
  <2>1. plain
    BY <1>3 DEF Transmit
  <2> QED BY <1>3, <2>1, TransmitKeeps DEF PlainInv
<1>4. CASE UNCHANGED vars
  BY <1>4 DEF vars, PlainInv, Order, Fresh, Slotted, Accounted, Written, Base
<1> QED BY <1>1, <1>2, <1>3, <1>4 DEF Next

\* The invariant of plain bursts.
LEMMA PlainInductive == Spec => []PlainInv
BY TypeCorrect, PlainInit, PlainNext, PTL DEF Spec

\* What the card still has to send, while the tail has not wrapped.
LEMMA QueuedSlots ==
    ASSUME TypeOK, Order
    PROVE  Queued = head .. tx_tail - 1 /\ tx_tail \in Slots /\ Queued \subseteq Written
<1>1. /\ tx_tail \in Nat /\ head \in Nat /\ nb_tx_desc \in Nat
      /\ head <= tx_tail /\ tx_tail < nb_tx_desc
  BY Numbers, Ring DEF Order
<1>2. Queued = head .. tx_tail - 1
  BY <1>1 DEF Queued, Slots
<1> QED BY <1>1, <1>2 DEF Slots, Written

\* As long as the bursts are plain, nb_tx_free counts the descriptors that are
\* free and the tail marks exactly what was written.
THEOREM CountsCorrect == Spec => []PlainCounts
<1>1. TypeOK /\ PlainInv => PlainCounts
  BY QueuedSlots DEF PlainInv, PlainCounts, TailMarksUsed, Order, Fresh, Base
<1> QED BY <1>1, TypeCorrect, PlainInductive, PTL

\* As long as the bursts are plain, every buffer is given back once, after its
\* packet was sent, and no packet is lost or sent twice.
THEOREM BuffersCorrect == Spec => []PlainBuffers
<1>1. TypeOK /\ PlainInv => PlainBuffers
  <2> SUFFICES ASSUME TypeOK, Order, Fresh, Slotted, Accounted, NEW p \in 1 .. taken
               PROVE  /\ returned[p] <= 1 /\ onWire[p] <= 1
                      /\ \A s \in Queued : tx_ring[s].pkt = p => returned[p] = 0
                      /\ returned[p] + onWire[p] > 0 \/ \E s \in Queued : tx_ring[s].pkt = p
    BY DEF PlainInv, PlainBuffers
  <2>0. /\ p \in Packets /\ p \in Nat /\ p <= taken /\ head \in Nat /\ Base \in Nat /\ Base <= head
        /\ tx_tail \in Nat
    BY Numbers DEF Packets, Order
  <2>1. CASE \A s \in Written : tx_ring[s].pkt # p
    <3>1. returned[p] = 1 /\ onWire[p] = 0
      BY <2>0, <2>1 DEF Accounted
    <3>2. \A s \in Queued : tx_ring[s].pkt # p
      BY <2>1, QueuedSlots
    <3> QED BY <3>1, <3>2
  <2>2. ASSUME NEW s \in Written, tx_ring[s].pkt = p
        PROVE  /\ returned[p] <= 1 /\ onWire[p] <= 1
               /\ \A q \in Queued : tx_ring[q].pkt = p => returned[p] = 0
               /\ returned[p] + onWire[p] > 0 \/ \E q \in Queued : tx_ring[q].pkt = p
    <3>1. /\ returned[p] = IF s < Base THEN 1 ELSE 0
          /\ onWire[p] = IF s < head THEN 1 ELSE 0
      BY <2>0, <2>2 DEF Accounted
    <3>2. s \in Nat /\ s < tx_tail
      BY <2>0 DEF Written
    <3>3. s \in Queued <=> ~(s < head)
      BY <2>0, <3>2, QueuedSlots
    <3>4. \A q \in Queued : tx_ring[q].pkt = p => q = s
      BY <2>2, QueuedSlots DEF Slotted
    <3> QED BY <2>0, <2>2, <3>1, <3>2, <3>3, <3>4
  <2> QED BY <2>1, <2>2
<1> QED BY <1>1, TypeCorrect, PlainInductive, PTL
=============================================================================
