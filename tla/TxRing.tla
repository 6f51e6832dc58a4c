-------------------------------- MODULE TxRing --------------------------------
(***************************************************************************)
(* The transmit queue of the modified ixgbe driver: the ring of            *)
(* descriptors the network card reads, the software ring that remembers    *)
(* which buffer each descriptor sends, and the indices that tie them       *)
(* (ixgbe_xmit_fixed_burst_vec, vtx, ixgbe_tx_free_bufs).                  *)
(*                                                                         *)
(* The buffer emulator drops packets inside a burst: davidis_vtx1 writes   *)
(* the descriptor and returns 1, or frees the buffer and returns 0.  Tail  *)
(* and free count are then moved by what vtx adds up.  vtx adds to a       *)
(* variable it never initialised, so its start value is a choice, and it   *)
(* adds up the running total instead of the verdicts.                      *)
(*                                                                         *)
(* A burst is one step: the card only looks at descriptors before TDT,     *)
(* and TDT is written last.  A burst that finds the tail outside the ring  *)
(* would write outside of it, and is where the model ends.                 *)
(***************************************************************************)
EXTENDS Integers, FiniteSets

CONSTANTS
    nb_tx_desc,     \* length of the ring
    tx_rs_thresh,   \* descriptors between two that report completion
    tx_free_thresh, \* free descriptors below which buffers are reclaimed
    MaxPackets,     \* bound: packets the pipeline sends
    MaxBurst,       \* bound: packets of one burst
    MaxFull,        \* bound: bursts offered to a full ring
    Garbage,        \* the values the uninitialised ret can have in vtx
    None

\* What ixgbe_dev_tx_queue_setup requires of the ring and its thresholds.
ASSUME RingAssumption ==
    /\ nb_tx_desc \in Nat /\ tx_rs_thresh \in Nat \ {0} /\ tx_free_thresh \in Nat
    /\ nb_tx_desc % tx_rs_thresh = 0 /\ tx_rs_thresh <= tx_free_thresh
    /\ tx_rs_thresh + tx_free_thresh <= nb_tx_desc /\ nb_tx_desc < 65536
ASSUME BoundAssumption ==
    /\ MaxPackets \in Nat /\ MaxBurst \in Nat \ {0} /\ MaxFull \in Nat
    /\ Garbage \subseteq Nat /\ None \notin Nat

VARIABLES
    tx_tail, nb_tx_free, tx_next_dd, tx_next_rs,    \* struct ixgbe_tx_queue
    tx_ring,        \* descriptors: packet, RS and DD bits, new since last sent
    sw_ring,        \* the buffer stored for every descriptor
    tdt, head,      \* the tail register, and how far the card has read
    taken,          \* packets the driver has taken from the pipeline
    returned,       \* how often each packet's buffer went back to its pool
    onWire,         \* how often each packet was sent
    logs,           \* log files that were opened and never closed
    plain           \* only plain bursts so far (see PlainBurst)

vars == <<tx_tail, nb_tx_free, tx_next_dd, tx_next_rs, tx_ring, sw_ring, tdt, head,
          taken, returned, onWire, logs, plain>>

Slots   == 0 .. nb_tx_desc - 1
Packets == 1 .. MaxPackets
Stray   == 0                    \* what lies behind the packets of the burst
uint16_t == 0 .. 65535          \* the fields of ixgbe_tx_queue
u16(x)  == x % 65536            \* what a uint16_t keeps
Min(a, b) == IF a < b THEN a ELSE b

\* _ixgbe_reset_tx_queue_vec
Init ==
    /\ tx_tail = 0 /\ nb_tx_free = nb_tx_desc - 1
    /\ tx_next_dd = tx_rs_thresh - 1 /\ tx_next_rs = tx_rs_thresh - 1
    /\ tx_ring = [s \in Slots |-> [pkt |-> None, rs |-> FALSE, dd |-> TRUE, new |-> FALSE]]
    /\ sw_ring = [s \in Slots |-> None]
    /\ tdt = 0 /\ head = 0
    /\ taken = 0
    /\ returned = [p \in Packets |-> 0] /\ onWire = [p \in Packets |-> 0]
    /\ logs = 0 /\ plain = TRUE

----------------------------------------------------------------------------
(* ixgbe_tx_free_bufs                                                      *)

\* Mutant: the DD bit is not looked at.
MutReclaims == nb_tx_free < tx_free_thresh

\* Only below the threshold, and only when the card is done with a whole
\* group of tx_rs_thresh descriptors.
Reclaims == nb_tx_free < tx_free_thresh /\ tx_ring[tx_next_dd].dd

Reclaimed == IF Reclaims THEN tx_next_dd - (tx_rs_thresh - 1) .. tx_next_dd ELSE {}

FreeAfterReclaim ==
    IF Reclaims THEN u16(nb_tx_free + tx_rs_thresh) ELSE nb_tx_free

NextDd ==
    IF ~Reclaims THEN tx_next_dd
    ELSE IF tx_next_dd + tx_rs_thresh >= nb_tx_desc THEN tx_rs_thresh - 1
    ELSE tx_next_dd + tx_rs_thresh

----------------------------------------------------------------------------
(* ixgbe_xmit_fixed_burst_vec                                              *)

\* vtx for k packets of which the ones in sent got a descriptor: every packet
\* adds the running total, which started at g.
vtx(k, sent, g) == k * g + Cardinality({x \in (1 .. k) \X (1 .. k) : x[1] \in sent /\ x[1] <= x[2]})

\* How a burst is laid out: the first packets go to the end of the ring, if
\* they reach it, the others to start, start + 1 and so on.  The number of
\* the others is what is left of nb after the packets SENT before the end.
Layout(nb, sent) ==
    LET n     == nb_tx_desc - tx_tail
        wraps == nb >= n
        first == IF wraps THEN n ELSE 0
        sent1 == Cardinality(sent \cap 1 .. first)
    IN  [wraps |-> wraps, first |-> first, sent1 |-> sent1,
         second |-> IF wraps THEN nb - sent1 ELSE nb,
         start  |-> IF wraps THEN 0 ELSE tx_tail]

SlotOf(l, i) == IF i <= l.first THEN tx_tail + i - 1 ELSE l.start + (i - l.first) - 1

\* Mutant: not the last descriptor of the first group.
MutRs(l) == IF l.wraps THEN tx_rs_thresh ELSE tx_next_rs

\* tx_next_rs after the end of the ring was reached.
Rs(l) == IF l.wraps THEN tx_rs_thresh - 1 ELSE tx_next_rs

\* Mutant: the line marked original, which counts dropped packets too.
MutMoved(l, sent, g) == l.sent1 + l.second

\* The tail and the free count move by everything that was counted.
Moved(l, sent, g) ==
    l.sent1 + vtx(l.second, {i - l.first : i \in sent \ (1 .. l.first)}, g)

NewTail(l, sent, g) == u16(l.start + Moved(l, sent, g))

\* One packet inside the ring, counted right, or nothing sent at all.
PlainBurst(nb, l, sent, g) == ~l.wraps /\ g = 0 /\ (nb = 1 \/ sent = {})

\* The pipeline offers n packets; the ring has no room.
BurstFull ==
    /\ taken < MaxPackets
    /\ tx_tail < nb_tx_desc
    /\ FreeAfterReclaim = 0
    /\ logs < MaxFull
    /\ logs' = logs + 1
    /\ returned' = [p \in Packets |-> returned[p] + Cardinality({s \in Reclaimed : sw_ring[s] = p})]
    /\ nb_tx_free' = FreeAfterReclaim
    /\ tx_next_dd' = NextDd
    /\ UNCHANGED <<tx_tail, tx_next_rs, tx_ring, sw_ring, tdt, head, taken, onWire, plain>>

\* The pipeline offers n packets, nb are taken; the packets with their index
\* in sent are admitted by the buffer emulator, the others handled dropped.
Burst(n) ==
    LET nb      == Min(FreeAfterReclaim, Min(n, tx_rs_thresh))
        pkt(i)  == IF i <= n THEN taken + i ELSE Stray
    IN  /\ taken + n <= MaxPackets
        /\ tx_tail < nb_tx_desc
        /\ nb > 0
        /\ \E g \in Garbage, sent \in SUBSET (1 .. 2 * tx_rs_thresh) :
             LET l       == Layout(nb, sent)
                 handled == 1 .. l.first + l.second
                 at(s)   == {i \in handled : SlotOf(l, i) = s}
                 tail    == NewTail(l, sent, g)
             IN  /\ sent \subseteq handled
                 /\ sw_ring' = [s \in Slots |->
                       IF at(s) = {} THEN sw_ring[s] ELSE pkt(CHOOSE i \in at(s) : TRUE)]
                 /\ tx_ring' = [s \in Slots |->
                       LET new == at(s) \cap sent
                           d   == IF new = {} THEN tx_ring[s]
                                  ELSE [pkt |-> pkt(CHOOSE i \in new : TRUE),
                                        rs |-> l.wraps /\ s = nb_tx_desc - 1,
                                        dd |-> FALSE, new |-> TRUE]
                       IN  IF tail > Rs(l) /\ s = Rs(l) THEN [d EXCEPT !.rs = TRUE] ELSE d]
                 /\ tx_next_rs' = IF tail > Rs(l) THEN Rs(l) + tx_rs_thresh ELSE Rs(l)
                 /\ tx_tail' = tail
                 /\ tdt' = tail
                 /\ nb_tx_free' = u16(FreeAfterReclaim - Moved(l, sent, g))
                 /\ returned' = [p \in Packets |->
                       returned[p] + Cardinality({s \in Reclaimed : sw_ring[s] = p})
                                   + Cardinality({i \in handled \ sent : pkt(i) = p})]
                 /\ plain' = (plain /\ PlainBurst(nb, l, sent, g))
        /\ tx_next_dd' = NextDd
        /\ taken' = taken + nb
        /\ UNCHANGED <<head, onWire, logs>>

----------------------------------------------------------------------------
(* The network card sends the descriptors up to TDT and writes DD back     *)
(* where RS is set.                                                        *)
Transmit ==
    /\ head # tdt /\ tdt < nb_tx_desc
    /\ head' = (head + 1) % nb_tx_desc
    /\ tx_ring' = [tx_ring EXCEPT ![head].new = FALSE,
                                  ![head].dd = @ \/ tx_ring[head].rs]
    /\ onWire' = [p \in Packets |-> onWire[p] + (IF tx_ring[head].pkt = p THEN 1 ELSE 0)]
    /\ UNCHANGED <<tx_tail, nb_tx_free, tx_next_dd, tx_next_rs, sw_ring, tdt,
                   taken, returned, logs, plain>>

Next ==
    \/ BurstFull
    \/ \E n \in 1 .. MaxBurst : Burst(n)
    \/ Transmit

Spec == Init /\ [][Next]_vars

----------------------------------------------------------------------------
(* Properties.                                                             *)

\* The group ixgbe_tx_free_bufs looks at next is always a whole group of the
\* ring, so that it never frees what is outside the software ring.
TypeOK ==
    /\ tx_tail \in uint16_t /\ nb_tx_free \in uint16_t /\ tdt = tx_tail
    /\ tx_next_dd \in Slots /\ (tx_next_dd + 1) % tx_rs_thresh = 0
    /\ tx_next_rs \in Nat /\ (tx_next_rs + 1) % tx_rs_thresh = 0
    /\ tx_ring \in [Slots -> [pkt : Packets \cup {Stray, None}, rs : BOOLEAN,
                              dd : BOOLEAN, new : BOOLEAN]]
    /\ sw_ring \in [Slots -> Packets \cup {Stray, None}]
    /\ head \in Slots /\ taken \in 0 .. MaxPackets /\ logs \in Nat /\ plain \in BOOLEAN
    /\ returned \in [Packets -> Nat] /\ onWire \in [Packets -> Nat]

\* The slots between the card's position and the tail.
Queued == {s \in Slots : IF head <= tx_tail THEN head <= s /\ s < tx_tail
                                            ELSE head <= s \/ s < tx_tail}

\* "the driver MOVES THE TX_TAIL pointer to indicate which descriptors in the
\* ring have been used to transmit packets" (comment in the function): what
\* the card is told to send was written since it was last sent.
TailMarksUsed ==
    tx_tail \in Slots /\ \A s \in Queued : tx_ring[s].new

\* As long as the bursts are plain, "nb_tx_free [is] the number of available
\* transmit (TX) descriptors" and the tail is right.
PlainCounts ==
    plain => /\ TailMarksUsed
             /\ nb_tx_free = nb_tx_desc - 1 - (tx_tail - (tx_next_dd - (tx_rs_thresh - 1)))

\* As long as the bursts are plain, a buffer goes back to its pool at most
\* once, and not before its packet was sent; and no packet is lost: each one
\* taken was dropped, sent, or waits in the ring.
PlainBuffers ==
    plain => \A p \in 1 .. taken :
        /\ returned[p] <= 1 /\ onWire[p] <= 1
        /\ \A s \in Queued : tx_ring[s].pkt = p => returned[p] = 0
        /\ returned[p] + onWire[p] > 0 \/ \E s \in Queued : tx_ring[s].pkt = p
=============================================================================
