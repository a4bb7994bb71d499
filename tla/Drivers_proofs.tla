--------------------------- MODULE Drivers_proofs ---------------------------
(***************************************************************************)
(* What the drivers keep for any size of their rings and any traffic.      *)
(***************************************************************************)
EXTENDS Drivers, SequenceTheorems, FiniteSetTheorems, FunctionTheorems, WellFoundedInduction, TLAPS

-----------------------------------------------------------------------------
(* The ring of Ethernet *)

Numbers    == Nat \ {0}
FrameWords == Numbers \X (0 .. Words)
Before(a, b) == a[1] < b[1] \/ (a[1] = b[1] /\ a[2] < b[2])

RxTypes ==
    /\ ring \in [0 .. RING - 1 -> FrameWords \union {EMPTY, JUNK}] /\ dma \in 0 .. RING - 1
    /\ arriving \in FrameWords
    /\ DOMAIN thread = {"at", "frame", "expected", "gIndex"} /\ thread.gIndex \in 0 .. RING - 1
    /\ delivered \in Seq(Numbers)

\* A word is in the ring once, and came before the one that comes next; what
\* was delivered is no longer there.
WordsOnce ==
    /\ \A i \in 0 .. RING - 1 : ring[i] \in {EMPTY, JUNK} \/ Before(ring[i], arriving)
    /\ \A i, j \in 0 .. RING - 1 : i # j /\ ring[i] = ring[j] => ring[i] \in {EMPTY, JUNK}
    /\ \A d \in DOMAIN delivered : /\ delivered[d] < arriving[1]
                                   /\ \A i \in 0 .. RING - 1 : ring[i] # <<delivered[d], 1>>
    /\ \A i, j \in DOMAIN delivered : i < j => delivered[i] # delivered[j]
    /\ thread.at = "check" => ring[thread.gIndex][1] > 0

\* From place g of ring r on there are n words in the order of the wire, and
\* nothing else.
Unread(r, g, n) ==
    /\ \A k \in 0 .. RING - 1 : r[Cell(g + k)] # EMPTY <=> k < n
    /\ \A k, l \in 0 .. n - 1 : k < l => Before(r[Cell(g + k)], r[Cell(g + l)])

\* They belong to frames behind those of the sequence s.
Behind(r, g, n, s) ==
    \A d \in DOMAIN s, k \in 0 .. n - 1 : r[Cell(g + k)] = JUNK \/ s[d] < r[Cell(g + k)][1]

\* Until the ring is overrun, what is unread starts where the thread reads and
\* ends where the DMA writes.
InOrder ==
    \/ overrun
    \/ /\ \A i, j \in DOMAIN delivered : i < j => delivered[i] < delivered[j]
       /\ \E n \in 0 .. RING : /\ dma = Cell(thread.gIndex + n)
                               /\ Unread(ring, thread.gIndex, n)
                               /\ Behind(ring, thread.gIndex, n, delivered)

RingInv == RxTypes /\ WordsOnce /\ InOrder

\* Whoever has SemEthTransmit owns the buffer; while a frame leaves it, it
\* stays as it is.
Whole(x)   == x = <<x[1], x[2]>> /\ x[1][1] = x[2][1]
Busy       == {s \in Senders : sender[s].at # "idle"}
Leaving(s) == IF sender[s].at = "sending" THEN wire \in {<<>>, <<out[1]>>, out} ELSE Whole(wire)
TransmitInv ==
    /\ DOMAIN sender = Senders
    /\ \A s \in Senders : DOMAIN sender[s] = {"at", "left"}
    /\ Whole(out)
    /\ \/ SemEthTransmit = 1 /\ Busy = {} /\ Whole(wire)
       \/ SemEthTransmit = 0 /\ \E s \in Senders : Busy = {s} /\ Leaving(s)

EthInv == RingInv /\ TransmitInv

-----------------------------------------------------------------------------
(* The frames of Uart *)

Frames == 1 .. FRAME_COUNT
Notes  == ({0, 1} \X Frames) \union {<<2, NoFrame>>}
Handy  == Frames \union {NoFrame}

UartTypes ==
    /\ free \in Seq(Frames) /\ held \in Seq(Frames) /\ sendList \in Seq(Frames) /\ mqueue \in Seq(Notes)
    /\ DOMAIN rx = {"bytes", "length", "current", "check", "sum"} /\ rx.bytes \in Nat /\ rx.current \in Handy
    /\ DOMAIN tx = {"out", "length", "byte"} /\ tx.out \in Handy
    /\ DOMAIN ip = {"at", "frameOut"} /\ ip.frameOut \in Handy
    /\ DOMAIN app = {"at", "frame", "sends"} /\ app.frame \in Handy
    /\ app.at = "insert" <=> app.frame # NoFrame

\* How many entries of q behind place i are in S, and whether x is.
Count(q, S, i) == Cardinality({ j \in i + 1 .. Len(q) : q[j] \in S })
In(x, S)       == IF x \in S THEN 1 ELSE 0

\* Of any set of frames, each is in one place.
Places(S) == Count(free, S, 0) + Count(held, S, 0) + Count(sendList, S, 0) + Count(mqueue, {0} \X S, 0)
             + In(rx.current, S) + In(ip.frameOut, S) + In(app.frame, S)
EachOnce  == \A S \in SUBSET Frames : Places(S) = Cardinality(S)

\* In the queue q there is at most one message of a frame that was sent: of the
\* one the IP thread waits for, when the UART is done with it.
SentIn(q, going, id) ==
    /\ going # NoFrame => going = id
    /\ \A i \in DOMAIN q : q[i][1] = 1 => q[i][2] = id /\ going = NoFrame
    /\ \A i, j \in DOMAIN q : q[i][1] = 1 /\ q[j][1] = 1 => i = j
SentOnce == SentIn(mqueue, tx.out, ip.frameOut)

\* A frame that waits is announced once, and one announcement may be late: its
\* frame was taken on another occasion.
Ready(q, i) == Count(q, {<<2, NoFrame>>}, i)
AnnouncedIn(q, told, waiting, id) ==
    /\ Ready(q, 0) + told <= waiting + In(id, Frames) + 1
    /\ \A i \in DOMAIN q : q[i][1] = 1 => Ready(q, i) + told <= waiting + 1
Told      == IF app.at = "tell" THEN 1 ELSE 0
Waiting   == Count(sendList, Frames, 0)
Announced == AnnouncedIn(mqueue, Told, Waiting, ip.frameOut)

UartInv == UartTypes /\ EachOnce /\ SentOnce /\ Announced

-----------------------------------------------------------------------------
(* Places of the ring *)

(* The place k after place g.                                                *)
LEMMA CellSum ==
  ASSUME NEW g \in 0 .. RING - 1, NEW k \in 0 .. RING
  PROVE  Cell(g + k) = IF g + k < RING THEN g + k ELSE g + k - RING
<1>1. RING \in Nat \ {0}
    BY EthernetAssumption
<1>2. \A x \in 0 .. RING - 1 : x % RING = x
    BY <1>1
<1>3. \A x \in RING .. 2 * RING - 1 : x % RING = x - RING
    BY <1>1
<1>4. QED
    BY <1>1, <1>2, <1>3 DEF Cell

(* How far place i is behind place g.                                        *)
LEMMA CellDistance ==
  ASSUME NEW g \in 0 .. RING - 1, NEW i \in 0 .. RING - 1
  PROVE  /\ Cell(i - g) = IF i >= g THEN i - g ELSE i - g + RING
         /\ Cell(i - g) \in 0 .. RING - 1 /\ i = Cell(g + Cell(i - g))
<1>1. RING \in Nat \ {0}
    BY EthernetAssumption
<1>2. \A x \in 0 .. RING - 1 : x % RING = x
    BY <1>1
<1>3. \A x \in -RING .. -1 : x % RING = x + RING
    BY <1>1
<1>4. Cell(i - g) = IF i >= g THEN i - g ELSE i - g + RING
    BY <1>1, <1>2, <1>3 DEF Cell
<1>5. Cell(i - g) \in 0 .. RING - 1
    BY <1>1, <1>4
<1>6. QED
    BY <1>1, <1>4, <1>5, CellSum

(* Every place is a distance behind g, and no two are the same.              *)
LEMMA CellPlace ==
  ASSUME NEW g \in 0 .. RING - 1, NEW k \in 0 .. RING - 1
  PROVE  Cell(g + k) \in 0 .. RING - 1 /\ Cell(Cell(g + k) - g) = k
<1>1. RING \in Nat \ {0}
    BY EthernetAssumption
<1>2. Cell(g + k) = IF g + k < RING THEN g + k ELSE g + k - RING
    BY <1>1, CellSum
<1>3. Cell(g + k) \in 0 .. RING - 1
    BY <1>1, <1>2
<1> DEFINE i == Cell(g + k)
<1> HIDE DEF i
<1>4. i = (IF g + k < RING THEN g + k ELSE g + k - RING) /\ i \in 0 .. RING - 1
    BY <1>2, <1>3 DEF i
<1>5. Cell(i - g) = IF i >= g THEN i - g ELSE i - g + RING
    BY <1>4, CellDistance
<1>6. Cell(i - g) = k
    BY <1>1, <1>4, <1>5
<1>7. QED
    BY <1>3, <1>6 DEF i

(* Erasing the first m of n words.                                           *)
LEMMA EraseShifts ==
  ASSUME NEW r, NEW g \in 0 .. RING - 1, NEW n \in 0 .. RING, NEW m \in 0 .. n,
         NEW e, \A i \in 0 .. RING - 1 : e[i] = IF Cell(i - g) < m THEN EMPTY ELSE r[i],
         Unread(r, g, n)
  PROVE  /\ Cell(g + m) \in 0 .. RING - 1 /\ Cell(Cell(g + m) + (n - m)) = Cell(g + n)
         /\ Unread(e, Cell(g + m), n - m)
         /\ \A k \in 0 .. (n - m) - 1 : e[Cell(Cell(g + m) + k)] = r[Cell(g + (m + k))]
<1>1. RING \in Nat \ {0}
    BY EthernetAssumption
<1> DEFINE h == Cell(g + m)
<1>2. h = IF g + m < RING THEN g + m ELSE g + m - RING
    BY <1>1, CellSum
<1>3. h \in 0 .. RING - 1
    BY <1>1, <1>2
<1>4. Cell(h + (n - m)) = Cell(g + n)
  <2>1. n - m \in 0 .. RING
      BY <1>1
  <2> HIDE DEF h
  <2>2. Cell(h + (n - m)) = IF h + (n - m) < RING THEN h + (n - m) ELSE h + (n - m) - RING
      BY <1>3, <2>1, CellSum
  <2>3. Cell(g + n) = IF g + n < RING THEN g + n ELSE g + n - RING
      BY CellSum
  <2>4. h + (n - m) < RING <=> (g + n < RING \/ (g + n >= RING /\ g + m >= RING))
      BY <1>1, <1>2
  <2>5. QED
      BY <1>1, <1>2, <2>2, <2>3, <2>4
<1> HIDE DEF h
<1>5. ASSUME NEW k \in 0 .. RING - 1, m + k < RING
      PROVE  Cell(h + k) = Cell(g + (m + k)) /\ e[Cell(h + k)] = r[Cell(g + (m + k))]
  <2> DEFINE d == m + k
  <2>1. d \in 0 .. RING - 1 /\ d \in 0 .. RING /\ d = m + k /\ ~(d < m)
      BY <1>1, <1>5
  <2> HIDE DEF d
  <2>2. Cell(g + d) = IF g + d < RING THEN g + d ELSE g + d - RING
      BY <1>1, <2>1, CellSum
  <2>3. Cell(h + k) = IF h + k < RING THEN h + k ELSE h + k - RING
      BY <1>1, <1>3, CellSum
  <2>4. Cell(h + k) = Cell(g + d)
      BY <1>1, <1>2, <1>5, <2>1, <2>2, <2>3
  <2>5. Cell(g + d) \in 0 .. RING - 1 /\ Cell(Cell(g + d) - g) = d
      BY <2>1, CellPlace
  <2>6. e[Cell(g + d)] = r[Cell(g + d)]
      BY <2>1, <2>5
  <2>7. QED
      BY <2>4, <2>6 DEF d
<1>6. ASSUME NEW k \in 0 .. RING - 1, m + k >= RING
      PROVE  e[Cell(h + k)] = EMPTY
  <2> DEFINE d == m + k - RING
  <2>1. d \in 0 .. RING - 1 /\ d \in 0 .. RING /\ d < m /\ d = m + k - RING
      BY <1>1, <1>6
  <2> HIDE DEF d
  <2>2. Cell(g + d) = IF g + d < RING THEN g + d ELSE g + d - RING
      BY <1>1, <2>1, CellSum
  <2>3. Cell(h + k) = IF h + k < RING THEN h + k ELSE h + k - RING
      BY <1>1, <1>3, CellSum
  <2>4. Cell(h + k) = Cell(g + d)
      BY <1>1, <1>2, <1>6, <2>1, <2>2, <2>3
  <2>5. Cell(g + d) \in 0 .. RING - 1 /\ Cell(Cell(g + d) - g) = d
      BY <2>1, CellPlace
  <2>6. QED
      BY <2>1, <2>4, <2>5
<1>7. \A k \in 0 .. RING - 1 : e[Cell(h + k)] # EMPTY <=> k < n - m
  <2> SUFFICES ASSUME NEW k \in 0 .. RING - 1
               PROVE  e[Cell(h + k)] # EMPTY <=> k < n - m
      OBVIOUS
  <2>1. CASE m + k < RING
    <3>1. m + k \in 0 .. RING - 1 /\ (m + k < n <=> k < n - m)
        BY <1>1, <2>1
    <3>2. r[Cell(g + (m + k))] # EMPTY <=> m + k < n
        BY <3>1 DEF Unread
    <3>3. QED
        BY <1>5, <2>1, <3>1, <3>2
  <2>2. CASE m + k >= RING
    <3>1. ~(k < n - m)
        BY <1>1, <2>2
    <3>2. QED
        BY <1>6, <2>2, <3>1
  <2>3. QED
      BY <1>1, <2>1, <2>2
<1>8. \A k \in 0 .. (n - m) - 1 : e[Cell(h + k)] = r[Cell(g + (m + k))] /\ m + k \in 0 .. n - 1
  <2> SUFFICES ASSUME NEW k \in 0 .. (n - m) - 1
               PROVE  e[Cell(h + k)] = r[Cell(g + (m + k))] /\ m + k \in 0 .. n - 1
      OBVIOUS
  <2>1. k \in 0 .. RING - 1 /\ m + k < RING /\ m + k \in 0 .. n - 1
      BY <1>1
  <2>2. QED
      BY <1>5, <2>1
<1>9. \A k, l \in 0 .. (n - m) - 1 : k < l => Before(e[Cell(h + k)], e[Cell(h + l)])
  <2> SUFFICES ASSUME NEW k \in 0 .. (n - m) - 1, NEW l \in 0 .. (n - m) - 1, k < l
               PROVE  Before(e[Cell(h + k)], e[Cell(h + l)])
      OBVIOUS
  <2>1. m + k < m + l /\ m + k \in 0 .. n - 1 /\ m + l \in 0 .. n - 1
      BY <1>1, <1>8
  <2>2. Before(r[Cell(g + (m + k))], r[Cell(g + (m + l))])
      BY <2>1 DEF Unread
  <2>3. QED
      BY <1>8, <2>2
<1>10. Unread(e, h, n - m)
    BY <1>7, <1>9 DEF Unread
<1>11. QED
    BY <1>3, <1>4, <1>8, <1>10 DEF h

-----------------------------------------------------------------------------
(* The receive ring *)

(* Nothing has come, and the thread has read nothing.                       *)
LEMMA InitRing ==
  ASSUME NEW t \in Traffic, EthInit(t)
  PROVE  RingInv
<1>1. RING \in Nat \ {0} /\ Words \in Nat \ {0} /\ t.first \in Numbers
    BY EthernetAssumption DEF Numbers
<1>2. /\ ring = [i \in 0..RING - 1 |-> EMPTY] /\ dma = 0 /\ delivered = <<>> /\ arriving = <<t.first, 0>>
      /\ thread = [at |-> "wait", frame |-> FALSE, expected |-> FALSE, gIndex |-> 0]
    BY DEF EthInit
<1>3. 0 \in 0 .. RING - 1 /\ 0 \in 0 .. RING /\ 0 \in 0 .. Words
    BY <1>1
<1>4. RxTypes
    BY <1>1, <1>2, <1>3 DEF RxTypes, FrameWords
<1>5. WordsOnce
    BY <1>2 DEF WordsOnce
<1>6. InOrder
  <2>1. Cell(0 + 0) = 0
      BY <1>1, <1>3, CellSum
  <2>2. \A k \in 0 .. RING - 1 : Cell(0 + k) \in 0 .. RING - 1
      BY <1>3, CellPlace
  <2>3. Unread(ring, 0, 0)
    <3>1. \A k \in 0 .. RING - 1 : ring[Cell(0 + k)] = EMPTY /\ ~(k < 0)
        BY <1>1, <1>2, <2>2
    <3>2. 0 .. 0 - 1 = {}
        OBVIOUS
    <3>3. QED
        BY <3>1, <3>2 DEF Unread
  <2>4. Behind(ring, 0, 0, delivered)
      BY <1>2 DEF Behind
  <2>5. QED
      BY <1>2, <1>3, <2>1, <2>3, <2>4 DEF InOrder
<1>7. QED
    BY <1>4, <1>5, <1>6 DEF RingInv

(* The order of the wire.                                                    *)
LEMMA WireOrder ==
  ASSUME NEW a \in FrameWords, NEW b \in FrameWords
  PROVE  /\ a = <<a[1], a[2]>> /\ a[1] \in Nat \ {0} /\ a[2] \in 0 .. Words
         /\ ~Before(a, a) /\ a # EMPTY /\ a # JUNK
         /\ Before(EMPTY, a) /\ Before(JUNK, a)
BY DEF FrameWords, Numbers, Before, EMPTY, JUNK

(* A word comes over the wire.                                               *)
LEMMA ArriveRing ==
  ASSUME RingInv, Arrive
  PROVE  RingInv'
<1>1. /\ arriving[1] <= Incoming /\ ring' = [ring EXCEPT ![dma] = arriving] /\ dma' = Cell(dma + 1)
      /\ overrun' = (overrun \/ ring[dma] # EMPTY)
      /\ arriving' = IF arriving[2] = Words THEN <<arriving[1] + 1, 0>> ELSE <<arriving[1], arriving[2] + 1>>
      /\ thread' = thread /\ delivered' = delivered
    BY DEF Arrive
<1>2. RxTypes /\ WordsOnce /\ InOrder
    BY DEF RingInv
<1>3. RING \in Nat \ {0} /\ Words \in Nat \ {0}
    BY EthernetAssumption
<1>4. arriving \in FrameWords /\ dma \in 0 .. RING - 1 /\ thread.gIndex \in 0 .. RING - 1
      /\ ring \in [0 .. RING - 1 -> FrameWords \union {EMPTY, JUNK}]
    BY <1>2 DEF RxTypes
<1>5. arriving = <<arriving[1], arriving[2]>> /\ arriving[1] \in Nat \ {0} /\ arriving[2] \in 0 .. Words
    BY <1>4, WireOrder
<1>6. arriving' \in FrameWords
    BY <1>1, <1>3, <1>5 DEF FrameWords, Numbers
<1>7. Before(arriving, arriving')
    BY <1>1, <1>3, <1>5 DEF Before
<1>8. \A i \in 0 .. RING - 1 : Before(ring[i], arriving) => Before(ring[i], arriving')
  <2> SUFFICES ASSUME NEW i \in 0 .. RING - 1, Before(ring[i], arriving)
               PROVE  Before(ring[i], arriving')
      OBVIOUS
  <2>1. ring[i][1] \in Nat /\ ring[i][2] \in Nat
      BY <1>3, <1>4 DEF FrameWords, Numbers, EMPTY, JUNK
  <2>2. QED
      BY <1>1, <1>3, <1>5, <2>1 DEF Before
<1>9. RxTypes'
  <2>1. Cell(dma + 1) \in 0 .. RING - 1
    <3>1. 1 \in 0 .. RING
        BY <1>3
    <3>2. Cell(dma + 1) = IF dma + 1 < RING THEN dma + 1 ELSE dma + 1 - RING
        BY <1>4, <3>1, CellSum
    <3>3. QED
        BY <1>3, <1>4, <3>2
  <2>2. QED
      BY <1>1, <1>2, <1>4, <1>6, <2>1 DEF RxTypes
<1>10. WordsOnce'
  <2>1. \A i \in 0 .. RING - 1 : ring'[i] = IF i = dma THEN arriving ELSE ring[i]
      BY <1>1, <1>4
  <2>2. \A i \in 0 .. RING - 1 : ring'[i] \in {EMPTY, JUNK} \/ Before(ring'[i], arriving')
      BY <1>2, <1>7, <1>8, <2>1 DEF WordsOnce
  <2>3. \A i \in 0 .. RING - 1 : ring[i] # arriving
      BY <1>2, <1>4, WireOrder DEF WordsOnce
  <2>4. \A i, j \in 0 .. RING - 1 : i # j /\ ring'[i] = ring'[j] => ring'[i] \in {EMPTY, JUNK}
      BY <1>2, <2>1, <2>3 DEF WordsOnce
  <2>5. ASSUME NEW d \in DOMAIN delivered
        PROVE  delivered[d] < arriving'[1] /\ \A i \in 0 .. RING - 1 : ring'[i] # <<delivered[d], 1>>
    <3>1. delivered[d] < arriving[1] /\ \A i \in 0 .. RING - 1 : ring[i] # <<delivered[d], 1>>
        BY <1>2 DEF WordsOnce
    <3>2. delivered[d] \in Nat
        BY <1>2 DEF RxTypes, Numbers
    <3>3. arriving # <<delivered[d], 1>>
        BY <1>5, <3>1, <3>2
    <3>4. delivered[d] < arriving'[1]
        BY <1>1, <1>5, <3>1, <3>2
    <3>5. QED
        BY <2>1, <3>1, <3>3, <3>4
  <2>6. thread.at = "check" => ring'[thread.gIndex][1] > 0
      BY <1>2, <1>4, <1>5, <2>1 DEF WordsOnce
  <2>7. QED
      BY <1>1, <1>2, <2>2, <2>4, <2>5, <2>6 DEF WordsOnce
<1>11. InOrder'
  <2>1. CASE overrun'
      BY <2>1 DEF InOrder
  <2>2. CASE ~overrun'
    <3> DEFINE g == thread.gIndex
    <3>1. ~overrun /\ ring[dma] = EMPTY
        BY <1>1, <2>2
    <3>2. PICK n \in 0 .. RING : dma = Cell(g + n) /\ Unread(ring, g, n) /\ Behind(ring, g, n, delivered)
        BY <1>2, <3>1 DEF InOrder
    <3> HIDE DEF g
    <3>3. g \in 0 .. RING - 1
        BY <1>4 DEF g
    <3>4. n < RING
      <4> SUFFICES ASSUME n = RING
                   PROVE  FALSE
          BY <1>3
      <4>1. Cell(g + n) = g /\ Cell(g + 0) = g
        <5>1. n \in 0 .. RING /\ 0 \in 0 .. RING
            BY <1>3
        <5>2. /\ Cell(g + n) = (IF g + n < RING THEN g + n ELSE g + n - RING)
              /\ Cell(g + 0) = (IF g + 0 < RING THEN g + 0 ELSE g + 0 - RING)
            BY <3>3, <5>1, CellSum
        <5>3. QED
            BY <1>3, <3>3, <5>2
      <4>2. 0 \in 0 .. RING - 1 /\ 0 < n
          BY <1>3
      <4>3. ring[Cell(g + 0)] # EMPTY
          BY <3>2, <4>2 DEF Unread
      <4>4. QED
          BY <3>1, <3>2, <4>1, <4>3
    <3>5. n + 1 \in 0 .. RING /\ n \in 0 .. RING - 1 /\ (n + 1) - 1 = n
        BY <1>3, <3>4
    <3>6. \A k \in 0 .. RING - 1 : Cell(g + k) \in 0 .. RING - 1 /\ (Cell(g + k) = dma <=> k = n)
      <4>1. Cell(g + n) \in 0 .. RING - 1 /\ Cell(Cell(g + n) - g) = n
          BY <3>3, <3>5, CellPlace
      <4>2. \A k \in 0 .. RING - 1 : Cell(g + k) \in 0 .. RING - 1 /\ Cell(Cell(g + k) - g) = k
          BY <3>3, CellPlace
      <4>3. QED
          BY <3>2, <4>1, <4>2
    <3>7. \A k \in 0 .. RING - 1 : ring'[Cell(g + k)] = IF k = n THEN arriving ELSE ring[Cell(g + k)]
        BY <1>1, <1>4, <3>6
    <3>8. Unread(ring', g, n + 1)
      <4>1. \A k \in 0 .. RING - 1 : ring'[Cell(g + k)] # EMPTY <=> k < n + 1
        <5> SUFFICES ASSUME NEW k \in 0 .. RING - 1
                     PROVE  ring'[Cell(g + k)] # EMPTY <=> k < n + 1
            OBVIOUS
        <5>1. ring[Cell(g + k)] # EMPTY <=> k < n
            BY <3>2 DEF Unread
        <5>2. k < n + 1 <=> k < n \/ k = n
            BY <3>5
        <5>3. arriving # EMPTY
            BY <1>4, WireOrder
        <5>4. QED
            BY <3>7, <5>1, <5>2, <5>3
      <4>2. ASSUME NEW k \in 0 .. (n + 1) - 1, NEW l \in 0 .. (n + 1) - 1, k < l
            PROVE  Before(ring'[Cell(g + k)], ring'[Cell(g + l)])
        <5>1. k \in 0 .. RING - 1 /\ l \in 0 .. RING - 1 /\ k # n /\ k \in 0 .. n - 1
            BY <1>3, <3>5, <4>2
        <5>2. ring'[Cell(g + k)] = ring[Cell(g + k)] /\ Cell(g + k) \in 0 .. RING - 1
            BY <3>6, <3>7, <5>1
        <5>3. CASE l = n
          <6>1. ring'[Cell(g + l)] = arriving
              BY <3>7, <5>1, <5>3
          <6>2. ring[Cell(g + k)] \in {EMPTY, JUNK} \/ Before(ring[Cell(g + k)], arriving)
              BY <1>2, <5>2 DEF WordsOnce
          <6>3. QED
              BY <1>4, <5>2, <6>1, <6>2, WireOrder
        <5>4. CASE l # n
          <6>1. l \in 0 .. n - 1
              BY <3>5, <5>4
          <6>2. ring'[Cell(g + l)] = ring[Cell(g + l)]
              BY <3>7, <5>1, <5>4
          <6>3. QED
              BY <3>2, <4>2, <5>1, <5>2, <6>1, <6>2 DEF Unread
        <5>5. QED
            BY <5>3, <5>4
      <4>3. QED
          BY <4>1, <4>2 DEF Unread
    <3>9. Behind(ring', g, n + 1, delivered)
      <4> SUFFICES ASSUME NEW d \in DOMAIN delivered, NEW k \in 0 .. (n + 1) - 1
                   PROVE  ring'[Cell(g + k)] = JUNK \/ delivered[d] < ring'[Cell(g + k)][1]
          BY DEF Behind
      <4>1. k \in 0 .. RING - 1 /\ (k = n \/ k \in 0 .. n - 1)
          BY <1>3, <3>5
      <4>2. CASE k = n
        <5>1. ring'[Cell(g + k)] = arriving
            BY <3>7, <4>1, <4>2
        <5>2. QED
            BY <1>2, <5>1 DEF WordsOnce
      <4>3. CASE k # n
        <5>1. ring'[Cell(g + k)] = ring[Cell(g + k)] /\ k \in 0 .. n - 1
            BY <3>7, <4>1, <4>3
        <5>2. QED
            BY <3>2, <5>1 DEF Behind
      <4>4. QED
          BY <4>2, <4>3
    <3>10. Cell(dma + 1) = Cell(g + (n + 1))
      <4>1. 1 \in 0 .. RING
          BY <1>3
      <4>2. /\ Cell(dma + 1) = (IF dma + 1 < RING THEN dma + 1 ELSE dma + 1 - RING)
            /\ Cell(g + n) = (IF g + n < RING THEN g + n ELSE g + n - RING)
          BY <1>4, <3>3, <4>1, CellSum
      <4> DEFINE m == n + 1
      <4>3. m \in 0 .. RING /\ m = n + 1
          BY <3>5
      <4> HIDE DEF m
      <4>4. Cell(g + m) = (IF g + m < RING THEN g + m ELSE g + m - RING)
          BY <3>3, <4>3, CellSum
      <4>5. Cell(dma + 1) = Cell(g + m)
          BY <1>3, <3>2, <3>3, <3>4, <4>2, <4>3, <4>4
      <4>6. QED
          BY <4>5 DEF m
    <3>11. thread'.gIndex = g /\ (\A i, j \in DOMAIN delivered : i < j => delivered[i] < delivered[j])
        BY <1>1, <1>2, <3>1 DEF g, InOrder
    <3>12. QED
        BY <1>1, <3>5, <3>8, <3>9, <3>10, <3>11 DEF InOrder
  <2>3. QED
      BY <2>1, <2>2
<1>12. QED
    BY <1>9, <1>10, <1>11 DEF RingInv

(* A step that leaves the ring and the place where it is read.               *)
LEMMA CalmRing ==
  ASSUME RingInv, UNCHANGED <<ring, dma, arriving, delivered, overrun>>,
         DOMAIN thread' = DOMAIN thread, thread'.gIndex = thread.gIndex,
         thread'.at = "check" => thread.at = "check"
  PROVE  RingInv'
<1>1. RxTypes /\ WordsOnce /\ InOrder
    BY DEF RingInv
<1>2. RxTypes'
    BY <1>1 DEF RxTypes
<1>3. WordsOnce'
    BY <1>1 DEF WordsOnce
<1>4. InOrder'
    BY <1>1 DEF InOrder
<1>5. QED
    BY <1>2, <1>3, <1>4 DEF RingInv

(* Nearest chooses one of a set of distances.                                *)
LEMMA NearestIsOne ==
  ASSUME NEW T \in SUBSET (0 .. RING - 1), T # {}
  PROVE  Nearest(T) \in T
<1>1. T \subseteq Nat
    BY EthernetAssumption
<1>2. IsWellFoundedOn(OpToRel(<, Nat), Nat)
    BY NatLessThanWellFounded
<1>3. OpToRel(<, Nat) = {ss \in Nat \X Nat : ss[1] < ss[2]}
    BY DEF OpToRel
<1>4. PICK x \in T : \A y \in T : ~(<<y, x>> \in OpToRel(<, Nat))
    BY <1>1, <1>2, WFMin
<1>5. \A y \in T : ~(<<y, x>> \in {ss \in Nat \X Nat : ss[1] < ss[2]})
    BY <1>3, <1>4
<1>6. \A y \in T : x \in Nat /\ y \in Nat /\ ~(y < x)
    BY <1>1, <1>4, <1>5
<1>7. \A y \in T : x <= y
    BY <1>6
<1>8. QED
    BY <1>7 DEF Nearest

(* Erasing words keeps what is left where it was.                            *)
LEMMA ErasedRing ==
  ASSUME RxTypes, WordsOnce, NEW g \in 0 .. RING - 1, NEW m \in Nat
  PROVE  LET e == Erased(g, m)
         IN  /\ e \in [0 .. RING - 1 -> FrameWords \union {EMPTY, JUNK}]
             /\ \A i \in 0 .. RING - 1 : e[i] = EMPTY \/ e[i] = ring[i]
             /\ \A i \in 0 .. RING - 1 : Cell(i - g) < m => e[i] = EMPTY
             /\ \A i \in 0 .. RING - 1 : e[i] \in {EMPTY, JUNK} \/ Before(e[i], arriving)
             /\ \A i, j \in 0 .. RING - 1 : i # j /\ e[i] = e[j] => e[i] \in {EMPTY, JUNK}
<1> DEFINE e == Erased(g, m)
<1>1. e = [i \in 0 .. RING - 1 |-> IF Cell(i - g) < m THEN EMPTY ELSE ring[i]]
    BY DEF Erased
<1> HIDE DEF e
<1>2. ring \in [0 .. RING - 1 -> FrameWords \union {EMPTY, JUNK}]
    BY DEF RxTypes
<1>3. /\ \A i \in 0 .. RING - 1 : e[i] = EMPTY \/ e[i] = ring[i]
      /\ \A i \in 0 .. RING - 1 : Cell(i - g) < m => e[i] = EMPTY
    BY <1>1
<1>4. e \in [0 .. RING - 1 -> FrameWords \union {EMPTY, JUNK}]
    BY <1>1, <1>2
<1>5. \A i \in 0 .. RING - 1 : e[i] \in {EMPTY, JUNK} \/ Before(e[i], arriving)
    BY <1>3 DEF WordsOnce
<1>6. \A i, j \in 0 .. RING - 1 : i # j /\ e[i] = e[j] => e[i] \in {EMPTY, JUNK}
    BY <1>3 DEF WordsOnce
<1>7. QED
    BY <1>3, <1>4, <1>5, <1>6 DEF e

(* EthernetReceive finds a start.                                            *)
LEMMA FindRing ==
  ASSUME RingInv, ReceiveFind
  PROVE  RingInv'
<1>1. RxTypes /\ WordsOnce /\ InOrder
    BY DEF RingInv
<1>2. RING \in Nat \ {0}
    BY EthernetAssumption
<1>3. UNCHANGED <<dma, arriving, delivered, overrun>>
    BY DEF ReceiveFind
<1>4. DOMAIN thread = {"at", "frame", "expected", "gIndex"} /\ thread.gIndex \in 0 .. RING - 1
    BY <1>1 DEF RxTypes
<1>5. CASE Found = {}
  <2>1. ring' = ring /\ thread' = [thread EXCEPT !.at = "wait"]
      BY <1>5 DEF ReceiveFind, Goto
  <2>2. QED
      BY <1>3, <1>4, <2>1, CalmRing
<1>6. CASE Found # {}
  <2> DEFINE m == Nearest(Found)
             g == thread.gIndex
  <2>1. ring' = Erased(g, m) /\ thread' = [thread EXCEPT !.at = "check", !.gIndex = Cell(@ + m)]
      BY <1>6 DEF ReceiveFind
  <2>2. m \in Found
      BY <1>6, NearestIsOne DEF Found, Starts
  <2>3. m \in 0 .. RING - 1 /\ ring[Cell(g + m)][1] > 0
      BY <2>2 DEF Found, Starts, IsStart, Ahead
  <2> HIDE DEF m, g
  <2>4. g \in 0 .. RING - 1 /\ thread.gIndex = g
      BY <1>4 DEF g
  <2>5. Cell(g + m) \in 0 .. RING - 1 /\ Cell(Cell(g + m) - g) = m
      BY <2>3, <2>4, CellPlace
  <2>6. thread'.gIndex = Cell(g + m) /\ DOMAIN thread' = DOMAIN thread
      BY <1>4, <2>1, <2>4
  <2>7. m \in Nat /\ m <= RING
      BY <1>2, <2>3
  <2> DEFINE e == Erased(g, m)
  <2>8. /\ e \in [0 .. RING - 1 -> FrameWords \union {EMPTY, JUNK}]
        /\ \A i \in 0 .. RING - 1 : e[i] = EMPTY \/ e[i] = ring[i]
        /\ \A i \in 0 .. RING - 1 : e[i] \in {EMPTY, JUNK} \/ Before(e[i], arriving)
        /\ \A i, j \in 0 .. RING - 1 : i # j /\ e[i] = e[j] => e[i] \in {EMPTY, JUNK}
      BY <1>1, <2>4, <2>7, ErasedRing
  <2>9. \A i \in 0 .. RING - 1 : e[i] = IF Cell(i - g) < m THEN EMPTY ELSE ring[i]
      BY DEF Erased
  <2> HIDE DEF e
  <2>10. ring' = e
      BY <2>1 DEF e
  <2>11. RxTypes'
      BY <1>1, <1>3, <1>4, <2>5, <2>6, <2>8, <2>10 DEF RxTypes
  <2>12. WordsOnce'
    <3>1. ring'[thread'.gIndex][1] > 0
        BY <1>2, <2>3, <2>5, <2>6, <2>7, <2>9, <2>10
    <3>2. \A d \in DOMAIN delivered : \A i \in 0 .. RING - 1 : ring'[i] # <<delivered[d], 1>>
      <4>1. \A d \in DOMAIN delivered : <<delivered[d], 1>> # EMPTY
          BY <1>1 DEF RxTypes, EMPTY, Numbers
      <4>2. QED
          BY <1>1, <2>8, <2>10, <4>1 DEF WordsOnce
    <3>3. QED
        BY <1>1, <1>3, <2>8, <2>10, <3>1, <3>2 DEF WordsOnce
  <2>13. InOrder'
    <3>1. CASE overrun
        BY <1>3, <3>1 DEF InOrder
    <3>2. CASE ~overrun
      <4>1. PICK n \in 0 .. RING : dma = Cell(g + n) /\ Unread(ring, g, n) /\ Behind(ring, g, n, delivered)
          BY <1>1, <2>4, <3>2 DEF InOrder
      <4>2. ring[Cell(g + m)] # EMPTY
          BY <2>3 DEF EMPTY
      <4>3. m < n
          BY <2>3, <4>1, <4>2 DEF Unread
      <4>4. m \in 0 .. n /\ n - m \in 0 .. RING
          BY <1>2, <2>3, <4>3
      <4>5. /\ Cell(Cell(g + m) + (n - m)) = Cell(g + n)
            /\ Unread(e, Cell(g + m), n - m)
            /\ \A k \in 0 .. (n - m) - 1 : e[Cell(Cell(g + m) + k)] = ring[Cell(g + (m + k))]
          BY <2>4, <2>9, <4>1, <4>4, EraseShifts
      <4>6. Behind(e, Cell(g + m), n - m, delivered)
        <5> SUFFICES ASSUME NEW d \in DOMAIN delivered, NEW k \in 0 .. (n - m) - 1
                     PROVE  e[Cell(Cell(g + m) + k)] = JUNK \/ delivered[d] < e[Cell(Cell(g + m) + k)][1]
            BY DEF Behind
        <5>1. m + k \in 0 .. n - 1
            BY <1>2, <2>3, <4>4
        <5>2. ring[Cell(g + (m + k))] = JUNK \/ delivered[d] < ring[Cell(g + (m + k))][1]
            BY <4>1, <5>1 DEF Behind
        <5>3. QED
            BY <4>5, <5>2
      <4>7. \A i, j \in DOMAIN delivered : i < j => delivered[i] < delivered[j]
          BY <1>1, <3>2 DEF InOrder
      <4>8. QED
          BY <1>3, <2>6, <2>10, <4>1, <4>4, <4>5, <4>6, <4>7 DEF InOrder
    <3>3. QED
        BY <3>1, <3>2
  <2>14. QED
      BY <2>11, <2>12, <2>13 DEF RingInv
<1>7. QED
    BY <1>5, <1>6

(* A frame that is there whole is delivered.                                 *)
LEMMA DeliverRing ==
  ASSUME RingInv, thread.at = "check", IsComplete, Deliver, UNCHANGED <<dma, arriving, overrun>>
  PROVE  RingInv'
<1>1. RxTypes /\ WordsOnce /\ InOrder
    BY DEF RingInv
<1>2. RING \in Nat \ {0} /\ Words \in Nat \ {0}
    BY EthernetAssumption
<1> DEFINE g == thread.gIndex
           f == ring[g][1]
           e == Erased(g, Words)
<1>3. g \in 0 .. RING - 1 /\ DOMAIN thread = {"at", "frame", "expected", "gIndex"}
      /\ ring \in [0 .. RING - 1 -> FrameWords \union {EMPTY, JUNK}] /\ delivered \in Seq(Numbers)
    BY <1>1 DEF RxTypes
<1>4. delivered' = Append(delivered, f) /\ ring' = e
    BY DEF Deliver, Consumed
<1>5. thread'.gIndex = Cell(g + Words) /\ DOMAIN thread' = DOMAIN thread /\ thread'.at = "frame"
    BY <1>3 DEF Deliver, Ahead
<1>6. \A k \in 1 .. Words : ring[Cell(g + (k - 1))] = <<f, k>>
    BY DEF IsComplete, Ahead
<1>7. f \in Numbers
    BY <1>1, <1>3 DEF WordsOnce, FrameWords, EMPTY, JUNK
<1> HIDE DEF g, f, e
<1>8. \A k \in 0 .. Words - 1 : ring[Cell(g + k)] = <<f, k + 1>>
  <2> SUFFICES ASSUME NEW k \in 0 .. Words - 1
               PROVE  ring[Cell(g + k)] = <<f, k + 1>>
      OBVIOUS
  <2> DEFINE l == k + 1
  <2>1. l \in 1 .. Words /\ l - 1 = k
      BY <1>2
  <2> HIDE DEF l
  <2>2. ring[Cell(g + (l - 1))] = <<f, l>>
      BY <1>6, <2>1
  <2>3. QED
      BY <2>1, <2>2 DEF l
<1>9. Cell(g + 0) = g
  <2>1. 0 \in 0 .. RING
      BY <1>2
  <2>2. Cell(g + 0) = (IF g + 0 < RING THEN g + 0 ELSE g + 0 - RING)
      BY <1>3, <2>1, CellSum
  <2>3. QED
      BY <1>2, <1>3, <2>2
<1>10. ring[g] = <<f, 1>> /\ Cell(g - g) = 0
  <2>1. 0 \in 0 .. Words - 1 /\ 0 + 1 = 1
      BY <1>2
  <2>2. ring[Cell(g + 0)] = <<f, 0 + 1>>
      BY <1>8, <2>1
  <2>3. Cell(g - g) = (IF g >= g THEN g - g ELSE g - g + RING)
      BY <1>3, CellDistance
  <2>4. g >= g /\ g - g = 0
      BY <1>3
  <2>5. QED
      BY <1>9, <2>1, <2>2, <2>3, <2>4
<1>11. f < arriving[1]
  <2> DEFINE k == Words - 1
             i == Cell(g + k)
  <2>1. k \in 0 .. Words - 1 /\ k \in Nat /\ k + 1 = Words
      BY <1>2
  <2> HIDE DEF k
  <2>2. ring[i] = <<f, Words>>
      BY <1>8, <2>1
  <2>3. i \in 0 .. RING - 1
    <3>1. g + k \in Nat
        BY <1>3, <2>1
    <3>2. \A x \in Nat : x % RING \in 0 .. RING - 1
        BY <1>2
    <3>3. QED
        BY <3>1, <3>2 DEF Cell
  <2> HIDE DEF i
  <2>4. <<f, Words>> # EMPTY /\ <<f, Words>> # JUNK
      BY <1>7 DEF Numbers, EMPTY, JUNK
  <2>5. Before(<<f, Words>>, arriving)
      BY <1>1, <2>2, <2>3, <2>4 DEF WordsOnce
  <2>6. arriving[1] \in Nat /\ arriving[2] \in 0 .. Words
      BY <1>1, WireOrder DEF RxTypes
  <2>7. QED
      BY <1>2, <1>7, <2>5, <2>6 DEF Before, Numbers
<1>12. /\ e \in [0 .. RING - 1 -> FrameWords \union {EMPTY, JUNK}]
       /\ \A i \in 0 .. RING - 1 : e[i] = EMPTY \/ e[i] = ring[i]
       /\ \A i \in 0 .. RING - 1 : Cell(i - g) < Words => e[i] = EMPTY
       /\ \A i \in 0 .. RING - 1 : e[i] \in {EMPTY, JUNK} \/ Before(e[i], arriving)
       /\ \A i, j \in 0 .. RING - 1 : i # j /\ e[i] = e[j] => e[i] \in {EMPTY, JUNK}
  <2>1. Words \in Nat
      BY <1>2
  <2>2. QED
      BY <1>1, <1>3, <2>1, ErasedRing DEF e
<1>13. \A i \in 0 .. RING - 1 : e[i] = IF Cell(i - g) < Words THEN EMPTY ELSE ring[i]
    BY DEF e, Erased
<1>14. \A d \in DOMAIN delivered : delivered[d] # f /\ delivered[d] \in Nat
  <2>1. \A d \in DOMAIN delivered : ring[g] # <<delivered[d], 1>>
      BY <1>1, <1>3 DEF WordsOnce
  <2>2. QED
      BY <1>3, <1>10, <2>1 DEF Numbers
<1> DEFINE s == Append(delivered, f)
<1>15. /\ s \in Seq(Numbers) /\ DOMAIN s = 1 .. Len(delivered) + 1 /\ Len(delivered) \in Nat
       /\ DOMAIN delivered = 1 .. Len(delivered)
       /\ \A d \in DOMAIN delivered : s[d] = delivered[d]
       /\ s[Len(delivered) + 1] = f
    BY <1>3, <1>7
<1> HIDE DEF s
<1>16. \A d \in DOMAIN s : (d \in DOMAIN delivered /\ s[d] = delivered[d])
                           \/ (d = Len(delivered) + 1 /\ s[d] = f)
    BY <1>15
<1>17. delivered' = s
    BY <1>4 DEF s
<1>18. RxTypes'
  <2>1. Cell(g + Words) \in 0 .. RING - 1
    <3>1. g + Words \in Nat
        BY <1>2, <1>3
    <3>2. \A x \in Nat : x % RING \in 0 .. RING - 1
        BY <1>2
    <3>3. QED
        BY <3>1, <3>2 DEF Cell
  <2>2. QED
      BY <1>1, <1>3, <1>4, <1>5, <1>12, <1>15, <1>17, <2>1 DEF RxTypes
<1>19. WordsOnce'
  <2>1. ASSUME NEW d \in DOMAIN s
        PROVE  s[d] < arriving[1] /\ \A i \in 0 .. RING - 1 : e[i] # <<s[d], 1>>
    <3>1. CASE d \in DOMAIN delivered /\ s[d] = delivered[d]
      <4>1. delivered[d] < arriving[1] /\ \A i \in 0 .. RING - 1 : ring[i] # <<delivered[d], 1>>
          BY <1>1, <3>1 DEF WordsOnce
      <4>2. EMPTY # <<delivered[d], 1>>
          BY DEF EMPTY
      <4>3. QED
          BY <1>12, <3>1, <4>1, <4>2
    <3>2. CASE s[d] = f
      <4> SUFFICES ASSUME NEW i \in 0 .. RING - 1
                   PROVE  e[i] # <<f, 1>>
          BY <1>11, <3>2
      <4>1. EMPTY # <<f, 1>> /\ JUNK # <<f, 1>>
          BY <1>7 DEF EMPTY, JUNK, Numbers
      <4>2. CASE i = g
          BY <1>2, <1>10, <1>13, <4>1, <4>2
      <4>3. CASE i # g
        <5>1. ring[i] # <<f, 1>>
            BY <1>1, <1>3, <1>10, <4>1, <4>3 DEF WordsOnce
        <5>2. QED
            BY <1>12, <4>1, <5>1
      <4>4. QED
          BY <4>2, <4>3
    <3>3. QED
        BY <1>16, <3>1, <3>2
  <2>2. ASSUME NEW i \in DOMAIN s, NEW j \in DOMAIN s, i < j
        PROVE  s[i] # s[j]
    <3>1. i \in DOMAIN delivered /\ s[i] = delivered[i]
        BY <1>15, <2>2
    <3>2. QED
        BY <1>1, <1>14, <1>16, <2>2, <3>1 DEF WordsOnce
  <2>3. QED
      BY <1>4, <1>5, <1>12, <1>17, <2>1, <2>2 DEF WordsOnce
<1>20. InOrder'
  <2>1. CASE overrun
      BY <2>1 DEF InOrder
  <2>2. CASE ~overrun
    <3>1. PICK n \in 0 .. RING : dma = Cell(g + n) /\ Unread(ring, g, n) /\ Behind(ring, g, n, delivered)
        BY <1>1, <2>2 DEF InOrder, g
    <3>2. \A i, j \in DOMAIN delivered : i < j => delivered[i] < delivered[j]
        BY <1>1, <2>2 DEF InOrder
    <3>3. Words <= n
      <4> SUFFICES ASSUME n < Words
                   PROVE  FALSE
          BY <1>2
      <4>1. n \in 0 .. Words - 1
          BY <1>2
      <4>2. ring[Cell(g + n)] = <<f, n + 1>>
          BY <1>8, <4>1
      <4>3. CASE n < RING
        <5>1. n \in 0 .. RING - 1 /\ ~(n < n)
            BY <1>2, <4>3
        <5>2. ring[Cell(g + n)] = EMPTY
            BY <3>1, <5>1 DEF Unread
        <5>3. QED
            BY <1>7, <4>2, <5>2 DEF EMPTY, Numbers
      <4>4. CASE n = RING
        <5>1. Cell(g + n) = (IF g + n < RING THEN g + n ELSE g + n - RING)
            BY <1>3, CellSum
        <5>2. Cell(g + n) = g
            BY <1>2, <1>3, <4>4, <5>1
        <5>3. <<f, n + 1>>[2] = <<f, 1>>[2]
            BY <1>10, <4>2, <5>2
        <5>4. n + 1 = 1
            BY <5>3
        <5>5. QED
            BY <1>2, <4>4, <5>4
      <4>5. QED
          BY <1>2, <4>3, <4>4
    <3>4. Words \in 0 .. n /\ n - Words \in 0 .. RING /\ n \in Nat
        BY <1>2, <3>3
    <3>5. /\ Cell(Cell(g + Words) + (n - Words)) = Cell(g + n)
          /\ Unread(e, Cell(g + Words), n - Words)
          /\ \A k \in 0 .. (n - Words) - 1 : e[Cell(Cell(g + Words) + k)] = ring[Cell(g + (Words + k))]
      <4> DEFINE m == Words
      <4>1. m \in 0 .. n /\ n \in 0 .. RING /\ g \in 0 .. RING - 1 /\ Unread(ring, g, n)
          BY <1>3, <3>1, <3>4
      <4>2. \A i \in 0 .. RING - 1 : e[i] = IF Cell(i - g) < m THEN EMPTY ELSE ring[i]
          BY <1>13
      <4> HIDE DEF m
      <4>3. /\ Cell(Cell(g + m) + (n - m)) = Cell(g + n)
            /\ Unread(e, Cell(g + m), n - m)
            /\ \A k \in 0 .. (n - m) - 1 : e[Cell(Cell(g + m) + k)] = ring[Cell(g + (m + k))]
          BY <4>1, <4>2, EraseShifts
      <4>4. QED
          BY <4>3 DEF m
    <3>6. \A d \in DOMAIN delivered : delivered[d] < f
      <4>1. 0 \in 0 .. n - 1
          BY <1>2, <3>3, <3>4
      <4>2. ring[Cell(g + 0)] = <<f, 1>> /\ <<f, 1>> # JUNK
          BY <1>7, <1>9, <1>10 DEF JUNK, Numbers
      <4>3. <<f, 1>>[1] = f
          OBVIOUS
      <4> DEFINE w == ring[Cell(g + 0)]
                 k == 0
      <4>4. k \in 0 .. n - 1 /\ w = ring[Cell(g + k)]
          BY <4>1
      <4>5. w = <<f, 1>> /\ w # JUNK
          BY <4>2
      <4> HIDE DEF w, k
      <4>6. \A d \in DOMAIN delivered : w = JUNK \/ delivered[d] < w[1]
          BY <3>1, <4>4 DEF Behind
      <4>7. w[1] = f
          BY <4>3, <4>5
      <4>8. QED
          BY <4>5, <4>6, <4>7
    <3>7. Behind(e, Cell(g + Words), n - Words, s)
      <4> SUFFICES ASSUME NEW d \in DOMAIN s, NEW k \in 0 .. (n - Words) - 1
                   PROVE  e[Cell(Cell(g + Words) + k)] = JUNK \/ s[d] < e[Cell(Cell(g + Words) + k)][1]
          BY DEF Behind
      <4> DEFINE l == Words + k
                 w == ring[Cell(g + l)]
      <4>1. l \in 0 .. n - 1 /\ Words - 1 < l /\ l \in 0 .. RING - 1
          BY <1>2, <3>4
      <4>2. e[Cell(Cell(g + Words) + k)] = w
          BY <3>5
      <4> HIDE DEF l, w
      <4>3. Words - 1 \in 0 .. Words - 1 /\ Words - 1 \in 0 .. n - 1 /\ (Words - 1) + 1 = Words
          BY <1>2, <3>4
      <4>4. ring[Cell(g + (Words - 1))] = <<f, Words>>
          BY <1>8, <4>3
      <4>5. Before(ring[Cell(g + (Words - 1))], w)
        <5> DEFINE m == Words - 1
        <5>1. m \in 0 .. n - 1 /\ m < l
            BY <4>1, <4>3
        <5> HIDE DEF m
        <5>2. Before(ring[Cell(g + m)], ring[Cell(g + l)])
            BY <3>1, <4>1, <5>1 DEF Unread
        <5>3. QED
            BY <5>2 DEF m, w
      <4>6. Before(<<f, Words>>, w)
          BY <4>4, <4>5
      <4>7. w \in FrameWords \union {EMPTY, JUNK}
          BY <1>3, <4>1, CellPlace DEF w
      <4>8. f < w[1]
          BY <1>2, <1>7, <4>6, <4>7 DEF Before, FrameWords, Numbers, EMPTY, JUNK
      <4>9. s[d] = f \/ (s[d] < f /\ s[d] \in Nat)
          BY <1>14, <1>16, <3>6
      <4>10. f \in Nat /\ w[1] \in Nat
          BY <1>7, <4>7 DEF FrameWords, Numbers, EMPTY, JUNK
      <4>11. s[d] < w[1]
          BY <4>8, <4>9, <4>10
      <4>12. QED
          BY <4>2, <4>11
    <3>8. \A i, j \in DOMAIN s : i < j => s[i] < s[j]
      <4> SUFFICES ASSUME NEW i \in DOMAIN s, NEW j \in DOMAIN s, i < j
                   PROVE  s[i] < s[j]
          OBVIOUS
      <4>1. i \in DOMAIN delivered /\ s[i] = delivered[i]
          BY <1>15
      <4>2. QED
          BY <1>16, <3>2, <3>6, <4>1
    <3>9. QED
        BY <1>4, <1>5, <1>17, <3>1, <3>4, <3>5, <3>7, <3>8 DEF InOrder
  <2>3. QED
      BY <2>1, <2>2
<1>21. QED
    BY <1>18, <1>19, <1>20 DEF RingInv

(* The start of a frame that is not complete is spoilt.                      *)
LEMMA GiveUpRing ==
  ASSUME RingInv, thread.at = "check", GiveUp, UNCHANGED <<dma, arriving, overrun>>
  PROVE  RingInv'
<1>1. RxTypes /\ WordsOnce /\ InOrder
    BY DEF RingInv
<1>2. RING \in Nat \ {0}
    BY EthernetAssumption
<1> DEFINE g == thread.gIndex
<1>3. g \in 0 .. RING - 1 /\ DOMAIN thread = {"at", "frame", "expected", "gIndex"}
      /\ ring \in [0 .. RING - 1 -> FrameWords \union {EMPTY, JUNK}]
    BY <1>1 DEF RxTypes
<1>4. /\ ring' = [ring EXCEPT ![g] = JUNK] /\ thread'.gIndex = g /\ DOMAIN thread' = DOMAIN thread
      /\ thread'.at = "frame" /\ delivered' = delivered
    BY <1>3 DEF GiveUp, Goto
<1> HIDE DEF g
<1>5. \A i \in 0 .. RING - 1 : ring'[i] = IF i = g THEN JUNK ELSE ring[i]
    BY <1>3, <1>4
<1>6. RxTypes'
    BY <1>1, <1>3, <1>4 DEF RxTypes
<1>7. WordsOnce'
  <2>1. \A d \in DOMAIN delivered : JUNK # <<delivered[d], 1>>
      BY <1>1 DEF RxTypes, Numbers, JUNK
  <2>2. \A i \in 0 .. RING - 1 : ring'[i] = JUNK \/ ring'[i] = ring[i]
      BY <1>5
  <2>3. \A i \in 0 .. RING - 1 : ring'[i] \in {EMPTY, JUNK} \/ Before(ring'[i], arriving)
      BY <1>1, <2>2 DEF WordsOnce
  <2>4. ASSUME NEW i \in 0 .. RING - 1, NEW j \in 0 .. RING - 1, i # j, ring'[i] = ring'[j]
        PROVE  ring'[i] \in {EMPTY, JUNK}
    <3>1. CASE ring'[i] = ring[i] /\ ring'[j] = ring[j]
        BY <1>1, <2>4, <3>1 DEF WordsOnce
    <3>2. QED
        BY <2>2, <2>4, <3>1
  <2>5. ASSUME NEW d \in DOMAIN delivered
        PROVE  delivered[d] < arriving[1] /\ \A i \in 0 .. RING - 1 : ring'[i] # <<delivered[d], 1>>
    <3>1. delivered[d] < arriving[1] /\ \A i \in 0 .. RING - 1 : ring[i] # <<delivered[d], 1>>
        BY <1>1 DEF WordsOnce
    <3>2. QED
        BY <2>1, <2>2, <3>1
  <2>6. \A i, j \in DOMAIN delivered : i < j => delivered[i] # delivered[j]
      BY <1>1 DEF WordsOnce
  <2>7. QED
      BY <1>4, <2>3, <2>4, <2>5, <2>6 DEF WordsOnce
<1>8. InOrder'
  <2>1. CASE overrun
      BY <2>1 DEF InOrder
  <2>2. CASE ~overrun
    <3>1. PICK n \in 0 .. RING : dma = Cell(g + n) /\ Unread(ring, g, n) /\ Behind(ring, g, n, delivered)
        BY <1>1, <2>2 DEF InOrder, g
    <3>2. \A i, j \in DOMAIN delivered : i < j => delivered[i] < delivered[j]
        BY <1>1, <2>2 DEF InOrder
    <3>3. \A k \in 0 .. RING - 1 : Cell(g + k) \in 0 .. RING - 1 /\ (Cell(g + k) = g <=> k = 0)
      <4>1. \A k \in 0 .. RING - 1 : Cell(g + k) \in 0 .. RING - 1 /\ Cell(Cell(g + k) - g) = k
          BY <1>3, CellPlace
      <4>2. Cell(g + 0) = (IF g + 0 < RING THEN g + 0 ELSE g + 0 - RING)
        <5>1. 0 \in 0 .. RING
            BY <1>2
        <5>2. QED
            BY <1>3, <5>1, CellSum
      <4>3. Cell(g + 0) = g /\ 0 \in 0 .. RING - 1
          BY <1>2, <1>3, <4>2
      <4>4. QED
          BY <4>1, <4>3
    <3>4. \A k \in 0 .. RING - 1 : ring'[Cell(g + k)] = IF k = 0 THEN JUNK ELSE ring[Cell(g + k)]
        BY <1>5, <3>3
    <3>5. ring[g][1] > 0
        BY <1>1 DEF WordsOnce, g
    <3>6. ring[Cell(g + 0)] = ring[g] /\ ring[g] # EMPTY /\ 0 \in 0 .. RING - 1 /\ JUNK # EMPTY
        BY <1>2, <3>3, <3>5 DEF EMPTY, JUNK
    <3>7. Unread(ring', g, n)
      <4>1. 0 < n
          BY <3>1, <3>6 DEF Unread
      <4>2. \A k \in 0 .. RING - 1 : ring'[Cell(g + k)] # EMPTY <=> k < n
          BY <3>1, <3>4, <3>6, <4>1 DEF Unread
      <4>3. ASSUME NEW k \in 0 .. n - 1, NEW l \in 0 .. n - 1, k < l
            PROVE  Before(ring'[Cell(g + k)], ring'[Cell(g + l)])
        <5>1. k \in 0 .. RING - 1 /\ l \in 0 .. RING - 1 /\ l # 0
            BY <1>2, <4>3
        <5>2. Before(ring[Cell(g + k)], ring[Cell(g + l)])
            BY <3>1, <4>3 DEF Unread
        <5>3. ring'[Cell(g + l)] = ring[Cell(g + l)]
            BY <3>4, <5>1
        <5>4. CASE k = 0
          <6>1. ring'[Cell(g + k)] = JUNK
              BY <3>4, <5>1, <5>4
          <6>2. Before(ring[g], ring[Cell(g + l)])
              BY <3>6, <5>2, <5>4
          <6>3. ring[g][1] \in Nat /\ ring[Cell(g + l)][1] \in Nat
            <7>1. \A w \in FrameWords \union {EMPTY, JUNK} : w[1] \in Nat
                BY DEF FrameWords, Numbers, EMPTY, JUNK
            <7>2. Cell(g + l) \in 0 .. RING - 1
                BY <3>3, <5>1
            <7>3. ring[g] \in FrameWords \union {EMPTY, JUNK} /\ ring[Cell(g + l)] \in FrameWords \union {EMPTY, JUNK}
                BY <1>3, <7>2
            <7>4. QED
                BY <7>1, <7>3
          <6>4. 0 < ring[Cell(g + l)][1]
              BY <3>5, <6>2, <6>3 DEF Before
          <6>5. QED
              BY <5>3, <6>1, <6>4 DEF Before, JUNK
        <5>5. CASE k # 0
            BY <3>4, <5>1, <5>2, <5>3, <5>5
        <5>6. QED
            BY <5>4, <5>5
      <4>4. QED
          BY <4>2, <4>3 DEF Unread
    <3>8. Behind(ring', g, n, delivered)
      <4>1. \A k \in 0 .. n - 1 : k \in 0 .. RING - 1
          BY <1>2
      <4>2. QED
          BY <3>1, <3>4, <4>1 DEF Behind
    <3>9. QED
        BY <1>4, <3>1, <3>2, <3>7, <3>8 DEF InOrder
  <2>3. QED
      BY <2>1, <2>2
<1>9. QED
    BY <1>6, <1>7, <1>8 DEF RingInv

(* EthernetThread decides on a frame.                                        *)
LEMMA CheckRing ==
  ASSUME RingInv, ReceiveCheck
  PROVE  RingInv'
<1>1. thread.at = "check" /\ UNCHANGED <<dma, arriving, overrun>>
    BY DEF ReceiveCheck
<1>2. CASE IsComplete
  <2>1. Deliver
      BY <1>2 DEF ReceiveCheck
  <2>2. QED
      BY <1>1, <1>2, <2>1, DeliverRing
<1>3. CASE ~IsComplete
  <2>1. GiveUp
      BY <1>3 DEF ReceiveCheck
  <2>2. QED
      BY <1>1, <2>1, GiveUpRing
<1>4. QED
    BY <1>2, <1>3

(* The other steps of EthernetThread leave the ring as it is.                *)
LEMMA ThreadRing ==
  ASSUME RingInv, ThreadWait \/ ThreadWakes \/ ThreadFrame \/ ReceiveStatus
  PROVE  RingInv'
<1>1. "at" \in DOMAIN thread /\ "gIndex" \in DOMAIN thread
    BY DEF RingInv, RxTypes
<1>2. UNCHANGED <<ring, dma, arriving, delivered, overrun>>
    BY DEF ThreadWait, ThreadWakes, ThreadFrame, ReceiveStatus
<1>3. DOMAIN thread' = DOMAIN thread /\ thread'.gIndex = thread.gIndex /\ thread'.at # "check"
  <2>1. CASE ThreadWait
      BY <1>1, <2>1 DEF ThreadWait, Goto
  <2>2. CASE ThreadWakes
      BY <1>1, <2>2 DEF ThreadWakes, Goto
  <2>3. CASE ThreadFrame
      BY <1>1, <2>3 DEF ThreadFrame, Goto
  <2>4. CASE ReceiveStatus
      BY <1>1, <2>4 DEF ReceiveStatus
  <2>5. QED
      BY <2>1, <2>2, <2>3, <2>4
<1>4. QED
    BY <1>2, <1>3, CalmRing

-----------------------------------------------------------------------------
(* Transmission *)

(* At first nobody transmits.                                                *)
LEMMA InitTransmit ==
  ASSUME NEW t \in Traffic, EthInit(t)
  PROVE  TransmitInv
<1>1. /\ out = <<EMPTY, EMPTY>> /\ wire = out /\ SemEthTransmit = 1
      /\ sender = [s \in Senders |-> [at |-> "idle", left |-> t.sends]]
    BY DEF EthInit
<1>2. Whole(out) /\ Whole(wire)
    BY <1>1 DEF Whole, EMPTY
<1>3. Busy = {}
    BY <1>1 DEF Busy
<1>4. QED
    BY <1>1, <1>2, <1>3 DEF TransmitInv

(* A thread that goes on is the only one that transmits.                     *)
LEMMA OneTransmits ==
  ASSUME TransmitInv, NEW s \in Senders, sender[s].at # "idle"
  PROVE  SemEthTransmit = 0 /\ Busy = {s} /\ Leaving(s)
<1>1. s \in Busy
    BY DEF Busy
<1>2. QED
    BY <1>1 DEF TransmitInv

(* A step of a thread that is in EthernetTransmit.                           *)
LEMMA SenderGoes ==
  ASSUME TransmitInv, NEW s \in Senders, NEW from, NEW to, SenderStep(s, from, to), to # "idle"
  PROVE  /\ DOMAIN sender' = Senders /\ \A r \in Senders : DOMAIN (sender'[r]) = {"at", "left"}
         /\ sender'[s].at = to /\ Busy' = Busy \union {s}
<1>1. DOMAIN sender = Senders /\ \A r \in Senders : DOMAIN sender[r] = {"at", "left"}
    BY DEF TransmitInv
<1>2. sender' = [sender EXCEPT ![s].at = to]
    BY DEF SenderStep
<1>3. sender'[s].at = to /\ DOMAIN (sender'[s]) = {"at", "left"}
    BY <1>1, <1>2
<1>4. \A r \in Senders : r # s => sender'[r] = sender[r]
    BY <1>1, <1>2
<1>5. Busy' = {r \in Senders : sender'[r].at # "idle"}
    BY DEF Busy
<1>6. QED
    BY <1>1, <1>2, <1>3, <1>4, <1>5 DEF Busy

(* A thread takes SemEthTransmit: it is the only one.                       *)
LEMMA PendTransmit ==
  ASSUME TransmitInv, NEW s \in Senders, TransmitPend(s)
  PROVE  TransmitInv'
<1>1. SemEthTransmit > 0 /\ SenderStep(s, "idle", "fill") /\ SemEthTransmit' = SemEthTransmit - 1
      /\ UNCHANGED <<out, wire>>
    BY DEF TransmitPend
<1>2. SemEthTransmit = 1 /\ Busy = {} /\ Whole(wire) /\ Whole(out)
    BY <1>1 DEF TransmitInv
<1>3. /\ DOMAIN sender' = Senders /\ \A r \in Senders : DOMAIN (sender'[r]) = {"at", "left"}
      /\ sender'[s].at = "fill" /\ Busy' = Busy \union {s}
    BY <1>1, SenderGoes
<1>4. Busy' = {s} /\ SemEthTransmit' = 0
    BY <1>1, <1>2, <1>3
<1>5. Whole(wire)' /\ Whole(out)'
    BY <1>1, <1>2 DEF Whole
<1>6. Leaving(s)'
    BY <1>3, <1>5 DEF Leaving
<1>7. QED
    BY <1>3, <1>4, <1>5, <1>6 DEF TransmitInv

(* The owner fills the buffer while nothing leaves it.                      *)
LEMMA FillTransmit ==
  ASSUME TransmitInv, NEW s \in Senders, TransmitFill(s)
  PROVE  TransmitInv'
<1>1. SenderStep(s, "fill", "start") /\ out' = <<<<s, 1>>, <<s, 2>>>> /\ UNCHANGED <<wire, SemEthTransmit>>
    BY DEF TransmitFill
<1>2. sender[s].at = "fill"
    BY <1>1 DEF SenderStep
<1>3. SemEthTransmit = 0 /\ Busy = {s} /\ Leaving(s)
    BY <1>2, OneTransmits
<1>4. /\ DOMAIN sender' = Senders /\ \A r \in Senders : DOMAIN (sender'[r]) = {"at", "left"}
      /\ sender'[s].at = "start" /\ Busy' = Busy \union {s}
    BY <1>1, SenderGoes
<1>5. Whole(out)'
    BY <1>1 DEF Whole
<1>6. Whole(wire)'
    BY <1>1, <1>2, <1>3 DEF Leaving, Whole
<1>7. Leaving(s)'
    BY <1>4, <1>6 DEF Leaving
<1>8. QED
    BY <1>1, <1>3, <1>4, <1>5, <1>7 DEF TransmitInv

(* The owner sets the DMA going on the frame it has written.                *)
LEMMA StartTransmit ==
  ASSUME TransmitInv, NEW s \in Senders, TransmitStart(s)
  PROVE  TransmitInv'
<1>1. SenderStep(s, "start", "sending") /\ wire' = <<>> /\ UNCHANGED <<out, SemEthTransmit>>
    BY DEF TransmitStart
<1>2. sender[s].at = "start"
    BY <1>1 DEF SenderStep
<1>3. SemEthTransmit = 0 /\ Busy = {s} /\ Whole(out)
    BY <1>2, OneTransmits DEF TransmitInv
<1>4. /\ DOMAIN sender' = Senders /\ \A r \in Senders : DOMAIN (sender'[r]) = {"at", "left"}
      /\ sender'[s].at = "sending" /\ Busy' = Busy \union {s}
    BY <1>1, SenderGoes
<1>5. Whole(out)'
    BY <1>1, <1>3 DEF Whole
<1>6. Leaving(s)'
    BY <1>1, <1>4 DEF Leaving
<1>7. QED
    BY <1>1, <1>3, <1>4, <1>5, <1>6 DEF TransmitInv

(* The owner gives the semaphore up when the whole frame has left.          *)
LEMMA PostTransmit ==
  ASSUME TransmitInv, NEW s \in Senders, TransmitPost(s)
  PROVE  TransmitInv'
<1>1. /\ sender[s].at = "sending" /\ Len(wire) = 2
      /\ sender' = [sender EXCEPT ![s] = [at |-> "idle", left |-> @.left - 1]]
      /\ SemEthTransmit' = SemEthTransmit + 1 /\ UNCHANGED <<out, wire>>
    BY DEF TransmitPost, IsSent
<1>2. SemEthTransmit = 0 /\ Busy = {s} /\ Leaving(s) /\ Whole(out)
    BY <1>1, OneTransmits DEF TransmitInv
<1>3. DOMAIN sender = Senders /\ \A r \in Senders : DOMAIN sender[r] = {"at", "left"}
    BY DEF TransmitInv
<1>4. sender'[s].at = "idle" /\ DOMAIN (sender'[s]) = {"at", "left"} /\ DOMAIN sender' = Senders
    BY <1>1, <1>3
<1>5. \A r \in Senders : r # s => sender'[r] = sender[r]
    BY <1>1, <1>3
<1>6. \A r \in Senders : sender'[r].at = "idle"
    BY <1>2, <1>4, <1>5 DEF Busy
<1>7. Busy' = {}
    BY <1>6 DEF Busy
<1>8. wire = out
  <2>1. wire \in {<<>>, <<out[1]>>, out}
      BY <1>1, <1>2 DEF Leaving
  <2>2. wire = <<>> \/ wire = <<out[1]>> \/ wire = out
      BY <2>1
  <2>3. Len(<<>>) = 0 /\ Len(<<out[1]>>) = 1
      OBVIOUS
  <2>4. Len(wire) = 2
      BY <1>1
  <2>5. QED
      BY <2>2, <2>3, <2>4
<1>9. Whole(wire)' /\ Whole(out)'
    BY <1>1, <1>2, <1>8 DEF Whole
<1>10. QED
    BY <1>1, <1>2, <1>3, <1>4, <1>5, <1>7, <1>9 DEF TransmitInv

(* What a frame of two words looks like on the wire.                        *)
LEMMA TwoWords ==
  ASSUME NEW a, NEW b
  PROVE  Append(<<a>>, b) = <<a, b>>
<1>1. <<a>> \in Seq({a, b}) /\ Len(<<a>>) = 1 /\ <<a, b>> \in Seq({a, b}) /\ Len(<<a, b>>) = 2
    OBVIOUS
<1>2. /\ Append(<<a>>, b) \in Seq({a, b}) /\ Len(Append(<<a>>, b)) = 2
      /\ Append(<<a>>, b)[1] = a /\ Append(<<a>>, b)[2] = b
    BY <1>1, AppendProperties
<1>3. \A i \in 1 .. 2 : Append(<<a>>, b)[i] = <<a, b>>[i]
    BY <1>2
<1>4. QED
    BY <1>1, <1>2, <1>3, SeqEqual

(* A word leaves the buffer while its owner waits.                          *)
LEMMA DepartTransmit ==
  ASSUME TransmitInv, Depart
  PROVE  TransmitInv'
<1>1. Len(wire) < 2 /\ wire' = Append(wire, out[Len(wire) + 1]) /\ UNCHANGED <<out, sender, SemEthTransmit>>
    BY DEF Depart
<1>2. ~Whole(wire)
    BY <1>1 DEF Whole
<1>3. PICK s \in Senders : Busy = {s} /\ Leaving(s) /\ SemEthTransmit = 0
    BY <1>2 DEF TransmitInv
<1>4. Whole(out) /\ out = <<out[1], out[2]>>
    BY DEF TransmitInv, Whole
<1>5. sender[s].at = "sending" /\ wire \in {<<>>, <<out[1]>>, out}
    BY <1>2, <1>3 DEF Leaving
<1>6. wire' \in {<<>>, <<out[1]>>, out}
  <2>1. CASE wire = <<>>
      BY <1>1, <2>1
  <2>2. CASE wire = <<out[1]>>
    <3>1. Len(wire) = 1 /\ wire' = Append(wire, out[2])
        BY <1>1, <2>2
    <3>2. \A a, b : Append(<<a>>, b) = <<a, b>>
        BY TwoWords
    <3>3. wire' = <<out[1], out[2]>>
        BY <2>2, <3>1, <3>2
    <3>4. QED
        BY <1>4, <3>3
  <2>3. CASE wire = out
      BY <1>1, <1>4, <2>3
  <2>4. QED
      BY <1>5, <2>1, <2>2, <2>3
<1>7. Leaving(s)' /\ Whole(out)' /\ Busy' = {s}
    BY <1>1, <1>3, <1>4, <1>5, <1>6 DEF Leaving, Whole, Busy
<1>8. QED
    BY <1>1, <1>3, <1>7 DEF TransmitInv

(* Every step of Ethernet keeps both invariants.                             *)
LEMMA EthStep ==
  ASSUME EthInv, EthNext
  PROVE  EthInv'
<1>1. RingInv /\ TransmitInv
    BY DEF EthInv
<1>2. ASSUME UNCHANGED txVars
      PROVE  TransmitInv'
    BY <1>1, <1>2 DEF txVars, TransmitInv, Busy, Leaving, Whole
<1>3. ASSUME UNCHANGED rxVars
      PROVE  RingInv'
  <2>1. UNCHANGED <<ring, dma, arriving, delivered, overrun, thread>>
      BY <1>3 DEF rxVars
  <2>2. QED
      BY <1>1, <2>1, CalmRing
<1>4. CASE Arrive
  <2>1. UNCHANGED txVars
      BY <1>4 DEF Arrive
  <2>2. QED
      BY <1>1, <1>2, <1>4, <2>1, ArriveRing DEF EthInv
<1>5. CASE EthernetIsr \/ SocketFrees
  <2>1. UNCHANGED txVars /\ UNCHANGED <<ring, dma, arriving, delivered, overrun, thread>>
      BY <1>5 DEF EthernetIsr, SocketFrees
  <2>2. RingInv'
      BY <1>1, <2>1, CalmRing
  <2>3. QED
      BY <1>2, <2>1, <2>2 DEF EthInv
<1>6. CASE ThreadWait \/ ThreadWakes \/ ThreadFrame \/ ReceiveStatus
  <2>1. UNCHANGED txVars
      BY <1>6 DEF ThreadWait, ThreadWakes, ThreadFrame, ReceiveStatus
  <2>2. QED
      BY <1>1, <1>2, <1>6, <2>1, ThreadRing DEF EthInv
<1>7. CASE ReceiveFind
  <2>1. UNCHANGED txVars
      BY <1>7 DEF ReceiveFind
  <2>2. QED
      BY <1>1, <1>2, <1>7, <2>1, FindRing DEF EthInv
<1>8. CASE ReceiveCheck
  <2>1. UNCHANGED txVars
      BY <1>8 DEF ReceiveCheck
  <2>2. QED
      BY <1>1, <1>2, <1>8, <2>1, CheckRing DEF EthInv
<1>9. ASSUME NEW s \in Senders, TransmitPend(s) \/ TransmitFill(s) \/ TransmitStart(s) \/ TransmitPost(s)
      PROVE  EthInv'
  <2>1. UNCHANGED rxVars
      BY <1>9 DEF TransmitPend, TransmitFill, TransmitStart, TransmitPost
  <2>2. TransmitInv'
      BY <1>1, <1>9, PendTransmit, FillTransmit, StartTransmit, PostTransmit
  <2>3. QED
      BY <1>3, <2>1, <2>2 DEF EthInv
<1>10. CASE Depart
  <2>1. UNCHANGED rxVars
      BY <1>10 DEF Depart
  <2>2. QED
      BY <1>1, <1>3, <1>10, <2>1, DepartTransmit DEF EthInv
<1>11. QED
    BY <1>4, <1>5, <1>6, <1>7, <1>8, <1>9, <1>10 DEF EthNext, EthThread, Transmit

(* The invariants say what the property says.                                *)
LEMMA EthRight ==
  ASSUME EthInv
  PROVE  WireRight
<1>1. DeliveredOnce
    BY DEF EthInv, RingInv, WordsOnce, InOrder, DeliveredOnce
<1>2. TransmittedWhole
  <2>1. Whole(out) /\ (Whole(wire) \/ wire \in {<<>>, <<out[1]>>, out})
      BY DEF EthInv, TransmitInv, Leaving
  <2>2. CASE wire = <<>> \/ wire = <<out[1]>>
      BY <2>2 DEF TransmittedWhole
  <2>3. CASE Whole(wire)
    <3>1. wire = <<wire[1], wire[2]>> /\ wire[1][1] = wire[2][1]
        BY <2>3 DEF Whole
    <3>2. DOMAIN wire = {1, 2}
        BY <3>1
    <3>3. QED
        BY <3>1, <3>2 DEF TransmittedWhole
  <2>4. QED
      BY <2>1, <2>2, <2>3
<1>3. QED
    BY <1>1, <1>2 DEF WireRight

-----------------------------------------------------------------------------
(* Counting the entries of a sequence *)

(* The entries counted are finitely many.                                    *)
LEMMA CountNat ==
  ASSUME NEW T, NEW q \in Seq(T), NEW S, NEW i \in Nat
  PROVE  /\ IsFiniteSet({ j \in i + 1 .. Len(q) : q[j] \in S })
         /\ Count(q, S, i) \in Nat
<1>1. Len(q) \in Nat
    BY LenProperties
<1>2. IsFiniteSet(i + 1 .. Len(q))
    BY <1>1, FS_Interval
<1>3. { j \in i + 1 .. Len(q) : q[j] \in S } \in SUBSET (i + 1 .. Len(q))
    OBVIOUS
<1>4. IsFiniteSet({ j \in i + 1 .. Len(q) : q[j] \in S })
    BY <1>2, <1>3, FS_Subset
<1>5. QED
    BY <1>4, FS_CardinalityType DEF Count

(* The same for the whole sequence.                                         *)
LEMMA CountAll ==
  ASSUME NEW T, NEW q \in Seq(T), NEW S
  PROVE  Count(q, S, 0) \in Nat
<1> DEFINE i == 0
<1>1. i \in Nat
    OBVIOUS
<1> HIDE DEF i
<1>2. Count(q, S, i) \in Nat
    BY <1>1, CountNat
<1>3. QED
    BY <1>2 DEF i

(* An entry more at the end.                                                 *)
LEMMA CountAppend ==
  ASSUME NEW T, NEW q \in Seq(T), NEW m \in T, NEW S, NEW i \in 0 .. Len(q)
  PROVE  Count(Append(q, m), S, i) = Count(q, S, i) + In(m, S)
<1> DEFINE a == Append(q, m)
           A == { j \in i + 1 .. Len(q) : q[j] \in S }
           B == { j \in i + 1 .. Len(a) : a[j] \in S }
<1>1. Len(q) \in Nat
    BY LenProperties
<1>2. Len(a) = Len(q) + 1 /\ a[Len(q) + 1] = m /\ \A j \in 1 .. Len(q) : a[j] = q[j]
    BY AppendProperties
<1>3. i \in Nat
    BY <1>1
<1>4. IsFiniteSet(A) /\ Cardinality(A) \in Nat
    BY <1>3, CountNat DEF Count
<1>5. Count(q, S, i) = Cardinality(A) /\ Count(Append(q, m), S, i) = Cardinality(B)
    BY DEF Count
<1> HIDE DEF a
<1>6. CASE m \in S
  <2>1. B = A \cup {Len(q) + 1} /\ Len(q) + 1 \notin A
      BY <1>1, <1>2, <1>3, <1>6
  <2>2. Cardinality(B) = Cardinality(A) + 1
      BY <1>4, <2>1, FS_AddElement
  <2>3. QED
      BY <1>5, <1>6, <2>2 DEF In
<1>7. CASE m \notin S
  <2>1. B = A
      BY <1>1, <1>2, <1>3, <1>7
  <2>2. In(m, S) = 0 /\ Cardinality(B) = Cardinality(A)
      BY <1>7, <2>1 DEF In
  <2> HIDE DEF A, B
  <2>3. QED
      BY <1>4, <1>5, <2>2
<1>8. QED
    BY <1>6, <1>7

(* The entry behind place i.                                                 *)
LEMMA CountNext ==
  ASSUME NEW T, NEW q \in Seq(T), NEW S, NEW i \in 0 .. Len(q) - 1
  PROVE  Count(q, S, i) = Count(q, S, i + 1) + In(q[i + 1], S)
<1> DEFINE k == i + 1
           A == { j \in k + 1 .. Len(q) : q[j] \in S }
           B == { j \in i + 1 .. Len(q) : q[j] \in S }
<1>1. Len(q) \in Nat
    BY LenProperties
<1>2. i \in Nat /\ k \in Nat /\ k = i + 1 /\ k <= Len(q)
    BY <1>1
<1> HIDE DEF k
<1>3. IsFiniteSet(A) /\ Cardinality(A) \in Nat
    BY <1>2, CountNat DEF Count
<1>4. Count(q, S, i) = Cardinality(B) /\ Count(q, S, k) = Cardinality(A)
    BY DEF Count
<1>5. CASE q[k] \in S
  <2>1. B = A \cup {k} /\ k \notin A
      BY <1>1, <1>2, <1>5
  <2>2. Cardinality(B) = Cardinality(A) + 1
      BY <1>3, <2>1, FS_AddElement
  <2>3. QED
      BY <1>4, <1>5, <2>2 DEF In, k
<1>6. CASE q[k] \notin S
  <2>1. B = A
      BY <1>1, <1>2, <1>6
  <2>2. In(q[k], S) = 0 /\ Cardinality(B) = Cardinality(A)
      BY <1>6, <2>1 DEF In
  <2> HIDE DEF A, B
  <2>3. QED
      BY <1>3, <1>4, <2>2 DEF k
<1>7. QED
    BY <1>5, <1>6

(* Without the first entry every other one is a place further to the front.  *)
LEMMA CountTail ==
  ASSUME NEW T, NEW q \in Seq(T), q # <<>>, NEW S, NEW i \in 0 .. Len(q) - 1
  PROVE  Count(Tail(q), S, i) = Count(q, S, i + 1)
<1> DEFINE t == Tail(q)
           k == i + 1
           A == { j \in i + 1 .. Len(t) : t[j] \in S }
           B == { j \in k + 1 .. Len(q) : q[j] \in S }
           f == [j \in A |-> j + 1]
<1>1. Len(q) \in Nat /\ Len(t) = Len(q) - 1 /\ \A j \in 1 .. Len(t) : t[j] = q[j + 1]
    BY LenProperties, HeadTailProperties
<1>2. i \in Nat /\ k = i + 1
    BY <1>1
<1>3. t \in Seq(T)
    BY HeadTailProperties
<1>4. IsFiniteSet(A)
    BY <1>2, <1>3, CountNat
<1>5. Count(t, S, i) = Cardinality(A) /\ Count(q, S, k) = Cardinality(B)
    BY DEF Count
<1> HIDE DEF t, k
<1>6. A \subseteq Int
    OBVIOUS
<1>7. \A j \in A : j + 1 \in B
    BY <1>1, <1>2
<1>8. \A j \in B : j - 1 \in A /\ (j - 1) + 1 = j
    BY <1>1, <1>2
<1>9. f \in [A -> B] /\ \A j \in A : f[j] = j + 1
    BY <1>7
<1> HIDE DEF f, A, B
<1>10. \A x, y \in A : f[x] = f[y] => x = y
    BY <1>6, <1>9
<1>11. \A y \in B : \E x \in A : f[x] = y
    BY <1>8, <1>9
<1>12. f \in Bijection(A, B)
    BY <1>9, <1>10, <1>11, Fun_IsBij
<1>13. Cardinality(B) = Cardinality(A)
    BY <1>4, <1>12, FS_Bijection DEF ExistsBijection
<1>14. QED
    BY <1>5, <1>13 DEF t, k

(* The first entry, and the others.                                          *)
LEMMA CountHead ==
  ASSUME NEW T, NEW q \in Seq(T), q # <<>>, NEW S
  PROVE  Count(q, S, 0) = Count(Tail(q), S, 0) + In(Head(q), S)
<1> DEFINE i == 0
<1>1. Len(q) \in Nat \ {0} /\ Head(q) = q[1]
    BY EmptySeq
<1>2. i \in 0 .. Len(q) - 1 /\ i + 1 = 1
    BY <1>1
<1> HIDE DEF i
<1>3. Count(q, S, i) = Count(q, S, i + 1) + In(q[i + 1], S)
    BY <1>2, CountNext
<1>4. Count(Tail(q), S, i) = Count(q, S, i + 1)
    BY <1>2, CountTail
<1>5. QED
    BY <1>1, <1>2, <1>3, <1>4 DEF i

(* An entry more in front.                                                   *)
LEMMA CountPush ==
  ASSUME NEW T, NEW q \in Seq(T), NEW m \in T, NEW S
  PROVE  /\ <<m>> \o q \in Seq(T)
         /\ Count(<<m>> \o q, S, 0) = Count(q, S, 0) + In(m, S)
<1> DEFINE p == <<m>> \o q
<1>1. <<m>> \in Seq(T) /\ Len(<<m>>) = 1 /\ <<m>>[1] = m /\ Len(q) \in Nat
    BY LenProperties
<1>2. p \in Seq(T) /\ Len(p) = 1 + Len(q)
      /\ \A i \in 1 .. 1 + Len(q) : p[i] = IF i <= 1 THEN <<m>>[i] ELSE q[i - 1]
    BY <1>1, ConcatProperties
<1> HIDE DEF p
<1>3. p # <<>> /\ Head(p) = m
    BY <1>1, <1>2
<1>4. Tail(p) \in Seq(T) /\ Len(Tail(p)) = Len(p) - 1
      /\ \A i \in 1 .. Len(Tail(p)) : Tail(p)[i] = p[i + 1]
    BY <1>2, <1>3, HeadTailProperties
<1>5. \A i \in 1 .. Len(q) : p[i + 1] = q[(i + 1) - 1] /\ (i + 1) - 1 = i
    BY <1>1, <1>2
<1>6. Tail(p) = q
    BY <1>1, <1>2, <1>4, <1>5, SeqEqual
<1>7. Count(p, S, 0) = Count(Tail(p), S, 0) + In(Head(p), S)
    BY <1>2, <1>3, CountHead
<1>8. QED
    BY <1>2, <1>3, <1>6, <1>7 DEF p

-----------------------------------------------------------------------------
(* The queue of the IP thread *)

(* There is nothing behind the last entry.                                   *)
LEMMA CountEnd ==
  ASSUME NEW T, NEW q \in Seq(T), NEW S
  PROVE  Count(q, S, Len(q)) = 0
<1>1. Len(q) \in Nat
    BY LenProperties
<1>2. { j \in Len(q) + 1 .. Len(q) : q[j] \in S } = {}
    BY <1>1
<1>3. QED
    BY <1>2, FS_EmptySet DEF Count

(* A message more.                                                           *)
LEMMA NoteMore ==
  ASSUME NEW q \in Seq(Notes), NEW m \in Notes
  PROVE  LET a == Append(q, m)
         IN  /\ a \in Seq(Notes) /\ Len(q) \in Nat /\ Len(a) = Len(q) + 1
             /\ DOMAIN q = 1 .. Len(q) /\ DOMAIN a = 1 .. Len(q) + 1
             /\ a[Len(q) + 1] = m /\ \A i \in 1 .. Len(q) : a[i] = q[i]
             /\ \A S : \A i \in 0 .. Len(q) : Count(a, S, i) = Count(q, S, i) + In(m, S)
             /\ \A S : Count(a, S, Len(q) + 1) = 0
<1> DEFINE a == Append(q, m)
<1>1. a \in Seq(Notes) /\ Len(q) \in Nat /\ Len(a) = Len(q) + 1
      /\ a[Len(q) + 1] = m /\ \A i \in 1 .. Len(q) : a[i] = q[i]
    BY AppendProperties, LenProperties
<1>2. DOMAIN q = 1 .. Len(q) /\ DOMAIN a = 1 .. Len(a)
    BY <1>1, LenProperties
<1>3. \A S : \A i \in 0 .. Len(q) : Count(a, S, i) = Count(q, S, i) + In(m, S)
    BY CountAppend
<1> HIDE DEF a
<1>4. \A S : Count(a, S, Len(a)) = 0
    BY <1>1, CountEnd
<1>5. QED
    BY <1>1, <1>2, <1>3, <1>4 DEF a

(* The first message is taken.                                               *)
LEMMA NoteLess ==
  ASSUME NEW q \in Seq(Notes), q # <<>>
  PROVE  LET t == Tail(q)
         IN  /\ t \in Seq(Notes) /\ Len(q) \in Nat \ {0} /\ Len(t) = Len(q) - 1 /\ Len(t) \in Nat
             /\ DOMAIN q = 1 .. Len(q) /\ DOMAIN t = 1 .. Len(t)
             /\ Head(q) = q[1] /\ Head(q) \in Notes /\ \A i \in 1 .. Len(t) : t[i] = q[i + 1]
             /\ \A S : Count(q, S, 0) = Count(t, S, 0) + In(Head(q), S)
             /\ \A S : \A i \in 0 .. Len(t) : Count(t, S, i) = Count(q, S, i + 1)
<1> DEFINE t == Tail(q)
<1>1. t \in Seq(Notes) /\ Len(q) \in Nat \ {0} /\ Len(t) = Len(q) - 1
      /\ Head(q) = q[1] /\ Head(q) \in Notes /\ \A i \in 1 .. Len(t) : t[i] = q[i + 1]
    BY HeadTailProperties, EmptySeq
<1>2. DOMAIN q = 1 .. Len(q) /\ DOMAIN t = 1 .. Len(t) /\ Len(t) \in Nat
    BY <1>1, LenProperties
<1>3. \A S : Count(q, S, 0) = Count(t, S, 0) + In(Head(q), S)
    BY CountHead
<1>4. \A S : \A i \in 0 .. Len(q) - 1 : Count(t, S, i) = Count(q, S, i + 1)
    BY CountTail
<1> HIDE DEF t
<1>5. QED
    BY <1>1, <1>2, <1>3, <1>4 DEF t

(* The addends of Places are numbers.                                        *)
LEMMA PlacesNat ==
  ASSUME UartTypes, NEW S \in SUBSET Frames
  PROVE  /\ Count(free, S, 0) \in Nat /\ Count(held, S, 0) \in Nat /\ Count(sendList, S, 0) \in Nat
         /\ Count(mqueue, {0} \X S, 0) \in Nat /\ In(rx.current, S) \in 0 .. 1
         /\ In(ip.frameOut, S) \in 0 .. 1 /\ In(app.frame, S) \in 0 .. 1
         /\ In(NoFrame, S) = 0
<1>1. free \in Seq(Frames) /\ held \in Seq(Frames) /\ sendList \in Seq(Frames) /\ mqueue \in Seq(Notes)
    BY DEF UartTypes
<1>2. \A x : In(x, S) \in 0 .. 1
    BY DEF In
<1>3. NoFrame \notin S
    BY DEF NoFrame, Frames
<1>4. QED
    BY <1>1, <1>2, <1>3, CountNat DEF In

(* The queue is never full: besides the frames it can hold one message of a   *)
(* frame that was sent, and one announcement more than there are frames.      *)
LEMMA QueueHasRoom ==
  ASSUME UartInv
  PROVE  Len(mqueue) < MQUEUE_SIZE
<1>1. UartTypes /\ EachOnce /\ SentOnce /\ Announced
    BY DEF UartInv
<1>2. mqueue \in Seq(Notes) /\ Len(mqueue) \in Nat /\ DOMAIN mqueue = 1 .. Len(mqueue)
    BY <1>1, LenProperties DEF UartTypes
<1> DEFINE o == 0
           Those(S) == { j \in o + 1 .. Len(mqueue) : mqueue[j] \in S }
           A == Those({0} \X Frames)
           B == Those({<<2, NoFrame>>})
           C == Those({1} \X Frames)
<1>3. /\ IsFiniteSet(A) /\ IsFiniteSet(B) /\ IsFiniteSet(C)
      /\ Cardinality(A) = Count(mqueue, {0} \X Frames, 0) /\ Cardinality(B) = Ready(mqueue, 0)
      /\ Cardinality(A) \in Nat /\ Cardinality(B) \in Nat /\ Cardinality(C) \in Nat
  <2>1. o \in Nat
      OBVIOUS
  <2> HIDE DEF o
  <2>2. IsFiniteSet(A) /\ IsFiniteSet(B) /\ IsFiniteSet(C)
    <3>1. \A S : IsFiniteSet(Those(S))
        BY <1>2, <2>1, CountNat
    <3> HIDE DEF Those
    <3>2. QED
        BY <3>1
  <2>3. Cardinality(A) = Count(mqueue, {0} \X Frames, o) /\ Cardinality(B) = Count(mqueue, {<<2, NoFrame>>}, o)
      BY DEF Count
  <2>4. Cardinality(A) \in Nat /\ Cardinality(B) \in Nat /\ Cardinality(C) \in Nat
      BY <2>2, FS_CardinalityType
  <2> HIDE DEF A, B, C
  <2>5. QED
      BY <2>2, <2>3, <2>4 DEF Ready, o
<1>4. Cardinality(C) <= 1
  <2>1. CASE C = {}
      BY <2>1, FS_EmptySet
  <2>2. CASE C # {}
    <3>1. PICK c : c \in C
        BY <2>2
    <3>2. \A j \in C : j = c
      <4>1. \A j \in C : j \in DOMAIN mqueue /\ mqueue[j][1] = 1
          BY <1>2
      <4>2. QED
          BY <1>1, <3>1, <4>1 DEF SentOnce, SentIn
    <3>3. C = {c}
        BY <3>1, <3>2
    <3>4. Cardinality({c}) = 1
        BY FS_Singleton
    <3> HIDE DEF C
    <3>5. QED
        BY <3>3, <3>4
  <2>3. QED
      BY <2>1, <2>2
<1>5. 1 .. Len(mqueue) = (A \cup B) \cup C
  <2>1. \A j \in 1 .. Len(mqueue) : mqueue[j] \in Notes
      BY <1>2, ElementOfSeq
  <2>2. Notes = (({0} \X Frames) \cup {<<2, NoFrame>>}) \cup ({1} \X Frames)
      BY DEF Notes
  <2>3. QED
      BY <2>1, <2>2
<1>6. Cardinality(1 .. Len(mqueue)) = Len(mqueue)
    BY <1>2, FS_Interval
<1> HIDE DEF A, B, C
<1>7. IsFiniteSet(A \cup B) /\ Cardinality(A \cup B) <= Cardinality(A) + Cardinality(B) /\ Cardinality(A \cup B) \in Nat
  <2>1. IsFiniteSet(A \cap B) /\ Cardinality(A \cap B) \in Nat
      BY <1>3, FS_Subset, FS_CardinalityType
  <2>2. Cardinality(A \cup B) = Cardinality(A) + Cardinality(B) - Cardinality(A \cap B) /\ IsFiniteSet(A \cup B)
      BY <1>3, FS_Union
  <2>3. QED
      BY <1>3, <2>1, <2>2, FS_CardinalityType
<1>8. Cardinality((A \cup B) \cup C) <= Cardinality(A \cup B) + Cardinality(C)
  <2>1. IsFiniteSet((A \cup B) \cap C) /\ Cardinality((A \cup B) \cap C) \in Nat
      BY <1>3, FS_Subset, FS_CardinalityType
  <2>2. Cardinality((A \cup B) \cup C) = Cardinality(A \cup B) + Cardinality(C) - Cardinality((A \cup B) \cap C)
      BY <1>3, <1>7, FS_Union
  <2>3. QED
      BY <1>3, <1>7, <2>1, <2>2
<1>9. Places(Frames) = FRAME_COUNT /\ FRAME_COUNT \in Nat
  <2>1. FRAME_COUNT \in Nat \ {0}
      BY UartAssumption
  <2>2. Cardinality(Frames) = FRAME_COUNT
      BY <2>1, FS_Interval DEF Frames
  <2>3. QED
      BY <1>1, <2>1, <2>2 DEF EachOnce
<1>10. Ready(mqueue, 0) <= Waiting + In(ip.frameOut, Frames) + 1
  <2>1. Told \in 0 .. 1
      BY DEF Told
  <2>2. Ready(mqueue, 0) \in Nat /\ Waiting \in Nat /\ In(ip.frameOut, Frames) \in 0 .. 1
      BY <1>1, <1>3, PlacesNat DEF Waiting
  <2>3. Ready(mqueue, 0) + Told <= Waiting + In(ip.frameOut, Frames) + 1
      BY <1>1 DEF Announced, AnnouncedIn
  <2>4. QED
      BY <2>1, <2>2, <2>3
<1>11. Count(mqueue, {0} \X Frames, 0) + Waiting + In(ip.frameOut, Frames) <= FRAME_COUNT
    BY <1>1, <1>9, PlacesNat DEF Places, Waiting
<1>12. Waiting \in Nat /\ In(ip.frameOut, Frames) \in 0 .. 1
    BY <1>1, PlacesNat DEF Waiting
<1>13. Len(mqueue) <= FRAME_COUNT + 2
  <2>1. Len(mqueue) = Cardinality((A \cup B) \cup C)
      BY <1>5, <1>6
  <2>2. Len(mqueue) <= Cardinality(A) + Cardinality(B) + 1
      BY <1>2, <1>3, <1>4, <1>7, <1>8, <2>1
  <2>3. Cardinality(A) + Waiting + In(ip.frameOut, Frames) <= FRAME_COUNT
      BY <1>3, <1>11
  <2>4. Cardinality(B) <= Waiting + In(ip.frameOut, Frames) + 1
      BY <1>3, <1>10
  <2>5. QED
      BY <1>2, <1>3, <1>9, <1>12, <2>2, <2>3, <2>4
<1>14. QED
    BY <1>2, <1>9, <1>13, UartAssumption

(* How a message more, or one less, changes what the queue has.              *)
LEMMA SentMore ==
  ASSUME NEW q \in Seq(Notes), NEW m \in Notes, m[1] # 1, NEW going, NEW id, SentIn(q, going, id)
  PROVE  SentIn(Append(q, m), going, id)
<1> DEFINE a == Append(q, m)
<1>1. /\ Len(q) \in Nat /\ DOMAIN q = 1 .. Len(q) /\ DOMAIN a = 1 .. Len(q) + 1
      /\ a[Len(q) + 1] = m /\ \A i \in 1 .. Len(q) : a[i] = q[i]
    BY NoteMore
<1> HIDE DEF a
<1>2. \A i \in DOMAIN a : a[i][1] = 1 => i \in DOMAIN q /\ a[i] = q[i]
    BY <1>1
<1>3. SentIn(a, going, id)
    BY <1>2 DEF SentIn
<1>4. QED
    BY <1>3 DEF a

(* The IP thread takes a message: the frame it waited for, or another.      *)
LEMMA SentLess ==
  ASSUME NEW q \in Seq(Notes), q # <<>>, NEW going, NEW id, SentIn(q, going, id)
  PROVE  /\ SentIn(Tail(q), going, id)
         /\ Head(q)[1] = 1 => Head(q)[2] = id /\ going = NoFrame /\ SentIn(Tail(q), going, NoFrame)
<1> DEFINE t == Tail(q)
<1>1. /\ Len(q) \in Nat \ {0} /\ Len(t) = Len(q) - 1 /\ DOMAIN q = 1 .. Len(q) /\ DOMAIN t = 1 .. Len(t)
      /\ Head(q) = q[1] /\ \A i \in 1 .. Len(t) : t[i] = q[i + 1]
    BY NoteLess
<1> HIDE DEF t
<1>2. \A i \in DOMAIN t : i + 1 \in DOMAIN q /\ t[i] = q[i + 1] /\ i + 1 # 1 /\ i \in Nat
    BY <1>1
<1>3. 1 \in DOMAIN q
    BY <1>1
<1>4. SentIn(t, going, id)
  <2>1. \A i, j \in DOMAIN t : t[i][1] = 1 /\ t[j][1] = 1 => i + 1 = j + 1
      BY <1>2 DEF SentIn
  <2>2. \A i, j \in DOMAIN t : t[i][1] = 1 /\ t[j][1] = 1 => i = j
      BY <1>2, <2>1
  <2>3. QED
      BY <1>2, <2>2 DEF SentIn
<1>5. ASSUME q[1][1] = 1
      PROVE  q[1][2] = id /\ going = NoFrame /\ SentIn(t, going, NoFrame)
  <2>1. q[1][2] = id /\ going = NoFrame
      BY <1>3, <1>5 DEF SentIn
  <2>2. \A i \in DOMAIN t : t[i][1] # 1
      BY <1>2, <1>3, <1>5 DEF SentIn
  <2>3. QED
      BY <2>1, <2>2 DEF SentIn
<1>6. QED
    BY <1>1, <1>4, <1>5 DEF t

(* What was still to be announced is announced.                             *)
LEMMA AnnouncedMore ==
  ASSUME NEW q \in Seq(Notes), NEW m \in Notes, NEW told \in 0 .. 1, NEW waiting \in Nat, NEW id,
         AnnouncedIn(q, told + In(m, {<<2, NoFrame>>}), waiting, id)
  PROVE  AnnouncedIn(Append(q, m), told, waiting, id)
<1> DEFINE a == Append(q, m)
           x == In(m, {<<2, NoFrame>>})
<1>1. /\ Len(q) \in Nat /\ DOMAIN q = 1 .. Len(q) /\ DOMAIN a = 1 .. Len(q) + 1
      /\ a[Len(q) + 1] = m /\ \A i \in 1 .. Len(q) : a[i] = q[i]
      /\ \A i \in 0 .. Len(q) : Ready(a, i) = Ready(q, i) + x
      /\ Ready(a, Len(q) + 1) = 0
    BY NoteMore DEF Ready
<1>2. \A i \in 0 .. Len(q) : Ready(q, i) \in Nat
  <2>1. \A i \in 0 .. Len(q) : i \in Nat
      BY <1>1
  <2>2. QED
      BY <2>1, CountNat DEF Ready
<1>3. x \in 0 .. 1 /\ In(id, Frames) \in 0 .. 1
    BY DEF In
<1>4. /\ Ready(q, 0) + (told + x) <= waiting + In(id, Frames) + 1
      /\ \A i \in DOMAIN q : q[i][1] = 1 => Ready(q, i) + (told + x) <= waiting + 1
    BY DEF AnnouncedIn
<1> HIDE DEF a, x
<1>5. Ready(a, 0) + told <= waiting + In(id, Frames) + 1
  <2>1. 0 \in 0 .. Len(q)
      BY <1>1
  <2>2. Ready(a, 0) = Ready(q, 0) + x /\ Ready(q, 0) \in Nat
      BY <1>1, <1>2, <2>1
  <2>3. QED
      BY <1>3, <1>4, <2>2
<1>6. ASSUME NEW i \in DOMAIN a, a[i][1] = 1
      PROVE  Ready(a, i) + told <= waiting + 1
  <2>1. CASE i = Len(q) + 1
      BY <1>1, <2>1
  <2>2. CASE i \in DOMAIN q
    <3>1. i \in 0 .. Len(q) /\ a[i] = q[i]
        BY <1>1, <2>2
    <3>2. Ready(a, i) = Ready(q, i) + x /\ Ready(q, i) \in Nat
        BY <1>1, <1>2, <3>1
    <3>3. Ready(q, i) + (told + x) <= waiting + 1
        BY <1>4, <1>6, <2>2, <3>1
    <3>4. QED
        BY <1>3, <3>2, <3>3
  <2>3. QED
      BY <1>1, <2>1, <2>2
<1>7. AnnouncedIn(a, told, waiting, id)
    BY <1>5, <1>6 DEF AnnouncedIn
<1>8. QED
    BY <1>7 DEF a

(* A message less: what it announced may be found late.                     *)
LEMMA AnnouncedLess ==
  ASSUME NEW q \in Seq(Notes), q # <<>>, NEW told \in 0 .. 1, NEW waiting \in Nat, NEW id,
         AnnouncedIn(q, told, waiting, id)
  PROVE  AnnouncedIn(Tail(q), told, waiting, IF Head(q)[1] = 1 THEN NoFrame ELSE id)
<1> DEFINE t == Tail(q)
           h == In(Head(q), {<<2, NoFrame>>})
<1>1. /\ Len(q) \in Nat \ {0} /\ Len(t) = Len(q) - 1 /\ DOMAIN q = 1 .. Len(q) /\ DOMAIN t = 1 .. Len(t)
      /\ Head(q) = q[1] /\ \A i \in 1 .. Len(t) : t[i] = q[i + 1]
      /\ Ready(q, 0) = Ready(t, 0) + h
      /\ \A i \in 0 .. Len(t) : Ready(t, i) = Ready(q, i + 1)
    BY NoteLess DEF Ready
<1>2. t \in Seq(Notes)
    BY NoteLess
<1>3. \A i \in 0 .. Len(t) : Ready(t, i) \in Nat
  <2>1. \A i \in 0 .. Len(t) : i \in Nat
      BY <1>1
  <2>2. QED
      BY <1>2, <2>1, CountNat DEF Ready
<1>4. h \in 0 .. 1 /\ \A x : In(x, Frames) \in 0 .. 1
    BY DEF In
<1> HIDE DEF t, h
<1>5. 0 \in 0 .. Len(t) /\ 1 \in DOMAIN q
    BY <1>1
<1>6. Ready(t, 0) \in Nat
    BY <1>3, <1>5
<1>7. ASSUME NEW i \in DOMAIN t, t[i][1] = 1
      PROVE  Ready(t, i) + told <= waiting + 1
  <2>1. i + 1 \in DOMAIN q /\ t[i] = q[i + 1] /\ i \in 0 .. Len(t)
      BY <1>1
  <2>2. Ready(q, i + 1) + told <= waiting + 1
      BY <1>7, <2>1 DEF AnnouncedIn
  <2>3. QED
      BY <1>1, <2>1, <2>2
<1>8. CASE Head(q)[1] = 1
  <2>1. Ready(q, 1) + told <= waiting + 1
      BY <1>1, <1>5, <1>8 DEF AnnouncedIn
  <2>2. Ready(t, 0) = Ready(q, 0 + 1) /\ 0 + 1 = 1
      BY <1>1, <1>5
  <2>3. Ready(t, 0) + told <= waiting + In(NoFrame, Frames) + 1
      BY <1>4, <1>6, <2>1, <2>2
  <2>4. AnnouncedIn(t, told, waiting, NoFrame)
      BY <1>7, <2>3 DEF AnnouncedIn
  <2>5. QED
      BY <1>8, <2>4 DEF t
<1>9. CASE Head(q)[1] # 1
  <2>1. Ready(q, 0) + told <= waiting + In(id, Frames) + 1
      BY DEF AnnouncedIn
  <2>2. Ready(t, 0) + told <= waiting + In(id, Frames) + 1
      BY <1>1, <1>4, <1>6, <2>1
  <2>3. AnnouncedIn(t, told, waiting, id)
      BY <1>7, <2>2 DEF AnnouncedIn
  <2>4. QED
      BY <1>9, <2>3 DEF t
<1>10. QED
    BY <1>8, <1>9

(* A frame that comes to wait makes room for its announcement.               *)
LEMMA AnnouncedNext ==
  ASSUME NEW q \in Seq(Notes), NEW told \in 0 .. 1, NEW waiting \in Nat, NEW id,
         AnnouncedIn(q, told, waiting, id)
  PROVE  AnnouncedIn(q, told + 1, waiting + 1, id)
<1>1. In(id, Frames) \in 0 .. 1 /\ Len(q) \in Nat /\ DOMAIN q = 1 .. Len(q)
    BY LenProperties DEF In
<1>2. Ready(q, 0) \in Nat /\ \A i \in DOMAIN q : Ready(q, i) \in Nat
  <2>1. 0 \in Nat /\ \A i \in DOMAIN q : i \in Nat
      BY <1>1
  <2>2. QED
      BY <2>1, CountNat DEF Ready
<1>3. Ready(q, 0) + (told + 1) <= (waiting + 1) + In(id, Frames) + 1
  <2>1. Ready(q, 0) + told <= waiting + In(id, Frames) + 1
      BY DEF AnnouncedIn
  <2>2. QED
      BY <1>1, <1>2, <2>1
<1>4. ASSUME NEW i \in DOMAIN q, q[i][1] = 1
      PROVE  Ready(q, i) + (told + 1) <= (waiting + 1) + 1
  <2>1. Ready(q, i) + told <= waiting + 1
      BY <1>4 DEF AnnouncedIn
  <2>2. QED
      BY <1>2, <2>1
<1>5. QED
    BY <1>3, <1>4 DEF AnnouncedIn

-----------------------------------------------------------------------------
(* The steps of Uart *)

(* No frame is lost, none is in two places.                                  *)
LEMMA EachKept ==
  ASSUME EachOnce, \A S \in SUBSET Frames : Places(S)' = Places(S)
  PROVE  EachOnce'
BY DEF EachOnce

(* What is unchanged keeps the invariant.                                    *)
LEMMA CalmUart ==
  ASSUME UartInv, UNCHANGED <<free, held, sendList, mqueue, app>>,
         DOMAIN rx' = DOMAIN rx, rx'.bytes \in Nat, rx'.current = rx.current,
         DOMAIN tx' = DOMAIN tx, tx'.out = tx.out,
         DOMAIN ip' = DOMAIN ip, ip'.frameOut = ip.frameOut
  PROVE  UartInv'
<1>1. UartTypes'
    BY DEF UartInv, UartTypes
<1>2. EachOnce'
  <2>1. \A S \in SUBSET Frames : Places(S)' = Places(S)
      BY DEF Places, Count
  <2>2. QED
      BY <2>1, EachKept DEF UartInv
<1>3. SentOnce'
    BY DEF UartInv, SentOnce, SentIn
<1>4. Announced'
    BY DEF UartInv, Announced, AnnouncedIn, Told, Waiting, Ready, Count
<1>5. QED
    BY <1>1, <1>2, <1>3, <1>4 DEF UartInv

(* What reading a byte does to the statics of UartPacketRead.                *)
LEMMA ReadKeeps ==
  ASSUME UartTypes, NEW byte
  PROVE  LET h == ReadHeader(rx, byte)
             d == ReadData(rx, byte)
         IN  /\ DOMAIN h = DOMAIN rx /\ h.bytes \in Nat /\ h.current = rx.current
             /\ DOMAIN d = DOMAIN rx /\ d.bytes \in Nat
             /\ rx.bytes >= 4 => d.current = IF IsGood(rx, byte) THEN NoFrame ELSE rx.current
<1>1. DOMAIN rx = {"bytes", "length", "current", "check", "sum"} /\ rx.bytes \in Nat
    BY DEF UartTypes
<1>2. LET h == ReadHeader(rx, byte)
      IN  DOMAIN h = DOMAIN rx /\ h.bytes \in Nat /\ h.current = rx.current
  <2>1. CASE rx.bytes = 0
      BY <1>1, <2>1 DEF ReadHeader
  <2>2. CASE rx.bytes = 1
      BY <1>1, <2>2 DEF ReadHeader
  <2>3. CASE rx.bytes = 2
      BY <1>1, <2>3 DEF ReadHeader
  <2>4. CASE rx.bytes \notin {0, 1, 2}
      BY <1>1, <2>4 DEF ReadHeader
  <2>5. QED
      BY <2>1, <2>2, <2>3, <2>4
<1> DEFINE n == [rx EXCEPT !.bytes = @ + 1, !.sum = @ + byte]
<1>3. DOMAIN n = DOMAIN rx /\ n.bytes = rx.bytes + 1 /\ n.current = rx.current /\ n.sum = rx.sum + byte
    BY <1>1
<1>4. ReadData(rx, byte) =
          IF ~IsLast(rx) THEN n
          ELSE IF n.sum % BASE = rx.check THEN [n EXCEPT !.bytes = 0, !.current = NoFrame]
          ELSE [n EXCEPT !.bytes = 0]
    BY DEF ReadData
<1> HIDE DEF n
<1>5. LET d == ReadData(rx, byte)
      IN  /\ DOMAIN d = DOMAIN rx /\ d.bytes \in Nat
          /\ rx.bytes >= 4 => d.current = IF IsGood(rx, byte) THEN NoFrame ELSE rx.current
    BY <1>1, <1>3, <1>4 DEF IsGood
<1>6. QED
    BY <1>2, <1>5

(* MyPacketGet takes a frame for the packet that comes.                      *)
LEMMA GetKept ==
  ASSUME UartInv, NEW byte, GetFrame(byte), UNCHANGED <<held, sendList, mqueue, app, tx, ip>>
  PROVE  UartInv'
<1>1. UartTypes
    BY DEF UartInv
<1> DEFINE h == ReadHeader(rx, byte)
<1>2. DOMAIN h = DOMAIN rx /\ h.bytes \in Nat /\ h.current = rx.current
    BY <1>1, ReadKeeps
<1>3. \/ rx.current = NoFrame /\ free # <<>> /\ rx' = [h EXCEPT !.current = Head(free)] /\ free' = Tail(free)
      \/ rx' = h /\ free' = free
    BY DEF GetFrame, WantsFrame, CanGet
<1> HIDE DEF h
<1>4. CASE rx' = h /\ free' = free
    BY <1>2, <1>4, CalmUart
<1>5. CASE rx.current = NoFrame /\ free # <<>> /\ rx' = [h EXCEPT !.current = Head(free)] /\ free' = Tail(free)
  <2>1. DOMAIN rx' = DOMAIN rx /\ rx'.bytes \in Nat /\ rx'.current = Head(free)
      BY <1>1, <1>2, <1>5 DEF UartTypes
  <2>2. free \in Seq(Frames) /\ Head(free) \in Frames /\ Tail(free) \in Seq(Frames)
      BY <1>1, <1>5, HeadTailProperties DEF UartTypes
  <2>3. UartTypes'
      BY <1>1, <1>5, <2>1, <2>2 DEF UartTypes, Handy
  <2>4. ASSUME NEW S \in SUBSET Frames
        PROVE  Places(S)' = Places(S)
    <3>1. Count(free, S, 0) = Count(Tail(free), S, 0) + In(Head(free), S)
        BY <1>5, <2>2, CountHead
    <3>2. Count(free, S, 0) \in Nat /\ Count(Tail(free), S, 0) \in Nat /\ In(Head(free), S) \in 0 .. 1
      <4>1. Count(Tail(free), S, 0) \in Nat
          BY <2>2, CountAll
      <4>2. In(Head(free), S) \in 0 .. 1
          BY DEF In
      <4>3. QED
          BY <1>1, <4>1, <4>2, PlacesNat
    <3>3. Places(S)' = Count(Tail(free), S, 0) + Count(held, S, 0) + Count(sendList, S, 0)
                       + Count(mqueue, {0} \X S, 0) + In(Head(free), S) + In(ip.frameOut, S) + In(app.frame, S)
        BY <1>5, <2>1 DEF Places, Count, In
    <3>4. In(rx.current, S) = 0
        BY <1>1, <1>5, PlacesNat
    <3>5. Places(S) = Count(free, S, 0) + Count(held, S, 0) + Count(sendList, S, 0)
                      + Count(mqueue, {0} \X S, 0) + In(rx.current, S) + In(ip.frameOut, S) + In(app.frame, S)
        BY DEF Places
    <3>6. /\ Count(held, S, 0) \in Nat /\ Count(sendList, S, 0) \in Nat
          /\ Count(mqueue, {0} \X S, 0) \in Nat /\ In(ip.frameOut, S) \in 0 .. 1 /\ In(app.frame, S) \in 0 .. 1
        BY <1>1, PlacesNat
    <3>7. QED
        BY <3>1, <3>2, <3>3, <3>4, <3>5, <3>6
  <2>5. EachOnce'
      BY <2>4, EachKept DEF UartInv
  <2>6. SentOnce' /\ Announced'
      BY DEF UartInv, SentOnce, SentIn, Announced, AnnouncedIn, Told, Waiting, Ready, Count
  <2>7. QED
      BY <2>3, <2>5, <2>6 DEF UartInv
<1>6. QED
    BY <1>3, <1>4, <1>5

(* A packet that is complete goes to the IP thread.                          *)
LEMMA PacketKept ==
  ASSUME UartInv, rx.current # NoFrame, DOMAIN rx' = DOMAIN rx, rx'.bytes \in Nat, rx'.current = NoFrame,
         Send(<<0, rx.current>>), UNCHANGED <<free, held, sendList, app, tx, ip>>
  PROVE  UartInv'
<1>1. UartTypes
    BY DEF UartInv
<1> DEFINE c == rx.current
           m == <<0, c>>
<1>2. mqueue' = Append(mqueue, m)
    BY QueueHasRoom DEF Send
<1>3. c \in Frames
    BY <1>1 DEF UartTypes, Handy
<1> HIDE DEF c
<1>4. m \in Notes /\ m[1] # 1 /\ In(m, {<<2, NoFrame>>}) = 0
    BY <1>3 DEF Notes, In
<1>5. \A S : In(m, {0} \X S) = In(c, S)
    BY DEF In
<1> HIDE DEF m
<1>6. mqueue \in Seq(Notes)
    BY <1>1 DEF UartTypes
<1>7. UartTypes'
  <2>1. mqueue' \in Seq(Notes)
      BY <1>2, <1>4, <1>6, NoteMore
  <2>2. QED
      BY <1>1, <2>1 DEF UartTypes, Handy
<1>8. ASSUME NEW S \in SUBSET Frames
      PROVE  Places(S)' = Places(S)
  <2>1. Count(mqueue', {0} \X S, 0) = Count(mqueue, {0} \X S, 0) + In(c, S)
    <3>1. 0 \in 0 .. Len(mqueue)
        BY <1>6, LenProperties
    <3>2. QED
        BY <1>2, <1>4, <1>5, <1>6, <3>1, NoteMore
  <2>2. Places(S)' = Count(free, S, 0) + Count(held, S, 0) + Count(sendList, S, 0)
                     + Count(mqueue', {0} \X S, 0) + In(NoFrame, S) + In(ip.frameOut, S) + In(app.frame, S)
      BY DEF Places, Count, In
  <2>3. In(c, S) = In(rx.current, S)
      BY DEF c
  <2>4. QED
      BY <1>1, <2>1, <2>2, <2>3, PlacesNat DEF Places
<1>9. EachOnce'
    BY <1>8, EachKept DEF UartInv
<1>10. SentOnce'
  <2>1. SentIn(Append(mqueue, m), tx.out, ip.frameOut)
      BY <1>4, <1>6, SentMore DEF UartInv, SentOnce
  <2>2. QED
      BY <1>2, <2>1 DEF SentOnce
<1>11. Announced'
  <2>1. Told \in 0 .. 1 /\ Told + In(m, {<<2, NoFrame>>}) = Told
      BY <1>4 DEF Told
  <2>2. Waiting \in Nat
      BY <1>1, PlacesNat DEF Waiting
  <2>3. AnnouncedIn(mqueue, Told + In(m, {<<2, NoFrame>>}), Waiting, ip.frameOut)
      BY <2>1 DEF UartInv, Announced
  <2>4. AnnouncedIn(Append(mqueue, m), Told, Waiting, ip.frameOut)
      BY <1>4, <1>6, <2>1, <2>2, <2>3, AnnouncedMore
  <2>5. Told' = Told /\ Waiting' = Waiting
      BY DEF Told, Waiting, Count
  <2>6. QED
      BY <1>2, <2>4, <2>5 DEF Announced
<1>12. QED
    BY <1>7, <1>9, <1>10, <1>11 DEF UartInv

(* The interrupt reads.                                                      *)
LEMMA ReadStep ==
  ASSUME UartInv, InterruptRead
  PROVE  UartInv'
<1>1. UNCHANGED <<held, sendList, app, tx, ip>>
    BY DEF InterruptRead, threads
<1>2. UartTypes
    BY DEF UartInv
<1> DEFINE byte == Head(line)
<1>3. \/ PacketRead(byte)
      \/ UNCHANGED <<free, rx, mqueue>>
    BY DEF InterruptRead, frameVars
<1> HIDE DEF byte
<1>4. CASE UNCHANGED <<free, rx, mqueue>>
    BY <1>1, <1>2, <1>4, CalmUart DEF UartTypes
<1>5. CASE PacketRead(byte) /\ rx.bytes < 4
  <2>1. GetFrame(byte) /\ UNCHANGED mqueue
      BY <1>5 DEF PacketRead
  <2>2. QED
      BY <1>1, <2>1, GetKept
<1>6. CASE PacketRead(byte) /\ ~(rx.bytes < 4)
  <2>1. rx.bytes >= 4
      BY <1>2, <1>6 DEF UartTypes
  <2>2. /\ rx' = ReadData(rx, byte) /\ UNCHANGED free
        /\ IF IsGood(rx, byte) /\ rx.current # NoFrame THEN Send(<<0, rx.current>>) ELSE UNCHANGED mqueue
      BY <1>6 DEF PacketRead
  <2>3. /\ DOMAIN rx' = DOMAIN rx /\ rx'.bytes \in Nat
        /\ rx'.current = IF IsGood(rx, byte) THEN NoFrame ELSE rx.current
      BY <1>2, <2>1, <2>2, ReadKeeps
  <2>4. CASE IsGood(rx, byte) /\ rx.current # NoFrame
      BY <1>1, <2>2, <2>3, <2>4, PacketKept
  <2>5. CASE ~(IsGood(rx, byte) /\ rx.current # NoFrame)
    <3>1. UNCHANGED mqueue /\ rx'.current = rx.current
        BY <2>2, <2>3, <2>5
    <3>2. QED
        BY <1>1, <2>2, <2>3, <3>1, CalmUart
  <2>6. QED
      BY <2>4, <2>5
<1>7. QED
    BY <1>3, <1>4, <1>5, <1>6

(* The last byte of a packet is out.                                         *)
LEMMA SentKept ==
  ASSUME UartInv, tx.out # NoFrame, DOMAIN tx' = DOMAIN tx, tx'.out = NoFrame, Send(<<1, tx.out>>),
         UNCHANGED <<free, held, sendList, rx, app, ip>>
  PROVE  UartInv'
<1>1. UartTypes /\ SentOnce
    BY DEF UartInv
<1> DEFINE c == tx.out
           m == <<1, c>>
<1>2. mqueue' = Append(mqueue, m)
    BY QueueHasRoom DEF Send
<1>3. c \in Frames /\ c = ip.frameOut
    BY <1>1 DEF UartTypes, Handy, SentOnce, SentIn
<1>4. mqueue \in Seq(Notes) /\ \A i \in DOMAIN mqueue : mqueue[i][1] # 1
    BY <1>1 DEF UartTypes, SentOnce, SentIn
<1> HIDE DEF c
<1>5. m \in Notes /\ m[1] = 1 /\ m[2] = c /\ In(m, {<<2, NoFrame>>}) = 0 /\ \A S : In(m, {0} \X S) = 0
    BY <1>3 DEF Notes, In
<1> HIDE DEF m
<1> DEFINE a == Append(mqueue, m)
<1>6. /\ a \in Seq(Notes) /\ Len(mqueue) \in Nat /\ DOMAIN mqueue = 1 .. Len(mqueue)
      /\ DOMAIN a = 1 .. Len(mqueue) + 1
      /\ a[Len(mqueue) + 1] = m /\ \A i \in 1 .. Len(mqueue) : a[i] = mqueue[i]
      /\ \A S : \A i \in 0 .. Len(mqueue) : Count(a, S, i) = Count(mqueue, S, i) + In(m, S)
    BY <1>4, <1>5, NoteMore
<1> HIDE DEF a
<1>7. mqueue' = a
    BY <1>2 DEF a
<1>8. UartTypes'
    BY <1>1, <1>6, <1>7 DEF UartTypes, Handy
<1>9. ASSUME NEW S \in SUBSET Frames
      PROVE  Places(S)' = Places(S)
  <2>1. 0 \in 0 .. Len(mqueue)
      BY <1>6
  <2>2. Count(a, {0} \X S, 0) = Count(mqueue, {0} \X S, 0) + In(m, {0} \X S)
      BY <1>6, <2>1
  <2>3. Count(a, {0} \X S, 0) = Count(mqueue, {0} \X S, 0)
      BY <1>1, <1>5, <2>2, PlacesNat
  <2>4. Places(S)' = Count(free, S, 0) + Count(held, S, 0) + Count(sendList, S, 0)
                     + Count(a, {0} \X S, 0) + In(rx.current, S) + In(ip.frameOut, S) + In(app.frame, S)
      BY <1>7 DEF Places, Count, In
  <2>5. QED
      BY <2>3, <2>4 DEF Places
<1>10. EachOnce'
    BY <1>9, EachKept DEF UartInv
<1>11. SentOnce'
  <2>1. \A i \in DOMAIN a : a[i][1] = 1 => i = Len(mqueue) + 1 /\ a[i] = m
      BY <1>4, <1>6
  <2>2. SentIn(a, NoFrame, ip.frameOut)
      BY <1>3, <1>5, <2>1 DEF SentIn
  <2>3. QED
      BY <1>7, <2>2 DEF SentOnce
<1>12. Announced'
  <2>1. Told \in 0 .. 1 /\ Told + In(m, {<<2, NoFrame>>}) = Told
      BY <1>5 DEF Told
  <2>2. Waiting \in Nat
      BY <1>1, PlacesNat DEF Waiting
  <2>3. AnnouncedIn(mqueue, Told + In(m, {<<2, NoFrame>>}), Waiting, ip.frameOut)
      BY <2>1 DEF UartInv, Announced
  <2>4. AnnouncedIn(Append(mqueue, m), Told, Waiting, ip.frameOut)
      BY <1>4, <1>5, <2>1, <2>2, <2>3, AnnouncedMore
  <2>5. Told' = Told /\ Waiting' = Waiting
      BY DEF Told, Waiting, Count
  <2>6. QED
      BY <1>2, <2>4, <2>5 DEF Announced
<1>13. QED
    BY <1>8, <1>10, <1>11, <1>12 DEF UartInv

(* The interrupt writes.                                                     *)
LEMMA WriteStep ==
  ASSUME UartInv, InterruptWrite
  PROVE  UartInv'
<1>1. UNCHANGED <<free, held, sendList, rx, app, ip>>
    BY DEF InterruptWrite, threads, frameVars
<1>2. UartTypes
    BY DEF UartInv
<1>3. \/ PacketWrite /\ tx.out # NoFrame
      \/ UNCHANGED <<tx, mqueue>>
    BY DEF InterruptWrite, WriteNext, CharacterWrite, NothingToWrite
<1>4. CASE UNCHANGED <<tx, mqueue>>
    BY <1>1, <1>2, <1>4, CalmUart DEF UartTypes
<1>5. CASE PacketWrite /\ tx.out # NoFrame
  <2>1. tx' = WriteOne(tx) /\ IF Sent(tx) THEN Send(<<1, tx.out>>) ELSE UNCHANGED mqueue
      BY <1>5 DEF PacketWrite
  <2>2. DOMAIN tx' = DOMAIN tx /\ tx'.out = IF Sent(tx) THEN NoFrame ELSE tx.out
      BY <1>2, <2>1 DEF WriteOne, UartTypes
  <2>3. CASE Sent(tx)
      BY <1>1, <1>5, <2>1, <2>2, <2>3, SentKept
  <2>4. CASE ~Sent(tx)
      BY <1>1, <1>2, <2>1, <2>2, <2>4, CalmUart DEF UartTypes
  <2>5. QED
      BY <2>3, <2>4
<1>6. QED
    BY <1>3, <1>4, <1>5

(* The IP thread takes a message.                                            *)
LEMMA NoteTaken ==
  ASSUME UartTypes, mqueue # <<>>, NEW kind, NEW id, kind = Head(mqueue)[1], id = Head(mqueue)[2]
  PROVE  /\ Tail(mqueue) \in Seq(Notes) /\ Head(mqueue) \in Notes
         /\ kind = 2 \/ (kind \in {0, 1} /\ id \in Frames)
         /\ \A S \in SUBSET Frames :
                /\ Count(Tail(mqueue), {0} \X S, 0) \in Nat
                /\ Count(mqueue, {0} \X S, 0) = Count(Tail(mqueue), {0} \X S, 0)
                                                + IF kind = 0 THEN In(id, S) ELSE 0
<1>1. mqueue \in Seq(Notes)
    BY DEF UartTypes
<1> DEFINE h == Head(mqueue)
<1>2. /\ Tail(mqueue) \in Seq(Notes) /\ h \in Notes
      /\ \A S : Count(mqueue, S, 0) = Count(Tail(mqueue), S, 0) + In(h, S)
    BY <1>1, NoteLess
<1>3. kind = h[1] /\ id = h[2]
    OBVIOUS
<1> HIDE DEF h
<1>4. kind = 2 \/ (kind \in {0, 1} /\ id \in Frames)
    BY <1>2, <1>3 DEF Notes
<1>5. \A S \in SUBSET Frames : In(h, {0} \X S) = IF kind = 0 THEN In(id, S) ELSE 0
    BY <1>2, <1>3 DEF Notes, In
<1>6. \A S : Count(Tail(mqueue), {0} \X S, 0) \in Nat
    BY <1>2, CountAll
<1>7. \A S \in SUBSET Frames :
          Count(mqueue, {0} \X S, 0) = Count(Tail(mqueue), {0} \X S, 0) + IF kind = 0 THEN In(id, S) ELSE 0
    BY <1>2, <1>5
<1>8. QED
    BY <1>2, <1>4, <1>6, <1>7 DEF h

(* At most one announcement is still to be made.                             *)
LEMMA ToldWaiting ==
  ASSUME UartTypes
  PROVE  Told \in 0 .. 1 /\ Waiting \in Nat
<1>1. Told \in 0 .. 1
    BY DEF Told
<1>2. Waiting \in Nat
    BY PlacesNat DEF Waiting
<1>3. QED
    BY <1>1, <1>2

(* A message is taken that is not of a frame that was sent, and its frame is  *)
(* freed or kept for a socket.                                               *)
LEMMA TakenKept ==
  ASSUME UartInv, mqueue # <<>>, mqueue' = Tail(mqueue), NEW kind, NEW id,
         kind = Head(mqueue)[1], id = Head(mqueue)[2], kind # 1,
         \/ kind = 0 /\ free' = <<id>> \o free /\ UNCHANGED held
         \/ kind = 0 /\ held' = Append(held, id) /\ UNCHANGED free
         \/ kind = 2 /\ UNCHANGED <<free, held>>,
         UNCHANGED <<sendList, rx, tx, app>>, DOMAIN ip' = DOMAIN ip, ip'.frameOut = ip.frameOut
  PROVE  UartInv'
<1>1. UartTypes
    BY DEF UartInv
<1>2. /\ Tail(mqueue) \in Seq(Notes) /\ Head(mqueue) \in Notes
      /\ kind = 2 \/ (kind \in {0, 1} /\ id \in Frames)
      /\ \A S \in SUBSET Frames :
             /\ Count(Tail(mqueue), {0} \X S, 0) \in Nat
             /\ Count(mqueue, {0} \X S, 0) = Count(Tail(mqueue), {0} \X S, 0)
                                             + IF kind = 0 THEN In(id, S) ELSE 0
  <2>1. kind = Head(mqueue)[1] /\ id = Head(mqueue)[2] /\ mqueue # <<>>
      OBVIOUS
  <2>2. QED
      BY <1>1, <2>1, NoteTaken
<1>3. free \in Seq(Frames) /\ held \in Seq(Frames) /\ mqueue \in Seq(Notes)
    BY <1>1 DEF UartTypes
<1>4. /\ free' \in Seq(Frames) /\ held' \in Seq(Frames)
      /\ \A S \in SUBSET Frames :
             Count(free', S, 0) + Count(held', S, 0)
                 = Count(free, S, 0) + Count(held, S, 0) + IF kind = 0 THEN In(id, S) ELSE 0
  <2>1. ASSUME NEW S \in SUBSET Frames
        PROVE  Count(free, S, 0) \in Nat /\ Count(held, S, 0) \in Nat /\ In(id, S) \in 0 .. 1
    <3>1. Count(free, S, 0) \in Nat /\ Count(held, S, 0) \in Nat
        BY <1>1, PlacesNat
    <3>2. In(id, S) \in 0 .. 1
        BY DEF In
    <3>3. QED
        BY <3>1, <3>2
  <2>2. CASE kind = 0 /\ free' = <<id>> \o free /\ UNCHANGED held
    <3>1. id \in Frames
        BY <1>2, <2>2
    <3>2. free' \in Seq(Frames) /\ \A S : Count(free', S, 0) = Count(free, S, 0) + In(id, S)
        BY <1>3, <2>2, <3>1, CountPush
    <3>3. ASSUME NEW S \in SUBSET Frames
          PROVE  Count(free', S, 0) + Count(held', S, 0) = Count(free, S, 0) + Count(held, S, 0) + In(id, S)
      <4>1. Count(held', S, 0) = Count(held, S, 0) /\ Count(free', S, 0) = Count(free, S, 0) + In(id, S)
          BY <2>2, <3>2
      <4>2. QED
          BY <2>1, <4>1
    <3>4. QED
        BY <1>3, <2>2, <3>2, <3>3
  <2>3. CASE kind = 0 /\ held' = Append(held, id) /\ UNCHANGED free
    <3>1. id \in Frames /\ 0 \in 0 .. Len(held)
        BY <1>2, <1>3, <2>3, LenProperties
    <3>2. held' \in Seq(Frames) /\ \A S : Count(held', S, 0) = Count(held, S, 0) + In(id, S)
        BY <1>3, <2>3, <3>1, CountAppend, AppendProperties
    <3>3. ASSUME NEW S \in SUBSET Frames
          PROVE  Count(free', S, 0) + Count(held', S, 0) = Count(free, S, 0) + Count(held, S, 0) + In(id, S)
      <4>1. Count(free', S, 0) = Count(free, S, 0) /\ Count(held', S, 0) = Count(held, S, 0) + In(id, S)
          BY <2>3, <3>2
      <4>2. QED
          BY <2>1, <4>1
    <3>4. QED
        BY <1>3, <2>3, <3>2, <3>3
  <2>4. CASE kind = 2 /\ UNCHANGED <<free, held>>
      BY <1>3, <2>1, <2>4
  <2>5. QED
      BY <2>2, <2>3, <2>4
<1>5. UartTypes'
    BY <1>1, <1>2, <1>4 DEF UartTypes
<1>6. ASSUME NEW S \in SUBSET Frames
      PROVE  Places(S)' = Places(S)
  <2>1. Places(S)' = Count(free', S, 0) + Count(held', S, 0) + Count(sendList, S, 0)
                     + Count(Tail(mqueue), {0} \X S, 0) + In(rx.current, S) + In(ip.frameOut, S) + In(app.frame, S)
      BY DEF Places, Count, In
  <2>2. Count(free', S, 0) \in Nat /\ Count(held', S, 0) \in Nat
      BY <1>4, CountAll
  <2>3. In(id, S) \in 0 .. 1
      BY DEF In
  <2> DEFINE x == IF kind = 0 THEN In(id, S) ELSE 0
  <2>4. x \in 0 .. 1
      BY <2>3
  <2>5. /\ Count(free', S, 0) + Count(held', S, 0) = Count(free, S, 0) + Count(held, S, 0) + x
        /\ Count(mqueue, {0} \X S, 0) = Count(Tail(mqueue), {0} \X S, 0) + x
        /\ Count(Tail(mqueue), {0} \X S, 0) \in Nat
      BY <1>2, <1>4
  <2> HIDE DEF x
  <2>6. Places(S) = Count(free, S, 0) + Count(held, S, 0) + Count(sendList, S, 0)
                    + Count(mqueue, {0} \X S, 0) + In(rx.current, S) + In(ip.frameOut, S) + In(app.frame, S)
      BY DEF Places
  <2>7. /\ Count(free, S, 0) \in Nat /\ Count(held, S, 0) \in Nat /\ Count(sendList, S, 0) \in Nat
        /\ In(rx.current, S) \in 0 .. 1 /\ In(ip.frameOut, S) \in 0 .. 1 /\ In(app.frame, S) \in 0 .. 1
      BY <1>1, PlacesNat
  <2>8. QED
      BY <2>1, <2>2, <2>4, <2>5, <2>6, <2>7
<1>7. EachOnce'
    BY <1>6, EachKept DEF UartInv
<1>8. SentOnce'
  <2>1. SentIn(Tail(mqueue), tx.out, ip.frameOut)
      BY <1>3, SentLess DEF UartInv, SentOnce
  <2>2. QED
      BY <2>1 DEF SentOnce
<1>9. Announced'
  <2>1. Told \in 0 .. 1 /\ Waiting \in Nat
      BY <1>1, ToldWaiting
  <2>2. AnnouncedIn(mqueue, Told, Waiting, ip.frameOut)
      BY DEF UartInv, Announced
  <2>3. AnnouncedIn(Tail(mqueue), Told, Waiting, IF Head(mqueue)[1] = 1 THEN NoFrame ELSE ip.frameOut)
      BY <1>3, <2>1, <2>2, AnnouncedLess
  <2>4. AnnouncedIn(Tail(mqueue), Told, Waiting, ip.frameOut)
      BY <2>3
  <2>5. Told' = Told /\ Waiting' = Waiting
      BY DEF Told, Waiting, Count
  <2>6. QED
      BY <2>4, <2>5 DEF Announced
<1>10. QED
    BY <1>5, <1>7, <1>8, <1>9 DEF UartInv

(* A frame that was sent is freed.                                           *)
LEMMA FreedKept ==
  ASSUME UartInv, mqueue # <<>>, mqueue' = Tail(mqueue), NEW kind, NEW id,
         kind = Head(mqueue)[1], id = Head(mqueue)[2], kind = 1, free' = <<id>> \o free,
         UNCHANGED <<held, sendList, rx, tx, app>>, DOMAIN ip' = DOMAIN ip, ip'.frameOut = NoFrame
  PROVE  UartInv'
<1>1. UartTypes
    BY DEF UartInv
<1>2. /\ Tail(mqueue) \in Seq(Notes) /\ Head(mqueue) \in Notes
      /\ kind = 2 \/ (kind \in {0, 1} /\ id \in Frames)
      /\ \A S \in SUBSET Frames :
             /\ Count(Tail(mqueue), {0} \X S, 0) \in Nat
             /\ Count(mqueue, {0} \X S, 0) = Count(Tail(mqueue), {0} \X S, 0)
                                             + IF kind = 0 THEN In(id, S) ELSE 0
  <2>1. kind = Head(mqueue)[1] /\ id = Head(mqueue)[2] /\ mqueue # <<>>
      OBVIOUS
  <2>2. QED
      BY <1>1, <2>1, NoteTaken
<1>3. free \in Seq(Frames) /\ mqueue \in Seq(Notes)
    BY <1>1 DEF UartTypes
<1>4. id = ip.frameOut /\ tx.out = NoFrame /\ SentIn(Tail(mqueue), tx.out, NoFrame)
  <2>1. SentIn(mqueue, tx.out, ip.frameOut)
      BY DEF UartInv, SentOnce
  <2>2. Head(mqueue)[1] = 1 => Head(mqueue)[2] = ip.frameOut /\ tx.out = NoFrame
                               /\ SentIn(Tail(mqueue), tx.out, NoFrame)
      BY <1>3, <2>1, SentLess
  <2>3. QED
      BY <2>2
<1>5. free' \in Seq(Frames) /\ \A S : Count(free', S, 0) = Count(free, S, 0) + In(id, S)
    BY <1>2, <1>3, CountPush
<1>6. UartTypes'
    BY <1>1, <1>2, <1>5 DEF UartTypes, Handy
<1>7. ASSUME NEW S \in SUBSET Frames
      PROVE  Places(S)' = Places(S)
  <2>1. Places(S)' = Count(free', S, 0) + Count(held, S, 0) + Count(sendList, S, 0)
                     + Count(Tail(mqueue), {0} \X S, 0) + In(rx.current, S) + In(NoFrame, S) + In(app.frame, S)
      BY DEF Places, Count, In
  <2>2. Count(mqueue, {0} \X S, 0) = Count(Tail(mqueue), {0} \X S, 0) /\ Count(Tail(mqueue), {0} \X S, 0) \in Nat
    <3>1. /\ Count(mqueue, {0} \X S, 0) = Count(Tail(mqueue), {0} \X S, 0) + IF kind = 0 THEN In(id, S) ELSE 0
          /\ Count(Tail(mqueue), {0} \X S, 0) \in Nat
        BY <1>2
    <3>2. (IF kind = 0 THEN In(id, S) ELSE 0) = 0
        OBVIOUS
    <3>3. QED
        BY <3>1, <3>2
  <2>3. Count(free', S, 0) = Count(free, S, 0) + In(ip.frameOut, S)
      BY <1>4, <1>5
  <2>4. Places(S) = Count(free, S, 0) + Count(held, S, 0) + Count(sendList, S, 0)
                    + Count(mqueue, {0} \X S, 0) + In(rx.current, S) + In(ip.frameOut, S) + In(app.frame, S)
      BY DEF Places
  <2>5. /\ Count(free, S, 0) \in Nat /\ Count(held, S, 0) \in Nat /\ Count(sendList, S, 0) \in Nat
        /\ In(rx.current, S) \in 0 .. 1 /\ In(ip.frameOut, S) \in 0 .. 1 /\ In(app.frame, S) \in 0 .. 1
        /\ In(NoFrame, S) = 0
      BY <1>1, PlacesNat
  <2>6. QED
      BY <2>1, <2>2, <2>3, <2>4, <2>5
<1>8. EachOnce'
    BY <1>7, EachKept DEF UartInv
<1>9. SentOnce'
    BY <1>4 DEF SentOnce
<1>10. Announced'
  <2>1. Told \in 0 .. 1 /\ Waiting \in Nat
      BY <1>1, ToldWaiting
  <2>2. AnnouncedIn(mqueue, Told, Waiting, ip.frameOut)
      BY DEF UartInv, Announced
  <2>3. AnnouncedIn(Tail(mqueue), Told, Waiting, IF Head(mqueue)[1] = 1 THEN NoFrame ELSE ip.frameOut)
      BY <1>3, <2>1, <2>2, AnnouncedLess
  <2>4. AnnouncedIn(Tail(mqueue), Told, Waiting, NoFrame)
      BY <2>3
  <2>5. Told' = Told /\ Waiting' = Waiting
      BY DEF Told, Waiting, Count
  <2>6. QED
      BY <2>4, <2>5 DEF Announced
<1>11. QED
    BY <1>6, <1>8, <1>9, <1>10 DEF UartInv

(* A frame more waits.                                                       *)
LEMMA WaitingMore ==
  ASSUME UartTypes, NEW id \in Frames
  PROVE  /\ Append(sendList, id) \in Seq(Frames)
         /\ \A S \in SUBSET Frames : Count(Append(sendList, id), S, 0) = Count(sendList, S, 0) + In(id, S)
         /\ Count(Append(sendList, id), Frames, 0) = Waiting + 1 /\ Waiting \in Nat
<1>1. sendList \in Seq(Frames) /\ 0 \in 0 .. Len(sendList)
    BY LenProperties DEF UartTypes
<1>2. \A S : Count(Append(sendList, id), S, 0) = Count(sendList, S, 0) + In(id, S)
    BY <1>1, CountAppend
<1>3. In(id, Frames) = 1
    BY DEF In
<1>4. QED
    BY <1>1, <1>2, <1>3, PlacesNat, AppendProperties DEF Waiting

(* A frame goes from one place to another, and a second one takes its place.*)
LEMMA FramesMove ==
  ASSUME NEW r \in Nat, NEW h \in Nat, NEW s \in Nat, NEW t \in Nat, NEW x \in 0 .. 1, NEW y \in 0 .. 1,
         NEW a \in 0 .. 1, NEW b \in 0 .. 1, NEW c \in 0 .. 1
  PROVE  (r + x) + h + (s + y) + t + a + b + c = (r + y) + h + s + (t + x) + a + b + c
OBVIOUS

(* A ping is answered with a frame of its own.                               *)
LEMMA AnswerKept ==
  ASSUME UartInv, mqueue # <<>>, NEW kind, NEW id,
         kind = Head(mqueue)[1], id = Head(mqueue)[2], kind = 0, free # <<>>,
         free' = <<id>> \o Tail(free), sendList' = Append(sendList, Head(free)),
         mqueue' = Append(Tail(mqueue), <<2, NoFrame>>),
         UNCHANGED <<held, rx, tx, app>>, DOMAIN ip' = DOMAIN ip, ip'.frameOut = ip.frameOut
  PROVE  UartInv'
<1>1. UartTypes
    BY DEF UartInv
<1> DEFINE g == Head(free)
           r == Tail(free)
           t == Tail(mqueue)
           m == <<2, NoFrame>>
<1>2. /\ t \in Seq(Notes) /\ id \in Frames
      /\ \A S \in SUBSET Frames :
             /\ Count(t, {0} \X S, 0) \in Nat
             /\ Count(mqueue, {0} \X S, 0) = Count(t, {0} \X S, 0) + IF kind = 0 THEN In(id, S) ELSE 0
    BY <1>1, NoteTaken
<1>3. free \in Seq(Frames) /\ mqueue \in Seq(Notes)
    BY <1>1 DEF UartTypes
<1>4. g \in Frames /\ r \in Seq(Frames) /\ \A S : Count(free, S, 0) = Count(r, S, 0) + In(g, S)
    BY <1>3, HeadTailProperties, CountHead
<1>5. m \in Notes /\ m[1] # 1 /\ In(m, {<<2, NoFrame>>}) = 1 /\ \A S : In(m, {0} \X S) = 0
    BY DEF Notes, In
<1>6. free' = <<id>> \o r /\ sendList' = Append(sendList, g) /\ mqueue' = Append(t, m)
    OBVIOUS
<1>7. SentIn(t, tx.out, ip.frameOut)
    BY <1>3, SentLess DEF UartInv, SentOnce
<1>8. AnnouncedIn(t, Told, Waiting, ip.frameOut) /\ Told \in 0 .. 1 /\ Waiting \in Nat
  <2>1. Told \in 0 .. 1 /\ Waiting \in Nat
      BY <1>1, ToldWaiting
  <2>2. AnnouncedIn(mqueue, Told, Waiting, ip.frameOut)
      BY DEF UartInv, Announced
  <2>3. AnnouncedIn(Tail(mqueue), Told, Waiting, IF Head(mqueue)[1] = 1 THEN NoFrame ELSE ip.frameOut)
      BY <1>3, <2>1, <2>2, AnnouncedLess
  <2>4. QED
      BY <2>1, <2>3
<1> HIDE DEF g, r, t, m
<1>9. free' \in Seq(Frames) /\ \A S : Count(free', S, 0) = Count(r, S, 0) + In(id, S)
  <2>1. id \in Frames /\ r \in Seq(Frames)
      BY <1>2, <1>4
  <2>2. <<id>> \o r \in Seq(Frames) /\ \A S : Count(<<id>> \o r, S, 0) = Count(r, S, 0) + In(id, S)
      BY <2>1, CountPush
  <2>3. QED
      BY <1>6, <2>2
<1>10. /\ sendList' \in Seq(Frames) /\ Count(sendList', Frames, 0) = Waiting + 1
       /\ \A S \in SUBSET Frames : Count(sendList', S, 0) = Count(sendList, S, 0) + In(g, S)
    BY <1>1, <1>4, <1>6, WaitingMore
<1>11. mqueue' \in Seq(Notes) /\ \A S : Count(mqueue', {0} \X S, 0) = Count(t, {0} \X S, 0) + 0
  <2>1. 0 \in 0 .. Len(t)
      BY <1>2, LenProperties
  <2>2. t \in Seq(Notes) /\ m \in Notes
      BY <1>2, <1>5
  <2>3. Append(t, m) \in Seq(Notes) /\ \A S : Count(Append(t, m), S, 0) = Count(t, S, 0) + In(m, S)
      BY <2>1, <2>2, NoteMore
  <2>4. \A S : Count(Append(t, m), {0} \X S, 0) = Count(t, {0} \X S, 0) + 0
      BY <1>5, <2>3
  <2>5. QED
      BY <1>6, <2>3, <2>4
<1>12. UartTypes'
    BY <1>1, <1>9, <1>10, <1>11 DEF UartTypes
<1>13. ASSUME NEW S \in SUBSET Frames
       PROVE  Places(S)' = Places(S)
  <2>1. Places(S)' = Count(free', S, 0) + Count(held, S, 0) + Count(sendList', S, 0)
                     + Count(mqueue', {0} \X S, 0) + In(rx.current, S) + In(ip.frameOut, S) + In(app.frame, S)
      BY DEF Places, Count, In
  <2>2. Count(r, S, 0) \in Nat /\ In(id, S) \in 0 .. 1 /\ In(g, S) \in 0 .. 1
    <3>1. Count(r, S, 0) \in Nat
        BY <1>4, CountAll
    <3>2. \A x : In(x, S) \in 0 .. 1
        BY DEF In
    <3>3. QED
        BY <3>1, <3>2
  <2>3. /\ Count(free', S, 0) = Count(r, S, 0) + In(id, S)
        /\ Count(free, S, 0) = Count(r, S, 0) + In(g, S)
        /\ Count(sendList', S, 0) = Count(sendList, S, 0) + In(g, S)
        /\ Count(mqueue', {0} \X S, 0) = Count(t, {0} \X S, 0)
        /\ Count(mqueue, {0} \X S, 0) = Count(t, {0} \X S, 0) + In(id, S)
        /\ Count(t, {0} \X S, 0) \in Nat
    <3>1. Count(t, {0} \X S, 0) \in Nat
          /\ Count(mqueue, {0} \X S, 0) = Count(t, {0} \X S, 0) + IF kind = 0 THEN In(id, S) ELSE 0
        BY <1>2
    <3>2. (IF kind = 0 THEN In(id, S) ELSE 0) = In(id, S)
        OBVIOUS
    <3>3. Count(free', S, 0) = Count(r, S, 0) + In(id, S) /\ Count(free, S, 0) = Count(r, S, 0) + In(g, S)
        BY <1>4, <1>9
    <3>4. Count(sendList', S, 0) = Count(sendList, S, 0) + In(g, S)
        BY <1>10
    <3>5. Count(mqueue', {0} \X S, 0) = Count(t, {0} \X S, 0) + 0
        BY <1>11
    <3>6. QED
        BY <3>1, <3>2, <3>3, <3>4, <3>5
  <2>4. Places(S) = Count(free, S, 0) + Count(held, S, 0) + Count(sendList, S, 0)
                    + Count(mqueue, {0} \X S, 0) + In(rx.current, S) + In(ip.frameOut, S) + In(app.frame, S)
      BY DEF Places
  <2>5. /\ Count(free, S, 0) \in Nat /\ Count(held, S, 0) \in Nat /\ Count(sendList, S, 0) \in Nat
        /\ In(rx.current, S) \in 0 .. 1 /\ In(ip.frameOut, S) \in 0 .. 1 /\ In(app.frame, S) \in 0 .. 1
        /\ In(NoFrame, S) = 0
      BY <1>1, PlacesNat
  <2>6. Places(S)' = (Count(r, S, 0) + In(id, S)) + Count(held, S, 0) + (Count(sendList, S, 0) + In(g, S))
                     + Count(t, {0} \X S, 0) + In(rx.current, S) + In(ip.frameOut, S) + In(app.frame, S)
      BY <2>1, <2>3, Zenon
  <2>7. Places(S) = (Count(r, S, 0) + In(g, S)) + Count(held, S, 0) + Count(sendList, S, 0)
                    + (Count(t, {0} \X S, 0) + In(id, S)) + In(rx.current, S) + In(ip.frameOut, S) + In(app.frame, S)
      BY <2>3, <2>4, Zenon
  <2> DEFINE a1 == Count(r, S, 0)
             a2 == In(id, S)
             a3 == Count(held, S, 0)
             a4 == Count(sendList, S, 0)
             a5 == In(g, S)
             a6 == Count(t, {0} \X S, 0)
             a7 == In(rx.current, S)
             a8 == In(ip.frameOut, S)
             a9 == In(app.frame, S)
  <2>8. /\ a1 \in Nat /\ a2 \in 0 .. 1 /\ a3 \in Nat /\ a4 \in Nat /\ a5 \in 0 .. 1 /\ a6 \in Nat
        /\ a7 \in 0 .. 1 /\ a8 \in 0 .. 1 /\ a9 \in 0 .. 1
      BY <2>2, <2>3, <2>5
  <2>9. /\ Places(S)' = (a1 + a2) + a3 + (a4 + a5) + a6 + a7 + a8 + a9
        /\ Places(S) = (a1 + a5) + a3 + a4 + (a6 + a2) + a7 + a8 + a9
      BY <2>6, <2>7, Zenon
  <2> HIDE DEF a1, a2, a3, a4, a5, a6, a7, a8, a9
  <2>10. (a1 + a2) + a3 + (a4 + a5) + a6 + a7 + a8 + a9 = (a1 + a5) + a3 + a4 + (a6 + a2) + a7 + a8 + a9
      BY <2>8, FramesMove
  <2>11. QED
      BY <2>9, <2>10, Zenon
<1>14. EachOnce'
    BY <1>13, EachKept DEF UartInv
<1>15. SentOnce'
  <2>1. SentIn(Append(t, m), tx.out, ip.frameOut)
      BY <1>2, <1>5, <1>7, SentMore
  <2>2. QED
      BY <1>6, <2>1 DEF SentOnce
<1>16. Announced'
  <2>1. AnnouncedIn(t, Told + 1, Waiting + 1, ip.frameOut)
      BY <1>2, <1>8, AnnouncedNext
  <2>2. AnnouncedIn(Append(t, m), Told, Waiting + 1, ip.frameOut)
    <3> DEFINE w == Waiting + 1
    <3>1. w \in Nat /\ AnnouncedIn(t, Told + In(m, {<<2, NoFrame>>}), w, ip.frameOut)
        BY <1>5, <1>8, <2>1
    <3> HIDE DEF w
    <3>2. AnnouncedIn(Append(t, m), Told, w, ip.frameOut)
        BY <1>2, <1>5, <1>8, <3>1, AnnouncedMore
    <3>3. QED
        BY <3>2 DEF w
  <2>3. Told' = Told /\ Waiting' = Waiting + 1
      BY <1>10 DEF Told, Waiting, Count
  <2>4. QED
      BY <1>6, <2>2, <2>3 DEF Announced
<1>17. QED
    BY <1>12, <1>14, <1>15, <1>16 DEF UartInv

(* The IP thread handles a message.                                          *)
LEMMA GetStep ==
  ASSUME UartInv, MainGet
  PROVE  UartInv'
<1>1. UartTypes
    BY DEF UartInv
<1> DEFINE kind == Head(mqueue)[1]
           id   == Head(mqueue)[2]
<1>2. mqueue # <<>> /\ UNCHANGED <<rx, tx, app>>
    BY DEF MainGet
<1>3. DOMAIN ip = {"at", "frameOut"}
    BY <1>1 DEF UartTypes
<1>4. kind = Head(mqueue)[1] /\ id = Head(mqueue)[2]
    OBVIOUS
<1>5. kind = 2 \/ (kind \in {0, 1} /\ id \in Frames)
    BY <1>1, <1>2, <1>4, NoteTaken
<1>6. /\ kind = 0 => FrameReceived(id)
      /\ kind = 1 => FrameSent(id)
      /\ kind = 2 => FrameReady
    BY DEF MainGet
<1> HIDE DEF kind, id
<1>7. CASE kind = 0
  <2>1. FrameReceived(id)
      BY <1>6, <1>7
  <2>2. DOMAIN ip' = DOMAIN ip /\ ip'.frameOut = ip.frameOut
      BY <1>3, <2>1 DEF FrameReceived
  <2>3. \/ Answer(id) /\ UNCHANGED held
        \/ Keep(id)
      BY <2>1 DEF FrameReceived
  <2>4. CASE Answer(id) /\ UNCHANGED held /\ free # <<>> /\ CanGet(FRAME_COUNT_SEND)
    <3>1. /\ free' = <<id>> \o Tail(free) /\ sendList' = Append(sendList, Head(free))
          /\ mqueue' = Append(Tail(mqueue), <<2, NoFrame>>)
        BY <2>4 DEF Answer, SendFrame
    <3>2. QED
        BY <1>2, <1>4, <1>7, <2>2, <2>4, <3>1, AnswerKept
  <2>5. CASE Answer(id) /\ UNCHANGED held /\ ~CanGet(FRAME_COUNT_SEND)
    <3>1. free' = <<id>> \o free /\ mqueue' = Tail(mqueue) /\ UNCHANGED <<sendList, held>>
        BY <2>5 DEF Answer
    <3>2. kind # 1
        BY <1>7
    <3>3. QED
        BY <1>2, <1>4, <1>7, <2>2, <3>1, <3>2, TakenKept
  <2>6. CASE Keep(id)
    <3>1. held' = Append(held, id) /\ mqueue' = Tail(mqueue) /\ UNCHANGED <<free, sendList>>
        BY <2>6 DEF Keep, frameVars
    <3>2. kind # 1
        BY <1>7
    <3>3. QED
        BY <1>2, <1>4, <1>7, <2>2, <3>1, <3>2, TakenKept
  <2>7. QED
      BY <2>3, <2>4, <2>5, <2>6 DEF CanGet
<1>8. CASE kind = 1
  <2>1. free' = <<id>> \o free /\ mqueue' = Tail(mqueue) /\ UNCHANGED <<sendList, held>>
        /\ ip' = [at |-> "send", frameOut |-> NoFrame]
      BY <1>6, <1>8 DEF FrameSent
  <2>2. DOMAIN ip' = DOMAIN ip /\ ip'.frameOut = NoFrame
      BY <1>3, <2>1
  <2>3. QED
      BY <1>2, <1>4, <1>8, <2>1, <2>2, FreedKept
<1>9. CASE kind = 2
  <2>1. mqueue' = Tail(mqueue) /\ UNCHANGED <<free, sendList, held>> /\ ip' = [ip EXCEPT !.at = "send"]
      BY <1>6, <1>9 DEF FrameReady, frameVars
  <2>2. DOMAIN ip' = DOMAIN ip /\ ip'.frameOut = ip.frameOut
      BY <1>3, <2>1
  <2>3. kind # 1
      BY <1>9
  <2>4. QED
      BY <1>2, <1>4, <1>9, <2>1, <2>2, <2>3, TakenKept
<1>10. QED
    BY <1>5, <1>7, <1>8, <1>9

(* The IP thread gives the next frame to the UART.                           *)
LEMMA NextKept ==
  ASSUME UartInv, ip.frameOut = NoFrame, sendList # <<>>, sendList' = Tail(sendList),
         DOMAIN tx' = DOMAIN tx, tx'.out = Head(sendList),
         DOMAIN ip' = DOMAIN ip, ip'.frameOut = Head(sendList),
         UNCHANGED <<free, held, mqueue, rx, app>>
  PROVE  UartInv'
<1>1. UartTypes
    BY DEF UartInv
<1> DEFINE g == Head(sendList)
           r == Tail(sendList)
<1>2. sendList \in Seq(Frames) /\ mqueue \in Seq(Notes)
    BY <1>1 DEF UartTypes
<1>3. g \in Frames /\ r \in Seq(Frames) /\ \A S : Count(sendList, S, 0) = Count(r, S, 0) + In(g, S)
    BY <1>2, HeadTailProperties, CountHead
<1>4. sendList' = r /\ tx'.out = g /\ ip'.frameOut = g
    OBVIOUS
<1> HIDE DEF g, r
<1>5. UartTypes'
    BY <1>1, <1>3, <1>4 DEF UartTypes, Handy
<1>6. ASSUME NEW S \in SUBSET Frames
      PROVE  Places(S)' = Places(S)
  <2>1. Places(S)' = Count(free, S, 0) + Count(held, S, 0) + Count(r, S, 0)
                     + Count(mqueue, {0} \X S, 0) + In(rx.current, S) + In(g, S) + In(app.frame, S)
      BY <1>4 DEF Places, Count, In
  <2>2. Count(r, S, 0) \in Nat
      BY <1>3, CountAll
  <2>3. In(g, S) \in 0 .. 1
      BY DEF In
  <2>4. In(ip.frameOut, S) = 0 /\ Count(sendList, S, 0) = Count(r, S, 0) + In(g, S)
      BY <1>1, <1>3, PlacesNat
  <2>5. Places(S) = Count(free, S, 0) + Count(held, S, 0) + Count(sendList, S, 0)
                    + Count(mqueue, {0} \X S, 0) + In(rx.current, S) + In(ip.frameOut, S) + In(app.frame, S)
      BY DEF Places
  <2>6. /\ Count(free, S, 0) \in Nat /\ Count(held, S, 0) \in Nat /\ Count(mqueue, {0} \X S, 0) \in Nat
        /\ In(rx.current, S) \in 0 .. 1 /\ In(app.frame, S) \in 0 .. 1
      BY <1>1, PlacesNat
  <2>7. QED
      BY <2>1, <2>2, <2>3, <2>4, <2>5, <2>6
<1>7. EachOnce'
    BY <1>6, EachKept DEF UartInv
<1>8. \A i \in DOMAIN mqueue : mqueue[i][1] # 1
  <2> SUFFICES ASSUME NEW i \in DOMAIN mqueue, mqueue[i][1] = 1
               PROVE  FALSE
      OBVIOUS
  <2>1. mqueue[i][2] = NoFrame
      BY DEF UartInv, SentOnce, SentIn
  <2>2. mqueue[i] \in Notes
      BY <1>2
  <2>3. QED
      BY <2>1, <2>2 DEF Notes, Frames, NoFrame
<1>9. SentOnce'
    BY <1>4, <1>8 DEF SentOnce, SentIn
<1>10. Announced'
  <2>1. Ready(mqueue, 0) + Told <= Waiting + In(ip.frameOut, Frames) + 1
      BY DEF UartInv, Announced, AnnouncedIn
  <2>2. In(ip.frameOut, Frames) = 0 /\ In(g, Frames) = 1
      BY <1>1, <1>3, PlacesNat DEF In
  <2>3. Waiting = Waiting' + 1 /\ Waiting' \in Nat /\ Told' = Told
    <3>1. Waiting' = Count(r, Frames, 0) /\ Told' = Told
        BY <1>4 DEF Waiting, Told
    <3>2. Count(r, Frames, 0) \in Nat
        BY <1>3, CountAll
    <3>3. Waiting = Count(r, Frames, 0) + In(g, Frames)
        BY <1>3 DEF Waiting
    <3>4. QED
        BY <2>2, <3>1, <3>2, <3>3
  <2>4. Ready(mqueue, 0) \in Nat /\ Told \in 0 .. 1
      BY <1>1, <1>2, CountAll, ToldWaiting DEF Ready
  <2>5. Ready(mqueue, 0) + Told' <= Waiting' + In(g, Frames) + 1
      BY <2>1, <2>2, <2>3, <2>4
  <2>6. AnnouncedIn(mqueue, Told', Waiting', g)
      BY <1>8, <2>5 DEF AnnouncedIn
  <2>7. QED
      BY <1>4, <2>6 DEF Announced, AnnouncedIn, Ready, Count
<1>11. QED
    BY <1>5, <1>7, <1>9, <1>10 DEF UartInv

(* A turn of the IP thread.                                                  *)
LEMMA MainStep ==
  ASSUME UartInv, Main
  PROVE  UartInv'
<1>1. UartTypes
    BY DEF UartInv
<1>2. DOMAIN ip = {"at", "frameOut"} /\ DOMAIN tx = {"out", "length", "byte"} /\ rx.bytes \in Nat
    BY <1>1 DEF UartTypes
<1>3. CASE MainGet
    BY <1>3, GetStep
<1>4. CASE MainTimeout
  <2>1. UNCHANGED <<free, held, sendList, mqueue, app, rx, tx>> /\ ip' = [ip EXCEPT !.at = "send"]
      BY <1>4 DEF MainTimeout, frameVars, threads
  <2>2. DOMAIN ip' = DOMAIN ip /\ ip'.frameOut = ip.frameOut
      BY <1>2, <2>1
  <2>3. QED
      BY <1>2, <2>1, <2>2, CalmUart
<1>5. CASE MainSend /\ MayTake
  <2>1. /\ ip.frameOut = NoFrame /\ sendList # <<>> /\ sendList' = Tail(sendList)
        /\ UNCHANGED <<free, held, mqueue, rx, app>>
      BY <1>5 DEF MainSend, MayTake, frameVars, threads
  <2>2. /\ ip' = [at |-> "get", frameOut |-> Head(sendList)]
        /\ tx' = [out |-> Head(sendList), length |-> Len(packet[Head(sendList)]), byte |-> 0]
      BY <1>5 DEF MainSend, UartPacketSend
  <2>3. DOMAIN ip' = DOMAIN ip /\ DOMAIN tx' = DOMAIN tx
        /\ ip'.frameOut = Head(sendList) /\ tx'.out = Head(sendList)
      BY <1>2, <2>2
  <2>4. QED
      BY <2>1, <2>3, NextKept
<1>6. CASE MainSend /\ ~MayTake
  <2>1. UNCHANGED <<free, held, sendList, mqueue, app, rx, tx>> /\ ip' = [ip EXCEPT !.at = "get"]
      BY <1>6 DEF MainSend, frameVars, threads
  <2>2. DOMAIN ip' = DOMAIN ip /\ ip'.frameOut = ip.frameOut
      BY <1>2, <2>1
  <2>3. QED
      BY <1>2, <2>1, <2>2, CalmUart
<1>7. QED
    BY <1>3, <1>4, <1>5, <1>6 DEF Main

(* The socket's thread reads a packet and frees it.                          *)
LEMMA AppReadStep ==
  ASSUME UartInv, AppRead
  PROVE  UartInv'
<1>1. UartTypes
    BY DEF UartInv
<1>2. /\ held # <<>> /\ free' = <<Head(held)>> \o free /\ held' = Tail(held)
      /\ UNCHANGED <<sendList, mqueue, rx, tx, ip, app>>
    BY DEF AppRead
<1> DEFINE g == Head(held)
           r == Tail(held)
<1>3. free \in Seq(Frames) /\ held \in Seq(Frames)
    BY <1>1 DEF UartTypes
<1>4. g \in Frames /\ r \in Seq(Frames) /\ \A S : Count(held, S, 0) = Count(r, S, 0) + In(g, S)
    BY <1>2, <1>3, HeadTailProperties, CountHead
<1>5. <<g>> \o free \in Seq(Frames) /\ \A S : Count(<<g>> \o free, S, 0) = Count(free, S, 0) + In(g, S)
    BY <1>3, <1>4, CountPush
<1>6. free' = <<g>> \o free /\ held' = r
    BY <1>2
<1> HIDE DEF g, r
<1>7. UartTypes'
    BY <1>1, <1>2, <1>4, <1>5, <1>6 DEF UartTypes
<1>8. ASSUME NEW S \in SUBSET Frames
      PROVE  Places(S)' = Places(S)
  <2>1. Places(S)' = Count(free', S, 0) + Count(r, S, 0) + Count(sendList, S, 0)
                     + Count(mqueue, {0} \X S, 0) + In(rx.current, S) + In(ip.frameOut, S) + In(app.frame, S)
      BY <1>2, <1>6 DEF Places, Count, In
  <2>2. Count(r, S, 0) \in Nat
      BY <1>4, CountAll
  <2>3. In(g, S) \in 0 .. 1
      BY DEF In
  <2>4. Count(free', S, 0) = Count(free, S, 0) + In(g, S) /\ Count(held, S, 0) = Count(r, S, 0) + In(g, S)
      BY <1>4, <1>5, <1>6
  <2>5. Places(S) = Count(free, S, 0) + Count(held, S, 0) + Count(sendList, S, 0)
                    + Count(mqueue, {0} \X S, 0) + In(rx.current, S) + In(ip.frameOut, S) + In(app.frame, S)
      BY DEF Places
  <2>6. /\ Count(free, S, 0) \in Nat /\ Count(sendList, S, 0) \in Nat /\ Count(mqueue, {0} \X S, 0) \in Nat
        /\ In(rx.current, S) \in 0 .. 1 /\ In(ip.frameOut, S) \in 0 .. 1 /\ In(app.frame, S) \in 0 .. 1
      BY <1>1, PlacesNat
  <2>7. QED
      BY <2>1, <2>2, <2>3, <2>4, <2>5, <2>6
<1>9. EachOnce'
    BY <1>8, EachKept DEF UartInv
<1>10. SentOnce' /\ Announced'
    BY <1>2 DEF UartInv, SentOnce, SentIn, Announced, AnnouncedIn, Told, Waiting, Ready, Count
<1>11. QED
    BY <1>7, <1>9, <1>10 DEF UartInv

(* It takes a frame for a packet.                                            *)
LEMMA AppWriteStep ==
  ASSUME UartInv, AppWrite
  PROVE  UartInv'
<1>1. UartTypes
    BY DEF UartInv
<1>2. /\ app.at = "run" /\ free # <<>> /\ free' = Tail(free)
      /\ app' = [at |-> "insert", frame |-> Head(free), sends |-> Tail(app.sends)]
      /\ UNCHANGED <<held, sendList, mqueue, rx, tx, ip>>
    BY DEF AppWrite, CanGet
<1> DEFINE g == Head(free)
           r == Tail(free)
<1>3. free \in Seq(Frames) /\ app.frame = NoFrame
    BY <1>1, <1>2 DEF UartTypes
<1>4. g \in Frames /\ r \in Seq(Frames) /\ \A S : Count(free, S, 0) = Count(r, S, 0) + In(g, S)
    BY <1>2, <1>3, HeadTailProperties, CountHead
<1>5. free' = r /\ app'.frame = g /\ app'.at = "insert" /\ DOMAIN app' = {"at", "frame", "sends"}
    BY <1>2
<1>6. g # NoFrame
    BY <1>4 DEF Frames, NoFrame
<1> HIDE DEF g, r
<1>7. UartTypes'
    BY <1>1, <1>2, <1>4, <1>5, <1>6 DEF UartTypes, Handy
<1>8. ASSUME NEW S \in SUBSET Frames
      PROVE  Places(S)' = Places(S)
  <2>1. Places(S)' = Count(r, S, 0) + Count(held, S, 0) + Count(sendList, S, 0)
                     + Count(mqueue, {0} \X S, 0) + In(rx.current, S) + In(ip.frameOut, S) + In(g, S)
      BY <1>2, <1>5 DEF Places, Count, In
  <2>2. Count(r, S, 0) \in Nat
      BY <1>4, CountAll
  <2>3. In(g, S) \in 0 .. 1
      BY DEF In
  <2>4. In(app.frame, S) = 0 /\ Count(free, S, 0) = Count(r, S, 0) + In(g, S)
      BY <1>1, <1>3, <1>4, PlacesNat
  <2>5. Places(S) = Count(free, S, 0) + Count(held, S, 0) + Count(sendList, S, 0)
                    + Count(mqueue, {0} \X S, 0) + In(rx.current, S) + In(ip.frameOut, S) + In(app.frame, S)
      BY DEF Places
  <2>6. /\ Count(held, S, 0) \in Nat /\ Count(sendList, S, 0) \in Nat /\ Count(mqueue, {0} \X S, 0) \in Nat
        /\ In(rx.current, S) \in 0 .. 1 /\ In(ip.frameOut, S) \in 0 .. 1
      BY <1>1, PlacesNat
  <2>7. QED
      BY <2>1, <2>2, <2>3, <2>4, <2>5, <2>6
<1>9. EachOnce'
    BY <1>8, EachKept DEF UartInv
<1>10. SentOnce'
    BY <1>2 DEF UartInv, SentOnce, SentIn
<1>11. Announced'
  <2>1. Told' = Told /\ Waiting' = Waiting
      BY <1>2, <1>5 DEF Told, Waiting, Count
  <2>2. QED
      BY <1>2, <2>1 DEF UartInv, Announced, AnnouncedIn, Ready, Count
<1>12. QED
    BY <1>7, <1>9, <1>10, <1>11 DEF UartInv

(* The packet waits to be sent.                                              *)
LEMMA AppInsertStep ==
  ASSUME UartInv, AppInsert
  PROVE  UartInv'
<1>1. UartTypes
    BY DEF UartInv
<1> DEFINE g == app.frame
<1>2. /\ app.at = "insert" /\ app' = [app EXCEPT !.at = "tell", !.frame = NoFrame]
      /\ sendList' = Append(sendList, g) /\ UNCHANGED <<free, held, mqueue, rx, tx, ip>>
    BY DEF AppInsert, SendFrame, frameVars
<1>3. g \in Frames /\ mqueue \in Seq(Notes)
    BY <1>1, <1>2 DEF UartTypes, Handy
<1>4. app'.at = "tell" /\ app'.frame = NoFrame /\ DOMAIN app' = DOMAIN app
    BY <1>1, <1>2 DEF UartTypes
<1>5. /\ sendList' \in Seq(Frames) /\ Count(sendList', Frames, 0) = Waiting + 1 /\ Waiting \in Nat
      /\ \A S \in SUBSET Frames : Count(sendList', S, 0) = Count(sendList, S, 0) + In(g, S)
  <2>1. /\ Append(sendList, g) \in Seq(Frames)
        /\ \A S \in SUBSET Frames : Count(Append(sendList, g), S, 0) = Count(sendList, S, 0) + In(g, S)
        /\ Count(Append(sendList, g), Frames, 0) = Waiting + 1 /\ Waiting \in Nat
      BY <1>1, <1>3, WaitingMore
  <2>2. sendList' = Append(sendList, g)
      BY <1>2
  <2> HIDE DEF g
  <2>3. QED
      BY <2>1, <2>2
<1>6. UartTypes'
    BY <1>1, <1>2, <1>4, <1>5 DEF UartTypes, Handy
<1>7. ASSUME NEW S \in SUBSET Frames
      PROVE  Places(S)' = Places(S)
  <2>1. Places(S)' = Count(free, S, 0) + Count(held, S, 0) + Count(sendList', S, 0)
                     + Count(mqueue, {0} \X S, 0) + In(rx.current, S) + In(ip.frameOut, S) + In(NoFrame, S)
      BY <1>2, <1>4 DEF Places, Count, In
  <2>2. Count(sendList', S, 0) = Count(sendList, S, 0) + In(app.frame, S)
      BY <1>5
  <2>3. Places(S) = Count(free, S, 0) + Count(held, S, 0) + Count(sendList, S, 0)
                    + Count(mqueue, {0} \X S, 0) + In(rx.current, S) + In(ip.frameOut, S) + In(app.frame, S)
      BY DEF Places
  <2>4. QED
      BY <1>1, <2>1, <2>2, <2>3, PlacesNat
<1>8. EachOnce'
    BY <1>7, EachKept DEF UartInv
<1>9. SentOnce'
    BY <1>2 DEF UartInv, SentOnce, SentIn
<1>10. Announced'
  <2>1. Told = 0 /\ Told' = 1 /\ Waiting' = Waiting + 1
      BY <1>2, <1>4, <1>5 DEF Told, Waiting
  <2>2. AnnouncedIn(mqueue, Told, Waiting, ip.frameOut)
      BY DEF UartInv, Announced
  <2>3. AnnouncedIn(mqueue, Told + 1, Waiting + 1, ip.frameOut)
      BY <1>1, <1>3, <2>2, ToldWaiting, AnnouncedNext
  <2>4. Told + 1 = Told'
      BY <2>1
  <2>5. AnnouncedIn(mqueue, Told', Waiting', ip.frameOut)
      BY <2>1, <2>3, <2>4
  <2>6. QED
      BY <1>2, <2>5 DEF Announced
<1>11. QED
    BY <1>6, <1>8, <1>9, <1>10 DEF UartInv

(* It is announced.                                                          *)
LEMMA AppTellStep ==
  ASSUME UartInv, AppTell
  PROVE  UartInv'
<1>1. UartTypes
    BY DEF UartInv
<1> DEFINE m == <<2, NoFrame>>
<1>2. /\ app.at = "tell" /\ app' = [app EXCEPT !.at = "run"] /\ Send(m)
      /\ UNCHANGED <<free, held, sendList, rx, tx, ip>>
    BY DEF AppTell, frameVars
<1>3. mqueue' = Append(mqueue, m)
    BY <1>2, QueueHasRoom DEF Send
<1>4. m \in Notes /\ m[1] # 1 /\ In(m, {<<2, NoFrame>>}) = 1 /\ \A S : In(m, {0} \X S) = 0
    BY DEF Notes, In
<1> HIDE DEF m
<1>5. mqueue \in Seq(Notes)
    BY <1>1 DEF UartTypes
<1>6. app'.at = "run" /\ app'.frame = app.frame /\ DOMAIN app' = DOMAIN app
    BY <1>1, <1>2 DEF UartTypes
<1>7. /\ Append(mqueue, m) \in Seq(Notes)
      /\ \A S : Count(Append(mqueue, m), S, 0) = Count(mqueue, S, 0) + In(m, S)
  <2>1. 0 \in 0 .. Len(mqueue)
      BY <1>5, LenProperties
  <2>2. QED
      BY <1>4, <1>5, <2>1, NoteMore
<1>8. UartTypes'
    BY <1>1, <1>2, <1>3, <1>6, <1>7 DEF UartTypes
<1>9. ASSUME NEW S \in SUBSET Frames
      PROVE  Places(S)' = Places(S)
  <2>1. Count(mqueue', {0} \X S, 0) = Count(mqueue, {0} \X S, 0)
    <3>1. Count(mqueue', {0} \X S, 0) = Count(mqueue, {0} \X S, 0) + 0
        BY <1>3, <1>4, <1>7
    <3>2. QED
        BY <1>1, <3>1, PlacesNat
  <2>2. Places(S)' = Count(free, S, 0) + Count(held, S, 0) + Count(sendList, S, 0)
                     + Count(mqueue', {0} \X S, 0) + In(rx.current, S) + In(ip.frameOut, S) + In(app.frame, S)
      BY <1>2, <1>6 DEF Places, Count, In
  <2>3. QED
      BY <2>1, <2>2 DEF Places
<1>10. EachOnce'
    BY <1>9, EachKept DEF UartInv
<1>11. SentOnce'
  <2>1. SentIn(Append(mqueue, m), tx.out, ip.frameOut)
      BY <1>4, <1>5, SentMore DEF UartInv, SentOnce
  <2>2. QED
      BY <1>2, <1>3, <2>1 DEF SentOnce
<1>12. Announced'
  <2> DEFINE told == 0
  <2>1. Told = told + In(m, {<<2, NoFrame>>}) /\ told \in 0 .. 1 /\ Told' = told /\ Waiting' = Waiting
      BY <1>2, <1>4, <1>6 DEF Told, Waiting, Count
  <2>2. AnnouncedIn(mqueue, Told, Waiting, ip.frameOut)
      BY DEF UartInv, Announced
  <2> HIDE DEF told
  <2>3. AnnouncedIn(mqueue, told + In(m, {<<2, NoFrame>>}), Waiting, ip.frameOut)
      BY <2>1, <2>2
  <2>4. Waiting \in Nat
      BY <1>1, ToldWaiting
  <2>5. AnnouncedIn(Append(mqueue, m), told, Waiting, ip.frameOut)
      BY <1>4, <1>5, <2>1, <2>3, <2>4, AnnouncedMore
  <2>6. QED
      BY <1>2, <1>3, <2>1, <2>5 DEF Announced
<1>13. QED
    BY <1>8, <1>10, <1>11, <1>12 DEF UartInv

(* The other steps have nothing to do with frames.                           *)
LEMMA UartStep ==
  ASSUME UartInv, UartNext
  PROVE  UartInv'
<1>1. rx.bytes \in Nat
    BY DEF UartInv, UartTypes
<1>2. CASE InterruptRead
    BY <1>2, ReadStep
<1>3. CASE InterruptWrite
    BY <1>3, WriteStep
<1>4. CASE Main
    BY <1>4, MainStep
<1>5. CASE App
    BY <1>5, AppReadStep, AppWriteStep, AppInsertStep, AppTellStep DEF App
<1>6. CASE Lose
  <2>1. UNCHANGED <<free, held, sendList, mqueue, app, rx, tx, ip>>
      BY <1>6 DEF Lose, frameVars, threads
  <2>2. QED
      BY <1>1, <2>1, CalmUart
<1>7. CASE Console
  <2>1. CASE ReadTest \/ ReadCount \/ ReadPend \/ ReadTake
    <3>1. UNCHANGED <<free, held, sendList, mqueue, app, rx, tx, ip>>
        BY <2>1 DEF ReadTest, ReadCount, ReadPend, ReadTake, ReaderStep, frameVars
    <3>2. QED
        BY <1>1, <3>1, CalmUart
  <2>2. CASE WriteTest \/ WriteCount \/ WritePend \/ WriteStore \/ WriteMask
    <3>1. UNCHANGED <<free, held, sendList, mqueue, app, rx, tx, ip>>
        BY <2>2 DEF WriteTest, WriteCount, WritePend, WriteStore, WriteMask, WriterStep, frameVars
    <3>2. QED
        BY <1>1, <3>1, CalmUart
  <2>3. QED
      BY <1>7, <2>1, <2>2 DEF Console
<1>8. QED
    BY <1>2, <1>3, <1>4, <1>5, <1>6, <1>7 DEF UartNext

(* At first every frame is free.                                             *)
LEMMA InitUart ==
  ASSUME NEW s \in Sessions, UartInit(s)
  PROVE  UartInv
<1>1. /\ free = [i \in Frames |-> i] /\ held = <<>> /\ sendList = <<>> /\ mqueue = <<>>
      /\ rx = RxIdle /\ tx = TxIdle /\ ip = [at |-> "get", frameOut |-> NoFrame]
      /\ app = [at |-> "run", frame |-> NoFrame, sends |-> s.sends]
    BY DEF UartInit, Frames
<1>2. FRAME_COUNT \in Nat
    BY UartAssumption
<1>3. free \in Seq(Frames) /\ Len(free) = FRAME_COUNT /\ \A i \in 1 .. FRAME_COUNT : free[i] = i
  <2>1. free \in [1 .. FRAME_COUNT -> Frames]
      BY <1>1 DEF Frames
  <2>2. free \in Seq(Frames)
      BY <1>2, <2>1
  <2>3. QED
      BY <1>1, <1>2, <2>1, <2>2, LenProperties DEF Frames
<1>4. /\ DOMAIN rx = {"bytes", "length", "current", "check", "sum"} /\ rx.bytes = 0 /\ rx.current = NoFrame
      /\ DOMAIN tx = {"out", "length", "byte"} /\ tx.out = NoFrame
      /\ DOMAIN ip = {"at", "frameOut"} /\ ip.frameOut = NoFrame
      /\ DOMAIN app = {"at", "frame", "sends"} /\ app.frame = NoFrame /\ app.at = "run"
    BY <1>1 DEF RxIdle, TxIdle
<1>5. UartTypes
  <2>1. <<>> \in Seq(Frames) /\ <<>> \in Seq(Notes)
      BY EmptySeq
  <2>2. QED
      BY <1>1, <1>3, <1>4, <2>1 DEF UartTypes, Handy
<1>6. \A S : Count(<<>>, S, 0) = 0
  <2>1. <<>> \in Seq(Notes) /\ Len(<<>>) = 0
      BY EmptySeq
  <2>2. \A S : Count(<<>>, S, Len(<<>>)) = 0
      BY <2>1, CountEnd
  <2>3. QED
      BY <2>1, <2>2
<1>7. EachOnce
  <2> SUFFICES ASSUME NEW S \in SUBSET Frames
               PROVE  Places(S) = Cardinality(S)
      BY DEF EachOnce
  <2>1. Count(free, S, 0) = Cardinality(S)
    <3> DEFINE o == 0
               A == { j \in o + 1 .. Len(free) : free[j] \in S }
    <3>1. o + 1 = 1
        OBVIOUS
    <3> HIDE DEF o
    <3>2. S \subseteq 1 .. FRAME_COUNT
        BY DEF Frames
    <3>3. A = S
        BY <1>3, <3>1, <3>2
    <3>4. Count(free, S, o) = Cardinality(A)
        BY DEF Count
    <3>5. QED
        BY <3>3, <3>4 DEF o
  <2>2. Count(held, S, 0) = 0 /\ Count(sendList, S, 0) = 0 /\ Count(mqueue, {0} \X S, 0) = 0
      BY <1>1, <1>6
  <2>3. In(rx.current, S) = 0 /\ In(ip.frameOut, S) = 0 /\ In(app.frame, S) = 0
      BY <1>4, <1>5, PlacesNat
  <2>4. Count(free, S, 0) \in Nat
      BY <1>5, PlacesNat
  <2>5. QED
      BY <2>1, <2>2, <2>3, <2>4 DEF Places
<1>8. SentOnce
    BY <1>1, <1>4 DEF SentOnce, SentIn
<1>9. Announced
  <2>1. Ready(mqueue, 0) = 0 /\ Told = 0 /\ Waiting = 0 /\ In(ip.frameOut, Frames) \in 0 .. 1
      BY <1>1, <1>4, <1>6 DEF Ready, Told, Waiting, In
  <2>2. DOMAIN mqueue = {}
      BY <1>1
  <2>3. QED
      BY <2>1, <2>2 DEF Announced, AnnouncedIn
<1>10. QED
    BY <1>5, <1>7, <1>8, <1>9 DEF UartInv

(* What the property counts is what the invariant counts.                    *)
LEMMA UartRight ==
  ASSUME UartInv
  PROVE  FramesHeld
<1>1. UartTypes /\ EachOnce /\ SentOnce
    BY DEF UartInv
<1>2. ASSUME NEW T, NEW q \in Seq(T), NEW x
      PROVE  Times(x, q) = Count(q, {x}, 0)
  <2>1. DOMAIN q = 1 .. Len(q)
      BY LenProperties
  <2>2. { i \in DOMAIN q : q[i] = x } = { j \in 0 + 1 .. Len(q) : q[j] \in {x} }
      BY <2>1
  <2>3. QED
      BY <2>2 DEF Times, Count
<1>3. ASSUME NEW f \in Frames
      PROVE  Copies(f) = 1
  <2>1. Times(f, free) = Count(free, {f}, 0) /\ Times(f, held) = Count(held, {f}, 0)
        /\ Times(f, sendList) = Count(sendList, {f}, 0)
      BY <1>1, <1>2 DEF UartTypes
  <2>2. Times(<<0, f>>, mqueue) = Count(mqueue, {0} \X {f}, 0)
    <3>1. {<<0, f>>} = {0} \X {f}
        OBVIOUS
    <3>2. QED
        BY <1>1, <1>2, <3>1 DEF UartTypes
  <2>3. Times(f, <<rx.current, ip.frameOut, app.frame>>)
            = In(rx.current, {f}) + In(ip.frameOut, {f}) + In(app.frame, {f})
    <3> DEFINE h == <<rx.current, ip.frameOut, app.frame>>
    <3>1. h \in Seq(Handy) /\ Len(h) = 3
        BY <1>1 DEF UartTypes
    <3>2. h[1] = rx.current /\ h[2] = ip.frameOut /\ h[3] = app.frame
        OBVIOUS
    <3>3. Times(f, h) = Count(h, {f}, 0)
        BY <1>2, <3>1
    <3> HIDE DEF h
    <3>4. \A i \in 0 .. 2 : Count(h, {f}, i) = Count(h, {f}, i + 1) + In(h[i + 1], {f})
      <4>1. 0 .. 2 = 0 .. Len(h) - 1
          BY <3>1
      <4>2. QED
          BY <3>1, <4>1, CountNext
    <3>5. Count(h, {f}, 3) = 0
        BY <3>1, CountEnd
    <3>6. Count(h, {f}, 2) = In(h[3], {f})
      <4>1. Count(h, {f}, 2) = Count(h, {f}, 2 + 1) + In(h[2 + 1], {f}) /\ 2 + 1 = 3
          BY <3>4
      <4>2. In(h[3], {f}) \in 0 .. 1
          BY DEF In
      <4>3. QED
          BY <3>5, <4>1, <4>2
    <3>7. Count(h, {f}, 1) = In(h[3], {f}) + In(h[2], {f})
      <4>1. Count(h, {f}, 1) = Count(h, {f}, 1 + 1) + In(h[1 + 1], {f}) /\ 1 + 1 = 2
          BY <3>4
      <4>2. QED
          BY <3>6, <4>1
    <3>8. Count(h, {f}, 0) = In(h[3], {f}) + In(h[2], {f}) + In(h[1], {f})
      <4>1. Count(h, {f}, 0) = Count(h, {f}, 0 + 1) + In(h[0 + 1], {f}) /\ 0 + 1 = 1
          BY <3>4
      <4>2. QED
          BY <3>7, <4>1
    <3>9. In(h[1], {f}) \in 0 .. 1 /\ In(h[2], {f}) \in 0 .. 1 /\ In(h[3], {f}) \in 0 .. 1
        BY DEF In
    <3>10. Times(f, h) = In(rx.current, {f}) + In(ip.frameOut, {f}) + In(app.frame, {f})
        BY <3>2, <3>3, <3>8, <3>9
    <3>11. QED
        BY <3>10 DEF h
  <2>4. Places({f}) = 1
    <3>1. {f} \in SUBSET Frames /\ Cardinality({f}) = 1
        BY FS_Singleton
    <3>2. QED
        BY <1>1, <3>1 DEF EachOnce
  <2>5. Copies(f) = Count(free, {f}, 0) + Count(held, {f}, 0) + Count(sendList, {f}, 0)
                    + (In(rx.current, {f}) + In(ip.frameOut, {f}) + In(app.frame, {f}))
                    + Count(mqueue, {0} \X {f}, 0)
      BY <2>1, <2>2, <2>3 DEF Copies
  <2>6. {f} \in SUBSET Frames
      OBVIOUS
  <2> DEFINE a1 == Count(free, {f}, 0)
             a2 == Count(held, {f}, 0)
             a3 == Count(sendList, {f}, 0)
             a4 == Count(mqueue, {0} \X {f}, 0)
             a5 == In(rx.current, {f})
             a6 == In(ip.frameOut, {f})
             a7 == In(app.frame, {f})
  <2>7. a1 \in Nat /\ a2 \in Nat /\ a3 \in Nat /\ a4 \in Nat /\ a5 \in 0 .. 1 /\ a6 \in 0 .. 1 /\ a7 \in 0 .. 1
      BY <1>1, <2>6, PlacesNat
  <2>8. a1 + a2 + a3 + a4 + a5 + a6 + a7 = 1
      BY <2>4, Zenon DEF Places
  <2>9. Copies(f) = a1 + a2 + a3 + (a5 + a6 + a7) + a4
      BY <2>5, Zenon
  <2> HIDE DEF a1, a2, a3, a4, a5, a6, a7
  <2>10. QED
      BY <2>7, <2>8, <2>9
<1>4. FramesOnce
    BY <1>3 DEF FramesOnce, Frames
<1>5. SentIsFrameOut
    BY <1>1 DEF SentOnce, SentIn, SentIsFrameOut, Messages
<1>6. QED
    BY <1>4, <1>5 DEF FramesHeld

(* A choice among the traffic or the sessions is one of them.                *)
LEMMA OneOfIsIn ==
  ASSUME NEW S, S # {}
  PROVE  OneOf(S) \in S
BY DEF OneOf

-----------------------------------------------------------------------------

(* Whatever comes over the wire, in whatever order the DMA, the interrupt,    *)
(* EthernetThread (EthernetReceive) and the threads in EthernetTransmit run,  *)
(* every frame is delivered at most once, in the order of the wire as long as *)
(* the DMA has not overtaken the thread, and what leaves the transmit buffer  *)
(* is always one frame.                                                       *)
THEOREM WireIsRight == Spec => []WireRight
<1>1. Init => EthInv
  <2>1. ASSUME NEW t \in Traffic, EthInit(t)
        PROVE  EthInv
      BY <2>1, InitRing, InitTransmit DEF EthInv
  <2>2. OneOf(Traffic) \in Traffic
      BY EthernetAssumption, OneOfIsIn
  <2>3. QED
      BY <2>1, <2>2 DEF Init
<1>2. EthInv /\ [Next]_vars => EthInv'
  <2> SUFFICES ASSUME EthInv, [Next]_vars
               PROVE  EthInv'
      OBVIOUS
  <2>1. CASE OnEthernet
      BY <2>1, EthStep DEF OnEthernet
  <2>2. CASE OnUart \/ UNCHANGED vars
    <3>1. UNCHANGED ethVars
        BY <2>2 DEF OnUart, vars
    <3>2. UNCHANGED <<ring, dma, arriving, delivered, overrun, thread>>
        BY <3>1 DEF ethVars, rxVars
    <3>3. RingInv'
        BY <3>2, CalmRing DEF EthInv
    <3>4. UNCHANGED <<out, wire, sender, SemEthTransmit>>
        BY <3>1 DEF ethVars, txVars
    <3>5. TransmitInv'
        BY <3>4 DEF EthInv, TransmitInv, Busy, Leaving, Whole
    <3>6. QED
        BY <3>3, <3>5 DEF EthInv
  <2>3. QED
      BY <2>1, <2>2 DEF Next
<1>3. EthInv => WireRight
    BY EthRight
<1>4. QED
    BY <1>1, <1>2, <1>3, PTL DEF Spec

(* For any number of frames and any session, whatever order the interrupt,    *)
(* the IP thread and the threads of the application come in: no frame is lost  *)
(* or used twice, and the packet that the UART has sent is the one for which   *)
(* the IP thread waits. IPMQueue (tcpip.c), whose messages would be dropped    *)
(* with their frames, is never full.                                          *)
THEOREM FramesAreHeld == Spec => []FramesHeld
<1>1. Init => UartInv
  <2>1. ASSUME NEW s \in Sessions, UartInit(s)
        PROVE  UartInv
      BY <2>1, InitUart
  <2>2. OneOf(Sessions) \in Sessions
      BY UartAssumption, OneOfIsIn
  <2>3. QED
      BY <2>1, <2>2 DEF Init
<1>2. UartInv /\ [Next]_vars => UartInv'
  <2> SUFFICES ASSUME UartInv, [Next]_vars
               PROVE  UartInv'
      OBVIOUS
  <2>1. CASE OnUart
      BY <2>1, UartStep DEF OnUart
  <2>2. CASE OnEthernet \/ UNCHANGED vars
    <3>1. UNCHANGED <<free, held, sendList, mqueue, app, rx, tx, ip>>
        BY <2>2 DEF OnEthernet, vars, uartVars, frameVars, threads
    <3>2. rx.bytes \in Nat
        BY DEF UartInv, UartTypes
    <3>3. QED
        BY <3>1, <3>2, CalmUart
  <2>3. QED
      BY <2>1, <2>2 DEF Next
<1>3. UartInv => FramesHeld
    BY UartRight
<1>4. QED
    BY <1>1, <1>2, <1>3, PTL DEF Spec
=============================================================================
