------------------------------ MODULE Ethernet ------------------------------
(* The Ethernet driver of the Plasma (ethernet.c): the DMA writes what comes  *)
(* over the wire into a ring, a word at a time, while EthernetThread looks    *)
(* for frames in it; several threads transmit. A word of the ring is          *)
(* <<f, i>>, word i of frame f: 0 is its preamble, 1 the word with 0x5d and   *)
(* the MAC address, Words the one that completes the CRC. The DMA             *)
(* (vhdl/eth_dma.vhd) and the wire are external.                              *)
EXTENDS Integers, Sequences, SequencesExt, FiniteSets

CONSTANTS
    RING,            \* words of the receive ring: (INDEX_MASK + 1) / 4
    Words,           \* words of a frame after its preamble
    Incoming,        \* frames that come over the wire
    FRAMES, FRAMES_RCV,  \* frames of the stack, and how many EthernetThread leaves
    Senders,         \* threads that transmit
    Traffic          \* the first frame of Incoming, and how many each thread transmits

ASSUME EthernetAssumption ==
    /\ RING \in Nat \ {0} /\ Words \in Nat \ {0}
    /\ Traffic # {} /\ \A t \in Traffic : t.first \in Nat \ {0}

VARIABLES
    ring, dma,       \* the ring, and where the DMA writes next
    arriving,        \* the word that the wire brings next
    irq, enabled,    \* the receive interrupt: pending, and not masked
    sem,             \* SemEthernet
    thread,          \* EthernetThread: where it is, whether it has a frame, packetExpected, gIndex
    frames, kept,    \* free frames, and frames that sockets keep
    delivered,       \* what IPProcessEthernetPacket has got
    overrun,         \* the DMA has overwritten what was not read
    out, wire,       \* the transmit buffer, and what has left of it
    sender,          \* the threads that transmit: where they are, the frame, frames left
    ethTxBusy, SemEthTransmit

rxVars  == <<ring, dma, arriving, irq, enabled, sem, thread, frames, kept, delivered, overrun>>
txVars  == <<out, wire, sender, ethTxBusy, SemEthTransmit>>
ethVars == <<rxVars, txVars>>

EMPTY == <<0, 0>>
JUNK  == <<0, 1>>     \* a start whose first byte was erased

EthInit(t) ==
    /\ ring = [i \in 0..RING - 1 |-> EMPTY] /\ dma = 0
    /\ irq = FALSE /\ enabled = FALSE /\ sem = 0
    /\ thread = [at |-> "wait", frame |-> FALSE, expected |-> FALSE, gIndex |-> 0]
    /\ frames = FRAMES /\ kept = 0 /\ delivered = <<>> /\ overrun = FALSE
    /\ out = <<EMPTY, EMPTY>> /\ wire = out
    /\ arriving = <<t.first, 0>>
    /\ sender = [s \in Senders |-> [at |-> "idle", left |-> t.sends]]
    /\ ethTxBusy = FALSE /\ SemEthTransmit = 1

Cell(i) == i % RING

-----------------------------------------------------------------------------
(* The wire *)

Arrive ==
    /\ arriving[1] <= Incoming
    /\ ring' = [ring EXCEPT ![dma] = arriving]
    /\ dma' = Cell(dma + 1)
    /\ overrun' = (overrun \/ ring[dma] # EMPTY)
    /\ IF arriving[2] = Words
       THEN arriving' = <<arriving[1] + 1, 0>> /\ irq' = TRUE
       ELSE arriving' = <<arriving[1], arriving[2] + 1>> /\ UNCHANGED irq
    /\ UNCHANGED <<enabled, sem, thread, frames, kept, delivered, txVars>>

EthernetIsr ==
    /\ irq /\ enabled
    /\ enabled' = FALSE /\ sem' = sem + 1
    /\ UNCHANGED <<ring, dma, arriving, irq, thread, frames, kept, delivered, overrun, txVars>>

-----------------------------------------------------------------------------
(* EthernetThread and EthernetReceive *)

Goto(place) == thread' = [thread EXCEPT !.at = place]

\* OS_SemaphorePend gets the semaphore or times out.
ThreadWait ==
    /\ thread.at = "wait"
    /\ enabled' = TRUE
    /\ Goto("pend")
    /\ UNCHANGED <<ring, dma, arriving, irq, sem, frames, kept, delivered, overrun, txVars>>

ThreadWakes ==
    /\ thread.at = "pend"
    /\ sem' = IF sem > 0 THEN sem - 1 ELSE 0
    /\ Goto("frame")
    /\ UNCHANGED <<ring, dma, arriving, irq, enabled, frames, kept, delivered, overrun, txVars>>

ThreadFrame ==
    /\ thread.at = "frame"
    /\ IF thread.frame \/ (frames >= FRAMES_RCV /\ frames > 0)
       THEN /\ thread' = [thread EXCEPT !.at = "status", !.frame = TRUE]
            /\ frames' = IF thread.frame THEN frames ELSE frames - 1
       ELSE Goto("wait") /\ UNCHANGED frames
    /\ UNCHANGED <<ring, dma, arriving, irq, enabled, sem, kept, delivered, overrun, txVars>>

\* The receive interrupt is read, then cleared.
ReceiveStatus ==
    /\ thread.at = "status" /\ ~ethTxBusy
    /\ thread' = [thread EXCEPT !.at = "find", !.expected = irq]
    /\ UNCHANGED <<ring, dma, arriving, irq, enabled, sem, frames, kept, delivered, overrun, txVars>>

IsStart(i)   == ring[i][1] > 0 /\ ring[i][2] = 1
Ahead(n)     == Cell(thread.gIndex + n)
Starts       == { n \in 0..RING - 1 : IsStart(Ahead(n)) }
Nearest(set) == CHOOSE n \in set : \A k \in set : n <= k

\* Without an interrupt an empty word ends the search.
Found == { n \in Starts : thread.expected \/ \A k \in 0..n - 1 : ring[Ahead(k)] # EMPTY }

Erased(first, count) ==
    [i \in 0..RING - 1 |-> IF Cell(i - first) < count THEN EMPTY ELSE ring[i]]

ReceiveFind ==
    /\ thread.at = "find"
    /\ irq' = FALSE
    /\ IF Found = {}
       THEN Goto("wait") /\ UNCHANGED ring
       ELSE LET n == Nearest(Found)
            IN  /\ ring' = Erased(thread.gIndex, n)
                /\ thread' = [thread EXCEPT !.at = "check", !.gIndex = Cell(@ + n)]
    /\ UNCHANGED <<dma, arriving, enabled, sem, frames, kept, delivered, overrun, txVars>>

\* The CRC matches once every word of the frame is there.
IsComplete ==
    LET f == ring[thread.gIndex][1]
    IN  \A k \in 1..Words : ring[Ahead(k - 1)] = <<f, k>>

Consumed_not == ring
Consumed == Erased(thread.gIndex, Words)

Deliver_behind ==
    /\ delivered' = Append(delivered, ring[thread.gIndex][1])
    /\ ring' = Consumed
    /\ \E keeps \in BOOLEAN :
           /\ kept' = IF keeps THEN kept + 1 ELSE kept
           /\ thread' = [thread EXCEPT !.at = "frame", !.frame = ~keeps]

\* IPProcessEthernetPacket keeps the frame or not.
Deliver ==
    /\ delivered' = Append(delivered, ring[thread.gIndex][1])
    /\ ring' = Consumed
    /\ \E keeps \in BOOLEAN :
           /\ kept' = IF keeps THEN kept + 1 ELSE kept
           /\ thread' = [thread EXCEPT !.at = "frame", !.gIndex = Ahead(Words), !.frame = ~keeps]

\* The first byte of a frame that is not complete is erased: gCrcChecked is
\* always greater than 0.
GiveUp ==
    /\ ring' = [ring EXCEPT ![thread.gIndex] = JUNK]
    /\ Goto("frame")
    /\ UNCHANGED <<kept, delivered>>

ReceiveCheck ==
    /\ thread.at = "check"
    /\ IF IsComplete THEN Deliver ELSE GiveUp
    /\ UNCHANGED <<dma, arriving, irq, enabled, sem, frames, overrun, txVars>>

\* The application reads what a socket keeps.
SocketFrees ==
    /\ kept > 0 /\ kept' = kept - 1 /\ frames' = frames + 1
    /\ UNCHANGED <<ring, dma, arriving, irq, enabled, sem, thread, delivered, overrun, txVars>>

-----------------------------------------------------------------------------
(* EthernetTransmit. Frames have two words. *)

SenderStep(s, from, to) == sender[s].at = from /\ sender' = [sender EXCEPT ![s].at = to]

\* IRQ_ETHERNET_TRANSMIT: the hardware is done, long before the 10000 turns of
\* a loop that waits for it are over.
IsSent_always == TRUE
IsSent == Len(wire) = 2

TransmitPend(s) ==
    /\ sender[s].left > 0 /\ SemEthTransmit > 0
    /\ SenderStep(s, "idle", "fill")
    /\ SemEthTransmit' = SemEthTransmit - 1 /\ ethTxBusy' = TRUE
    /\ UNCHANGED <<out, wire, rxVars>>

TransmitFill(s) ==
    /\ IsSent
    /\ SenderStep(s, "fill", "start")
    /\ out' = <<<<s, 1>>, <<s, 2>>>>
    /\ UNCHANGED <<wire, ethTxBusy, SemEthTransmit, rxVars>>

TransmitStart(s) ==
    /\ SenderStep(s, "start", "sending")
    /\ wire' = <<>>
    /\ UNCHANGED <<out, ethTxBusy, SemEthTransmit, rxVars>>

TransmitPost(s) ==
    /\ IsSent
    /\ sender[s].at = "sending"
    /\ sender' = [sender EXCEPT ![s] = [at |-> "idle", left |-> @.left - 1]]
    /\ ethTxBusy' = FALSE /\ SemEthTransmit' = SemEthTransmit + 1
    /\ UNCHANGED <<out, wire, rxVars>>

\* The DMA reads the buffer, a word at a time.
Depart ==
    /\ Len(wire) < 2
    /\ wire' = Append(wire, out[Len(wire) + 1])
    /\ UNCHANGED <<out, sender, ethTxBusy, SemEthTransmit, rxVars>>

=============================================================================
