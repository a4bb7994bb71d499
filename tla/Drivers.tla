------------------------------ MODULE Drivers ------------------------------
(* The Plasma on a serial line or on Ethernet: one of the two drivers runs.   *)
EXTENDS Uart, Ethernet

VARIABLE device

vars == <<device, uartVars, ethVars>>

OneOf(set) == CHOOSE x \in set : TRUE
Init == \/ device = "uart" /\ EthInit(OneOf(Traffic)) /\ \E s \in Sessions : UartInit(s)
        \/ device = "ethernet" /\ UartInit(OneOf(Sessions)) /\ \E t \in Traffic : EthInit(t)

OnUart     == device = "uart" /\ UartNext /\ UNCHANGED <<device, ethVars>>
EthThread  == ThreadWait \/ ThreadWakes \/ ThreadFrame \/ ReceiveStatus \/ ReceiveFind \/ ReceiveCheck
Transmit   == \/ \E s \in Senders : TransmitPend(s) \/ TransmitFill(s) \/ TransmitStart(s) \/ TransmitPost(s)
              \/ Depart
EthNext    == Arrive \/ EthernetIsr \/ EthThread \/ SocketFrees \/ Transmit
OnEthernet == device = "ethernet" /\ EthNext /\ UNCHANGED <<device, uartVars>>

Next == OnUart \/ OnEthernet

\* The interrupts and the IP threads (priority 240) come before everything
\* else, and a socket's thread reads what it was given.
Spec == /\ Init /\ [][Next]_vars
        /\ WF_vars(OnUart /\ InterruptWrite) /\ WF_vars(OnUart /\ Main) /\ WF_vars(OnUart /\ (AppInsert \/ AppTell))
        /\ WF_vars(OnEthernet /\ EthThread) /\ WF_vars(OnEthernet /\ Transmit) /\ WF_vars(OnEthernet /\ SocketFrees)

-----------------------------------------------------------------------------
(* Properties *)

Messages(kind) == { i \in DOMAIN mqueue : mqueue[i][1] = kind }
Times(x, s) == Cardinality({ i \in DOMAIN s : s[i] = x })
Copies(f) == Times(f, free) + Times(f, held) + Times(f, sendList)
             + Times(f, <<rx.current, ip.frameOut, app.frame>>) + Times(<<0, f>>, mqueue)

\* Every frame of the stack is in one place: on a list, in a message, or in the
\* hands of the interrupt, of the IP thread or of the socket's thread.
FramesOnce == \A f \in 1..FRAME_COUNT : Copies(f) = 1

\* The packet that the UART sends, or has sent ("assert(frame == frameOut)"),
\* is the one the IP thread waits for.
SentIsFrameOut ==
    /\ tx.out # NoFrame => tx.out = ip.frameOut
    /\ \A i \in Messages(1) : mqueue[i][2] = ip.frameOut /\ tx.out = NoFrame

\* The frames, together.
FramesHeld == FramesOnce /\ SentIsFrameOut

\* The line carries the packets in the order in which they were queued and the
\* characters as they were written, none of them in the middle of a packet.
LineIsRight ==
    /\ IsPrefix(Said(lineOut).packets, queued)
    /\ IsPrefix(Said(lineOut).chars, written)

Picked(all, set) == FlattenSeq([i \in DOMAIN all |-> IF i \in set THEN <<all[i]>> ELSE <<>>])
IsPicked(some, all) == \E set \in SUBSET DOMAIN all : some = Picked(all, set)

\* What the IP thread and the reader get are packets and characters that came
\* over the line, in their order: a byte that is lost damages nothing but the
\* packets it was in, and a full buffer or an empty frame list drops what comes.
ArrivedIsRight ==
    LET said == Said(arrived)
        good == SelectSeq(said.packets, LAMBDA p : p # Bad)
    IN  IsPicked(received, good) /\ IsPicked(read, said.chars)

\* Both directions of the serial line, together.
LinesRight == LineIsRight /\ ArrivedIsRight

\* A packet that waits to be sent is sent.
PacketsLeave == sendList # <<>> ~> sendList = <<>> /\ ip.frameOut = NoFrame

\* A frame of the ring is delivered once, and in the order of the wire unless
\* the ring was overrun.
DeliveredOnce ==
    \A i, j \in DOMAIN delivered :
        i < j => delivered[i] # delivered[j] /\ (overrun \/ delivered[i] < delivered[j])

\* No thread writes to the buffer that is being transmitted.
TransmittedWhole == \A i \in DOMAIN wire : wire[i][1] = wire[1][1]

\* Both directions of Ethernet, together.
WireRight == DeliveredOnce /\ TransmittedWhole

\* When the wire is silent and the ring was not overrun, no frame is left in it.
RingDrains == arriving[1] > Incoming ~> overrun \/ \A i \in 0..RING - 1 : ~IsStart(i)

=============================================================================
