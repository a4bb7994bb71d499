------------------------------- MODULE Tcpip -------------------------------
(* TCP of the Plasma kernel (tcpip.c) with a single-threaded driver           *)
(* (FrameSendFunc): the IP thread handles a packet or a tick as one step, the *)
(* thread that runs the callbacks of a socket is interrupted between the      *)
(* transmission of a frame and what it does with the frame afterwards.        *)
(*                                                                            *)
(* A frame is the record of what its header and fields mean; lists are        *)
(* sequences that start at the head. One connection with one peer is          *)
(* followed; the peer and the network are external.                           *)
EXTENDS Integers, Sequences, SequencesExt, FiniteSets

CONSTANTS
    FRAME_COUNT, FRAME_COUNT_SYNC, FRAME_COUNT_SEND, FRAME_COUNT_RCV,
    MaxRetry,        \* transmissions of a frame: 5 in the code
    FastRetry,       \* retryCnt up to which a repeated ACK resends: 2
    SOCKET_TIMEOUT, IdleFactor,
    EARLY_MAX,       \* how far ahead an early segment may be: 65536
    SEND_FULL,       \* bytes that fill a frame (512), in units
    RECEIVE_WINDOW, WindowSlack,   \* WindowSlack: the 2048 of IPRead
    SEQ,             \* sequence numbers are modulo this: 2^32
    SeqOffset, ClientSeq           \* 0x12345678 and 0x01234567

ASSUME FramesAssumption ==
    /\ FRAME_COUNT_RCV > 1
    /\ FRAME_COUNT_RCV < FRAME_COUNT_SEND /\ FRAME_COUNT_SEND < FRAME_COUNT_SYNC
    /\ FRAME_COUNT_SYNC < FRAME_COUNT

NoSocket == [state |-> "gone"]

\* ip: the statics of tcpip.c. free is FrameFreeCount, resend the list of
\* FrameResendHead, sock the socket of the connection, job that OS_Job
\* holds its callback (several calls that wait are one), hand that EthernetThread
\* has a frame for the next packet, out the packets of this step. The rest is
\* history: leaked counts the frames that were still on the socket when it was
\* freed and that nothing refers to any more, cut says that IPClose2 was called,
\* early that a FIN was taken that lies ahead of what was received, twice that a
\* frame was put in the list of retransmissions that was in it.
NewIp(listen) == [free |-> FRAME_COUNT, resend |-> <<>>, sock |-> NoSocket,
                  listen |-> listen, job |-> FALSE, hand |-> FALSE, out |-> <<>>,
                  leaked |-> 0, cut |-> FALSE, early |-> FALSE, twice |-> FALSE]

-----------------------------------------------------------------------------
(* Sequence numbers *)

Plus(a, n)    == (a + n) % SEQ
Minus(a, b)   == (a - b) % SEQ
Reached(a, b) == Minus(a, b) < SEQ \div 2       \* (int)(a - b) >= 0

SeqLength(p) == Len(p.data) + (IF p.flags \cap {"SYN", "FIN"} # {} THEN 1 ELSE 0)

-----------------------------------------------------------------------------
(* Frames *)

CanGet(ip, n) == ip.free >= n /\ ip.free > 0
Get(ip)       == [ip EXCEPT !.free = @ - 1]
Free(ip)      == [ip EXCEPT !.free = @ + 1]

\* IPFrameReschedule: a frame that can be acknowledged waits for that.
Reschedule(ip, f) ==
    IF SeqLength(f.pkt) = 0 \/ f.retry + 1 > MaxRetry
    THEN Free(ip)
    ELSE [ip EXCEPT !.resend = <<[f EXCEPT !.retry = @ + 1, !.timeout = f.retry + 1]>> \o @]

Transmit(ip, f)  == [ip EXCEPT !.out = Append(@, f.pkt)]
SendFrame(ip, f) == Reschedule(Transmit(ip, f), f)

Window(s) == LET n == RECEIVE_WINDOW - Minus(s.ack, s.ackProcessed)
             IN  IF n < 0 THEN 0 ELSE n

\* TCPSendPacket and IPSendPacket up to IPSendFrame
Framed(s, flags, data) ==
    [pkt |-> [flags |-> flags, seq |-> s.seq, ack |-> s.ack, data |-> data, win |-> Window(s)],
     seqEnd |-> Plus(s.seq, IF flags \cap {"SYN", "FIN"} # {} THEN 1 ELSE Len(data)),
     retry |-> 0, timeout |-> 0]
SendPacket(ip, flags, data) == SendFrame(ip, Framed(ip.sock, flags, data))

AckNow(ip) == IF CanGet(ip, FRAME_COUNT_SEND) THEN SendPacket(Get(ip), {"ACK"}, <<>>) ELSE ip
Notify(ip) == [ip EXCEPT !.job = TRUE]

-----------------------------------------------------------------------------
(* Closing *)

Close2_keepsFuture(ip) ==
    [ip EXCEPT !.free = @ + Len(ip.resend) + Len(ip.sock.read),
               !.resend = <<>>,
               !.sock = [@ EXCEPT !.read = <<>>, !.future = <<>>,
                                  !.timeout = SOCKET_TIMEOUT, !.state = "closed"],
               !.cut = TRUE]

\* IPClose2 gives every frame of the socket back but the one being filled.
Close2(ip) ==
    [ip EXCEPT !.free = @ + Len(ip.resend) + Len(ip.sock.read) + Len(ip.sock.future),
               !.resend = <<>>,
               !.sock = [@ EXCEPT !.read = <<>>, !.future = <<>>,
                                  !.timeout = SOCKET_TIMEOUT, !.state = "closed"],
               !.cut = TRUE]

AfterSyn(s)   == [s EXCEPT !.seq = Plus(@, 1)]
AfterFlush(s) == [s EXCEPT !.seq = Plus(@, Len(s.send)), !.send = <<>>]
AfterFin_timeless(s) == [s EXCEPT !.seq = Plus(@, 1), !.timeoutReset = SOCKET_TIMEOUT,
                                  !.state = "finServer"]
AfterFin(s)   == [s EXCEPT !.seq = Plus(@, 1), !.timeout = SOCKET_TIMEOUT,
                           !.timeoutReset = SOCKET_TIMEOUT, !.state = "finServer"]

WriteFlush(ip) ==
    IF ip.sock.send = <<>> THEN ip
    ELSE [SendPacket(ip, {"ACK"}, ip.sock.send) EXCEPT !.sock = AfterFlush(ip.sock)]

SendFin(ip) ==
    IF ~CanGet(ip, 0) THEN ip
    ELSE [SendPacket(Get(ip), {"FIN", "ACK"}, <<>>) EXCEPT !.sock = AfterFin(ip.sock)]

Close(ip) == SendFin(WriteFlush(ip))

-----------------------------------------------------------------------------
(* A packet arrives. frameIn is already out of the free frames; "kept" says   *)
(* whether IPProcessTCPPacket returns 1.                                      *)

NewSocket(p) ==
    [state |-> "tcp", timeout |-> SOCKET_TIMEOUT, timeoutReset |-> SOCKET_TIMEOUT * IdleFactor,
     ack |-> Plus(p.seq, 1), ackProcessed |-> Plus(p.seq, 1),
     seq |-> Plus(p.seq, SeqOffset), seqReceived |-> Plus(p.seq, SeqOffset),
     read |-> <<>>, future |-> <<>>, send |-> <<>>]

Accept(ip, p) ==
    LET s == NewSocket(p)
        sent == SendPacket([Get(ip) EXCEPT !.sock = s], {"SYN", "ACK"}, <<>>)
    IN  Notify([sent EXCEPT !.sock.seq = Plus(@, 1)])

Refusal(p) == [flags |-> {"RST"}, seq |-> 0, ack |-> Plus(p.seq, 1), data |-> <<>>, win |-> 0]

ProcessSyn(ip, p) ==
    IF ip.sock # NoSocket THEN ip
    ELSE IF ip.listen
    THEN IF CanGet(ip, FRAME_COUNT_SYNC) THEN Accept(ip, p) ELSE ip
    ELSE IF CanGet(ip, 0) THEN [ip EXCEPT !.out = Append(@, Refusal(p))] ELSE ip

Acked_later(ip, ack) == { i \in DOMAIN ip.resend : Reached(ack, ip.resend[i].pkt.seq) }

\* Frames of the retransmission list that ack covers
Acked(ip, ack) == { i \in DOMAIN ip.resend : Reached(ack, ip.resend[i].seqEnd) }

Alive(s) == [s EXCEPT !.timeout = IF @ = 0 THEN 0 ELSE s.timeoutReset]

NewAck(ip, ack) ==
    LET gone == Acked(ip, ack)
        kept == [i \in DOMAIN ip.resend |-> IF i \in gone THEN <<>> ELSE <<ip.resend[i]>>]
        s    == IF gone = {} THEN ip.sock ELSE Alive(ip.sock)
    IN  [ip EXCEPT !.resend = FlattenSeq(kept),
                   !.free = @ + Cardinality(gone),
                   !.sock = [s EXCEPT !.seqReceived = ack]]

\* A scan of the retransmission list from its tail: the element at r.at, then
\* the one before it; what was inserted at the head meanwhile is met as well.
Before(list, at, next) == IF at = 1 THEN 0 ELSE at - 1 + Len(next) - (Len(list) - 1)
Scan(Step(_, _), ip) ==
    FoldLeft(LAMBDA r, k : IF r.at = 0 THEN r ELSE Step(r.ip, r.at),
             [ip |-> ip, at |-> Len(ip.resend)],
             [k \in 1..(Len(ip.resend) + 2) * (MaxRetry + 1) |-> k]).ip

Taken(ip, i) == [ip EXCEPT !.resend = RemoveAt(@, i)]

\* A repeated ACK sends again what was not sent often enough yet.
ResendOne(ip, i) ==
    LET next == SendFrame(Taken(ip, i), ip.resend[i])
    IN  IF ip.resend[i].retry > FastRetry THEN [ip |-> ip, at |-> 0]
        ELSE [ip |-> next, at |-> Before(ip.resend, i, next.resend)]

ProcessAck(ip, p) ==
    IF "ACK" \notin p.flags THEN ip
    ELSE IF p.ack # ip.sock.seqReceived THEN NewAck(ip, p.ack)
    ELSE IF p.data = <<>> /\ p.flags \cap {"RST", "FIN"} = {} THEN Scan(ResendOne, ip)
    ELSE ip

SynAck(ip, p) ==
    Notify(AckNow([ip EXCEPT !.sock.ack = Plus(p.seq, 1), !.sock.ackProcessed = Plus(p.seq, 1)]))

Held(p, s) == [s EXCEPT !.read = Append(@, p), !.ack = Plus(@, Len(p.data))]

Follow_unordered(r, f) ==
    IF r.found THEN r
    ELSE [r EXCEPT !.ip.sock = Held(f, [@ EXCEPT !.future = Tail(@)]), !.last = f]

\* One look at the oldest packet that came early; "last" is the packet that
\* the rest of the function goes on with, found says that the scan is over.
Follow(r, f) ==
    LET s == [r.ip.sock EXCEPT !.future = Tail(@)]
    IN  IF r.found THEN r
        ELSE IF s.ack > f.seq
             THEN [r EXCEPT !.ip = Free([@ EXCEPT !.sock = s]), !.last = f]
        ELSE IF s.ack = f.seq
             THEN [r EXCEPT !.ip.sock = Held(f, s), !.last = f]
        ELSE [r EXCEPT !.last = f, !.found = TRUE]

InOrder(ip, p) ==
    LET ready == [ip |-> [ip EXCEPT !.sock = Held(p, Alive(@))], last |-> p, found |-> FALSE]
        r     == FoldLeft(Follow, ready, ip.sock.future)
    IN  [ip |-> AckNow(r.ip), kept |-> TRUE, last |-> r.last, notify |-> TRUE]

\* The comparisons are those of unsigned numbers: ahead of a wrap an early
\* segment is not put aside.
Early(ip, p) ==
    LET keep == ip.sock.ack < p.seq /\ p.seq <= Plus(ip.sock.ack, EARLY_MAX)
        held == IF keep THEN [ip EXCEPT !.sock.future = Append(@, p)] ELSE ip
    IN  [ip |-> AckNow(held), kept |-> keep, last |-> p, notify |-> FALSE]

ProcessData(ip, p) ==
    IF "RST" \in p.flags
    THEN [ip |-> Close2(ip), kept |-> FALSE, last |-> p, notify |-> TRUE]
    ELSE IF p.data = <<>> THEN [ip |-> ip, kept |-> FALSE, last |-> p, notify |-> FALSE]
    ELSE IF p.seq = ip.sock.ack THEN InOrder(ip, p)
    ELSE Early(ip, p)

FinDue_always(s, p) == "FIN" \in p.flags /\ s.state # "closed"

FinDue(s, p) == "FIN" \in p.flags /\ s.ack >= p.seq /\ s.state # "closed"

Finished(ip) ==
    CASE ip.sock.state = "finServer" -> Close2(ip)
      [] ip.sock.state = "tcp"       -> [ip EXCEPT !.sock.state = "finClient"]
      [] OTHER                       -> ip

\* Without a frame for the acknowledgement the function returns 0 at once.
ProcessFin(r) ==
    LET s == [r.ip EXCEPT !.sock.timeout = SOCKET_TIMEOUT]
        t == SendPacket([Get(s) EXCEPT !.sock.ack = Plus(@, 1),
                                       !.early = @ \/ ~Reached(s.sock.ack, r.last.seq)],
                        {"ACK"}, <<>>)
    IN  IF ~FinDue(r.ip.sock, r.last) THEN r
        ELSE IF ~CanGet(r.ip, 0) THEN [r EXCEPT !.ip = s, !.kept = FALSE, !.notify = FALSE]
        ELSE [r EXCEPT !.ip = Finished(t), !.notify = TRUE]

\* IPProcessTCPPacket, with the frame of the packet in the hands of the thread:
\* it keeps the frame when the function returns 0.
Process(ip, p) ==
    LET acked == ProcessAck(ip, p)
        r     == ProcessFin(ProcessData(acked, p))
        done  == IF r.notify THEN Notify(r.ip) ELSE r.ip
    IN  IF p.flags \cap {"SYN", "ACK"} = {"SYN"} THEN ProcessSyn(ip, p)
        ELSE IF ip.sock = NoSocket THEN ip
        ELSE IF {"SYN", "ACK"} \subseteq p.flags THEN SynAck(acked, p)
        ELSE [done EXCEPT !.hand = ~r.kept]

\* EthernetThread needs a frame before it takes the next packet.
Arm(ip) == IF ~ip.hand /\ CanGet(ip, FRAME_COUNT_RCV) THEN [Get(ip) EXCEPT !.hand = TRUE] ELSE ip

Receive(ip, p) ==
    LET armed == Arm(ip) IN IF armed.hand THEN Arm(Process(armed, p)) ELSE ip

-----------------------------------------------------------------------------
(* IPTick *)

Due(ip, i)  == ip.resend[i].timeout <= 1
Aged(ip, i) == [ip EXCEPT !.resend[i].timeout = @ - 1]
GiveUp(ip, i) ==
    LET f == Taken(ip, i)
    IN  Free(IF f.sock.state = "tcp" THEN Close(f) ELSE f)

\* The frame is sent again, or its connection is closed.
Retry(ip, i) ==
    IF ip.resend[i].retry < MaxRetry /\ ip.sock.state # "closed"
    THEN SendFrame(Taken(ip, i), ip.resend[i])
    ELSE GiveUp(ip, i)

Retransmit(ip, i) ==
    LET next == Retry(ip, i)
    IN  IF ~Due(ip, i) THEN [ip |-> Aged(ip, i), at |-> i - 1]
        ELSE [ip |-> next, at |-> Before(ip.resend, i, next.resend)]

FreeSocket(ip) ==
    LET s == ip.sock
    IN  [ip EXCEPT !.sock = NoSocket,
                   !.leaked = @ + Len(s.read) + Len(s.future) + (IF s.send = <<>> THEN 0 ELSE 1)]

\* The timeout of a socket is over: close it, then forget it, then free it.
Expired(ip) ==
    LET again == [ip EXCEPT !.sock.timeout = SOCKET_TIMEOUT]
    IN  CASE ip.sock.state \in {"tcp", "finClient"} -> Close(again)
          [] ip.sock.state = "finServer"            -> Close2(again)
          [] OTHER                                  -> FreeSocket(again)

Second(ip) ==
    IF ip.sock = NoSocket THEN ip
    ELSE IF ip.sock.timeout = 0 THEN ip
    ELSE IF ip.sock.timeout = 1 THEN Expired(ip)
    ELSE [ip EXCEPT !.sock.timeout = @ - 1]

Tick(ip, second) ==
    LET sent == Scan(Retransmit, ip) IN IF second THEN Second(sent) ELSE sent

-----------------------------------------------------------------------------
(* What the callbacks call *)

Opened == [state |-> "tcp", timeout |-> 0, timeoutReset |-> SOCKET_TIMEOUT,
           ack |-> 0, ackProcessed |-> 0, seq |-> ClientSeq, seqReceived |-> 0,
           read |-> <<>>, future |-> <<>>, send |-> <<>>]

\* IPRead of one packet; the frame may carry the news that the window is open.
ReadFrame(ip) ==
    LET f == Head(ip.sock.read)
        s == [ip.sock EXCEPT !.read = Tail(@), !.ackProcessed = Plus(@, Len(f.data))]
        r == [ip EXCEPT !.sock = s]
    IN  IF s.state = "tcp" /\ Minus(s.ack, s.ackProcessed) > RECEIVE_WINDOW - WindowSlack
        THEN SendPacket(r, {"ACK"}, <<>>)
        ELSE Free(r)

CanWrite(ip) == ip.sock.state = "tcp" /\ (ip.sock.send # <<>> \/ CanGet(ip, FRAME_COUNT_SEND))

WriteUnit(ip, u) ==
    LET r == IF ip.sock.send = <<>> THEN Get(ip) ELSE ip
    IN  [r EXCEPT !.sock = [Alive(@) EXCEPT !.send = Append(@, u)]]

=============================================================================
