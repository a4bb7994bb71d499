-------------------------------- MODULE Uart --------------------------------
(* The Plasma on a serial line: the UART driver (uart.c), whose interrupt     *)
(* moves characters and packets, and the IP thread (IPMainThread of tcpip.c)  *)
(* with its message queue, its send list and its frames. A thread reads       *)
(* characters, another one writes them, and a third one uses a UDP socket.    *)
(* The line and the packets of the other end are external.                    *)
EXTENDS Integers, Sequences, SequencesExt, FiniteSetsExt

-----------------------------------------------------------------------------
(* The two data structures of the UART driver (uart.c): the ring buffer of    *)
(* characters that a thread and the interrupt share, and the packet protocol  *)
(* [0xff lengthMSB lengthLSB checksum data] as the interrupt reads and writes *)
(* it, one byte at a time.                                                    *)

CONSTANTS
    BUFFER_SIZE,      \* 128
    BASE,             \* values of a byte: 256
    UartPacketSize    \* longest packet: PACKET_SIZE

NoFrame == 0
FF      == BASE - 1

-----------------------------------------------------------------------------
(* Buffer_t *)

BufferCreate == [data |-> [i \in 0..BUFFER_SIZE - 1 |-> 0], read |-> 0, write |-> 0,
                 pendingRead |-> 0, pendingWrite |-> 0, semRead |-> 0, semWrite |-> 0]

After(i)   == IF i + 1 >= BUFFER_SIZE THEN 0 ELSE i + 1
IsFull(b)  == After(b.write) = b.read
IsEmpty(b) == b.read = b.write

\* BufferWrite and BufferRead once there is room or something to read
Store(b, value) ==
    LET w == [b EXCEPT !.data[b.write] = value, !.write = After(@)]
    IN  IF b.pendingRead > 0 THEN [w EXCEPT !.pendingRead = @ - 1, !.semRead = @ + 1] ELSE w

Oldest(b) == b.data[b.read]
TakeFront(b) ==
    LET r == [b EXCEPT !.read = After(@)]
    IN  IF b.pendingWrite > 0 THEN [r EXCEPT !.pendingWrite = @ - 1, !.semWrite = @ + 1] ELSE r

\* BufferWrite of the interrupt, which cannot wait: the character is dropped.
StoreOrDrop(b, value) == IF IsFull(b) THEN b ELSE Store(b, value)

-----------------------------------------------------------------------------
(* A packet on the line *)

Total(data)  == FoldSeq(LAMBDA v, n : v + n, 0, data)
Encode(data) == <<FF, Len(data) \div BASE, Len(data) % BASE, Total(data) % BASE>> \o data

\* What a line of bytes says: the packets, and the characters between them. A
\* packet whose checksum is wrong is Bad; one that is too long is no packet.
Bad == <<-1>>
Length(head) == head[2] * BASE + head[3]
Say(said, byte) ==
    LET head == Append(said.head, byte)
        data == SubSeq(head, 5, Len(head))
    IN  CASE said.head = <<>> /\ byte # FF -> [said EXCEPT !.chars = Append(@, byte)]
          [] Len(head) = 3 /\ Length(head) > UartPacketSize -> [said EXCEPT !.head = <<>>]
          [] Len(head) > 4 /\ Len(data) >= Length(head) ->
                [said EXCEPT !.head = <<>>,
                             !.packets = Append(@, IF Total(data) % BASE = head[4] THEN data ELSE Bad)]
          [] OTHER -> [said EXCEPT !.head = head]
Said(line) == FoldLeft(Say, [head |-> <<>>, chars |-> <<>>, packets |-> <<>>], line)

-----------------------------------------------------------------------------
(* UartPacketRead: the statics are the record rx. "got" is the packet that is *)
(* complete with this byte.                                                   *)

RxIdle == [bytes |-> 0, length |-> 0, current |-> NoFrame, check |-> 0, sum |-> 0]

\* Does the byte end the length of a packet that fits, for which there is no
\* frame yet?
WantsFrame(rx, byte) ==
    rx.bytes = 2 /\ rx.length + byte <= UartPacketSize /\ rx.current = NoFrame

ReadHeader(rx, byte) ==
    CASE rx.bytes = 0 -> IF byte = FF THEN [rx EXCEPT !.bytes = 1] ELSE rx
      [] rx.bytes = 1 -> [rx EXCEPT !.bytes = 2, !.length = byte * BASE]
      [] rx.bytes = 2 -> IF rx.length + byte <= UartPacketSize
                         THEN [rx EXCEPT !.bytes = 3, !.length = @ + byte]
                         ELSE [rx EXCEPT !.bytes = 0, !.length = @ + byte]
      [] OTHER        -> [rx EXCEPT !.bytes = 4, !.check = byte, !.sum = 0]

IsLast(rx) == rx.bytes + 1 - 4 >= rx.length

ReadData_kept(rx, byte) ==
    LET next == [rx EXCEPT !.bytes = @ + 1, !.sum = @ + byte]
    IN  IF IsLast(rx) THEN [next EXCEPT !.bytes = 0] ELSE next

\* The frame of a packet whose checksum is wrong is kept for the next one.
ReadData(rx, byte) ==
    LET next == [rx EXCEPT !.bytes = @ + 1, !.sum = @ + byte]
    IN  IF ~IsLast(rx) THEN next
        ELSE IF next.sum % BASE = rx.check THEN [next EXCEPT !.bytes = 0, !.current = NoFrame]
        ELSE [next EXCEPT !.bytes = 0]

IsGood_unsummed(rx, byte) == rx.bytes >= 4 /\ IsLast(rx)
IsGood(rx, byte) == rx.bytes >= 4 /\ IsLast(rx) /\ (rx.sum + byte) % BASE = rx.check

-----------------------------------------------------------------------------
(* UartPacketWrite: tx is UartPacketOut, its length and UartPacketOutByte. *)

TxIdle == [out |-> NoFrame, length |-> 0, byte |-> 0]

ByteOut(tx, data) == Encode(SubSeq(data, 1, tx.length))[tx.byte + 1]
Sent(tx)     == tx.byte >= 4 /\ tx.byte + 1 - 4 >= tx.length
WriteOne(tx) == IF Sent(tx) THEN [tx EXCEPT !.out = NoFrame, !.byte = @ + 1] ELSE [tx EXCEPT !.byte = @ + 1]

-----------------------------------------------------------------------------
CONSTANTS
    FRAME_COUNT, FRAME_COUNT_SEND, FRAME_COUNT_RCV,
    MQUEUE_SIZE,      \* messages of IPMQueue: 2 * FRAME_COUNT
    Ping,             \* first byte of the packets that the IP thread answers
    Sessions          \* what comes over the line and what the threads do: see UartInit

ASSUME UartAssumption ==
    /\ FRAME_COUNT \in Nat \ {0} /\ MQUEUE_SIZE \in Nat /\ MQUEUE_SIZE > FRAME_COUNT + 2
    /\ Sessions # {}

VARIABLES
    free,             \* the list of FrameFreeHead, its head first
    packet,           \* what each frame holds
    rx, tx,           \* the statics of UartPacketRead and UartPacketWrite
    mask,             \* IRQ_UART_WRITE_AVAILABLE is enabled
    ReadBuffer, WriteBuffer,
    mqueue,           \* IPMQueue: <<0, frame>>, <<1, frame>> or <<2, NoFrame>>
    sendList,         \* FrameSend, its tail (the next to go) first
    ip,               \* IPMainThread: where it is and its frameOut
    app,              \* the thread of a socket: where it is, its frame, packets it may send
    held,             \* frames of the socket's frameRead list
    reader, writer,   \* the threads that read and write characters: where they are
    line, toWrite,    \* bytes and characters still to come
    losses,           \* bytes the line may lose
    arrived, lineOut, \* bytes that the UART has received and sent
    read, written, received, queued  \* characters read and written, packets received and sent

frameVars == <<free, packet>>
threads   == <<app, held, reader, writer>>
history   == <<arrived, lineOut, read, written, received, queued>>
uartVars  == <<frameVars, rx, tx, mask, ReadBuffer, WriteBuffer, mqueue, sendList, ip, threads,
               line, toWrite, losses, history>>

UartInit(s) ==
    /\ free = [i \in 1..FRAME_COUNT |-> i] /\ packet = [i \in 1..FRAME_COUNT |-> <<>>]
    /\ rx = RxIdle /\ tx = TxIdle /\ mask = FALSE
    /\ ReadBuffer = BufferCreate /\ WriteBuffer = BufferCreate
    /\ mqueue = <<>> /\ sendList = <<>>
    /\ ip = [at |-> "get", frameOut |-> NoFrame]
    /\ app = [at |-> "run", frame |-> NoFrame, sends |-> s.sends] /\ held = <<>>
    /\ reader = "test" /\ writer = "test"
    /\ line = s.line /\ toWrite = s.chars /\ losses = s.losses
    /\ arrived = <<>> /\ lineOut = <<>>
    /\ read = <<>> /\ written = <<>> /\ received = <<>> /\ queued = <<>>

-----------------------------------------------------------------------------
(* Frames and messages *)

CanGet(n)  == Len(free) >= n /\ free # <<>>
Send(msg)  == mqueue' = IF Len(mqueue) < MQUEUE_SIZE THEN Append(mqueue, msg) ELSE mqueue

-----------------------------------------------------------------------------
(* UartInterrupt: each action is one turn of its loops. *)

\* MyPacketGet takes the frame at the head of the list.
GetFrame(byte) ==
    IF WantsFrame(rx, byte) /\ CanGet(FRAME_COUNT_RCV)
    THEN rx' = [ReadHeader(rx, byte) EXCEPT !.current = Head(free)] /\ free' = Tail(free)
    ELSE rx' = ReadHeader(rx, byte) /\ UNCHANGED free

PacketRead(byte) ==
    IF rx.bytes < 4
    THEN GetFrame(byte) /\ UNCHANGED <<packet, mqueue>>
    ELSE /\ rx' = ReadData(rx, byte)
         /\ packet' = IF rx.current = NoFrame THEN packet
                      ELSE [packet EXCEPT ![rx.current] = Append(SubSeq(@, 1, rx.bytes - 4), byte)]
         /\ IF IsGood(rx, byte) /\ rx.current # NoFrame THEN Send(<<0, rx.current>>) ELSE UNCHANGED mqueue
         /\ UNCHANGED free

InterruptRead ==
    /\ line # <<>>
    /\ line' = Tail(line) /\ arrived' = Append(arrived, Head(line))
    /\ IF Head(line) = FF \/ rx.bytes > 0
       THEN PacketRead(Head(line)) /\ UNCHANGED ReadBuffer
       ELSE ReadBuffer' = StoreOrDrop(ReadBuffer, Head(line)) /\ UNCHANGED <<frameVars, rx, mqueue>>
    /\ UNCHANGED <<tx, mask, WriteBuffer, sendList, ip, threads, toWrite, losses,
                   lineOut, read, written, received, queued>>

\* A byte is lost on the line.
Lose ==
    /\ line # <<>> /\ losses > 0
    /\ line' = Tail(line) /\ losses' = losses - 1
    /\ UNCHANGED <<frameVars, rx, tx, mask, ReadBuffer, WriteBuffer, mqueue, sendList, ip, threads,
                   toWrite, history>>

Out(byte) == lineOut' = Append(lineOut, byte)

PacketWrite ==
    /\ Out(ByteOut(tx, packet[tx.out])) /\ tx' = WriteOne(tx)
    /\ IF Sent(tx) THEN Send(<<1, tx.out>>) ELSE UNCHANGED mqueue
    /\ UNCHANGED <<mask, WriteBuffer>>

CharacterWrite ==
    /\ Out(Oldest(WriteBuffer)) /\ WriteBuffer' = TakeFront(WriteBuffer)
    /\ UNCHANGED <<tx, mask, mqueue>>

NothingToWrite == mask' = FALSE /\ UNCHANGED <<tx, WriteBuffer, mqueue, lineOut>>

WriteNext_charsFirst ==
    IF ~IsEmpty(WriteBuffer) THEN CharacterWrite
    ELSE IF tx.out # NoFrame THEN PacketWrite ELSE NothingToWrite

\* A packet that has begun is not interrupted by characters.
WriteNext ==
    IF tx.out # NoFrame THEN PacketWrite
    ELSE IF ~IsEmpty(WriteBuffer) THEN CharacterWrite ELSE NothingToWrite

InterruptWrite ==
    /\ mask
    /\ WriteNext
    /\ UNCHANGED <<frameVars, rx, ReadBuffer, sendList, ip, threads, line, toWrite, losses,
                   arrived, read, written, received, queued>>

-----------------------------------------------------------------------------
(* IPMainThread *)

\* IPSendFrame without FrameSendFunc
SendFrame(id) == sendList' = Append(sendList, id) /\ queued' = Append(queued, packet'[id])

\* IPProcessEthernetPacket of a PING request: the answer is in a frame of its own.
Answer(id) ==
    IF CanGet(FRAME_COUNT_SEND)
    THEN /\ packet' = [packet EXCEPT ![Head(free)] = packet[id]]
         /\ SendFrame(Head(free))
         /\ free' = <<id>> \o Tail(free)
         /\ mqueue' = Append(Tail(mqueue), <<2, NoFrame>>)
    ELSE /\ free' = <<id>> \o free /\ mqueue' = Tail(mqueue)
         /\ UNCHANGED <<packet, sendList, queued>>

\* The packet of the UDP socket stays on its list.
Keep(id) ==
    /\ held' = Append(held, id) /\ mqueue' = Tail(mqueue)
    /\ UNCHANGED <<frameVars, sendList, queued>>

FrameReceived(id) ==
    /\ received' = Append(received, packet[id])
    /\ IF packet[id][1] = Ping THEN Answer(id) /\ UNCHANGED held ELSE Keep(id)
    /\ ip' = [ip EXCEPT !.at = "send"]

\* IPFrameReschedule: a frame that is not TCP's is freed.
FrameSent(id) ==
    /\ free' = <<id>> \o free /\ mqueue' = Tail(mqueue)
    /\ ip' = [at |-> "send", frameOut |-> NoFrame]
    /\ UNCHANGED <<packet, sendList, held, received, queued>>

FrameReady ==
    /\ mqueue' = Tail(mqueue) /\ ip' = [ip EXCEPT !.at = "send"]
    /\ UNCHANGED <<frameVars, sendList, held, received, queued>>

MainGet ==
    /\ ip.at = "get" /\ mqueue # <<>>
    /\ LET kind == Head(mqueue)[1]
           id   == Head(mqueue)[2]
       IN  \/ kind = 0 /\ FrameReceived(id)
           \/ kind = 1 /\ FrameSent(id)
           \/ kind = 2 /\ FrameReady
    /\ UNCHANGED <<rx, tx, mask, ReadBuffer, WriteBuffer, app, reader, writer,
                   line, toWrite, losses, arrived, lineOut, read, written>>

\* OS_MQueueGet times out.
MainTimeout ==
    /\ ip.at = "get" /\ mqueue = <<>> /\ sendList # <<>>
    /\ ip' = [ip EXCEPT !.at = "send"]
    /\ UNCHANGED <<frameVars, rx, tx, mask, ReadBuffer, WriteBuffer, mqueue, sendList, threads,
                   line, toWrite, losses, history>>

UartPacketSend_masked(id) ==
    tx' = [out |-> id, length |-> Len(packet[id]), byte |-> 0] /\ UNCHANGED mask
UartPacketSend(id) ==
    tx' = [out |-> id, length |-> Len(packet[id]), byte |-> 0] /\ mask' = TRUE

MayTake_always == sendList # <<>>
MayTake == ip.frameOut = NoFrame /\ sendList # <<>>

MainSend ==
    /\ ip.at = "send"
    /\ IF MayTake
       THEN /\ UartPacketSend(Head(sendList))
            /\ ip' = [at |-> "get", frameOut |-> Head(sendList)]
            /\ sendList' = Tail(sendList)
       ELSE ip' = [ip EXCEPT !.at = "get"] /\ UNCHANGED <<tx, mask, sendList>>
    /\ UNCHANGED <<frameVars, rx, ReadBuffer, WriteBuffer, mqueue, threads,
                   line, toWrite, losses, history>>

-----------------------------------------------------------------------------
(* The thread of the UDP socket: IPRead, and IPWrite with IPSendFrame *)

AppRead ==
    /\ app.at = "run" /\ held # <<>>
    /\ free' = <<Head(held)>> \o free /\ held' = Tail(held)
    /\ UNCHANGED <<packet, rx, tx, mask, ReadBuffer, WriteBuffer, mqueue, sendList, ip, app, reader, writer,
                   line, toWrite, losses, history>>

AppWrite ==
    /\ app.at = "run" /\ app.sends # <<>> /\ CanGet(FRAME_COUNT_SEND)
    /\ app' = [at |-> "insert", frame |-> Head(free), sends |-> Tail(app.sends)]
    /\ free' = Tail(free) /\ packet' = [packet EXCEPT ![Head(free)] = Head(app.sends)]
    /\ UNCHANGED <<rx, tx, mask, ReadBuffer, WriteBuffer, mqueue, sendList, ip, held, reader, writer,
                   line, toWrite, losses, history>>

AppInsert ==
    /\ app.at = "insert"
    /\ app' = [app EXCEPT !.at = "tell", !.frame = NoFrame]
    /\ UNCHANGED frameVars /\ SendFrame(app.frame)
    /\ UNCHANGED <<rx, tx, mask, ReadBuffer, WriteBuffer, mqueue, ip, held, reader, writer,
                   line, toWrite, losses, arrived, lineOut, read, written, received>>

AppTell ==
    /\ app.at = "tell" /\ app' = [app EXCEPT !.at = "run"]
    /\ Send(<<2, NoFrame>>)
    /\ UNCHANGED <<frameVars, rx, tx, mask, ReadBuffer, WriteBuffer, sendList, ip, held, reader, writer,
                   line, toWrite, losses, history>>

-----------------------------------------------------------------------------
(* UartRead: BufferRead step by step, as the interrupt sees it *)

ReaderStep(from, to, buffer) ==
    /\ reader = from /\ reader' = to
    /\ ReadBuffer' = buffer
    /\ UNCHANGED <<frameVars, rx, tx, mask, WriteBuffer, mqueue, sendList, ip, app, held, writer,
                   line, toWrite, losses, arrived, lineOut, written, received, queued>>

ReadTest  == ReaderStep("test", IF IsEmpty(ReadBuffer) THEN "count" ELSE "take", ReadBuffer) /\ UNCHANGED read
ReadCount == ReaderStep("count", "pend", [ReadBuffer EXCEPT !.pendingRead = @ + 1]) /\ UNCHANGED read
ReadPend  == /\ ReadBuffer.semRead > 0
             /\ ReaderStep("pend", "take", [ReadBuffer EXCEPT !.semRead = @ - 1]) /\ UNCHANGED read
ReadTake  == /\ ReaderStep("take", "test", TakeFront(ReadBuffer))
             /\ read' = Append(read, Oldest(ReadBuffer))

(* UartWrite: BufferWrite step by step, then the interrupt is enabled *)

WriterStep(from, to, buffer) ==
    /\ writer = from /\ writer' = to
    /\ WriteBuffer' = buffer
    /\ UNCHANGED <<frameVars, rx, tx, ReadBuffer, mqueue, sendList, ip, app, held, reader,
                   line, losses, arrived, lineOut, read, received, queued>>

WriteTest  == /\ toWrite # <<>>
              /\ WriterStep("test", IF IsFull(WriteBuffer) THEN "count" ELSE "store", WriteBuffer)
              /\ UNCHANGED <<mask, toWrite, written>>
WriteCount == /\ WriterStep("count", "pend", [WriteBuffer EXCEPT !.pendingWrite = @ + 1])
              /\ UNCHANGED <<mask, toWrite, written>>
WritePend  == /\ WriteBuffer.semWrite > 0
              /\ WriterStep("pend", "store", [WriteBuffer EXCEPT !.semWrite = @ - 1])
              /\ UNCHANGED <<mask, toWrite, written>>
WriteStore == /\ WriterStep("store", "mask", Store(WriteBuffer, Head(toWrite)))
              /\ written' = Append(written, Head(toWrite)) /\ toWrite' = Tail(toWrite)
              /\ UNCHANGED mask
WriteMask  == /\ WriterStep("mask", "test", WriteBuffer) /\ mask' = TRUE
              /\ UNCHANGED <<toWrite, written>>

-----------------------------------------------------------------------------

Main    == MainGet \/ MainTimeout \/ MainSend
App     == AppRead \/ AppWrite \/ AppInsert \/ AppTell
Console == \/ ReadTest \/ ReadCount \/ ReadPend \/ ReadTake
           \/ WriteTest \/ WriteCount \/ WritePend \/ WriteStore \/ WriteMask

UartNext == InterruptRead \/ Lose \/ InterruptWrite \/ Main \/ App \/ Console
=============================================================================
