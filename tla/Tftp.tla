-------------------------------- MODULE Tftp --------------------------------
(* The TFTP client and the TFTP server of the Plasma kernel (netutil.c), one  *)
(* talking to the other, with one download after the other. Neither side      *)
(* repeats anything, so at most one datagram is under way: it is on its way,  *)
(* or waits for the callback of its socket, where IPRead returns it alone, or *)
(* it is lost, which ends the download without a word. Datagrams come without *)
(* padding, as they do over the UART.                                         *)
EXTENDS Integers, Sequences, FiniteSetsExt

CONSTANTS TFTP_BLOCK,    \* bytes of a block: 512
          Downloads,     \* [exists, length, size]: the file, and the buffer of TftpTransfer
          MaxDownloads   \* bound: calls of TftpTransfer

VARIABLE tftp

\* A datagram: the operation, the number of the block and its bytes
Datagram(to, op, block, data) == [to |-> to, op |-> op, block |-> block % 65536, data |-> data]
Nothing == Datagram("nobody", "none", 0, <<>>)
Send(x, pkt) == [x EXCEPT !.datagram = pkt, !.arrived = FALSE]

\* file: userPtr of the server's socket, the length of its file or NULL; open:
\* the client's socket; buf: its userPtr; told: the calls of userFunc.
NULL_FILE == -1
NewTftp(d) == [job |-> d, asked |-> 0, datagram |-> Nothing, arrived |-> FALSE,
               file |-> NULL_FILE, buf |-> <<>>, open |-> FALSE, told |-> <<>>]

-----------------------------------------------------------------------------
(* The server *)

\* fread after fseek to the start of block n
Block(n, length) ==
    LET first == (n - 1) * TFTP_BLOCK
    IN  [i \in 1..Min({TFTP_BLOCK, IF first > length THEN 0 ELSE length - first}) |-> first + i]

\* A request opens its file in the place of the one before, or is refused.
Requested(x) ==
    LET y == [x EXCEPT !.file = IF x.job.exists THEN x.job.length ELSE NULL_FILE]
    IN  IF y.file = NULL_FILE THEN Send(y, Datagram("client", "ERROR", 0, <<>>))
        ELSE Send(y, Datagram("client", "DATA", 1, Block(1, y.file)))

\* An acknowledgement asks for the block after it.
Acknowledged(x, n) ==
    IF x.file = NULL_FILE THEN Send(x, Nothing)
    ELSE Send(x, Datagram("client", "DATA", n + 1, Block(n + 1, x.file)))

TftpdCallback(x) ==
    CASE x.datagram.op = "RRQ" -> Requested(x)
      [] x.datagram.op = "ACK" -> Acknowledged(x, x.datagram.block)
      [] OTHER -> Send(x, Nothing)

-----------------------------------------------------------------------------
(* The client *)

\* The request, if the socket and its frame are there; the buffer has nothing in it.
TftpTransfer(x, d) ==
    [Send(x, Datagram("server", "RRQ", 0, <<>>)) EXCEPT
        !.job = d, !.asked = @ + 1, !.buf = [i \in 1..d.size |-> 0], !.open = TRUE, !.told = <<>>]

\* memcpy
Stored(buf, first, data) ==
    [i \in DOMAIN buf |-> IF i - first \in DOMAIN data THEN data[i - first] ELSE buf[i]]

TftpCallback_uncapped(x) ==
    LET pkt    == x.datagram
        first  == (pkt.block - 1) * TFTP_BLOCK
        length == first + Len(pkt.data)
        y      == [Send(x, Datagram("server", "ACK", pkt.block, <<>>)) EXCEPT !.buf = Stored(@, first, pkt.data)]
    IN  IF ~x.open \/ pkt.op # "DATA" THEN Send(x, Nothing)
        ELSE IF Len(pkt.data) < TFTP_BLOCK
        THEN [y EXCEPT !.told = Append(@, [buf |-> y.buf, length |-> length]), !.open = FALSE]
        ELSE y

\* A block is stored up to the end of the buffer, acknowledged, and the last
\* one, which is the one that is not full, ends the transfer. What comes to a
\* socket that is closed is read with a negative length, which moves nothing.
TftpCallback(x) ==
    LET pkt    == x.datagram
        first  == (pkt.block - 1) * TFTP_BLOCK
        length == Min({first + Len(pkt.data), x.job.size})
        data   == SubSeq(pkt.data, 1, length - first)
        y      == [Send(x, Datagram("server", "ACK", pkt.block, <<>>)) EXCEPT !.buf = Stored(@, first, data)]
    IN  IF ~x.open \/ pkt.op # "DATA" THEN Send(x, Nothing)
        ELSE IF Len(data) < TFTP_BLOCK
        THEN [y EXCEPT !.told = Append(@, [buf |-> y.buf, length |-> length]), !.open = FALSE]
        ELSE y

-----------------------------------------------------------------------------

TftpStarts ==
    /\ tftp.asked < MaxDownloads /\ tftp.datagram = Nothing
    /\ \E d \in Downloads : tftp' = TftpTransfer(tftp, d)

TftpArrive ==
    /\ tftp.datagram # Nothing /\ ~tftp.arrived
    /\ tftp' = [tftp EXCEPT !.arrived = TRUE]

\* A datagram is lost, or there was no frame for it.
TftpLost ==
    /\ tftp.datagram # Nothing /\ ~tftp.arrived
    /\ tftp' = Send(tftp, Nothing)

TftpJob ==
    /\ tftp.arrived
    /\ tftp' = IF tftp.datagram.to = "server" THEN TftpdCallback(tftp) ELSE TftpCallback(tftp)

TftpInit(d) == tftp = NewTftp(d)
TftpNext == TftpStarts \/ TftpArrive \/ TftpLost \/ TftpJob
=============================================================================
