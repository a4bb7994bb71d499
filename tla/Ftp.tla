--------------------------------- MODULE Ftp ---------------------------------
(* The FTP client and the FTP server of the Plasma kernel (netutil.c), one    *)
(* talking to the other. Each has a socket of the control connection (cc, sc) *)
(* and, once the server has opened it, one of the data connection (cd, sd).   *)
(*                                                                            *)
(* TCP is what Tcpip promises: segments arrive in order, and most arrivals    *)
(* are a job for the job thread of the host, which calls the callbacks of the *)
(* sockets one after the other, perhaps long after. No socket times out. A    *)
(* command or a reply is one symbol, a file a sequence of numbered bytes;     *)
(* names and passwords fit their 80 bytes, and a file the 100000 turns of     *)
(* FtpdSender. Memory that was freed keeps what it held while the last        *)
(* callbacks look at it.                                                      *)
EXTENDS Integers, Sequences, SequencesExt, FiniteSetsExt

CONSTANTS BLOCK,       \* bytes that FtpdSender reads at once: 512
          Transfers    \* [send, user, name, opens, size, length]: what FtpTransfer is
                       \* asked for, whether the server can open the file, its length

VARIABLE ftp

Peer == [cc |-> "sc", sc |-> "cc", cd |-> "sd", sd |-> "cd"]
Ends == DOMAIN Peer
Host == [cc |-> "client", cd |-> "client", sc |-> "server", sd |-> "server"]

\* in: segments on their way; got: data that arrived.
NewEnd == [in |-> <<>>, got |-> <<>>, state |-> "none"]

\* A segment
Data(bytes) == [flag |-> "", data |-> bytes]
Syn == [flag |-> "SYN", data |-> <<>>]
Fin == [flag |-> "FIN", data |-> <<>>]

\* The contents of the file: numbered bytes.
Bytes(n) == [i \in 1..n |-> i]

\* FtpdInfo; info is userPtr: "none" for NULL, "freed" for -1. closes counts fclose.
NewFtpdInfo == [info |-> "none", port |-> 0, canReceive |-> FALSE, file |-> "NULL", bytes |-> 0, done |-> FALSE,
                sending |-> FALSE, written |-> <<>>, closes |-> 0]

\* FtpInfo, and userData of the control socket
NewFtpInfo(t) == [info |-> "none", port |-> 2000, buf |-> IF t.send THEN Bytes(t.size) ELSE <<>>,
                  bytes |-> 0, userData |-> 0]

\* told: the calls of the user's function; short: memory or a frame was missing.
NewFtp(t) == [
    job    |-> t,
    asked  |-> FALSE,
    ends   |-> [e \in Ends |-> [NewEnd EXCEPT !.state = IF e = "sc" THEN "IP_LISTEN" ELSE "none"]],
    jobs   |-> [client |-> <<>>, server |-> <<>>],
    server |-> NewFtpdInfo,
    client |-> NewFtpInfo(t),
    told   |-> <<>>, short |-> FALSE]

-----------------------------------------------------------------------------
(* Sockets *)

IsTcp(x, e) == x.ends[e].state = "IP_TCP"               \* state <= IP_TCP
Put(x, e, segments) == [x EXCEPT !.ends[Peer[e]].in = @ \o segments]

\* A socket connects; the other one, which listens, becomes a connection.
Open(x, e) == [Put(x, e, <<Syn>>) EXCEPT !.ends[e].state = "IP_TCP"]

\* IPWrite (and the flush after it) of what fits one segment
Write(x, e, data) == IF IsTcp(x, e) THEN Put(x, e, <<Data(data)>>) ELSE x

\* A socket may be closed again and sends another FIN.
Close(x, e) == [Put(x, e, <<Fin>>) EXCEPT !.ends[e].state = "IP_FIN_SERVER"]

Notify(x, e) == [x EXCEPT !.jobs[Host[e]] = Append(@, e)]

\* The SYN of a connection that is wanted is answered; SYN/ACK ends that.
Connected(x, e) ==
    Notify(IF x.ends[e].state = "IP_LISTEN" THEN Open(x, e) ELSE x, e)

\* The FIN of the other side; what was not read is dropped when both have closed.
Finished(x, e) ==
    CASE x.ends[e].state = "IP_TCP"        -> Notify([x EXCEPT !.ends[e].state = "IP_FIN_CLIENT"], e)
      [] x.ends[e].state = "IP_FIN_CLIENT" -> Notify(x, e)
      [] x.ends[e].state = "IP_FIN_SERVER" ->
            Notify([x EXCEPT !.ends[e].state = "IP_CLOSED", !.ends[e].got = <<>>], e)
      [] x.ends[e].state = "IP_CLOSED"     -> x

Arrive(x, e) ==
    LET segment == Head(x.ends[e].in)
        y == [x EXCEPT !.ends[e].in = Tail(@)]
    IN  CASE segment.flag = "SYN" -> Connected(y, e)
          [] segment.flag = "FIN" -> Finished(y, e)
          [] OTHER -> Notify([y EXCEPT !.ends[e].got = @ \o segment.data], e)

-----------------------------------------------------------------------------
(* The server *)

Reply(x, code) == Write(x, "sc", <<code>>)

\* The file is closed, and the client told.
Done(x) == Reply([x EXCEPT !.server.done = TRUE, !.server.file = "closed", !.server.closes = @ + 1], "226")

\* One turn of the loop of FtpdSender; a short IPWrite ends it.
SendBlock_full(x) ==
    LET n == Min({BLOCK, x.job.length - x.server.bytes})
        block == SubSeq(Bytes(x.job.length), x.server.bytes + 1, x.server.bytes + n)
        y == [Write(x, "sd", block) EXCEPT !.server.bytes = @ + n]
    IN  IF ~IsTcp(x, "sd") /\ n > 0 THEN [x EXCEPT !.server.sending = FALSE]
        ELSE IF n <= BLOCK THEN [Done(Close(y, "sd")) EXCEPT !.server.sending = FALSE]
        ELSE y

SendBlock(x) ==
    LET n == Min({BLOCK, x.job.length - x.server.bytes})
        block == SubSeq(Bytes(x.job.length), x.server.bytes + 1, x.server.bytes + n)
        y == IF n = 0 THEN x ELSE [Write(x, "sd", block) EXCEPT !.server.bytes = @ + n]
    IN  IF ~IsTcp(x, "sd") /\ n > 0 THEN [x EXCEPT !.server.sending = FALSE]
        ELSE IF n < BLOCK THEN [Done(Close(y, "sd")) EXCEPT !.server.sending = FALSE]
        ELSE y

\* fseek to what was sent, and the loop
FtpdSender(x) == IF x.server.done THEN x ELSE [x EXCEPT !.server.sending = TRUE]

\* The state is the one before IPRead.
FtpdReceiver(x) ==
    LET total == x.ends["sd"].got
        y == [x EXCEPT !.ends["sd"].got = <<>>, !.server.written = @ \o total]
    IN  IF x.server.done THEN x
        ELSE IF ~IsTcp(x, "sd") /\ total = <<>> THEN Close(Done(y), "sd")
        ELSE y

\* RETR or STOR: the file, then the data connection, to the port of the client.
\* IPOpen to no address listens; when it fails, the file stays open.
Transfer(x, file, memory) ==
    LET y == [x EXCEPT !.server.file = IF file THEN "open" ELSE "NULL", !.server.bytes = 0, !.server.done = FALSE]
    IN  IF ~file THEN Reply(y, "500")
        ELSE IF memory /\ x.server.port # 0 THEN Open(Reply(y, "150"), "sd")
        ELSE Reply(y, "150")

\* The commands are looked for in this order, anywhere in what was read; memory:
\* malloc and IPOpen find some.
FtpdServer(x, memory) ==
    LET text == ToSet(x.ends["sc"].got)
        y    == [x EXCEPT !.ends["sc"].got = <<>>]
    IN  CASE x.server.info = "none"  -> IF memory THEN Reply([y EXCEPT !.server.info = "live"], "220") ELSE y
          [] x.server.info = "freed" -> y
          [] OTHER ->
             IF "USER" \in text
             THEN Reply([y EXCEPT !.server.canReceive = @ \/ x.job.user = "PlasmaSend"], "331")
             ELSE IF "PASS" \in text THEN Reply(y, "230")
             ELSE IF "PORT" \in text THEN Reply([y EXCEPT !.server.port = x.client.port], "200")
             ELSE IF "RETR" \in text THEN Transfer(y, x.job.opens, memory)
             ELSE IF "STOR" \in text
             THEN Transfer(y, x.server.canReceive /\ x.job.name # "/flash/web" /\ x.job.opens, memory)
             ELSE IF "QUIT" \in text THEN Close(Reply([y EXCEPT !.server.info = "freed"], "221"), "sc")
             ELSE IF text # {} THEN Reply(y, "500")
             ELSE y

-----------------------------------------------------------------------------
(* The client *)

\* FtpTransfer: malloc, the socket that listens for the data connection, then
\* the control connection; the one that fails makes it return NULL, and what was
\* there before stays. Nothing answers before it is done.
FtpTransfer(x, failed) ==
    LET y == [x EXCEPT !.asked = TRUE]
        z == [y EXCEPT !.client.info = "live"]
        w == [z EXCEPT !.ends["cd"].state = "IP_LISTEN"]
    IN  CASE failed = "malloc"  -> y
          [] failed = "listen"  -> z
          [] failed = "connect" -> w
          [] failed = "nothing" -> Open(w, "cc")

Success == {"220", "221", "226", "200", "230", "331"}     \* 2xx and 3xx

\* What is written next, and the new userData
Command(x, value) ==
    CASE x.client.userData = 0 -> <<"USER", 1>>
      [] x.client.userData = 1 /\ value = "331" -> <<"PASS", 2>>
      [] x.client.userData = 2 \/ (x.client.userData = 1 /\ value # "331") -> <<"PORT", 3>>   \* "possible fall-through"
      [] x.client.userData = 3 -> <<IF x.job.send THEN "STOR" ELSE "RETR", 4>>
      [] x.client.userData = 4 -> <<"QUIT", 9>>
      [] x.client.userData = 9 -> <<"", 9>>

\* Only the first reply of what was read is looked at.
FtpCallback(x) ==
    LET text == x.ends["cc"].got
        y == [x EXCEPT !.ends["cc"].got = <<>>]
    IN  IF text = <<>> \/ text[1] \notin Success THEN y
        ELSE LET c == Command(x, text[1])
                 z == [y EXCEPT !.client.userData = c[2]]
                 w == IF c[1] = "" THEN z ELSE Write(z, "cc", <<c[1]>>)
             IN  IF c[2] = 9 THEN Close(w, "cc") ELSE w

\* IPRead up to the size asked for, or IPWrite of the buffer, for which there
\* is room for so many bytes: a segment for every block and for the rest.
Received(x) ==
    LET n == Min({x.job.size - x.client.bytes, Len(x.ends["cd"].got)})
    IN  [moved |-> n,
         x |-> [x EXCEPT !.client.buf = @ \o SubSeq(x.ends["cd"].got, 1, n), !.client.bytes = @ + n,
                         !.ends["cd"].got = SubSeq(@, n + 1, Len(@))]]
Sent(x, room) ==
    LET n    == IF IsTcp(x, "cd") THEN Min({x.job.size - x.client.bytes, room}) ELSE 0
        data == SubSeq(x.client.buf, x.client.bytes + 1, x.client.bytes + n)
        part(i) == Data(SubSeq(data, (i - 1) * BLOCK + 1, Min({i * BLOCK, n})))
    IN  [moved |-> n,
         x |-> [Put(x, "cd", [i \in 1 .. (n + BLOCK - 1) \div BLOCK |-> part(i)]) EXCEPT !.client.bytes = @ + n]]

FtpCallbackTransfer_sized(x, room) ==
    LET r == IF x.job.send THEN Sent(x, room) ELSE Received(x)
        tell == [data |-> r.x.client.buf, bytes |-> r.x.client.bytes]
    IN  IF x.client.info # "live" THEN x
        ELSE IF r.x.client.bytes = x.job.size
        THEN Close([r.x EXCEPT !.told = Append(@, tell), !.client.info = "freed"], "cd")
        ELSE r.x

\* The user is told, userPtr is NULL from then on, and the connection closed.
FtpCallbackTransfer(x, room) ==
    LET r == IF x.job.send THEN Sent(x, room) ELSE Received(x)
        tell == [data |-> r.x.client.buf, bytes |-> r.x.client.bytes]
    IN  IF x.client.info # "live" THEN x
        ELSE IF r.x.client.bytes = x.job.size \/ (r.moved = 0 /\ ~IsTcp(x, "cd"))
        THEN Close([r.x EXCEPT !.told = Append(@, tell), !.client.info = "freed"], "cd")
        ELSE r.x

-----------------------------------------------------------------------------

Callback(x, e, room, memory) ==
    CASE e = "sc" -> FtpdServer(x, memory)
      [] e = "sd" -> IF x.job.send THEN FtpdReceiver(x) ELSE FtpdSender(x)
      [] e = "cc" -> FtpCallback(x)
      [] e = "cd" -> FtpCallbackTransfer(x, room)

FtpStarts ==
    /\ ~ftp.asked
    /\ \E failed \in {"malloc", "listen", "connect", "nothing"} :
          ftp' = [FtpTransfer(ftp, failed) EXCEPT !.short = failed # "nothing"]

FtpArrive == \E e \in Ends :
    /\ ftp.ends[e].in # <<>>
    /\ ftp' = Arrive(ftp, e)

\* The job thread of a host runs one callback at a time.
Ready(host) == ftp.jobs[host] # <<>> /\ (host = "server" => ~ftp.server.sending)
NextJob(host, room, memory) ==
    Callback([ftp EXCEPT !.jobs[host] = Tail(@)], Head(ftp.jobs[host]), room, memory)

FtpJob == \E host \in DOMAIN ftp.jobs : Ready(host) /\ ftp' = NextJob(host, ftp.job.size, TRUE)

FtpSends == ftp.server.sending /\ ftp' = SendBlock(ftp)

\* No frame comes free in time: IPWrite writes less. The server's loop ends;
\* the client has written some blocks. Or the server gets no memory. Bound: once.
FtpShort ==
    /\ ~ftp.short
    /\ \/ /\ ftp.server.sending /\ ftp.server.bytes < ftp.job.length
          /\ ftp' = [ftp EXCEPT !.server.sending = FALSE, !.short = TRUE]
       \/ /\ Ready("client") /\ Head(ftp.jobs.client) = "cd" /\ ftp.job.send
          /\ \E n \in 0 .. ftp.job.size :
                /\ n * BLOCK < ftp.job.size - ftp.client.bytes
                /\ ftp' = [NextJob("client", n * BLOCK, TRUE) EXCEPT !.short = TRUE]
       \/ /\ Ready("server")
          /\ NextJob("server", 0, FALSE) # NextJob("server", 0, TRUE)
          /\ ftp' = [NextJob("server", 0, FALSE) EXCEPT !.short = TRUE]

FtpInit(t) == ftp = NewFtp(t)
FtpNext == FtpStarts \/ FtpArrive \/ FtpJob \/ FtpSends \/ FtpShort
=============================================================================
