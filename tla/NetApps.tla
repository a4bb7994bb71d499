------------------------------- MODULE NetApps -------------------------------
(* The services of the Plasma kernel on top of its IP stack, one of them at a *)
(* time, and the commands of the console that use them: "ftp" and "tftp",     *)
(* which share one buffer, one file name and one session to tell.             *)
EXTENDS Ftp, Tftp, Telnet, Http

CONSTANTS Sessions,       \* telnet sessions
          MaxTransfers    \* bound: commands "ftp" and "tftp"

VARIABLES service, console

vars == <<service, ftp, tftp, telnet, http, console>>

-----------------------------------------------------------------------------
(* The console: ConsoleFtp, ConsoleTftp and ConsoleTransferDone, with their   *)
(* static variables. Transfer n asks for file n, which has two halves; what a *)
(* buffer holds is whose halves. Memory that was freed is not used again.     *)

NO_BUFFER == 0

\* heap: what the buffers of malloc hold, and freed how often each was freed;
\* done: the calls of ConsoleTransferDone; transfers: those that were asked for.
NewConsole == [socketTelnet |-> "NULL", myStorage |-> NO_BUFFER, storageFilename |-> 0,
               heap |-> <<>>, freed |-> <<>>, done |-> <<>>, transfers |-> <<>>]

\* at: the next step of the command; alone: no other transfer or command was
\* under way between the first step and the end.
NewTransfer(s, alone) == [session |-> s, at |-> "tell", buf |-> NO_BUFFER, halves |-> 0, alone |-> alone]

UnderWay(x) == { n \in DOMAIN x.transfers : x.transfers[n].at # "ended" }
Commanding(x) == { n \in UnderWay(x) : x.transfers[n].at # "running" }

\* Those that are under way are not alone any more.
ConsoleBegins == \E s \in Sessions :
    /\ Len(console.transfers) < MaxTransfers
    /\ \A n \in Commanding(console) : console.transfers[n].session # s
    /\ LET others == [n \in DOMAIN console.transfers |->
                         [console.transfers[n] EXCEPT !.alone = @ /\ n \notin UnderWay(console)]]
       IN  console' = [console EXCEPT !.transfers = Append(others, NewTransfer(s, UnderWay(console) = {}))]

Malloc(x) == [x EXCEPT !.heap = Append(@, <<0, 0>>), !.freed = Append(@, 0), !.myStorage = Len(x.heap) + 1]

\* The steps of the command, between which other threads may run; memory: malloc
\* and FtpTransfer or TftpTransfer find some.
Step(x, n, memory) ==
    LET to(y, at) == [y EXCEPT !.transfers[n].at = at]
        at == x.transfers[n].at
    IN  CASE at = "tell"   -> to([x EXCEPT !.socketTelnet = x.transfers[n].session], "look")
          [] at = "look"   -> to(x, IF x.myStorage = NO_BUFFER THEN "malloc" ELSE "check")
          [] at = "malloc" -> to(IF memory THEN Malloc(x) ELSE x, "check")
          [] at = "check"  -> to(x, IF x.myStorage = NO_BUFFER THEN "ended" ELSE "name")
          [] at = "name"   -> to([x EXCEPT !.storageFilename = n], "start")
          [] at = "start"  -> to([x EXCEPT !.transfers[n].buf = x.myStorage], IF memory THEN "running" ELSE "ended")

ConsoleSteps == \E n \in Commanding(console), memory \in BOOLEAN : console' = Step(console, n, memory)

\* Half of the file arrives in the buffer that the transfer was given.
Fill(x, n) ==
    LET half == x.transfers[n].halves + 1
        y    == [x EXCEPT !.transfers[n].halves = half]
    IN  IF x.transfers[n].buf = NO_BUFFER THEN y ELSE [y EXCEPT !.heap[x.transfers[n].buf][half] = n]

\* The session is told, the file is written, and the buffer of now is freed.
ConsoleTransferDone(x, n) ==
    LET data == IF x.transfers[n].buf = NO_BUFFER THEN <<>> ELSE x.heap[x.transfers[n].buf]
        y == [x EXCEPT !.transfers[n].at = "ended", !.myStorage = NO_BUFFER,
                       !.done = Append(@, [transfer |-> n, told |-> x.socketTelnet, name |-> x.storageFilename, data |-> data])]
    IN  IF x.myStorage = NO_BUFFER THEN y ELSE [y EXCEPT !.freed[x.myStorage] = @ + 1]

ConsoleRuns == \E n \in UnderWay(console) :
    /\ console.transfers[n].at = "running"
    /\ console' = IF console.transfers[n].halves < 2 THEN Fill(console, n) ELSE ConsoleTransferDone(console, n)

\* The other side refuses the file, or an answer is lost: nobody is told.
ConsoleFails == \E n \in UnderWay(console) :
    /\ console.transfers[n].at = "running"
    /\ console' = [console EXCEPT !.transfers[n].at = "ended"]

ConsoleNext == ConsoleBegins \/ ConsoleSteps \/ ConsoleRuns \/ ConsoleFails

-----------------------------------------------------------------------------

OneOf(set) == CHOOSE x \in set : TRUE
Init ==
    /\ HttpInit /\ console = NewConsole
    /\ \/ service = "ftp"    /\ TftpInit(OneOf(Downloads)) /\ TelnetInit(OneOf(Typings)) /\ \E t \in Transfers : FtpInit(t)
       \/ service = "telnet" /\ FtpInit(OneOf(Transfers)) /\ TftpInit(OneOf(Downloads)) /\ \E t \in Typings : TelnetInit(t)
       \/ /\ service \in {"tftp", "http", "console"}
          /\ FtpInit(OneOf(Transfers)) /\ TftpInit(OneOf(Downloads)) /\ TelnetInit(OneOf(Typings))

Next ==
    \/ service = "ftp" /\ FtpNext /\ UNCHANGED <<service, tftp, telnet, http, console>>
    \/ service = "tftp" /\ TftpNext /\ UNCHANGED <<service, ftp, telnet, http, console>>
    \/ service = "telnet" /\ TelnetNext /\ UNCHANGED <<service, ftp, tftp, http, console>>
    \/ service = "http" /\ HttpNext /\ UNCHANGED <<service, ftp, tftp, telnet, console>>
    \/ service = "console" /\ ConsoleNext /\ UNCHANGED <<service, ftp, tftp, telnet, http>>

\* Weak fairness: what is sent arrives, and the threads run. What enables that
\* is written out, which TLC would compute very slowly.
Busy ==
    CASE service = "ftp" -> ~ftp.asked \/ ftp.server.sending \/ (\E e \in Ends : ftp.ends[e].in # <<>>)
                            \/ \E host \in DOMAIN ftp.jobs : ftp.jobs[host] # <<>>
      [] service = "tftp" -> tftp.datagram # Nothing
      [] service = "telnet" -> telnet.in # <<>> \/ telnet.jobs > 0 \/ Runs(telnet)
      [] service = "http" -> http.asked < MaxRequests
      [] service = "console" -> UnderWay(console) # {}

Fairness == []<>~Busy \/ []<><<Next>>_vars

Spec == Init /\ [][Next]_vars /\ Fairness

-----------------------------------------------------------------------------
(* Properties *)

\* FTP: what FtpTransfer's user is told, and what the server has written when it
\* closes the file, is the file up to the size asked for, however the segments
\* and the callbacks of the two connections interleave.
TransferRight ==
    LET job == ftp.job
        all == Bytes(Min({job.size, job.length}))
    IN  /\ ~job.send => \A i \in DOMAIN ftp.told : ftp.told[i] = [data |-> all, bytes |-> Len(all)]
        /\ job.send /\ ftp.server.closes > 0 => ftp.server.written = Bytes(job.size)

\* FTP: the user is told once, and the file is closed once: the callbacks that
\* come after the end (for the FIN of the other side) do nothing.
EndsOnce == Len(ftp.told) <= 1 /\ ftp.server.closes <= 1

\* FTP: a transfer that the server accepts ends, with a file of any length, if
\* memory and frames were there; the server closes its file unless the client had
\* enough before the end of it.
Accepted ==
    /\ ftp.job.opens
    /\ ftp.job.send => ftp.job.user = "PlasmaSend" /\ ftp.job.name # "/flash/web"
TransferEnded ==
    \/ ftp.short
    \/ /\ ftp.told # <<>>
       /\ ftp.server.closes = 1 \/ (~ftp.job.send /\ ftp.job.size < ftp.job.length)
TransferEnds == service = "ftp" /\ Accepted ~> TransferEnded

\* TFTP: what the user is told is the file, whole up to the size of the buffer.
TftpRight ==
    \A i \in DOMAIN tftp.told : LET n == Min({tftp.job.size, tftp.job.length}) IN
        tftp.told[i] = [length |-> n, buf |-> [j \in 1..tftp.job.size |-> IF j <= n THEN j ELSE 0]]

\* Console: a transfer that had the console to itself is stored whole under its
\* own name, and its own session is told; no buffer is ever freed twice.
StoredRight ==
    /\ \A i \in DOMAIN console.done : LET d == console.done[i] IN
          console.transfers[d.transfer].alone =>
             /\ d.told = console.transfers[d.transfer].session
             /\ d.name = d.transfer /\ d.data = <<d.transfer, d.transfer>>
    /\ \A b \in DOMAIN console.freed : console.freed[b] <= 1

\* Telnet: each pointer of the history shows the line that many lines ago, whole
\* or up to the end of the buffer.
HistoryRight ==
    \A i \in DOMAIN telnet.ptr : telnet.ptr[i] # NULL =>
        LET line  == telnet.lines[i + 1]
            shown == StringAt(telnet, telnet.ptr[i])
        IN  IsPrefix(shown, line) /\ (shown # line => telnet.ptr[i] + Len(shown) = HISTORY_SIZE - 1)

\* Telnet: while the connection stands, the terminal shows the command line, after
\* typing, backspaces, the arrows and whole lines.
EchoRight == telnet.state = "IP_TCP" => telnet.screen = telnet.command

\* Telnet: the thread of a session that either side has ended ends.
SessionEnded == telnet.thread \in {"none", "ended"}
SessionEnds == telnet.state # "IP_TCP" ~> SessionEnded

\* HTTP: a connection gets one answer, and the length that is announced is the
\* length of what is written.
HttpRight ==
    /\ Len(http.sent) <= 1
    /\ \A i \in DOMAIN http.sent : LET r == http.sent[i] IN
          r.status = 200 /\ r.length # NoLength => r.length = Total(r.body)
=============================================================================
