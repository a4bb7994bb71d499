----------------------------- MODULE TcpSession -----------------------------
(* A connection of the Plasma: tcpip.c, the thread that runs the callbacks of *)
(* its socket (JobThread), an unreliable network and a TCP peer. The network  *)
(* and the peer are external: packets are lost (never delivered), delayed     *)
(* and reordered, and the peer transmits again what is not acknowledged.      *)
EXTENDS Tcpip

CONSTANTS
    Workloads,   \* what the two ends do: see Init
    PeerWindow   \* packets that the peer has on its way

VARIABLES
    work,        \* the workload
    ip,          \* see Tcpip
    app,         \* the callback that runs: where it is, the frame in its hands
    writes,      \* units the application may still write
    wrote, got,  \* what the application has written and read
    peer,        \* the peer: una, nxt, rcv, limit, got, dead
    sends, resets,   \* packets and resets the peer may still send
    toUs         \* packets on their way to the Plasma

appVars  == <<app, writes, wrote, got>>
budget   == <<sends, resets>>
vars     == <<work, ip, appVars, peer, budget, toUs>>

NoFrame == [pkt |-> "none"]
Unknown == -1

\* listen: the peer opens the connection; first: the first sequence number of
\* the peer; items: packets of data it has, each one unit; joined: its last data
\* and its FIN are one packet; closes: the callback closes its socket.
Init ==
    /\ work \in Workloads
    /\ ip = NewIp(work.listen)
    /\ app = [at |-> IF work.listen THEN "idle" ELSE "open", frame |-> NoFrame, closing |-> FALSE,
              closed |-> ~work.closes]
    /\ writes = work.writes /\ wrote = <<>> /\ got = <<>>
    /\ peer = [una |-> 0, nxt |-> 0, rcv |-> Unknown, limit |-> 0, got |-> <<>>, dead |-> FALSE]
    /\ sends = work.sends /\ resets = work.resets
    /\ toUs = {}

-----------------------------------------------------------------------------
(* The peer. Its stream is SYN (0), data (1 to items) and FIN (items + 1).    *)

Fin       == work.items + 1
PeerAt(i) == Plus(work.first, i)

\* A packet of the stream and the item after it
Item(i) ==
    CASE i = 0 -> [flags |-> IF work.listen THEN {"SYN"} ELSE {"SYN", "ACK"}, data |-> <<>>, next |-> 1]
      [] i \in 1..work.items ->
            [flags |-> IF i = work.items /\ work.joined THEN {"ACK", "FIN"} ELSE {"ACK"},
             data |-> <<i>>, next |-> IF i = work.items /\ work.joined THEN i + 2 ELSE i + 1]
      [] i = Fin -> [flags |-> {"ACK", "FIN"}, data |-> <<>>, next |-> i + 1]

PeerPacket(rcv, flags, i, data) ==
    [flags |-> flags, seq |-> PeerAt(i), ack |-> IF rcv = Unknown THEN 0 ELSE rcv, data |-> data]

\* What a conforming receiver makes of an acknowledgement and of new bytes
Heard(r, p) ==
    LET una == Minus(p.ack, work.first)
    IN  IF "ACK" \in p.flags /\ una >= r.una /\ una <= r.nxt
        THEN [r EXCEPT !.una = una, !.limit = una - 1 + p.win] ELSE r
Took(r, p) == [r EXCEPT !.got = @ \o p.data, !.rcv = Plus(p.seq, SeqLength(p))]

PeerTakes(r, p) ==
    CASE "RST" \in p.flags -> [r EXCEPT !.dead = TRUE]
      [] "SYN" \in p.flags -> IF r.rcv = Unknown THEN Took(Heard(r, p), p) ELSE r
      [] OTHER -> IF r.rcv = Unknown THEN r
                  ELSE IF SeqLength(p) = 0 THEN IF Reached(p.seq, r.rcv) THEN Heard(r, p) ELSE r
                  ELSE IF p.seq = r.rcv THEN Took(Heard(r, p), p) ELSE r

\* Everything that takes sequence numbers is acknowledged; the answer to a SYN
\* is the packet of item 0.
Answers(r, p) ==
    IF SeqLength(p) > 0 /\ r.rcv # Unknown /\ p.flags # {"SYN"}
    THEN {PeerPacket(r.rcv, {"ACK"}, r.nxt, <<>>)} ELSE {}

PeerReceive(end, p) ==
    IF end.peer.dead THEN end
    ELSE LET r == PeerTakes(end.peer, p)
         IN  [peer |-> r, toUs |-> end.toUs \cup Answers(r, p)]

\* The packets of a step leave. Each reaches the peer at once or never: a delay
\* is a delay of the answer.
BecomesAfter(next, arrived) ==
    \E r \in {next} : \E lost \in SUBSET DOMAIN r.out :
        LET there == [i \in DOMAIN r.out |-> IF i \in lost THEN <<>> ELSE <<r.out[i]>>]
        IN  \E end \in {FoldLeft(PeerReceive, [peer |-> peer, toUs |-> arrived], FlattenSeq(there))} :
                ip' = [r EXCEPT !.out = <<>>] /\ peer' = end.peer /\ toUs' = end.toUs

Becomes(next) == BecomesAfter(next, toUs)

-----------------------------------------------------------------------------
(* The IP thread runs above the thread of the callbacks, so packets and ticks *)
(* come in the middle of its calls. No packet of the connection lives longer  *)
(* than its socket, and the time that IPClose2 gives the application to stop  *)
(* using a socket is enough for it.                                           *)

Quiet == app.at = "idle" /\ ~ip.job

Deliver(p) ==
    /\ p \in toUs
    /\ BecomesAfter(Receive(ip, p), toUs \ {p})
    /\ UNCHANGED <<work, appVars, budget>>

\* One period for the two of the code: 50 ticks for frames and a second for
\* sockets.
TimerRuns == ip.sock # NoSocket /\ (Quiet \/ ip.sock.state # "closed")
TickDue   == ~ip.twice /\ (ip.resend # <<>> \/ (TimerRuns /\ ip.sock.timeout > 0))

\* The frame that a thread is sending was sent and listed by the tick as well:
\* when the thread goes on it is put in the list of retransmissions again.
ListedToo(next) == app.at = "flushed" /\ next.sock.send # ip.sock.send

IPTick ==
    /\ TickDue
    /\ \E next \in {Tick(ip, TimerRuns)} :
           IF next.sock = NoSocket
           THEN ip' = [next EXCEPT !.out = <<>>] /\ toUs' = {} /\ peer' = [peer EXCEPT !.dead = TRUE]
           ELSE Becomes([next EXCEPT !.twice = ListedToo(next)])
    /\ UNCHANGED <<work, appVars, budget>>

-----------------------------------------------------------------------------
(* The thread of the callbacks *)

At(a, b)  == app.at = a /\ app' = [app EXCEPT !.at = b]
Local     == UNCHANGED <<work, budget>>
Streams   == UNCHANGED <<writes, wrote, got>>

\* FrameSendFunc has the packet; the frame is still in the hands of the thread.
Sending(from, to, next, frame, closing) ==
    /\ app.at = from
    /\ Becomes(Transmit(next, frame))
    /\ app' = [app EXCEPT !.at = to, !.frame = frame, !.closing = closing]

Open ==
    /\ LET s == [ip EXCEPT !.sock = Opened]
       IN  Sending("open", "opened", Get(s), Framed(s.sock, {"SYN"}, <<>>), FALSE)
    /\ Local /\ Streams

Callback ==
    /\ ip.job /\ At("idle", "body")
    /\ Becomes([ip EXCEPT !.job = FALSE])
    /\ Local /\ Streams

Read ==
    /\ At("body", "body") /\ ip.sock.read # <<>>
    /\ Becomes(ReadFrame(ip))
    /\ got' = got \o Head(ip.sock.read).data
    /\ Local /\ UNCHANGED <<writes, wrote>>

\* IPWriteFlush, called for a full frame, by the callback or by IPClose
Flush(next, closing) ==
    Sending("body", "flushed", next, Framed(next.sock, {"ACK"}, next.sock.send), closing)

Write ==
    /\ app.at = "body" /\ writes > 0
    /\ writes' = writes - 1
    /\ IF CanWrite(ip)
       THEN LET next == WriteUnit(ip, writes)
            IN  /\ wrote' = Append(wrote, writes)
                /\ IF Len(next.sock.send) >= SEND_FULL THEN Flush(next, FALSE)
                   ELSE Becomes(next) /\ UNCHANGED app
       ELSE UNCHANGED <<ip, peer, toUs, app, wrote>>
    /\ Local /\ UNCHANGED got

WriteFlushed ==
    /\ app.at = "body" /\ ip.sock.send # <<>>
    /\ Flush(ip, FALSE)
    /\ Local /\ Streams

\* IPFrameReschedule and what follows the call that sent the frame
Resumed(from, to, S(_)) ==
    LET kept == Reschedule(ip, app.frame)
    IN  /\ app.at = from
        /\ Becomes([kept EXCEPT !.sock = S(@)])
        /\ app' = [app EXCEPT !.frame = NoFrame, !.at = to]
        /\ Local /\ Streams

OpenDone  == Resumed("opened", "idle", AfterSyn)
FlushDone == Resumed("flushed", IF app.closing THEN "fin" ELSE "body", AfterFlush)
CloseDone == Resumed("finished", "body", AfterFin)

\* The callback closes its socket once.
CloseStart ==
    /\ app.at = "body" /\ ~app.closed
    /\ IF ip.sock.send # <<>>
       THEN /\ Becomes(Transmit(ip, Framed(ip.sock, {"ACK"}, ip.sock.send)))
            /\ app' = [at |-> "flushed", closing |-> TRUE, closed |-> TRUE,
                       frame |-> Framed(ip.sock, {"ACK"}, ip.sock.send)]
       ELSE /\ app' = [app EXCEPT !.at = "fin", !.closed = TRUE]
            /\ UNCHANGED <<ip, peer, toUs>>
    /\ Local /\ Streams

CloseFin ==
    /\ IF CanGet(ip, 0)
       THEN Sending("fin", "finished", Get(ip), Framed(ip.sock, {"FIN", "ACK"}, <<>>), FALSE)
       ELSE At("fin", "body") /\ UNCHANGED <<ip, peer, toUs>>
    /\ Local /\ Streams

\* A callback reads all there is.
Return ==
    /\ At("body", "idle") /\ ip.sock.read = <<>>
    /\ UNCHANGED <<ip, peer, toUs>> /\ Local /\ Streams

Application == /\ ~ip.twice
               /\ \/ Open \/ OpenDone \/ Callback \/ Read \/ Write \/ WriteFlushed
                  \/ FlushDone \/ CloseStart \/ CloseFin \/ CloseDone \/ Return

-----------------------------------------------------------------------------
(* The peer sends *)

\* Synchronised: no copy of the SYN/ACK is on its way when data is.
MaySend(i) ==
    IF i = 0 THEN /\ peer.una = 0
                  /\ ~work.listen => peer.rcv # Unknown /\ \A p \in toUs : "SYN" \notin p.flags
    ELSE /\ peer.una > 0 /\ i <= peer.nxt /\ i < peer.una + PeerWindow
         /\ i <= work.items => i <= peer.limit
         /\ ~work.listen => \A p \in toUs : "SYN" \notin p.flags

PeerSend(i) ==
    /\ sends > 0 /\ ~peer.dead /\ i >= peer.una /\ i <= Fin /\ MaySend(i)
    /\ i = Fin => ~(work.joined /\ work.items > 0)
    /\ sends' = sends - 1
    /\ toUs' = toUs \cup {PeerPacket(peer.rcv, Item(i).flags, i, Item(i).data)}
    /\ peer' = [peer EXCEPT !.nxt = IF @ > Item(i).next THEN @ ELSE Item(i).next]
    /\ UNCHANGED <<work, ip, appVars, resets>>

PeerReset ==
    /\ resets > 0 /\ peer.una > 0 /\ ~peer.dead
    /\ resets' = resets - 1
    /\ peer' = [peer EXCEPT !.dead = TRUE]
    /\ toUs' = toUs \cup {PeerPacket(peer.rcv, {"RST", "ACK"}, peer.nxt, <<>>)}
    /\ UNCHANGED <<work, ip, appVars, sends>>

Network == /\ ~ip.twice
           /\ \/ \E p \in toUs : Deliver(p)
              \/ \E i \in 0..Fin : PeerSend(i)
              \/ PeerReset

\* Where a frame is listed twice an assertion of FrameInsert fails: the model
\* stops there.
Next == Application \/ Network \/ IPTick

\* Weak fairness of IPTick, with what enables it written out: TLC would compute
\* the whole tick again and again to find out.
TicksGoOn == []<>~TickDue \/ []<><<IPTick>>_vars

Spec == Init /\ [][Next]_vars /\ WF_vars(Application) /\ TicksGoOn

-----------------------------------------------------------------------------
(* Properties *)

\* A frame is listed twice only if a tick closes the connection while a thread
\* is sending its frame. Until then every frame is in one place: free, on a list,
\* being filled, in the hands of the callback or of the thread that receives, or
\* leaked with its socket, which needs an end by IPClose2. None is freed twice.
FramesAccounted ==
    LET s == ip.sock
        onSocket == IF s = NoSocket THEN 0
                    ELSE Len(s.read) + Len(s.future)
                         + IF s.send # <<>> /\ app.at # "flushed" THEN 1 ELSE 0
        total == ip.free + Len(ip.resend) + onSocket + ip.leaked
                 + (IF app.frame = NoFrame THEN 0 ELSE 1) + (IF ip.hand THEN 1 ELSE 0)
    IN  /\ ~ip.twice => total = FRAME_COUNT
        /\ ip.leaked > 0 => ip.cut

\* Each end reads a prefix of what the other one wrote, whatever the network
\* loses, delays and reorders, until the socket is closed or a FIN is taken that
\* came too early.
StreamsInOrder ==
    /\ ~ip.cut /\ ~ip.early => \A i \in DOMAIN got : got[i] = i
    /\ IsPrefix(peer.got, wrote)

Units(p) == { p.data[i] : i \in DOMAIN p.data }
Carried  == UNION { Units(ip.resend[i].pkt) : i \in DOMAIN ip.resend }
            \cup (IF app.frame = NoFrame THEN {} ELSE Units(app.frame.pkt))

\* What was written and has not reached the peer waits in the frame being
\* filled, in the hands of the callback or for a retransmission, as long as the
\* connection is not closed: no acknowledgement takes more than it covers.
UnackedIsHeld ==
    ip.sock.state = "tcp" =>
        \A i \in DOMAIN wrote :
            wrote[i] \in Range(peer.got) \cup Range(ip.sock.send) \cup Carried

\* What the peer takes as acknowledged was received, and the end of its stream
\* comes after all of its data.
AckedIsReceived ==
    ~ip.cut /\ ip.sock # NoSocket =>
        LET received == Range(got) \cup UNION { Units(ip.sock.read[i]) : i \in DOMAIN ip.sock.read }
        IN  /\ \A i \in 1..work.items : i < peer.una => i \in received
            /\ ip.sock.state = "finClient" => 1..work.items \subseteq received

\* What either end takes as acknowledged has arrived at the other, unless a FIN
\* is taken that came too early, which needs a stream whose sequence numbers
\* wrap around.
AcksAreTrue ==
    /\ UnackedIsHeld
    /\ IF ip.early THEN work.first + Fin >= SEQ ELSE AckedIsReceived

\* A socket that was accepted or closed is freed in the end, whatever the peer
\* does: the timers of IPTick see to it.
SocketsEnd ==
    ip.sock # NoSocket /\ (work.listen \/ app.closed) ~> ip.sock = NoSocket \/ ip.twice

=============================================================================
