------------------------------- MODULE IpHost -------------------------------
(* What the IP stack of the Plasma kernel (tcpip.c) does besides TCP: it      *)
(* obtains its address with DHCP, finds and answers Ethernet addresses with   *)
(* ARP, answers pings, and resolves names with DNS for the ping command of    *)
(* the console (netutil.c). The driver is threaded: frames wait in the send   *)
(* queue, callbacks run in the job thread.                                    *)
(*                                                                            *)
(* A packet is the record of what its fields mean. The Ethernet address of a  *)
(* machine has the name of its IP address, "me" is the one of this host, "ff" *)
(* the broadcast address. The other machines and the network are external:    *)
(* messages overtake each other, a bounded number of them is lost, and a       *)
(* bounded number arrives twice.                                              *)
EXTENDS Integers, Sequences, FiniteSets, FiniteSetsExt

CONSTANTS
    FRAME_COUNT, FRAME_COUNT_SEND, FRAME_COUNT_RCV,
    CacheSize,         \* entries of ArpCache: 10
    SOCKET_TIMEOUT,    \* seconds a closed socket is kept: 10
    LeaseSeconds,      \* 3600 * 4, in ticks
    Sites,             \* the networks: [server, relay, dns]
    MaxFaults, MaxLate, MaxQueries, MaxStrangers    \* bounds

ASSUME HostAssumption ==
    /\ FRAME_COUNT_RCV \in Nat /\ FRAME_COUNT_SEND \in Nat /\ FRAME_COUNT \in Nat
    /\ 1 < FRAME_COUNT_RCV /\ FRAME_COUNT_RCV < FRAME_COUNT_SEND /\ FRAME_COUNT_SEND < FRAME_COUNT
    /\ CacheSize \in Nat \ {0} /\ SOCKET_TIMEOUT \in Nat \ {0} /\ LeaseSeconds \in Nat \ {0}

\* An address is a name; a site without a router names it "0".
ASSUME SitesAssumption == Sites \subseteq [server : STRING, relay : STRING, dns : STRING]

\* h holds the statics of tcpip.c: own (address, gateway, name server, the
\* request of IPDhcp and DhcpRetrySeconds), cache, sockets by their local port,
\* the latest of which is SocketHead, the number of free frames, sending
\* (FrameSendTail first), jobs and the next local port; broken: memory or a list
\* was used that is no longer what it was, and the model goes no further.
VARIABLES h,
          air,       \* the packets on the network
          site,      \* which network this is
          query,     \* the ping command: "none", "open", "told", "pinged"
          used       \* what the environment has used of its bounds
vars == <<h, air, site, query, used>>

-----------------------------------------------------------------------------
(* Frames *)

Has(x, n) == x.free >= n /\ x.free > 0                  \* IPFrameGet(n) # NULL
Get(x)    == [x EXCEPT !.free = @ - 1]
Free(x)   == [x EXCEPT !.free = @ + 1]
Queue(x, pkt) == [x EXCEPT !.sending = Append(@, pkt)]  \* FrameInsert, message 2

ArpOps == {"arpRequest", "arpReply"}
Packet(op, to, src, dst) ==
    [op |-> op, from |-> "me", to |-> to, src |-> src, dst |-> dst, sport |-> 0, dport |-> 0,
     arg |-> "0", client |-> "me", relay |-> "0", server |-> "0"]

\* IPArp: asks everybody for the Ethernet address of ip.
IPArp(x, ip) ==
    IF Has(x, 0) THEN Queue(Get(x), Packet("arpRequest", "ff", x.own.ip, ip)) ELSE x

SetMac(sockets, id, mac) ==
    [i \in DOMAIN sockets |-> IF i = id THEN [sockets[i] EXCEPT !.mac = mac] ELSE sockets[i]]

Cached(x, ip) == { i \in DOMAIN x.cache : x.cache[i].ip = ip }

\* IPSendFrame of a packet of socket id (0: none): the cache completes an
\* unknown Ethernet address; otherwise it is asked for and the packet is broadcast.
IPSendFrame_waits(x, pkt, id) ==
    IF pkt.to # "ff" \/ pkt.dst = "ff" THEN Queue(x, pkt)
    ELSE IF Cached(x, pkt.dst) # {}
    THEN Queue(x, [pkt EXCEPT !.to = x.cache[Min(Cached(x, pkt.dst))].mac])
    ELSE Free(IPArp(x, pkt.dst))

IPSendFrame(x, pkt, id) ==
    IF pkt.to # "ff" \/ pkt.dst = "ff" THEN Queue(x, pkt)
    ELSE IF Cached(x, pkt.dst) # {}
    THEN LET mac == x.cache[Min(Cached(x, pkt.dst))].mac
         IN  Queue([x EXCEPT !.sockets = SetMac(@, id, mac)], [pkt EXCEPT !.to = mac])
    ELSE Queue(IPArp(x, pkt.dst), pkt)

-----------------------------------------------------------------------------
(* DHCP *)

Discover(x) ==
    IF ~Has(x, 0) THEN x
    ELSE [Queue(Get(x), Packet("discover", "ff", "0", "ff")) EXCEPT !.own.request = "discover",
                                                                    !.own.retry = 2]

TakeOffer(x, pkt) ==
    IF ~Has(x, 0) THEN x
    ELSE [Queue(Get(x), [Packet("request", "ff", "0", "ff") EXCEPT !.arg = pkt.arg, !.server = pkt.server])
            EXCEPT !.own.request = "request"]

Leased(own, pkt) ==
    [own EXCEPT !.request = "none", !.retry = LeaseSeconds, !.ip = pkt.arg, !.dns = site.dns,
                !.gateway = IF pkt.relay = "0" THEN pkt.server ELSE pkt.relay,
                !.gatewayMac = pkt.from]

TakeAck_trusting(x, pkt) == [x EXCEPT !.own = Leased(x.own, pkt)]

\* The Ethernet address of the sender is the gateway's only if it sent the packet.
TakeAck(x, pkt) ==
    LET y == [x EXCEPT !.own = Leased(x.own, pkt)]
    IN  IF pkt.src = y.own.gateway THEN y
        ELSE IPArp([y EXCEPT !.own.gatewayMac = "ff"], y.own.gateway)

\* IPDhcp in state 2
IPDhcp(x, pkt) ==
    IF pkt.client # "me" THEN x
    ELSE IF pkt.op = "offer" /\ x.own.request = "discover" THEN TakeOffer(x, pkt)
    ELSE IF pkt.op = "ack" /\ x.own.request = "request" THEN TakeAck(x, pkt)
    ELSE x

-----------------------------------------------------------------------------
(* Sockets *)

MacFor(x, ip) == IF ip = x.own.ip THEN "me" ELSE x.own.gatewayMac

\* IPOpen of a UDP or PING socket towards ip
IPOpen(x, kind, ip, port) ==
    LET s == [kind |-> kind, open |-> TRUE, peer |-> ip, own |-> x.own.ip, port |-> port,
              mac |-> MacFor(x, ip), timeout |-> 0, read |-> <<>>]
    IN  [x EXCEPT !.sockets = [i \in DOMAIN @ \cup {x.port} |-> IF i = x.port THEN s ELSE @[i]],
                  !.port = @ + 1]

\* IPWrite of one datagram or ping; 40 tries without a frame end it ("X").
IPWrite(x, id, op, arg) ==
    LET s == x.sockets[id]
    IN  IF ~Has(x, FRAME_COUNT_SEND) THEN [x EXCEPT !.gaveUp = TRUE]
        ELSE IPSendFrame(Get(x), [Packet(op, s.mac, s.own, s.peer) EXCEPT !.sport = id, !.dport = s.port, !.arg = arg], id)

\* Frames of the socket that have not left
Unsent(x, id) == { k \in DOMAIN x.sending : x.sending[k].sport = id }

\* IPClose, which is IPClose2 in these states. It frees the unsent frames of the
\* socket as if they were in the list of retransmissions, so that they stay in
\* the send queue as well.
IPClose(x, id) ==
    [x EXCEPT !.free = @ + Len(x.sockets[id].read),
              !.sockets[id] = [@ EXCEPT !.read = <<>>, !.timeout = SOCKET_TIMEOUT, !.open = FALSE],
              !.broken = @ \/ Unsent(x, id) # {}]

DNS_PORT == 53
IPResolve(x, name) == IPWrite(IPOpen(x, "dns", x.own.dns, DNS_PORT), x.port, "query", name)

\* DnsResultCallback pings the address.
DnsResultCallback(x, ip) == IPWrite(IPOpen(x, "ping", ip, 0), x.port, "pingRequest", "A")

\* DnsCallback: IPRead empties the socket, the address goes to the user's function.
DnsCallback(x, id) ==
    LET s == x.sockets[id]
        y == [x EXCEPT !.sockets[id].read = <<>>, !.free = @ + Len(s.read)]
        z == IF s.read = <<>> \/ ~s.open THEN y ELSE DnsResultCallback(y, s.read[1])
    IN  IPClose(z, id)

PingCallback(x, id) == IPClose(x, id)

-----------------------------------------------------------------------------
(* IPProcessEthernetPacket: what is left, and whether the frame is kept. The  *)
(* frame of the packet is out of the free ones.                               *)

Drop(x) == [host |-> x, kept |-> FALSE]
Keep(x) == [host |-> x, kept |-> TRUE]

Learn(x, pkt) ==
    [x EXCEPT !.cache[x.index] = [ip |-> pkt.src, mac |-> pkt.from],
              !.index = (@ + 1) % CacheSize,
              !.own.gatewayMac = IF pkt.src = x.own.gateway THEN pkt.from ELSE @]

ProcessArp(x, pkt) ==
    IF pkt.to = "me" /\ pkt.op = "arpReply" THEN Learn(x, pkt)
    ELSE IF pkt.op # "arpRequest" \/ pkt.dst # x.own.ip \/ ~Has(x, 0) THEN x
    ELSE Queue(Get(x), Packet("arpReply", pkt.from, pkt.dst, pkt.src))

\* EthernetCreateResponse
Response(pkt) == [pkt EXCEPT !.to = pkt.from, !.from = pkt.to, !.src = pkt.dst, !.dst = pkt.src,
                             !.sport = pkt.dport, !.dport = pkt.sport]

PingSockets(x, pkt) == { i \in DOMAIN x.sockets :
    x.sockets[i].kind = "ping" /\ x.sockets[i].open /\ x.sockets[i].peer = pkt.src }

PingRequest(x, pkt) ==
    IF ~Has(x, FRAME_COUNT_SEND) THEN x
    ELSE IPSendFrame(Get(x), [Response(pkt) EXCEPT !.op = "pingReply"], 0)

ProcessPing_keeps(x, pkt) ==
    IF pkt.op = "pingRequest" THEN Keep(PingRequest(x, pkt))
    ELSE IF PingSockets(x, pkt) = {} THEN Drop(x)
    ELSE Drop([x EXCEPT !.jobs = Append(@, Max(PingSockets(x, pkt)))])

ProcessPing(x, pkt) ==
    IF pkt.op = "pingRequest" THEN Drop(PingRequest(x, pkt))
    ELSE IF PingSockets(x, pkt) = {} THEN Drop(x)
    ELSE Drop([x EXCEPT !.jobs = Append(@, Max(PingSockets(x, pkt)))])

\* The socket of the datagram's source and addresses, else one of its port
\* (closed ones included); the ports of both ends are not compared together.
ConnectedTo(x, pkt) == { i \in DOMAIN x.sockets : LET s == x.sockets[i] IN
    s.kind = "dns" /\ s.peer = pkt.src /\ s.own = pkt.dst /\ s.port = pkt.sport }
OfPort(x, pkt) == { i \in DOMAIN x.sockets : x.sockets[i].kind = "dns" /\ i = pkt.dport }
Receivers(x, pkt) == IF ConnectedTo(x, pkt) # {} THEN ConnectedTo(x, pkt) ELSE OfPort(x, pkt)

ProcessUdp(x, pkt) ==
    IF Receivers(x, pkt) = {} THEN Drop(x)
    ELSE LET i == Max(Receivers(x, pkt))
         IN  Keep([x EXCEPT !.sockets[i].read = Append(@, pkt.arg), !.jobs = Append(@, i)])

IPProcessEthernetPacket(x, pkt) ==
    IF pkt.op \in ArpOps THEN Drop(ProcessArp(x, pkt))
    ELSE IF pkt.op \in {"offer", "ack"} THEN Drop(IPDhcp(x, pkt))
    ELSE IF pkt.to # "me" \/ pkt.dst # x.own.ip THEN Drop(x)
    ELSE IF pkt.op \in {"pingRequest", "pingReply"} THEN ProcessPing(x, pkt)
    ELSE ProcessUdp(x, pkt)

-----------------------------------------------------------------------------
(* The threads of the host *)

\* UartPacketSend takes the oldest frame; its completion frees it, for none of
\* these frames is acknowledged (IPFrameReschedule).
Transmit ==
    /\ h.sending # <<>>
    /\ \E x \in {Free([h EXCEPT !.sending = Tail(@)])} : h' = x
    /\ air' = air \cup {Head(h.sending)}
    /\ UNCHANGED <<site, query, used>>

\* MyPacketGet finds no frame: the packet is gone.
Overrun(pkt) ==
    /\ ~Has(h, FRAME_COUNT_RCV)
    /\ h' = [h EXCEPT !.gaveUp = TRUE]
    /\ UNCHANGED query

Accepted(pkt) ==
    /\ Has(h, FRAME_COUNT_RCV)
    /\ \E r \in {IPProcessEthernetPacket(Get(h), pkt)} : h' = IF r.kept THEN r.host ELSE Free(r.host)
    /\ UNCHANGED query

Receive == \E pkt \in air :
    /\ pkt.from # "me" /\ pkt.to \in {"me", "ff"}
    /\ \/ air' = air \ {pkt} /\ UNCHANGED used
       \/ /\ used.losses + used.copies < MaxFaults /\ UNCHANGED air
          /\ used' = [used EXCEPT !.copies = @ + 1]
    /\ Overrun(pkt) \/ Accepted(pkt)
    /\ UNCHANGED site

\* A job waits for a socket that was freed.
Dangling(x) == \E k \in DOMAIN x.jobs : x.jobs[k] \notin DOMAIN x.sockets

\* OS_JobThread runs the callback of a socket, freed or not.
Job ==
    /\ h.jobs # <<>>
    /\ IF Head(h.jobs) \notin DOMAIN h.sockets
       THEN h' = [h EXCEPT !.broken = TRUE] /\ UNCHANGED query
       ELSE \E id \in {Head(h.jobs)}, x \in {[h EXCEPT !.jobs = Tail(@)]} :
            IF h.sockets[id].kind = "dns"
            THEN \E y \in {DnsCallback(x, id)} : h' = y /\ query' = IF y.port > x.port THEN "told" ELSE query
            ELSE \E y \in {PingCallback(x, id)} : h' = y /\ query' = "pinged"
    /\ UNCHANGED <<air, site, used>>

\* A second of IPTick: DHCP again when its time is over, and closed sockets are
\* freed, with whatever is on their lists.
\* Below zero, --DhcpRetrySeconds goes on; two values stand for them all.
Less(n) == IF n = -2 THEN -1 ELSE n - 1
Retry_once(x) ==
    LET n == Less(x.own.retry)
    IN  IF n <= 0 /\ x.own.request # "request" THEN Discover([x EXCEPT !.own.retry = n])
        ELSE [x EXCEPT !.own.retry = n]
Retry(x) ==
    LET n == Less(x.own.retry)
    IN  IF n <= 0 THEN Discover([x EXCEPT !.own.retry = n]) ELSE [x EXCEPT !.own.retry = n]

Aged(s) == [s EXCEPT !.timeout = IF @ = 0 THEN 0 ELSE @ - 1]
Alive(s) == s.open \/ s.timeout > 1
IPTick(x) ==
    LET y == Retry(x)
    IN  [y EXCEPT !.sockets = [i \in { j \in DOMAIN @ : Alive(@[j]) } |-> Aged(@[i])]]

Quiet == h.sending = <<>> /\ h.jobs = <<>> /\ air = {}

\* Seconds are long: few of them end while something is under way. One that does
\* may come between a packet and the job that it queued.
Tick ==
    /\ Quiet \/ used.late < MaxLate
    /\ \E x \in {IPTick(h)} : h' = x
    /\ used' = IF Quiet THEN used ELSE [used EXCEPT !.late = @ + 1]
    /\ UNCHANGED <<air, site, query>>

\* ConsolePing: a name is resolved first, an address is pinged at once.
ConsolePing(x, isName) == IF isName THEN IPResolve(x, "name") ELSE DnsResultCallback(x, "srv")

\* The console asks when DHCP has told the name server and no query is open.
Ask == \E isName \in BOOLEAN :
    /\ h.own.dns # "0" /\ used.queries < MaxQueries
    /\ query \in {"none", "pinged"}
    /\ \E x \in {ConsolePing(h, isName)} : h' = x
    /\ query' = IF isName THEN "open" ELSE "told"
    /\ used' = [used EXCEPT !.queries = @ + 1]
    /\ UNCHANGED <<air, site>>

-----------------------------------------------------------------------------
(* The machines and the network *)

FromMachine(machine, op, dst) ==
    [Packet(op, "me", machine, dst) EXCEPT !.from = machine, !.client = "me"]

DhcpAnswer(op, client, ip) ==
    [FromMachine(site.server, op, "ff") EXCEPT !.to = "ff", !.client = client, !.arg = ip,
                                               !.relay = site.relay, !.server = site.server]

Machines == {"gw", "srv"}

\* A packet reaches dst by its Ethernet address, by broadcast or over the router.
Reaches(pkt) == pkt.dst \in Machines /\ pkt.to \in {"ff", "gw", pkt.dst}

Answers(pkt) ==
    CASE pkt.op = "arpRequest" /\ pkt.dst \in Machines -> {[FromMachine(pkt.dst, "arpReply", pkt.src) EXCEPT !.to = "me"]}
      [] pkt.op = "discover" -> {DhcpAnswer("offer", "me", "ip1")}
      [] pkt.op = "request" /\ pkt.server = site.server -> {DhcpAnswer("ack", "me", pkt.arg)}
      [] pkt.op = "query" /\ Reaches(pkt) /\ pkt.dst = site.dns ->
            {[FromMachine(pkt.dst, "answer", pkt.src) EXCEPT !.sport = DNS_PORT, !.dport = pkt.sport, !.arg = "srv"]}
      [] pkt.op = "pingRequest" /\ Reaches(pkt) -> {FromMachine(pkt.dst, "pingReply", pkt.src)}
      [] OTHER -> {}

MachineAnswers == \E pkt \in air :
    /\ pkt.from = "me" \/ pkt.to \notin {"me", "ff"}
    /\ air' = (air \ {pkt}) \cup Answers(pkt)
    /\ UNCHANGED <<h, site, query, used>>

Lose == \E pkt \in air :
    /\ used.losses + used.copies < MaxFaults
    /\ air' = air \ {pkt}
    /\ used' = [used EXCEPT !.losses = @ + 1]
    /\ UNCHANGED <<h, site, query>>

\* A machine looks for this host, or pings it.
PeerAsks == \E op \in {"arpRequest", "pingRequest"} :
    /\ used.peers + used.others < MaxStrangers
    /\ air' = air \cup {[FromMachine("srv", op, h.own.ip) EXCEPT !.to = IF op = "arpRequest" THEN "ff" ELSE "me"]}
    /\ used' = [used EXCEPT !.peers = @ + 1]
    /\ UNCHANGED <<h, site, query>>

\* The server talks to another client at the same time.
OtherClient == \E op \in {"offer", "ack"} :
    /\ used.peers + used.others < MaxStrangers
    /\ air' = air \cup {DhcpAnswer(op, "other", "ip2")}
    /\ used' = [used EXCEPT !.others = @ + 1]
    /\ UNCHANGED <<h, site, query>>

-----------------------------------------------------------------------------

\* IPInit
NewHost == [own |-> [ip |-> "ip0", gateway |-> "0", gatewayMac |-> "ff", dns |-> "0",
                     request |-> "none", retry |-> 0],
            cache |-> [i \in 0..CacheSize - 1 |-> [ip |-> "0", mac |-> "0"]], index |-> 0,
            sockets |-> [i \in {} |-> {}], free |-> FRAME_COUNT, sending |-> <<>>, jobs |-> <<>>,
            port |-> 1, gaveUp |-> FALSE, broken |-> FALSE]

Init ==
    /\ h = Discover(NewHost)
    /\ air = {} /\ query = "none"
    /\ site \in Sites
    /\ used = [losses |-> 0, copies |-> 0, late |-> 0, queries |-> 0, peers |-> 0, others |-> 0]

Next == /\ ~h.broken
        /\ Transmit \/ Receive \/ Job \/ MachineAnswers \/ Tick \/ Ask \/ Lose \/ PeerAsks \/ OtherClient

\* Weak fairness of Next, which is disabled when h is broken only: the threads of the host run,
\* the machines answer, packets that are not lost arrive, and time passes when
\* nothing else is left; what is under way always ends, so that nothing starves.
Fairness == []<>h.broken \/ []<><<Next>>_vars
Spec == Init /\ [][Next]_vars /\ Fairness

-----------------------------------------------------------------------------
(* Properties *)

\* What DHCP set up is what the server gave to this host, all of it together,
\* and the Ethernet address used for everything outside is the gateway's own or
\* still unknown: the sender of an acknowledgement is not taken for the gateway
\* (line 646).
Gateway == IF site.relay = "0" THEN site.server ELSE site.relay
SetupRight ==
    /\ \/ h.own.ip = "ip0" /\ h.own.gateway = "0" /\ h.own.dns = "0"
       \/ h.own.ip = "ip1" /\ h.own.gateway = Gateway /\ h.own.dns = site.dns
    /\ h.own.gatewayMac \in {"ff", h.own.gateway}

\* Every frame is free, queued or on the read list of a socket, also when a
\* datagram comes for a closed one. A socket that IPTick frees takes frames along
\* only if a job still waits for it, and its callback then works on freed memory
\* (IPMainThread, IPProcessEthernetPacket, IPTick).
OnLists(x) == UNION { {i} \X (1..Len(x.sockets[i].read)) : i \in DOMAIN x.sockets }
FramesKept ==
    /\ h.free >= 0
    /\ ~Dangling(h) /\ ~h.broken =>
          h.free + Len(h.sending) + Cardinality(OnLists(h)) = FRAME_COUNT

\* Whatever is lost, the host holds a lease again and again (DhcpRetrySeconds).
LeaseComes == []<>h.broken \/ []<>(h.own.request = "none" /\ h.own.ip = "ip1")

\* A name that is asked for is resolved and pinged unless a packet is lost or no
\* frame is there: also when the gateway's Ethernet address is not known yet.
QueryEnds == (query = "open") ~> (query = "pinged" \/ used.losses > 0 \/ h.gaveUp \/ h.broken)
=============================================================================
