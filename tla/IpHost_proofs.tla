---------------------------- MODULE IpHost_proofs ----------------------------
(***************************************************************************)
(* What a host set up with DHCP is right and none of its frames is lost,   *)
(* whatever the network does with the packets, for any number of frames,   *)
(* entries of the cache, machines that ask and networks.                   *)
(*                                                                         *)
(* SetupRight holds because of what is on the way: a reply of ARP and an   *)
(* answer of the DHCP server come from the machine that they name, and     *)
(* every request that the server acknowledges has the address it offered.  *)
(* FramesKept holds because a socket with a datagram on its list is the    *)
(* one of a job that waits: of the sockets that IPTick throws away with    *)
(* what they hold, those that no job waits for are empty.                  *)
(***************************************************************************)
EXTENDS IpHost, FiniteSetTheorems, TLAPS

-----------------------------------------------------------------------------
(* The inductive invariant *)

\* Every text is a string, which the provers do not know of those written here.
Written == {"0", "ff", "me", "gw", "srv", "ip0", "ip1", "ip2", "A", "name", "none", "arpRequest", "arpReply", "discover",
            "offer", "request", "ack", "query", "answer", "pingRequest", "pingReply", "other"}
Texts == STRING \cup Written

Packets == [op : Texts, from : Texts, to : Texts, src : Texts, dst : Texts,
            sport : Nat, dport : Nat, arg : Texts, client : Texts, relay : Texts, server : Texts]

\* The packets of this host, and those that may be on the network s.
Mine == { p \in Packets : /\ p.from = "me" /\ p.op \notin {"offer", "ack"}
                          /\ p.op = "request" => p.arg = "ip1" }
OnAir(s) == { p \in Packets :
    /\ p.op = "request" => p.arg = "ip1"
    /\ p.op = "arpReply" /\ p.from # "me" => p.src = p.from
    /\ p.op \in {"offer", "ack"} => /\ p.src = p.from /\ p.server = s.server /\ p.relay = s.relay
                                    /\ p.client = "me" => p.arg = "ip1" }

OwnTypes == [ip : Texts, gateway : Texts, gatewayMac : Texts, dns : Texts, request : Texts, retry : Int]
GatewayOf(s) == IF s.relay = "0" THEN s.server ELSE s.relay
OwnRight(o, s) ==
    /\ \/ o.ip = "ip0" /\ o.gateway = "0" /\ o.dns = "0"
       \/ o.ip = "ip1" /\ o.gateway = GatewayOf(s) /\ o.dns = s.dns
    /\ o.gatewayMac \in {"ff", o.gateway}

SocketTypes == [kind : {"dns", "ping"}, open : BOOLEAN, peer : Texts, own : Texts, port : Nat,
                mac : Texts, timeout : Nat, read : Seq(Texts)]
SocketsRight(x) ==
    /\ x.port \in Nat \ {0}
    /\ x.sockets \in [DOMAIN x.sockets -> SocketTypes]
    /\ DOMAIN x.sockets \subseteq 1 .. x.port - 1
    /\ x.jobs \in Seq(Nat)
    /\ \A k \in 1 .. Len(x.jobs) : x.jobs[k] \in 1 .. x.port - 1

Fields == {"own", "cache", "index", "sockets", "free", "sending", "jobs", "port", "gaveUp", "broken"}

\* A host of the network s
Host(x, s) ==
    /\ DOMAIN x = Fields
    /\ x.own \in OwnTypes /\ OwnRight(x.own, s)
    /\ x.cache \in [0 .. CacheSize - 1 -> [ip : Texts, mac : Texts]]
    /\ x.index \in 0 .. CacheSize - 1
    /\ x.free \in Nat /\ x.sending \in Seq(Mine)
    /\ x.gaveUp \in BOOLEAN /\ x.broken \in BOOLEAN
    /\ SocketsRight(x)

Frames(x) == x.free + Len(x.sending) + Cardinality(OnLists(x))
Counted(x) == IsFiniteSet(OnLists(x)) /\ (~Dangling(x) => Frames(x) = FRAME_COUNT)

\* A socket with something to read has a job.
Waits(x, id) == x.sockets[id].read # <<>> => \E k \in 1 .. Len(x.jobs) : x.jobs[k] = id

IInv ==
    /\ site \in Sites
    /\ air \subseteq OnAir(site)
    /\ Host(h, site)
    /\ Counted(h)
    /\ \A id \in DOMAIN h.sockets : Waits(h, id)

-----------------------------------------------------------------------------
(* Numbers *)

(* A set of natural numbers that is not empty has a least one.               *)
LEMMA LeastNat ==
  ASSUME NEW T \in SUBSET Nat, T # {}
  PROVE  Min(T) \in T /\ \A y \in T : Min(T) <= y
<1>1. IsWellFoundedOn(OpToRel(<, Nat), Nat)
    BY NatLessThanWellFounded
<1>2. OpToRel(<, Nat) = {ss \in Nat \X Nat : ss[1] < ss[2]}
    BY DEF OpToRel
<1>3. PICK x \in T : \A y \in T : ~(<<y, x>> \in OpToRel(<, Nat))
    BY <1>1, WFMin
<1>4. \A y \in T : ~(<<y, x>> \in {ss \in Nat \X Nat : ss[1] < ss[2]})
    BY <1>2, <1>3
<1>5. \A y \in T : ~(y < x)
    BY <1>4
<1>6. x \in T /\ \A y \in T : x <= y
    BY <1>5
<1>7. QED
    BY <1>6 DEF Min

(* A set of natural numbers up to a bound that is not empty has a greatest.  *)
LEMMA GreatestNat ==
  ASSUME NEW n \in Nat, NEW T \in SUBSET (0 .. n), T # {}
  PROVE  Max(T) \in T
<1> DEFINE R == { k \in Nat : \E j \in T : k = n - j }
<1>1. PICK a \in T : a \in 0 .. n
    OBVIOUS
<1>2. R \in SUBSET Nat /\ n - a \in R
    BY <1>1
<1> DEFINE m == Min(R)
<1>3. m \in R /\ \A r \in R : m <= r
    BY <1>2, LeastNat
<1>4. PICK x \in T : m = n - x
    BY <1>3
<1>5. ASSUME NEW y \in T PROVE y <= x
  <2>1. y \in 0 .. n /\ x \in 0 .. n /\ n - y \in R
      OBVIOUS
  <2>2. m <= n - y
      BY <1>3, <2>1
  <2>3. QED
      BY <1>4, <2>1, <2>2
<1>6. QED
    BY <1>5 DEF Max

-----------------------------------------------------------------------------
(* Frames that are queued *)

\* y has no socket that x does not have but those opened since.
OnlyNew(x, y) == x.port <= y.port /\ DOMAIN y.sockets \cap (1 .. x.port - 1) \subseteq DOMAIN x.sockets

\* y is x after what keeps the jobs and the lists of the sockets; d frames that
\* were out of the free ones are queued.
Step(x, y, d, s) ==
    /\ Host(y, s)
    /\ y.jobs = x.jobs
    /\ DOMAIN x.sockets \subseteq DOMAIN y.sockets /\ OnlyNew(x, y)
    /\ \A i \in DOMAIN x.sockets : y.sockets[i].read = x.sockets[i].read /\ y.sockets[i].kind = x.sockets[i].kind
    /\ \A i \in DOMAIN y.sockets \ DOMAIN x.sockets : y.sockets[i].read = <<>>
    /\ y.free + Len(y.sending) = x.free + Len(x.sending) + d

(* Opened by one of two steps is opened by both together.                    *)
LEMMA OnlyNewTwice ==
  ASSUME NEW x, NEW y, NEW z, NEW s, Host(x, s), NEW t, Host(y, t), NEW u, Host(z, u), OnlyNew(x, y), OnlyNew(y, z)
  PROVE  OnlyNew(x, z)
<1>1. x.port \in Nat /\ y.port \in Nat /\ z.port \in Nat
    BY DEF Host, SocketsRight
<1>2. x.port <= y.port /\ y.port <= z.port
    BY DEF OnlyNew
<1>3. 1 .. x.port - 1 \subseteq 1 .. y.port - 1
    BY <1>1, <1>2
<1>4. QED
    BY <1>1, <1>2, <1>3 DEF OnlyNew

(* With the same sockets none is new.                                        *)
LEMMA SameSockets ==
  ASSUME NEW x, NEW y, NEW s, Host(x, s), y.port = x.port, DOMAIN y.sockets = DOMAIN x.sockets
  PROVE  OnlyNew(x, y)
<1>1. x.port \in Nat
    BY DEF Host, SocketsRight
<1>2. QED
    BY <1>1 DEF OnlyNew

(* Two such steps make one.                                                  *)
LEMMA StepTwice ==
  ASSUME NEW x, NEW y, NEW z, NEW d \in Int, NEW e \in Int, NEW s,
         Host(x, s), Step(x, y, d, s), Step(y, z, e, s)
  PROVE  Step(x, z, d + e, s)
<1>1. x.free + Len(x.sending) \in Int
    BY DEF Host
<1>2. OnlyNew(x, z)
    BY OnlyNewTwice DEF Step
<1>3. QED
    BY <1>1, <1>2 DEF Step

(* A frame that was taken goes to the end of the send queue.                 *)
LEMMA QueueStep ==
  ASSUME NEW x, NEW s, Host(x, s), NEW pkt \in Mine
  PROVE  Step(x, Queue(x, pkt), 1, s)
<1> DEFINE y == Queue(x, pkt)
<1>1. DOMAIN x = Fields /\ x.sending \in Seq(Mine)
    BY DEF Host
<1>2. /\ DOMAIN y = Fields /\ y.sending = Append(x.sending, pkt)
      /\ y.own = x.own /\ y.cache = x.cache /\ y.index = x.index /\ y.free = x.free
      /\ y.sockets = x.sockets /\ y.jobs = x.jobs /\ y.port = x.port /\ y.gaveUp = x.gaveUp /\ y.broken = x.broken
    BY <1>1 DEF Queue, Fields
<1>3. y.sending \in Seq(Mine) /\ Len(y.sending) = Len(x.sending) + 1 /\ Len(x.sending) \in Nat
    BY <1>1, <1>2
<1> HIDE DEF y
<1>4. Host(y, s)
    BY <1>2, <1>3 DEF Host, SocketsRight
<1>5. x.free \in Nat
    BY DEF Host
<1>6. QED
    BY <1>2, <1>3, <1>4, <1>5, SameSockets DEF y, Step

(* Doing nothing is a step that queues nothing.                              *)
LEMMA NoStep ==
  ASSUME NEW x, NEW s, Host(x, s)
  PROVE  Step(x, x, 0, s)
<1>1. x.free \in Nat /\ Len(x.sending) \in Nat
    BY DEF Host
<1>2. QED
    BY <1>1, SameSockets DEF Step

(* A frame is taken that was free.                                           *)
LEMMA GetStep ==
  ASSUME NEW x, NEW s, Host(x, s), x.free > 0
  PROVE  Step(x, Get(x), -1, s) /\ Get(x).own = x.own
<1> DEFINE y == Get(x)
<1>1. DOMAIN x = Fields /\ x.free \in Nat /\ Len(x.sending) \in Nat
    BY DEF Host
<1>2. /\ DOMAIN y = Fields /\ y.free = x.free - 1 /\ y.sending = x.sending
      /\ y.own = x.own /\ y.cache = x.cache /\ y.index = x.index
      /\ y.sockets = x.sockets /\ y.jobs = x.jobs /\ y.port = x.port /\ y.gaveUp = x.gaveUp /\ y.broken = x.broken
    BY <1>1 DEF Get, Fields
<1> HIDE DEF y
<1>3. Host(y, s)
    BY <1>1, <1>2 DEF Host, SocketsRight
<1>4. QED
    BY <1>1, <1>2, <1>3, SameSockets DEF y, Step

(* A frame that was out goes back to the free ones.                          *)
LEMMA FreeStep ==
  ASSUME NEW x, NEW s, Host(x, s)
  PROVE  Step(x, Free(x), 1, s)
<1> DEFINE y == Free(x)
<1>1. DOMAIN x = Fields /\ x.free \in Nat /\ Len(x.sending) \in Nat
    BY DEF Host
<1>2. /\ DOMAIN y = Fields /\ y.free = x.free + 1 /\ y.sending = x.sending
      /\ y.own = x.own /\ y.cache = x.cache /\ y.index = x.index
      /\ y.sockets = x.sockets /\ y.jobs = x.jobs /\ y.port = x.port /\ y.gaveUp = x.gaveUp /\ y.broken = x.broken
    BY <1>1 DEF Free, Fields
<1> HIDE DEF y
<1>3. Host(y, s)
    BY <1>1, <1>2 DEF Host, SocketsRight
<1>4. QED
    BY <1>1, <1>2, <1>3, SameSockets DEF y, Step

(* Who may take a frame finds one.                                           *)
LEMMA HasFrames ==
  ASSUME NEW x, NEW n, Has(x, n)
  PROVE  x.free > 0
BY DEF Has

(* What the host says of itself changes.                                     *)
LEMMA OwnStep ==
  ASSUME NEW x, NEW s, Host(x, s), NEW o \in OwnTypes, OwnRight(o, s)
  PROVE  Step(x, [x EXCEPT !.own = o], 0, s) /\ [x EXCEPT !.own = o].own = o
<1> DEFINE y == [x EXCEPT !.own = o]
<1>1. DOMAIN x = Fields /\ x.free \in Nat /\ Len(x.sending) \in Nat
    BY DEF Host
<1>2. /\ DOMAIN y = Fields /\ y.free = x.free /\ y.sending = x.sending
      /\ y.own = o /\ y.cache = x.cache /\ y.index = x.index
      /\ y.sockets = x.sockets /\ y.jobs = x.jobs /\ y.port = x.port /\ y.gaveUp = x.gaveUp /\ y.broken = x.broken
    BY <1>1 DEF Fields
<1> HIDE DEF y
<1>3. Host(y, s)
    BY <1>1, <1>2 DEF Host, SocketsRight
<1>4. OnlyNew(x, y)
    BY <1>1, <1>2, SameSockets
<1>5. QED
    BY <1>1, <1>2, <1>3, <1>4 DEF y, Step

(* The socket with the number id has another Ethernet address.               *)
LEMMA MacStep ==
  ASSUME NEW x, NEW s, Host(x, s), NEW id, NEW mac \in Texts
  PROVE  Step(x, [x EXCEPT !.sockets = SetMac(@, id, mac)], 0, s)
<1> DEFINE y == [x EXCEPT !.sockets = SetMac(@, id, mac)]
<1>1. DOMAIN x = Fields /\ x.free \in Nat /\ Len(x.sending) \in Nat /\ SocketsRight(x)
    BY DEF Host
<1>2. /\ DOMAIN y = Fields /\ y.free = x.free /\ y.sending = x.sending
      /\ y.own = x.own /\ y.cache = x.cache /\ y.index = x.index
      /\ y.sockets = SetMac(x.sockets, id, mac) /\ y.jobs = x.jobs /\ y.port = x.port /\ y.gaveUp = x.gaveUp /\ y.broken = x.broken
    BY <1>1 DEF Fields
<1> HIDE DEF y
<1>3. /\ DOMAIN y.sockets = DOMAIN x.sockets
      /\ \A i \in DOMAIN x.sockets : /\ y.sockets[i] \in SocketTypes
                                     /\ y.sockets[i].read = x.sockets[i].read
                                     /\ y.sockets[i].kind = x.sockets[i].kind
  <2>1. DOMAIN y.sockets = DOMAIN x.sockets
      BY <1>2 DEF SetMac
  <2>2. ASSUME NEW i \in DOMAIN x.sockets
        PROVE  /\ y.sockets[i] \in SocketTypes
               /\ y.sockets[i].read = x.sockets[i].read /\ y.sockets[i].kind = x.sockets[i].kind
    <3>1. x.sockets[i] \in SocketTypes
        BY <1>1 DEF SocketsRight
    <3>2. y.sockets[i] = IF i = id THEN [x.sockets[i] EXCEPT !.mac = mac] ELSE x.sockets[i]
        BY <1>2 DEF SetMac
    <3>3. QED
        BY <3>1, <3>2 DEF SocketTypes
  <2>3. QED
      BY <2>1, <2>2
<1>4. y.sockets \in [DOMAIN y.sockets -> SocketTypes]
    BY <1>2, <1>3 DEF SetMac
<1>5. SocketsRight(y)
    BY <1>1, <1>2, <1>3, <1>4 DEF SocketsRight
<1>6. Host(y, s)
    BY <1>2, <1>5 DEF Host
<1>7. OnlyNew(x, y)
    BY <1>2, <1>3, SameSockets
<1>8. QED
    BY <1>1, <1>2, <1>3, <1>6, <1>7 DEF y, Step

-----------------------------------------------------------------------------
(* What the host sends *)

(* The texts that the module writes are texts.                               *)
LEMMA WrittenTexts ==
  \A t \in Written : t \in Texts
BY DEF Texts

(* A packet that is neither an answer of a DHCP server nor a request to it.  *)
LEMMA PacketMine ==
  ASSUME NEW op \in Texts, op \notin {"offer", "ack", "request"}, NEW to \in Texts, NEW src \in Texts, NEW dst \in Texts
  PROVE  Packet(op, to, src, dst) \in Mine
<1> DEFINE p == Packet(op, to, src, dst)
<1>1. p = [op |-> op, from |-> "me", to |-> to, src |-> src, dst |-> dst, sport |-> 0, dport |-> 0,
           arg |-> "0", client |-> "me", relay |-> "0", server |-> "0"]
    BY DEF Packet
<1> HIDE DEF p
<1>2. "me" \in Texts /\ "0" \in Texts
    BY WrittenTexts DEF Written
<1>5. p \in Packets
    BY <1>1, <1>2 DEF Packets
<1>3. p.from = "me" /\ p.op = op
    BY <1>1
<1>4. QED
    BY <1>3, <1>5 DEF p, Mine

(* IPArp queues one frame or, without one, does nothing.                     *)
LEMMA ArpStep ==
  ASSUME NEW x, NEW s, Host(x, s), NEW ip \in Texts
  PROVE  Step(x, IPArp(x, ip), 0, s) /\ IPArp(x, ip).own = x.own
<1>1. CASE Has(x, 0)
  <2> DEFINE pkt == Packet("arpRequest", "ff", x.own.ip, ip)
  <2>1. x.own \in OwnTypes
      BY DEF Host
  <2>10. "arpRequest" \in Texts /\ "ff" \in Texts /\ x.own.ip \in Texts
      BY <2>1, WrittenTexts DEF Written, OwnTypes
  <2>2. pkt \in Mine
      BY <2>10, PacketMine
  <2>3. Step(x, Get(x), -1, s) /\ Get(x).own = x.own
      BY <1>1, HasFrames, GetStep
  <2> HIDE DEF pkt
  <2>4. Host(Get(x), s)
      BY <2>3 DEF Step
  <2>5. Step(Get(x), Queue(Get(x), pkt), 1, s)
      BY <2>2, <2>4, QueueStep
  <2>6. Step(x, Queue(Get(x), pkt), -1 + 1, s)
      BY <2>3, <2>5, StepTwice
  <2>7. Queue(Get(x), pkt).own = Get(x).own
    <3>1. DOMAIN Get(x) = Fields
        BY <2>4 DEF Host
    <3>2. QED
        BY <3>1 DEF Queue, Fields
  <2>8. IPArp(x, ip) = Queue(Get(x), pkt)
      BY <1>1 DEF IPArp, pkt
  <2>9. QED
      BY <2>3, <2>6, <2>7, <2>8
<1>2. CASE ~Has(x, 0)
    BY <1>2, NoStep DEF IPArp
<1>3. QED
    BY <1>1, <1>2

(* IPSendFrame queues the frame of its packet, whether it knows the address. *)
LEMMA SendStep ==
  ASSUME NEW x, NEW s, Host(x, s), NEW pkt \in Mine, NEW id
  PROVE  Step(x, IPSendFrame(x, pkt, id), 1, s)
<1>1. pkt.dst \in Texts
    BY DEF Mine, Packets
<1>2. CASE pkt.to # "ff" \/ pkt.dst = "ff"
    BY <1>2, QueueStep DEF IPSendFrame
<1>3. CASE ~(pkt.to # "ff" \/ pkt.dst = "ff") /\ Cached(x, pkt.dst) # {}
  <2> DEFINE mac == x.cache[Min(Cached(x, pkt.dst))].mac
             y == [x EXCEPT !.sockets = SetMac(@, id, mac)]
             sent == [pkt EXCEPT !.to = mac]
  <2>1. x.cache \in [0 .. CacheSize - 1 -> [ip : Texts, mac : Texts]]
      BY DEF Host
  <2>2. Cached(x, pkt.dst) \in SUBSET Nat /\ Cached(x, pkt.dst) \subseteq 0 .. CacheSize - 1
      BY <2>1, HostAssumption DEF Cached
  <2>3. Min(Cached(x, pkt.dst)) \in 0 .. CacheSize - 1
      BY <1>3, <2>2, LeastNat
  <2>4. mac \in Texts
      BY <2>1, <2>3
  <2>5. IPSendFrame(x, pkt, id) = Queue(y, sent)
      BY <1>3 DEF IPSendFrame
  <2>6. sent \in Mine
      BY <2>4 DEF Mine, Packets
  <2> HIDE DEF mac, sent
  <2>7. Step(x, y, 0, s)
      BY <2>4, MacStep
  <2> HIDE DEF y
  <2>8. Host(y, s)
      BY <2>7 DEF Step
  <2>9. Step(y, Queue(y, sent), 1, s)
      BY <2>6, <2>8, QueueStep
  <2>10. Step(x, Queue(y, sent), 0 + 1, s)
      BY <2>7, <2>9, StepTwice
  <2>11. QED
      BY <2>5, <2>10
<1>4. CASE ~(pkt.to # "ff" \/ pkt.dst = "ff") /\ Cached(x, pkt.dst) = {}
  <2> DEFINE y == IPArp(x, pkt.dst)
  <2>1. Step(x, y, 0, s)
      BY <1>1, ArpStep
  <2> HIDE DEF y
  <2>2. Host(y, s)
      BY <2>1 DEF Step
  <2>3. Step(y, Queue(y, pkt), 1, s)
      BY <2>2, QueueStep
  <2>4. Step(x, Queue(y, pkt), 0 + 1, s)
      BY <2>1, <2>3, StepTwice
  <2>5. IPSendFrame(x, pkt, id) = Queue(y, pkt)
      BY <1>4 DEF IPSendFrame, y
  <2>6. QED
      BY <2>4, <2>5
<1>5. QED
    BY <1>2, <1>3, <1>4

-----------------------------------------------------------------------------
(* DHCP *)

(* A packet is sent by who has a frame for it, and what the host says of     *)
(* itself changes.                                                           *)
LEMMA SaysStep ==
  ASSUME NEW x, NEW s, Host(x, s), x.free > 0, NEW pkt \in Mine, NEW o \in OwnTypes, OwnRight(o, s)
  PROVE  Step(x, [Queue(Get(x), pkt) EXCEPT !.own = o], 0, s)
<1>1. Step(x, Get(x), -1, s)
    BY GetStep
<1>2. Host(Get(x), s)
    BY <1>1 DEF Step
<1> DEFINE y == Queue(Get(x), pkt)
<1>3. Step(Get(x), y, 1, s)
    BY <1>2, QueueStep
<1> HIDE DEF y
<1>4. Step(x, y, -1 + 1, s)
    BY <1>1, <1>3, StepTwice
<1>5. Host(y, s)
    BY <1>3 DEF Step
<1>6. Step(y, [y EXCEPT !.own = o], 0, s)
    BY <1>5, OwnStep
<1>7. Step(x, [y EXCEPT !.own = o], 0 + 0, s)
    BY <1>4, <1>6, StepTwice
<1>8. QED
    BY <1>7 DEF y

(* The state of the DHCP request does not touch the lease.                   *)
LEMMA OwnAsks ==
  ASSUME NEW o \in OwnTypes, NEW s, OwnRight(o, s), NEW r \in Texts
  PROVE  [o EXCEPT !.request = r] \in OwnTypes /\ OwnRight([o EXCEPT !.request = r], s)
<1> DEFINE p == [o EXCEPT !.request = r]
<1>1. p \in OwnTypes /\ p.ip = o.ip /\ p.gateway = o.gateway /\ p.gatewayMac = o.gatewayMac /\ p.dns = o.dns
    BY DEF OwnTypes
<1> HIDE DEF p
<1>2. OwnRight(p, s)
    BY <1>1 DEF OwnRight
<1>3. QED
    BY <1>1, <1>2 DEF p

(* The time to the next DHCP request does not touch the lease.               *)
LEMMA OwnWaits ==
  ASSUME NEW o \in OwnTypes, NEW s, OwnRight(o, s), NEW n \in Int
  PROVE  [o EXCEPT !.retry = n] \in OwnTypes /\ OwnRight([o EXCEPT !.retry = n], s)
<1> DEFINE p == [o EXCEPT !.retry = n]
<1>1. p \in OwnTypes /\ p.ip = o.ip /\ p.gateway = o.gateway /\ p.gatewayMac = o.gatewayMac /\ p.dns = o.dns
    BY DEF OwnTypes
<1> HIDE DEF p
<1>2. OwnRight(p, s)
    BY <1>1 DEF OwnRight
<1>3. QED
    BY <1>1, <1>2 DEF p

(* DHCP starts (IPDhcp in state 1).                                          *)
LEMMA DiscoverStep ==
  ASSUME NEW x, NEW s, Host(x, s)
  PROVE  Step(x, Discover(x), 0, s)
<1>1. CASE Has(x, 0)
  <2> DEFINE pkt == Packet("discover", "ff", "0", "ff")
             y == Queue(Get(x), pkt)
             o == [x.own EXCEPT !.request = "discover", !.retry = 2]
  <2>8. "discover" \in Texts /\ "ff" \in Texts /\ "0" \in Texts
      BY WrittenTexts DEF Written
  <2>1. pkt \in Mine /\ x.free > 0
      BY <1>1, <2>8, HasFrames, PacketMine
  <2>2. DOMAIN x = Fields /\ x.own \in OwnTypes /\ OwnRight(x.own, s)
      BY DEF Host
  <2>3. o \in OwnTypes /\ OwnRight(o, s)
    <3> DEFINE o1 == [x.own EXCEPT !.request = "discover"]
    <3>1. o1 \in OwnTypes /\ OwnRight(o1, s)
        BY <2>2, <2>8, OwnAsks
    <3>2. o = [o1 EXCEPT !.retry = 2]
        OBVIOUS
    <3> HIDE DEF o1, o
    <3>3. QED
        BY <3>1, <3>2, OwnWaits
  <2>4. DOMAIN y = Fields /\ y.own = x.own
      BY <2>2 DEF Queue, Get, Fields
  <2>5. Discover(x) = [y EXCEPT !.own = o]
      BY <1>1, <2>4 DEF Discover, Fields
  <2> HIDE DEF pkt, o
  <2>6. Step(x, [y EXCEPT !.own = o], 0, s)
      BY <2>1, <2>3, SaysStep
  <2>7. QED
      BY <2>5, <2>6
<1>2. CASE ~Has(x, 0)
    BY <1>2, NoStep DEF Discover
<1>3. QED
    BY <1>1, <1>2

(* An offer to this host is asked for, with the address that it names.       *)
LEMMA TakeOfferStep ==
  ASSUME NEW x, NEW s, Host(x, s), NEW pkt \in OnAir(s), pkt.op = "offer", pkt.client = "me"
  PROVE  Step(x, TakeOffer(x, pkt), 0, s)
<1>1. CASE Has(x, 0)
  <2> DEFINE p0 == Packet("discover", "ff", "0", "ff")
             p1 == Packet("request", "ff", "0", "ff")
             p == [p1 EXCEPT !.arg = pkt.arg, !.server = pkt.server]
             y == Queue(Get(x), p)
             o == [x.own EXCEPT !.request = "request"]
  <2>1. "request" \in Texts /\ "ff" \in Texts /\ "0" \in Texts /\ "me" \in Texts
      BY WrittenTexts DEF Written
  <2>2. pkt \in Packets /\ pkt.arg = "ip1"
      BY DEF OnAir
  <2>3. p1 = [op |-> "request", from |-> "me", to |-> "ff", src |-> "0", dst |-> "ff", sport |-> 0, dport |-> 0,
              arg |-> "0", client |-> "me", relay |-> "0", server |-> "0"]
      BY DEF Packet
  <2> HIDE DEF p1
  <2>4. p1 \in Packets
      BY <2>1, <2>3 DEF Packets
  <2>5. pkt.arg \in Texts /\ pkt.server \in Texts
      BY <2>2 DEF Packets
  <2>6. p \in Packets /\ p.from = p1.from /\ p.op = p1.op /\ p.arg = pkt.arg
      BY <2>4, <2>5 DEF Packets
  <2> HIDE DEF p
  <2>7. p \in Mine
      BY <2>2, <2>3, <2>6 DEF Mine
  <2>8. DOMAIN x = Fields /\ x.own \in OwnTypes /\ OwnRight(x.own, s) /\ x.free > 0
      BY <1>1, HasFrames DEF Host
  <2>9. o \in OwnTypes /\ OwnRight(o, s)
      BY <2>1, <2>8, OwnAsks
  <2>10. DOMAIN y = Fields /\ y.own = x.own
      BY <2>8 DEF Queue, Get, Fields
  <2>11. TakeOffer(x, pkt) = [y EXCEPT !.own = o]
      BY <1>1, <2>10 DEF TakeOffer, Fields, p, p1
  <2> HIDE DEF o
  <2>12. Step(x, [y EXCEPT !.own = o], 0, s)
      BY <2>7, <2>8, <2>9, SaysStep
  <2>13. QED
      BY <2>11, <2>12
<1>2. CASE ~Has(x, 0)
    BY <1>2, NoStep DEF TakeOffer
<1>3. QED
    BY <1>1, <1>2

(* The lease is that of the site, all of it together; the gateway has the    *)
(* Ethernet address of the sender only if it is the sender.                  *)
LEMMA TakeAckStep ==
  ASSUME NEW x, Host(x, site), site \in Sites, NEW pkt \in OnAir(site), pkt.op = "ack", pkt.client = "me"
  PROVE  Step(x, TakeAck(x, pkt), 0, site)
<1> DEFINE o == Leased(x.own, pkt)
           y == [x EXCEPT !.own = o]
           o2 == [o EXCEPT !.gatewayMac = "ff"]
<1>1. pkt \in Packets /\ pkt.arg = "ip1" /\ pkt.src = pkt.from /\ pkt.server = site.server /\ pkt.relay = site.relay
    BY DEF OnAir
<1>2. DOMAIN x = Fields /\ x.own \in OwnTypes /\ OwnRight(x.own, site)
    BY DEF Host
<1>3. "ff" \in Texts /\ "none" \in Texts /\ "ip1" \in Texts
    BY WrittenTexts DEF Written
<1>4. site.dns \in Texts /\ site.server \in Texts /\ site.relay \in Texts
    BY SitesAssumption DEF Texts
<1>5. pkt.from \in Texts
    BY <1>1 DEF Packets
<1>6. LeaseSeconds \in Int
    BY HostAssumption
<1>7. /\ o.ip = "ip1" /\ o.gateway = GatewayOf(site) /\ o.dns = site.dns /\ o.gatewayMac = pkt.from
      /\ o \in OwnTypes
  <2> DEFINE g == IF pkt.relay = "0" THEN pkt.server ELSE pkt.relay
  <2>1. g = GatewayOf(site) /\ g \in Texts
      BY <1>1, <1>4 DEF GatewayOf
  <2>2. o = [x.own EXCEPT !.request = "none", !.retry = LeaseSeconds, !.ip = pkt.arg, !.dns = site.dns,
                          !.gateway = g, !.gatewayMac = pkt.from]
      BY DEF Leased
  <2> HIDE DEF g, o
  <2>3. QED
      BY <1>1, <1>2, <1>3, <1>4, <1>5, <1>6, <2>1, <2>2 DEF OwnTypes
<1>8. DOMAIN y = Fields /\ y.own = o
    BY <1>2 DEF Fields
<1>9. CASE pkt.src = o.gateway
  <2>1. OwnRight(o, site)
      BY <1>1, <1>7, <1>9 DEF OwnRight
  <2>2. Step(x, y, 0, site)
    <3> HIDE DEF o
    <3>1. QED
        BY <1>7, <2>1, OwnStep
  <2>3. TakeAck(x, pkt) = y
      BY <1>8, <1>9 DEF TakeAck
  <2>4. QED
      BY <2>2, <2>3
<1>10. CASE pkt.src # o.gateway
  <2> DEFINE z == [x EXCEPT !.own = o2]
  <2>1. o2 \in OwnTypes /\ o2.ip = o.ip /\ o2.gateway = o.gateway /\ o2.dns = o.dns /\ o2.gatewayMac = "ff"
    <3> HIDE DEF o
    <3>1. QED
        BY <1>3, <1>7 DEF OwnTypes
  <2>2. [y EXCEPT !.own.gatewayMac = "ff"] = z
    <3>1. [y EXCEPT !.own.gatewayMac = "ff"] = [y EXCEPT !.own = [y.own EXCEPT !.gatewayMac = "ff"]]
        OBVIOUS
    <3>2. [y EXCEPT !.own = o2] = z
      <4> HIDE DEF o, o2
      <4>1. QED
          BY <1>2, <1>8
    <3>3. QED
        BY <1>8, <3>1, <3>2
  <2>3. TakeAck(x, pkt) = IPArp(z, o.gateway)
    <3>1. y.own.gateway = o.gateway
        BY <1>8
    <3>2. TakeAck(x, pkt) = IPArp([y EXCEPT !.own.gatewayMac = "ff"], y.own.gateway)
        BY <1>8, <1>10 DEF TakeAck
    <3>3. QED
        BY <2>2, <3>1, <3>2
  <2> HIDE DEF o, o2
  <2>4. OwnRight(o2, site)
      BY <1>7, <2>1 DEF OwnRight
  <2>5. Step(x, z, 0, site)
      BY <2>1, <2>4, OwnStep
  <2> HIDE DEF z
  <2>6. Host(z, site)
      BY <2>5 DEF Step
  <2>7. o.gateway \in Texts
      BY <1>7 DEF OwnTypes
  <2>8. Step(z, IPArp(z, o.gateway), 0, site)
      BY <2>6, <2>7, ArpStep
  <2>9. Step(x, IPArp(z, o.gateway), 0 + 0, site)
      BY <2>5, <2>8, StepTwice
  <2>10. QED
      BY <2>3, <2>9
<1>11. QED
    BY <1>9, <1>10

(* Whatever comes from a DHCP server of the network.                         *)
LEMMA DhcpStep ==
  ASSUME NEW x, Host(x, site), site \in Sites, NEW pkt \in OnAir(site)
  PROVE  Step(x, IPDhcp(x, pkt), 0, site)
<1>1. CASE pkt.client = "me" /\ pkt.op = "offer" /\ x.own.request = "discover"
  <2>1. IPDhcp(x, pkt) = TakeOffer(x, pkt)
      BY <1>1 DEF IPDhcp
  <2>2. QED
      BY <1>1, <2>1, TakeOfferStep
<1>2. CASE pkt.client = "me" /\ pkt.op = "ack" /\ x.own.request = "request"
  <2>1. IPDhcp(x, pkt) = TakeAck(x, pkt)
      BY <1>2 DEF IPDhcp
  <2>2. QED
      BY <1>2, <2>1, TakeAckStep
<1>3. CASE IPDhcp(x, pkt) = x
    BY <1>3, NoStep
<1>4. QED
    BY <1>1, <1>2, <1>3 DEF IPDhcp

-----------------------------------------------------------------------------
(* Sockets *)

(* A new socket has an empty list and is the latest of all.                  *)
LEMMA OpenStep ==
  ASSUME NEW x, NEW s, Host(x, s), NEW kind \in {"dns", "ping"}, NEW ip \in Texts, NEW port \in Nat
  PROVE  /\ Step(x, IPOpen(x, kind, ip, port), 0, s)
         /\ x.port \in DOMAIN IPOpen(x, kind, ip, port).sockets
<1> DEFINE y == IPOpen(x, kind, ip, port)
           new == [kind |-> kind, open |-> TRUE, peer |-> ip, own |-> x.own.ip, port |-> port,
                   mac |-> MacFor(x, ip), timeout |-> 0, read |-> <<>>]
           S == [i \in DOMAIN x.sockets \cup {x.port} |-> IF i = x.port THEN new ELSE x.sockets[i]]
<1>1. DOMAIN x = Fields /\ x.own \in OwnTypes /\ x.free \in Nat /\ Len(x.sending) \in Nat /\ SocketsRight(x)
    BY DEF Host
<1>2. x.own.ip \in Texts /\ MacFor(x, ip) \in Texts
    BY <1>1, WrittenTexts DEF OwnTypes, MacFor, Written
<1>3. new \in SocketTypes /\ new.read = <<>>
    BY <1>2 DEF SocketTypes
<1>4. y = [x EXCEPT !.sockets = S, !.port = x.port + 1]
    BY DEF IPOpen
<1> HIDE DEF new
<1>5. x.port \in Nat /\ x.port \notin DOMAIN x.sockets
    BY <1>1 DEF SocketsRight
<1>6. /\ DOMAIN S = DOMAIN x.sockets \cup {x.port}
      /\ S[x.port] = new
      /\ \A i \in DOMAIN x.sockets : S[i] = x.sockets[i]
    BY <1>5
<1>7. S \in [DOMAIN S -> SocketTypes]
  <2>1. \A i \in DOMAIN x.sockets : x.sockets[i] \in SocketTypes
      BY <1>1 DEF SocketsRight
  <2>2. QED
      BY <1>3, <1>6, <2>1
<1> HIDE DEF S, y
<1>8. /\ DOMAIN y = Fields /\ y.free = x.free /\ y.sending = x.sending
      /\ y.own = x.own /\ y.cache = x.cache /\ y.index = x.index
      /\ y.sockets = S /\ y.jobs = x.jobs /\ y.port = x.port + 1 /\ y.gaveUp = x.gaveUp /\ y.broken = x.broken
    BY <1>1, <1>4 DEF Fields
<1>9. SocketsRight(y)
  <2>1. /\ DOMAIN x.sockets \subseteq 1 .. x.port - 1 /\ x.jobs \in Seq(Nat)
        /\ \A k \in 1 .. Len(x.jobs) : x.jobs[k] \in 1 .. x.port - 1
      BY <1>1 DEF SocketsRight
  <2>2. x.port >= 1
    BY <1>1 DEF SocketsRight
  <2>3. DOMAIN S \subseteq 1 .. x.port
      BY <1>5, <1>6, <2>1, <2>2
  <2>4. \A k \in 1 .. Len(x.jobs) : x.jobs[k] \in 1 .. x.port
      BY <1>5, <2>1
  <2>5. x.port + 1 \in Nat /\ x.port + 1 - 1 = x.port
      BY <1>5
  <2>6. y.sockets \in [DOMAIN y.sockets -> SocketTypes]
      BY <1>7, <1>8
  <2>7. y.port \in Nat \ {0} /\ DOMAIN y.sockets \subseteq 1 .. y.port - 1
      BY <1>5, <1>8, <2>2, <2>3, <2>5
  <2>8. y.jobs \in Seq(Nat) /\ \A k \in 1 .. Len(y.jobs) : y.jobs[k] \in 1 .. y.port - 1
    <3>1. y.jobs = x.jobs /\ y.port - 1 = x.port
        BY <1>5, <1>8
    <3>2. QED
        BY <2>1, <2>4, <3>1
  <2>9. QED
      BY <2>6, <2>7, <2>8 DEF SocketsRight
<1>10. Host(y, s)
    BY <1>8, <1>9 DEF Host
<1>11. OnlyNew(x, y)
    BY <1>5, <1>6, <1>8 DEF OnlyNew
<1>12. Step(x, y, 0, s)
    BY <1>1, <1>3, <1>6, <1>8, <1>10, <1>11 DEF Step
<1>13. QED
    BY <1>6, <1>8, <1>12 DEF y

(* Giving up changes nothing else.                                           *)
LEMMA GaveUpStep ==
  ASSUME NEW x, NEW s, Host(x, s)
  PROVE  Step(x, [x EXCEPT !.gaveUp = TRUE], 0, s)
<1> DEFINE y == [x EXCEPT !.gaveUp = TRUE]
<1>1. DOMAIN x = Fields /\ x.free \in Nat /\ Len(x.sending) \in Nat
    BY DEF Host
<1>2. /\ DOMAIN y = Fields /\ y.free = x.free /\ y.sending = x.sending
      /\ y.own = x.own /\ y.cache = x.cache /\ y.index = x.index
      /\ y.sockets = x.sockets /\ y.jobs = x.jobs /\ y.port = x.port /\ y.gaveUp = TRUE /\ y.broken = x.broken
    BY <1>1 DEF Fields
<1> HIDE DEF y
<1>3. Host(y, s)
    BY <1>1, <1>2 DEF Host, SocketsRight
<1>4. OnlyNew(x, y)
    BY <1>1, <1>2, SameSockets
<1>5. QED
    BY <1>1, <1>2, <1>3, <1>4 DEF y, Step

(* IPWrite queues one frame or gives up.                                     *)
LEMMA WriteStep ==
  ASSUME NEW x, NEW s, Host(x, s), NEW id \in DOMAIN x.sockets,
         NEW op \in Texts, op \notin {"offer", "ack", "request"}, NEW arg \in Texts
  PROVE  Step(x, IPWrite(x, id, op, arg), 0, s)
<1>1. CASE ~Has(x, FRAME_COUNT_SEND)
    BY <1>1, GaveUpStep DEF IPWrite
<1>2. CASE Has(x, FRAME_COUNT_SEND)
  <2> DEFINE sock == x.sockets[id]
             p1 == Packet(op, sock.mac, sock.own, sock.peer)
             p == [p1 EXCEPT !.sport = id, !.dport = sock.port, !.arg = arg]
  <2>1. sock \in SocketTypes /\ id \in Nat
      BY DEF Host, SocketsRight
  <2>2. sock.mac \in Texts /\ sock.own \in Texts /\ sock.peer \in Texts /\ sock.port \in Nat
      BY <2>1 DEF SocketTypes
  <2>3. IPWrite(x, id, op, arg) = IPSendFrame(Get(x), p, id)
      BY <1>2 DEF IPWrite
  <2> HIDE DEF sock
  <2>4. p1 \in Mine /\ p1.op = op
    <3>1. p1 \in Mine
        BY <2>2, PacketMine
    <3>2. QED
        BY <3>1 DEF Packet
  <2> HIDE DEF p1
  <2>5. p \in Packets /\ p.from = p1.from /\ p.op = p1.op
      BY <2>1, <2>2, <2>4 DEF Mine, Packets
  <2>6. p \in Mine
      BY <2>4, <2>5 DEF Mine
  <2> HIDE DEF p
  <2>7. Step(x, Get(x), -1, s)
      BY <1>2, HasFrames, GetStep
  <2>8. Host(Get(x), s)
      BY <2>7 DEF Step
  <2>9. Step(Get(x), IPSendFrame(Get(x), p, id), 1, s)
      BY <2>6, <2>8, SendStep
  <2>10. Step(x, IPSendFrame(Get(x), p, id), -1 + 1, s)
      BY <2>7, <2>9, StepTwice
  <2>11. QED
      BY <2>3, <2>10
<1>3. QED
    BY <1>1, <1>2

(* A socket is opened and a packet of it is written.                         *)
LEMMA AskStep ==
  ASSUME NEW x, NEW s, Host(x, s), NEW kind \in {"dns", "ping"}, NEW ip \in Texts, NEW port \in Nat,
         NEW op \in Texts, op \notin {"offer", "ack", "request"}, NEW arg \in Texts
  PROVE  Step(x, IPWrite(IPOpen(x, kind, ip, port), x.port, op, arg), 0, s)
<1> DEFINE y == IPOpen(x, kind, ip, port)
<1>1. Step(x, y, 0, s) /\ x.port \in DOMAIN y.sockets
    BY OpenStep
<1> HIDE DEF y
<1>2. Host(y, s)
    BY <1>1 DEF Step
<1>3. Step(y, IPWrite(y, x.port, op, arg), 0, s)
    BY <1>1, <1>2, WriteStep
<1>4. Step(x, IPWrite(y, x.port, op, arg), 0 + 0, s)
    BY <1>1, <1>3, StepTwice
<1>5. QED
    BY <1>4 DEF y

(* A name is asked for.                                                      *)
LEMMA ResolveStep ==
  ASSUME NEW x, NEW s, Host(x, s)
  PROVE  Step(x, IPResolve(x, "name"), 0, s)
<1>1. x.own \in OwnTypes
    BY DEF Host
<1>2. x.own.dns \in Texts /\ DNS_PORT \in Nat
    BY <1>1 DEF OwnTypes, DNS_PORT
<1>3. "query" \in Texts /\ "name" \in Texts
    BY WrittenTexts DEF Written
<1>4. QED
    BY <1>2, <1>3, AskStep DEF IPResolve

(* The address that a name has is pinged.                                    *)
LEMMA DnsResultStep ==
  ASSUME NEW x, NEW s, Host(x, s), NEW ip \in Texts
  PROVE  Step(x, DnsResultCallback(x, ip), 0, s)
<1>1. "pingRequest" \in Texts /\ "A" \in Texts
    BY WrittenTexts DEF Written
<1>2. QED
    BY <1>1, AskStep DEF DnsResultCallback

(* The ping command of the console.                                          *)
LEMMA PingStep ==
  ASSUME NEW x, NEW s, Host(x, s), NEW isName \in BOOLEAN
  PROVE  Step(x, ConsolePing(x, isName), 0, s)
<1>1. "srv" \in Texts
    BY WrittenTexts DEF Written
<1>2. QED
    BY <1>1, ResolveStep, DnsResultStep DEF ConsolePing

-----------------------------------------------------------------------------
(* Packets that come *)

(* What comes from another machine and is kept in the cache is what it says  *)
(* of itself.                                                                *)
LEMMA LearnStep ==
  ASSUME NEW x, NEW s, Host(x, s), NEW pkt \in OnAir(s), pkt.from # "me", pkt.op = "arpReply"
  PROVE  Step(x, Learn(x, pkt), 0, s)
<1> DEFINE y == Learn(x, pkt)
           entry == [ip |-> pkt.src, mac |-> pkt.from]
           mac == IF pkt.src = x.own.gateway THEN pkt.from ELSE x.own.gatewayMac
           o == [x.own EXCEPT !.gatewayMac = mac]
<1>1. pkt \in Packets /\ pkt.src = pkt.from
    BY DEF OnAir
<1>2. /\ DOMAIN x = Fields /\ x.own \in OwnTypes /\ OwnRight(x.own, s)
      /\ x.free \in Nat /\ Len(x.sending) \in Nat /\ x.index \in 0 .. CacheSize - 1
      /\ x.cache \in [0 .. CacheSize - 1 -> [ip : Texts, mac : Texts]]
    BY DEF Host
<1>3. /\ DOMAIN y = Fields /\ y.free = x.free /\ y.sending = x.sending
      /\ y.own = o /\ y.cache = [x.cache EXCEPT ![x.index] = entry] /\ y.index = (x.index + 1) % CacheSize
      /\ y.sockets = x.sockets /\ y.jobs = x.jobs /\ y.port = x.port /\ y.gaveUp = x.gaveUp /\ y.broken = x.broken
    BY <1>2 DEF Fields, Learn, OwnTypes
<1>4. pkt.src \in Texts /\ pkt.from \in Texts
    BY <1>1 DEF Packets
<1>5. entry \in [ip : Texts, mac : Texts]
    BY <1>4
<1> HIDE DEF y, entry
<1>6. y.cache \in [0 .. CacheSize - 1 -> [ip : Texts, mac : Texts]]
    BY <1>2, <1>3, <1>5
<1>7. y.index \in 0 .. CacheSize - 1
  <2>1. CacheSize \in Nat \ {0} /\ x.index \in Nat
      BY <1>2, HostAssumption
  <2> DEFINE i == x.index
  <2>2. i \in Nat /\ y.index = (i + 1) % CacheSize
      BY <1>3, <2>1
  <2> HIDE DEF i
  <2>3. (i + 1) % CacheSize \in 0 .. CacheSize - 1
      BY <2>1, <2>2
  <2>4. QED
      BY <2>2, <2>3
<1>8. mac \in Texts /\ mac \in {"ff", x.own.gateway}
    BY <1>1, <1>2, <1>4 DEF OwnTypes, OwnRight
<1> HIDE DEF mac
<1>9. o \in OwnTypes /\ o.ip = x.own.ip /\ o.gateway = x.own.gateway /\ o.dns = x.own.dns /\ o.gatewayMac = mac
    BY <1>2, <1>8 DEF OwnTypes
<1> HIDE DEF o
<1>10. OwnRight(o, s)
    BY <1>2, <1>8, <1>9 DEF OwnRight
<1>11. Host(y, s)
    BY <1>2, <1>3, <1>6, <1>7, <1>9, <1>10 DEF Host, SocketsRight
<1>12. QED
    BY <1>2, <1>3, <1>11, SameSockets DEF y, Step

(* What ARP says is learnt, what it asks is answered.                        *)
LEMMA ProcessArpStep ==
  ASSUME NEW x, NEW s, Host(x, s), NEW pkt \in OnAir(s), pkt.from # "me"
  PROVE  Step(x, ProcessArp(x, pkt), 0, s)
<1>1. CASE pkt.to = "me" /\ pkt.op = "arpReply"
    BY <1>1, LearnStep DEF ProcessArp
<1>2. CASE ~(pkt.to = "me" /\ pkt.op = "arpReply") /\ ~(pkt.op # "arpRequest" \/ pkt.dst # x.own.ip \/ ~Has(x, 0))
  <2> DEFINE p == Packet("arpReply", pkt.from, pkt.dst, pkt.src)
  <2>1. pkt \in Packets
      BY DEF OnAir
  <2>2. pkt.from \in Texts /\ pkt.dst \in Texts /\ pkt.src \in Texts /\ "arpReply" \in Texts
      BY <2>1, WrittenTexts DEF Packets, Written
  <2>3. p \in Mine
      BY <2>2, PacketMine
  <2>4. Step(x, Get(x), -1, s)
      BY <1>2, HasFrames, GetStep
  <2>5. Host(Get(x), s)
      BY <2>4 DEF Step
  <2>6. Step(Get(x), Queue(Get(x), p), 1, s)
      BY <2>3, <2>5, QueueStep
  <2>7. ProcessArp(x, pkt) = Queue(Get(x), p)
      BY <1>2 DEF ProcessArp
  <2> HIDE DEF p
  <2>8. Step(x, Queue(Get(x), p), -1 + 1, s)
      BY <2>4, <2>6, StepTwice
  <2>9. QED
      BY <2>7, <2>8
<1>3. CASE ProcessArp(x, pkt) = x
    BY <1>3, NoStep
<1>4. QED
    BY <1>1, <1>2, <1>3 DEF ProcessArp

(* A ping is answered when there are frames enough.                          *)
LEMMA PingRequestStep ==
  ASSUME NEW x, NEW s, Host(x, s), NEW pkt \in OnAir(s), pkt.to = "me"
  PROVE  Step(x, PingRequest(x, pkt), 0, s)
<1>1. CASE ~Has(x, FRAME_COUNT_SEND)
    BY <1>1, NoStep DEF PingRequest
<1>2. CASE Has(x, FRAME_COUNT_SEND)
  <2> DEFINE p == [Response(pkt) EXCEPT !.op = "pingReply"]
  <2>1. pkt \in Packets /\ "pingReply" \in Texts
      BY WrittenTexts DEF OnAir, Written
  <2>2. p \in Packets /\ p.from = "me" /\ p.op = "pingReply"
      BY <2>1 DEF Packets, Response
  <2>3. p \in Mine
      BY <2>2 DEF Mine
  <2>4. PingRequest(x, pkt) = IPSendFrame(Get(x), p, 0)
      BY <1>2 DEF PingRequest
  <2> HIDE DEF p
  <2>5. Step(x, Get(x), -1, s)
      BY <1>2, HasFrames, GetStep
  <2>6. Host(Get(x), s)
      BY <2>5 DEF Step
  <2>7. Step(Get(x), IPSendFrame(Get(x), p, 0), 1, s)
      BY <2>3, <2>6, SendStep
  <2>8. Step(x, IPSendFrame(Get(x), p, 0), -1 + 1, s)
      BY <2>5, <2>7, StepTwice
  <2>9. QED
      BY <2>4, <2>8
<1>3. QED
    BY <1>1, <1>2

-----------------------------------------------------------------------------
(* Counting frames *)

(* What is on the lists, in the way the proofs use it.                       *)
LEMMA ListsElements ==
  ASSUME NEW x
  PROVE  \A e : e \in OnLists(x) <=> \E i \in DOMAIN x.sockets : e \in {i} \X (1 .. Len(x.sockets[i].read))
BY DEF OnLists

(* A job of a socket that was freed is none of another socket later.         *)
LEMMA DanglingStays ==
  ASSUME NEW x, NEW y, NEW s, Host(x, s), y.jobs = x.jobs, OnlyNew(x, y)
  PROVE  Dangling(x) => Dangling(y)
<1>1. SUFFICES ASSUME Dangling(x) PROVE Dangling(y)
    OBVIOUS
<1>2. x.jobs \in Seq(Nat) /\ \A k \in 1 .. Len(x.jobs) : x.jobs[k] \in 1 .. x.port - 1
    BY DEF Host, SocketsRight
<1>3. PICK k \in 1 .. Len(x.jobs) : x.jobs[k] \notin DOMAIN x.sockets
    BY <1>1, <1>2 DEF Dangling
<1>4. y.jobs[k] \notin DOMAIN y.sockets /\ k \in DOMAIN y.jobs
    BY <1>2, <1>3 DEF OnlyNew
<1>5. QED
    BY <1>4 DEF Dangling

(* A new job does not give back what another one waits for.                  *)
LEMMA DanglingGrows ==
  ASSUME NEW x, NEW y, x.jobs \in Seq(Nat), y.jobs \in Seq(Nat), Len(y.jobs) = Len(x.jobs) + 1,
         \A k \in 1 .. Len(x.jobs) : y.jobs[k] = x.jobs[k], DOMAIN y.sockets = DOMAIN x.sockets
  PROVE  Dangling(x) => Dangling(y)
<1>1. SUFFICES ASSUME Dangling(x) PROVE Dangling(y)
    OBVIOUS
<1> DEFINE l == Len(x.jobs)
<1>2. DOMAIN x.jobs = 1 .. l /\ DOMAIN y.jobs = 1 .. l + 1 /\ l \in Nat
    OBVIOUS
<1>3. PICK k \in 1 .. l : x.jobs[k] \notin DOMAIN x.sockets
    BY <1>1, <1>2 DEF Dangling
<1>4. y.jobs[k] \notin DOMAIN y.sockets
    BY <1>3
<1> HIDE DEF l
<1>5. k \in DOMAIN y.jobs
    BY <1>2, <1>3
<1>6. QED
    BY <1>4, <1>5 DEF Dangling

(* What keeps the lists keeps the count, and who had a job has it still.     *)
LEMMA StepCounts ==
  ASSUME NEW x, NEW y, NEW d \in Int, NEW s, Host(x, s), Step(x, y, d, s), IsFiniteSet(OnLists(x))
  PROVE  /\ IsFiniteSet(OnLists(y)) /\ Frames(y) = Frames(x) + d
         /\ \A id \in DOMAIN x.sockets : Waits(x, id) => Waits(y, id)
         /\ \A id \in DOMAIN y.sockets \ DOMAIN x.sockets : Waits(y, id)
<1>1. /\ DOMAIN x.sockets \subseteq DOMAIN y.sockets
      /\ \A i \in DOMAIN x.sockets : y.sockets[i].read = x.sockets[i].read
      /\ \A i \in DOMAIN y.sockets \ DOMAIN x.sockets : y.sockets[i].read = <<>>
      /\ y.free + Len(y.sending) = x.free + Len(x.sending) + d
      /\ y.jobs = x.jobs
    BY DEF Step
<1>2. OnLists(y) = OnLists(x)
  <2>1. ASSUME NEW e \in OnLists(y) PROVE e \in OnLists(x)
    <3>1. PICK i \in DOMAIN y.sockets : e \in {i} \X (1 .. Len(y.sockets[i].read))
        BY <2>1, ListsElements
    <3>2. CASE i \in DOMAIN x.sockets
        BY <1>1, <3>1, <3>2, ListsElements
    <3>3. CASE i \notin DOMAIN x.sockets
      <4>1. y.sockets[i].read = <<>>
          BY <1>1, <3>3
      <4>2. Len(y.sockets[i].read) = 0
          BY <4>1
      <4>3. QED
          BY <3>1, <4>2
    <3>4. QED
        BY <3>2, <3>3
  <2>2. ASSUME NEW e \in OnLists(x) PROVE e \in OnLists(y)
    <3>1. PICK i \in DOMAIN x.sockets : e \in {i} \X (1 .. Len(x.sockets[i].read))
        BY <2>2, ListsElements
    <3>2. i \in DOMAIN y.sockets /\ e \in {i} \X (1 .. Len(y.sockets[i].read))
        BY <1>1, <3>1
    <3>3. QED
        BY <3>2, ListsElements
  <2>3. QED
      BY <2>1, <2>2
<1>3. Cardinality(OnLists(x)) \in Nat
    BY FS_CardinalityType
<1>4. x.free \in Nat /\ Len(x.sending) \in Nat
    BY DEF Host
<1>5. Frames(y) = Frames(x) + d
  <2>1. Host(y, s)
      BY DEF Step
  <2>2. y.free \in Nat /\ Len(y.sending) \in Nat
      BY <2>1 DEF Host
  <2>3. QED
      BY <1>1, <1>2, <1>3, <1>4, <2>2 DEF Frames
<1>6. QED
    BY <1>1, <1>2, <1>5 DEF Waits

(* The list of a socket is emptied and its frames are free.                  *)
LEMMA EmptiedCounts ==
  ASSUME NEW x, NEW y, NEW s, Host(x, s), Host(y, s), NEW id \in DOMAIN x.sockets, IsFiniteSet(OnLists(x)),
         DOMAIN y.sockets = DOMAIN x.sockets, y.sockets[id].read = <<>>,
         \A i \in DOMAIN x.sockets \ {id} : y.sockets[i].read = x.sockets[i].read,
         y.free = x.free + Len(x.sockets[id].read), y.sending = x.sending
  PROVE  IsFiniteSet(OnLists(y)) /\ Frames(y) = Frames(x)
<1> DEFINE n == Len(x.sockets[id].read)
           Mine0 == {id} \X (1 .. n)
<1>1. x.sockets[id] \in SocketTypes
    BY DEF Host, SocketsRight
<1>2. n \in Nat
    BY <1>1 DEF SocketTypes
<1>3. IsFiniteSet(Mine0) /\ Cardinality(Mine0) = n
  <2>1. IsFiniteSet({id}) /\ Cardinality({id}) = 1
      BY FS_Singleton
  <2>2. IsFiniteSet(1 .. n) /\ Cardinality(1 .. n) = n
      BY <1>2, FS_Interval
  <2>3. IsFiniteSet(Mine0) /\ Cardinality(Mine0) = Cardinality({id}) * Cardinality(1 .. n)
      BY <2>1, <2>2, FS_Product
  <2>4. QED
      BY <1>2, <2>1, <2>2, <2>3
<1>4. Mine0 \subseteq OnLists(x)
    BY ListsElements
<1>5. Len(y.sockets[id].read) = 0
    OBVIOUS
<1>6. OnLists(y) = OnLists(x) \ Mine0
  <2>1. ASSUME NEW e \in OnLists(y) PROVE e \in OnLists(x) \ Mine0
    <3>1. PICK i \in DOMAIN y.sockets : e \in {i} \X (1 .. Len(y.sockets[i].read))
        BY <2>1, ListsElements
    <3>2. i # id
        BY <1>5, <3>1
    <3>3. e \in {i} \X (1 .. Len(x.sockets[i].read)) /\ i \in DOMAIN x.sockets
        BY <3>1, <3>2
    <3>4. e \in OnLists(x)
        BY <3>3, ListsElements
    <3>5. e \notin Mine0
        BY <3>2, <3>3
    <3>6. QED
        BY <3>4, <3>5
  <2>2. ASSUME NEW e \in OnLists(x) \ Mine0 PROVE e \in OnLists(y)
    <3>1. PICK i \in DOMAIN x.sockets : e \in {i} \X (1 .. Len(x.sockets[i].read))
        BY <2>2, ListsElements
    <3>2. i # id
        BY <2>2, <3>1
    <3>3. e \in {i} \X (1 .. Len(y.sockets[i].read)) /\ i \in DOMAIN y.sockets
        BY <3>1, <3>2
    <3>4. QED
        BY <3>3, ListsElements
  <2>3. QED
      BY <2>1, <2>2
<1>8. OnLists(x) \cap Mine0 = Mine0
    BY <1>4
<1> HIDE DEF Mine0
<1>7. /\ IsFiniteSet(OnLists(y))
      /\ Cardinality(OnLists(y)) = Cardinality(OnLists(x)) - Cardinality(OnLists(x) \cap Mine0)
  <2>1. /\ IsFiniteSet(OnLists(x) \ Mine0)
        /\ Cardinality(OnLists(x) \ Mine0) = Cardinality(OnLists(x)) - Cardinality(OnLists(x) \cap Mine0)
      BY FS_Difference
  <2>2. QED
      BY <1>6, <2>1
<1>9. Cardinality(OnLists(x)) \in Nat
    BY FS_CardinalityType
<1>10. x.free \in Nat /\ Len(x.sending) \in Nat
    BY DEF Host
<1>11. Cardinality(OnLists(y)) = Cardinality(OnLists(x)) - n
    BY <1>3, <1>7, <1>8
<1>12. Frames(y) = Frames(x)
    BY <1>2, <1>9, <1>10, <1>11 DEF Frames
<1>13. QED
    BY <1>7, <1>12

(* A frame is put on the list of a socket.                                   *)
LEMMA ReadCounts ==
  ASSUME NEW x, NEW y, NEW s, Host(x, s), Host(y, s), NEW id \in DOMAIN x.sockets, IsFiniteSet(OnLists(x)),
         DOMAIN y.sockets = DOMAIN x.sockets, NEW arg, y.sockets[id].read = Append(x.sockets[id].read, arg),
         \A i \in DOMAIN x.sockets \ {id} : y.sockets[i].read = x.sockets[i].read,
         y.free = x.free, y.sending = x.sending
  PROVE  IsFiniteSet(OnLists(y)) /\ Frames(y) = Frames(x) + 1
<1> DEFINE n == Len(x.sockets[id].read)
           e0 == <<id, n + 1>>
<1>1. x.sockets[id] \in SocketTypes /\ y.sockets[id] \in SocketTypes
    BY DEF Host, SocketsRight
<1>2. n \in Nat /\ Len(y.sockets[id].read) = n + 1
    BY <1>1 DEF SocketTypes
<1>3. e0 \notin OnLists(x)
  <2>1. SUFFICES ASSUME e0 \in OnLists(x) PROVE FALSE
      OBVIOUS
  <2>2. PICK i \in DOMAIN x.sockets : e0 \in {i} \X (1 .. Len(x.sockets[i].read))
      BY <2>1, ListsElements
  <2>3. i = id /\ n + 1 \in 1 .. n
      BY <2>2
  <2>4. QED
      BY <1>2, <2>3
<1>4. OnLists(y) = OnLists(x) \cup {e0}
  <2>1. ASSUME NEW e \in OnLists(y) PROVE e \in OnLists(x) \cup {e0}
    <3>1. PICK i \in DOMAIN y.sockets : e \in {i} \X (1 .. Len(y.sockets[i].read))
        BY <2>1, ListsElements
    <3>2. CASE i # id
        BY <3>1, <3>2, ListsElements
    <3>3. CASE i = id
      <4>1. PICK k \in 1 .. n + 1 : e = <<id, k>>
          BY <1>2, <3>1, <3>3
      <4>2. CASE k = n + 1
          BY <4>1, <4>2
      <4>3. CASE k # n + 1
        <5>1. e \in {id} \X (1 .. n)
            BY <1>2, <4>1, <4>3
        <5>2. QED
            BY <5>1, ListsElements
      <4>4. QED
          BY <4>2, <4>3
    <3>4. QED
        BY <3>2, <3>3
  <2>2. ASSUME NEW e \in OnLists(x) PROVE e \in OnLists(y)
    <3>1. PICK i \in DOMAIN x.sockets : e \in {i} \X (1 .. Len(x.sockets[i].read))
        BY <2>2, ListsElements
    <3>2. e \in {i} \X (1 .. Len(y.sockets[i].read)) /\ i \in DOMAIN y.sockets
      <4>1. CASE i # id
          BY <3>1, <4>1
      <4>2. CASE i = id
        <5>1. 1 .. n \subseteq 1 .. n + 1 /\ e \in {id} \X (1 .. n)
            BY <1>2, <3>1, <4>2
        <5>2. QED
            BY <1>2, <4>2, <5>1
      <4>3. QED
          BY <4>1, <4>2
    <3>3. QED
        BY <3>2, ListsElements
  <2>3. e0 \in OnLists(y)
    <3>1. e0 \in {id} \X (1 .. Len(y.sockets[id].read))
        BY <1>2
    <3>2. QED
        BY <3>1, ListsElements
  <2>4. QED
      BY <2>1, <2>2, <2>3
<1> HIDE DEF e0
<1>5. IsFiniteSet(OnLists(y)) /\ Cardinality(OnLists(y)) = Cardinality(OnLists(x)) + 1
    BY <1>3, <1>4, FS_AddElement
<1>6. Cardinality(OnLists(x)) \in Nat /\ x.free \in Nat /\ Len(x.sending) \in Nat
    BY FS_CardinalityType DEF Host
<1>7. Frames(y) = y.free + Len(y.sending) + Cardinality(OnLists(y))
    BY DEF Frames
<1>8. Frames(x) = x.free + Len(x.sending) + Cardinality(OnLists(x))
    BY DEF Frames
<1>9. Frames(y) = x.free + Len(x.sending) + Cardinality(OnLists(y))
    BY <1>7, Zenon
<1> DEFINE c == Cardinality(OnLists(x))
           d == Cardinality(OnLists(y))
           f == x.free
           l == Len(x.sending)
<1>10. d = c + 1 /\ c \in Nat /\ f \in Nat /\ l \in Nat /\ Frames(y) = f + l + d /\ Frames(x) = f + l + c
    BY <1>5, <1>6, <1>8, <1>9
<1> HIDE DEF c, d, f, l
<1>11. Frames(y) = Frames(x) + 1
    BY <1>10
<1>12. QED
    BY <1>5, <1>11

-----------------------------------------------------------------------------
(* Reading and closing *)

\* y is x after the list of the socket id was emptied.
Emptied(x, y, id, s) ==
    /\ Host(y, s) /\ y.jobs = x.jobs
    /\ DOMAIN x.sockets \subseteq DOMAIN y.sockets /\ OnlyNew(x, y)
    /\ \A i \in DOMAIN y.sockets \ {id} : Waits(x, i) \/ i \notin DOMAIN x.sockets => Waits(y, i)
    /\ y.sockets[id].read = <<>>
    /\ IsFiniteSet(OnLists(y)) /\ Frames(y) = Frames(x)

(* Socket id of x becomes the socket sock without a list.                    *)
LEMMA EmptySocket ==
  ASSUME NEW x, NEW s, Host(x, s), NEW id \in DOMAIN x.sockets, IsFiniteSet(OnLists(x)),
         NEW sock \in SocketTypes, sock.read = <<>>
  PROVE  Emptied(x, [x EXCEPT !.sockets = [@ EXCEPT ![id] = sock], !.free = @ + Len(x.sockets[id].read)], id, s)
<1> DEFINE y == [x EXCEPT !.sockets = [@ EXCEPT ![id] = sock], !.free = @ + Len(x.sockets[id].read)]
           n == Len(x.sockets[id].read)
           S == [x.sockets EXCEPT ![id] = sock]
<1>1. DOMAIN x = Fields /\ x.free \in Nat /\ Len(x.sending) \in Nat /\ SocketsRight(x)
    BY DEF Host
<1>2. x.sockets \in [DOMAIN x.sockets -> SocketTypes] /\ x.sockets[id] \in SocketTypes
    BY <1>1 DEF SocketsRight
<1>3. n \in Nat
    BY <1>2 DEF SocketTypes
<1>4. /\ DOMAIN y = Fields /\ y.free = x.free + n /\ y.sending = x.sending
      /\ y.own = x.own /\ y.cache = x.cache /\ y.index = x.index
      /\ y.sockets = S /\ y.jobs = x.jobs /\ y.port = x.port /\ y.gaveUp = x.gaveUp /\ y.broken = x.broken
    BY <1>1 DEF Fields
<1>5. /\ DOMAIN S = DOMAIN x.sockets /\ S \in [DOMAIN x.sockets -> SocketTypes]
      /\ S[id] = sock /\ \A i \in DOMAIN x.sockets \ {id} : S[i] = x.sockets[i]
    BY <1>2
<1> HIDE DEF S, n, y
<1>6. SocketsRight(y)
    BY <1>1, <1>4, <1>5 DEF SocketsRight
<1>7. y.free \in Nat
    BY <1>1, <1>3, <1>4
<1>8. Host(y, s)
    BY <1>4, <1>6, <1>7 DEF Host
<1>9. /\ DOMAIN y.sockets = DOMAIN x.sockets /\ y.sockets[id].read = <<>>
      /\ \A i \in DOMAIN x.sockets \ {id} : y.sockets[i].read = x.sockets[i].read
      /\ y.free = x.free + Len(x.sockets[id].read) /\ y.sending = x.sending
    BY <1>4, <1>5 DEF n
<1>10. IsFiniteSet(OnLists(y)) /\ Frames(y) = Frames(x)
    BY <1>8, <1>9, EmptiedCounts
<1>11. \A i \in DOMAIN y.sockets \ {id} : Waits(x, i) => Waits(y, i)
    BY <1>4, <1>9 DEF Waits
<1>12. QED
    BY <1>4, <1>8, <1>9, <1>10, <1>11, SameSockets DEF y, Emptied

(* Memory that is broken is on no list.                                      *)
LEMMA BrokenEmpties ==
  ASSUME NEW x, NEW y, NEW id, NEW s, Emptied(x, y, id, s), NEW b \in BOOLEAN
  PROVE  Emptied(x, [y EXCEPT !.broken = b], id, s)
<1> DEFINE z == [y EXCEPT !.broken = b]
<1>1. Host(y, s) /\ DOMAIN y = Fields
    BY DEF Emptied, Host
<1>2. /\ DOMAIN z = Fields /\ z.free = y.free /\ z.sending = y.sending
      /\ z.own = y.own /\ z.cache = y.cache /\ z.index = y.index
      /\ z.sockets = y.sockets /\ z.jobs = y.jobs /\ z.port = y.port /\ z.gaveUp = y.gaveUp /\ z.broken = b
    BY <1>1 DEF Fields
<1> HIDE DEF z
<1>3. Host(z, s)
    BY <1>1, <1>2 DEF Host, SocketsRight
<1>4. OnLists(z) = OnLists(y) /\ Frames(z) = Frames(y)
    BY <1>2 DEF OnLists, Frames
<1>5. (OnlyNew(x, y) => OnlyNew(x, z)) /\ \A i : Waits(y, i) => Waits(z, i)
    BY <1>2 DEF OnlyNew, Waits
<1>6. QED
    BY <1>2, <1>3, <1>4, <1>5 DEF z, Emptied

(* IPClose frees what is on the list of its socket.                          *)
LEMMA CloseEmpties ==
  ASSUME NEW x, NEW s, Host(x, s), NEW id \in DOMAIN x.sockets, IsFiniteSet(OnLists(x))
  PROVE  Emptied(x, IPClose(x, id), id, s)
<1> DEFINE sock == [x.sockets[id] EXCEPT !.read = <<>>, !.timeout = SOCKET_TIMEOUT, !.open = FALSE]
           y == [x EXCEPT !.sockets = [@ EXCEPT ![id] = sock], !.free = @ + Len(x.sockets[id].read)]
<1>1. DOMAIN x = Fields /\ x.sockets \in [DOMAIN x.sockets -> SocketTypes]
    BY DEF Host, SocketsRight
<1>2. x.sockets[id] \in SocketTypes
    BY <1>1
<1>3. sock \in SocketTypes /\ sock.read = <<>>
  <2>1. <<>> \in Seq(Texts) /\ SOCKET_TIMEOUT \in Nat
      BY HostAssumption
  <2>2. QED
      BY <1>2, <2>1 DEF SocketTypes
<1> DEFINE b == x.broken \/ Unsent(x, id) # {}
<1>4. IPClose(x, id) = [y EXCEPT !.broken = b]
    BY <1>1 DEF IPClose, Fields
<1>5. b \in BOOLEAN
    BY DEF Host
<1> HIDE DEF sock, b
<1>6. Emptied(x, y, id, s)
    BY <1>3, EmptySocket
<1> HIDE DEF y
<1>7. QED
    BY <1>4, <1>5, <1>6, BrokenEmpties

(* The callback of a name server's answer reads and closes its socket.       *)
LEMMA DnsEmpties ==
  ASSUME NEW x, NEW s, Host(x, s), NEW id \in DOMAIN x.sockets, IsFiniteSet(OnLists(x))
  PROVE  Emptied(x, DnsCallback(x, id), id, s)
<1> DEFINE sock == [x.sockets[id] EXCEPT !.read = <<>>]
           y == [x EXCEPT !.sockets[id].read = <<>>, !.free = @ + Len(x.sockets[id].read)]
           z == IF x.sockets[id].read = <<>> \/ ~x.sockets[id].open THEN y ELSE DnsResultCallback(y, x.sockets[id].read[1])
<1>1. DOMAIN x = Fields /\ x.sockets \in [DOMAIN x.sockets -> SocketTypes]
    BY DEF Host, SocketsRight
<1>2. x.sockets[id] \in SocketTypes
    BY <1>1
<1>3. sock \in SocketTypes /\ sock.read = <<>>
  <2>1. <<>> \in Seq(Texts)
      OBVIOUS
  <2>2. QED
      BY <1>2, <2>1 DEF SocketTypes
<1>4. y = [x EXCEPT !.sockets = [@ EXCEPT ![id] = sock], !.free = @ + Len(x.sockets[id].read)]
    BY <1>1 DEF Fields
<1>5. DnsCallback(x, id) = IPClose(z, id)
    BY DEF DnsCallback
<1> HIDE DEF sock, y
<1>6. Emptied(x, y, id, s)
    BY <1>3, <1>4, EmptySocket
<1>7. Host(y, s) /\ IsFiniteSet(OnLists(y))
    BY <1>6 DEF Emptied
<1>8. Step(y, z, 0, s)
  <2>1. CASE x.sockets[id].read = <<>> \/ ~x.sockets[id].open
      BY <1>7, <2>1, NoStep
  <2>2. CASE ~(x.sockets[id].read = <<>> \/ ~x.sockets[id].open)
    <3>1. x.sockets[id].read \in Seq(Texts) /\ x.sockets[id].read # <<>>
        BY <1>2, <2>2 DEF SocketTypes
    <3>2. x.sockets[id].read[1] \in Texts
        BY <3>1
    <3>3. z = DnsResultCallback(y, x.sockets[id].read[1])
        BY <2>2
    <3>4. QED
        BY <1>7, <3>2, <3>3, DnsResultStep
  <2>3. QED
      BY <2>1, <2>2
<1> HIDE DEF z
<1>9. /\ IsFiniteSet(OnLists(z)) /\ Frames(z) = Frames(y) + 0
      /\ \A i \in DOMAIN y.sockets : Waits(y, i) => Waits(z, i)
      /\ \A i \in DOMAIN z.sockets \ DOMAIN y.sockets : Waits(z, i)
  <2>1. 0 \in Int
      OBVIOUS
  <2>2. QED
      BY <1>7, <1>8, <2>1, StepCounts
<1>10. /\ Host(z, s) /\ DOMAIN y.sockets \subseteq DOMAIN z.sockets /\ z.jobs = y.jobs /\ OnlyNew(y, z)
    BY <1>8 DEF Step
<1>11. /\ DOMAIN x.sockets \subseteq DOMAIN y.sockets /\ y.jobs = x.jobs /\ Frames(y) = Frames(x)
       /\ OnlyNew(x, y)
    BY <1>6 DEF Emptied
<1>12. id \in DOMAIN z.sockets
    BY <1>10, <1>11
<1> DEFINE w == IPClose(z, id)
<1>13. Emptied(z, w, id, s)
    BY <1>9, <1>10, <1>12, CloseEmpties
<1> HIDE DEF w
<1>14. /\ Host(w, s) /\ w.jobs = x.jobs
       /\ DOMAIN x.sockets \subseteq DOMAIN w.sockets
       /\ w.sockets[id].read = <<>> /\ IsFiniteSet(OnLists(w))
    BY <1>10, <1>11, <1>13 DEF Emptied
<1>15. Frames(w) = Frames(x)
  <2>1. Frames(z) = Frames(w) /\ Frames(z) = Frames(y) + 0 /\ Frames(y) = Frames(x)
      BY <1>9, <1>11, <1>13 DEF Emptied
  <2>2. Frames(y) \in Int
    <3>1. Cardinality(OnLists(y)) \in Nat /\ y.free \in Nat /\ Len(y.sending) \in Nat
        BY <1>7, FS_CardinalityType DEF Host
    <3>2. QED
        BY <3>1 DEF Frames
  <2>3. QED
      BY <2>1, <2>2
<1>16. ASSUME NEW i \in DOMAIN w.sockets \ {id}, Waits(x, i) \/ i \notin DOMAIN x.sockets
       PROVE  Waits(w, i)
  <2>1. Waits(z, i) \/ i \notin DOMAIN z.sockets => Waits(w, i)
      BY <1>13, <1>16 DEF Emptied
  <2>2. i \in DOMAIN y.sockets => Waits(y, i)
      BY <1>6, <1>16 DEF Emptied
  <2>3. QED
      BY <1>9, <2>1, <2>2
<1>17. OnlyNew(x, w)
  <2>1. OnlyNew(x, z)
      BY <1>7, <1>10, <1>11, OnlyNewTwice
  <2>2. OnlyNew(z, w)
      BY <1>13 DEF Emptied
  <2>3. QED
      BY <1>10, <1>14, <2>1, <2>2, OnlyNewTwice
<1>18. QED
    BY <1>5, <1>14, <1>15, <1>16, <1>17 DEF w, Emptied

-----------------------------------------------------------------------------
(* A packet as a whole *)

\* A host whose frames are finitely many and whose sockets with something to
\* read have a job.
Sound(x, s) == Host(x, s) /\ IsFiniteSet(OnLists(x)) /\ \A id \in DOMAIN x.sockets : Waits(x, id)

\* r is what is left of the packet, whose frame was taken out of the free ones.
Processed(x, r, s) ==
    /\ Sound(r.host, s) /\ r.kept \in BOOLEAN /\ Frames(r.host) = Frames(x) + (IF r.kept THEN 1 ELSE 0)
    /\ Dangling(x) => Dangling(r.host)

(* The frames of a host are counted by an integer.                           *)
LEMMA FramesInt ==
  ASSUME NEW x, NEW s, Host(x, s), IsFiniteSet(OnLists(x))
  PROVE  Frames(x) \in Int
<1>1. Cardinality(OnLists(x)) \in Nat /\ x.free \in Nat /\ Len(x.sending) \in Nat
    BY FS_CardinalityType DEF Host
<1>2. QED
    BY <1>1 DEF Frames

(* The steps keep a host sound and account for their frames.                 *)
LEMMA StepSound ==
  ASSUME NEW x, NEW y, NEW d \in Int, NEW s, Sound(x, s), Step(x, y, d, s)
  PROVE  Sound(y, s) /\ Frames(y) = Frames(x) + d /\ (Dangling(x) => Dangling(y))
<1>1. Host(x, s) /\ IsFiniteSet(OnLists(x)) /\ \A id \in DOMAIN x.sockets : Waits(x, id)
    BY DEF Sound
<1>2. /\ IsFiniteSet(OnLists(y)) /\ Frames(y) = Frames(x) + d
      /\ \A id \in DOMAIN x.sockets : Waits(x, id) => Waits(y, id)
      /\ \A id \in DOMAIN y.sockets \ DOMAIN x.sockets : Waits(y, id)
    BY <1>1, StepCounts
<1>3. Host(y, s) /\ y.jobs = x.jobs /\ OnlyNew(x, y)
    BY DEF Step
<1>4. QED
    BY <1>1, <1>2, <1>3, DanglingStays DEF Sound

(* A packet whose frame is not kept, after a step that queues no more.       *)
LEMMA DropProcessed ==
  ASSUME NEW x, NEW y, NEW s, Sound(x, s), Step(x, y, 0, s)
  PROVE  Processed(x, Drop(y), s)
<1>1. Sound(y, s) /\ Frames(y) = Frames(x) + 0 /\ (Dangling(x) => Dangling(y))
    BY StepSound
<1>2. Drop(y).host = y /\ Drop(y).kept = FALSE
    BY DEF Drop
<1>3. QED
    BY <1>1, <1>2 DEF Processed

(* A job for a socket that there is.                                         *)
LEMMA JobStep ==
  ASSUME NEW x, NEW s, Sound(x, s), NEW id \in DOMAIN x.sockets
  PROVE  LET y == [x EXCEPT !.jobs = Append(@, id)]
         IN  Sound(y, s) /\ Frames(y) = Frames(x) + 0 /\ (Dangling(x) => Dangling(y))
<1> DEFINE y == [x EXCEPT !.jobs = Append(@, id)]
<1>1. /\ DOMAIN x = Fields /\ SocketsRight(x) /\ Host(x, s)
      /\ IsFiniteSet(OnLists(x)) /\ \A i \in DOMAIN x.sockets : Waits(x, i)
    BY DEF Host, Sound
<1>2. /\ DOMAIN y = Fields /\ y.free = x.free /\ y.sending = x.sending
      /\ y.own = x.own /\ y.cache = x.cache /\ y.index = x.index
      /\ y.sockets = x.sockets /\ y.jobs = Append(x.jobs, id) /\ y.port = x.port /\ y.gaveUp = x.gaveUp /\ y.broken = x.broken
    BY <1>1 DEF Fields
<1> HIDE DEF y
<1>3. x.jobs \in Seq(Nat) /\ id \in Nat
    BY <1>1 DEF SocketsRight
<1>4. /\ y.jobs \in Seq(Nat) /\ Len(y.jobs) = Len(x.jobs) + 1 /\ y.jobs[Len(x.jobs) + 1] = id
      /\ \A k \in 1 .. Len(x.jobs) : y.jobs[k] = x.jobs[k]
    BY <1>2, <1>3
<1>5. Len(x.jobs) \in Nat
    BY <1>3
<1>6. \A k \in 1 .. Len(y.jobs) : y.jobs[k] \in 1 .. y.port - 1
  <2>1. (\A k \in 1 .. Len(x.jobs) : x.jobs[k] \in 1 .. x.port - 1) /\ id \in 1 .. x.port - 1
      BY <1>1 DEF SocketsRight
  <2>2. QED
      BY <1>2, <1>4, <1>5, <2>1
<1>7. SocketsRight(y)
    BY <1>1, <1>2, <1>4, <1>6 DEF SocketsRight
<1>8. Host(y, s)
    BY <1>1, <1>2, <1>7 DEF Host
<1>9. OnLists(y) = OnLists(x)
    BY <1>2 DEF OnLists
<1>10. \A i \in DOMAIN y.sockets : Waits(y, i)
    BY <1>1, <1>2, <1>4, <1>5 DEF Waits
<1>11. Frames(x) \in Int /\ Frames(y) = Frames(x)
    BY <1>1, <1>2, <1>9, FramesInt DEF Frames
<1>12. Frames(y) = Frames(x) + 0
    BY <1>11
<1>13. Sound(y, s)
    BY <1>1, <1>8, <1>9, <1>10 DEF Sound
<1>14. Dangling(x) => Dangling(y)
    BY <1>2, <1>3, <1>4, <1>5, DanglingGrows
<1>15. QED
    BY <1>12, <1>13, <1>14 DEF y

(* The socket that is found is one of those looked for.                      *)
LEMMA LatestSocket ==
  ASSUME NEW x, NEW s, Host(x, s), NEW T \in SUBSET DOMAIN x.sockets, T # {}
  PROVE  Max(T) \in T
<1>1. x.port - 1 \in Nat /\ T \subseteq 0 .. x.port - 1
    BY DEF Host, SocketsRight
<1>2. QED
    BY <1>1, GreatestNat

(* A ping or its answer, which gives a job to the latest socket of it.       *)
LEMMA PingProcessed ==
  ASSUME NEW x, NEW s, Sound(x, s), NEW pkt \in OnAir(s), pkt.to = "me"
  PROVE  Processed(x, ProcessPing(x, pkt), s)
<1>1. Host(x, s)
    BY DEF Sound
<1>2. CASE pkt.op = "pingRequest"
  <2>1. ProcessPing(x, pkt) = Drop(PingRequest(x, pkt))
      BY <1>2 DEF ProcessPing
  <2>2. QED
      BY <1>1, <2>1, PingRequestStep, DropProcessed
<1>3. CASE pkt.op # "pingRequest" /\ PingSockets(x, pkt) = {}
  <2>1. ProcessPing(x, pkt) = Drop(x)
      BY <1>3 DEF ProcessPing
  <2>2. QED
      BY <1>1, <2>1, NoStep, DropProcessed
<1>4. CASE pkt.op # "pingRequest" /\ PingSockets(x, pkt) # {}
  <2> DEFINE id == Max(PingSockets(x, pkt))
             y == [x EXCEPT !.jobs = Append(@, id)]
  <2>1. PingSockets(x, pkt) \in SUBSET DOMAIN x.sockets
      BY DEF PingSockets
  <2>2. id \in PingSockets(x, pkt)
      BY <1>1, <1>4, <2>1, LatestSocket
  <2>3. id \in DOMAIN x.sockets
      BY <2>1, <2>2
  <2>4. ProcessPing(x, pkt) = Drop(y)
      BY <1>4 DEF ProcessPing
  <2> HIDE DEF id
  <2>5. Sound(y, s) /\ Frames(y) = Frames(x) + 0 /\ (Dangling(x) => Dangling(y))
      BY <2>3, JobStep
  <2> HIDE DEF y
  <2>6. Drop(y).host = y /\ Drop(y).kept = FALSE
      BY DEF Drop
  <2>7. QED
      BY <2>4, <2>5, <2>6 DEF Processed
<1>5. QED
    BY <1>2, <1>3, <1>4

(* A datagram is put on the list of a socket, closed or not, which gets a    *)
(* job for it.                                                               *)
LEMMA UdpProcessed ==
  ASSUME NEW x, NEW s, Sound(x, s), NEW pkt \in OnAir(s)
  PROVE  Processed(x, ProcessUdp(x, pkt), s)
<1>1. /\ Host(x, s) /\ DOMAIN x = Fields /\ SocketsRight(x)
      /\ IsFiniteSet(OnLists(x)) /\ \A i \in DOMAIN x.sockets : Waits(x, i)
    BY DEF Host, Sound
<1>2. CASE Receivers(x, pkt) = {}
  <2>1. ProcessUdp(x, pkt) = Drop(x)
      BY <1>2 DEF ProcessUdp
  <2>2. QED
      BY <1>1, <2>1, NoStep, DropProcessed
<1>3. CASE Receivers(x, pkt) # {}
  <2> DEFINE id == Max(Receivers(x, pkt))
             sock == [x.sockets[id] EXCEPT !.read = Append(@, pkt.arg)]
             S == [x.sockets EXCEPT ![id] = sock]
             y == [x EXCEPT !.sockets = S]
             z == [y EXCEPT !.jobs = Append(@, id)]
  <2>1. Receivers(x, pkt) \in SUBSET DOMAIN x.sockets
      BY DEF Receivers, ConnectedTo, OfPort
  <2>2. id \in DOMAIN x.sockets
      BY <1>1, <1>3, <2>1, LatestSocket
  <2>3. ProcessUdp(x, pkt) = Keep(z)
    <3>1. z = [x EXCEPT !.sockets[id].read = Append(@, pkt.arg), !.jobs = Append(@, id)]
        BY <1>1 DEF Fields
    <3>2. QED
        BY <1>3, <3>1 DEF ProcessUdp
  <2> HIDE DEF id
  <2>4. x.sockets \in [DOMAIN x.sockets -> SocketTypes] /\ x.sockets[id] \in SocketTypes
      BY <1>1, <2>2 DEF SocketsRight
  <2>5. pkt.arg \in Texts
      BY DEF OnAir, Packets
  <2>6. sock \in SocketTypes /\ sock.read = Append(x.sockets[id].read, pkt.arg)
    <3>1. x.sockets[id].read \in Seq(Texts)
        BY <2>4 DEF SocketTypes
    <3>2. Append(x.sockets[id].read, pkt.arg) \in Seq(Texts)
        BY <2>5, <3>1
    <3>3. QED
        BY <2>4, <3>2 DEF SocketTypes
  <2> HIDE DEF sock
  <2>7. /\ DOMAIN S = DOMAIN x.sockets /\ S \in [DOMAIN x.sockets -> SocketTypes]
        /\ S[id] = sock /\ \A i \in DOMAIN x.sockets \ {id} : S[i] = x.sockets[i]
      BY <2>2, <2>4, <2>6
  <2> HIDE DEF S
  <2>8. /\ DOMAIN y = Fields /\ y.free = x.free /\ y.sending = x.sending
        /\ y.own = x.own /\ y.cache = x.cache /\ y.index = x.index
        /\ y.sockets = S /\ y.jobs = x.jobs /\ y.port = x.port /\ y.gaveUp = x.gaveUp /\ y.broken = x.broken
      BY <1>1 DEF Fields
  <2> HIDE DEF y
  <2>9. /\ DOMAIN z = Fields /\ z.free = x.free /\ z.sending = x.sending
        /\ z.own = x.own /\ z.cache = x.cache /\ z.index = x.index
        /\ z.sockets = S /\ z.jobs = Append(x.jobs, id) /\ z.port = x.port /\ z.gaveUp = x.gaveUp /\ z.broken = x.broken
      BY <2>8 DEF Fields
  <2> HIDE DEF z
  <2>10. x.jobs \in Seq(Nat) /\ id \in Nat /\ Len(x.jobs) \in Nat
      BY <1>1, <2>2 DEF SocketsRight
  <2>11. /\ z.jobs \in Seq(Nat) /\ Len(z.jobs) = Len(x.jobs) + 1 /\ z.jobs[Len(x.jobs) + 1] = id
         /\ \A k \in 1 .. Len(x.jobs) : z.jobs[k] = x.jobs[k]
      BY <2>9, <2>10
  <2>12. \A k \in 1 .. Len(z.jobs) : z.jobs[k] \in 1 .. z.port - 1
    <3>1. (\A k \in 1 .. Len(x.jobs) : x.jobs[k] \in 1 .. x.port - 1) /\ id \in 1 .. x.port - 1
        BY <1>1, <2>2 DEF SocketsRight
    <3>2. QED
        BY <2>2, <2>7, <2>9, <2>10, <2>11, <3>1
  <2>13. SocketsRight(z)
      BY <1>1, <2>7, <2>9, <2>11, <2>12 DEF SocketsRight
  <2>14. Host(z, s)
      BY <1>1, <2>9, <2>13 DEF Host
  <2>15. /\ DOMAIN z.sockets = DOMAIN x.sockets /\ z.sockets[id].read = Append(x.sockets[id].read, pkt.arg)
         /\ \A i \in DOMAIN x.sockets \ {id} : z.sockets[i].read = x.sockets[i].read
         /\ z.free = x.free /\ z.sending = x.sending
      BY <2>6, <2>7, <2>9
  <2>16. IsFiniteSet(OnLists(z)) /\ Frames(z) = Frames(x) + 1
      BY <1>1, <2>2, <2>14, <2>15, ReadCounts
  <2>17. \A i \in DOMAIN z.sockets : Waits(z, i)
    <3>1. Waits(z, id)
        BY <2>10, <2>11 DEF Waits
    <3>2. ASSUME NEW i \in DOMAIN x.sockets \ {id} PROVE Waits(z, i)
      <4>1. SUFFICES ASSUME z.sockets[i].read # <<>>
                     PROVE  \E k \in 1 .. Len(z.jobs) : z.jobs[k] = i
          BY DEF Waits
      <4>2. Waits(x, i) /\ x.sockets[i].read # <<>>
          BY <1>1, <2>15, <4>1
      <4>3. PICK k \in 1 .. Len(x.jobs) : x.jobs[k] = i
          BY <4>2 DEF Waits
      <4>4. k \in 1 .. Len(z.jobs)
        <5>1. Len(z.jobs) = Len(x.jobs) + 1 /\ Len(x.jobs) \in Nat /\ k \in 1 .. Len(x.jobs)
            BY <2>10, <2>11, <4>3
        <5> DEFINE l == Len(x.jobs)
        <5> HIDE DEF l
        <5>2. Len(z.jobs) = l + 1 /\ l \in Nat /\ k \in 1 .. l
            BY <5>1 DEF l
        <5>3. QED
            BY <5>2
      <4>6. z.jobs[k] = i
          BY <2>11, <4>3
      <4>5. QED
          BY <4>4, <4>6
    <3>3. QED
        BY <2>15, <3>1, <3>2
  <2>18. Keep(z).host = z /\ Keep(z).kept = TRUE
      BY DEF Keep
  <2>19. Dangling(x) => Dangling(z)
      BY <2>7, <2>9, <2>10, <2>11, DanglingGrows
  <2>20. QED
      BY <2>3, <2>14, <2>16, <2>17, <2>18, <2>19 DEF Processed, Sound
<1>4. QED
    BY <1>2, <1>3

(* Every packet that comes, whatever it is.                                  *)
LEMMA PacketProcessed ==
  ASSUME NEW x, Sound(x, site), site \in Sites, NEW pkt \in OnAir(site), pkt.from # "me"
  PROVE  Processed(x, IPProcessEthernetPacket(x, pkt), site)
<1>1. Host(x, site)
    BY DEF Sound
<1>2. CASE pkt.op \in ArpOps
  <2>1. IPProcessEthernetPacket(x, pkt) = Drop(ProcessArp(x, pkt))
      BY <1>2 DEF IPProcessEthernetPacket
  <2>2. QED
      BY <1>1, <2>1, ProcessArpStep, DropProcessed
<1>3. CASE pkt.op \notin ArpOps /\ pkt.op \in {"offer", "ack"}
  <2>1. IPProcessEthernetPacket(x, pkt) = Drop(IPDhcp(x, pkt))
      BY <1>3 DEF IPProcessEthernetPacket
  <2>2. QED
      BY <1>1, <2>1, DhcpStep, DropProcessed
<1>4. CASE IPProcessEthernetPacket(x, pkt) = Drop(x)
    BY <1>1, <1>4, NoStep, DropProcessed
<1>5. CASE pkt.to = "me" /\ IPProcessEthernetPacket(x, pkt) = ProcessPing(x, pkt)
    BY <1>5, PingProcessed
<1>6. CASE IPProcessEthernetPacket(x, pkt) = ProcessUdp(x, pkt)
    BY <1>6, UdpProcessed
<1>7. QED
    BY <1>2, <1>3, <1>4, <1>5, <1>6 DEF IPProcessEthernetPacket

-----------------------------------------------------------------------------
(* A second of IPTick *)

(* DHCP starts, in the words of a sound host.                                *)
LEMMA DiscoverCounts ==
  ASSUME NEW x, NEW s, Sound(x, s)
  PROVE  Sound(Discover(x), s) /\ Frames(Discover(x)) = Frames(x) /\ (Dangling(x) => Dangling(Discover(x)))
<1>1. Host(x, s) /\ IsFiniteSet(OnLists(x))
    BY DEF Sound
<1> DEFINE y == Discover(x)
<1>2. Step(x, y, 0, s)
    BY <1>1, DiscoverStep
<1> HIDE DEF y
<1>3. Sound(y, s) /\ Frames(y) = Frames(x) + 0 /\ (Dangling(x) => Dangling(y))
    BY <1>2, StepSound
<1>4. Frames(x) \in Int
    BY <1>1, FramesInt
<1>5. QED
    BY <1>3, <1>4 DEF y

(* The time to the next DHCP request goes on, and it is made in time.        *)
LEMMA RetryCounts ==
  ASSUME NEW x, NEW s, Sound(x, s)
  PROVE  Sound(Retry(x), s) /\ Frames(Retry(x)) = Frames(x) /\ (Dangling(x) => Dangling(Retry(x)))
<1> DEFINE n == Less(x.own.retry)
           o == [x.own EXCEPT !.retry = n]
           y == [x EXCEPT !.own = o]
<1>1. Host(x, s) /\ IsFiniteSet(OnLists(x))
    BY DEF Sound
<1>2. DOMAIN x = Fields /\ x.own \in OwnTypes /\ OwnRight(x.own, s)
    BY <1>1 DEF Host
<1>3. n \in Int
    BY <1>2 DEF OwnTypes, Less
<1>4. [x EXCEPT !.own.retry = n] = y
    BY <1>2 DEF Fields
<1>5. Retry(x) = IF n <= 0 THEN Discover(y) ELSE y
    BY <1>4 DEF Retry
<1> HIDE DEF n
<1>6. o \in OwnTypes /\ OwnRight(o, s)
    BY <1>2, <1>3, OwnWaits
<1> HIDE DEF o
<1>7. Step(x, y, 0, s)
    BY <1>1, <1>6, OwnStep
<1> HIDE DEF y
<1>8. Sound(y, s) /\ Frames(y) = Frames(x) + 0 /\ (Dangling(x) => Dangling(y))
    BY <1>7, StepSound
<1>9. Frames(x) \in Int
    BY <1>1, FramesInt
<1>10. Sound(y, s) /\ Frames(y) = Frames(x)
    BY <1>8, <1>9
<1>11. Sound(Discover(y), s) /\ Frames(Discover(y)) = Frames(y) /\ (Dangling(y) => Dangling(Discover(y)))
    BY <1>10, DiscoverCounts
<1>12. QED
    BY <1>5, <1>8, <1>10, <1>11

(* A socket that is thrown away has nothing on its list unless a job waits   *)
(* for it.                                                                   *)
LEMMA TickCounts ==
  ASSUME NEW x, NEW s, Sound(x, s)
  PROVE  /\ Sound(IPTick(x), s) /\ (Dangling(x) => Dangling(IPTick(x)))
         /\ ~Dangling(IPTick(x)) => Frames(IPTick(x)) = Frames(x)
<1> DEFINE y == Retry(x)
           S == [i \in { j \in DOMAIN y.sockets : Alive(y.sockets[j]) } |-> Aged(y.sockets[i])]
           z == [y EXCEPT !.sockets = S]
<1>1. Sound(y, s) /\ Frames(y) = Frames(x) /\ (Dangling(x) => Dangling(y))
    BY RetryCounts
<1>2. IPTick(x) = z
    BY DEF IPTick
<1> HIDE DEF y
<1>3. /\ Host(y, s) /\ DOMAIN y = Fields /\ SocketsRight(y) /\ IsFiniteSet(OnLists(y))
      /\ \A i \in DOMAIN y.sockets : Waits(y, i)
    BY <1>1 DEF Sound, Host
<1>4. /\ DOMAIN S \subseteq DOMAIN y.sockets
      /\ \A i \in DOMAIN S : S[i] \in SocketTypes /\ S[i].read = y.sockets[i].read
  <2>1. ASSUME NEW i \in DOMAIN S PROVE S[i] \in SocketTypes /\ S[i].read = y.sockets[i].read
    <3>1. i \in DOMAIN y.sockets /\ S[i] = Aged(y.sockets[i])
        OBVIOUS
    <3>2. y.sockets[i] \in SocketTypes
        BY <1>3, <3>1 DEF SocketsRight
    <3>3. y.sockets[i].timeout \in Nat
        BY <3>2 DEF SocketTypes
    <3> DEFINE t == IF y.sockets[i].timeout = 0 THEN 0 ELSE y.sockets[i].timeout - 1
    <3>4. t \in Nat
        BY <3>3
    <3>5. Aged(y.sockets[i]) = [y.sockets[i] EXCEPT !.timeout = t]
        BY DEF Aged
    <3> HIDE DEF t
    <3>6. Aged(y.sockets[i]) \in SocketTypes /\ Aged(y.sockets[i]).read = y.sockets[i].read
        BY <3>2, <3>4, <3>5 DEF SocketTypes
    <3>7. QED
        BY <3>1, <3>6
  <2>2. QED
      BY <2>1
<1>5. S \in [DOMAIN S -> SocketTypes]
    BY <1>4
<1> HIDE DEF S
<1>6. /\ DOMAIN z = Fields /\ z.free = y.free /\ z.sending = y.sending
      /\ z.own = y.own /\ z.cache = y.cache /\ z.index = y.index
      /\ z.sockets = S /\ z.jobs = y.jobs /\ z.port = y.port /\ z.gaveUp = y.gaveUp /\ z.broken = y.broken
    BY <1>3 DEF Fields
<1> HIDE DEF z
<1>7. SocketsRight(z)
    BY <1>3, <1>4, <1>5, <1>6 DEF SocketsRight
<1>8. Host(z, s)
    BY <1>3, <1>6, <1>7 DEF Host
<1>9. OnLists(z) \subseteq OnLists(y)
  <2>1. ASSUME NEW e \in OnLists(z) PROVE e \in OnLists(y)
    <3>1. PICK i \in DOMAIN z.sockets : e \in {i} \X (1 .. Len(z.sockets[i].read))
        BY <2>1, ListsElements
    <3>2. i \in DOMAIN y.sockets /\ e \in {i} \X (1 .. Len(y.sockets[i].read))
        BY <1>4, <1>6, <3>1
    <3>3. QED
        BY <3>2, ListsElements
  <2>2. QED
      BY <2>1
<1>10. IsFiniteSet(OnLists(z))
    BY <1>3, <1>9, FS_Subset
<1>11. \A i \in DOMAIN z.sockets : Waits(z, i)
    BY <1>3, <1>4, <1>6 DEF Waits
<1>12. Dangling(y) => Dangling(z)
    BY <1>4, <1>6 DEF Dangling
<1>13. ASSUME ~Dangling(z) PROVE Frames(z) = Frames(y)
  <2>1. ASSUME NEW e \in OnLists(y) PROVE e \in OnLists(z)
    <3>1. PICK i \in DOMAIN y.sockets : e \in {i} \X (1 .. Len(y.sockets[i].read))
        BY <2>1, ListsElements
    <3>2. y.jobs \in Seq(Nat) /\ y.sockets[i] \in SocketTypes
        BY <1>3 DEF SocketsRight
    <3>3. y.sockets[i].read # <<>>
      <4>1. SUFFICES ASSUME y.sockets[i].read = <<>> PROVE FALSE
          OBVIOUS
      <4>2. Len(y.sockets[i].read) = 0
          BY <4>1
      <4>3. QED
          BY <3>1, <4>2
    <3>4. PICK k \in 1 .. Len(y.jobs) : y.jobs[k] = i
        BY <1>3, <3>3 DEF Waits
    <3>5. k \in DOMAIN z.jobs /\ z.jobs[k] = i
        BY <1>6, <3>2, <3>4
    <3>6. i \in DOMAIN z.sockets
        BY <1>13, <3>5 DEF Dangling
    <3>7. e \in {i} \X (1 .. Len(z.sockets[i].read))
        BY <1>4, <1>6, <3>1, <3>6
    <3>8. QED
        BY <3>6, <3>7, ListsElements
  <2>2. OnLists(z) = OnLists(y)
      BY <1>9, <2>1
  <2>3. QED
      BY <1>6, <2>2 DEF Frames
<1>14. QED
    BY <1>1, <1>2, <1>8, <1>10, <1>11, <1>12, <1>13 DEF Sound

-----------------------------------------------------------------------------
(* The actions *)

(* The parts of the invariant that a step of the host keeps.                 *)
LEMMA HostStep ==
  ASSUME IInv, NEW x, Sound(x, site), ~Dangling(x) => Frames(x) = FRAME_COUNT, h' = x,
         NEW A \in SUBSET OnAir(site), air' = A, site' = site
  PROVE  IInv'
<1>1. site \in Sites
    BY DEF IInv
<1>2. Host(x, site) /\ IsFiniteSet(OnLists(x)) /\ \A id \in DOMAIN x.sockets : Waits(x, id)
    BY DEF Sound
<1>3. Counted(x)
    BY <1>2 DEF Counted
<1>4. QED
    BY <1>1, <1>2, <1>3 DEF IInv

(* The parts of the invariant that a step of the network keeps.              *)
LEMMA NetworkStep ==
  ASSUME IInv, NEW A \in SUBSET OnAir(site), air' = A, UNCHANGED <<h, site>>
  PROVE  IInv'
BY DEF IInv

(* The invariant in the words of a sound host.                               *)
LEMMA InvSound ==
  ASSUME IInv
  PROVE  /\ Sound(h, site) /\ (~Dangling(h) => Frames(h) = FRAME_COUNT) /\ Host(h, site)
         /\ site \in Sites /\ air \in SUBSET OnAir(site) /\ FRAME_COUNT \in Int
BY HostAssumption DEF IInv, Sound, Counted

(* A frame leaves the send queue, its packet is on the network.              *)
LEMMA TransmitStep ==
  ASSUME IInv, Transmit
  PROVE  IInv'
<1> DEFINE y == [h EXCEPT !.sending = Tail(@)]
           x == Free(y)
           pkt == Head(h.sending)
<1>1. Sound(h, site) /\ (~Dangling(h) => Frames(h) = FRAME_COUNT) /\ Host(h, site) /\ air \in SUBSET OnAir(site)
    BY InvSound
<1>2. h.sending # <<>> /\ h' = x /\ air' = air \cup {pkt} /\ site' = site
    BY DEF Transmit
<1>3. DOMAIN h = Fields /\ h.sending \in Seq(Mine) /\ h.free \in Nat
    BY <1>1 DEF Host
<1>4. /\ pkt \in Mine /\ Tail(h.sending) \in Seq(Mine)
      /\ Len(Tail(h.sending)) = Len(h.sending) - 1 /\ Len(h.sending) \in Nat
    BY <1>2, <1>3
<1>5. /\ DOMAIN x = Fields /\ x.free = h.free + 1 /\ x.sending = Tail(h.sending)
      /\ x.own = h.own /\ x.cache = h.cache /\ x.index = h.index
      /\ x.sockets = h.sockets /\ x.jobs = h.jobs /\ x.port = h.port /\ x.gaveUp = h.gaveUp /\ x.broken = h.broken
    BY <1>3 DEF Free, Fields
<1> HIDE DEF x, pkt
<1>6. Host(x, site)
    BY <1>1, <1>3, <1>4, <1>5 DEF Host, SocketsRight
<1>6a. OnlyNew(h, x)
    BY <1>1, <1>5, SameSockets
<1>7. Step(h, x, 0, site)
    BY <1>3, <1>4, <1>5, <1>6, <1>6a DEF Step
<1>8. Sound(x, site) /\ Frames(x) = Frames(h) + 0 /\ (Dangling(h) => Dangling(x))
    BY <1>1, <1>7, StepSound
<1>9. ~Dangling(x) => Frames(x) = FRAME_COUNT
    BY <1>1, <1>8, InvSound
<1>10. pkt \in OnAir(site)
    BY <1>4 DEF Mine, OnAir
<1>11. air \cup {pkt} \in SUBSET OnAir(site)
    BY <1>1, <1>10
<1>12. QED
    BY <1>2, <1>8, <1>9, <1>11, HostStep

(* A packet comes, with a frame for it or without.                           *)
LEMMA ReceiveStep ==
  ASSUME IInv, Receive
  PROVE  IInv'
<1>1. /\ Sound(h, site) /\ (~Dangling(h) => Frames(h) = FRAME_COUNT) /\ Host(h, site) /\ air \in SUBSET OnAir(site)
      /\ site \in Sites /\ FRAME_COUNT \in Int
    BY InvSound
<1>2. PICK pkt \in air : /\ pkt.from # "me" /\ (air' = air \ {pkt} \/ air' = air) /\ site' = site
                         /\ Overrun(pkt) \/ Accepted(pkt)
    BY DEF Receive
<1>3. pkt \in OnAir(site) /\ air' \in SUBSET OnAir(site)
    BY <1>1, <1>2
<1>4. CASE Overrun(pkt)
  <2> DEFINE x == [h EXCEPT !.gaveUp = TRUE]
  <2>1. h' = x
      BY <1>4 DEF Overrun
  <2>2. Step(h, x, 0, site)
      BY <1>1, GaveUpStep
  <2> HIDE DEF x
  <2>3. Sound(x, site) /\ Frames(x) = Frames(h) + 0 /\ (Dangling(h) => Dangling(x))
      BY <1>1, <2>2, StepSound
  <2>4. ~Dangling(x) => Frames(x) = FRAME_COUNT
      BY <1>1, <2>3
  <2>5. QED
      BY <1>2, <1>3, <2>1, <2>3, <2>4, HostStep
<1>5. CASE Accepted(pkt)
  <2> DEFINE x == Get(h)
             r == IPProcessEthernetPacket(x, pkt)
             z == IF r.kept THEN r.host ELSE Free(r.host)
  <2>1. Has(h, FRAME_COUNT_RCV) /\ h' = z
      BY <1>5 DEF Accepted
  <2>2. Step(h, x, -1, site)
      BY <1>1, <2>1, HasFrames, GetStep
  <2> HIDE DEF x
  <2>3. Sound(x, site) /\ Frames(x) = Frames(h) + -1 /\ (Dangling(h) => Dangling(x))
      BY <1>1, <2>2, StepSound
  <2>4. Processed(x, r, site)
      BY <1>1, <1>2, <1>3, <2>3, PacketProcessed
  <2> HIDE DEF r
  <2>5. /\ Sound(r.host, site) /\ Frames(r.host) = Frames(x) + (IF r.kept THEN 1 ELSE 0)
        /\ Dangling(x) => Dangling(r.host)
      BY <2>4 DEF Processed
  <2>6. CASE r.kept
      BY <1>1, <1>2, <1>3, <2>1, <2>3, <2>5, <2>6, HostStep
  <2>7. CASE ~r.kept
    <3> DEFINE w == Free(r.host)
    <3>1. Host(r.host, site)
        BY <2>5 DEF Sound
    <3>2. Step(r.host, w, 1, site)
        BY <3>1, FreeStep
    <3> HIDE DEF w
    <3>3. Sound(w, site) /\ Frames(w) = Frames(r.host) + 1 /\ (Dangling(r.host) => Dangling(w))
        BY <2>5, <3>2, StepSound
    <3>4. ~Dangling(w) => Frames(w) = FRAME_COUNT
        BY <1>1, <2>3, <2>5, <2>7, <3>3
    <3>5. h' = w
        BY <2>1, <2>7 DEF w
    <3>6. QED
        BY <1>2, <1>3, <3>3, <3>4, <3>5, HostStep
  <2>8. QED
      BY <2>6, <2>7
<1>6. QED
    BY <1>2, <1>4, <1>5

(* A job whose socket was freed changes nothing that is counted.             *)
LEMMA FreedJobStep ==
  ASSUME IInv, Job, Head(h.jobs) \notin DOMAIN h.sockets
  PROVE  IInv'
<1> DEFINE x == [h EXCEPT !.broken = TRUE]
<1>1. Sound(h, site) /\ (~Dangling(h) => Frames(h) = FRAME_COUNT) /\ Host(h, site) /\ air \in SUBSET OnAir(site)
    BY InvSound
<1>2. h' = x /\ air' = air /\ site' = site
    BY DEF Job
<1>3. DOMAIN h = Fields
    BY <1>1 DEF Host
<1>4. /\ DOMAIN x = Fields /\ x.free = h.free /\ x.sending = h.sending
      /\ x.own = h.own /\ x.cache = h.cache /\ x.index = h.index
      /\ x.sockets = h.sockets /\ x.jobs = h.jobs /\ x.port = h.port /\ x.gaveUp = h.gaveUp /\ x.broken = TRUE
    BY <1>3 DEF Fields
<1> HIDE DEF x
<1>5. Host(x, site)
    BY <1>1, <1>4 DEF Host, SocketsRight
<1>6. OnLists(x) = OnLists(h) /\ Frames(x) = Frames(h) /\ (Dangling(h) => Dangling(x))
    BY <1>4 DEF OnLists, Frames, Dangling
<1>7. Sound(x, site) /\ (~Dangling(x) => Frames(x) = FRAME_COUNT)
    BY <1>1, <1>4, <1>5, <1>6 DEF Sound, Waits
<1>8. QED
    BY <1>1, <1>2, <1>7, HostStep

(* The job takes its place in the queue and empties the list of its socket.  *)
LEMMA JobsStep ==
  ASSUME IInv, Job, Head(h.jobs) \in DOMAIN h.sockets
  PROVE  IInv'
<1> DEFINE id == Head(h.jobs)
           x == [h EXCEPT !.jobs = Tail(@)]
           y == IF h.sockets[id].kind = "dns" THEN DnsCallback(x, id) ELSE PingCallback(x, id)
<1>1. /\ Sound(h, site) /\ (~Dangling(h) => Frames(h) = FRAME_COUNT) /\ Host(h, site) /\ air \in SUBSET OnAir(site)
      /\ site \in Sites /\ FRAME_COUNT \in Int
    BY InvSound
<1>2. h.jobs # <<>> /\ h' = y /\ air' = air /\ site' = site
    BY DEF Job
<1>3. /\ DOMAIN h = Fields /\ h.free \in Nat /\ Len(h.sending) \in Nat /\ SocketsRight(h)
      /\ IsFiniteSet(OnLists(h)) /\ \A i \in DOMAIN h.sockets : Waits(h, i)
    BY <1>1 DEF Host, Sound
<1>4. /\ DOMAIN x = Fields /\ x.free = h.free /\ x.sending = h.sending
      /\ x.own = h.own /\ x.cache = h.cache /\ x.index = h.index
      /\ x.sockets = h.sockets /\ x.jobs = Tail(h.jobs) /\ x.port = h.port /\ x.gaveUp = h.gaveUp /\ x.broken = h.broken
    BY <1>3 DEF Fields
<1>5. h.jobs \in Seq(Nat) /\ \A k \in 1 .. Len(h.jobs) : h.jobs[k] \in 1 .. h.port - 1
    BY <1>3 DEF SocketsRight
<1>6. id = h.jobs[1] /\ Len(h.jobs) \in Nat \ {0}
    BY <1>2, <1>5
<1>7. id \in DOMAIN h.sockets
    OBVIOUS
<1>8. /\ Tail(h.jobs) \in Seq(Nat) /\ Len(Tail(h.jobs)) = Len(h.jobs) - 1
      /\ \A k \in 1 .. Len(h.jobs) - 1 : Tail(h.jobs)[k] = h.jobs[k + 1]
    BY <1>2, <1>5
<1>9. \A k \in 1 .. Len(Tail(h.jobs)) : Tail(h.jobs)[k] \in 1 .. h.port - 1
    BY <1>5, <1>6, <1>8
<1> HIDE DEF x
<1>10. SocketsRight(x)
    BY <1>3, <1>4, <1>8, <1>9 DEF SocketsRight
<1>11. Host(x, site)
    BY <1>1, <1>4, <1>10 DEF Host
<1>12. OnLists(x) = OnLists(h) /\ Frames(x) = Frames(h)
    BY <1>4 DEF OnLists, Frames
<1>13. ASSUME NEW i \in DOMAIN x.sockets \ {id} PROVE Waits(x, i)
  <2>1. SUFFICES ASSUME x.sockets[i].read # <<>>
                 PROVE  \E k \in 1 .. Len(x.jobs) : x.jobs[k] = i
      BY DEF Waits
  <2>2. Waits(h, i) /\ h.sockets[i].read # <<>>
      BY <1>3, <1>4, <2>1
  <2>3. PICK k \in 1 .. Len(h.jobs) : h.jobs[k] = i
      BY <2>2 DEF Waits
  <2>4. k # 1
      BY <1>6, <2>3
  <2>5. k - 1 \in 1 .. Len(h.jobs) - 1 /\ (k - 1) + 1 = k
      BY <1>6, <2>3, <2>4
  <2>6. Tail(h.jobs)[k - 1] = i /\ k - 1 \in 1 .. Len(Tail(h.jobs))
      BY <1>8, <2>3, <2>5
  <2>7. QED
      BY <1>4, <2>6
<1>14. Emptied(x, y, id, site)
  <2>1. id \in DOMAIN x.sockets /\ IsFiniteSet(OnLists(x))
      BY <1>3, <1>4, <1>7, <1>12
  <2>2. Emptied(x, DnsCallback(x, id), id, site)
      BY <1>11, <2>1, DnsEmpties
  <2>3. Emptied(x, PingCallback(x, id), id, site)
      BY <1>11, <2>1, CloseEmpties DEF PingCallback
  <2>4. QED
      BY <2>2, <2>3
<1> HIDE DEF y
<1>15. /\ Host(y, site) /\ y.sockets[id].read = <<>> /\ IsFiniteSet(OnLists(y)) /\ Frames(y) = Frames(x)
       /\ \A i \in DOMAIN y.sockets \ {id} : Waits(x, i) \/ i \notin DOMAIN x.sockets => Waits(y, i)
       /\ y.jobs = x.jobs /\ OnlyNew(x, y)
    BY <1>14 DEF Emptied
<1>16. Waits(y, id)
    BY <1>15 DEF Waits
<1>17. \A i \in DOMAIN y.sockets : Waits(y, i)
    BY <1>13, <1>15, <1>16
<1>18. Dangling(h) => Dangling(x)
  <2>1. SUFFICES ASSUME Dangling(h) PROVE Dangling(x)
      OBVIOUS
  <2>2. PICK k \in 1 .. Len(h.jobs) : h.jobs[k] \notin DOMAIN h.sockets
      BY <1>5, <2>1 DEF Dangling
  <2>3. k # 1
      BY <1>6, <1>7, <2>2
  <2>4. k - 1 \in 1 .. Len(h.jobs) - 1 /\ (k - 1) + 1 = k
      BY <1>6, <2>2, <2>3
  <2>5. k - 1 \in DOMAIN x.jobs /\ x.jobs[k - 1] \notin DOMAIN x.sockets
      BY <1>4, <1>8, <2>2, <2>4
  <2>6. QED
      BY <2>5 DEF Dangling
<1>19. Dangling(x) => Dangling(y)
    BY <1>11, <1>15, DanglingStays
<1>20. Sound(y, site) /\ (~Dangling(y) => Frames(y) = FRAME_COUNT)
    BY <1>1, <1>12, <1>15, <1>17, <1>18, <1>19 DEF Sound
<1>21. QED
    BY <1>1, <1>2, <1>20, HostStep

(* A second has passed, whatever is under way.                               *)
LEMMA TickStep ==
  ASSUME IInv, Tick
  PROVE  IInv'
<1>1. Sound(h, site) /\ (~Dangling(h) => Frames(h) = FRAME_COUNT) /\ air \in SUBSET OnAir(site)
    BY InvSound
<1>2. h' = IPTick(h) /\ air' = air /\ site' = site
    BY DEF Tick
<1> DEFINE x == IPTick(h)
<1>3. Sound(x, site) /\ (~Dangling(x) => Frames(x) = FRAME_COUNT)
    BY <1>1, <1>2, TickCounts
<1> HIDE DEF x
<1>4. h' = x
    BY <1>2 DEF x
<1>5. QED
    BY <1>1, <1>2, <1>3, <1>4, HostStep

(* A line is entered on the console.                                         *)
LEMMA ConsoleStep ==
  ASSUME IInv, Ask
  PROVE  IInv'
<1>1. /\ Sound(h, site) /\ (~Dangling(h) => Frames(h) = FRAME_COUNT) /\ Host(h, site) /\ air \in SUBSET OnAir(site)
      /\ FRAME_COUNT \in Int
    BY InvSound
<1>2. PICK isName \in BOOLEAN : h' = ConsolePing(h, isName) /\ air' = air /\ site' = site
    BY DEF Ask
<1> DEFINE x == ConsolePing(h, isName)
<1>3. Step(h, x, 0, site)
    BY <1>1, PingStep
<1> HIDE DEF x
<1>4. Sound(x, site) /\ Frames(x) = Frames(h) + 0 /\ (Dangling(h) => Dangling(x))
    BY <1>1, <1>3, StepSound
<1>5. h' = x /\ (~Dangling(x) => Frames(x) = FRAME_COUNT)
    BY <1>1, <1>2, <1>4 DEF x
<1>6. QED
    BY <1>1, <1>2, <1>4, <1>5, HostStep

(* What a machine writes into the fields of a packet.                        *)
LEMMA MachineFields ==
  ASSUME NEW machine, NEW op, NEW dst
  PROVE  FromMachine(machine, op, dst) =
           [op |-> op, from |-> machine, to |-> "me", src |-> machine, dst |-> dst, sport |-> 0, dport |-> 0,
            arg |-> "0", client |-> "me", relay |-> "0", server |-> "0"]
<1> DEFINE p == Packet(op, "me", machine, dst)
<1>1. p = [op |-> op, from |-> "me", to |-> "me", src |-> machine, dst |-> dst, sport |-> 0, dport |-> 0,
           arg |-> "0", client |-> "me", relay |-> "0", server |-> "0"]
    BY DEF Packet
<1>2. FromMachine(machine, op, dst) = [p EXCEPT !.from = machine, !.client = "me"]
    BY DEF FromMachine
<1> HIDE DEF p
<1>3. QED
    BY <1>1, <1>2

(* What a machine sends is what may be on the network.                       *)
LEMMA MachinePacket ==
  ASSUME NEW machine \in Texts, NEW op \in Texts, NEW dst \in Texts,
         op \notin {"request", "arpReply", "offer", "ack"},
         NEW to \in Texts, NEW sport \in Nat, NEW dport \in Nat, NEW arg \in Texts
  PROVE  [FromMachine(machine, op, dst) EXCEPT !.to = to, !.sport = sport, !.dport = dport, !.arg = arg] \in OnAir(site)
<1> DEFINE p == [FromMachine(machine, op, dst) EXCEPT !.to = to, !.sport = sport, !.dport = dport, !.arg = arg]
<1>1. "me" \in Texts /\ "0" \in Texts
    BY WrittenTexts DEF Written
<1>2. p = [op |-> op, from |-> machine, to |-> to, src |-> machine, dst |-> dst, sport |-> sport, dport |-> dport,
           arg |-> arg, client |-> "me", relay |-> "0", server |-> "0"]
  <2> DEFINE q == FromMachine(machine, op, dst)
  <2>1. q = [op |-> op, from |-> machine, to |-> "me", src |-> machine, dst |-> dst, sport |-> 0, dport |-> 0,
             arg |-> "0", client |-> "me", relay |-> "0", server |-> "0"]
      BY MachineFields
  <2> HIDE DEF q
  <2>2. [q EXCEPT !.to = to, !.sport = sport, !.dport = dport, !.arg = arg]
          = [op |-> op, from |-> machine, to |-> to, src |-> machine, dst |-> dst, sport |-> sport, dport |-> dport,
             arg |-> arg, client |-> "me", relay |-> "0", server |-> "0"]
    <3> DEFINE q1 == [q EXCEPT !.to = to]
               q2 == [q1 EXCEPT !.sport = sport]
               q3 == [q2 EXCEPT !.dport = dport]
    <3>1. q1 = [op |-> op, from |-> machine, to |-> to, src |-> machine, dst |-> dst, sport |-> 0, dport |-> 0,
                arg |-> "0", client |-> "me", relay |-> "0", server |-> "0"]
        BY <2>1
    <3> HIDE DEF q1
    <3>2. q2 = [op |-> op, from |-> machine, to |-> to, src |-> machine, dst |-> dst, sport |-> sport, dport |-> 0,
                arg |-> "0", client |-> "me", relay |-> "0", server |-> "0"]
        BY <3>1
    <3> HIDE DEF q2
    <3>3. q3 = [op |-> op, from |-> machine, to |-> to, src |-> machine, dst |-> dst, sport |-> sport, dport |-> dport,
                arg |-> "0", client |-> "me", relay |-> "0", server |-> "0"]
        BY <3>2
    <3> HIDE DEF q3
    <3>4. [q3 EXCEPT !.arg = arg] =
            [op |-> op, from |-> machine, to |-> to, src |-> machine, dst |-> dst, sport |-> sport, dport |-> dport,
             arg |-> arg, client |-> "me", relay |-> "0", server |-> "0"]
        BY <3>3
    <3>5. QED
        BY <3>4 DEF q1, q2, q3
  <2>3. QED
      BY <2>2 DEF q
<1> HIDE DEF p
<1>3. p \in Packets
    BY <1>1, <1>2 DEF Packets
<1>4. p.op = op
    BY <1>2
<1>5. QED
    BY <1>3, <1>4 DEF p, OnAir

(* An answer of the DHCP server to this host names ip1.                      *)
LEMMA DhcpPacket ==
  ASSUME site \in Sites, NEW op \in {"offer", "ack"}, NEW client \in Texts, NEW ip \in Texts, client = "me" => ip = "ip1"
  PROVE  DhcpAnswer(op, client, ip) \in OnAir(site)
<1> DEFINE p == DhcpAnswer(op, client, ip)
<1>1. "me" \in Texts /\ "0" \in Texts /\ "ff" \in Texts /\ op \in Texts
    BY WrittenTexts DEF Written
<1>2. site.server \in Texts /\ site.relay \in Texts
    BY SitesAssumption DEF Texts
<1>3. p = [op |-> op, from |-> site.server, to |-> "ff", src |-> site.server, dst |-> "ff", sport |-> 0, dport |-> 0,
           arg |-> ip, client |-> client, relay |-> site.relay, server |-> site.server]
  <2> DEFINE q == FromMachine(site.server, op, "ff")
  <2>1. q = [op |-> op, from |-> site.server, to |-> "me", src |-> site.server, dst |-> "ff", sport |-> 0, dport |-> 0,
             arg |-> "0", client |-> "me", relay |-> "0", server |-> "0"]
      BY MachineFields
  <2>2. p = [q EXCEPT !.to = "ff", !.client = client, !.arg = ip, !.relay = site.relay, !.server = site.server]
      BY DEF DhcpAnswer
  <2> HIDE DEF p, q
  <2>3. QED
      BY <2>1, <2>2
<1> HIDE DEF p
<1>4. p \in Packets
    BY <1>1, <1>2, <1>3 DEF Packets
<1>5. /\ p.op = op /\ p.op # "request" /\ p.op # "arpReply" /\ p.src = p.from
      /\ p.server = site.server /\ p.relay = site.relay /\ p.client = client /\ p.arg = ip
    BY <1>3
<1>6. QED
    BY <1>4, <1>5 DEF p, OnAir

(* A reply of ARP names who sends it.                                        *)
LEMMA ArpPacket ==
  ASSUME NEW machine \in Texts, NEW dst \in Texts
  PROVE  [FromMachine(machine, "arpReply", dst) EXCEPT !.to = "me"] \in OnAir(site)
<1> DEFINE p == [FromMachine(machine, "arpReply", dst) EXCEPT !.to = "me"]
<1>1. "me" \in Texts /\ "0" \in Texts /\ "arpReply" \in Texts
    BY WrittenTexts DEF Written
<1>2. p = [op |-> "arpReply", from |-> machine, to |-> "me", src |-> machine, dst |-> dst, sport |-> 0, dport |-> 0,
           arg |-> "0", client |-> "me", relay |-> "0", server |-> "0"]
  <2> DEFINE q == FromMachine(machine, "arpReply", dst)
  <2>1. q = [op |-> "arpReply", from |-> machine, to |-> "me", src |-> machine, dst |-> dst, sport |-> 0, dport |-> 0,
             arg |-> "0", client |-> "me", relay |-> "0", server |-> "0"]
      BY MachineFields
  <2>2. p = [q EXCEPT !.to = "me"]
      OBVIOUS
  <2> HIDE DEF p, q
  <2>3. QED
      BY <2>1, <2>2
<1> HIDE DEF p
<1>3. p \in Packets
    BY <1>1, <1>2 DEF Packets
<1>4. p.op = "arpReply" /\ p.src = p.from
    BY <1>2
<1>5. QED
    BY <1>3, <1>4 DEF p, OnAir

(* What the machines answer to a packet of the network.                      *)
LEMMA AnswersOnAir ==
  ASSUME site \in Sites, NEW pkt \in OnAir(site)
  PROVE  Answers(pkt) \in SUBSET OnAir(site)
<1>1. /\ pkt.op \in Texts /\ pkt.src \in Texts /\ pkt.dst \in Texts /\ pkt.sport \in Nat /\ pkt.arg \in Texts
      /\ pkt.op = "request" => pkt.arg = "ip1"
    BY DEF OnAir, Packets
<1>2. \A t \in {"me", "ip1", "answer", "srv", "pingReply", "0"} : t \in Texts
    BY WrittenTexts DEF Written
<1>3. [FromMachine(pkt.dst, "arpReply", pkt.src) EXCEPT !.to = "me"] \in OnAir(site)
    BY <1>1, ArpPacket
<1>4. DhcpAnswer("offer", "me", "ip1") \in OnAir(site)
    BY <1>2, DhcpPacket
<1>5. pkt.op = "request" => DhcpAnswer("ack", "me", pkt.arg) \in OnAir(site)
    BY <1>1, <1>2, DhcpPacket
<1>6. [FromMachine(pkt.dst, "answer", pkt.src) EXCEPT !.sport = DNS_PORT, !.dport = pkt.sport, !.arg = "srv"] \in OnAir(site)
  <2> DEFINE p == FromMachine(pkt.dst, "answer", pkt.src)
  <2>1. DNS_PORT \in Nat
      BY DEF DNS_PORT
  <2>6. /\ "answer" \in Texts /\ "answer" \notin {"request", "arpReply", "offer", "ack"}
        /\ "me" \in Texts /\ "srv" \in Texts
      BY <1>2
  <2>2. [p EXCEPT !.to = "me", !.sport = DNS_PORT, !.dport = pkt.sport, !.arg = "srv"] \in OnAir(site)
    <3> HIDE DEF DNS_PORT
    <3>1. pkt.dst \in Texts /\ pkt.src \in Texts /\ pkt.sport \in Nat
        BY <1>1
    <3>2. QED
        BY <2>1, <2>6, <3>1, MachinePacket, ZenonT(30)
  <2>3. p.to = "me" /\ DOMAIN p = {"op", "from", "to", "src", "dst", "sport", "dport", "arg", "client", "relay", "server"}
      BY DEF FromMachine, Packet
  <2>4. [p EXCEPT !.sport = DNS_PORT, !.dport = pkt.sport, !.arg = "srv"]
          = [p EXCEPT !.to = "me", !.sport = DNS_PORT, !.dport = pkt.sport, !.arg = "srv"]
      BY <2>3
  <2>5. QED
      BY <2>2, <2>4
<1>7. FromMachine(pkt.dst, "pingReply", pkt.src) \in OnAir(site)
  <2> DEFINE p == FromMachine(pkt.dst, "pingReply", pkt.src)
  <2>7. /\ "pingReply" \in Texts /\ "pingReply" \notin {"request", "arpReply", "offer", "ack"}
        /\ "me" \in Texts /\ "0" \in Texts /\ pkt.dst \in Texts /\ pkt.src \in Texts
      BY <1>1, <1>2
  <2>1. [p EXCEPT !.to = "me", !.sport = 0, !.dport = 0, !.arg = "0"] \in OnAir(site)
    <3>1. 0 \in Nat
        OBVIOUS
    <3>2. QED
        BY <2>7, <3>1, MachinePacket, ZenonT(30)
  <2>2. p = [op |-> "pingReply", from |-> pkt.dst, to |-> "me", src |-> pkt.dst, dst |-> pkt.src, sport |-> 0, dport |-> 0,
             arg |-> "0", client |-> "me", relay |-> "0", server |-> "0"]
      BY MachineFields
  <2> HIDE DEF p
  <2>5. p.to = "me" /\ p.sport = 0 /\ p.dport = 0 /\ p.arg = "0"
      BY <2>2
  <2>6. p = [f \in DOMAIN p |-> p[f]]
      BY <2>2
  <2>3. p = [p EXCEPT !.to = "me", !.sport = 0, !.dport = 0, !.arg = "0"]
      BY <2>5, <2>6, Zenon
  <2>4. QED
      BY <2>1, <2>3 DEF p
<1>8. QED
    BY <1>3, <1>4, <1>5, <1>6, <1>7 DEF Answers

(* A machine answers.                                                        *)
LEMMA MachineStep ==
  ASSUME IInv, MachineAnswers
  PROVE  IInv'
<1>1. site \in Sites /\ air \in SUBSET OnAir(site)
    BY InvSound
<1>2. PICK pkt \in air : air' = (air \ {pkt}) \cup Answers(pkt) /\ UNCHANGED <<h, site>>
    BY DEF MachineAnswers
<1>3. Answers(pkt) \in SUBSET OnAir(site)
    BY <1>1, AnswersOnAir
<1>4. (air \ {pkt}) \cup Answers(pkt) \in SUBSET OnAir(site)
    BY <1>1, <1>3
<1>5. QED
    BY <1>2, <1>4, NetworkStep

(* A machine asks this host.                                                 *)
LEMMA PeerStep ==
  ASSUME IInv, PeerAsks
  PROVE  IInv'
<1>1. air \in SUBSET OnAir(site) /\ h.own.ip \in Texts
  <2>1. h.own \in OwnTypes
      BY InvSound DEF Host
  <2>2. QED
      BY <2>1, InvSound DEF OwnTypes
<1> DEFINE P(op) == [FromMachine("srv", op, h.own.ip) EXCEPT !.to = IF op = "arpRequest" THEN "ff" ELSE "me"]
<1>2. PICK op \in {"arpRequest", "pingRequest"} : air' = air \cup {P(op)} /\ UNCHANGED <<h, site>>
    BY DEF PeerAsks
<1>3. P(op) \in OnAir(site)
  <2> DEFINE p == FromMachine("srv", op, h.own.ip)
             to == IF op = "arpRequest" THEN "ff" ELSE "me"
  <2>1. \A t \in {"srv", "arpRequest", "pingRequest", "ff", "me", "0"} : t \in Texts
      BY WrittenTexts DEF Written
  <2>2. to \in Texts /\ op \in Texts /\ op \notin {"request", "arpReply", "offer", "ack"}
      BY <2>1
  <2> HIDE DEF to
  <2>3. [p EXCEPT !.to = to, !.sport = 0, !.dport = 0, !.arg = "0"] \in OnAir(site)
    <3>1. "srv" \in Texts /\ "0" \in Texts /\ 0 \in Nat
        BY <2>1
    <3>2. QED
        BY <1>1, <2>2, <3>1, MachinePacket, ZenonT(30)
  <2>4. /\ p.sport = 0 /\ p.dport = 0 /\ p.arg = "0"
        /\ DOMAIN p = {"op", "from", "to", "src", "dst", "sport", "dport", "arg", "client", "relay", "server"}
      BY DEF FromMachine, Packet
  <2>5. [p EXCEPT !.to = to] = [p EXCEPT !.to = to, !.sport = 0, !.dport = 0, !.arg = "0"]
      BY <2>4
  <2>6. QED
      BY <2>3, <2>5 DEF to
<1> HIDE DEF P
<1>4. air \cup {P(op)} \in SUBSET OnAir(site)
    BY <1>1, <1>3
<1>5. QED
    BY <1>2, <1>4, NetworkStep

(* The DHCP server answers another client.                                   *)
LEMMA OtherStep ==
  ASSUME IInv, OtherClient
  PROVE  IInv'
<1>1. site \in Sites /\ air \in SUBSET OnAir(site)
    BY InvSound
<1>2. PICK op \in {"offer", "ack"} : air' = air \cup {DhcpAnswer(op, "other", "ip2")} /\ UNCHANGED <<h, site>>
    BY DEF OtherClient
<1>3. "other" \in Texts /\ "ip2" \in Texts
    BY WrittenTexts DEF Written
<1>4. DhcpAnswer(op, "other", "ip2") \in OnAir(site)
    BY <1>1, <1>3, DhcpPacket
<1>5. air \cup {DhcpAnswer(op, "other", "ip2")} \in SUBSET OnAir(site)
    BY <1>1, <1>4
<1>6. QED
    BY <1>2, <1>5, NetworkStep

(* Every step keeps the invariant.                                           *)
LEMMA NextInv ==
  ASSUME IInv, [Next]_vars
  PROVE  IInv'
<1>1. CASE Lose
  <2>1. PICK pkt \in air : air' = air \ {pkt} /\ UNCHANGED <<h, site>>
      BY <1>1 DEF Lose
  <2>2. air \ {pkt} \in SUBSET OnAir(site)
      BY InvSound
  <2>3. QED
      BY <2>1, <2>2, NetworkStep
<1>2. CASE UNCHANGED vars
  <2>1. air' = air /\ UNCHANGED <<h, site>> /\ air \in SUBSET OnAir(site)
      BY <1>2, InvSound DEF vars
  <2>2. QED
      BY <2>1, NetworkStep
<1>3. QED
    BY <1>1, <1>2, TransmitStep, ReceiveStep, FreedJobStep, JobsStep, TickStep, ConsoleStep, MachineStep, PeerStep, OtherStep DEF Next

(* The invariant holds when IPInit has run.                                  *)
LEMMA InitInv ==
  ASSUME Init
  PROVE  IInv
<1> DEFINE x == NewHost
<1>1. h = Discover(x) /\ air = {} /\ site \in Sites
    BY DEF Init
<1>2. \A t \in {"ip0", "0", "ff", "none"} : t \in Texts
    BY WrittenTexts DEF Written
<1>3. /\ DOMAIN x = Fields /\ x.free = FRAME_COUNT /\ x.sending = <<>>
      /\ x.own = [ip |-> "ip0", gateway |-> "0", gatewayMac |-> "ff", dns |-> "0", request |-> "none", retry |-> 0]
      /\ x.cache = [i \in 0..CacheSize - 1 |-> [ip |-> "0", mac |-> "0"]] /\ x.index = 0
      /\ x.sockets = [i \in {} |-> {}] /\ x.jobs = <<>> /\ x.port = 1 /\ x.gaveUp = FALSE /\ x.broken = FALSE
    BY DEF NewHost, Fields
<1> HIDE DEF x
<1>4. x.own \in OwnTypes
    BY <1>2, <1>3 DEF OwnTypes
<1>5. OwnRight(x.own, site)
    BY <1>3 DEF OwnRight
<1>6. x.cache \in [0 .. CacheSize - 1 -> [ip : Texts, mac : Texts]] /\ x.index \in 0 .. CacheSize - 1
    BY <1>2, <1>3, HostAssumption
<1>7. DOMAIN x.sockets = {}
    BY <1>3
<1>8. SocketsRight(x)
  <2>1. x.sockets \in [DOMAIN x.sockets -> SocketTypes]
      BY <1>3, <1>7
  <2>2. x.jobs \in Seq(Nat) /\ Len(x.jobs) = 0
      BY <1>3
  <2>3. QED
      BY <1>3, <1>7, <2>1, <2>2 DEF SocketsRight
<1>9. Host(x, site)
  <2>1. x.sending \in Seq(Mine) /\ x.free \in Nat
      BY <1>3, HostAssumption
  <2>2. QED
      BY <1>3, <1>4, <1>5, <1>6, <1>8, <2>1 DEF Host
<1>10. OnLists(x) = {}
    BY <1>7, ListsElements
<1>11. IsFiniteSet(OnLists(x)) /\ Frames(x) = FRAME_COUNT
    BY <1>3, <1>10, FS_EmptySet, HostAssumption DEF Frames
<1>12. Sound(x, site)
    BY <1>7, <1>9, <1>11 DEF Sound
<1>13. Sound(Discover(x), site) /\ Frames(Discover(x)) = FRAME_COUNT
    BY <1>11, <1>12, DiscoverCounts
<1>14. QED
    BY <1>1, <1>13 DEF x, IInv, Sound, Counted

-----------------------------------------------------------------------------
(* The theorems *)

(* The invariant holds in every state: what is on the network is what a      *)
(* machine of it may send, the statics of the host have their types, and a   *)
(* job waits for every socket with something to read; the job of a socket    *)
(* that IPTick freed is never taken for that of another (ports are not used  *)
(* again).                                                                   *)
THEOREM HostInvariant == Spec => []IInv
<1>1. Init => IInv
    BY InitInv
<1>2. IInv /\ [Next]_vars => IInv'
    BY NextInv
<1>3. QED
    BY <1>1, <1>2, PTL DEF Spec

(* What DHCP set up is one lease of the network's server as a whole, and     *)
(* packets go out to the gateway's own Ethernet address or to everybody,     *)
(* never to that of a relay or of another server (IPDhcp, IPProcessEthernet- *)
(* Packet).                                                                  *)
THEOREM AddressRight == Spec => []SetupRight
<1>1. IInv => SetupRight
    BY DEF IInv, Host, OwnRight, SetupRight, Gateway, GatewayOf
<1>2. QED
    BY <1>1, HostInvariant, PTL

(* Frames go missing only where IPTick frees a socket that a job still waits *)
(* for: as long as the socket of every job is there, free, queued and unread *)
(* ones are FRAME_COUNT, however packets come, are lost, come twice, and      *)
(* sockets time out, closed ones with datagrams on their lists included      *)
(* (IPFrameGet, FrameFree, IPMainThread, IPTick).                            *)
THEOREM NoFrameLost == Spec => []FramesKept
<1>1. IInv => FramesKept
    BY DEF IInv, Host, Counted, Frames, FramesKept
<1>2. QED
    BY <1>1, HostInvariant, PTL

=============================================================================
