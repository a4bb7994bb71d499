----------------------------- MODULE MCDrivers -----------------------------
(* Small sessions for Drivers. Bytes have four values. *)
EXTENDS Drivers

PingOut == <<1, 2>>
Datagram == <<2>>
AllSessions ==
    { [line |-> Encode(PingOut) \o <<2>>, chars |-> <<1>>, sends |-> <<Datagram>>, losses |-> 0],
      [line |-> Encode(PingOut) \o Encode(Datagram), chars |-> <<>>, sends |-> <<>>, losses |-> 1],
      [line |-> <<1, 2>>, chars |-> <<0, 1>>, sends |-> <<Datagram>>, losses |-> 0] }

AllTraffic == { [first |-> 1, sends |-> 0], [first |-> 4, sends |-> 1] }
=============================================================================
