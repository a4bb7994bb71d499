---------------------------- MODULE MCTcpSession ----------------------------
(* Small workloads for TcpSession. *)
EXTENDS TcpSession

Serve(start, packets) ==
    [first |-> start, closes |-> FALSE, listen |-> TRUE, items |-> 2, joined |-> TRUE,
     writes |-> 0, sends |-> packets, resets |-> 0]
Answer(units, rst) ==
    [first |-> 5, closes |-> TRUE, listen |-> TRUE, items |-> 0, joined |-> FALSE,
     writes |-> units, sends |-> 1, resets |-> rst]
Fetch ==
    [first |-> 5, closes |-> TRUE, listen |-> FALSE, items |-> 1, joined |-> TRUE,
     writes |-> 1, sends |-> 2, resets |-> 0]

\* The sequence numbers of the last one wrap around within its data.
AllWorkloads ==
    {Serve(5, 4), Answer(1, 1), Answer(2, 0), Fetch, Serve(SEQ - 2, 3)}
=============================================================================
