------------------------------- MODULE MCRtos -------------------------------
(* Workloads for the runs of Rtos. *)
EXTENDS Rtos

MCThreads   == {"a", "b", "c", "idle", "timerThread", "jobThread"}
MCSems      == {"sleep", "release", "lock", "timer", "heap", "alt", "s", "m", "n", "q", "job"}
MCAlternate == [h \in Heaps |-> IF h = "heap" THEN "alt" ELSE None]
MCHeapUnits == [h \in Heaps |-> IF h = "heap" THEN 9 ELSE 4]
MCBlocks    == [thread |-> 2, timer |-> 1]

Counts == [s \in MCSems |-> IF s \in {"release", "lock", "heap", "alt", "m", "n"} THEN 1 ELSE 0]
Prios  == [x \in MCThreads |-> CASE x = "idle" -> 0 [] x = "a" -> 1 [] x = "b" -> 2 [] x = "c" -> 2
                                 [] x = "jobThread" -> 2 [] x = "timerThread" -> 4]
Spread == [Prios EXCEPT !["c"] = 3]

\* The thread of the highest priority runs first.
Order(start, prio) == SetToSortSeq(start \union {"idle"}, LAMBDA x, y : prio[x] > prio[y])
Work(start, exits, prio, calls, times, devices) ==
    [first |-> Head(Order(start, prio)), ready |-> Tail(Order(start, prio)),
     now |-> TimeMod - 2, exits |-> exits, prio |-> prio, count |-> Counts, irqs |-> devices,
     calls |-> [x \in MCThreads |-> IF x \in DOMAIN calls THEN calls[x] ELSE {}],
     left  |-> [x \in MCThreads |-> IF x \in DOMAIN times THEN times[x] ELSE 0]]

Get(n)   == [op |-> "get", q |-> "q", ticks |-> n]
Put(v)   == [op |-> "send", q |-> "q", v |-> v]
Lock(m)   == [op |-> "lock", m |-> m]
Unlock(m) == [op |-> "unlock", m |-> m]
Prio(x, p) == [op |-> "prio", x |-> x, p |-> p]

Semaphores == Work({"a", "b", "c"}, {}, Prios,
    [a |-> {PostOp("s"), PendOp("s", 1)}, b |-> {PendOp("s", 2), [op |-> "sleep", ticks |-> 1]},
     c |-> {PendOp("s", 0), PendOp("s", WaitForever), Prio("a", 3)}],
    [a |-> 2, b |-> 2, c |-> 2], [s |-> 1, tick |-> 1])

Mutual == Work({"a", "b", "c"}, {}, Spread,
    [a |-> {Lock("m"), Unlock("m"), Lock("n"), Unlock("n")}, b |-> {Lock("m"), Unlock("m"), [op |-> "sleep", ticks |-> 1]},
     c |-> {Lock("m"), Unlock("m"), [op |-> "sleep", ticks |-> 1]}],
    [a |-> 4, b |-> 3, c |-> 2], [tick |-> 1])

Messages == Work({"a", "b", "c"}, {}, Prios,
    [a |-> {Put(1), Put(2)}, b |-> {Get(1), Get(WaitForever)}, c |-> {Get(2), Put(3)}],
    [a |-> 3, b |-> 2, c |-> 2], [tick |-> 2])

Lives == Work({"a", "b"}, {"a", "b", "c"}, [Prios EXCEPT !["a"] = 2],
    [a |-> {[op |-> "create", x |-> "c"]}, b |-> {[op |-> "sleep", ticks |-> 1]}],
    [a |-> 2, b |-> 1, c |-> 0], [tick |-> 3])

Blocks == Work({"a", "b"}, {}, Spread,
    [a |-> {[op |-> "malloc", n |-> 1], [op |-> "malloc", n |-> 2], [op |-> "free"]},
     b |-> {[op |-> "malloc", n |-> 2], [op |-> "malloc", n |-> 3], [op |-> "free"]}],
    [a |-> 3, b |-> 2], [tick |-> 2])

Start(x, n, r) == [op |-> "start", x |-> x, ticks |-> n, restart |-> r]

Alarm == Work({"a", "b"}, {}, Prios,
    [a |-> {[op |-> "timer", x |-> "x"], [op |-> "timer", x |-> "y"], Start("x", 2, 0),
            Start("y", 1, 1), [op |-> "stop", x |-> "y"], [op |-> "delete", x |-> "x"]},
     b |-> {Get(2)}],
    [a |-> 5, b |-> 1], [tick |-> 1])

Deletion == Work({"a", "b", "c"}, {}, Prios,
    [a |-> {[op |-> "drain", s |-> "s"]}, b |-> {PendOp("s", 2)}, c |-> {PendOp("s", WaitForever)}],
    [a |-> 1, b |-> 1, c |-> 1], [tick |-> 3])

Jobs == Work({"a", "b"}, {}, Prios,
    [a |-> {[op |-> "job", v |-> 1]}, b |-> {[op |-> "job", v |-> 2]}],
    [a |-> 2, b |-> 1], [tick |-> 2])

AllWork == {Semaphores, Mutual, Messages, Lives, Blocks, Alarm, Deletion, Jobs}
=============================================================================
