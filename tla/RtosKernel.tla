----------------------------- MODULE RtosKernel -----------------------------
(***************************************************************************)
(* The scheduler and the semaphores of the Plasma kernel                   *)
(* (trunk/kernel/rtos.c) on one CPU, as operators on the record            *)
(*                                                                         *)
(*   ready     ThreadHead: the threads that are ready, without the running *)
(*   cur       ThreadCurrent[0]                                            *)
(*   state     THREAD_PEND, _READY, _RUNNING, or "none": does not exist    *)
(*   prio      priority                                                    *)
(*   sem       count and threadHead of every semaphore                     *)
(*   wait      semaphorePending                                            *)
(*   rc        what the last OS_SemaphorePend of the thread returned       *)
(*   timeouts  TimeoutHead, due: ticksTimeout, now: ThreadTime             *)
(*   inside    InterruptInside[0], need: ThreadNeedReschedule[0]           *)
(*                                                                         *)
(* Every operator is what a function does between disabling the interrupts *)
(* and enabling them.  A thread that a swap leaves behind goes on, when it *)
(* is swapped in, with what follows the operator.                          *)
(***************************************************************************)
EXTENDS Integers, Sequences, SequencesExt, FiniteSets

CONSTANTS
    Threads,   \* thread control blocks, Idle among them
    Idle,      \* OS_IdleThread
    Sems,      \* semaphores
    None,      \* NULL
    TimeMod    \* ThreadTime counts modulo TimeMod (2^32 in the code)

ASSUME KernelAssumption ==
    /\ Idle \in Threads /\ IsFiniteSet(Threads)
    /\ None \notin Threads \union Sems
    /\ TimeMod \in Nat /\ TimeMod > 1

WaitForever == -1
Tick == 0 .. TimeMod - 1

\* int diff = a - b of two uint32: the difference as a signed number.
Diff(a, b) ==
    LET d == (a - b) % TimeMod
    IN IF 2 * d >= TimeMod THEN d - TimeMod ELSE d

\* Mutant: the counter does not wrap around.
Later_wide(a, ticks) == a + ticks

Later(a, ticks) == (a + ticks) % TimeMod

-----------------------------------------------------------------------------
(* Lists of threads *)

\* The number of leading elements of q that pass the test: the loops that
\* look for a place in a list stop at the first element that does not.
Leading(q, Test(_)) == Cardinality({i \in 1 .. Len(q) : \A j \in 1 .. i : Test(q[j])})

PriorityInsert(q, t, prio) ==
    InsertAt(q, Leading(q, LAMBDA u : prio[u] >= prio[t]) + 1, t)

\* Mutant: the ticks are compared as they are, not by their difference.
TimeoutInsert_unsigned(q, t, due) ==
    InsertAt(q, Leading(q, LAMBDA u : due[t] > due[u]) + 1, t)

TimeoutInsert(q, t, due) ==
    InsertAt(q, Leading(q, LAMBDA u : Diff(due[t], due[u]) > 0) + 1, t)

\* t is taken off the list, if it is on it.
Unlink(q, t) == IF t \in ToSet(q) THEN RemoveAt(q, CHOOSE i \in DOMAIN q : q[i] = t) ELSE q

MakeReady(o, t) ==
    [o EXCEPT !.ready = PriorityInsert(@, t, o.prio), !.state[t] = "ready"]

-----------------------------------------------------------------------------
(* Scheduling *)

SwapIn(o, t) ==
    [o EXCEPT !.ready = Unlink(@, t), !.state[t] = "running", !.cur = t]

Reschedule(o, roundRobin) ==
    LET next  == Head(o.ready)
        beats == \/ o.state[o.cur] = "pend"
                 \/ o.prio[o.cur] < o.prio[next]
                 \/ roundRobin /\ o.prio[o.cur] = o.prio[next]
        clear == [o EXCEPT !.need = {}]
    IN CASE o.inside -> [o EXCEPT !.need = @ \union IF roundRobin THEN {"swap", "robin"} ELSE {"swap"}]
         [] ~o.inside /\ (o.ready = <<>> \/ ~beats) -> clear
         [] OTHER -> SwapIn(IF o.state[o.cur] = "running" THEN MakeReady(clear, o.cur) ELSE clear, next)

\* Mutant: the thread stays where it is on the list.
PrioritySet_inPlace(o, t, p) == Reschedule([o EXCEPT !.prio[t] = p], FALSE)

PrioritySet(o, t, p) ==
    LET set == [o EXCEPT !.prio[t] = p]
    IN IF o.state[t] = "ready"
       THEN Reschedule(MakeReady([set EXCEPT !.ready = Unlink(@, t)], t), FALSE)
       ELSE set

\* The end of OS_ThreadCreate and of OS_ThreadExit.
StartThread(o, t, p) ==
    Reschedule(MakeReady([o EXCEPT !.prio[t] = p, !.wait[t] = None, !.rc[t] = 0], t), FALSE)

StopThread(o) == Reschedule([o EXCEPT !.state[o.cur] = "pend"], FALSE)

-----------------------------------------------------------------------------
(* Semaphores *)

\* The running thread goes to sleep on s.
WaitOn(o, s, ticks) ==
    LET t   == o.cur
        due == [o.due EXCEPT ![t] = Later(o.now, ticks)]
    IN [o EXCEPT !.sem[s].count = @ - 1,
                 !.sem[s].queue = PriorityInsert(@, t, o.prio),
                 !.wait[t]  = s,
                 !.state[t] = "pend",
                 !.due      = due,
                 !.timeouts = IF ticks = WaitForever THEN @ ELSE TimeoutInsert(@, t, due)]

Pend(o, s, ticks) ==
    CASE o.sem[s].count > 0 -> [o EXCEPT !.sem[s].count = @ - 1, !.rc[o.cur] = 0]
      [] o.sem[s].count <= 0 /\ ticks = 0 -> [o EXCEPT !.rc[o.cur] = -1]
      [] OTHER -> Reschedule(WaitOn(o, s, ticks), FALSE)

\* t leaves the semaphore it waits for with result rc.
\* Mutant: the thread stays on the list of timeouts.
Wake_stillTimed(o, t, rc) ==
    MakeReady([o EXCEPT !.sem[o.wait[t]].queue = Unlink(@, t),
                        !.wait[t] = None,
                        !.rc[t]   = rc], t)

Wake(o, t, rc) ==
    MakeReady([o EXCEPT !.timeouts = Unlink(@, t),
                        !.sem[o.wait[t]].queue = Unlink(@, t),
                        !.wait[t] = None,
                        !.rc[t]   = rc], t)

Post(o, s) ==
    LET up == [o EXCEPT !.sem[s].count = @ + 1]
    IN IF up.sem[s].count <= 0
       THEN Reschedule(Wake(up, Head(o.sem[s].queue), 0), FALSE)
       ELSE up

-----------------------------------------------------------------------------
(* The tick interrupt.  The loop of OS_ThreadTick is one Expire after      *)
(* another: nothing else runs before the interrupt is over.                *)

Overdue(o) == o.timeouts # <<>> /\ Diff(o.now, o.due[Head(o.timeouts)]) >= 0

\* Mutant: the place of the thread in the count is not given back.
Expire_uncounted(o) == Wake(o, Head(o.timeouts), -1)

Expire(o) ==
    LET t == Head(o.timeouts)
    IN Wake([o EXCEPT !.sem[o.wait[t]].count = @ + 1], t, -1)

LeaveIsr(o) ==
    LET out == [o EXCEPT !.inside = FALSE]
    IN IF o.need = {} THEN out ELSE Reschedule(out, "robin" \in o.need)
=============================================================================
