-------------------------------- MODULE Rtos --------------------------------
(***************************************************************************)
(* The Plasma kernel (trunk/kernel/rtos.c, OS_CPU_COUNT = 1) under threads *)
(* that call it: semaphores, mutexes, message queues, jobs, timers, the    *)
(* heap, the life of threads, and the interrupts that preempt all of them. *)
(*                                                                         *)
(* A thread is the list todo[t] of what is left of the call it is in; an   *)
(* entry is what the code does without enabling the interrupts.  Only the  *)
(* running thread takes steps, and an interrupt may come between any two   *)
(* of them, except before an entry of Masked: the code goes on to those in *)
(* the critical section it was swapped out of.                             *)
(***************************************************************************)
EXTENDS RtosKernel, RtosHeap

CONSTANTS
    Mutexes, Queues, Timers, Heaps,  \* every one of the first two and the last is a semaphore too
    SystemHeap, Alternate,           \* HEAP_SYSTEM, and heap->alternate of every heap
    HeapUnits, BlockUnits,           \* sizes of the heaps, and of a thread, a timer, a user's block
    Capacity,                        \* mQueue->count
    TimerQueue,                      \* timer->mqueue
    TimerThread, JobThread,          \* the threads of OS_TimerCreate and of OS_Job
    Workloads                        \* what the threads of a run do

ASSUME RtosAssumption ==
    /\ {"sleep", "release", "lock", "timer"} \union Mutexes \union Queues \union Heaps \subseteq Sems
    /\ {TimerThread, JobThread} \subseteq Threads \ {Idle} /\ {"job", TimerQueue} \subseteq Queues
    /\ SystemHeap \in Heaps /\ Alternate \in [Heaps -> Heaps \union {None}] /\ None \notin Heaps \union Timers
    /\ Capacity \in Nat \ {0}
    /\ "tick" \notin Sems   \* the interrupt of the timer posts no semaphore itself

\* What the callers of the kernel keep to: a semaphore of a mutex or of a queue is
\* only used through it, and priorities, ticks and names are what they should be.
LegalCall(c) ==
    /\ c.op \in {"get", "send", "job", "sleep", "create", "malloc", "free", "start", "stop", "delete", "timer",
                 "pend", "post", "drain", "prio", "lock", "unlock"}
    /\ c.op \in {"pend", "post", "drain"} => c.s \in Sems \ (Mutexes \union Queues)
    /\ c.op \in {"get", "send"} => c.q \in Queues
    /\ c.op \in {"get", "sleep", "pend", "start"} => c.ticks \in Int
    /\ c.op = "start" => c.restart \in Int
    /\ c.op \in {"start", "stop", "delete", "timer"} => c.x \in Timers
    /\ c.op \in {"create", "prio"} => c.x \in Threads
    /\ c.op = "prio" => c.p \in Nat
    /\ c.op \in {"lock", "unlock"} => c.m \in Mutexes

\* ready and first: the threads that are ready when the system starts
Started(w) == (ToSet(w.ready) \union {w.first}) \ {Idle}

ASSUME WorkloadAssumption ==
    /\ Mutexes \intersect Queues = {}
    /\ (Mutexes \union Queues) \intersect ({"sleep", "release", "lock", "timer"} \union Heaps) = {}
    /\ \A w \in Workloads :
          /\ w.ready \in Seq(Threads) /\ IsInjective(w.ready) /\ w.first \in Threads \ ToSet(w.ready)
          /\ Idle \in ToSet(w.ready)
          /\ w.prio \in [Threads -> Nat] /\ w.now \in Tick
          /\ \A i, j \in DOMAIN w.ready : i < j => w.prio[w.ready[i]] >= w.prio[w.ready[j]]
          /\ w.count \in [Sems -> Nat] /\ \A m \in Mutexes : w.count[m] = 1
          /\ \A q \in Queues : w.count[q] = 0
          /\ DOMAIN w.irqs \subseteq {"tick"} \union (Sems \ (Mutexes \union Queues))
          /\ \A t \in Threads : \A c \in w.calls[t] : LegalCall(c)

\* What a call may ask to wait: an int of ticks, or WaitForever; no other
\* negative number has a meaning.
WaitTicks == {WaitForever} \union {n \in 0 .. TimeMod - 1 : 2 * n < TimeMod}

ASSUME WaitAssumption ==
    \A w \in Workloads, t \in Threads :
       \A c \in w.calls[t] : c.op \in {"get", "sleep", "pend"} => c.ticks \in WaitTicks

VARIABLES
    work,      \* the workload: calls, priority, starting threads, interrupts of devices
    os,        \* see RtosKernel
    irq,       \* bits of the interrupt that are not handled yet
    irqs,      \* device interrupts still to come, for each semaphore they post
    todo, left,     \* entries each thread has to do, calls it may still make
    mutex,          \* owner, count and priorityRestore
    mq, sent, got,  \* ring buffers; what was accepted and what was received
    timers, timerList,       \* OS_Timer_t, TimerHead
    loc,                     \* locals of OS_TimerThread, and whether SemaphoreTimer was made
    jobQueue,                \* whether OS_Job has its queue
    heap, block, held, ptr,  \* heaps, memory of threads, blocks of threads, last result of malloc
    needToFree

\* NULL of any heap is address 0.
NULL      == [heap |-> SystemHeap, addr |-> 0]
IsNull(b) == b.addr = 0

sync   == <<mutex, mq, sent, got>>
time   == <<timers, timerList, loc, jobQueue>>
memory == <<heap, block, held, ptr, needToFree>>
load   == <<work, left, irq, irqs>>
vars   == <<os, todo, sync, time, memory, load>>

-----------------------------------------------------------------------------
(* What the calls consist of *)

PendOp(s, ticks) == [op |-> "pend", s |-> s, ticks |-> ticks]
PostOp(s)        == [op |-> "post", s |-> s]
Locked(s, ops)   == <<PendOp(s, WaitForever)>> \o ops \o <<PostOp(s)>>

MallocOps(h, n)  == <<PendOp(h, WaitForever), [op |-> "carve", h |-> h, n |-> n]>>
FreeOps(b)       == Locked(b.heap, <<[op |-> "release", b |-> b]>>)
FreeThreadOps    == Locked("release", <<[op |-> "testFree"], [op |-> "clearFree"]>>)
CreateOps(x)     == FreeThreadOps \o MallocOps(SystemHeap, BlockUnits.thread)
                                  \o <<[op |-> "spawn", x |-> x]>>
ExitOps          == FreeThreadOps \o <<[op |-> "die"]>>

GetOps(q, ticks) == <<PendOp(q, ticks), [op |-> "take", q |-> q]>>
SendOps(q, v)    == <<[op |-> "put", q |-> q, v |-> v]>>
JobOps(f)        == <<[op |-> "needQueue"]>> \o SendOps("job", f)

StopOps(x)       == Locked("lock", <<[op |-> "disarm", x |-> x]>>)
StartOps(x, n, r) == <<[op |-> "aim", x |-> x, ticks |-> n, restart |-> r]>>
TimerOps(x)      == Locked("lock", <<[op |-> "needThread"]>>)
                    \o MallocOps(SystemHeap, BlockUnits.timer) \o <<[op |-> "newTimer", x |-> x]>>

ScanOps          == Locked("lock", <<[op |-> "pick"]>>) \o <<[op |-> "fire"]>>
TimerLoop        == Locked("lock", <<[op |-> "howLong"]>>)
                    \o <<[op |-> "nap"], [op |-> "stamp"]>> \o ScanOps
JobLoop          == GetOps("job", WaitForever)

CallOps(t, c) ==
    CASE c.op = "get"    -> GetOps(c.q, c.ticks)
      [] c.op = "send"   -> SendOps(c.q, c.v)
      [] c.op = "job"    -> JobOps(c.v)
      [] c.op = "sleep"  -> <<PendOp("sleep", c.ticks)>>
      [] c.op = "create" -> CreateOps(c.x)
      [] c.op = "malloc" -> MallocOps(SystemHeap, c.n) \o <<[op |-> "keep"]>>
      [] c.op = "free"   -> <<[op |-> "giveBack"]>>
      [] c.op = "start"  -> StartOps(c.x, c.ticks, c.restart)
      [] c.op = "stop"   -> StopOps(c.x)
      [] c.op = "delete" -> StopOps(c.x) \o FreeOps(timers[c.x].mem)
      [] c.op = "timer"  -> TimerOps(c.x)
      [] OTHER           -> <<c>>

\* Calls whose caller must be in a state that the API asks for.
Allowed(t, c) ==
    CASE c.op = "unlock" -> mutex[c.m].owner = t
      [] c.op = "create" -> os.state[c.x] = "none"
      [] c.op = "free"   -> held[t] # {}
      [] c.op \in {"start", "stop", "delete"} -> timers[c.x].mem # NULL
      [] c.op = "timer" -> timers[c.x].mem = NULL
      [] c.op = "drain"  -> \A x \in Started(work) \ {t} : left[x] = 0
      [] OTHER -> TRUE

-----------------------------------------------------------------------------
Running(t) == os.cur = t /\ ~os.inside
Doing(t, op) == Running(t) /\ todo[t] # <<>> /\ Head(todo[t]).op = op
Now(t) == Head(todo[t])

\* The entry is done; new ones go in front of the rest.
Done(t)      == todo' = [todo EXCEPT ![t] = Tail(@)]
Then(t, ops) == todo' = [todo EXCEPT ![t] = ops \o Tail(@)]

Masked == {"acquire", "owned", "restore"}

\* The body of a thread: calls in any order and then the return into
\* OS_ThreadExit, or a sleep for good.
Call(t) ==
    /\ Running(t) /\ todo[t] = <<>> /\ t \notin {Idle, TimerThread, JobThread}
    /\ IF left[t] = 0 \/ \A c \in work.calls[t] : ~Allowed(t, c)
       THEN /\ todo' = [todo EXCEPT ![t] = IF t \in work.exits THEN ExitOps
                                         ELSE <<PendOp("sleep", WaitForever)>>]
            /\ UNCHANGED left
       ELSE \E c \in work.calls[t] :
                /\ Allowed(t, c)
                /\ todo' = [todo EXCEPT ![t] = CallOps(t, c)]
                /\ left' = [left EXCEPT ![t] = @ - 1]
    /\ UNCHANGED <<os, sync, time, memory, work, irq, irqs>>

Loop(t) ==
    /\ Running(t) /\ todo[t] = <<>> /\ t \in {TimerThread, JobThread}
    /\ todo' = [todo EXCEPT ![t] = IF t = TimerThread THEN TimerLoop ELSE JobLoop]
    /\ UNCHANGED <<os, sync, time, memory, load>>

-----------------------------------------------------------------------------
(* Semaphores and priorities *)

SemaphorePend(t) ==
    /\ Doing(t, "pend")
    /\ os' = Pend(os, Now(t).s, Now(t).ticks)
    /\ Done(t)
    /\ UNCHANGED <<sync, time, memory, load>>

SemaphorePost(t) ==
    /\ Doing(t, "post")
    /\ os' = Post(os, Now(t).s)
    /\ Done(t)
    /\ UNCHANGED <<sync, time, memory, load>>

\* OS_SemaphoreDelete: as long as threads wait, it posts.
SemaphoreDelete(t) ==
    /\ Doing(t, "drain")
    /\ IF os.sem[Now(t).s].queue = <<>> THEN Done(t)
       ELSE Then(t, <<PostOp(Now(t).s), Now(t)>>)
    /\ UNCHANGED <<os, sync, time, memory, load>>

ThreadPrioritySet(t) ==
    /\ Doing(t, "prio")
    /\ os' = PrioritySet(os, Now(t).x, Now(t).p)
    /\ Done(t)
    /\ UNCHANGED <<sync, time, memory, load>>

-----------------------------------------------------------------------------
(* Mutexes *)

\* The owner's priority is raised to the caller's.
Inherit(o, t, m) ==
    LET owner == mutex[m].owner
    IN IF owner # None /\ o.prio[owner] < o.prio[t] THEN PrioritySet(o, owner, o.prio[t]) ELSE o

MutexPend(t) ==
    /\ Doing(t, "lock")
    /\ LET m == Now(t).m
       IN IF mutex[m].owner = t
          THEN /\ mutex' = [mutex EXCEPT ![m].count = @ + 1]
               /\ Done(t) /\ UNCHANGED os
          ELSE /\ os' = Inherit(os, t, m)
               /\ Then(t, <<[op |-> "acquire", m |-> m]>>)
               /\ UNCHANGED mutex
    /\ UNCHANGED <<mq, sent, got, time, memory, load>>

MutexAcquire(t) ==
    /\ Doing(t, "acquire")
    /\ os' = Pend(os, Now(t).m, WaitForever)
    /\ Then(t, <<[op |-> "owned", m |-> Now(t).m]>>)
    /\ UNCHANGED <<sync, time, memory, load>>

MutexOwned(t) ==
    /\ Doing(t, "owned")
    /\ mutex' = [mutex EXCEPT ![Now(t).m] = [owner |-> t, count |-> 1, restore |-> os.prio[t]]]
    /\ Done(t)
    /\ UNCHANGED <<os, mq, sent, got, time, memory, load>>

\* Mutant: the mutex is free after the first unlock of a nested lock.
MutexPost_nested(t) ==
    /\ Doing(t, "unlock")
    /\ LET m == Now(t).m
       IN /\ mutex' = [mutex EXCEPT ![m].count = @ - 1]
          /\ os' = Post(os, m)
          /\ Done(t)
    /\ UNCHANGED <<mq, sent, got, time, memory, load>>

MutexPost(t) ==
    /\ Doing(t, "unlock")
    /\ LET m == Now(t).m
       IN IF mutex[m].count > 1
          THEN /\ mutex' = [mutex EXCEPT ![m].count = @ - 1]
               /\ Done(t) /\ UNCHANGED os
          ELSE /\ mutex' = [mutex EXCEPT ![m].count = 0, ![m].owner = None]
               /\ os' = Post(os, m)
               /\ Then(t, <<[op |-> "restore", p |-> mutex[m].restore]>>)
    /\ UNCHANGED <<mq, sent, got, time, memory, load>>

MutexRestore(t) ==
    /\ Doing(t, "restore")
    /\ os' = IF Now(t).p < os.prio[t] THEN PrioritySet(os, t, Now(t).p) ELSE os
    /\ Done(t)
    /\ UNCHANGED <<sync, time, memory, load>>

-----------------------------------------------------------------------------
(* Message queues and jobs *)

Wrap(i) == IF i + 1 >= Capacity THEN 0 ELSE i + 1

\* Mutant: one message too many is accepted.
MQueueSend_overfull(t) ==
    /\ Doing(t, "put")
    /\ LET q == Now(t).q
           v == Now(t).v
       IN IF mq[q].used > Capacity
          THEN Done(t) /\ UNCHANGED <<mq, sent>>
          ELSE /\ mq' = [mq EXCEPT ![q].used = @ + 1, ![q].ring[mq[q].write] = v, ![q].write = Wrap(@)]
               /\ sent' = [sent EXCEPT ![q] = Append(@, v)]
               /\ Then(t, <<PostOp(q)>>)
    /\ UNCHANGED <<os, mutex, got, time, memory, load>>

MQueueSend(t) ==
    /\ Doing(t, "put")
    /\ LET q == Now(t).q
           v == Now(t).v
       IN IF mq[q].used + 1 > Capacity
          THEN Done(t) /\ UNCHANGED <<mq, sent>>
          ELSE /\ mq' = [mq EXCEPT ![q].used = @ + 1, ![q].ring[mq[q].write] = v, ![q].write = Wrap(@)]
               /\ sent' = [sent EXCEPT ![q] = Append(@, v)]
               /\ Then(t, <<PostOp(q)>>)
    /\ UNCHANGED <<os, mutex, got, time, memory, load>>

MQueueGet(t) ==
    /\ Doing(t, "take")
    /\ LET q == Now(t).q
       IN IF os.rc[t] = 0
          THEN /\ mq' = [mq EXCEPT ![q].used = @ - 1, ![q].read = Wrap(@)]
               /\ got' = [got EXCEPT ![q] = Append(@, mq[q].ring[mq[q].read])]
          ELSE UNCHANGED <<mq, got>>
    /\ Done(t)
    /\ UNCHANGED <<os, mutex, sent, time, memory, load>>

\* OS_Job makes its queue and its thread on the first call.
NeedJobQueue(t) ==
    /\ Doing(t, "needQueue")
    /\ IF jobQueue THEN Done(t) ELSE Then(t, Locked("lock", <<[op |-> "makeQueue"]>>))
    /\ UNCHANGED <<os, sync, time, memory, load>>

MakeJobQueue(t) ==
    /\ Doing(t, "makeQueue")
    /\ jobQueue' = TRUE
    /\ IF jobQueue THEN Done(t) ELSE Then(t, CreateOps(JobThread))
    /\ UNCHANGED <<os, sync, timers, timerList, loc, memory, load>>

-----------------------------------------------------------------------------
(* Timers *)

TimerDue == [x \in Timers |-> timers[x].due]

TimerArm(x, due, restart) ==
    /\ timers' = [timers EXCEPT ![x].due = due, ![x].restart = restart, ![x].active = TRUE]
    /\ timerList' = TimeoutInsert(timerList, x, [TimerDue EXCEPT ![x] = due])

\* OS_TimerStart up to the lock: the tick is read before it is taken.
TimerAim(t) ==
    /\ Doing(t, "aim")
    /\ LET x == Now(t).x
           stop == IF timers[x].active THEN StopOps(x) ELSE <<>>
       IN Then(t, stop \o <<PendOp("lock", WaitForever),
                            [op |-> "arm", x |-> x, due |-> Later(os.now, Now(t).ticks),
                             restart |-> Now(t).restart]>>)
    /\ UNCHANGED <<os, sync, time, memory, load>>

\* Mutant: the thread of the timers is not told of a new first timer.
TimerStart_silent(t) ==
    /\ Doing(t, "arm")
    /\ LET x == Now(t).x
       IN IF timers[x].active
          THEN Then(t, <<PostOp("lock")>>) /\ UNCHANGED <<timers, timerList>>
          ELSE /\ TimerArm(x, Now(t).due, Now(t).restart)
               /\ Then(t, <<PostOp("lock")>>)
    /\ UNCHANGED <<os, sync, loc, jobQueue, memory, load>>

TimerStart(t) ==
    /\ Doing(t, "arm")
    /\ LET x == Now(t).x
       IN IF timers[x].active
          THEN Then(t, <<PostOp("lock")>>) /\ UNCHANGED <<timers, timerList>>
          ELSE /\ TimerArm(x, Now(t).due, Now(t).restart)
               /\ Then(t, IF Head(timerList') = x THEN <<PostOp("lock"), PostOp("timer")>>
                          ELSE <<PostOp("lock")>>)
    /\ UNCHANGED <<os, sync, loc, jobQueue, memory, load>>

TimerStop(t) ==
    /\ Doing(t, "disarm")
    /\ LET x == Now(t).x
       IN IF timers[x].active
          THEN /\ timers' = [timers EXCEPT ![x].active = FALSE]
               /\ timerList' = Unlink(timerList, x)
          ELSE UNCHANGED <<timers, timerList>>
    /\ Done(t)
    /\ UNCHANGED <<os, sync, loc, jobQueue, memory, load>>

\* OS_TimerCreate: the first one starts the thread of the timers. Whether that
\* has worked nobody looks: there is no second try.
NeedTimerThread(t) ==
    /\ Doing(t, "needThread")
    /\ loc' = [loc EXCEPT !.made = TRUE]
    /\ IF loc.made THEN Done(t) ELSE Then(t, CreateOps(TimerThread))
    /\ UNCHANGED <<os, sync, timers, timerList, jobQueue, memory, load>>

TimerCreate(t) ==
    /\ Doing(t, "newTimer")
    /\ timers' = IF IsNull(ptr[t]) THEN timers
                 ELSE [timers EXCEPT ![Now(t).x] = [mem |-> ptr[t], active |-> FALSE, due |-> 0, restart |-> 0]]
    /\ Done(t)
    /\ UNCHANGED <<os, sync, timerList, loc, jobQueue, memory, load>>

\* OS_TimerThread: how long to sleep, and the sleep.
HowLong(t) ==
    /\ Doing(t, "howLong")
    /\ loc' = [loc EXCEPT !.ticks = IF timerList = <<>> THEN WaitForever
                                    ELSE Diff(timers[Head(timerList)].due, loc.now)]
    /\ Done(t)
    /\ UNCHANGED <<os, sync, timers, timerList, jobQueue, memory, load>>

Nap(t) ==
    /\ Doing(t, "nap")
    /\ Then(t, <<PendOp("timer", loc.ticks)>>)
    /\ UNCHANGED <<os, sync, time, memory, load>>

Stamp(t) ==
    /\ Doing(t, "stamp")
    /\ loc' = [loc EXCEPT !.now = os.now]
    /\ Done(t)
    /\ UNCHANGED <<os, sync, timers, timerList, jobQueue, memory, load>>

TimerPick(t) ==
    /\ Doing(t, "pick")
    /\ LET due == timerList # <<>> /\ Diff(loc.now, timers[Head(timerList)].due) >= 0
       IN loc' = [loc EXCEPT !.timer = IF due THEN Head(timerList) ELSE None]
    /\ Done(t)
    /\ UNCHANGED <<os, sync, timers, timerList, jobQueue, memory, load>>

TimerFire(t) ==
    /\ Doing(t, "fire")
    /\ LET x == loc.timer
       IN IF x = None THEN Done(t)
          ELSE Then(t, (IF timers[x].restart > 0
                        THEN StartOps(x, timers[x].restart, timers[x].restart)
                        ELSE StopOps(x)) \o SendOps(TimerQueue, x) \o ScanOps)
    /\ UNCHANGED <<os, sync, time, memory, load>>

-----------------------------------------------------------------------------
(* The heap and the life of threads *)

HeapMalloc(t) ==
    /\ Doing(t, "carve")
    /\ LET h == Now(t).h
           r == Malloc(heap[h], Now(t).n)
       IN /\ heap' = [heap EXCEPT ![h] = r.heap]
          /\ ptr'  = [ptr EXCEPT ![t] = [heap |-> h, addr |-> r.block]]
          /\ Then(t, <<PostOp(h)>> \o IF r.block = 0 /\ Alternate[h] # None
                                      THEN MallocOps(Alternate[h], Now(t).n) ELSE <<>>)
    /\ UNCHANGED <<os, sync, time, block, held, needToFree, load>>

HeapFree(t) ==
    /\ Doing(t, "release")
    /\ LET b == Now(t).b
       IN /\ heap'  = [heap EXCEPT ![b.heap] = Release(@, b.addr)]
          /\ block' = [x \in Threads |-> IF block[x] = b THEN NULL ELSE block[x]]
          /\ timers' = [x \in Timers |-> IF timers[x].mem = b THEN [timers[x] EXCEPT !.mem = NULL]
                                         ELSE timers[x]]
    /\ Done(t)
    /\ UNCHANGED <<os, sync, timerList, loc, jobQueue, held, ptr, needToFree, load>>

KeepBlock(t) ==
    /\ Doing(t, "keep")
    /\ held' = IF IsNull(ptr[t]) THEN held ELSE [held EXCEPT ![t] = @ \union {ptr[t]}]
    /\ Done(t)
    /\ UNCHANGED <<os, sync, time, heap, block, ptr, needToFree, load>>

GiveBack(t) ==
    /\ Doing(t, "giveBack")
    /\ \E b \in held[t] :
          /\ held' = [held EXCEPT ![t] = @ \ {b}]
          /\ Then(t, FreeOps(b))
    /\ UNCHANGED <<os, sync, time, heap, block, ptr, needToFree, load>>

\* Bound: a control block of Threads is created once.
ThreadCreate(t) ==
    /\ Doing(t, "spawn") /\ os.state[Now(t).x] = "none"
    /\ LET x == Now(t).x
       IN IF IsNull(ptr[t]) THEN UNCHANGED <<os, block>>
          ELSE /\ block' = [block EXCEPT ![x] = ptr[t]]
               /\ os' = StartThread(os, x, work.prio[x])
    /\ Done(t)
    /\ UNCHANGED <<sync, time, heap, held, ptr, needToFree, load>>

TestFree(t) ==
    /\ Doing(t, "testFree")
    /\ Then(t, IF needToFree # None THEN FreeOps(block[needToFree]) ELSE <<>>)
    /\ UNCHANGED <<os, sync, time, memory, load>>

ClearFree(t) ==
    /\ Doing(t, "clearFree")
    /\ needToFree' = None
    /\ Done(t)
    /\ UNCHANGED <<os, sync, time, heap, block, held, ptr, load>>

\* Mutant: a thread that is still running is given to be freed.
ThreadExit_early(t) ==
    /\ Doing(t, "die")
    /\ needToFree' = t
    /\ IF needToFree = t THEN os' = StopThread(os) /\ Done(t)
       ELSE UNCHANGED <<os, todo>>
    /\ UNCHANGED <<sync, time, heap, block, held, ptr, load>>

ThreadExit(t) ==
    /\ Doing(t, "die")
    /\ IF needToFree # None
       THEN Then(t, ExitOps) /\ UNCHANGED <<os, needToFree>>
       ELSE /\ needToFree' = t
            /\ os' = StopThread(os)
            /\ Done(t)
    /\ UNCHANGED <<sync, time, heap, block, held, ptr, load>>

-----------------------------------------------------------------------------
(* Interrupts *)

\* An interrupt between the choice of a call and what came before it is the
\* same as one after the choice.
Interruptible ==
    /\ ~os.inside
    /\ os.cur # Idle => todo[os.cur] # <<>> /\ Head(todo[os.cur]).op \notin Masked

\* The bits are handled one after the other; the last handler returns from the
\* interrupt.  Bound: work.irqs, but for the ticks of an idle processor.
Interrupt ==
    /\ Interruptible
    /\ \E bits \in (SUBSET {s \in DOMAIN irqs : irqs[s] > 0 \/ (s = "tick" /\ os.cur = Idle)}) \ {{}} :
          /\ irq'  = bits
          /\ irqs' = [s \in DOMAIN irqs |-> IF s \in bits /\ irqs[s] > 0 THEN irqs[s] - 1 ELSE irqs[s]]
          /\ os'   = [os EXCEPT !.inside = TRUE, !.now = IF "tick" \in bits THEN Later(@, 1) ELSE @]
    /\ UNCHANGED <<todo, sync, time, memory, work, left>>

Handled(o, bit) ==
    /\ irq' = irq \ {bit}
    /\ os' = IF irq = {bit} THEN LeaveIsr(o) ELSE o
    /\ UNCHANGED <<todo, sync, time, memory, work, left, irqs>>

ThreadTick ==
    /\ os.inside /\ "tick" \in irq
    /\ IF Overdue(os)
       THEN os' = Expire(os) /\ UNCHANGED <<todo, sync, time, memory, load>>
       ELSE Handled(Reschedule(os, TRUE), "tick")

\* The handler of a device posts a semaphore.
DeviceIsr ==
    /\ os.inside
    /\ \E s \in irq \intersect Sems : Handled(Post(os, s), s)

-----------------------------------------------------------------------------
\* OS_Init and OS_Start: the idle thread and the threads of the workload are
\* ready, and the first of them runs; w.now ticks have passed.
\* What the kernel's constructors make.
NewSemaphore(count) == [count |-> count, queue |-> <<>>]
NewMutex == [owner |-> None, count |-> 0, restore |-> 0]
NewQueue == [used |-> 0, read |-> 0, write |-> 0, ring |-> [i \in 0 .. Capacity - 1 |-> None]]

Booted(w) ==
    [ready |-> w.ready, cur |-> w.first, prio |-> w.prio,
     state |-> [x \in Threads |-> IF x = w.first THEN "running"
                                  ELSE IF x \in ToSet(w.ready) THEN "ready" ELSE "none"],
     sem   |-> [s \in Sems |-> NewSemaphore(w.count[s])],
     wait  |-> [x \in Threads |-> None], rc |-> [x \in Threads |-> 0],
     timeouts |-> <<>>, due |-> [x \in Threads |-> 0], now |-> w.now,
     inside |-> FALSE, need |-> {}]

\* The threads of the workload have their memory from the system heap.
BootMemory(w) ==
    LET give(x, m) ==
            LET r == Malloc(m.heap, BlockUnits.thread)
            IN [heap |-> r.heap, addr |-> [m.addr EXCEPT ![x] = r.block]]
    IN FoldSeq(give, [heap |-> NewHeap(HeapUnits[SystemHeap]), addr |-> [x \in Threads |-> 0]],
               SetToSeq(Started(w)))

Init ==
    /\ work \in Workloads
    /\ os = Booted(work)
    /\ irq = {} /\ irqs = work.irqs
    /\ todo = [t \in Threads |-> <<>>] /\ left = work.left
    /\ mutex = [m \in Mutexes |-> NewMutex] /\ mq = [q \in Queues |-> NewQueue]
    /\ sent = [q \in Queues |-> <<>>] /\ got = [q \in Queues |-> <<>>]
    /\ timers = [x \in Timers |-> [mem |-> NULL, active |-> FALSE, due |-> 0, restart |-> 0]]
    /\ timerList = <<>> /\ loc = [now |-> work.now, ticks |-> 0, timer |-> None, made |-> FALSE]
    /\ jobQueue = FALSE
    /\ heap = [h \in Heaps |-> IF h = SystemHeap THEN BootMemory(work).heap ELSE NewHeap(HeapUnits[h])]
    /\ block = [x \in Threads |-> [heap |-> SystemHeap, addr |-> BootMemory(work).addr[x]]]
    /\ held = [x \in Threads |-> {}] /\ ptr = [x \in Threads |-> NULL]
    /\ needToFree = None

ThreadStep(t) ==
    \/ Call(t) \/ Loop(t)
    \/ SemaphorePend(t) \/ SemaphorePost(t) \/ SemaphoreDelete(t) \/ ThreadPrioritySet(t)
    \/ MutexPend(t) \/ MutexAcquire(t) \/ MutexOwned(t) \/ MutexPost(t) \/ MutexRestore(t)
    \/ MQueueSend(t) \/ MQueueGet(t) \/ NeedJobQueue(t) \/ MakeJobQueue(t)
    \/ TimerAim(t) \/ TimerStart(t) \/ TimerStop(t) \/ NeedTimerThread(t) \/ TimerCreate(t)
    \/ HowLong(t) \/ Nap(t) \/ Stamp(t) \/ TimerPick(t) \/ TimerFire(t)
    \/ HeapMalloc(t) \/ HeapFree(t) \/ KeepBlock(t) \/ GiveBack(t)
    \/ ThreadCreate(t) \/ TestFree(t) \/ ClearFree(t) \/ ThreadExit(t)

IsrStep == ThreadTick \/ DeviceIsr

Next == Interrupt \/ IsrStep \/ \E t \in Threads : ThreadStep(t)

Spec == Init /\ [][Next]_vars

\* The tick goes on, an interrupt ends, and a processor that runs takes steps.
FairSpec == /\ Spec
            /\ WF_vars(Interrupt /\ "tick" \in irq')
            /\ WF_vars(IsrStep)
            /\ WF_vars(\E t \in Threads : ThreadStep(t))

-----------------------------------------------------------------------------
(* Properties *)

TypeOK ==
    /\ os.cur \in Threads /\ os.state \in [Threads -> {"none", "pend", "ready", "running"}]
    /\ os.now \in Tick /\ os.due \in [Threads -> Tick] /\ os.wait \in [Threads -> Sems \union {None}]
    /\ os.rc \in [Threads -> {0, -1}] /\ os.ready \in Seq(Threads) /\ os.timeouts \in Seq(Threads)
    /\ os.need \in SUBSET {"swap", "robin"} /\ os.inside \in BOOLEAN
    /\ \A s \in Sems : os.sem[s].count \in Int /\ os.sem[s].queue \in Seq(Threads)
    /\ mutex \in [Mutexes -> [owner : Threads \union {None}, count : Nat, restore : Nat]]
    /\ needToFree \in Threads \union {None} /\ timerList \in Seq(Timers)
    /\ irq \subseteq {"tick"} \union Sems /\ (os.inside <=> irq # {})

Times(q, x) == Cardinality({i \in DOMAIN q : q[i] = x})
B2N(b) == IF b THEN 1 ELSE 0

(* Every thread is on exactly the list that its state names: running, in     *)
(* ThreadHead once, or in the queue of the one semaphore it waits for once;  *)
(* only threads that wait for a semaphore can time out (the links next,      *)
(* prev, nextTimeout, prevTimeout and semaphorePending of OS_Thread_s).      *)
ThreadsOnOneList ==
    \A x \in Threads :
        /\ os.state[x] = "running" <=> os.cur = x
        /\ Times(os.ready, x) = B2N(os.state[x] = "ready")
        /\ \A s \in Sems : Times(os.sem[s].queue, x) = B2N(os.wait[x] = s)
        /\ os.wait[x] # None => os.state[x] = "pend"
        /\ Times(os.timeouts, x) <= B2N(os.wait[x] # None)

(* A negative count is the number of threads that wait, whatever posts,      *)
(* timeouts and interrupts come together (OS_SemaphorePend, OS_SemaphorePost *)
(* and OS_ThreadTick each change the count and the queue).                   *)
CountsWaiters ==
    \A s \in Sems : Len(os.sem[s].queue) = IF os.sem[s].count < 0 THEN -os.sem[s].count ELSE 0

(* ThreadHead is sorted by priority, also when priorities are inherited and  *)
(* restored while threads are on it (OS_ThreadPriorityInsert).               *)
ReadySorted ==
    \A i \in 1 .. Len(os.ready) - 1 : os.prio[os.ready[i]] >= os.prio[os.ready[i + 1]]

(* The lists and counts of the kernel, together.                             *)
ListsSound == TypeOK /\ ThreadsOnOneList /\ CountsWaiters /\ ReadySorted

(* The threads that may time out are sorted by when, and outside of the tick *)
(* none of them is overdue: although the tick counter wraps around, nobody   *)
(* is woken early or kept after its time (OS_ThreadTimeoutInsert, _Tick).    *)
NobodyOverdue ==
    /\ \A i \in 1 .. Len(os.timeouts) - 1 :
          Diff(os.due[os.timeouts[i]], os.now) <= Diff(os.due[os.timeouts[i + 1]], os.now)
    /\ "tick" \notin irq => \A i \in 1 .. Len(os.timeouts) : Diff(os.due[os.timeouts[i]], os.now) > 0

(* A mutex changes hands only through its being free, and is free only when  *)
(* its semaphore is or was handed to a thread that has yet to run: two       *)
(* threads never own it (OS_MutexPend sets the owner after it was woken).    *)
OwnersExclude ==
    \A m \in Mutexes :
        LET heirs == {x \in Threads : /\ os.state[x] \in {"ready", "running"}
                                      /\ [op |-> "owned", m |-> m] \in {todo[x][i] : i \in DOMAIN todo[x]}}
        IN Cardinality(heirs) + B2N(mutex[m].owner # None) + B2N(os.sem[m].count > 0) = 1

(* What was accepted is received once, in order: the ring buffer holds the   *)
(* messages between the accepted and the received ones (OS_MQueueSend        *)
(* counts before it posts, OS_MQueueGet after it has pended).                *)
QueueIsFifo ==
    \A q \in Queues :
        /\ mq[q].used \in 0 .. Capacity
        /\ sent[q] = got[q] \o [i \in 1 .. mq[q].used |-> mq[q].ring[(mq[q].read + i - 1) % Capacity]]

(* The memory of a thread is freed only after the thread has stopped for     *)
(* good, and that of a timer only when it is not on the list and its thread  *)
(* is not about to use it (NeedToFree, OS_TimerDelete).                      *)
NothingFreedInUse ==
    /\ \A x \in Threads \ {Idle} : block[x] = NULL =>
            os.state[x] \in {"none", "pend"} /\ os.wait[x] = None
    /\ \A i \in DOMAIN timerList : timers[timerList[i]].mem # NULL
    /\ \A x \in Timers : timers[x].active <=> x \in ToSet(timerList)

(* The free list of a heap goes once around its free nodes by address, free  *)
(* and used nodes cover the memory without overlap, and neighbours that are  *)
(* both free have been joined (OS_HeapMalloc, OS_HeapFree).                  *)
HeapSound ==
    \A h \in Heaps :
        LET p == heap[h]
            n == Cardinality(Free(p))
        IN /\ {Walk(p)[k] : k \in 1 .. n} = Free(p)
           /\ \A a \in Free(p) : p.next[a] > a \/ p.next[a] = 0
           /\ UNION {Units(p, a) : a \in DOMAIN p.size} = 1 .. HeapUnits[h]
           /\ \A a, b \in DOMAIN p.size : a # b => Units(p, a) \intersect Units(p, b) = {}
           /\ \A a \in Free(p) : a > 0 => a + p.size[a] # p.next[a]

(* The memory of threads, timers and heaps, together.                        *)
MemorySound == NothingFreedInUse /\ HeapSound

(* A timer that is started fires or is stopped: OS_TimerThread never sleeps  *)
(* past the timer at the head of its list, even if that was put there after  *)
(* the thread had looked.                                                    *)
TimersFire == \A x \in Timers : timers[x].active ~> ~timers[x].active \/ x \in ToSet(sent[TimerQueue])
=============================================================================
