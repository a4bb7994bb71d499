CONSTANTS
    Threads <- MCThreads
    Idle = "idle"
    Sems <- MCSems
    None = None
    TimeMod = 5
    Mutexes = {"m","n"}
    Queues = {"q","job"}
    Timers = {"x", "y"}
    Heaps = {"heap","alt"}
    SystemHeap = "heap"
    Alternate <- MCAlternate
    HeapUnits <- MCHeapUnits
    BlockUnits <- MCBlocks
    Capacity = 2
    TimerQueue = "q"
    TimerThread = "timerThread"
    JobThread = "jobThread"
    Workloads <- AllWork
SPECIFICATION FairSpec
INVARIANT ListsSound
INVARIANT NobodyOverdue
INVARIANT OwnersExclude
INVARIANT QueueIsFifo
INVARIANT MemorySound
PROPERTY TimersFire
