# VHDL-RC and the Plasma system: a verification project

The repository holds two programs.  **VHDL-RC** is a SonarQube plugin in Java
that analyses VHDL.  **Plasma** (`src/plasma_demo/trunk`) is the processor
design that comes with it to try the analysis on: a small operating system in C
with a TCP/IP stack, a file system, network services, drivers and libraries,
and a simulator of the processor.  The TLA+ modules beside this file model both
from the source, TLC checks them on small instances, and TLAPS proves the
theorems of `ZamiaProcess` and of the `_proofs` modules for every value of the
constants. `PROJECT.json` says of every definition which lines of the source it
stands for.  Paths below are relative to
`src/sonar-vhdlrc-plugin/src/main/java/com/lintyservices/sonar/` (plugin) and
to `src/plasma_demo/trunk/` (Plasma).

## 1. Inventory

### The plugin

During a scan three sensors run: one drives the Zamia rule checker and imports
its reports, one drives ghdl and yosys and reads the files they leave, one
looks at the sources itself.

| Component | State it keeps | Operations | Modelled in |
|---|---|---|---|
| Rule checker runner, `zamia/ZamiaRunner.runZamia, consume` | the process, the output pipe, a count of lines | start, read up to 15000 lines, wait 300 s, destroy | `ZamiaProcess`, contract `AnalyserCall` |
| Scan session, `VhdlRcSensor`, `ZamiaRunner.run`, `issues/*` | directories of the scanner home, static list `unfoundFiles`, files to delete at exit | generate and copy the configuration, clean, copy sources, run, collect, import, clean | `ScanSession` |
| Yosys-ghdl sensor, `YosysGhdlSensor` | files of the work directory, static flag `ActiveRuleLoader.enableYosys` | elaborate, detect and export state machines, list ports, statistics, parse, report | `YosysSession` |
| Package nesting, `PureJavaSensor.checkVhdlPackage` | the stack `packagesHierarchy`, the level | a recursion over the packages | `PackageNesting` |
| Java rules, `PureJavaSensor.checkJavaRules` | flags of one file's scan | per line, per word, at the end | `LineScanner` |
| Configuration generation, `ActiveRuleLoader`, `SelectedRulesMaker`, `BuildPathMaker` | a DOM document, the selected rules | write the three configuration files | a step of `ScanSession` and `YosysSession` |
| Rule parameters `params/*`, handbook and rule definitions `rules/*`, plugin declaration | parameters, none | read, declare | not modelled |

### Plasma

| Component | State it keeps | Operations | Modelled in |
|---|---|---|---|
| Kernel, `kernel/rtos.c` | list of the ready, the running thread, semaphores with counts and queues, timeouts, mutex owners, message rings, timers | reschedule, pend, post, create, exit, priorities, queues, jobs, timers, the interrupts | `RtosKernel`, `Rtos` |
| Heap, `kernel/rtos.c` | free list, sizes, where the next search starts | malloc, free, alternate heap | `RtosHeap`, `Rtos` |
| File system, `kernel/filesys.c` | tree of entries, blocks, bitmaps of the flash in memory and on it | open, read, write, seek, close, delete, mkdir, clean up, restart | `FileMedia`, `FileSys` |
| Simulator, `tools/mlite.c` | registers, hi/lo, pc, pc_next, skip, memory, cache, devices | one instruction, exceptions, debugger | `MliteMem`, `MliteCpu`; order of instructions `MipsFlow` |
| TCP, `kernel/tcpip.c` | sockets, frames on five lists, sequence numbers, timers | process, send, read, write, close, tick | `Tcpip`, `TcpSession` |
| Host services, `kernel/tcpip.c` | addresses, DHCP state, queue of frames | DHCP, ARP, ping, UDP, DNS, their timers | `IpHost` |
| Services, `kernel/netutil.c`, `kernel/http.c` | transfers, the console's one buffer, command line and history, pages | FTP, TFTP, telnet, HTTP, the console's transfers | `Ftp`, `Tftp`, `Telnet`, `Http`, `NetApps` |
| Drivers, `kernel/uart.c`, `kernel/ethernet.c` | character rings, packet protocol, receive ring of the DMA | interrupts, send, receive | `Uart`, `Ethernet`, `Drivers` |
| Libraries, `kernel/libc.c`, `kernel/math.c` | none | floats, strings, sorting, dates, sums | `PlasmaFloat`, `PlasmaLibc`, `Arith` |
| Boot loader, `tools/bootldr.c`, and `reboot` of `kernel/netutil.c` | RAM, the image in the flash, what was uploaded | numbers, raw access, checksum and dump, upload, copy to the flash, start, reset | `Bootldr` |
| Tests, tables of functions, other build tools, VHDL, the copies under `tags` | | | not modelled |

**How they interact.**  The plugin's sensors do not call each other; they share
what outlives an execution (the scanner home, the work directory, two static
fields, an analyser that was left behind).  In Plasma everything runs in
threads of the kernel: an interrupt of a driver posts a semaphore or sends to a
message queue, the IP thread takes the frame from it, TCP queues a job, the job
thread calls the callback of the socket, and a service answers with calls that
end in the driver again.  Each model sees its neighbours by what they promise:
`Ftp` and `Telnet` use ordered streams, which is what `StreamsInOrder` says of
`Tcpip`; `Tcpip` and `IpHost` use one job per wake-up and a frame that leaves
or is lost, which is what `QueueIsFifo` and `FramesHeld`, `PacketsLeave` say of
the kernel and the drivers; `FileSys` uses a mutex, `OwnersExclude`.

**What is hard.**
* Plugin: a second process behind a finite pipe, with a cap on lines;
  every step works on files that an earlier execution, a killed JVM or a failed
  step may have left; a recursion whose depth is counted in a variable shared
  by a loop; a scanner of words with a few flags.
* Kernel: ticks and devices post between any two steps of a thread; one thread
  is on up to two lists whose links, counts and back pointers must agree; a
  mutex is handed over in two steps; priorities change while threads are on
  lists; time wraps around.
* File system: the same facts in memory and on the flash, where bits can only
  be cleared; blocks that end exactly where a file does.
* Simulator: delay slots, likely branches and exceptions in any sequence; a
  cache beside memory.
* Network: loss, delay, reordering, retransmission against acknowledgement,
  closing from both sides, frames that run out, callbacks that come after
  their socket has changed, two connections for one transfer, two sessions
  that transfer through one buffer.
* Boot loader: a reset at any time, also while the flash is erased or written.
* Drivers: characters and packets on one line that loses bytes; a ring that
  the DMA fills while it is searched.

**What makes each component correct.**
* Plugin: the runner returns unless the analyser is silent for ever, and signals
  nobody that could have gone on; what is imported of the rule checker without
  an error line is the execution's own; faulty designs are reported; the nesting
  search finds every loop; no comment that begins a word is taken for code.
* Kernel: every thread on the list its state names; nobody overdue; one owner
  of a mutex; a message once and in order; memory of threads, timers and
  blocks apart; a timer fires.
* File system: what was closed reads back, also after a restart; every block
  has one owner; what counts as empty is erased.
* Simulator: a load sees the last store; the flow is that of the architecture.
* Network: both streams whole, acknowledgements true, every frame in one
  place, sockets freed; a lease again and again; a transfer whole and once; the
  terminal shows the command line, the history what was entered.
* Boot loader: what is started is what was copied or sent.
* Drivers: frames whole and once; what waits is sent.
* Libraries: the definition of each function, at the edges of its arguments.

## 2. Modules

### Plugin

`AnalyserCall` says what a call of `runZamia()` promises: it may end at any time,
with the analyser still alive, and it does end unless the analyser keeps its
output open and prints nothing for ever, for `consume()` has no bound in time.
`ZamiaProcess` implements it (`MeetsContract`, with a refinement mapping) whatever
the analyser does, `ScanSession` is written against it.

* **ZamiaProcess**: the scanner's thread and two processes, the launcher script
  and the Eclipse it starts, which share one pipe.  `ReadLine`, `ReadEof`,
  `GiveUp` are the loop of `consume()`: as in the code a line is read before the
  cap is tested.  A process writes in two steps; between them it is blocked
  while the pipe is full.  The processes may do anything in any order.
* **ScanSession**: `execute()` of `vhdlRcSensor` step by step, several
  executions per JVM over one scanner home.  Every file carries the number of
  the execution that wrote it, which is how "stale" is said.  The four
  configuration files are copied one by one, a failure leaves the rest as it
  was.  Analysers of any execution load sources and write reports between any
  two steps; `Crash` kills the JVM.  `RunSynth` is a user who runs rc-synth between two
  executions: it leaves `./report_*` files in the project directory, which are
  imported after all the others.  `errors` is a history variable: the execution
  wrote an ERROR line.
* **YosysSession**: `execute()` of the yosys sensor, one action per command or
  parser, over executions in one work directory.  A command works completely
  or has no effect, unnoticed (`silent`).  A design says where its top entity
  is: ports are only reported if the module has a file of that path.
* **PackageNesting**: `checkVhdlPackage()` as it runs: `calls` is the
  Java stack, `hierarchy` is `packagesHierarchy`; compared with a definition of
  what it looks for (`Chains`).
* **LineScanner**: `checkJavaRules()` on one file, one action per word by what
  the word is.  A word is what the scanner splits a line into; it may begin with
  a comment mark or a quote, hold one and end with one.  Beside the scan runs a
  reading of VHDL, mark after mark wherever it stands (`ReadMark`, `real`), and
  `misread` has the lines on which the two cannot agree.  Four header rules stand
  for the twenty-odd that work alike.

### Kernel and heap

**RtosKernel** has the scheduler and the semaphores as operators on one record
`os`: an operator is what a function does between disabling the interrupts and
enabling them.  **RtosHeap** has the two functions of the heap on a record of
the free list.  **Rtos** composes them under threads: `todo[t]` is what is left
of the call a thread is in, an entry is what the code does without enabling
the interrupts.  Only the running thread takes steps; an interrupt may come
between any two, except before an entry of `Masked`, which belongs to the
critical section that the thread was swapped out of.  One action per entry:
`OS_MutexPend` for instance is `MutexPend` (the priority of the owner),
`MutexAcquire` (the pend), `MutexOwned` (what follows when it runs again).
`Interrupt` raises any of the bits that are due, `ThreadTick` and `DeviceIsr`
handle them, and `LeaveIsr` does the reschedule that was put off.

Contracts: OS_CPU_COUNT is 1; callers keep to `LegalCall` and `Allowed` (the
semaphore of a mutex or of a queue is used only through it, a mutex is unlocked
by its owner, what is freed is held, a semaphore that is deleted is not pended
on afterwards); a control block is created once.

### File system

**FileMedia** has the blocks of RAM and flash and how a file walks them;
**FileSys** the calls of users, each a step because it runs under
`mutexFilesys`, and the restart.  A cell is a unit of data, an entry of a
directory has several and may span two blocks.  The flash itself (`flash.c`) is
external: a NOR device that clears bits and erases blocks.  The makefile builds
with `-DEXCLUDE_FLASH`, the source by default has the flash; the model has it.
On a full medium the code writes behind a block (`overrun`); then nothing is
promised.  `Legal` keeps users from what the code does not survive: opening a
directory for writing (it returns with the mutex held), and deleting or
replacing a file that another one has open.

### Simulator

**MliteMem** has arithmetic, memory, cache and devices, **MliteCpu** is
`cycle()` and the debugger's loop.  Words have `Width` bits, and memory at `pc`
is any instruction of the program's set, so that every order of instructions is
run.  **MipsFlow** is the abstract specification: the order in which an
architecture with delay slots executes.  `FlowSpec` is the refinement.

**Bootldr** is the program that starts the board, one action per command of its
menu.  An upload and a copy go byte by byte and half word by half word, the
erasure of the flash is a state of its own, and `Reset` may come in any of
them.  A key is its character code; memory that is no RAM is not looked at.
Files of odd length, the set-up of the DDR memory and what the commands of the
menu that change nothing show (raw memory, checksum, dump) are left out.

### Network

* **Tcpip** has the operators of `tcpip.c` for TCP on a record of the stack;
  **TcpSession** puts it between a job thread that runs callbacks, a network
  that loses, delays and reorders, and a peer of its own.
* **IpHost** is the rest of the stack: DHCP, ARP, ping, UDP, DNS with the
  threaded driver.  The sockets are a function from local ports to records, the
  latest port is `SocketHead`.
* **Ftp** and **Tftp** are client and server of a service, one talking to the
  other.  FTP has its two connections, whose callbacks the job thread of each
  host runs in the order of their arrival; TFTP one datagram that is on its
  way, has arrived, or is lost.
* **Telnet** is a session: the job thread that takes its segments, the thread
  that edits the command line byte by byte (echo, backspace, arrows, history)
  and runs the command, with files and redirections.
* **Http** is what one request gets: a page of the table, a file, or an error.
* **NetApps** starts one of them, or the console's own transfers: `ftp` and
  `tftp` of two telnet sessions, each a thread of its own, step by step through
  the static variables they share (`myStorage`, `storageFilename`,
  `socketTelnet`).

Packets and ticks come between any two steps of a call, as the IP thread is above
the job thread: a call lets go of the stack where it hands a frame to the driver.
The sequence numbers of both ends are modulo `SEQ` and compared as in the code.

Contracts of **TcpSession**: the time that `IPClose2` gives the application to stop
using a socket is enough for it, packets do not outlive the socket, a SYN/ACK is not on its way when data is, what the host transmits
arrives at once or never, several waiting jobs are one, the 50-tick period and
the second are one, `IPRead` takes frames whole and a callback reads all.
`StreamsInOrder` speaks of the stream up to `IPClose2`.
**IpHost**: a machine's Ethernet address has the name of its IP address; what is
on the wire is a set, so that packets overtake each other and identical ones
merge, and a packet may stay in it when it arrives; a second may end between a
datagram and its job; one query at a time, asked only when DHCP has named the name server;
transmission and its completion are one step.
**Ftp**: a command or a reply is one symbol, no socket times out, memory that
was freed keeps what it held while the last callback looks at it.
**Tftp**: datagrams come without padding, as over the UART; neither side repeats
anything, so that a datagram that is lost ends the download without a word.
**Telnet**: the frames never run out, and the memory of a deleted semaphore is
not used again before the job thread has looked at it.
**Http**: a request comes in one segment.

### Drivers

**Uart** has the character ring and the packet protocol, the interrupt, the IP
thread, the users and a line that loses bytes; **Ethernet** the receive ring,
the search of `EthernetReceive` and the transmitter; **Drivers** starts one of
the two, as `rtos_test.c` 517-528 does.  A byte has four values, a word of the
Ethernet ring says which word of which frame it is, every turn of an
interrupt's loop is an action.  The busy waits of 10000 turns always suffice. A
UDP socket is not closed while its frames wait to be sent.  After an overrun of
the ring nothing is promised of order and emptiness.

### Libraries

**PlasmaFloat** and **PlasmaLibc** are the algorithms as functions of their
arguments, **Arith** calls them one at a time and compares.  A float is
`<<sign, exponent, fraction>>` in full width; the software multiplication and
division go over 5 bits instead of 32; times have 31 bits.  Left out: the
signedness of char, `%s` and `%f`, `scanf`.

## 3. Runs

| Run | Instance | What it shows |
|---|---|---|
| `zamia_process` | cap 3, pipe 2 | below the cap nobody is stuck on the pipe (`StuckOnlyBeyondCap`); the call implements `AnalyserCall`: it returns unless the analyser is silent for ever |
| `scan_home` | 2 executions, 2 modules of one file, 1 rule; rc-synth before either | a rule checker runs on the sources and configuration of its own execution (`RunsOnOwnInput`); what is imported of it without an error line is its own, or of an analyser alive when it cleaned |
| `yosys` | 2 executions, 4 designs, 4 profiles | every .kiss2 file is accounted for; with working commands everything is reported, ports if the top entity is in a file of the module, and what is reported in error is on things the design no longer has |
| `nesting` | every project of 3 files and 3 names, limits 1 and 2 | the level covers the depth; every loop and every nesting beyond the limit is found |
| `scan_lines` | every file of up to 3 of 24 lines, 3 profiles | but for comments that begin inside a word and "--" in a string, the lines with a comment are all counted and words of comments raise nothing; ranges and header rules are not missed |
| `rtos` | 8 workloads of up to 3 user threads, the idle, timer and job threads; 5 ticks in a turn of the clock, rings of 2, heaps of 9 and 4 units | lists, counts and priorities agree (`ListsSound`), nobody is overdue although the clock wraps, mutexes exclude, queues are FIFO, memory is not freed in use and free nodes are joined, timers fire |
| `filesys` | 2 users, 5 plans, 9 blocks of RAM and 9 of flash, 3 cells each, one restart | what was closed reads back, reading agrees with what is there, blocks have one owner, what is empty is erased |
| `machine` | 8-bit words, 4 instruction sets, 3 instructions deep; all calls of `MCArith`; the board with words of two bytes, a command of the menu and two resets | loads see stores through the cache in either byte order; the flow refines `MipsFlow`; floats, strings, sorting, dates and sums agree with independent definitions (`LibrariesRight`); the image that is started is the one copied or sent and numbers are those on the terminal (`BootRight`) |
| `tcpip` | 7 frames, 64 sequence numbers, 5 workloads | frames are accounted for, both streams stay whole, acknowledgements are true, the socket is freed |
| `drivers` | 3 serial sessions, 2 kinds of Ethernet traffic | frames once and whole on both wires; what waits is sent; the ring drains |
| `network` | 3 sites, 4 frames, one packet lost or doubled, one late second, one packet of a stranger, one query; 14 FTP transfers of up to 2 blocks, every TFTP download of up to 2 blocks and a half; 6 sessions of telnet; 7 pages and 4 files; 2 transfers of the console | address, gateway and name server are those of one lease, frames kept, leases and answers come; contents arrive whole and once, from FTP, TFTP, HTTP and the console (`ContentsRight`); the history of telnet is what was entered and the terminal shows the command line; services end |
| `arith_dst` | all calls of dates | violated: see section 4 |

`machine` and `network` compose parts that share no state, one of them chosen
at the start of a behaviour: the simulator beside the libraries that its
programs use and the boot loader that starts them, the host's set-up beside the
services on top.

**Why the bounds are enough.**
Plugin: two executions are what it takes for one to find what another left;
with a cap of 3 and a pipe of 2, all of below, at and beyond the cap happen
with the pipe empty, partly full and full; three packages have loops of length
1 to 3, siblings and chains beyond both limits; three lines open, use and close
a comment.  rc-synth comes before either execution or both, so that the second
meets its reports new and older than itself; two modules of one file each are
enough for a leftover of the other module and of the same one (projects of any
size are covered by the proof).
Kernel: three users are a holder, a waiter and one of middle priority; five
ticks let every difference be early, due, late and wrapped; a ring of 2 is
empty, partly and completely full; heaps of 9 and 4 split, join on both sides,
run out and go over to the alternate.
File system: blocks of 3 cells with entries of 2 let an entry span a block and
files end before, at and behind one; nine blocks fill up and are cleaned up.
Simulator: 8-bit words have bytes of 2 bits, so that every access in either
order differs; three instructions are a branch, its slot and what follows.
Board: two bytes to a word and four to an image make every checksum, every half
word and the end of an upload beyond the memory happen; of two resets one comes
while the flash changes and one starts what is in it.
TCP: the host's numbers start 7 before they wrap, and in one workload the peer's
start 2 before, so that its data and its FIN are on both sides; 7 frames run out
at each of the limits `FRAME_COUNT_SYNC`, `_SEND`, `_RCV`.
Network: a loss or a copy and a late second at any place, and with
`SOCKET_TIMEOUT` 1 it frees a closed socket that a job still waits for; one packet
of another machine; one query, since two are too many states (that the job of a
socket that was freed is never that of another one is proved for any number);
four frames run out at each of
the limits; files of no, a part of, one and two blocks and more, larger and
smaller than the buffer; a history of 14 bytes and three pointers that a few
lines wrap around; two sessions that transfer at once.
Drivers: rings of 2 characters and 6 words are empty, full and overrun.

**Deadlock.**  The check on deadlock is on for the plugin and the kernel; the
models of files, machines and networks stop when their plan is done.

**Fairness.**
* `ZamiaProcess`: the scanner's own steps only (one thread; the 300 s pass).
  Nothing is assumed of the analyser: it may be silent, or print, for ever.
* `Rtos`: ticks go on (`Interrupt` with the tick, a hardware counter), an
  interrupt ends, and a processor that can take a step takes one.  Nothing is
  assumed of a single thread: who runs is the scheduler's choice.
* `TcpSession`: the thread of the stack handles what there is; time passes when
  nothing is under way (`Quiet`).  The peer may be silent for ever, the timers
  must do.
* `IpHost`: steps go on (`[]<><<Next>>_vars`).  `Next` is disabled only when the
  host works on freed memory (`broken`, see section 4), for there are threads to
  run, packets to arrive and seconds to pass; losses, copies and what others send
  are bounded, so that nothing can be put off for ever.
* `NetApps`: steps go on while the service is busy (`Busy`): segments arrive,
  jobs and threads run.  Nothing is assumed of who types or asks.
* `Drivers`: interrupts are taken, the line moves; nothing is assumed of users
  or what else comes.

`MCSpec` of `network` states the same for the composition: its steps go on as
long as the host's part or a busy service is there.

## 4. Where the code does something else

`arith_dst`: a comment of `libc.c` says that daylight saving starts on the
second Sunday of March and ends on the first of November; when the first of
the month is a Sunday the code takes one a week later.

Behaviour that is in the models, or outside of what they allow, and that a
reader of the properties should know:

* Plugin.  After 15000 lines the output is no longer read, and the scanner
  waits for an analyser that is blocked on the pipe.  For one that prints nothing
  and does not close its output it waits for ever.  What rc-synth has left in the
  project directory is imported by every execution, however old it is; nothing
  removes it (`NoSilentStaleness` is about the rule checker's reports).  Reports that were to be
  kept are lost at the exit of the JVM if an earlier execution could not delete
  files of those names.  The synthesis only runs for four of the rules that
  need it; without STD_05100 it ends in a NullPointerException, as does every
  file with STD_02300 and without STD_02500.  Of a top entity whose file is not one
  of the module's no port is reported.  Packages beside each other count
  as packages within each other; `use work.q.all` records `work`; after `/*x*/`
  the rest of a file counts as comment.  A comment that begins inside a word
  (`x--text`, `x/*`) is read as code, and "--" that begins a word of a string as a
  comment, so that what follows is taken wrongly; with block comments a line may
  be counted twice.  `unfoundFiles` is static, so that
  warnings are repeated; a report without RuleName ends the import.
* Kernel.  `OS_MutexPost` lowers the priority of the running thread without
  looking for one that should run now.  Mutexes that are not unlocked in the
  reverse order leave a raised priority behind.  The queue of a semaphore is not
  sorted again when a priority changes.  A wait of -1 computed from times is
  taken for ever.  Without memory for its block `OS_ThreadCreate` makes no thread; if
  that was the thread of the timers, `OS_TimerCreate` never tries again
  (`SemaphoreTimer` is there already) and no timer ever fires (`TimersFire` is
  checked where the heap is large enough).
* File system.  Opening a directory for writing returns with the mutex held;
  a file that is open can be replaced or deleted; two first calls may both mount.
* Simulator.  The bound on TLB entries is one too great; `J` in a slot that is
  skipped still jumps in the debugger's command.
* TCP.  Without a free frame a FIN is taken as not sent after the data of the
  same call went out; a second FIN is acknowledged beyond the first; a late
  SYN/ACK sets back the acknowledgement; `IPClose` without a frame does nothing.
  A tick that closes a connection while a thread is sending its frame sends that
  frame as well, and it is listed for retransmission twice (`ethernet.c` 246-251,
  `tcpip.c` 1705-1706, 1381-1388, 1621): an assertion of `FrameInsert` (250) fails,
  and the model stops there (`twice`).  What is on a socket when it is freed
  (1729-1736) is leaked for good: segments put aside after `IPClose2`, the frame
  that was being filled at a reset (`leaked`).  The comparisons of sequence
  numbers (902, 941, 958) do not wrap: where the peer's numbers do, a FIN ahead of
  its data is taken, acknowledges a byte that was never received and lets later
  data through out of order (`early`), and segments ahead of a gap are dropped.
* Host.  A closed UDP socket still gets datagrams.  A second that ends between
  such a datagram and its job frees the socket with the frame (1195-1200,
  1729-1736), and the job works on freed memory; a UDP socket that is closed with
  frames unsent frees them in a list that they are not on (`IPClose2`,
  1565-1575).  The model stops at either (`broken`).  An acknowledgement of an
  earlier request is accepted; the first match in the ARP cache never expires.
* Boot loader.  A copy to the flash writes the magic number first, so that a
  reset in the middle of it leaves an image in part that the board starts; the
  byte after the last that fits ends an upload.
* Services.  Two sessions of the console that transfer at once use one buffer
  and one file name: the contents of one are stored under the name of the other,
  or in a buffer that was freed (`StoredRight` speaks of a transfer alone).
  After a short `IPWrite` a transfer is never resumed; "150" and
  "226" in one segment are taken for one reply; TFTP repeats nothing; a telnet
  session whose socket timed out keeps its thread for ever; keys after a line's
  end are lost; a request of HTTP in two segments is two requests.
* Drivers.  A reader that finds the ring empty just before a character comes
  waits for the next one; an oversized packet's bytes go to the console; a
  frame in part is dropped; data that look like an empty word hide a frame.
* Libraries.  `strncpy` and `strncat` write an end beyond n; `strtol` stops at
  nine digits; the exponent of a float overflows into its sign;
  `FP_ToFloat(-2^31)` does not end.

## 5. Proofs

All proofs are for arbitrary constants, under the named assumptions of the
modules.

* `ZamiaProcess`: `TypeCorrect`, `NotStuckBelowCap`,
  `NoWriterKilledBelowCap`.  `IInv` adds to the two invariants that reading is
  within the cap while it goes on, and that a signal is the last step.
* `ScanSession_proofs`: `TypeCorrect`, `ConfigInOrder`, `OwnInput`,
  `NotSilentlyStale`, `CleansUp`.  `IInv` has four parts.  `ConfInv`: what is
  copied first is never older.  `ToolInv`: the execution's own analyser does
  not exist before it is started.  `SourceInv`: from the cleaning to the start
  the directory has exactly the execution's own sources, and its analyser has
  loaded no others.  `ReportInv`: from the cleaning of the reports to the end
  of the import every report of the rule checker is the execution's own or of a survivor, because
  nobody else is alive.  Each is needed by the next.
* `YosysSession_proofs`: `TypeCorrect`, `KissFilesAccountedFor`,
  `WorkingCommandsReportRight`.  `KissInv` adds that no file is newer than the
  execution and that none of its own exists before it has looked for state
  machines.  `ResultsInv` follows the chain of commands and parsers: as long as
  no command has failed unnoticed, each file of the chain is of this execution
  once the command that writes it has run, and what is reported follows from
  the files read so far (`NamesAssumption`: a file of
  a state machine, of ports, the log and the clocks have different names).
* `PackageNesting_proofs`: `TypeCorrect`, `HierarchyChain`, `LevelAtLeastDepth`,
  `SearchReportsAll`.  `NestInv` ties the two stacks: the k-th call is for a
  package of the k-th name, and the call about to be made is for a user of the
  last.  `SearchInv` says what a finished call has done: nothing is left out
  for any continuation of its chain.  This is said of all continuations at
  once, so that the proof needs no induction over the length of a chain; a
  chain is bounded because it has no name twice (pigeonhole).
* `LineScanner_proofs`: `TypeCorrect`, `CommentsSkipped`, `CommentsCounted`,
  `RulesReported`.  What is a comment is said by VHDL's reading of the marks, not
  by the scan's, and `misread` is empty as long as the file has none of the two
  things that the scan reads wrongly.  `CommentInv` adds what holds when the
  scan's flags and VHDL disagree; `Counted` that a line is counted before a
  comment on it can add it, `CountedOnce` that without block comments it is so
  once; `BehindMark` what follows a mark on a line without any misreading;
  `RangesSeen` that the flag is up on every word between a declaration and its
  direction; `HeaderSeen` and `BareLine` that a `library` outside comments among
  the words already read has ended the header.
* `Rtos_proofs`: `ListsAreSound`, `MutexesExclude`, `QueuesFifo`, `NobodyLate`.
  The first part has lemmas: what every operator of `RtosKernel` (insert, remove,
  reschedule, pend, post, priorities, the tick) does to `Sound`, the facts that
  lists, counts and back pointers agree.  The second composes them under threads
  and interrupts, for any number of threads, semaphores, mutexes, queues, timers
  and heaps, and any workload of legal calls.
  `IInv` adds to `Sound` what is left of the call of every thread.  The kernel
  trusts its callers, so that the lists are sound only because every entry
  still to be done has the arguments it needs (`TodoRight`, `WorkRight`,
  `MemoryRight`).  A mutex is safe only because the thread that its semaphore
  was handed to does nothing before it has made itself the owner
  (`MutexRight`: a mutex is free, owned, or has one heir).  Every message in a
  queue is counted once: by the semaphore, by a thread that was handed the
  semaphore and has yet to take the message, or by one that has put a message
  and has yet to post (`FifoRight`).
  The assumptions are `KernelAssumption` (finitely many threads, ranges),
  `RtosAssumption` (the kernel's own threads, semaphores and queues exist, a
  ring has a place) and `WorkloadAssumption`: a workload starts with a ready
  list in order and free mutexes, and makes calls that are `LegalCall`.
  `NobodyLate` (`NobodyOverdue`) is about the clock, which wraps around, under
  every workload in which no thread starts a software timer (`StartsNoTimer`).
  `TimeInv` says that the list of timeouts is in the order of what is left of
  each wait, that nothing is left below zero, and that every wait still to be
  asked for is less than half of the clock's range; then differences of
  readings compare as the waits do (`DiffApart`), a tick takes one from each
  (`DiffTick`), and the handler of the tick, which stops at the first thread
  that is not due, has passed all who are (`NoneOverdue`).
  It needs `WaitAssumption`: a wait is `OS_WAIT_FOREVER` or a number of ticks
  that is not negative, as a C `int` below half of the clock's 2^32.  With
  software timers the code does not keep to that: `OS_TimerThread` subtracts the
  tick it has read last, so that a thread of its priority or above that reads
  the clock, lets it look at the timers, and only then puts its own on the list
  makes the difference negative, and it is passed on to `OS_SemaphorePend`.
  (That thread then posts `SemaphoreTimer`, which ends even a wait of -1, the
  value of `OS_WAIT_FOREVER`.)  Such workloads are checked by `rtos` only.
* `Drivers_proofs`: `WireIsRight` and `FramesAreHeld`, for rings of any size,
  any number of frames and senders, and any traffic.
  `RingInv` (`RxTypes`, `WordsOnce`, `InOrder`): a word is in the ring once, and
  a frame that was delivered has left it, so that none is delivered twice, not
  even after an overrun; and until the DMA has overrun the reader, what is
  unread begins where `EthernetReceive` reads and ends where the DMA writes, in
  the order of the wire.  The arithmetic is modulo the size of the ring
  (`CellSum`, `CellDistance`).  `TransmitInv`: whoever took `SemEthTransmit`
  owns the transmit buffer, and what is on the wire is a beginning of what is
  in it.
  `UartInv` needs that `IPMQueue` is never full, since the message of a frame
  would be dropped there and the frame with it.  `Announced` bounds the
  announcements of frames to send by the frames that wait, and `EachOnce`
  bounds those: of any set of frames, each is in one place.  Together they
  leave at most `FRAME_COUNT` + 2 messages in the queue.  `EachOnce` is said of
  all sets of frames at once, so that a frame that moves needs a sum and no
  induction.  `SentOnce`: the message that a frame was sent is of the one frame
  that the IP thread has given to the UART.
  The assumptions: `EthernetAssumption` (the ring and a frame have a word, the
  frames are numbered from 1 on, there is some traffic) and
  `UartAssumption` (a frame, and a queue longer than
  `FRAME_COUNT` + 2; `tcpip.c` makes it twice `FRAME_COUNT`, which is 100).
* `IpHost_proofs`: `HostInvariant`, `AddressRight`, `NoFrameLost`, for any number
  of frames, entries of the ARP cache, networks, losses and late seconds.
  `IInv` says what is on the network: an ARP reply and an answer of the DHCP
  server carry the address of the machine that sends them, an answer to this
  host offers this host's address, and what this host requests is what it was
  offered (`OnAir`, `Mine`).  A lease is right because of that, and the
  gateway's Ethernet address because only a packet of the gateway itself sets it
  (`OwnRight`).  For the frames it says that a socket with something to read has
  a job that waits for it (`Waits`): so what `IPTick` throws away with a closed
  socket is empty unless a job waits for it.  The numbers of sockets are never
  used again (`OnlyNew`), so that a job whose socket was freed stays one
  (`DanglingStays`); `FramesKept` counts the frames where there is none.
  Every operator of the host is a `Step` (frames that are queued, sent or freed
  while the lists stay) or empties the list of one socket (`Emptied`); the lists
  are counted as a set of pairs of socket and place (`OnLists`).
  The assumptions are `HostAssumption` (the limits are in the order of the code)
  and `SitesAssumption` (addresses are names).

Each proof has one step per action of `Next`; the inductive invariants were
checked by TLC on the runs' instances before they were proved (`IInv` of
`Rtos` with the set of all messages in place of the quantifier over sets).

**Model-checked only.**
* Liveness, and the refinements with fairness.
* `MemorySound`, `StoredIsKept` and the other properties of the file system,
  the simulator, telnet: recursive operators, folds over data and bit operations
  are out of the prover's reach.
* `LinesRight` of the drivers, which compares what goes over a line with a fold
  over the calls.
* `FramesAccounted`, `StreamsInOrder`, `AcksAreTrue` of TCP: the session's
  operators are folds over the frames of five lists.
* `BootRight`, the network applications (`ContentsRight`, `HistoryRight`) and
  `LibrariesRight`: what a program computes from data, by folds and recursion.

## 6. Not modelled

* Plugin: what the configuration files contain, the parameters' way through
  the handbook, descriptions of rules, the server's declarations; the language
  check STD_02700 and the rule STD_00600 on file names.
* Kernel: several CPUs, semaphores and queues made and deleted at run time
  beyond one `drain`, `UartPrintfCritical`.
* TCP/IP: several sockets of one port, the server side of `IPAccept` with more
  than one peer, fragments (the code has none).
* Services: the commands of the console that only print, the tests, the programs of
  `rtos_ex.c`, tables of functions.
* Simulator: the disassembler, sockets for the UART, the MMU beyond its
  registers.
* Tools that convert files for the simulation of the VHDL, the boot loader, the
  VHDL itself, and the copies of earlier versions under `tags`.
