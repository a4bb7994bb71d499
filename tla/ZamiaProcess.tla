---------------------------- MODULE ZamiaProcess ----------------------------
(***************************************************************************)
(* ZamiaRunner.runZamia() and consume(): the scanner starts the launcher   *)
(* script of the rule checker, reads its output up to a cap, waits for the *)
(* launcher a bounded time and asks it to terminate.  The launcher and the *)
(* Eclipse it runs are outside the repository: they share one output pipe  *)
(* of finite size and block in write() while it is full.                   *)
(***************************************************************************)
EXTENDS Naturals, TLAPS

CONSTANTS
    LineCap,    \* the 15000 of consume(): lines read before it gives up
    PipeCap     \* lines the pipe and the reader's buffer hold

ASSUME CapAssumption == LineCap \in Nat \ {0} /\ PipeCap \in Nat \ {0}

VARIABLES
    runner,     \* where runZamia() stands
    read,       \* i of consume(): lines read so far
    pipe,       \* lines written and not yet read
    readerOpen, \* the scanner still holds the read end of the pipe
    alive,      \* analyser processes that have not ended
    writers,    \* processes that hold the write end
    blocked,    \* processes inside write()
    asked       \* destroy() has sent its signal to the launcher

vars == <<runner, read, pipe, readerOpen, alive, writers, blocked, asked>>
procVars == <<alive, writers, blocked>>

\* The child is a script; Eclipse is a process of its own below it.
Procs == {"launcher", "eclipse"}

TypeOK ==
    /\ runner \in {"start", "reading", "waiting", "destroying", "returned"}
    /\ read \in 0 .. LineCap + 1
    /\ pipe \in 0 .. PipeCap
    /\ readerOpen \in BOOLEAN
    /\ alive \subseteq Procs
    /\ writers \subseteq alive
    /\ blocked \subseteq writers
    /\ asked \in BOOLEAN

Init ==
    /\ runner = "start"
    /\ read = 0
    /\ pipe = 0
    /\ readerOpen = TRUE
    /\ alive = {}
    /\ writers = {}
    /\ blocked = {}
    /\ asked = FALSE

-----------------------------------------------------------------------------
(* The scanner's thread.                                                    *)

\* builder.start() succeeds: launcher and Eclipse run with the pipe as output.
Start ==
    /\ runner = "start"
    /\ runner' = "reading"
    /\ alive' = Procs
    /\ writers' = Procs
    /\ UNCHANGED <<read, pipe, readerOpen, blocked, asked>>

\* builder.start() throws IOException, which runZamia() logs.
StartFails ==
    /\ runner = "start"
    /\ runner' = "returned"
    /\ UNCHANGED <<read, pipe, readerOpen, asked, procVars>>

\* One turn of consume()'s loop: the line is read first, the cap is looked at
\* after it, so one line more than the cap is taken from the pipe.
ReadLine ==
    /\ runner = "reading"
    /\ pipe > 0
    /\ pipe' = pipe - 1
    /\ read' = read + 1
    /\ runner' = IF read < LineCap THEN "reading" ELSE "waiting"
    /\ UNCHANGED <<readerOpen, asked, procVars>>

\* Mutant: an empty pipe is taken for its end (ready() instead of readLine()).
ReadEof_ready ==
    /\ runner = "reading"
    /\ pipe = 0
    /\ runner' = "waiting"
    /\ UNCHANGED <<read, pipe, readerOpen, asked, procVars>>

\* readLine() returns null: every writer has closed its end.
ReadEof ==
    /\ runner = "reading"
    /\ pipe = 0
    /\ writers = {}
    /\ runner' = "waiting"
    /\ UNCHANGED <<read, pipe, readerOpen, asked, procVars>>

\* readLine() throws, or the thread is interrupted in waitFor(): both are
\* caught outside the sequence, and destroy() is never reached.
GiveUp ==
    /\ runner \in {"reading", "waiting"}
    /\ runner' = "returned"
    /\ UNCHANGED <<read, pipe, readerOpen, asked, procVars>>

\* waitFor(300 s) returns because the launcher has ended.
WaitDone ==
    /\ runner = "waiting"
    /\ "launcher" \notin alive
    /\ runner' = "destroying"
    /\ UNCHANGED <<read, pipe, readerOpen, asked, procVars>>

\* Mutant: waitFor() without the 300 s.
WaitTimesOut_never ==
    /\ FALSE
    /\ UNCHANGED vars

\* waitFor(300 s) returns FALSE; nobody looks at the result.
WaitTimesOut ==
    /\ runner = "waiting"
    /\ "launcher" \in alive
    /\ runner' = "destroying"
    /\ UNCHANGED <<read, pipe, readerOpen, asked, procVars>>

\* destroy(): signal the launcher, close the scanner's end, do not wait.
Destroy ==
    /\ runner = "destroying"
    /\ runner' = "returned"
    /\ asked' = ("launcher" \in alive)
    /\ readerOpen' = FALSE
    /\ UNCHANGED <<read, pipe, procVars>>

-----------------------------------------------------------------------------
(* The analyser's processes.                                                *)

\* p has a line to print and enters write().
BeginWrite(p) ==
    /\ p \in writers \ blocked
    /\ blocked' = blocked \cup {p}
    /\ UNCHANGED <<runner, read, pipe, readerOpen, alive, writers, asked>>

\* The pipe takes the line, or nobody reads any more and the write fails.
EndWrite(p) ==
    /\ p \in blocked
    /\ \/ readerOpen /\ pipe < PipeCap /\ pipe' = pipe + 1
       \/ ~readerOpen /\ pipe' = pipe
    /\ blocked' = blocked \ {p}
    /\ UNCHANGED <<runner, read, readerOpen, alive, writers, asked>>

\* p closes its output and works on.
CloseOutput(p) ==
    /\ p \in writers \ blocked
    /\ writers' = writers \ {p}
    /\ UNCHANGED <<runner, read, pipe, readerOpen, alive, blocked, asked>>

\* p ends by itself, which a process inside write() cannot do.
Exit(p) ==
    /\ p \in alive \ blocked
    /\ alive' = alive \ {p}
    /\ writers' = writers \ {p}
    /\ UNCHANGED <<runner, read, pipe, readerOpen, blocked, asked>>

\* The launcher receives the signal.
Killed ==
    /\ asked
    /\ "launcher" \in alive
    /\ alive' = alive \ {"launcher"}
    /\ writers' = writers \ {"launcher"}
    /\ blocked' = blocked \ {"launcher"}
    /\ UNCHANGED <<runner, read, pipe, readerOpen, asked>>

\* The scanner's JVM ends some time after the call: its end of the pipe with it.
JvmEnds ==
    /\ runner = "returned"
    /\ readerOpen
    /\ readerOpen' = FALSE
    /\ UNCHANGED <<runner, read, pipe, asked, procVars>>

Runner == \/ Start \/ StartFails \/ ReadLine \/ ReadEof \/ GiveUp
          \/ WaitDone \/ WaitTimesOut \/ Destroy \/ JvmEnds

Analyser == \/ Killed
            \/ \E p \in Procs : \/ BeginWrite(p) \/ EndWrite(p)
                                \/ CloseOutput(p) \/ Exit(p)

\* The call is over and so is the analyser: nothing is left to happen.
Finished == runner = "returned" /\ alive = {} /\ UNCHANGED vars

Next == Runner \/ Analyser \/ Finished

Spec == Init /\ [][Next]_vars

(* The scanner's thread goes on whenever it can: the 300 s do pass, and the  *)
(* scanner ends.  Nothing is assumed of the analyser, which may print for    *)
(* ever, or be silent for ever with its output open.                         *)
Fairness ==
    /\ WF_vars(ReadLine) /\ WF_vars(ReadEof)
    /\ WF_vars(WaitDone) /\ WF_vars(WaitTimesOut) /\ WF_vars(Destroy)
    /\ WF_vars(JvmEnds)

FairSpec == Spec /\ Fairness

-----------------------------------------------------------------------------
(* Below the cap, reading stops only when nobody is left to write: the      *)
(* launcher that is waited for, or signalled, is then silent for good.      *)
(* Beyond it the pipe may be full and its writers stuck.                    *)
StuckOnlyBeyondCap ==
    runner \in {"waiting", "destroying"} /\ read <= LineCap => writers = {}

(* destroy() is only ever aimed at a launcher that kept its output closed   *)
(* and did not end, or that printed more than the cap.                      *)
SignalOnlyTheSilentOrVerbose ==
    asked /\ read <= LineCap => writers = {}

(* The inductive invariant behind the two: while consume() is reading it is  *)
(* within the cap, and a signal is only sent by the last step of the call.   *)
IInv ==
    /\ TypeOK
    /\ runner \in {"start", "reading"} => read <= LineCap
    /\ runner = "start" => alive = {}
    /\ asked => runner = "returned"
    /\ StuckOnlyBeyondCap
    /\ SignalOnlyTheSilentOrVerbose

(* The contract the callers of runZamia() are modelled against: the call     *)
(* returns unless the analyser is silent for ever with its output open, for  *)
(* which consume() has no bound in time; to end a call that is past it, the  *)
(* cap and the 300 s have to work together, however the analyser goes on.    *)
Contract == INSTANCE AnalyserCall WITH
    call <- CASE runner = "start" -> "idle"
              [] runner = "returned" -> "returned"
              [] OTHER -> "running",
    tool <- alive # {},
    quiet <- runner = "reading" /\ pipe = 0 /\ writers # {}
MeetsContract == Contract!FairSpec
-----------------------------------------------------------------------------
(***************************************************************************)
(* Proofs of what holds for every cap and every size of the pipe: type      *)
(* correctness, and that nobody can be stuck on, or killed in, a write as    *)
(* long as the cap is not reached.                                          *)
(***************************************************************************)
LEMMA InitIInv == Init => IInv
<1> SUFFICES ASSUME Init PROVE IInv
  OBVIOUS
<1>1. read \in 0 .. LineCap + 1 /\ pipe \in 0 .. PipeCap /\ read <= LineCap
  BY CapAssumption DEF Init
<1>2. readerOpen \in BOOLEAN /\ asked \in BOOLEAN /\ ~asked
  BY DEF Init
<1> QED
  BY <1>1, <1>2
     DEF Init, IInv, TypeOK, Procs, StuckOnlyBeyondCap, SignalOnlyTheSilentOrVerbose

LEMMA NextIInv == IInv /\ [Next]_vars => IInv'
<1> SUFFICES ASSUME IInv, [Next]_vars PROVE IInv'
  OBVIOUS
<1> USE CapAssumption
    DEF IInv, TypeOK, Procs, procVars, StuckOnlyBeyondCap, SignalOnlyTheSilentOrVerbose
<1>1. CASE Start
  BY <1>1 DEF Start
<1>2. CASE StartFails
  BY <1>2 DEF StartFails
<1>3. CASE ReadLine
  <2>1. read \in Nat /\ read <= LineCap
    BY <1>3 DEF ReadLine
  <2>2. CASE read < LineCap
    BY <1>3, <2>1, <2>2 DEF ReadLine
  <2>3. CASE read = LineCap
    BY <1>3, <2>1, <2>3 DEF ReadLine
  <2> QED
    BY <2>1, <2>2, <2>3
<1>4. CASE ReadEof
  BY <1>4 DEF ReadEof
<1>5. CASE GiveUp
  BY <1>5 DEF GiveUp
<1>6. CASE WaitDone
  BY <1>6 DEF WaitDone
<1>7. CASE WaitTimesOut
  BY <1>7 DEF WaitTimesOut
<1>8. CASE Destroy
  <2>1. asked' = ("launcher" \in alive)
    BY <1>8 DEF Destroy
  <2>2. asked' \in BOOLEAN
    BY ONLY <2>1
  <2>3. read <= LineCap => writers' = {}
    BY <1>8 DEF Destroy
  <2> QED
    BY <1>8, <2>2, <2>3 DEF Destroy
<1>9. CASE JvmEnds
  BY <1>9 DEF JvmEnds
<1>10. CASE Killed
  BY <1>10 DEF Killed
<1>11. ASSUME NEW p \in Procs, BeginWrite(p)
       PROVE  IInv'
  BY <1>11 DEF BeginWrite
<1>12. ASSUME NEW p \in Procs, EndWrite(p)
       PROVE  IInv'
  BY <1>12 DEF EndWrite
<1>13. ASSUME NEW p \in Procs, CloseOutput(p)
       PROVE  IInv'
  BY <1>13 DEF CloseOutput
<1>14. ASSUME NEW p \in Procs, Exit(p)
       PROVE  IInv'
  BY <1>14 DEF Exit
<1>15. CASE UNCHANGED vars
  BY <1>15 DEF vars
<1> QED
  BY <1>1, <1>2, <1>3, <1>4, <1>5, <1>6, <1>7, <1>8, <1>9, <1>10, <1>11,
     <1>12, <1>13, <1>14, <1>15 DEF Next, Runner, Analyser, Finished

LEMMA Inductive == Spec => []IInv
BY InitIInv, NextIInv, PTL DEF Spec

-----------------------------------------------------------------------------
(* Every variable keeps its type; in particular consume() reads at most one  *)
(* line more than the cap, and only what is in the pipe.                     *)
THEOREM TypeCorrect == Spec => []TypeOK
<1>1. IInv => TypeOK
  BY DEF IInv
<1> QED
  BY Inductive, <1>1, PTL

(* Below the cap the launcher that is waited for cannot be stuck in a write, *)
(* for any cap and any size of the pipe.                                     *)
THEOREM NotStuckBelowCap == Spec => []StuckOnlyBeyondCap
<1>1. IInv => StuckOnlyBeyondCap
  BY DEF IInv
<1> QED
  BY Inductive, <1>1, PTL

(* destroy() never cuts off output that consume() was still ready to read.   *)
THEOREM NoWriterKilledBelowCap == Spec => []SignalOnlyTheSilentOrVerbose
<1>1. IInv => SignalOnlyTheSilentOrVerbose
  BY DEF IInv
<1> QED
  BY Inductive, <1>1, PTL
=============================================================================
