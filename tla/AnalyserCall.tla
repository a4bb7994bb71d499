---------------------------- MODULE AnalyserCall ----------------------------
(***************************************************************************)
(* What one call of ZamiaRunner.runZamia() promises its caller, and no     *)
(* more.  The call may return at any time, and the analyser may still be   *)
(* alive then.  It need not return: while the analyser keeps its output    *)
(* open and prints nothing, consume() waits for it without a bound.        *)
(* ZamiaProcess implements this contract with the pipe, the 15000 line cap *)
(* and the 300 second wait; ScanSession is written against it.             *)
(***************************************************************************)

VARIABLES
    call,   \* the call: "idle", "running" or "returned"
    tool,   \* an analyser it started is alive
    quiet   \* the call waits for a line from an analyser that prints none

vars == <<call, tool, quiet>>

TypeOK == /\ call \in {"idle", "running", "returned"}
          /\ tool \in BOOLEAN
          /\ quiet \in BOOLEAN

Init == call = "idle" /\ tool = FALSE /\ quiet = FALSE

\* The operating system started the analyser, which has not printed yet.
Start == /\ call = "idle"
         /\ call' = "running"
         /\ tool' = TRUE
         /\ quiet' = TRUE

\* No analyser for this analysis: the command could not be run, or the
\* analysis never came that far.
NoStart == /\ call = "idle"
           /\ call' = "returned"
           /\ UNCHANGED <<tool, quiet>>

\* The analyser prints or closes its output, or what it printed has been read.
Hear == /\ call = "running"
        /\ tool
        /\ quiet' = ~quiet
        /\ UNCHANGED <<call, tool>>

\* The analyser ends, before or after the call does; its output ends with it.
ToolEnds == /\ tool
            /\ tool' = FALSE
            /\ quiet' = FALSE
            /\ UNCHANGED call

\* The call ends; the analyser stays as it is.
Return == /\ call = "running"
          /\ call' = "returned"
          /\ quiet' = FALSE
          /\ UNCHANGED tool

Next == Start \/ NoStart \/ Hear \/ ToolEnds \/ Return

Spec == Init /\ [][Next]_vars

\* Only a silence that never ends keeps the call from returning: neither an
\* analyser that prints for ever nor one that closes its output and stays does.
FairSpec == Spec /\ SF_vars(Return /\ ~quiet)
=============================================================================
