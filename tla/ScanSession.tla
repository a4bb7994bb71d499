---------------------------- MODULE ScanSession -----------------------------
(***************************************************************************)
(* VhdlRcSensor.execute() and the ZamiaRunner.run() inside it, over several *)
(* analyses that share one scanner home: the directory rc/Data/workspace/  *)
(* project with its configuration, its copy of the sources (vhdl) and the  *)
(* reports (rule_checker/reporting/rule).  A scanner JVM may run the sensor *)
(* several times (one execution per module of a project), may be killed    *)
(* between any two steps, and may leave an analyser behind: runZamia()     *)
(* returns by the contract of AnalyserCall.  Everything carries the number *)
(* of the analysis it comes from, so that stale data can be told apart.    *)
(* Beside the reports of the rule checker every execution imports those    *)
(* that a user's rc-synth has left in the project directory.               *)
(***************************************************************************)
EXTENDS Naturals

CONSTANTS
    Files,      \* names of VHDL sources, relative to their module
    Rules,      \* rules, one report file each
    Modules,    \* the modules a project may have, as sets of Files
    Settings,   \* the settings an execution may have
    SynthScans, \* bound: the executions before which rc-synth may be run
    SynthRuns,  \* bound: files and kinds of the reports it may leave
    MaxScans    \* bound: executions of the sensor

\* A report is still being written ("part"), complete, or complete but without
\* the RuleName element that ReportXmlParser looks for first.
Kinds == {"part", "whole", "nameless"}

Options == [top : BOOLEAN, keepSource : BOOLEAN, keepReports : BOOLEAN]

ASSUME ScansAssumption == MaxScans \in Nat \ {0}
ASSUME SetupAssumption == Modules \subseteq SUBSET Files /\ Settings \subseteq Options
ASSUME SynthAssumption == SynthScans \subseteq 1 .. MaxScans /\ SynthRuns \subseteq Files \X Kinds

VARIABLES
    scan,       \* number of the current execution; 0 before the first
    pc,         \* where execute() stands
    opts,       \* its settings
    proj,       \* the sources of the module it analyses
    conf,       \* which execution wrote each configuration file (0: as shipped)
    vhdl,       \* the copies in the scanner's vhdl directory
    reports,    \* the files in the reporting directory
    repDir,     \* the reporting directory exists
    synth,      \* the ./report_* files of rc-synth in the project directory
    alive,      \* executions whose analyser is still running
    view,       \* the sources each analyser has read
    queue,      \* the reports collected and not yet imported
    imported,   \* the issues saved by the current execution
    errors,     \* an ERROR line was logged by the current execution
    unfound,    \* static VhdlRcSensor.unfoundFiles
    warned,     \* "Input file not found" warnings of the current execution
    doomed,     \* files registered with forceDeleteOnExit in this JVM
    doomedDir,  \* and the reporting directory itself
    survivors   \* history: analysers alive when reports were last cleaned

home   == <<conf, vhdl, reports, repDir>>
disk   == <<home, synth>>
tools  == <<alive, view>>
static == <<unfound, doomed, doomedDir>>
result == <<queue, imported, errors, warned>>
setup  == <<scan, opts, proj>>
vars   == <<setup, pc, disk, tools, static, result, survivors>>

-----------------------------------------------------------------------------
Scans == 1 .. MaxScans

\* BuildPath.txt, rc_config_selected_rules.xml, rc_handbook_parameters.xml and
\* handbook.xml, in the order uploadConfigToZamia() copies them.
ConfFiles == 1 .. 4

Sources == [file : Files, ver : Scans]

Reports == [rule : Rules, by : Scans, kind : Kinds, file : Files, ver : Scans]

\* rc-synth is run by hand, not by an execution: it is number 0 here.
SynthReports == [rule : Rules, by : {0}, kind : Kinds, file : Files, ver : Scans]

\* What execute() knows of a report file: its rule, and by its path whether it
\* is one of rc-synth (RC_SYNTH_REPORT_PATH).
Name(x) == [rule |-> x.rule, rcSynth |-> x.by = 0]
Names == [rule : Rules, rcSynth : BOOLEAN]

Phases == {"idle", "configure", "cleanSources", "cleanReports", "upload",
           "start", "running", "collect", "import", "dropSources",
           "dropReports", "checkDropped", "done", "failed"}

TypeOK ==
    /\ scan \in 0 .. MaxScans
    /\ pc \in Phases
    /\ pc # "idle" => scan \in Scans
    /\ opts \in Options
    /\ proj \subseteq Files
    /\ conf \in [ConfFiles -> 0 .. MaxScans]
    /\ vhdl \subseteq Sources
    /\ reports \subseteq Reports
    /\ repDir \in BOOLEAN
    /\ synth \subseteq SynthReports
    /\ alive \subseteq Scans
    /\ view \in [Scans -> SUBSET Sources]
    /\ queue \subseteq Names
    /\ imported \subseteq Reports \cup SynthReports
    /\ errors \in BOOLEAN
    /\ unfound \subseteq Files
    /\ warned \subseteq Files
    /\ doomed \subseteq Rules
    /\ doomedDir \in BOOLEAN
    /\ survivors \subseteq Scans

NoOptions == [top |-> FALSE, keepSource |-> FALSE, keepReports |-> FALSE]

Init ==
    /\ scan = 0
    /\ pc = "idle"
    /\ opts = NoOptions
    /\ proj = {}
    /\ conf = [c \in ConfFiles |-> 0]
    /\ vhdl = {}
    /\ reports = {}
    /\ repDir = TRUE
    /\ synth = {}
    /\ alive = {}
    /\ view = [s \in Scans |-> {}]
    /\ queue = {}
    /\ imported = {}
    /\ errors = FALSE
    /\ unfound = {}
    /\ warned = {}
    /\ doomed = {}
    /\ doomedDir = FALSE
    /\ survivors = {}

-----------------------------------------------------------------------------
(* execute() begins.  Without a top entity Zamia is skipped, reports are    *)
(* imported all the same ("Zamia Issues will still be imported").           *)
Begin(o, p) ==
    /\ pc \in {"idle", "done"}
    /\ scan < MaxScans
    /\ scan' = scan + 1
    /\ opts' = o
    /\ proj' = p
    /\ pc' = IF o.top THEN "configure" ELSE "collect"
    /\ queue' = {} /\ imported' = {} /\ errors' = FALSE /\ warned' = {}
    /\ survivors' = {}
    /\ UNCHANGED <<disk, tools, static>>

\* BuildPathMaker, ActiveRuleLoader or SelectedRulesMaker cannot make its
\* temporary file: IllegalStateException, out of execute().
GenerationFails ==
    /\ pc = "configure"
    /\ \A c \in ConfFiles : conf[c] < scan
    /\ pc' = "failed"
    /\ UNCHANGED <<setup, disk, tools, static, result, survivors>>

\* uploadConfigToZamia(): one Files.copy after the other.
CopyConfig(c) ==
    /\ pc = "configure"
    /\ conf[c] < scan
    /\ \A b \in ConfFiles : b < c => conf[b] = scan
    /\ conf' = [conf EXCEPT ![c] = scan]
    /\ pc' = IF c = 4 THEN "cleanSources" ELSE "configure"
    /\ UNCHANGED <<setup, vhdl, reports, repDir, synth, tools, static, result, survivors>>

\* Mutant: the exception is dropped.
CopyConfigFails_silent ==
    /\ pc = "configure"
    /\ pc' = "cleanSources"
    /\ UNCHANGED <<setup, disk, tools, static, result, survivors>>

\* A copy throws IOException: it is logged, the copies after it are not made,
\* and the analysis goes on.
CopyConfigFails ==
    /\ pc = "configure"
    /\ errors' = TRUE
    /\ pc' = "cleanSources"
    /\ UNCHANGED <<setup, disk, tools, static, queue, imported, warned, survivors>>

\* clean() of the vhdl directory: cleanDirectory deletes what it can, and its
\* exception is logged if something is left.
CleanSources ==
    /\ pc = "cleanSources"
    /\ \E left \in SUBSET vhdl :
          /\ vhdl' = left
          /\ errors' = (errors \/ left # {})
    /\ pc' = "cleanReports"
    /\ UNCHANGED <<setup, conf, reports, repDir, synth, tools, static, queue, imported,
                   warned, survivors>>

\* Mutant: the reports are not cleaned before the analysis.
CleanReports_skipped ==
    /\ pc = "cleanReports"
    /\ survivors' = alive
    /\ pc' = "upload"
    /\ UNCHANGED <<setup, disk, tools, static, result>>

\* clean() of the reporting directory, an error too if it does not exist.
CleanReports ==
    /\ pc = "cleanReports"
    /\ \E left \in SUBSET reports :
          /\ reports' = left
          /\ errors' = (errors \/ left # {} \/ ~repDir)
    /\ survivors' = alive
    /\ pc' = "upload"
    /\ UNCHANGED <<setup, conf, vhdl, repDir, synth, tools, static, queue, imported, warned>>

\* uploadInputFilesToZamia(): a file that cannot be copied is logged and
\* skipped.
Upload ==
    /\ pc = "upload"
    /\ \E bad \in SUBSET proj :
          /\ vhdl' = {s \in vhdl : s.file \notin proj \ bad}
                     \cup {[file |-> f, ver |-> scan] : f \in proj \ bad}
          /\ errors' = (errors \/ bad # {})
    /\ pc' = "start"
    /\ UNCHANGED <<setup, conf, reports, repDir, synth, tools, static, queue, imported,
                   warned, survivors>>

\* runZamia() starts the analyser ...
StartTool ==
    /\ pc = "start"
    /\ alive' = alive \cup {scan}
    /\ pc' = "running"
    /\ UNCHANGED <<setup, disk, view, static, result, survivors>>

\* ... or cannot: "Analysis has failed".
StartFails ==
    /\ pc = "start"
    /\ errors' = TRUE
    /\ pc' = "collect"
    /\ UNCHANGED <<setup, disk, tools, static, queue, imported, warned, survivors>>

\* runZamia() returns, whatever became of the analyser; an exception in it is
\* logged.  With pauseExec the user then has to press ENTER.
Return ==
    /\ pc = "running"
    /\ pc' = "collect"
    /\ errors' \in {errors, TRUE}
    /\ UNCHANGED <<setup, disk, tools, static, queue, imported, warned, survivors>>

\* getReportFiles(): the names of the files there now, but for those that are
\* still empty.
GetReportFiles(dir, empty) == {Name(x) : x \in dir \ empty}

\* The reports of the reporting directory, and those of the project directory
\* whose path begins with ./report_.
Collect ==
    /\ pc = "collect"
    /\ \E empty \in SUBSET {x \in reports \cup synth : x.kind = "part"} :
          queue' = GetReportFiles(reports, empty) \cup GetReportFiles(synth, empty)
    /\ errors' = (errors \/ ~repDir)
    /\ pc' = "import"
    /\ UNCHANGED <<setup, disk, tools, static, imported, warned, survivors>>

\* The reports of rc-synth come after all the others.
NextUp(x) ==
    /\ pc = "import"
    /\ Name(x) \in queue
    /\ Name(x).rcSynth => \A n \in queue : n.rcSynth

\* importReport() of a complete report: its issue is saved if the file is one
\* of the module's (unless its line is no longer in the file), else the name
\* goes to unfoundFiles.
ImportWhole(x) ==
    /\ NextUp(x)
    /\ x.kind = "whole"
    /\ queue' = queue \ {Name(x)}
    /\ \/ x.file \in proj /\ imported' = imported \cup {x} /\ UNCHANGED unfound
       \/ x.file \in proj /\ UNCHANGED <<imported, unfound>>
       \/ x.file \notin proj /\ unfound' = unfound \cup {x.file} /\ UNCHANGED imported
    /\ UNCHANGED <<setup, pc, disk, tools, doomed, doomedDir, errors, warned, survivors>>

\* importReport() of a report still being written: XMLStreamException, logged.
ImportPart(x) ==
    /\ NextUp(x)
    /\ x.kind = "part"
    /\ queue' = queue \ {Name(x)}
    /\ errors' = TRUE
    /\ UNCHANGED <<setup, pc, disk, tools, static, imported, warned, survivors>>

\* importReport() of a report without RuleName: getIssues() returns null, the
\* loop over it throws NullPointerException, out of execute().
ImportNameless(x) ==
    /\ NextUp(x)
    /\ x.kind = "nameless"
    /\ queue' = queue \ {Name(x)}
    /\ errors' = TRUE
    /\ pc' = "failed"
    /\ UNCHANGED <<setup, disk, tools, static, imported, warned, survivors>>

\* All reports done: one warning per name in unfoundFiles.
Warn ==
    /\ pc = "import"
    /\ queue = {}
    /\ warned' = unfound
    /\ pc' = "dropSources"
    /\ UNCHANGED <<setup, disk, tools, static, queue, imported, errors, survivors>>

\* The vhdl directory is cleaned unless keepSource.
DropSources ==
    /\ pc = "dropSources"
    /\ IF opts.keepSource
       THEN UNCHANGED <<vhdl, errors>>
       ELSE \E left \in SUBSET vhdl :
               /\ vhdl' = left
               /\ errors' = (errors \/ left # {})
    /\ pc' = "dropReports"
    /\ UNCHANGED <<setup, conf, reports, repDir, synth, tools, static, queue, imported,
                   warned, survivors>>

KeepReports ==
    /\ pc = "dropReports"
    /\ opts.keepReports
    /\ pc' = "done"
    /\ UNCHANGED <<setup, disk, tools, static, result, survivors>>

\* The reporting directory is cleaned unless keepReports ...
DropReports ==
    /\ pc = "dropReports"
    /\ ~opts.keepReports
    /\ \E left \in SUBSET reports :
          /\ reports' = left
          /\ errors' = (errors \/ left # {} \/ ~repDir)
    /\ survivors' = alive
    /\ pc' = "checkDropped"
    /\ UNCHANGED <<setup, conf, vhdl, repDir, synth, tools, static, queue, imported, warned>>

\* ... and, if a file is there nevertheless, it is left to the JVM's exit.
CheckDropped ==
    /\ pc = "checkDropped"
    /\ doomed' = doomed \cup {x.rule : x \in reports}
    /\ doomedDir' = (doomedDir \/ reports # {})
    /\ pc' = "done"
    /\ UNCHANGED <<setup, disk, tools, unfound, result, survivors>>

-----------------------------------------------------------------------------
(* The JVM.  All it held in memory ends with it.                            *)
MemoryLost ==
    /\ pc' = "idle"
    /\ opts' = NoOptions /\ proj' = {}
    /\ queue' = {} /\ imported' = {} /\ errors' = FALSE /\ warned' = {}
    /\ unfound' = {} /\ doomed' = {} /\ doomedDir' = FALSE
    /\ survivors' = {}

\* It exits, after a last execution or an exception: the files registered for
\* it are deleted by name, the directory if nothing is left in it.
ExitJvm ==
    /\ pc \in {"done", "failed"}
    /\ MemoryLost
    /\ reports' = {x \in reports : x.rule \notin doomed}
    /\ repDir' = (repDir /\ ~(doomedDir /\ reports' = {}))
    /\ UNCHANGED <<scan, conf, vhdl, synth, tools>>

\* It is killed: no exit hook runs.
Crash ==
    /\ pc # "idle"
    /\ MemoryLost
    /\ UNCHANGED <<scan, disk, tools>>

-----------------------------------------------------------------------------
(* The analyser of execution t, outside the repository.                     *)

\* It reads the sources it finds.
Load(t) ==
    /\ t \in alive
    /\ view[t] = {}
    /\ view' = [view EXCEPT ![t] = vhdl]
    /\ UNCHANGED <<setup, pc, disk, alive, static, result, survivors>>

\* It opens the report of rule r, about a source it has read, replacing the
\* file of that name, and makes the directory if need be.
OpenReport(t, r, s) ==
    /\ t \in alive
    /\ s \in view[t]
    /\ reports' = {x \in reports : x.rule # r}
                  \cup {[rule |-> r, by |-> t, kind |-> "part",
                         file |-> s.file, ver |-> s.ver]}
    /\ repDir' = TRUE
    /\ UNCHANGED <<setup, pc, conf, vhdl, synth, tools, static, result, survivors>>

\* It completes a report of its own.
CloseReport(t, x, k) ==
    /\ t \in alive
    /\ x.by = t
    /\ x.kind = "part"
    /\ reports' = (reports \ {x}) \cup {[x EXCEPT !.kind = k]}
    /\ UNCHANGED <<setup, pc, conf, vhdl, repDir, synth, tools, static, result, survivors>>

\* It ends, by itself or killed, with whatever it has written.
ToolEnds(t) ==
    /\ t \in alive
    /\ alive' = alive \ {t}
    /\ view' = [view EXCEPT ![t] = {}]
    /\ UNCHANGED <<setup, pc, disk, static, result, survivors>>

-----------------------------------------------------------------------------
(* rc-synth, outside the repository, run by a user before a scan on the       *)
(* sources the next execution will analyse: it replaces its report of rule r. *)
(* Nothing in the repository removes one.                                     *)
RunSynth(r, f, k) ==
    /\ pc = "idle"
    /\ scan + 1 \in SynthScans
    /\ synth' = {x \in synth : x.rule # r}
                \cup {[rule |-> r, by |-> 0, kind |-> k, file |-> f, ver |-> scan + 1]}
    /\ UNCHANGED <<setup, pc, home, tools, static, result, survivors>>

-----------------------------------------------------------------------------
Sensor ==
    \/ GenerationFails \/ \E c \in ConfFiles : CopyConfig(c)
    \/ CopyConfigFails \/ CleanSources \/ CleanReports \/ Upload
    \/ StartTool \/ StartFails \/ Return \/ Collect
    \/ \E x \in reports \cup synth : ImportWhole(x) \/ ImportPart(x) \/ ImportNameless(x)
    \/ Warn \/ DropSources \/ KeepReports \/ DropReports \/ CheckDropped

Tool ==
    \E t \in Scans :
        \/ Load(t) \/ ToolEnds(t)
        \/ \E r \in Rules, s \in view[t] : OpenReport(t, r, s)
        \/ \E x \in reports, k \in {"whole", "nameless"} : CloseReport(t, x, k)

\* The bound on executions is reached and no analyser is left.
Finished == scan = MaxScans /\ pc = "idle" /\ alive = {} /\ UNCHANGED vars

Next ==
    \/ \E o \in Settings, p \in Modules : Begin(o, p)
    \/ Sensor
    \/ ExitJvm \/ Crash
    \/ Tool
    \/ \E r \in Rules, u \in SynthRuns : RunSynth(r, u[1], u[2])
    \/ Finished

Spec == Init /\ [][Next]_vars

-----------------------------------------------------------------------------
(* Nothing stale of the rule checker gets in silently: an issue that an       *)
(* execution saves after running Zamia was reported by the analyser it        *)
(* started, on the sources it copied, unless it logged an ERROR or an         *)
(* analyser of an earlier execution was still alive when it cleaned the       *)
(* reports.  Nothing of the kind is true of what rc-synth has left in the     *)
(* project directory: it is imported by every execution, however old it is.   *)
NoSilentStaleness ==
    opts.top /\ ~errors /\ pc \in {"import", "dropSources", "dropReports"} =>
        \A x \in imported : \/ x.by = scan /\ x.ver = scan
                            \/ x.by \in survivors
                            \/ x.by = 0

(* However the copies fail and wherever the JVM dies, a configuration file   *)
(* is never newer than one that is copied before it ...                      *)
ConfigPrefix ==
    \A b, c \in ConfFiles : b < c => conf[b] >= conf[c]

(* ... and an analyser started without an ERROR line finds all four of them  *)
(* written for its own execution, and only its own sources.                  *)
RunsOnOwnInput ==
    opts.top /\ pc \in {"start", "running"} /\ ~errors =>
        /\ \A c \in ConfFiles : conf[c] = scan
        /\ vhdl = {[file |-> f, ver |-> scan] : f \in proj}

(* An execution that comes to its end without an ERROR line leaves no copy   *)
(* of the sources (unless keepSource), and no report (unless keepReports)    *)
(* but those of analysers that were still alive when it cleaned.             *)
LeavesHomeClean ==
    pc = "done" /\ ~errors =>
        /\ ~opts.keepSource => vhdl = {}
        /\ ~opts.keepReports => \A x \in reports : x.by \in survivors

(* The inductive invariant behind these four.                               *)

\* Once the configuration is dealt with without an ERROR line ...
Configured == {"cleanSources", "cleanReports", "upload", "start", "running"}

\* ... and from the cleaning of the reports to the end of the import.
Importing == {"upload", "start", "running", "collect", "import",
              "dropSources", "dropReports"}

ConfInv ==
    /\ \A c \in ConfFiles : conf[c] <= scan
    /\ ConfigPrefix
    /\ pc \in Configured /\ ~errors => \A c \in ConfFiles : conf[c] = scan

ToolInv ==
    /\ \A t \in Scans : t \notin alive => view[t] = {}
    /\ \A t \in alive : t <= scan
    /\ pc \in {"configure", "cleanSources", "cleanReports", "upload", "start"}
          => scan \notin alive

SourceInv ==
    /\ pc \in Configured \cup {"configure"} => opts.top
    /\ pc \in {"cleanReports", "upload"} /\ ~errors => vhdl = {}
    /\ pc \in {"start", "running"} /\ ~errors
          => vhdl = {[file |-> f, ver |-> scan] : f \in proj}
    /\ opts.top /\ ~errors /\ pc \in Importing \ {"upload"}
          => /\ \A v \in vhdl : v.ver = scan
             /\ scan \in alive => \A v \in view[scan] : v.ver = scan
    /\ pc \in {"dropReports", "checkDropped", "done"} /\ ~errors /\ ~opts.keepSource
          => vhdl = {}

Own(x) == (x.by = scan /\ x.ver = scan) \/ x.by \in survivors \/ x.by = 0

ReportInv ==
    /\ pc \in Configured \cup {"configure", "collect"} => imported = {}
    /\ opts.top /\ ~errors /\ pc \in Importing
          => /\ alive \subseteq survivors \cup {scan}
             /\ \A x \in reports \cup imported : Own(x)
    /\ pc \in {"checkDropped", "done"} /\ ~errors /\ ~opts.keepReports
          => /\ alive \subseteq survivors
             /\ \A x \in reports : x.by \in survivors

IInv == TypeOK /\ ConfInv /\ ToolInv /\ SourceInv /\ ReportInv
=============================================================================
