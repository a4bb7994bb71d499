---------------------------- MODULE YosysSession ----------------------------
(***************************************************************************)
(* YosysGhdlSensor.execute() over several analyses that share one working  *)
(* directory, with the part of VhdlRcSensor that decides whether it runs:   *)
(* ActiveRuleLoader sets a static flag, and only when a top entity is set.  *)
(* The sensor drives bash, ghdl and yosys by commands whose exit status     *)
(* nobody looks at, and takes its results from the files they leave in the  *)
(* working directory.  Every file carries the number of the execution that  *)
(* wrote it; the design that execution analysed is kept in "design".        *)
(***************************************************************************)
EXTENDS Naturals

CONSTANTS
    Fsms,       \* state machines, one .kiss2 file each
    Outs, Ins,  \* output and input ports, one .statlog or .istatlog each
    Sources,    \* paths of VHDL sources
    Designs,    \* the designs that may be analysed
    Profiles,   \* the sets of active rules
    MaxScans    \* bound: executions of the sensors

Ports == Outs \cup Ins

\* A design: the state machines fsm_detect marks and those it ignores, the
\* state machines whose source belongs to the analysed module, the ports, the
\* ports that violate their rule, the source of the top entity, and the sources
\* of the module as its file system knows them.
DesignType == [marked : SUBSET Fsms, ignored : SUBSET Fsms, local : SUBSET Fsms,
               ports : SUBSET Ports, bad : SUBSET Ports,
               topFile : Sources, sources : SUBSET Sources]

FsmRules   == {"CNE_02000", "CNE_04600", "STD_03900"}
PortRules  == {"STD_05200", "STD_05100"}
ClockRules == {"STD_04400", "CNE_00200"}
LogRules   == {"CNE_06000", "STD_04000", "STD_05500"}

\* The rules whose Engine is Yosys-ghdl in the handbook.
YosysRules == FsmRules \cup PortRules \cup ClockRules \cup LogRules

\* The rules the second gate of execute() looks at.
SynthGate == FsmRules \cup {"STD_05200"}

PortRule(p) == IF p \in Outs THEN "STD_05200" ELSE "STD_05100"

ASSUME ScansAssumption == MaxScans \in Nat \ {0}

\* An issue names a state machine, a port, or the log or the clocks as a whole.
ASSUME NamesAssumption ==
    /\ Fsms \cap Ports = {}
    /\ {"log", "clk"} \cap (Fsms \cup Ports) = {}
ASSUME DesignAssumption ==
    Designs \subseteq DesignType /\ Profiles \subseteq SUBSET YosysRules

VARIABLES
    scan,       \* number of the current execution; 0 before the first
    pc,         \* where execute() stands
    top,        \* a top entity is configured
    rules,      \* the active rules
    here,       \* the working directory is the scanner's own directory
    design,     \* the design each execution finds
    enable,     \* static ActiveRuleLoader.enableYosys
    cf,         \* the ghdl library: which execution built it (0: none)
    detected,   \* the file fsmdetect
    lists,      \* the files outputlist, inputlist and clocklist
    kiss,       \* the .kiss2 files
    stat,       \* the .statlog and .istatlog files, with what they say
    doomed,     \* .kiss2 files registered with deleteOnExit in this JVM
    issues,     \* the issues saved by the current execution
    silent,     \* history: a command of it failed, which nobody noticed
    session,    \* history: the executions of this JVM
    aborted     \* history: executions whose exit hooks never ran or whose
                \* .kiss2 files were never registered

fixed   == <<here, design>>
setup   == <<scan, top, rules, fixed>>
files   == <<cf, detected, lists, kiss, stat>>
history == <<session, aborted>>
vars    == <<setup, pc, enable, files, doomed, issues, silent, history>>

-----------------------------------------------------------------------------
Scans  == 1 .. MaxScans
Vers   == 0 .. MaxScans
Lists  == {"out", "in", "clk"}
Current == design[scan]

Issues == [rule : YosysRules, name : Fsms \cup Ports \cup {"log", "clk"}, ver : Vers]

Phases == {"idle", "load", "probe", "files", "elaborate", "detect", "export",
           "list", "statOut", "remove", "limit", "statIn", "clocks", "ports",
           "fsms", "done", "failed"}

TypeOK ==
    /\ scan \in Vers
    /\ pc \in Phases
    /\ pc # "idle" => scan \in Scans
    /\ top \in BOOLEAN /\ here \in BOOLEAN
    /\ rules \subseteq YosysRules
    /\ design \in [Scans -> Designs]
    /\ enable \in BOOLEAN
    /\ cf \in Vers
    /\ detected \in Vers
    /\ lists \in [Lists -> Vers]
    /\ kiss \in [Fsms -> Vers]
    /\ stat \in [Ports -> [ver : Vers, bad : BOOLEAN]]
    /\ doomed \subseteq Fsms
    /\ issues \subseteq Issues
    /\ silent \in BOOLEAN
    /\ session \subseteq Scans
    /\ aborted \subseteq Scans

Init ==
    /\ scan = 0
    /\ pc = "idle"
    /\ top = FALSE
    /\ rules = {}
    /\ here \in BOOLEAN
    /\ design \in [Scans -> Designs]
    /\ enable = FALSE
    /\ cf = 0
    /\ detected = 0
    /\ lists = [l \in Lists |-> 0]
    /\ kiss = [f \in Fsms |-> 0]
    /\ stat = [p \in Ports |-> [ver |-> 0, bad |-> FALSE]]
    /\ doomed = {}
    /\ issues = {}
    /\ silent = FALSE
    /\ session = {}
    /\ aborted = {}

-----------------------------------------------------------------------------
(* An execution.                                                            *)

Begin(t, r) ==
    /\ pc \in {"idle", "done"}
    /\ scan < MaxScans
    /\ scan' = scan + 1
    /\ top' = t
    /\ rules' = r
    /\ pc' = "load"
    /\ issues' = {}
    /\ silent' = FALSE
    /\ session' = session \cup {scan'}
    /\ UNCHANGED <<fixed, enable, files, doomed, aborted>>

\* VhdlRcSensor runs first: with a top entity it builds the rule checker's
\* parameters, and ActiveRuleLoader sets the flag, which nothing resets.
LoadRules ==
    /\ pc = "load"
    /\ enable' = (enable \/ (top /\ rules # {}))
    /\ pc' = "probe"
    /\ UNCHANGED <<setup, files, doomed, issues, silent, history>>

\* The way yosys takes ghdl is asked for in any case; then the first gate.
Probe ==
    /\ pc = "probe"
    /\ pc' = IF enable THEN "files" ELSE "done"
    /\ UNCHANGED <<setup, enable, files, doomed, issues, silent, history>>

\* checkGhdlLog() on every file, for the rules on ghdl's messages; the library
\* of the current directory is removed after each; then the second gate.
CheckFiles ==
    /\ pc = "files"
    /\ IF rules \cap LogRules = {} THEN UNCHANGED <<cf, issues>>
       ELSE /\ cf' = IF here THEN 0 ELSE cf
            /\ \E found \in SUBSET (rules \cap LogRules) :
                  issues' = {[rule |-> r, name |-> "log", ver |-> scan] : r \in found}
    /\ pc' = IF rules \cap SynthGate = {} THEN "ports" ELSE "elaborate"
    /\ UNCHANGED <<setup, enable, detected, lists, kiss, stat, doomed, silent, history>>

\* The project's script analyses and elaborates the design.
Elaborate ==
    /\ pc = "elaborate"
    /\ cf' \in {cf, scan}
    /\ silent' = (silent \/ cf' # scan)
    /\ pc' = "detect"
    /\ UNCHANGED <<setup, enable, detected, lists, kiss, stat, doomed, issues, history>>

\* What yosys reads from the library.
Built == design[cf]
BuiltFsms  == IF cf = 0 THEN {} ELSE Built.marked \cup Built.ignored
BuiltPorts == IF cf = 0 THEN {} ELSE Built.ports

Exported(K) == [f \in Fsms |-> IF f \in K THEN scan ELSE kiss[f]]

\* fsm_detect writes its verdicts to fsmdetect, and the state machines it
\* marks are exported.  The command may stop anywhere.
DetectFsms ==
    /\ pc = "detect"
    /\ \/ UNCHANGED <<detected, kiss>> /\ silent' = TRUE
       \/ /\ cf # 0
          /\ detected' = scan
          /\ \E K \in SUBSET Built.marked :
                /\ kiss' = Exported(K)
                /\ silent' = (silent \/ K # Built.marked)
    /\ pc' = "export"
    /\ UNCHANGED <<setup, enable, cf, lists, stat, doomed, issues, history>>

\* The ignored ones, as fsmdetect has them.
Ignored == IF detected = 0 THEN {} ELSE design[detected].ignored

\* Mutant: the names are passed as fsmdetect spells them.
ExportIgnored_unmatched ==
    /\ pc = "export"
    /\ pc' = "list"
    /\ UNCHANGED <<setup, enable, files, doomed, issues, silent, history>>

\* getIgnoredFsms(): these are given an encoding and exported as well.
ExportIgnored ==
    /\ pc = "export"
    /\ \E K \in SUBSET (Ignored \cap BuiltFsms) :
          /\ kiss' = Exported(K)
          /\ silent' = (silent \/ K # Ignored \cap BuiltFsms)
    /\ pc' = "list"
    /\ UNCHANGED <<setup, enable, cf, detected, lists, stat, doomed, issues, history>>

\* One command writes outputlist, inputlist and clocklist in this order.
ListPorts ==
    /\ pc = "list"
    /\ \E W \in {{}, {"out"}, {"out", "in"}, Lists} :
          /\ W # {} => cf # 0
          /\ lists' = [l \in Lists |-> IF l \in W THEN scan ELSE lists[l]]
          /\ silent' = (silent \/ W # Lists)
    /\ pc' = "statOut"
    /\ UNCHANGED <<setup, enable, cf, detected, kiss, stat, doomed, issues, history>>

\* The ports of one direction that a list file names.
Listed(l, side) == IF lists[l] = 0 THEN {} ELSE design[lists[l]].ports \cap side

\* Mutant: the statistics are appended to the file of the last execution,
\* where parseStatLog() takes the first number.
Measure_append(l, side) ==
    /\ stat' = [p \in Ports |-> IF p \in Listed(l, side) \cap BuiltPorts /\ stat[p].ver = 0
                                THEN [ver |-> scan, bad |-> p \in Built.bad]
                                ELSE stat[p]]
    /\ UNCHANGED silent

\* One command writes the statistics of the listed ports, each into its file.
\* What it does with a name the design does not have is up to yosys: a file
\* that says nothing is wrong, or none.
Measure(l, side) ==
    \E W \in SUBSET Listed(l, side) :
        /\ W # {} => cf # 0
        /\ stat' = [p \in Ports |->
                      IF p \in W
                      THEN [ver |-> scan, bad |-> p \in Built.bad \cap BuiltPorts]
                      ELSE stat[p]]
        /\ silent' = (silent \/ cf = 0 \/ ~(Listed(l, side) \cap BuiltPorts \subseteq W))

StatOutputs ==
    /\ pc = "statOut"
    /\ Measure("out", Outs)
    /\ pc' = "remove"
    /\ UNCHANGED <<setup, enable, cf, detected, lists, kiss, doomed, issues, history>>

\* ghdl --remove, in the scanner's directory.
RemoveLibrary ==
    /\ pc = "remove"
    /\ cf' = IF here THEN 0 ELSE cf
    /\ pc' = "limit"
    /\ UNCHANGED <<setup, enable, detected, lists, kiss, stat, doomed, issues,
                   silent, history>>

\* The limit of STD_05100 is taken from its active rule, which is null if the
\* rule is not active: NullPointerException, out of execute().
ReadLimit ==
    /\ pc = "limit"
    /\ "STD_05100" \in rules
    /\ pc' = "statIn"
    /\ UNCHANGED <<setup, enable, files, doomed, issues, silent, history>>

NoLimit ==
    /\ pc = "limit"
    /\ "STD_05100" \notin rules
    /\ pc' = "failed"
    /\ aborted' = aborted \cup {scan}
    /\ UNCHANGED <<setup, enable, files, doomed, issues, silent, session>>

StatInputs ==
    /\ pc = "statIn"
    /\ Measure("in", Ins)
    /\ pc' = "clocks"
    /\ UNCHANGED <<setup, enable, cf, detected, lists, kiss, doomed, issues, history>>

\* The clock rules that the clocks of clocklist break, by where the source of
\* the top entity has them.
BrokenClockRules == {found \in SUBSET (rules \cap ClockRules) : found # {} => lists["clk"] # 0}

ReportClocks ==
    /\ pc = "clocks"
    /\ \E found \in BrokenClockRules :
          issues' = issues \cup
                {[rule |-> r, name |-> "clk", ver |-> lists["clk"]] : r \in found}
    /\ pc' = "ports"
    /\ UNCHANGED <<setup, enable, files, doomed, silent, history>>

\* The ports some statistics file of the working directory finds fault with.
Faults == {p \in Ports : stat[p].bad /\ PortRule(p) \in rules}

\* One issue for each, at its component or entity.
PortIssues == {[rule |-> PortRule(p), name |-> p, ver |-> stat[p].ver] : p \in Faults}

\* The library names the file of the top entity, where they are reported,
\* unless workdir/topFile is none of the module's files (inputFile is null).
ReportPorts ==
    /\ pc = "ports"
    /\ IF top /\ cf # 0 /\ Built.topFile \in Current.sources
       THEN issues' = issues \cup PortIssues
       ELSE UNCHANGED issues
    /\ pc' = "fsms"
    /\ UNCHANGED <<setup, enable, files, doomed, silent, history>>

Kiss2 == {f \in Fsms : kiss[f] # 0}

FsmIssues(F) == {[rule |-> r, name |-> f, ver |-> kiss[f]] : r \in rules \cap FsmRules, f \in F}

\* Mutant: a file is only registered for deletion if its source is found.
ReportFsms_localOnly ==
    /\ pc = "fsms"
    /\ doomed' = doomed \cup (Kiss2 \cap Current.local)
    /\ issues' = issues \cup FsmIssues(Kiss2 \cap Current.local)
    /\ pc' = "done"
    /\ UNCHANGED <<setup, enable, files, silent, history>>

\* addYosysIssues() on every .kiss2 file of the working directory: issues if
\* its source is one of the module's (CNE_04600 always, the others if the name
\* or type is wrong), and deleteOnExit in any case.
ReportFsms ==
    /\ pc = "fsms"
    /\ doomed' = doomed \cup Kiss2
    /\ \E wrong \in SUBSET (FsmIssues(Kiss2 \cap Current.local)) :
          /\ \A i \in FsmIssues(Kiss2 \cap Current.local) :
                i.rule = "CNE_04600" => i \in wrong
          /\ issues' = issues \cup wrong
    /\ pc' = "done"
    /\ UNCHANGED <<setup, enable, files, silent, history>>

\* executeCommand() throws: the command cannot be started or its output not be
\* read; or ghdl names a line that the file does not have.
CommandThrows ==
    /\ pc \in {"probe", "files", "elaborate", "detect", "export", "list",
               "statOut", "remove", "statIn"}
    /\ pc' = "failed"
    /\ aborted' = aborted \cup {scan}
    /\ UNCHANGED <<setup, enable, files, doomed, issues, silent, session>>

-----------------------------------------------------------------------------
(* The JVM.                                                                 *)
MemoryLost ==
    /\ pc' = "idle"
    /\ top' = FALSE /\ rules' = {}
    /\ enable' = FALSE
    /\ doomed' = {} /\ issues' = {} /\ silent' = FALSE
    /\ session' = {}

\* It exits and deletes the files registered for it.
ExitJvm ==
    /\ pc \in {"done", "failed"}
    /\ MemoryLost
    /\ kiss' = [f \in Fsms |-> IF f \in doomed THEN 0 ELSE kiss[f]]
    /\ UNCHANGED <<scan, fixed, cf, detected, lists, stat, aborted>>

\* It is killed: the registrations of all its executions are lost.
Crash ==
    /\ pc # "idle"
    /\ MemoryLost
    /\ aborted' = aborted \cup session
    /\ UNCHANGED <<scan, fixed, files>>

Finished == scan = MaxScans /\ pc = "idle" /\ UNCHANGED vars

Next ==
    \/ \E t \in BOOLEAN, r \in Profiles : Begin(t, r)
    \/ LoadRules \/ Probe \/ CheckFiles \/ Elaborate \/ DetectFsms
    \/ ExportIgnored \/ ListPorts \/ StatOutputs \/ RemoveLibrary
    \/ ReadLimit \/ NoLimit \/ StatInputs \/ ReportClocks
    \/ ReportPorts \/ ReportFsms \/ CommandThrows
    \/ ExitJvm \/ Crash
    \/ Finished

Spec == Init /\ [][Next]_vars

-----------------------------------------------------------------------------
Synthesised == enable /\ rules \cap SynthGate # {}

(* A .kiss2 file never outlives the JVM that wrote it, unless the execution  *)
(* that wrote it was cut short or the JVM killed: whatever is there belongs  *)
(* to the execution in progress, is registered, or is such a leftover.       *)
KissAccounted ==
    \A f \in Kiss2 :
        \/ kiss[f] = scan /\ pc \notin {"idle", "done", "failed"}
        \/ f \in doomed
        \/ kiss[f] \in aborted

(* The inductive invariant behind it: no file is newer than the execution,   *)
(* none of its own exists before it has detected a state machine, and a file *)
(* is from this JVM or such a leftover.                                      *)
KissInv ==
    /\ KissAccounted
    /\ \A f \in Fsms : kiss[f] <= scan
    /\ pc \in {"load", "probe", "files", "elaborate", "detect"} =>
          \A f \in Fsms : kiss[f] < scan
    /\ \A f \in Kiss2 : kiss[f] \in session \cup aborted
    /\ pc # "idle" => scan \in session

(* If every command did its work, an issue is about this execution's design  *)
(* and right, except on ports and state machines that the design no longer   *)
(* has.                                                                      *)
RightIssue(i) ==
    \/ i.ver = scan /\ (i.name \in Ports => i.name \in Current.bad)
    \/ i.name \in Ports \ Current.ports
    \/ i.name \in Fsms \ (Current.marked \cup Current.ignored)

OnlyLeftoversAreStale ==
    pc = "done" /\ Synthesised /\ ~silent => \A i \in issues : RightIssue(i)

(* ... and none is missing: every state machine of the module, marked by     *)
(* fsm_detect or ignored by it, is reported,                                 *)
FsmsReported ==
    pc = "done" /\ Synthesised /\ ~silent /\ "CNE_04600" \in rules =>
        \A f \in (Current.marked \cup Current.ignored) \cap Current.local :
            [rule |-> "CNE_04600", name |-> f, ver |-> scan] \in issues

(* and every port that violates its rule, if the source of the top entity is *)
(* one of the module's: elsewhere the sensor says nothing of any port.       *)
FaultyPortsReported ==
    top /\ Current.topFile \in Current.sources =>
        \A p \in Current.bad \cap Current.ports :
            PortRule(p) \in rules =>
                [rule |-> PortRule(p), name |-> p, ver |-> scan] \in issues

PortsReported == pc = "done" /\ Synthesised /\ ~silent => FaultyPortsReported

(* What an execution reports is what its design calls for (addYosysIssues,   *)
(* findPortIssues).                                                          *)
ResultsRight == OnlyLeftoversAreStale /\ FsmsReported /\ PortsReported

(* The inductive invariant behind it follows the chain of files an execution *)
(* builds its results from: as long as no command failed unnoticed, each is  *)
(* its own once the command that writes it has run.                          *)
Exporting  == {"export", "list", "statOut", "remove", "limit", "statIn",
               "clocks", "ports", "fsms", "done"}
Listing    == Exporting \ {"export"}
Measuring  == Listing \ {"list"}
OutsDone   == Measuring \ {"statOut"}
Reporting  == {"clocks", "ports", "fsms", "done"}

Measured(p) == stat[p] = [ver |-> scan, bad |-> p \in Current.bad]

\* The library is there until it is removed, and then no input can be measured.
LibraryFresh ==
    /\ pc \in {"detect", "export", "list", "statOut", "remove"} \cup Reporting => cf = scan
    /\ pc \in {"limit", "statIn"} => cf \in {0, scan}

FilesFresh ==
    /\ pc \in Exporting =>
          /\ detected = scan
          /\ \A f \in Current.marked : kiss[f] = scan
    /\ pc \in Listing => \A f \in Current.ignored : kiss[f] = scan
    /\ pc \in Measuring => lists = [l \in Lists |-> scan]
    /\ pc \in OutsDone => \A p \in Current.ports \cap Outs : Measured(p)
    /\ pc \in Reporting => \A p \in Current.ports \cap Ins : Measured(p)

IssuesRight ==
    /\ pc \in {"elaborate", "detect"} \cup Exporting => \A i \in issues : RightIssue(i)
    /\ pc \in {"fsms", "done"} => FaultyPortsReported

ResultsInv ==
    /\ pc \in {"load", "probe", "files"} => issues = {}
    /\ Synthesised /\ ~silent => LibraryFresh /\ FilesFresh /\ IssuesRight
    /\ FsmsReported

IInv == TypeOK /\ KissInv /\ ResultsInv
=============================================================================
