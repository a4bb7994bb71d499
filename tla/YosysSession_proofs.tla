------------------------ MODULE YosysSession_proofs ------------------------
(***************************************************************************)
(* What holds of the Yosys sensor's working directory for any number of     *)
(* executions, designs and profiles.                                        *)
(***************************************************************************)
EXTENDS YosysSession, TLAPS

LEMMA OrIsBoolean == ASSUME NEW x, NEW a, NEW b, x = (a \/ b) PROVE x \in BOOLEAN
OBVIOUS

LEMMA InitTypeOK == Init => TypeOK
<1> SUFFICES ASSUME Init PROVE TypeOK
  OBVIOUS
<1>1. 0 \in Vers
  BY ScansAssumption DEF Vers
<1>2. pc \in Phases /\ pc = "idle"
  BY DEF Init, Phases
<1>3. top = FALSE /\ enable = FALSE /\ silent = FALSE
  BY DEF Init
<1>4. top \in BOOLEAN
  BY ONLY <1>3
<1>5. enable \in BOOLEAN
  BY ONLY <1>3
<1>6. silent \in BOOLEAN
  BY ONLY <1>3
<1>7. stat \in [Ports -> [ver : Vers, bad : BOOLEAN]]
  <2>1. FALSE \in BOOLEAN
    OBVIOUS
  <2>2. [ver |-> 0, bad |-> FALSE] \in [ver : Vers, bad : BOOLEAN]
    BY <1>1, <2>1
  <2> QED
    BY <2>2 DEF Init
<1> QED
  BY <1>1, <1>2, <1>4, <1>5, <1>6, <1>7 DEF Init, TypeOK

LEMMA NextTypeOK == TypeOK /\ [Next]_vars => TypeOK'
<1> SUFFICES ASSUME TypeOK, [Next]_vars PROVE TypeOK'
  OBVIOUS
<1> USE ScansAssumption, DesignAssumption
    DEF TypeOK, Phases, setup, fixed, files, history
<1>1. ASSUME NEW t \in BOOLEAN, NEW r \in Profiles, Begin(t, r)
       PROVE  TypeOK'
  <2>1. scan' \in Scans /\ scan' \in Vers
    BY <1>1 DEF Begin, Scans, Vers
  <2>2. pc' \in Phases /\ rules' \subseteq YosysRules /\ issues' = {}
    BY <1>1 DEF Begin
  <2>3. session' \subseteq Scans
    BY <1>1, <2>1 DEF Begin
  <2>4. silent' = FALSE /\ top' \in BOOLEAN
    BY <1>1 DEF Begin
  <2>5. silent' \in BOOLEAN
    BY ONLY <2>4
  <2>6. UNCHANGED <<fixed, enable, files, doomed, aborted>>
    BY <1>1 DEF Begin
  <2> QED
    BY <2>1, <2>2, <2>3, <2>4, <2>5, <2>6
<1>2. CASE LoadRules
  BY <1>2 DEF LoadRules
<1>3. CASE Probe
  BY <1>3 DEF Probe
<1>4. CASE CheckFiles
  <2>1. 0 \in Vers /\ scan \in Vers
    BY DEF Vers
  <2>2. cf' \in Vers
    BY <1>4, <2>1 DEF CheckFiles
  <2>3. issues' \subseteq Issues
    BY <1>4, <2>1 DEF CheckFiles, Issues, YosysRules
  <2>4. /\ pc' \in Phases /\ pc # "idle"
        /\ UNCHANGED <<setup, enable, detected, lists, kiss, stat, doomed, silent, history>>
    BY <1>4 DEF CheckFiles
  <2> QED
    BY <2>2, <2>3, <2>4
<1>5. CASE Elaborate
  BY <1>5 DEF Elaborate
<1>6. CASE DetectFsms
  BY <1>6 DEF DetectFsms, Exported
<1>7. CASE ExportIgnored
  BY <1>7 DEF ExportIgnored, Exported
<1>8. CASE ListPorts
  BY <1>8 DEF ListPorts
<1>9. CASE StatOutputs
  BY <1>9 DEF StatOutputs, Measure
<1>10. CASE RemoveLibrary
  <2>1. 0 \in Vers
    BY DEF Vers
  <2> QED
    BY <1>10, <2>1 DEF RemoveLibrary
<1>11. CASE ReadLimit
  BY <1>11 DEF ReadLimit
<1>12. CASE NoLimit
  BY <1>12 DEF NoLimit
<1>13. CASE StatInputs
  BY <1>13 DEF StatInputs, Measure
<1>14. CASE ReportClocks
  <2>1. issues' \subseteq Issues
    <3>1. lists["clk"] \in Vers
      BY DEF Lists
    <3> QED
      BY <1>14, <3>1 DEF ReportClocks, BrokenClockRules, Issues
  <2> QED
    BY <1>14, <2>1 DEF ReportClocks
<1>15. CASE ReportPorts
  <2>1. issues' \subseteq Issues
    <3>1. \A p \in Faults : [rule |-> PortRule(p), name |-> p, ver |-> stat[p].ver] \in Issues
      BY DEF Faults, Issues
    <3> QED
      BY <1>15, <3>1 DEF ReportPorts, PortIssues
  <2> QED
    BY <1>15, <2>1 DEF ReportPorts
<1>16. CASE ReportFsms
  <2>1. FsmIssues(Kiss2 \cap Current.local) \subseteq Issues
    BY DEF FsmIssues, Kiss2, Issues
  <2>2. issues' \subseteq Issues
    BY <1>16, <2>1 DEF ReportFsms
  <2>3. doomed' \subseteq Fsms
    BY <1>16 DEF ReportFsms, Kiss2
  <2>4. pc' = "done" /\ pc = "fsms" /\ UNCHANGED <<setup, enable, files, silent, history>>
    BY <1>16 DEF ReportFsms
  <2> QED
    BY <2>2, <2>3, <2>4
<1>17. CASE CommandThrows
  BY <1>17 DEF CommandThrows
<1>18. CASE ExitJvm
  <2>1. 0 \in Vers
    BY DEF Vers
  <2>2. kiss' \in [Fsms -> Vers]
    BY <1>18, <2>1 DEF ExitJvm
  <2>3. top' = FALSE /\ enable' = FALSE /\ silent' = FALSE
    BY <1>18 DEF ExitJvm, MemoryLost
  <2>4. top' \in BOOLEAN
    BY ONLY <2>3
  <2>5. enable' \in BOOLEAN
    BY ONLY <2>3
  <2>6. silent' \in BOOLEAN
    BY ONLY <2>3
  <2> QED
    BY <1>18, <2>2, <2>4, <2>5, <2>6 DEF ExitJvm, MemoryLost
<1>19. CASE Crash
  BY <1>19 DEF Crash, MemoryLost
<1>20. CASE UNCHANGED vars
  BY <1>20 DEF vars
<1> QED
  BY <1>1, <1>2, <1>3, <1>4, <1>5, <1>6, <1>7, <1>8, <1>9, <1>10, <1>11, <1>12, <1>13, <1>14, <1>15, <1>16, <1>17, <1>18, <1>19, <1>20
  DEF Next, Finished

LEMMA NextKissInv == IInv /\ [Next]_vars => KissInv'
<1> SUFFICES ASSUME IInv, [Next]_vars PROVE KissInv'
  OBVIOUS
<1> USE ScansAssumption
    DEF IInv, TypeOK, KissInv, KissAccounted, Kiss2, Scans, Vers, Phases, setup, fixed,
        files, history
<1>1. ASSUME NEW t \in BOOLEAN, NEW r \in Profiles, Begin(t, r)
       PROVE  KissInv'
  BY <1>1 DEF Begin
<1>2. CASE LoadRules
  BY <1>2 DEF LoadRules
<1>3. CASE Probe
  BY <1>3 DEF Probe
<1>4. CASE CheckFiles
  BY <1>4 DEF CheckFiles
<1>5. CASE Elaborate
  BY <1>5 DEF Elaborate
<1>6. CASE DetectFsms
  <2>1. \A f \in Fsms : kiss'[f] = kiss[f] \/ kiss'[f] = scan
    BY <1>6 DEF DetectFsms, Exported
  <2>2. pc = "detect" /\ pc' = "export" /\ UNCHANGED <<scan, doomed, session, aborted>>
    BY <1>6 DEF DetectFsms
  <2>3. scan \in Nat /\ \A f \in Fsms : kiss[f] \in Nat
    OBVIOUS
  <2>4. \A f \in Fsms : kiss'[f] <= scan'
    BY <2>1, <2>2, <2>3
  <2>5. KissAccounted'
    BY <2>1, <2>2
  <2>6. \A f \in Kiss2' : kiss'[f] \in session' \cup aborted'
    BY <2>1, <2>2
  <2> QED
    BY <2>2, <2>4, <2>5, <2>6
<1>7. CASE ExportIgnored
  BY <1>7 DEF ExportIgnored, Exported
<1>8. CASE ListPorts
  BY <1>8 DEF ListPorts
<1>9. CASE StatOutputs
  BY <1>9 DEF StatOutputs, Measure
<1>10. CASE RemoveLibrary
  BY <1>10 DEF RemoveLibrary
<1>11. CASE ReadLimit
  BY <1>11 DEF ReadLimit
<1>12. CASE NoLimit
  BY <1>12 DEF NoLimit
<1>13. CASE StatInputs
  BY <1>13 DEF StatInputs, Measure
<1>14. CASE ReportClocks
  BY <1>14 DEF ReportClocks
<1>15. CASE ReportPorts
  BY <1>15 DEF ReportPorts
<1>16. CASE ReportFsms
  BY <1>16 DEF ReportFsms
<1>17. CASE CommandThrows
  BY <1>17 DEF CommandThrows
<1>18. CASE ExitJvm
  BY <1>18 DEF ExitJvm, MemoryLost
<1>19. CASE Crash
  BY <1>19 DEF Crash, MemoryLost
<1>20. CASE UNCHANGED vars
  BY <1>20 DEF vars
<1> QED
  BY <1>1, <1>2, <1>3, <1>4, <1>5, <1>6, <1>7, <1>8, <1>9, <1>10, <1>11, <1>12, <1>13, <1>14, <1>15, <1>16, <1>17, <1>18, <1>19, <1>20
  DEF Next, Finished

(* An execution that has not come to its commands yet, or is over, has no    *)
(* results to be right or wrong.                                             *)
LEMMA NoResultsYet ==
    pc' \in {"idle", "load", "probe", "files", "failed"}
    /\ (pc' \in {"load", "probe", "files"} => issues' = {}) => ResultsInv'
BY DEF ResultsInv, LibraryFresh, FilesFresh, IssuesRight, FsmsReported, Exporting,
       Listing, Measuring, OutsDone, Reporting

(* The same of one that did not run the commands at all.                     *)
LEMMA NotSynthesised ==
    pc' \in {"ports", "fsms", "done"} /\ ~Synthesised' => ResultsInv'
BY DEF ResultsInv, FsmsReported

(* What the reported issues are right about does not change during one.      *)
LEMMA SameDesign ==
    UNCHANGED setup =>
        /\ Current' = Current /\ scan' = scan /\ top' = top /\ rules' = rules
        /\ \A i : RightIssue(i)' <=> RightIssue(i)
BY DEF setup, fixed, Current, RightIssue

(* The measurement of the ports of one direction, all commands having worked.*)
LEMMA MeasureFresh ==
    ASSUME NEW l \in Lists, NEW side \in {Outs, Ins}, TypeOK, scan \in Scans,
           Measure(l, side), ~silent', cf \in {0, scan}, lists[l] = scan
    PROVE  /\ cf = scan /\ ~silent
           /\ \A p \in Current.ports \cap side :
                 stat'[p] = [ver |-> scan, bad |-> p \in Current.bad]
           /\ \A p \in Ports : \/ stat'[p] = stat[p]
                               \/ stat'[p] = [ver |-> scan, bad |-> p \in Current.bad]
<1> USE DEF Scans
<1>1. scan # 0 /\ scan \in Nat
  BY ScansAssumption
<1>2. Listed(l, side) = Current.ports \cap side
  BY <1>1 DEF Listed, Current
<1>3. PICK W \in SUBSET Listed(l, side) :
          /\ stat' = [p \in Ports |-> IF p \in W
                                      THEN [ver |-> scan, bad |-> p \in Built.bad \cap BuiltPorts]
                                      ELSE stat[p]]
          /\ silent' = (silent \/ cf = 0 \/ ~(Listed(l, side) \cap BuiltPorts \subseteq W))
  BY DEF Measure
<1>4. ~silent /\ cf # 0 /\ Listed(l, side) \cap BuiltPorts \subseteq W
  BY <1>3
<1>5. cf = scan
  BY <1>4
<1>6. BuiltPorts = Current.ports /\ Built = Current
  BY <1>5, <1>1 DEF BuiltPorts, Built, Current
<1>7. W = Current.ports \cap side
  BY <1>2, <1>4, <1>6
<1>8. side \subseteq Ports
  BY DEF Ports
<1>9. \A p \in Current.ports \cap side : (p \in Built.bad \cap BuiltPorts) = (p \in Current.bad)
  BY <1>6
<1>10. \A p \in Current.ports \cap side :
           stat'[p] = [ver |-> scan, bad |-> p \in Current.bad]
  BY <1>3, <1>7, <1>8, <1>9
<1>11. \A p \in Ports : \/ stat'[p] = stat[p]
                        \/ stat'[p] = [ver |-> scan, bad |-> p \in Current.bad]
  BY <1>3, <1>7, <1>10
<1> QED
  BY <1>4, <1>5, <1>10, <1>11

(* The library and the files, as long as every command has done its work.    *)
LEMMA NextFresh ==
    ASSUME IInv, Synthesised', ~silent', UNCHANGED <<setup, enable>>,
           \/ Elaborate \/ DetectFsms \/ ExportIgnored \/ ListPorts \/ StatOutputs
           \/ RemoveLibrary \/ ReadLimit \/ StatInputs \/ ReportClocks
           \/ ReportPorts \/ ReportFsms
    PROVE  ~silent /\ LibraryFresh' /\ FilesFresh'
<1> USE DEF Exporting, Listing, Measuring, OutsDone, Reporting
<1>1. /\ Current' = Current /\ scan' = scan
      /\ (pc # "idle" => scan \in Scans) /\ TypeOK
  BY SameDesign DEF IInv, TypeOK
<1>2. Synthesised
  BY DEF Synthesised, setup
<1>3. ~silent => LibraryFresh /\ FilesFresh
  BY <1>2 DEF IInv, ResultsInv
<1>4. CASE Elaborate
  BY <1>1, <1>4 DEF Elaborate, LibraryFresh, FilesFresh
<1>5. CASE DetectFsms
  <2>1. pc = "detect" /\ pc' = "export" /\ UNCHANGED <<cf, lists, stat>>
    BY <1>5 DEF DetectFsms
  <2>2. PICK K \in SUBSET Built.marked :
            /\ detected' = scan /\ kiss' = Exported(K)
            /\ silent' = (silent \/ K # Built.marked)
    BY <1>5 DEF DetectFsms
  <2>3. ~silent /\ K = Built.marked
    BY <2>2
  <2>4. cf = scan /\ Built = Current
    BY <1>3, <2>1, <2>3 DEF LibraryFresh, Built, Current
  <2>5. Current.marked \subseteq Fsms
    BY <1>1, <2>1, DesignAssumption DEF TypeOK, Current, DesignType
  <2>6. \A f \in Current.marked : kiss'[f] = scan
    BY <2>2, <2>3, <2>4, <2>5 DEF Exported
  <2> QED
    BY <1>1, <2>1, <2>2, <2>3, <2>4, <2>6 DEF LibraryFresh, FilesFresh
<1>6. CASE ExportIgnored
  <2>1. pc = "export" /\ pc' = "list" /\ UNCHANGED <<cf, detected, lists, stat>>
    BY <1>6 DEF ExportIgnored
  <2>2. PICK K \in SUBSET (Ignored \cap BuiltFsms) :
            /\ kiss' = Exported(K)
            /\ silent' = (silent \/ K # Ignored \cap BuiltFsms)
    BY <1>6 DEF ExportIgnored
  <2>3. ~silent /\ K = Ignored \cap BuiltFsms
    BY <2>2
  <2>4. cf = scan /\ detected = scan /\ Built = Current /\ scan # 0
    BY <1>1, <1>3, <2>1, <2>3, ScansAssumption
    DEF LibraryFresh, FilesFresh, Built, Current, Scans
  <2>5. K = Current.ignored
    BY <2>3, <2>4 DEF Ignored, BuiltFsms, Current
  <2>6. Current.marked \subseteq Fsms /\ Current.ignored \subseteq Fsms
    BY <1>1, <2>1, DesignAssumption DEF TypeOK, Current, DesignType
  <2>7. \A f \in Current.ignored : kiss'[f] = scan
    BY <2>2, <2>5, <2>6 DEF Exported
  <2>8. \A f \in Current.marked : kiss'[f] = scan
    BY <1>3, <2>1, <2>2, <2>3, <2>6 DEF Exported, FilesFresh
  <2> QED
    BY <1>1, <2>1, <2>3, <2>4, <2>7, <2>8 DEF LibraryFresh, FilesFresh
<1>7. CASE ListPorts
  <2>1. pc = "list" /\ pc' = "statOut" /\ UNCHANGED <<cf, detected, kiss, stat>>
    BY <1>7 DEF ListPorts
  <2>2. ~silent /\ lists' = [l \in Lists |-> scan]
    BY <1>7 DEF ListPorts
  <2> QED
    BY <1>1, <1>3, <2>1, <2>2 DEF LibraryFresh, FilesFresh
<1>8. CASE StatOutputs
  <2>1. /\ pc = "statOut" /\ pc' = "remove" /\ Measure("out", Outs)
        /\ UNCHANGED <<cf, detected, lists, kiss>>
    BY <1>8 DEF StatOutputs
  <2>2. ~silent
    BY <2>1 DEF Measure
  <2>3. cf = scan /\ lists["out"] = scan
    BY <1>3, <2>1, <2>2 DEF LibraryFresh, FilesFresh, Lists
  <2>4. \A p \in Current.ports \cap Outs : Measured(p)'
    BY <1>1, <2>1, <2>3, MeasureFresh DEF Measured, Lists
  <2> QED
    BY <1>1, <1>3, <2>1, <2>2, <2>3, <2>4 DEF LibraryFresh, FilesFresh
<1>9. CASE RemoveLibrary
  BY <1>1, <1>3, <1>9 DEF RemoveLibrary, LibraryFresh, FilesFresh, Measured
<1>10. CASE ReadLimit
  BY <1>1, <1>3, <1>10 DEF ReadLimit, LibraryFresh, FilesFresh, Measured, files
<1>11. CASE StatInputs
  <2>1. /\ pc = "statIn" /\ pc' = "clocks" /\ Measure("in", Ins)
        /\ UNCHANGED <<cf, detected, lists, kiss>>
    BY <1>11 DEF StatInputs
  <2>2. ~silent
    BY <2>1 DEF Measure
  <2>3. cf \in {0, scan} /\ lists["in"] = scan
    BY <1>3, <2>1, <2>2 DEF LibraryFresh, FilesFresh, Lists
  <2>4. /\ cf = scan
        /\ \A p \in Current.ports \cap Ins :
              stat'[p] = [ver |-> scan, bad |-> p \in Current.bad]
        /\ \A p \in Ports : \/ stat'[p] = stat[p]
                            \/ stat'[p] = [ver |-> scan, bad |-> p \in Current.bad]
    BY <1>1, <2>1, <2>3, MeasureFresh DEF Lists
  <2>5. \A p \in Current.ports \cap Outs : Measured(p)'
    BY <1>1, <1>3, <2>1, <2>2, <2>4 DEF FilesFresh, Measured, Ports
  <2>6. \A p \in Current.ports \cap Ins : Measured(p)'
    BY <1>1, <2>4 DEF Measured
  <2> QED
    BY <1>1, <1>3, <2>1, <2>2, <2>4, <2>5, <2>6 DEF LibraryFresh, FilesFresh
<1>12. CASE ReportClocks
  BY <1>1, <1>3, <1>12 DEF ReportClocks, LibraryFresh, FilesFresh, Measured, files
<1>13. CASE ReportPorts
  BY <1>1, <1>3, <1>13 DEF ReportPorts, LibraryFresh, FilesFresh, Measured, files
<1>14. CASE ReportFsms
  BY <1>1, <1>3, <1>14 DEF ReportFsms, LibraryFresh, FilesFresh, Measured, files
<1> QED
  BY <1>4, <1>5, <1>6, <1>7, <1>8, <1>9, <1>10, <1>11, <1>12, <1>13, <1>14

(* The issues found on clocks, ports and state machines are right if the     *)
(* files they are read from are.                                             *)
LEMMA ReportsRight ==
    ASSUME IInv, Synthesised, ~silent, UNCHANGED <<setup, enable, files, silent>>,
           ReportClocks \/ ReportPorts \/ ReportFsms
    PROVE  IssuesRight' /\ FsmsReported'
<1> USE DEF Exporting, Listing, Measuring, OutsDone, Reporting
<1>1. LibraryFresh /\ FilesFresh /\ IssuesRight /\ TypeOK
  BY DEF IInv, ResultsInv
<1>2. /\ Current' = Current /\ scan' = scan /\ rules' = rules /\ top' = top
      /\ \A i : RightIssue(i)' <=> RightIssue(i)
  BY SameDesign
<1>3. CASE ReportClocks
  <2>1. PICK found \in SUBSET (rules \cap ClockRules) :
            issues' = issues \cup
                {[rule |-> r, name |-> "clk", ver |-> lists["clk"]] : r \in found}
    BY <1>3 DEF ReportClocks, BrokenClockRules
  <2>2. pc = "clocks" /\ pc' = "ports"
    BY <1>3 DEF ReportClocks
  <2>3. lists["clk"] = scan /\ "clk" \notin Ports
    BY <1>1, <2>2, NamesAssumption DEF FilesFresh, Lists
  <2>4. \A i \in issues' : RightIssue(i)
    BY <1>1, <2>1, <2>2, <2>3 DEF IssuesRight, RightIssue
  <2> QED
    BY <1>2, <2>2, <2>4 DEF IssuesRight, FsmsReported
<1>4. CASE ReportPorts
  <2>1. pc = "ports" /\ pc' = "fsms"
    BY <1>4 DEF ReportPorts
  <2>2. cf = scan /\ scan # 0
    BY <1>1, <2>1, ScansAssumption DEF LibraryFresh, TypeOK, Scans
  <2>3. Current.ports \subseteq Ports
    BY <1>1, <2>1, DesignAssumption DEF TypeOK, Current, DesignType
  <2>4. \A p \in Current.ports : stat[p].ver = scan /\ stat[p].bad = (p \in Current.bad)
    <3> SUFFICES ASSUME NEW p \in Current.ports
                 PROVE  stat[p].ver = scan /\ stat[p].bad = (p \in Current.bad)
      OBVIOUS
    <3>1. Measured(p)
      BY <1>1, <2>1, <2>3 DEF FilesFresh, Ports
    <3> QED
      <4>1. stat[p].ver = [ver |-> scan, bad |-> p \in Current.bad].ver
        BY <3>1, Zenon DEF Measured
      <4>2. stat[p].bad = [ver |-> scan, bad |-> p \in Current.bad].bad
        BY <3>1, Zenon DEF Measured
      <4>3. ASSUME NEW a, NEW b PROVE [ver |-> a, bad |-> b].ver = a /\ [ver |-> a, bad |-> b].bad = b
        OBVIOUS
      <4> QED
        BY <4>1, <4>2, <4>3, Zenon
  <2>5. issues' = IF top /\ Current.topFile \in Current.sources THEN issues \cup
               {[rule |-> PortRule(p), name |-> p, ver |-> stat[p].ver] : p \in Faults}
               ELSE issues
    BY <1>4, <2>2 DEF ReportPorts, PortIssues, Built, Current
  <2>6. \A p \in Faults :
            RightIssue([rule |-> PortRule(p), name |-> p, ver |-> stat[p].ver])
    BY <2>4 DEF Faults, RightIssue
  <2>7. \A i \in issues' : RightIssue(i)
    BY <1>1, <2>1, <2>5, <2>6 DEF IssuesRight
  <2>8. \A p \in Current.bad \cap Current.ports : PortRule(p) \in rules =>
            p \in Faults /\ stat[p].ver = scan
    BY <2>3, <2>4 DEF Faults
  <2>9. FaultyPortsReported'
    BY <1>2, <2>5, <2>8 DEF FaultyPortsReported
  <2> QED
    BY <1>2, <2>1, <2>7, <2>9 DEF IssuesRight, FsmsReported
<1>5. CASE ReportFsms
  <2>1. pc = "fsms" /\ pc' = "done"
    BY <1>5 DEF ReportFsms
  <2> DEFINE Own == FsmIssues(Kiss2 \cap Current.local)
  <2>2. PICK wrong \in SUBSET Own :
            /\ \A i \in Own : i.rule = "CNE_04600" => i \in wrong
            /\ issues' = issues \cup wrong
    BY <1>5 DEF ReportFsms
  <2>3. scan # 0
    BY <1>1, <2>1, ScansAssumption DEF TypeOK, Scans
  <2>4. \A f \in Current.marked \cup Current.ignored : kiss[f] = scan
    BY <1>1, <2>1 DEF FilesFresh
  <2>5. Current.marked \subseteq Fsms /\ Current.ignored \subseteq Fsms
    BY <1>1, <2>1, DesignAssumption DEF TypeOK, Current, DesignType
  <2>6. \A i \in Own : RightIssue(i)
    BY <2>4, NamesAssumption DEF FsmIssues, Kiss2, RightIssue
  <2>7. \A i \in issues' : RightIssue(i)
    BY <1>1, <2>1, <2>2, <2>6 DEF IssuesRight
  <2>8. FaultyPortsReported'
    BY <1>1, <1>2, <2>1, <2>2 DEF IssuesRight, FaultyPortsReported
  <2>9. ASSUME "CNE_04600" \in rules,
               NEW f \in (Current.marked \cup Current.ignored) \cap Current.local
        PROVE  [rule |-> "CNE_04600", name |-> f, ver |-> scan] \in issues'
    <3>1. f \in Kiss2 \cap Current.local /\ kiss[f] = scan
      BY <2>3, <2>4, <2>5 DEF Kiss2
    <3>2. "CNE_04600" \in rules \cap FsmRules
      BY <2>9 DEF FsmRules
    <3>3. [rule |-> "CNE_04600", name |-> f, ver |-> scan] \in Own
      BY <3>1, <3>2 DEF FsmIssues
    <3> QED
      BY <2>2, <3>3
  <2> QED
    BY <1>2, <2>1, <2>7, <2>8, <2>9 DEF IssuesRight, FsmsReported
<1> QED
  BY <1>3, <1>4, <1>5

LEMMA NextResultsInv == IInv /\ [Next]_vars => ResultsInv'
<1> SUFFICES ASSUME IInv, [Next]_vars PROVE ResultsInv'
  OBVIOUS
<1>1. ASSUME NEW t \in BOOLEAN, NEW r \in Profiles, Begin(t, r)
      PROVE  ResultsInv'
  BY <1>1, NoResultsYet DEF Begin
<1>2. CASE LoadRules
  BY <1>2, NoResultsYet DEF LoadRules, IInv, ResultsInv
<1>3. CASE Probe
  BY <1>3, NoResultsYet, NotSynthesised DEF Probe, IInv, ResultsInv, Synthesised
<1>4. CASE CheckFiles
  <2>1. CASE rules \cap SynthGate = {}
    BY <1>4, <2>1, NotSynthesised DEF CheckFiles, Synthesised, setup
  <2>2. CASE rules \cap SynthGate # {}
    <3>1. pc = "files" /\ pc' = "elaborate" /\ UNCHANGED setup
      BY <1>4, <2>2 DEF CheckFiles
    <3>2. issues = {} /\ "log" \notin Ports
      BY <3>1, NamesAssumption DEF IInv, ResultsInv
    <3>3. \A i \in issues' : i.name = "log" /\ i.ver = scan
      BY <1>4, <3>2 DEF CheckFiles
    <3>4. \A i \in issues' : RightIssue(i)'
      BY <3>1, <3>2, <3>3, SameDesign DEF RightIssue
    <3> QED
      BY <3>1, <3>4 DEF ResultsInv, LibraryFresh, FilesFresh, IssuesRight, FsmsReported,
         Exporting, Listing, Measuring, OutsDone, Reporting
  <2> QED
    BY <2>1, <2>2
<1>5. CASE \/ Elaborate \/ DetectFsms \/ ExportIgnored \/ ListPorts \/ StatOutputs
           \/ RemoveLibrary \/ ReadLimit \/ StatInputs
  <2>1. /\ UNCHANGED <<setup, enable, issues>>
        /\ pc \in {"elaborate", "detect", "export", "list", "statOut", "remove", "limit", "statIn"}
        /\ pc' \in {"detect", "export", "list", "statOut", "remove", "limit", "statIn", "clocks"}
    BY <1>5 DEF Elaborate, DetectFsms, ExportIgnored, ListPorts, StatOutputs,
       RemoveLibrary, ReadLimit, StatInputs
  <2>2. Synthesised' => Synthesised
    BY <2>1 DEF Synthesised, setup
  <2>3. Synthesised' /\ ~silent' => ~silent /\ LibraryFresh' /\ FilesFresh'
    BY <1>5, <2>1, NextFresh
  <2>4. Synthesised' /\ ~silent' => \A i \in issues : RightIssue(i)
    BY <2>1, <2>2, <2>3 DEF IInv, ResultsInv, IssuesRight, Exporting
  <2>5. Synthesised' /\ ~silent' => IssuesRight'
    BY <2>1, <2>4, SameDesign DEF IssuesRight
  <2> QED
    BY <2>1, <2>3, <2>5 DEF ResultsInv, FsmsReported
<1>6. CASE ReportClocks \/ ReportPorts \/ ReportFsms
  <2>1. /\ UNCHANGED <<setup, enable, files, silent>>
        /\ pc \in {"clocks", "ports", "fsms"} /\ pc' \in {"ports", "fsms", "done"}
    BY <1>6 DEF ReportClocks, ReportPorts, ReportFsms
  <2>2. CASE Synthesised' /\ ~silent'
    <3>1. Synthesised /\ ~silent
      BY <2>1, <2>2 DEF Synthesised, setup
    <3>2. LibraryFresh' /\ FilesFresh'
      BY <1>6, <2>1, <2>2, NextFresh
    <3>3. IssuesRight' /\ FsmsReported'
      BY <1>6, <2>1, <3>1, ReportsRight
    <3> QED
      BY <2>1, <3>2, <3>3 DEF ResultsInv
  <2>3. CASE ~(Synthesised' /\ ~silent')
    BY <2>1, <2>3 DEF ResultsInv, FsmsReported
  <2> QED
    BY <2>2, <2>3
<1>7. CASE NoLimit \/ CommandThrows \/ ExitJvm \/ Crash
  BY <1>7, NoResultsYet DEF NoLimit, CommandThrows, ExitJvm, Crash, MemoryLost
<1>8. CASE UNCHANGED vars
  <2>1. UNCHANGED <<setup, enable, files, issues, silent, pc>>
    BY <1>8 DEF vars
  <2>2. Current' = Current /\ scan' = scan /\ rules' = rules /\ top' = top
    BY <2>1, SameDesign
  <2>3. \A i : RightIssue(i)' <=> RightIssue(i)
    BY <2>1, SameDesign
  <2>4. Synthesised' = Synthesised
    BY <2>1 DEF Synthesised, setup
  <2> QED
    BY <2>1, <2>2, <2>3, <2>4 DEF IInv, ResultsInv, LibraryFresh, FilesFresh, IssuesRight,
       FaultyPortsReported, FsmsReported, Measured, files
<1> QED
  BY <1>1, <1>2, <1>3, <1>4, <1>5, <1>6, <1>7, <1>8 DEF Next, Finished

LEMMA InitIInv == Init => IInv
<1> SUFFICES ASSUME Init PROVE IInv
  OBVIOUS
<1>1. TypeOK
  BY InitTypeOK
<1> QED
  BY <1>1 DEF Init, IInv, KissInv, KissAccounted, Kiss2, ResultsInv, Synthesised, FsmsReported

LEMMA Inductive == Spec => []IInv
<1>1. IInv /\ [Next]_vars => IInv'
  BY NextTypeOK, NextKissInv, NextResultsInv DEF IInv
<1> QED
  BY InitIInv, <1>1, PTL DEF Spec

(* Every state is well-typed: an issue is always for a rule of the handbook, *)
(* and no file is newer than the last execution.                             *)
THEOREM TypeCorrect == Spec => []TypeOK
BY Inductive, PTL DEF IInv

(* No .kiss2 file outlives the JVM that wrote it unless an execution was cut *)
(* short, whatever the designs, the profiles and the outcome of the commands.*)
THEOREM KissFilesAccountedFor == Spec => []KissAccounted
BY Inductive, PTL DEF IInv, KissInv

(* What an execution whose commands all did their work reports is what its   *)
(* design calls for: nothing is taken from a file of an earlier execution on *)
(* what the design still has, and no fault is missing.                       *)
THEOREM WorkingCommandsReportRight == Spec => []ResultsRight
<1>1. IInv => ResultsRight
  <2> SUFFICES ASSUME ResultsInv PROVE ResultsRight
    BY DEF IInv
  <2>1. pc = "done" /\ Synthesised /\ ~silent =>
            FaultyPortsReported /\ \A i \in issues : RightIssue(i)
    BY DEF ResultsInv, IssuesRight, Exporting
  <2> QED
    BY <2>1 DEF ResultsInv, ResultsRight, OnlyLeftoversAreStale, PortsReported
<1> QED
  BY <1>1, Inductive, PTL
=============================================================================
