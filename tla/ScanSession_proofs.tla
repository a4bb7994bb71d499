------------------------- MODULE ScanSession_proofs -------------------------
(***************************************************************************)
(* What holds of the sensor and the scanner home for any number of          *)
(* executions, files and rules, and for every set of modules and settings.  *)
(***************************************************************************)
EXTENDS ScanSession, TLAPS

LEMMA OrIsBoolean == ASSUME NEW x, NEW a, NEW b, x = (a \/ b) PROVE x \in BOOLEAN
OBVIOUS

\* What execute() knows of a report is a name.
LEMMA NamesAreNames == TypeOK => \A x \in reports \cup synth : Name(x) \in Names
<1> SUFFICES ASSUME TypeOK, NEW x \in reports \cup synth PROVE Name(x) \in Names
  OBVIOUS
<1>1. x.rule \in Rules
  BY DEF TypeOK, Reports, SynthReports
<1>2. (x.by = 0) \in BOOLEAN
  OBVIOUS
<1> QED
  BY <1>1, <1>2 DEF Name, Names

LEMMA InitTypeOK == Init => TypeOK
<1> SUFFICES ASSUME Init PROVE TypeOK
  OBVIOUS
<1>1. scan \in 0 .. MaxScans /\ 0 \in 0 .. MaxScans
  BY ScansAssumption DEF Init
<1>2. pc \in Phases /\ pc = "idle"
  BY DEF Init, Phases
<1>3. opts \in Options
  BY DEF Init, Options, NoOptions
<1>4. conf \in [ConfFiles -> 0 .. MaxScans]
  BY <1>1 DEF Init
<1>5. repDir = TRUE /\ errors = FALSE /\ doomedDir = FALSE
  BY DEF Init
<1>6. repDir \in BOOLEAN
  BY ONLY <1>5
<1>7. errors \in BOOLEAN
  BY ONLY <1>5
<1>8. doomedDir \in BOOLEAN
  BY ONLY <1>5
<1>9. view \in [Scans -> SUBSET Sources]
  BY DEF Init
<1> QED
  BY <1>1, <1>2, <1>3, <1>4, <1>6, <1>7, <1>8, <1>9 DEF Init, TypeOK

LEMMA NextTypeOK == TypeOK /\ [Next]_vars => TypeOK'
<1> SUFFICES ASSUME TypeOK, [Next]_vars PROVE TypeOK'
  OBVIOUS
<1> USE ScansAssumption, SetupAssumption
    DEF TypeOK, Phases, setup, disk, home, tools, static, result
<1>1. ASSUME NEW o \in Settings, NEW p \in Modules, Begin(o, p)
      PROVE  TypeOK'
  <2>1. scan' \in 0 .. MaxScans /\ scan' \in Scans
    BY <1>1 DEF Begin, Scans
  <2> QED
    BY <1>1, <2>1 DEF Begin
<1>2. CASE GenerationFails
  BY <1>2 DEF GenerationFails
<1>3. ASSUME NEW c \in ConfFiles, CopyConfig(c)
      PROVE  TypeOK'
  BY <1>3 DEF CopyConfig
<1>4. CASE CopyConfigFails
  BY <1>4 DEF CopyConfigFails
<1>5. CASE CleanSources
  <2>1. errors' \in BOOLEAN
    BY <1>5, OrIsBoolean DEF CleanSources
  <2> QED
    BY <1>5, <2>1 DEF CleanSources
<1>6. CASE CleanReports
  <2>1. errors' \in BOOLEAN
    BY <1>6, OrIsBoolean DEF CleanReports
  <2> QED
    BY <1>6, <2>1 DEF CleanReports
<1>7. CASE Upload
  <2>1. errors' \in BOOLEAN
    BY <1>7, OrIsBoolean DEF Upload
  <2>2. vhdl' \subseteq Sources
    <3>1. scan \in Scans
      BY <1>7 DEF Upload
    <3>2. PICK bad \in SUBSET proj :
             vhdl' = {s \in vhdl : s.file \notin proj \ bad}
                     \cup {[file |-> f, ver |-> scan] : f \in proj \ bad}
      BY <1>7 DEF Upload
    <3> QED
      BY <3>1, <3>2 DEF Sources
  <2>3. UNCHANGED <<setup, conf, reports, repDir, synth, tools, static, queue, imported,
                    warned, survivors>> /\ pc = "upload" /\ pc' = "start"
    BY <1>7 DEF Upload
  <2> QED
    BY <2>1, <2>2, <2>3 DEF tools, static, setup
<1>8. CASE StartTool
  BY <1>8 DEF StartTool, Scans
<1>9. CASE StartFails
  BY <1>9 DEF StartFails
<1>10. CASE Return
  BY <1>10 DEF Return
<1>11. CASE Collect
  <2>1. errors' \in BOOLEAN
    BY <1>11, OrIsBoolean DEF Collect
  <2>2. queue' \subseteq Names
    BY <1>11, NamesAreNames DEF Collect, GetReportFiles
  <2> QED
    BY <1>11, <2>1, <2>2 DEF Collect
<1>12. ASSUME NEW x \in reports \cup synth, ImportWhole(x)
       PROVE  TypeOK'
  <2>1. x \in Reports \cup SynthReports /\ x.file \in Files
    BY DEF Reports, SynthReports
  <2>2. imported' \subseteq Reports \cup SynthReports /\ unfound' \subseteq Files
    BY <1>12, <2>1 DEF ImportWhole, NextUp
  <2>3. queue' \subseteq Names
    BY <1>12 DEF ImportWhole, NextUp
  <2> QED
    BY <1>12, <2>2, <2>3 DEF ImportWhole, NextUp
<1>13. ASSUME NEW x \in reports \cup synth, ImportPart(x)
       PROVE  TypeOK'
  BY <1>13 DEF ImportPart, NextUp
<1>14. ASSUME NEW x \in reports \cup synth, ImportNameless(x)
       PROVE  TypeOK'
  BY <1>14 DEF ImportNameless, NextUp
<1>15. CASE Warn
  BY <1>15 DEF Warn
<1>16. CASE DropSources
  <2>1. errors' \in BOOLEAN
    BY <1>16, OrIsBoolean DEF DropSources
  <2> QED
    BY <1>16, <2>1 DEF DropSources
<1>17. CASE KeepReports
  BY <1>17 DEF KeepReports
<1>18. CASE DropReports
  <2>1. errors' \in BOOLEAN
    BY <1>18, OrIsBoolean DEF DropReports
  <2> QED
    BY <1>18, <2>1 DEF DropReports
<1>19. CASE CheckDropped
  <2>1. doomedDir' \in BOOLEAN
    BY <1>19, OrIsBoolean DEF CheckDropped
  <2>2. doomed' \subseteq Rules
    BY <1>19 DEF CheckDropped, Reports
  <2> QED
    BY <1>19, <2>1, <2>2 DEF CheckDropped
<1>20. CASE ExitJvm
  <2>1. repDir' \in BOOLEAN
    <3>1. repDir' = (repDir /\ ~(doomedDir /\ reports' = {}))
      BY <1>20 DEF ExitJvm
    <3> QED
      BY ONLY <3>1
  <2> QED
    BY <1>20, <2>1 DEF ExitJvm, MemoryLost, NoOptions, Options
<1>21. CASE Crash
  BY <1>21 DEF Crash, MemoryLost, NoOptions, Options
<1>22. ASSUME NEW t \in Scans, Load(t)
       PROVE  TypeOK'
  BY <1>22 DEF Load
<1>23. ASSUME NEW t \in Scans, NEW r \in Rules, NEW s \in view[t], OpenReport(t, r, s)
       PROVE  TypeOK'
  <2>1. [rule |-> r, by |-> t, kind |-> "part", file |-> s.file, ver |-> s.ver]
          \in Reports
    BY <1>23 DEF Reports, Sources, Kinds
  <2> QED
    BY <1>23, <2>1 DEF OpenReport
<1>24. ASSUME NEW t \in Scans, NEW x \in reports, NEW k \in {"whole", "nameless"},
              CloseReport(t, x, k)
       PROVE  TypeOK'
  <2>1. [x EXCEPT !.kind = k] \in Reports
    BY DEF Reports, Kinds
  <2> QED
    BY <1>24, <2>1 DEF CloseReport
<1>25. ASSUME NEW t \in Scans, ToolEnds(t)
       PROVE  TypeOK'
  BY <1>25 DEF ToolEnds
<1>26. ASSUME NEW r \in Rules, NEW u \in SynthRuns, RunSynth(r, u[1], u[2])
       PROVE  TypeOK'
  <2>1. [rule |-> r, by |-> 0, kind |-> u[2], file |-> u[1], ver |-> scan + 1]
          \in SynthReports
    BY <1>26, SynthAssumption DEF SynthReports, RunSynth, Scans
  <2> QED
    BY <1>26, <2>1 DEF RunSynth
<1>27. CASE UNCHANGED vars
  BY <1>27 DEF vars
<1> QED
  BY <1>1, <1>2, <1>3, <1>4, <1>5, <1>6, <1>7, <1>8, <1>9, <1>10, <1>11,
     <1>12, <1>13, <1>14, <1>15, <1>16, <1>17, <1>18, <1>19, <1>20, <1>21,
     <1>22, <1>23, <1>24, <1>25, <1>26, <1>27 DEF Next, Sensor, Tool, Finished
LEMMA NextConfInv == IInv /\ [Next]_vars => ConfInv'
<1> SUFFICES ASSUME IInv, [Next]_vars PROVE ConfInv'
  OBVIOUS
<1> USE ScansAssumption DEF IInv, TypeOK, ConfInv, ConfigPrefix, ConfFiles, Scans, Configured, setup, disk, home, tools, static, result
<1>1. ASSUME NEW o \in Settings, NEW p \in Modules, Begin(o, p)
       PROVE  ConfInv'
  BY <1>1 DEF Begin
<1>2. CASE GenerationFails
  BY <1>2 DEF GenerationFails
<1>3. ASSUME NEW c \in ConfFiles, CopyConfig(c)
       PROVE  ConfInv'
  BY <1>3 DEF CopyConfig
<1>4. CASE CopyConfigFails
  BY <1>4 DEF CopyConfigFails
<1>5. CASE CleanSources
  BY <1>5 DEF CleanSources
<1>6. CASE CleanReports
  BY <1>6 DEF CleanReports
<1>7. CASE Upload
  BY <1>7 DEF Upload
<1>8. CASE StartTool
  BY <1>8 DEF StartTool
<1>9. CASE StartFails
  BY <1>9 DEF StartFails
<1>10. CASE Return
  BY <1>10 DEF Return
<1>11. CASE Collect
  BY <1>11 DEF Collect
<1>12. ASSUME NEW x \in reports \cup synth, ImportWhole(x)
       PROVE  ConfInv'
  BY <1>12 DEF ImportWhole, NextUp
<1>13. ASSUME NEW x \in reports \cup synth, ImportPart(x)
       PROVE  ConfInv'
  BY <1>13 DEF ImportPart, NextUp
<1>14. ASSUME NEW x \in reports \cup synth, ImportNameless(x)
       PROVE  ConfInv'
  BY <1>14 DEF ImportNameless, NextUp
<1>15. CASE Warn
  BY <1>15 DEF Warn
<1>16. CASE DropSources
  BY <1>16 DEF DropSources
<1>17. CASE KeepReports
  BY <1>17 DEF KeepReports
<1>18. CASE DropReports
  BY <1>18 DEF DropReports
<1>19. CASE CheckDropped
  BY <1>19 DEF CheckDropped
<1>20. CASE ExitJvm
  BY <1>20 DEF ExitJvm, MemoryLost
<1>21. CASE Crash
  BY <1>21 DEF Crash, MemoryLost
<1>22. ASSUME NEW t \in Scans, Load(t)
       PROVE  ConfInv'
  BY <1>22 DEF Load
<1>23. ASSUME NEW t \in Scans, NEW r \in Rules, NEW s \in view[t], OpenReport(t, r, s)
       PROVE  ConfInv'
  BY <1>23 DEF OpenReport
<1>24. ASSUME NEW t \in Scans, NEW x \in reports, NEW k \in {"whole", "nameless"},
              CloseReport(t, x, k)
       PROVE  ConfInv'
  BY <1>24 DEF CloseReport
<1>25. ASSUME NEW t \in Scans, ToolEnds(t)
       PROVE  ConfInv'
  BY <1>25 DEF ToolEnds
<1>26. ASSUME NEW r \in Rules, NEW u \in SynthRuns, RunSynth(r, u[1], u[2])
       PROVE  ConfInv'
  BY <1>26 DEF RunSynth
<1>27. CASE UNCHANGED vars
  BY <1>27 DEF vars
<1> QED
  BY <1>1, <1>2, <1>3, <1>4, <1>5, <1>6, <1>7, <1>8, <1>9, <1>10, <1>11, <1>12, <1>13, <1>14, <1>15, <1>16, <1>17, <1>18, <1>19, <1>20, <1>21, <1>22, <1>23, <1>24, <1>25, <1>26, <1>27
  DEF Next, Sensor, Tool, Finished

LEMMA NextToolInv == IInv /\ [Next]_vars => ToolInv'
<1> SUFFICES ASSUME IInv, [Next]_vars PROVE ToolInv'
  OBVIOUS
<1> USE ScansAssumption DEF IInv, TypeOK, ToolInv, Scans, setup, disk, home, tools, static, result
<1>1. ASSUME NEW o \in Settings, NEW p \in Modules, Begin(o, p)
       PROVE  ToolInv'
  BY <1>1 DEF Begin
<1>2. CASE GenerationFails
  BY <1>2 DEF GenerationFails
<1>3. ASSUME NEW c \in ConfFiles, CopyConfig(c)
       PROVE  ToolInv'
  BY <1>3 DEF CopyConfig
<1>4. CASE CopyConfigFails
  BY <1>4 DEF CopyConfigFails
<1>5. CASE CleanSources
  BY <1>5 DEF CleanSources
<1>6. CASE CleanReports
  BY <1>6 DEF CleanReports
<1>7. CASE Upload
  BY <1>7 DEF Upload
<1>8. CASE StartTool
  BY <1>8 DEF StartTool
<1>9. CASE StartFails
  BY <1>9 DEF StartFails
<1>10. CASE Return
  BY <1>10 DEF Return
<1>11. CASE Collect
  BY <1>11 DEF Collect
<1>12. ASSUME NEW x \in reports \cup synth, ImportWhole(x)
       PROVE  ToolInv'
  BY <1>12 DEF ImportWhole, NextUp
<1>13. ASSUME NEW x \in reports \cup synth, ImportPart(x)
       PROVE  ToolInv'
  BY <1>13 DEF ImportPart, NextUp
<1>14. ASSUME NEW x \in reports \cup synth, ImportNameless(x)
       PROVE  ToolInv'
  BY <1>14 DEF ImportNameless, NextUp
<1>15. CASE Warn
  BY <1>15 DEF Warn
<1>16. CASE DropSources
  BY <1>16 DEF DropSources
<1>17. CASE KeepReports
  BY <1>17 DEF KeepReports
<1>18. CASE DropReports
  BY <1>18 DEF DropReports
<1>19. CASE CheckDropped
  BY <1>19 DEF CheckDropped
<1>20. CASE ExitJvm
  BY <1>20 DEF ExitJvm, MemoryLost
<1>21. CASE Crash
  BY <1>21 DEF Crash, MemoryLost
<1>22. ASSUME NEW t \in Scans, Load(t)
       PROVE  ToolInv'
  BY <1>22 DEF Load
<1>23. ASSUME NEW t \in Scans, NEW r \in Rules, NEW s \in view[t], OpenReport(t, r, s)
       PROVE  ToolInv'
  BY <1>23 DEF OpenReport
<1>24. ASSUME NEW t \in Scans, NEW x \in reports, NEW k \in {"whole", "nameless"},
              CloseReport(t, x, k)
       PROVE  ToolInv'
  BY <1>24 DEF CloseReport
<1>25. ASSUME NEW t \in Scans, ToolEnds(t)
       PROVE  ToolInv'
  BY <1>25 DEF ToolEnds
<1>26. ASSUME NEW r \in Rules, NEW u \in SynthRuns, RunSynth(r, u[1], u[2])
       PROVE  ToolInv'
  BY <1>26 DEF RunSynth
<1>27. CASE UNCHANGED vars
  BY <1>27 DEF vars
<1> QED
  BY <1>1, <1>2, <1>3, <1>4, <1>5, <1>6, <1>7, <1>8, <1>9, <1>10, <1>11, <1>12, <1>13, <1>14, <1>15, <1>16, <1>17, <1>18, <1>19, <1>20, <1>21, <1>22, <1>23, <1>24, <1>25, <1>26, <1>27
  DEF Next, Sensor, Tool, Finished

LEMMA NextSourceInv == IInv /\ [Next]_vars => SourceInv'
<1> SUFFICES ASSUME IInv, [Next]_vars PROVE SourceInv'
  OBVIOUS
<1> USE DEF IInv, TypeOK, ToolInv, SourceInv, Configured, Importing, setup, disk, home, tools, static, result
<1>1. ASSUME NEW o \in Settings, NEW p \in Modules, Begin(o, p)
       PROVE  SourceInv'
  BY <1>1 DEF Begin
<1>2. CASE GenerationFails
  BY <1>2 DEF GenerationFails
<1>3. ASSUME NEW c \in ConfFiles, CopyConfig(c)
       PROVE  SourceInv'
  BY <1>3 DEF CopyConfig
<1>4. CASE CopyConfigFails
  BY <1>4 DEF CopyConfigFails
<1>5. CASE CleanSources
  BY <1>5 DEF CleanSources
<1>6. CASE CleanReports
  BY <1>6 DEF CleanReports
<1>7. CASE Upload
  <2>1. PICK bad \in SUBSET proj :
           /\ vhdl' = {s \in vhdl : s.file \notin proj \ bad}
                      \cup {[file |-> f, ver |-> scan] : f \in proj \ bad}
           /\ errors' = (errors \/ bad # {})
    BY <1>7 DEF Upload
  <2>2. ~errors' => vhdl' = {[file |-> f, ver |-> scan] : f \in proj}
    <3>1. SUFFICES ASSUME ~errors' PROVE vhdl' = {[file |-> f, ver |-> scan] : f \in proj}
      OBVIOUS
    <3>2. bad = {} /\ ~errors
      BY <2>1, <3>1
    <3>3. vhdl = {}
      BY <1>7, <3>2 DEF Upload
    <3> QED
      BY <2>1, <3>2, <3>3
  <2>3. /\ pc = "upload" /\ pc' = "start"
        /\ UNCHANGED <<opts, scan, proj, alive, view>>
    BY <1>7 DEF Upload
  <2> QED
    BY <2>2, <2>3
<1>8. CASE StartTool
  BY <1>8 DEF StartTool
<1>9. CASE StartFails
  BY <1>9 DEF StartFails
<1>10. CASE Return
  BY <1>10 DEF Return
<1>11. CASE Collect
  BY <1>11 DEF Collect
<1>12. ASSUME NEW x \in reports \cup synth, ImportWhole(x)
       PROVE  SourceInv'
  BY <1>12 DEF ImportWhole, NextUp
<1>13. ASSUME NEW x \in reports \cup synth, ImportPart(x)
       PROVE  SourceInv'
  BY <1>13 DEF ImportPart, NextUp
<1>14. ASSUME NEW x \in reports \cup synth, ImportNameless(x)
       PROVE  SourceInv'
  BY <1>14 DEF ImportNameless, NextUp
<1>15. CASE Warn
  BY <1>15 DEF Warn
<1>16. CASE DropSources
  BY <1>16 DEF DropSources
<1>17. CASE KeepReports
  BY <1>17 DEF KeepReports
<1>18. CASE DropReports
  BY <1>18 DEF DropReports
<1>19. CASE CheckDropped
  BY <1>19 DEF CheckDropped
<1>20. CASE ExitJvm
  BY <1>20 DEF ExitJvm, MemoryLost
<1>21. CASE Crash
  BY <1>21 DEF Crash, MemoryLost
<1>22. ASSUME NEW t \in Scans, Load(t)
       PROVE  SourceInv'
  BY <1>22 DEF Load
<1>23. ASSUME NEW t \in Scans, NEW r \in Rules, NEW s \in view[t], OpenReport(t, r, s)
       PROVE  SourceInv'
  BY <1>23 DEF OpenReport
<1>24. ASSUME NEW t \in Scans, NEW x \in reports, NEW k \in {"whole", "nameless"},
              CloseReport(t, x, k)
       PROVE  SourceInv'
  BY <1>24 DEF CloseReport
<1>25. ASSUME NEW t \in Scans, ToolEnds(t)
       PROVE  SourceInv'
  BY <1>25 DEF ToolEnds
<1>26. ASSUME NEW r \in Rules, NEW u \in SynthRuns, RunSynth(r, u[1], u[2])
       PROVE  SourceInv'
  BY <1>26 DEF RunSynth
<1>27. CASE UNCHANGED vars
  BY <1>27 DEF vars
<1> QED
  BY <1>1, <1>2, <1>3, <1>4, <1>5, <1>6, <1>7, <1>8, <1>9, <1>10, <1>11, <1>12, <1>13, <1>14, <1>15, <1>16, <1>17, <1>18, <1>19, <1>20, <1>21, <1>22, <1>23, <1>24, <1>25, <1>26, <1>27
  DEF Next, Sensor, Tool, Finished

LEMMA NextReportInv == IInv /\ [Next]_vars => ReportInv'
<1> SUFFICES ASSUME IInv, [Next]_vars PROVE ReportInv'
  OBVIOUS
<1> USE DEF IInv, TypeOK, ToolInv, SourceInv, ReportInv, Own, Configured, Importing, setup, disk, home, tools, static, result
<1>1. ASSUME NEW o \in Settings, NEW p \in Modules, Begin(o, p)
       PROVE  ReportInv'
  BY <1>1 DEF Begin
<1>2. CASE GenerationFails
  BY <1>2 DEF GenerationFails
<1>3. ASSUME NEW c \in ConfFiles, CopyConfig(c)
       PROVE  ReportInv'
  BY <1>3 DEF CopyConfig
<1>4. CASE CopyConfigFails
  BY <1>4 DEF CopyConfigFails
<1>5. CASE CleanSources
  BY <1>5 DEF CleanSources
<1>6. CASE CleanReports
  BY <1>6 DEF CleanReports
<1>7. CASE Upload
  BY <1>7 DEF Upload
<1>8. CASE StartTool
  BY <1>8 DEF StartTool
<1>9. CASE StartFails
  BY <1>9 DEF StartFails
<1>10. CASE Return
  BY <1>10 DEF Return
<1>11. CASE Collect
  BY <1>11 DEF Collect
<1>12. ASSUME NEW x \in reports \cup synth, ImportWhole(x)
       PROVE  ReportInv'
  <2>1. x \in reports \/ x.by = 0
    BY DEF SynthReports
  <2> QED
    BY <1>12, <2>1 DEF ImportWhole, NextUp
<1>13. ASSUME NEW x \in reports \cup synth, ImportPart(x)
       PROVE  ReportInv'
  BY <1>13 DEF ImportPart, NextUp
<1>14. ASSUME NEW x \in reports \cup synth, ImportNameless(x)
       PROVE  ReportInv'
  BY <1>14 DEF ImportNameless, NextUp
<1>15. CASE Warn
  BY <1>15 DEF Warn
<1>16. CASE DropSources
  BY <1>16 DEF DropSources
<1>17. CASE KeepReports
  BY <1>17 DEF KeepReports
<1>18. CASE DropReports
  <2>1. ~errors' => reports' = {}
    BY <1>18 DEF DropReports
  <2>2. pc' = "checkDropped" /\ survivors' = alive /\ alive' = alive
    BY <1>18 DEF DropReports
  <2> QED
    BY <2>1, <2>2
<1>19. CASE CheckDropped
  BY <1>19 DEF CheckDropped
<1>20. CASE ExitJvm
  BY <1>20 DEF ExitJvm, MemoryLost
<1>21. CASE Crash
  BY <1>21 DEF Crash, MemoryLost
<1>22. ASSUME NEW t \in Scans, Load(t)
       PROVE  ReportInv'
  BY <1>22 DEF Load
<1>23. ASSUME NEW t \in Scans, NEW r \in Rules, NEW s \in view[t], OpenReport(t, r, s)
       PROVE  ReportInv'
  BY <1>23 DEF OpenReport
<1>24. ASSUME NEW t \in Scans, NEW x \in reports, NEW k \in {"whole", "nameless"},
              CloseReport(t, x, k)
       PROVE  ReportInv'
  <2>1. PICK y : y = [x EXCEPT !.kind = k]
    OBVIOUS
  <2>2. y.by = x.by /\ y.ver = x.ver
    BY <2>1 DEF Reports
  <2>3. /\ reports' = (reports \ {x}) \cup {y}
        /\ UNCHANGED <<pc, opts, scan, errors, alive, survivors, imported>>
    BY <1>24, <2>1 DEF CloseReport
  <2> QED
    BY <2>2, <2>3
<1>25. ASSUME NEW t \in Scans, ToolEnds(t)
       PROVE  ReportInv'
  BY <1>25 DEF ToolEnds
<1>26. ASSUME NEW r \in Rules, NEW u \in SynthRuns, RunSynth(r, u[1], u[2])
       PROVE  ReportInv'
  BY <1>26 DEF RunSynth
<1>27. CASE UNCHANGED vars
  BY <1>27 DEF vars
<1> QED
  BY <1>1, <1>2, <1>3, <1>4, <1>5, <1>6, <1>7, <1>8, <1>9, <1>10, <1>11, <1>12, <1>13, <1>14, <1>15, <1>16, <1>17, <1>18, <1>19, <1>20, <1>21, <1>22, <1>23, <1>24, <1>25, <1>26, <1>27
  DEF Next, Sensor, Tool, Finished


(* The invariant is inductive ...                                            *)
LEMMA InitIInv == Init => IInv
<1> SUFFICES ASSUME Init PROVE IInv
  OBVIOUS
<1>1. TypeOK
  BY InitTypeOK
<1> QED
  BY <1>1 DEF Init, IInv, TypeOK, ConfInv, ConfigPrefix, ConfFiles, ToolInv,
              SourceInv, ReportInv, Configured, Importing

LEMMA NextIInv == IInv /\ [Next]_vars => IInv'
BY NextTypeOK, NextConfInv, NextToolInv, NextSourceInv, NextReportInv DEF IInv

LEMMA Inductive == Spec => []IInv
BY InitIInv, NextIInv, PTL DEF Spec

(* Every state is well-typed: no execution is imported, copied or running    *)
(* outside the bound, whatever the modules and settings are.                 *)
THEOREM TypeCorrect == Spec => []TypeOK
BY Inductive, PTL DEF IInv

(* A configuration file of the scanner home is never newer than one that is  *)
(* copied before it, across failed copies, crashes and restarts.             *)
THEOREM ConfigInOrder == Spec => []ConfigPrefix
BY Inductive, PTL DEF IInv, ConfInv

(* An analyser that is started without an ERROR line finds the configuration *)
(* and the sources of its own execution and nothing else.                    *)
THEOREM OwnInput == Spec => []RunsOnOwnInput
<1>1. IInv => RunsOnOwnInput
  BY DEF IInv, ConfInv, SourceInv, RunsOnOwnInput, Configured
<1> QED
  BY <1>1, Inductive, PTL

(* A stale issue of the rule checker never gets in silently: there is an      *)
(* ERROR line, or an analyser of an earlier execution had survived it.  What  *)
(* rc-synth has left in the project directory is imported as it is.           *)
THEOREM NotSilentlyStale == Spec => []NoSilentStaleness
<1>1. IInv => NoSilentStaleness
  BY DEF IInv, ReportInv, NoSilentStaleness, Own, Importing
<1> QED
  BY <1>1, Inductive, PTL

(* An execution without an ERROR line cleans up after itself, unless an      *)
(* analyser is still writing.                                                *)
THEOREM CleansUp == Spec => []LeavesHomeClean
<1>1. IInv => LeavesHomeClean
  BY DEF IInv, SourceInv, ReportInv, LeavesHomeClean
<1> QED
  BY <1>1, Inductive, PTL
=============================================================================
