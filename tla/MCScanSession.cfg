CONSTANTS
    f1 = f1
    f2 = f2
    Files = {f1, f2}
    Rules = {r1}
    Modules <- TwoModules
    Settings <- HomeSettings
    MaxScans = 2
    SynthScans = {1, 2}
    SynthRuns <- SynthOfF2
SPECIFICATION Spec
INVARIANT RunsOnOwnInput
INVARIANT NoSilentStaleness
