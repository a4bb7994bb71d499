--------------------------- MODULE MCYosysSession ---------------------------
(* Small designs and profiles for the runs of YosysSession.                  *)
EXTENDS YosysSession

CONSTANTS m, g, o, i, t

\* One state machine of each kind, one port of each direction, both at fault.
Faulty == [marked |-> {m}, ignored |-> {g}, local |-> {m, g}, ports |-> {o, i},
           bad |-> {o, i}, topFile |-> t, sources |-> {t}]

\* The next version of it: the ports repaired, one state machine gone and the
\* other moved to another module.
Repaired == [marked |-> {m}, ignored |-> {}, local |-> {g}, ports |-> {o, i},
             bad |-> {}, topFile |-> t, sources |-> {t}]

\* A module without state machines and without the output.
Reduced == [marked |-> {}, ignored |-> {}, local |-> {m, g}, ports |-> {i},
            bad |-> {i}, topFile |-> t, sources |-> {t}]

\* The first of them with its top entity in a source of another module.
Elsewhere == [Faulty EXCEPT !.sources = {}]

MCDesigns == {Faulty, Repaired, Reduced, Elsewhere}

MCProfiles == {{}, {"CNE_04600", "STD_05200", "STD_05100", "CNE_06000"},
               {"STD_05200", "STD_03900"}, {"STD_04400", "STD_05100"}}
=============================================================================
