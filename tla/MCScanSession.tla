---------------------------- MODULE MCScanSession ----------------------------
(* Small sets of settings and modules for the runs of ScanSession.           *)
EXTENDS ScanSession

CONSTANTS f1, f2

Setting(t, s, r) == [top |-> t, keepSource |-> s, keepReports |-> r]

\* Zamia runs and nothing is kept; and an import of what is kept.
HomeSettings == {Setting(TRUE, FALSE, FALSE), Setting(FALSE, TRUE, TRUE)}

\* A source that is in one of the modules only, so that its report is stale, or
\* unfound, in the other.
SynthOfF2 == {<<f2, "whole">>}

TwoModules == {{f1}, {f2}}
=============================================================================
