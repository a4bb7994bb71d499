------------------------------ MODULE MipsFlow ------------------------------
(***************************************************************************)
(* The order in which a MIPS processor executes instructions: after the    *)
(* one at pc comes the one at npc, its delay slot if it is a branch.       *)
(***************************************************************************)
EXTENDS Integers

CONSTANTS Space, Vector   \* addresses are below Space

VARIABLES
    pc, npc,   \* what is executed next, and after that
    epc,       \* where the last exception came from
    last       \* what the last instruction did: [kind, to]

vars == <<pc, npc, epc, last>>

Next4(a) == (a + 4) % Space

Plain == last'.kind = "plain" /\ pc' = npc /\ npc' = Next4(npc) /\ UNCHANGED epc
\* The delay slot is executed before the target.
Taken == last'.kind = "taken" /\ pc' = npc /\ npc' = last'.to /\ UNCHANGED epc
\* A likely branch that is not taken: the delay slot is not executed.
Annulled == last'.kind = "annulled" /\ pc' = Next4(npc) /\ npc' = Next4(Next4(npc)) /\ UNCHANGED epc
\* Neither the delay slot nor anything else comes before the handler.
Trap ==
    /\ last'.kind = "trap" /\ pc' = Vector /\ npc' = Next4(Vector)
    /\ epc' = [at |-> Next4(pc), slot |-> npc # Next4(pc)]
\* The debugger goes elsewhere.
Moved == last'.kind = "moved" /\ npc' = Next4(pc') /\ UNCHANGED epc

Init == pc \in 0 .. Space - 1 /\ npc = Next4(pc) /\ epc = [at |-> 0, slot |-> FALSE] /\ last.kind = "none"
Next == Plain \/ Taken \/ Annulled \/ Trap \/ Moved
Spec == Init /\ [][Next]_vars
=============================================================================
