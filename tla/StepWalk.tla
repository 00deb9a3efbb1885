------------------------------ MODULE StepWalk ------------------------------
(***************************************************************************)
(* What the executor promises, whatever its steps expand to: the plan's    *)
(* steps are left behind one at a time, in the plan's order, and the walk  *)
(* ends well only behind the last of them; it may end badly at any step    *)
(* (an error, or a step that waits for an approval).  AgentGraph implements*)
(* it.                                                                     *)
(***************************************************************************)
EXTENDS Integers

VARIABLES size, behind, outcome

Init ==
    /\ size = 0 /\ behind = 0
    /\ outcome = "idle"

Start ==
    /\ outcome = "idle"
    /\ outcome' = "walking"
    /\ behind' = 0
    /\ size' \in Nat

Leave ==
    /\ outcome = "walking" /\ behind < size
    /\ behind' = behind + 1
    /\ UNCHANGED <<size, outcome>>

EndWell ==
    /\ outcome = "walking" /\ behind = size
    /\ outcome' = "done"
    /\ UNCHANGED <<size, behind>>

EndBadly ==
    /\ outcome = "walking" /\ behind < size
    /\ outcome' \in {"failed", "halted"}
    /\ UNCHANGED <<size, behind>>

Spec == Init /\ [][Start \/ Leave \/ EndWell \/ EndBadly]_<<size, behind, outcome>>
=============================================================================
