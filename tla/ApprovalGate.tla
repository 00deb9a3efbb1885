---------------------------- MODULE ApprovalGate ----------------------------
(***************************************************************************)
(* What the approval flow promises, without rows, jobs or plans: a user    *)
(* grants step ids, steps act, and a high-risk step acts only when its id  *)
(* was granted before.                                                     *)
(***************************************************************************)
CONSTANTS Steps, Risky

VARIABLES granted, acted

gate == <<granted, acted>>

GateInit == granted = {} /\ acted = {}

Grant(S) ==
  /\ granted' = granted \cup S
  /\ UNCHANGED acted

GateAct(s) ==
  /\ s \in Risky => s \in granted
  /\ acted' = acted \cup {s}
  /\ UNCHANGED granted

GateNext == (\E S \in SUBSET Steps : Grant(S)) \/ (\E s \in Steps : GateAct(s))

GateSpec == GateInit /\ [][GateNext]_gate
=============================================================================
