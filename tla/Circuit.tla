------------------------------ MODULE Circuit ------------------------------
(***************************************************************************)
(* The circuit breaker that the tool registry puts around a tool.  Time is *)
(* not modelled: while a circuit is OPEN, resetMs may or may not have gone *)
(* by, so a call is either rejected or let through as a probe.             *)
(***************************************************************************)
EXTENDS Naturals

CONSTANT Threshold   \* failureThreshold: consecutive failures that open it

ASSUME CircuitAssumption == Threshold \in Nat \ {0}

(* Failures are only compared with Threshold, so they saturate there. *)
Circuits == [state : {"CLOSED", "OPEN", "HALF"}, failures : 0..Threshold]
NewCircuit == [state |-> "CLOSED", failures |-> 0]

(* isOpen, before and after resetMs.                                       *)
MayReject(c) == c.state = "OPEN"
LetThrough(c) == IF c.state = "OPEN" THEN [c EXCEPT !.state = "HALF"] ELSE c

(* exec, when the guarded function returned or threw.                      *)
Success(c) == NewCircuit
Failure(c) ==
  LET n == IF c.failures < Threshold THEN c.failures + 1 ELSE Threshold
  IN  [state |-> IF c.state = "HALF" \/ n >= Threshold THEN "OPEN" ELSE c.state,
       failures |-> n]
=============================================================================
