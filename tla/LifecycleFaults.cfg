SPECIFICATION Spec
SYMMETRY Symmetry
CONSTANTS
  NSteps = 1
  HighRisk <- LastStep
  Plans <- OnePlan
  Jobs = {j1, j2}
  Requests = {r1, r2}
  Workers = 2
  MaxAttempts = 2
  Created = {"preview", "auto", "scheduled", "plan"}
  Ops = {"approve", "cancel", "continue", "confirm", "install", "refresh"}
  Approves = {"any"}
  Faults = {"tool", "ambiguous", "llm", "skip", "evict", "queue", "clash", "crash"}
  Budget = 2
INVARIANTS CommitsHappened GateInv
PROPERTY ImplementsGate
CHECK_DEADLOCK FALSE
