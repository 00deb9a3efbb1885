SPECIFICATION Spec
SYMMETRY Symmetry
CONSTANTS
  NSteps = 2
  HighRisk <- LastStep
  Plans <- OnePlan
  Jobs = {j1, j2}
  Requests = {r1, r2}
  Workers = 1
  MaxAttempts = 2
  Created = {"auto", "plan", "plan+missing"}
  Ops = {"approve", "cancel", "continue", "confirm", "install", "refresh"}
  Approves = {"any"}
  Faults = {"tool", "llm", "skip", "queue", "clash", "db"}
  Budget = 2
INVARIANTS EffectsAtMostOnce HighRiskGated
CHECK_DEADLOCK FALSE
