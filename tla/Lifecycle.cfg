SPECIFICATION Spec
SYMMETRY Symmetry
CONSTANTS
  NSteps = 2
  HighRisk <- LastStep
  Plans <- OnePlan
  Jobs = {j1, j2}
  Requests = {r1, r2}
  Workers = 2
  MaxAttempts = 2
  Created = {"preview", "approval", "auto", "scheduled", "plan", "plan+missing"}
  Ops = {"approve", "cancel", "continue", "confirm", "install", "refresh"}
  Approves = {"all"}
  Faults = {"tool", "llm", "clash"}
  Budget = 2
INVARIANTS TypeOK NoForgottenRun RunningIsWorkedOn
CHECK_DEADLOCK FALSE
