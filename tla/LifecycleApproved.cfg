SPECIFICATION AttentiveSpec
CONSTANTS
  NSteps = 3
  HighRisk <- EveryStep
  Plans <- TwoPlans
  Jobs = {j1, j2}
  Requests = {r1}
  Workers = 1
  MaxAttempts = 2
  Created = {"auto"}
  Ops = {"approve"}
  Approves = {"all"}
  Faults = {}
  Budget <- NoLimit
PROPERTY WholePlanDone
CHECK_DEADLOCK FALSE
