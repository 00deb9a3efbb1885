SPECIFICATION Spec
SYMMETRY Symmetry
CONSTANTS
  NSteps = 2
  HighRisk <- LastStep
  Plans <- OnePlan
  Jobs = {j1, j2}
  Requests = {r1}
  Workers = 2
  MaxAttempts = 2
  Created = {"auto", "scheduled"}
  Ops = {"cancel"}
  Approves = {"all"}
  Faults = {}
  Budget = 2
PROPERTY CanceledNeverRuns
CHECK_DEADLOCK FALSE
