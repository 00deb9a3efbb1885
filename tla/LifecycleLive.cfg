SPECIFICATION FairSpec
CONSTANTS
  NSteps = 1
  HighRisk <- LastStep
  Plans <- OnePlan
  Jobs = {j1, j2}
  Requests = {r1}
  Workers = 1
  MaxAttempts = 2
  Created = {"preview", "approval", "auto", "scheduled", "plan", "plan+missing"}
  Ops = {"approve", "cancel", "continue", "confirm", "install", "refresh"}
  Approves = {"all"}
  Faults = {"tool", "llm"}
  Budget = 2
PROPERTY DueReachesWorker
PROPERTY RunningEnds
CHECK_DEADLOCK FALSE
