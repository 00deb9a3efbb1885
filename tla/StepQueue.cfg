SPECIFICATION FairSpec
CONSTANTS
  Processes = {p1}
  Runs <- OneRun
  NSteps = 3
  Tools = {"email.send", "chat.respond", "slack.postMessage"}
  ToolOf <- MixedPlan
  Inline = {"chat.respond"}
  Rebuilt = {"email.send", "chat.respond"}
  Slots <- ThreeSlots
  Attempts = 2
  Retries = 1
  MaxExecs = 2
  Faults = {"fail", "ambiguous", "limit", "queue", "skip", "evict", "crash"}
  Threshold = 1
INVARIANTS TypeOK EffectsInOrder OneEffectPerKey CallsBounded
PROPERTY ExecutionEnds
CHECK_DEADLOCK FALSE
