SPECIFICATION Spec
CONSTANTS
  s1 = s1
  s2 = s2
  v1 = v1
  e1 = e1
  e2 = e2
  Selectors <- MCSelectors
  Validators <- MCValidators
  Effects <- MCEffects
  Emails <- MCEmails
  Faults = {"database", "answer"}
  Life = 1
  Margin = 0
  MaxRows = 2
  MaxWork = 3
  MaxTime = 2
SYMMETRY Symmetry
CHECK_DEADLOCK FALSE
INVARIANTS
  TypeOK
  ChoiceHolds
  KeysWhole
  MadeThenFailed
PROPERTIES
  EffectAccount
