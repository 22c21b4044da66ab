SPECIFICATION Spec
CONSTANTS
  Messages = {m1, m2}
  Capacity = 2
  Durations <- MCDurations
  MaxTime = 5
INVARIANTS
  TypeOK
PROPERTIES
  SilenceSpec
