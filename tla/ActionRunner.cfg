SPECIFICATION Spec
CONSTANTS
  Cooldown = 2
  MaxCooldown = 2
  MaxTime = 3
  TicksPerSecond = 2
  Configurations <- SmallConfigurations
CHECK_DEADLOCK FALSE
INVARIANTS
  TypeOK
PROPERTIES
  SuccessOncePerRecovery
  OncePerStretch
  RunsOutsideCooldown
  IncidentRunsAction
