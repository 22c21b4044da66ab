SPECIFICATION FairSpec
CONSTANTS
  Messages = {m1}
  Capacity = 1
  Durations = {0, 1}
  MaxTime = 2
  NoFile = NoFile
  Unreadable = Unreadable
  Plain = Plain
  Indefinite = Indefinite
  Seconds = {0, 1, 3}
  TicksPerSecond = 2
  MaxInt = 3
  Runs = {r1, r2}
INVARIANTS
  MaintenanceInv
PROPERTIES
  RemovalEnables
  ControlFileDisables
  SilenceLastsAsWritten
