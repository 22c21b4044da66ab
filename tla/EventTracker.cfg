SPECIFICATION Spec
CONSTANTS
  Checks = {c1, c2}
  Maintenance = maintenance
  EventIds = {e1, e2, e3, e4}
  NoEvent = NoEvent
  MaxSequence = 1
INVARIANTS
  TrackerInv
PROPERTIES
  LedgerSpec
  EventsNeverReopen
