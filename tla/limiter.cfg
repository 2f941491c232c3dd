SPECIFICATION WorkerSpec
CONSTANTS
  Guests <- MCGuests
  Jobs = {"A", "B"}
  JobOf <- MCJobOf
  Kind <- MCKind
  Limit = 1
INVARIANTS
  NoIdleSlot
  QueueIsWaiting
PROPERTIES
  FirstComeFirstServed
  NoProbeAfterAbort
  ImplementsSlots
  EveryGuestSettles
CHECK_DEADLOCK FALSE
