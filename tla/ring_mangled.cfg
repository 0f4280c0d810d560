SPECIFICATION Spec
CONSTANTS
  p1 = p1
  p2 = p2
  Producers <- OneProducer
  SlotCount = 2
  MaxAttempts = 1
  MaxWrites = 3
  Oversized <- NoMessages
  MaxCrashes = 0
  Joined = FALSE
  MaxUnread = 0
INVARIANT DeliveredIntact
