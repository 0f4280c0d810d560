SPECIFICATION PollingSpec
CONSTANTS
  p1 = p1
  p2 = p2
  Producers <- TwoProducers
  SlotCount = 4
  MaxAttempts = 1
  MaxWrites = 6
  Oversized <- LastMessage
  MaxCrashes = 0
  Joined = TRUE
  MaxUnread = 3
INVARIANT CallsNeverMeet
PROPERTIES ImplementsContract EventuallyDelivered
