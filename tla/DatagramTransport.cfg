SPECIFICATION FairLinkSpec
CONSTANTS
  MaxSent = 2
  MaxArrivals = 3
  Kinds = {"snapshot", "event", "bad"}
INVARIANT NothingLost
PROPERTY NewestArrives
PROPERTY QueuesDrain
PROPERTY LinkRegisterSpec
CHECK_DEADLOCK FALSE
