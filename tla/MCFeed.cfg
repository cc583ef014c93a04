SPECIFICATION MCSpec
CONSTANTS
  GwDeliveries = {1}
  GwRequests <- MCRequests
  FeedLast = 3
  FeedMaxDrops = 0
INVARIANTS
  FeedComplete
CHECK_DEADLOCK FALSE
