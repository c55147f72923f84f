SPECIFICATION FairSpec
CONSTANTS
  o1 = o1
  o2 = o2
  Orders <- MCOrders
  TradesLookback = TRUE
  SimulateExpired = FALSE
  OmsForgets = FALSE
  MaxFaults <- MCFaults
INVARIANTS
  TypeOK
  StaleCounterExact
  SentIsOutstanding
  NoLostStaleOrder
  NoSkippedSnapshot
  AwaitedOnItsWay
  SessionAgrees
PROPERTIES
  NoStaleSkipped
  EventuallyReady
  StaleOrdersResolved
CHECK_DEADLOCK FALSE
