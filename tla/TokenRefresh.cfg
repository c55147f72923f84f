SPECIFICATION FairSpec
CONSTANTS
  o1 = o1
  o2 = o2
  Orders <- MCOneOrder
  TradesLookback = FALSE
  SimulateExpired = FALSE
  OmsForgets = FALSE
  MaxFaults <- MCRefresh
PROPERTIES
  TokenRefreshed
CHECK_DEADLOCK FALSE
