SPECIFICATION Spec
CONSTANTS
  o1 = o1
  o2 = o2
  Orders <- MCOneOrder
  TradesLookback = FALSE
  SimulateExpired = FALSE
  OmsForgets = FALSE
  MaxFaults <- MCLeftOver
INVARIANT
  NoLeftOver
CHECK_DEADLOCK FALSE
