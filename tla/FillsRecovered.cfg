SPECIFICATION FairSpec
CONSTANTS
  Cases <- MCLimit
  Size = 1
  DefaultMargin = "CROSS"
  TradesLookback = TRUE
  MaxFaults <- MCFaults
PROPERTY
  FillsRecovered
CHECK_DEADLOCK FALSE
