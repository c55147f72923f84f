SPECIFICATION FairSpec
CONSTANTS
  Cases <- MCCases
  Size = 2
  DefaultMargin = "CROSS"
  TradesLookback = TRUE
  MaxFaults <- MCFaults
INVARIANTS
  TypeOK
  ReportsTrue
  FillsExact
  ViewExact
  FieldsAgree
PROPERTIES
  KeepsPromise
  QuantitiesLearned
CHECK_DEADLOCK FALSE
