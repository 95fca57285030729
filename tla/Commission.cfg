SPECIFICATION ViewSpec
CONSTANTS
  Activation = 2
  LagOf <- MCLagOf
  MaxHeight = 6
CHECK_DEADLOCK FALSE
INVARIANTS
  LatestRatioInForce
  PendingRatioInForce
  SettledRatioInForce
