SPECIFICATION Spec
CONSTANTS
  Offers = {basic, pro}
  Customers = {ba1}
  None = None
  MaxFaults = 0
  MaxUserSteps = 3
INVARIANT OnePlanAtRest
CHECK_DEADLOCK FALSE
