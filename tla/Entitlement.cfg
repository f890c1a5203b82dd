SPECIFICATION FairSpec
CONSTANTS
  Offers = {basic, pro}
  Customers = {ba1, ba2}
  None = None
  MaxFaults = 1
  MaxUserSteps = 4
INVARIANTS TypeOK OneOpenAssignment
PROPERTIES NoOrphanAssignment Converges DeletionCompletes
CHECK_DEADLOCK FALSE
