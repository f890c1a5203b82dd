SPECIFICATION FairSpec
CONSTANTS
  Uids = {uid1, uid2}
  Specs = {spec1, spec2}
  StripeIds = {cus1, cus2}
  Dates <- LateMarch
  None = None
  AllowCustomerDelete = FALSE
  MaxFaults = 2
  MaxUserSteps = 4
INVARIANTS TypeOK NoOrphanCustomer
PROPERTIES StripeTraitKept Converges ChargedThroughStripe DeletionCompletes
CHECK_DEADLOCK FALSE
