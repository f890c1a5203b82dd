SPECIFICATION FairSpec
CONSTANTS
  Handlers = {hook1}
  Reconciler = rec
  Statuses = {"PENDING", "FAILED", "SETTLED"}
  Totals = {100, 250}
  None = None
  MaxChanges = 2
  MaxFaults = 1
INVARIANTS TypeOK PaidOnlyIfSettled
PROPERTY SelfHeals
