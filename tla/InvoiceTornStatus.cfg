SPECIFICATION Spec
CONSTANTS
  Handlers = {hook1}
  Reconciler = rec
  Statuses = {"PENDING", "FAILED", "SETTLED"}
  Totals = {100}
  None = None
  MaxChanges = 2
  MaxFaults = 1
INVARIANT AmountsMatchPhase
