SPECIFICATION FairSpec
CONSTANTS
  cpu = cpu
  egress = egress
  compute = compute
  traffic = traffic
  Uids = {uid1, uid2}
  Titles = {starter, pro}
  Meters = {cpu, egress}
  Labels = {compute, traffic}
  MeterOf <- TwoMeters
  LabelOf <- TwoLabels
  made = made
  Assigned = {made}
  Leftovers <- SixLeftovers
  Dead = Dead
  None = None
  MaxFaults = 1
  MaxUserSteps = 3
INVARIANTS TypeOK PlanComplete NoOrphanPlan
PROPERTIES Converges DeletionCompletes
CHECK_DEADLOCK FALSE
