SPECIFICATION FairSpec
CONSTANTS
  Names = {cpu, egress}
  Unsupported = {egress}
  Legacy = {uid1}
  Labels = {requests, traffic}
  OldLabels = {requests}
  None = None
  MaxFaults = 1
  MaxUserSteps = 3
INVARIANTS TypeOK NoOrphanMeter
PROPERTIES MetersKept ItemsKept Converges DeletionCompletes
CHECK_DEADLOCK FALSE
