SPECIFICATION PathSpec
CONSTANTS
  m1 = m1
  m2 = m2
  m3 = m3
  good = good
  poison = poison
  bad = bad
  t1 = t1
  acme = acme
  cpu = cpu
  cpuName = cpuName
  cpuApi = cpuApi
  None = None
  AccountKeys <- OneKey
  NameOf <- LastPart
  Uids = {uid1}
  Meters = {cpu}
  MeterPhases = {"Published", "Retired"}
  MeterNamesOf <- OwnName
  ApiNameOf <- OwnApiName
  Messages = {m1, m2, m3}
  CeIds = {good, poison, bad}
  Times = {t1}
  CeId <- Carried
  CeTime <- OneTime
  AccountRef <- OneAccount
  MeterName <- OneMeter
  BadEnvelope = {}
  BadPayload = {m3}
  Rejected = {poison}
  Pods = {p1}
  FetchBatch = 2
  MaxFaults = 1
INVARIANTS TypeOK AccountIndexExact MeterIndexExact
PROPERTIES ImplementsConsumer UsageReachesLedger StreamDrains
