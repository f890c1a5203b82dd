SPECIFICATION Spec
CONSTANTS
  m1 = m1
  m2 = m2
  m3 = m3
  m4 = m4
  good = good
  poison = poison
  bad = bad
  t1 = t1
  acct = acct
  meter = meter
  p1 = p1
  p2 = p2
  uid1 = uid1
  uid2 = uid2
  None = None
  CeIds = {good, poison}
  Times = {t1}
  AccountNames = {acct}
  MeterNames = {meter}
  ApiNames = {api1}
  CeId <- CarriedIds
  CeTime <- OneTime
  AccountRef <- OneAccount
  MeterName <- OneMeter
  Rejected = {poison}
  FetchBatch = 2
  Messages = {m1, m2}
  Pods = {p1, p2}
  Uids = {uid1, uid2}
  BadEnvelope = {}
  BadPayload = {}
  MaxFaults = 2
SYMMETRY PodsAndUids
INVARIANTS TypeOK NoEventLost BilledOnce
PROPERTY ImplementsLedger
