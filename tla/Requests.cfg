SPECIFICATION Spec
CONSTANTS
  None = None
  AppId = AppId
  c1 = c1
  c2 = c2
  e1 = e1
  e2 = e2
  e4 = e4
  w1 = w1
  w1b = w1b
  w2 = w2
  w3 = w3
  w4 = w4
  t1 = t1
  n1 = n1
  n2 = n2
  Clients = {c1, c2}
  Events = {e1, e2}
  Tokens = {t1}
  RpcIds = {n1, n2}
  Wires = {w1, w2, w3}
  Wrapped = {w1, w2}
  Inner <- TrafficInner
  Author <- TrafficAuthor
  Message <- TrafficMessage
  Loops = {l1}
  Callers = {r1}
  NotifCapacity = 2
  SessionTimeout = 0
  Cancellable = TRUE
  EncryptionMode = "Optional"
  Allowed = {}
  Excluded <- NothingExcluded
INVARIANTS
  TypeOK
  
  ResponseRouting
  TokensFollowRequest
  MirrorsUniformClient
PROPERTIES
  ImplementsService
CHECK_DEADLOCK FALSE
