SPECIFICATION GSpec
CONSTANTS
  None = None
  AppId = AppId
  c1 = c1
  e1 = e1
  e4 = e4
  w1 = w1
  w1b = w1b
  w4 = w4
  t1 = t1
  n1 = n1
  Clients = {c1}
  Events = {e1, e4}
  Tokens = {t1}
  RpcIds = {n1}
  Wires = {w1, w1b}
  Wrapped = {w1, w1b}
  Inner <- GatewayInner
  Author <- GatewayAuthor
  Message <- GatewayMessage
  Loops = {l1, l2}
  Callers = {r1, r2}
  NotifCapacity = 2
  SessionTimeout = 0
  Cancellable = FALSE
  EncryptionMode = "Optional"
  Allowed = {}
  Excluded <- NothingExcluded
INVARIANTS
  Answerable
  MappedIsTracked
  InactiveIsClosed
  OnceUntilStopped
  HoldersProceed
PROPERTIES
  PublishesRestoredId
  ForgetsOnlyAnswered
SYMMETRY CallerSymmetry
CHECK_DEADLOCK FALSE
