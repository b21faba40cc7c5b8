SPECIFICATION XSpec
CONSTANTS
  None = None
  AppId = AppId
  ClientKey = ClientKey
  ServerKey = ServerKey
  Nobody = Nobody
  q1 = q1
  q2 = q2
  n1 = n1
  Clients = {ClientKey}
  Events = {q1}
  Tokens = {}
  RpcIds = {n1}
  Wires <- PublishedIds
  Wrapped <- PublishedWraps
  Inner <- Published
  Author <- Signer
  Message <- PublishedMessage
  Sent <- ExchangeMessage
  Loops = {l1}
  Callers = {r1, r2}
  NotifCapacity = 1
  SessionTimeout = 0
  Cancellable = FALSE
  EncryptionMode = "Optional"
  Allowed = {}
  Excluded <- NothingExcluded
  ClientMode = "Disabled"
  ClientLoops = {k1}
  ClientCapacity = 1
  Copies = 2
INVARIANTS
  AnswerHasCause
PROPERTIES
  ImplementsRpc
SYMMETRY CallerSymmetry
CHECK_DEADLOCK FALSE
