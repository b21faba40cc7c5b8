SPECIFICATION NSpec
CONSTANTS
  None = None
  AppId = AppId
  c1 = c1
  c2 = c2
  i1 = i1
  i2 = i2
  q1 = q1
  Clients = {c1, c2}
  Events = {i1, i2, q1}
  Tokens = {}
  RpcIds = {1}
  Wires = {i1, i2, q1}
  Wrapped = {i1, q1}
  Inner <- NoteInner
  Author <- NoteAuthor
  Message <- NoteMessage
  Loops = {l1}
  Callers = {}
  Notifiers = {m1}
  NotifCapacity = 2
  SessionTimeout = 0
  Cancellable = FALSE
  EncryptionMode = "Optional"
  Allowed = {}
  Excluded <- NothingExcluded
INVARIANTS
  NTypeOK
  BroadcastOnlyInitialized
  NoticesMirrorUniformClient
PROPERTIES
  BroadcastGoesOn
CHECK_DEADLOCK FALSE
