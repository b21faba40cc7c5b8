SPECIFICATION PFairSpec
CONSTANTS
  None = None
  Server = Server
  Other = Other
  s1 = s1
  s2 = s2
  s3 = s3
  w1 = w1
  w1b = w1b
  w1n = w1n
  w1x = w1x
  wf = wf
  Sends = {s1, s2, s3}
  Wires = {w1, w1b, w1x, wf}
  Message <- TrafficMessage
  Inbound <- TrafficInbound
  Loops = {l1, l2}
  NotifCapacity = 1
  IsStateless = TRUE
  EncryptionMode = "Disabled"
  Allowed = {}
  Excluded = {}
INVARIANTS
  TypeOK
  OnlySolicited
  OncePerLoop
  AnsweredOnceUntilStopped
  PendingUntilAnswered
PROPERTIES
  PendingAnswered
CHECK_DEADLOCK FALSE
