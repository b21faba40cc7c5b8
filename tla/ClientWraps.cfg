SPECIFICATION PSpec
CONSTANTS
  None = None
  Server = Server
  Other = Other
  s1 = s1
  s2 = s2
  s3 = s3
  w1 = w1
  w1b = w1b
  w1n = w1n
  w1x = w1x
  wf = wf
  Sends = {s1}
  Wires = {w1}
  Message <- TrafficMessage
  Inbound <- TrafficInbound
  Loops = {l1}
  NotifCapacity = 1
  IsStateless = FALSE
  EncryptionMode = "Optional"
  Allowed = {}
  Excluded = {}
INVARIANTS
  RegistersInnerId
CHECK_DEADLOCK FALSE
