SPECIFICATION PFairSpec
CONSTANTS
  None = None
  Server = Server
  Other = Other
  s1 = s1
  s2 = s2
  s3 = s3
  w1 = w1
  w1b = w1b
  w1n = w1n
  w1x = w1x
  wf = wf
  Sends = {s1}
  Wires = {w1}
  Message <- TrafficMessage
  Inbound <- TrafficInbound
  Loops = {l1}
  NotifCapacity = 2
  IsStateless = FALSE
  EncryptionMode = "Disabled"
  Allowed = {}
  Excluded = {}
PROPERTIES
  ResponseReceived
CHECK_DEADLOCK FALSE
