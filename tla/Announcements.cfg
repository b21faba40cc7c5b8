SPECIFICATION Spec
CONSTANTS
  None = None
  sA = sA
  sB = sB
  r1 = r1
  r2 = r2
  Relays = {r1, r2}
  Servers = {sA, sB}
  Announced = {sA, sB}
  Publishes <- Lists
  Asks <- TemplatesOfBoth
  Deleters = {sB}
  MaxVersions <- Versions
  MaxTime = 1
INVARIANTS
  TypeOK
  DiscoveryFresh
  DeletedCoversAllKinds
SYMMETRY RelaySymmetry
CHECK_DEADLOCK FALSE
