SPECIFICATION FairSpec
CONSTANTS
  s1 = s1
  s2 = s2
  Sockets <- TwoSockets
  NoSocket = NoSocket
  Hosts = {h1}
  Threshold = 2
  Settings <- SomeSettings
  StartMayFail = TRUE
INVARIANTS
  OneViewer
  QueriedHasSlot
  DesktopFollowsClients
PROPERTIES
  UserDecides
  DesktopStops
