SPECIFICATION Spec
CONSTANTS
  c1 = c1
  c2 = c2
  NoClient = NoClient
  Clients <- TwoClients
  Color = {0, 1}
  Blank = 0
  Screens <- OneScreen
  FirstScreen <- OnePixel
  Delta <- NoDelta
  Blocks <- BlocksOfStrip
  CompareFB = "always"
  DeferUpdates = TRUE
  AlwaysSetDefer = FALSE
  ExtendedClients <- TwoClients
  MaxBlock = 1
  OldSizeRequests = FALSE
  Encodings <- AnyEncodings
  Events = {"draw", "block", "refresh", "continuous", "congestion", "fake"}
INVARIANTS
  NoLostWakeup
SYMMETRY
  ClientSymmetry
