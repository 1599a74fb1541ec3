SPECIFICATION Spec
CONSTANTS
  c1 = c1
  c2 = c2
  NoClient = NoClient
  Clients <- OneClient
  Color = {0, 1}
  Blank = 0
  Screens <- BothScreens
  FirstScreen <- OnePixel
  Delta <- NoDelta
  Blocks <- BlocksOfStrip
  CompareFB = "always"
  DeferUpdates = TRUE
  AlwaysSetDefer = FALSE
  ExtendedClients <- OneClient
  MaxBlock = 1
  OldSizeRequests = TRUE
  Encodings <- AnyEncodings
  Events = {"draw", "resize"}
INVARIANTS
  UpToDate
