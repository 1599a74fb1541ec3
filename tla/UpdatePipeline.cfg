SPECIFICATION FairSpec
CONSTANTS
  c1 = c1
  c2 = c2
  NoClient = NoClient
  Clients <- OneClient
  Color = {0, 1}
  Blank = 0
  Screens <- BothScreens
  FirstScreen <- TwoPixels
  Delta <- OnlyRight
  Blocks <- BlocksOfStrip
  CompareFB = "auto"
  DeferUpdates = TRUE
  AlwaysSetDefer = FALSE
  ExtendedClients <- OneClient
  MaxBlock = 1
  OldSizeRequests = FALSE
  Encodings <- WithCopyRect
  Events = {"draw", "scroll", "encodings", "resize", "congestion"}
INVARIANTS
  Coherent
  UpToDate
  SizeAnnounced
PROPERTIES
  NoTornUpdate
  Answered
