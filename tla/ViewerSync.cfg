SPECIFICATION ConnectionSpec
CONSTANTS
  full = full
  low = low
  Format <- Formats
  NativePF = full
  Sizes = {1, 2}
  FirstSize = 1
  NoData = NoData
  MaxQueue = 2
  ServerTypes <- ServerLists
  ViewerTypes <- ViewerLists
INVARIANTS
  DecodedAsEncoded
  NothingRefused
  AskedFor
  AreaFollowsSize
  Understood
  LetIn
PROPERTIES
  Shown
  ProbeAnswered
  Displayed
