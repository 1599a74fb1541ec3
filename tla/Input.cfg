SPECIFICATION FairInputSpec
CONSTANTS
  c1 = c1
  c2 = c2
  Viewers = {c1, c2}
  NoViewer = NoViewer
  NoSymbol = NoSymbol
  Keycodes <- MCKeycodes
  Keysyms <- MCKeysyms
  Action <- MCAction
  Alternative <- MCAlternative
  Lower <- MCLower
  Upper <- MCUpper
  NumPad = {1}
  AvoidShiftNumLock = TRUE
  FirstMap <- MCFirstMap
  Sent <- MCSent
  Buttons = {{}, {1}, {1, 3}}
INVARIANTS
  NothingStuck
  TypedAsSent
PROPERTIES
  DragIsOwn
  PointerFreed
CONSTRAINT KeysOrButtons
