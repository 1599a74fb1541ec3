SPECIFICATION HookedSpec
CONSTANTS
  red = red
  blue = blue
  Canvas <- SquareCanvas
  Screen <- Square
  Color <- Colors
  Delta <- SquareDelta
  Drawings <- MCDrawings
  Areas <- MCAreas
  ClipLists <- MCClipLists
SYMMETRY ColorSymmetry
INVARIANTS
  Sound
  NoCopyWhenDisabled
PROPERTIES
  MirrorSpec
