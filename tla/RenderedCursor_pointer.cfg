SPECIFICATION Spec
CONSTANTS
  red = red
  blue = blue
  Mark = Mark
  Screen <- Row
  Color = {red, blue}
  Shapes <- MCShapes
  Delta <- MCDelta
  Requests <- WholeRow
  SwitchesBack = FALSE
INVARIANTS
  OldCursorsRemoved
SYMMETRY ColorSymmetry
