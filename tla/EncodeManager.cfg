SPECIFICATION EncodeSpec
CONSTANTS
  Screen <- Field
  Jobs <- FieldJobs
  Families <- AllFamilies
  ClientEncodings <- BusyClients
  HextileSide = 4
  ZrleSide = 6
  HextileColors = 3
  PackedColors = 3
  RunByte = 2
  BytesPerPixel = 4
  MinToCompress = 3
  SubRectMaxArea = 12
  SubRectMaxWidth = 12
  SolidSearchBlock = 2
  SolidBlockMinArea = 6
  Divisor = 3
  ZrleColors = 4
  TwoColorCursor = TRUE
  MaxReplies = 2
INVARIANTS
  AllMoved
  RegionsExact
  InStep
  ClosedForAReason
  DecodedIsEncoded
  SizeIsLast
PROPERTIES
  SafeSpec
  EachPixelOnce
CHECK_DEADLOCK FALSE
