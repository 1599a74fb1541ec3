SPECIFICATION FairSpec
CONSTANTS
  Word = 4096
  InitialWindow = 2
  MaximumWindow = 3
  RoundTrips = {10, 40, 1500}
  UpdateSizes = {1, 2}
  MaxOther = 3
  EarlyOther = 1
  MaxTalk = 2
INVARIANTS
  Measured
  InFlightBounded
PROPERTIES
  Flows
