SPECIFICATION FairSpec
CONSTANTS
  MaxRuntimes = 2
  MaxRealizations = 2
  Chunk = 2
  Instances <- Small
INVARIANTS
  OneReader
  AcceptedIsWhatWasRead
PROPERTIES
  CutoverStopsReading
  StopsReturn
  ImplementsDriver
CHECK_DEADLOCK FALSE
