SPECIFICATION FairSpec
CONSTANTS
  NumComponents = 1
  NumSubscriptions = 0
  Descriptors = {}
  NoDescriptor = NoDescriptor
  Provider = 1
  DeclarationKinds = {"notify"}
  Modes = {"Drain", "Cancel"}
  Mishaps = {"conversion"}
  MaxGenerations = 0
  PlanOutputs <- Direct
  MaxFrames = 1
  MaxBurst = 0
  MaxItems = 0
  MaxDeclarations = 1
  MaxBatch = 1
  HostSends = 0
  HostRequests = 1
PROPERTIES
  WaitersLearnWhy
CHECK_DEADLOCK FALSE
