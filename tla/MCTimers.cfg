\* Every kind of finite work between two Components in logical time, with fairness.
SPECIFICATION FairSpec
CONSTANTS
  NumComponents = 2
  NumSubscriptions = 0
  Descriptors = {d1}
  NoDescriptor = NoDescriptor
  Provider = 1
  DeclarationKinds = {"after", "effect", "discard", "send", "notify", "request", "reply"}
  Mishaps = {"foreign"}
  MaxGenerations = 0
  PlanOutputs <- Direct
  MaxFrames = 0
  MaxBurst = 1
  MaxItems = 1
  MaxDeclarations = 2
  MaxBatch = 2
  HostSends = 1
  HostRequests = 0
  MaxTime = 3
  Delays = {0, 1, 2}
INVARIANTS
  TypeOK
  RequestsHaveHolders
PROPERTIES
  CallsReturn
  WorkRunsAtItsInstant
  WorkRunsInOrder
CHECK_DEADLOCK FALSE
