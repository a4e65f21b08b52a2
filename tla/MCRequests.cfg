SPECIFICATION FairTaskSpec
CONSTANTS
  NumComponents = 2
  NumSubscriptions = 0
  Descriptors = {}
  NoDescriptor = NoDescriptor
  Provider = 1
  DeclarationKinds = {"request", "reply", "notify"}
  Modes = {"Drain", "Cancel", "Drop"}
  Mishaps = {"mapper", "transition"}
  MaxGenerations = 0
  PlanOutputs <- Direct
  MaxFrames = 1
  MaxBurst = 0
  MaxItems = 0
  MaxDeclarations = 2
  MaxBatch = 2
  HostSends = 0
  HostRequests = 1
INVARIANTS
  TokensNameRequests
  OneDiagnosis
  ReportIsEarned
PROPERTIES
  WaitersLearnWhy
  ShutdownReturns
CHECK_DEADLOCK FALSE
