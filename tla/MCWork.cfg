SPECIFICATION FairSpec
CONSTANTS
  NumComponents = 1
  NumSubscriptions = 0
  Descriptors = {}
  NoDescriptor = NoDescriptor
  Provider = 1
  DeclarationKinds = {"effect", "discard", "send", "after"}
  Modes = {"Drain", "Cancel"}
  Mishaps = {}
  MaxGenerations = 0
  PlanOutputs <- Direct
  MaxFrames = 1
  MaxBurst = 0
  MaxItems = 0
  MaxDeclarations = 2
  MaxBatch = 2
  HostSends = 1
  HostRequests = 0
INVARIANTS
  OutcomesMappedOnce
  CancelStopsDriving
PROPERTIES
  CancelEnds
  DrainEnds
  AdmittedWorkIsDone
CHECK_DEADLOCK FALSE
