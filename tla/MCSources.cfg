SPECIFICATION Spec
CONSTANTS
  NumComponents = 1
  NumSubscriptions = 2
  Descriptors = {d1, d2}
  NoDescriptor = NoDescriptor
  Provider = 1
  DeclarationKinds = {}
  Modes = {"Drain", "Cancel"}
  Mishaps = {"stop_hook", "activation"}
  MaxGenerations = 2
  PlanOutputs <- Collecting
  MaxFrames = 3
  MaxBurst = 1
  MaxItems = 1
  MaxDeclarations = 0
  MaxBatch = 0
  HostSends = 0
  HostRequests = 0
INVARIANTS
  StreamInv
  DrainLosesNothing
  SourcesMatchDesired
PROPERTIES
  ImplementsSourceStream
  DrainKeepsAcceptedDeliveries
SYMMETRY Symmetry
CHECK_DEADLOCK FALSE
