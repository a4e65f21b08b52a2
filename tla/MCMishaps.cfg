SPECIFICATION Spec
CONSTANTS
  NumComponents = 1
  NumSubscriptions = 1
  Descriptors = {d1}
  NoDescriptor = NoDescriptor
  Provider = 1
  DeclarationKinds = {"effect", "notify", "request", "reply"}
  Modes = {"Drain", "Cancel", "Drop"}
  Mishaps = {"driver", "stop_hook", "mapper", "conversion", "foreign", "transition", "activation", "duplicate"}
  MaxGenerations = 1
  PlanOutputs <- Direct
  MaxFrames = 1
  MaxBurst = 0
  MaxItems = 0
  MaxDeclarations = 1
  MaxBatch = 1
  HostSends = 0
  HostRequests = 1
INVARIANTS
  InductiveInv
  FaultNotHidden
  CleanCloseOwnsNothing
PROPERTIES
  DrainSeesFaults
CHECK_DEADLOCK FALSE
