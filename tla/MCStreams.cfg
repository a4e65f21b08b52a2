\* Two Subscriptions restarted while their Sources deliver and end, with refused activations
\* and repeated identities.
SPECIFICATION Spec
CONSTANTS
  NumComponents = 1
  NumSubscriptions = 2
  Descriptors = {d1, d2}
  NoDescriptor = NoDescriptor
  Provider = 1
  DeclarationKinds = {}
  Mishaps = {"duplicate", "activation"}
  MaxGenerations = 2
  PlanOutputs <- Framed
  MaxFrames = 2
  MaxBurst = 1
  MaxItems = 1
  MaxDeclarations = 0
  MaxBatch = 0
  HostSends = 2
  HostRequests = 0
  MaxTime = 0
  Delays = {0}
INVARIANTS
  InductiveInv
  QuietMeansIdle
  SourcesMatchDesired
PROPERTIES
  ImplementsSourceStream
SYMMETRY Symmetry
CHECK_DEADLOCK FALSE
