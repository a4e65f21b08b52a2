SPECIFICATION Spec
CONSTANTS
  ComponentIds = {"a", "b"}
  ComponentTypes = {"T", "U"}
  MessageOf <- SameMessage
  Protocols = {"P"}
  PortIds = {"p", "q"}
  SubscriptionIds = {"s", "t"}
  EffectTypes = {"out", "err"}
  SourceTypes = {"stream", "framed", "stdin"}
  TerminalOf <- Lowered
  StreamTypes = {"stream"}
  StdinLines = "stdin"
  Scopes <- SmallScopes
INVARIANTS
  PortsResolve
  CapabilitiesResolve
CHECK_DEADLOCK FALSE
