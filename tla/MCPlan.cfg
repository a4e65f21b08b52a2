\* Framed inside Framed.
CONSTANTS
  Layers = 2
  MaxRaw = 2
  MaxBurst = 2
SPECIFICATION Spec
INVARIANTS
  InnermostDecoderSpent
  NormalEndFinishesAll
PROPERTIES
  MakesWhatLayersSay
CHECK_DEADLOCK FALSE
