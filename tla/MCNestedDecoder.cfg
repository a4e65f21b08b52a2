\* Framed inside Framed, against the documented life of a decoder.
CONSTANTS
  Layers = 2
  MaxRaw = 2
  MaxBurst = 1
SPECIFICATION Spec
INVARIANTS
  DecoderSpent
CHECK_DEADLOCK FALSE
