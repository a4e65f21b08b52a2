SPECIFICATION Spec
CONSTANTS
  Identities = {s1, s2, s3}
  Descriptors = {d1, d2}
  NoDescriptor = NoDescriptor
  MaxDesired = 3
INVARIANTS
  AnswerIsChanges
SYMMETRY Symmetry
