SPECIFICATION Spec
CONSTANTS
  Frames = {f1, f2, f3}
  Events = {e1}
  None = None
  MaxStamp = 2
  MaxFailures = 1
  Paired = FALSE
  Resized = TRUE
SYMMETRY Symmetry
INVARIANTS
  OneHolder
  NoneStranded
  TransitExact
  PoolFreedQuiescent
PROPERTIES
  ImplementsPort
