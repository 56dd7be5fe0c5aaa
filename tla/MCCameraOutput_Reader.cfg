SPECIFICATION FairSpec
CONSTANTS
  Frames = {f1, f2, f3}
  Events = {}
  None = None
  MaxStamp = 4
  MaxFailures = 1
  Paired = TRUE
  Resized = TRUE
INVARIANTS
  NoShortage
PROPERTIES
  ReadsInOrder
  ImplementsMailbox
  ReaderServed
  CameraFed
  ReleaseEnds
