SPECIFICATION Spec
CONSTANTS
  Frames = {f1, f2, f3}
  Events = {}
  None = None
  MaxStamp = 0
  MaxFailures = 0
  Paired = TRUE
  Resized = TRUE
INVARIANTS
  QueueOutlivesCallbacks
