SPECIFICATION Spec
CONSTANTS
  Callers = {t1, t2, v1}
  Visitors = {v1}
  Waiters = {w1, w2}
  None = None
  Contexts = 1
  Failing = {"open", "use", "release", "queue", "bulk"}
SYMMETRY Symmetry
INVARIANTS
  OwnReply
  WaiterFound
  BulkPaired
  FlushAfterData
  InUse
