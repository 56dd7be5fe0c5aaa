SPECIFICATION Spec
CONSTANTS
  Getters = {t1}
  Putters = {t2}
  Buffers = {b1, b2}
  None = None
  Backs = {}
INVARIANTS
  LengthKept
