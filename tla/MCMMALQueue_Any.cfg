SPECIFICATION FairSpec
CONSTANTS
  Getters = {t1, t2}
  Putters = {t2, t3}
  Buffers = {b1, b2, b3}
  None = None
  Backs = {b3}
INVARIANTS
  HeaderFound
  ListSound
PROPERTIES
  ImplementsQueue
  Delivered
