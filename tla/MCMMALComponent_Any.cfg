SPECIFICATION FairSpec
CONSTANTS
  Threads = {t1, t2, t3}
  ComponentRefs = {r1, r2}
  PortRefs = {p1, p2}
  Ports = {q1}
  None = None
INVARIANTS
  OneDestroys
  FreedUnreferenced
  FreedQuiet
PROPERTIES
  EventuallyDestroyed
