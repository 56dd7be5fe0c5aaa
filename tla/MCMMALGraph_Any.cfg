SPECIFICATION Spec
CONSTANTS
  App = app
  Worker = worker
  Connections <- TwoConnections
  Threads <- Both
  ConnectionNum = 2
  Formats <- FirstChanges
  MaxBuffers = 2
  EventNum = 1
  Forwarding = {0}
  Faulty = {0}
  MaxSema = 1
  Failing = {"array", "out", "in", "disable", "commit"}
  Held = {1}
  MaxEnables = 1
CONSTRAINT UpToClash
INVARIANTS AllBack PoolAtRest NoLostWakeup
