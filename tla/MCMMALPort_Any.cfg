SPECIFICATION Spec
CONSTANTS
  Clients = {s1}
  Controllers = {c1, c2}
  Buffers = {b1, b2}
  None = None
  Event = Event
  MaxEvents = 1
  Failing = {"enable", "disable", "send", "flush"}
SYMMETRY Symmetry
INVARIANTS
  OnePlace
  TransitExact
  CallbackDefined
  DisabledEmpty
  NoOvertaking
  NoWaitCycle
PROPERTIES
  ImplementsPort
