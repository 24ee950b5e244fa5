SPECIFICATION LiveSpec
CONSTANTS
  a1 = a1
  a2 = a2
  NotLoaded = NotLoaded
  Agents = {a1}
  MaxVersion = 2
  MaxInbox = 2
  MaxFaults = 1
  Faults = {"drop", "emit", "reply", "redis", "cold", "load", "resync", "silent"}
  Bystanders = TRUE
  Reporters = {a1}
INVARIANTS
  DashTypeOK
  UpdatesInOrder
  NeverAhead
PROPERTIES
  RenderingLosesNothing
  StaysInSync
  Converges
