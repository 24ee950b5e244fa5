SPECIFICATION LoadedSpec
CONSTANTS
  a1 = a1
  a2 = a2
  NotLoaded = NotLoaded
  Agents = {a1, a2}
  MaxVersion = 1
  MaxInbox = 1
  MaxFaults = 1
  Faults = {"drop"}
  Bystanders = FALSE
  Reporters = {a1}
INVARIANTS
  ReconnectRecovers
