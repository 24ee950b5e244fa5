SPECIFICATION LoadedConsoleSpec
CONSTANTS
  a1 = a1
  a2 = a2
  NotLoaded = NotLoaded
  Nobody = Nobody
  Agents = {a1, a2}
  MaxVersion = 1
  MaxInbox = 1
  MaxFaults = 1
  Faults = {"drop", "resync"}
  Bystanders = FALSE
  Reporters = {a1}
INVARIANTS
  ConsoleTypeOK
  OnePanPerSelection
  MapShowsSelection
PROPERTIES
  SelectionIsReached
  Converges
