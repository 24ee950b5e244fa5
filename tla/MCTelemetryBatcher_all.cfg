SPECIFICATION Spec
CONSTANTS
  a1 = a1
  a2 = a2
  Agents = {a1, a2}
  Batteries = {14, 15}
  Threshold = 15
  MaxReadings = 4
  Disruptions = {"sql", "reply", "connect", "stall", "redis", "hang", "emit", "stop", "crash"}
SYMMETRY AgentSymmetry
INVARIANTS
  TypeOK
  AlertHistoryExact
  OneActiveAlert
  StoredOnceInOrder
  OutputsAreDurable
PROPERTIES
  OutputsNeverGoBack
  ImplementsDurable
