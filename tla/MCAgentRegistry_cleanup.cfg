SPECIFICATION FleetSpec
CONSTANTS
  a1 = a1
  a2 = a2
  Agents = {a1, a2}
  Batteries = {14, 15}
  Threshold = 15
  MaxReadings = 3
  Disruptions = {"sql", "connect", "stall", "hang"}
  RegistryDisruptions = {"reply", "refresh", "cleanup"}
SYMMETRY AgentSymmetry
INVARIANTS
  AlertHistoryExact
  CachedIsNewest
  ClientsFollowDatabase
PROPERTIES
  FleetNeverGoesBack
