SPECIFICATION SimSpec
CONSTANTS
  a1 = a1
  a2 = a2
  c1 = c1
  Agents = {a1, a2}
  Batteries = {14, 15}
  Threshold = 15
  MaxReadings = 3
  Disruptions = {"sql", "hang", "stop", "crash"}
  RegistryDisruptions = {"reply", "refresh"}
  Configs <- ThreeConfigs
  FullBattery = 16
  EmptyBattery = 14
  Connections = {c1}
  SimDisruptions = {"timeout", "late", "rerun"}
SYMMETRY AgentSymmetry
INVARIANTS
  SimTypeOK
  SentMeansBuffered
  OnlyLateReadingsResolve
  StartsWhereRegistered
  AcknowledgedIsKnown
  InMemoryAgentsExist
PROPERTIES
  BroadcastIsCached
