SPECIFICATION FleetSpec
CONSTANTS
  a1 = a1
  a2 = a2
  Agents = {a1, a2}
  Batteries = {14}
  Threshold = 15
  MaxReadings = 2
  Disruptions = {"crash"}
  RegistryDisruptions = {"cleanup"}
PROPERTIES
  StaleIdDropsOnlyItself
