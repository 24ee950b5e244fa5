SPECIFICATION FairSpec
CONSTANTS
  a1 = a1
  a2 = a2
  Agents = {a1, a2}
  Batteries = {14}
  Threshold = 15
  MaxReadings = 4
  Disruptions = {"sql", "reply", "stall", "redis", "hang", "stop"}
PROPERTIES
  NoSilentLoss
  EveryReadingDecided
  ReadingsReachClients
  StopFlushesBuffer
CHECK_DEADLOCK FALSE
