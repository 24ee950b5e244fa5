SPECIFICATION FairSpec
CONSTANTS
  a1 = a1
  a2 = a2
  Agents = {a1, a2}
  Batteries = {14, 15}
  Threshold = 15
  MaxReadings = 2
  Disruptions = {"connect"}
PROPERTIES
  LoopDrainsBuffer
CHECK_DEADLOCK FALSE
