SPECIFICATION StateSpec
CONSTANTS
  a1 = a1
  a2 = a2
  r1 = r1
  r2 = r2
  Agents = {a1}
  Readers = {r1}
  Batteries = {15}
  Threshold = 15
  MaxReadings = 2
  Disruptions = {}
  RegistryDisruptions = {}
  MayLoseCache = TRUE
PROPERTIES
  RebuildIsSafe
