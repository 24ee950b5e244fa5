SPECIFICATION StateSpec
CONSTANTS
  a1 = a1
  a2 = a2
  r1 = r1
  r2 = r2
  Agents = {a1, a2}
  Readers = {r1, r2}
  Batteries = {15}
  Threshold = 15
  MaxReadings = 2
  Disruptions = {"sql", "reply", "redis", "stop", "crash"}
  RegistryDisruptions = {}
  MayLoseCache = TRUE
SYMMETRY Symmetry
INVARIANTS
  StateTypeOK
  AnswersAreDurable
  NoneOnlyWithoutHistory
  FallbackFromNewestWindow
  OutputsAreDurable
PROPERTIES
  ImplementsLiveFeed
