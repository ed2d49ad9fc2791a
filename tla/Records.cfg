SPECIFICATION PartSpec
CONSTANTS
  a1 = a1
  r1 = r1
  r2 = r2
  None = None
  Limit = 1
  FirstLength = 2
  MaxMessages = 3
  MaxVersion = 2
  MaxUpdated = 2
  MaxLosses = 1
  Agents = {a1, a2}
  Rooms = {r1, r2}
  People = {a1}
  Visits <- TwoVisits
  Initially <- OneRoster
  MaxChanges = 1
  Panes = {p1, p2}
  Tunings = {"new"}
  Old = "old"
  MaxTasks = 3
  Files <- Configs
  Typed = {"user", "return", "begin", "END"}
  Setups = {p1}
  MaxEdits = 1
  Runs = {p1, p2}
  Paths = {"lua", "icon"}
  TypeOf <- Types
  Categories <- TwoCategories
  Verbose = {"tool"}
  Expanded = {"participant", "other"}
  Stored <- OneFilter
  MaxUpdates = 1
  WorkRooms = {r1}
INVARIANTS
  PartsTypeOK
  TimelineIsComplete
  LoadingHasWorker
  RecordsAgree
  SetupIsSound
PROPERTIES
  RegistrationIsWhole
CHECK_DEADLOCK FALSE
