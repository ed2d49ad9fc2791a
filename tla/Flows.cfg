SPECIFICATION Spec
CONSTANTS
  Agents = {a1}
  Harnesses = {h1, h2}
  Attempts = 2
  MaxChanges = 1
  Modes <- TwoModes
  Listed = {a1, a2}
  AgentHits = {a1}
  Full = {h1}
  Plain = {h2}
  Models = {1}
  Kinds = {"register", "reconfigure"}
  MaxSwift = 1
  MaxLost = 1
  Rooms = {1, 2}
  Limit = 1
  RoomHits = {1}
  Initially <- OneRoom
  None = None
INVARIANTS
  TypeOK
  SubmissionIsSound
PROPERTIES
  RunStateIsTrue
  RunStateSettles
  CatalogSettles
  SubmittingEnds
  RoomsSettle
CHECK_DEADLOCK FALSE
