SPECIFICATION Spec
CONSTANTS
  a = a
  r1 = r1
  r2 = r2
  Rooms = {r1, r2}
  People = {a}
  Initially <- Rosters
  Visits <- Visited
  MaxChanges = 1
  None = None
PROPERTY
  RosterBelongsToRoom
CHECK_DEADLOCK FALSE
