SPECIFICATION FairClientSpec
CONSTANTS
  null = null
  c1 = c1  h1 = h1  p1 = p1  p2 = p2
  Hwid = {h1}
  SessionId = {p1, p2}
  CardId = {c1}
  Request = {p1, p2}
  Calls = {}
  Grants = {null}
  Licence = c1
  Machine = h1
  Day = 1
  Interval = 2
  MaxTrip = 1
  SessionStale = 5
  MaxClock = 7
INVARIANTS StopsInTime OneSurvives
PROPERTIES SessionKept OneRemains
CHECK_DEADLOCK FALSE
