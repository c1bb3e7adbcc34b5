SPECIFICATION Spec
CONSTANTS
  null = null
  c1 = c1  h1 = h1  h2 = h2  s1 = s1  s2 = s2  r1 = r1  r2 = r2
  Hwid = {h1, h2}
  SessionId = {s1, s2}
  CardId = {c1}
  Request = {r1, r2}
  Operator = {a1}
  Calls <- LicenceCalls
  Grants = {1}
  Day = 1
  SessionStale = 1
  AdminOps = {"extend"}
  ExtendDays = {1}
  MaxDays = 1
  MaxClock = 1
  MaxExpiry = 1
INVARIANTS ExpiredMeansLapsed
