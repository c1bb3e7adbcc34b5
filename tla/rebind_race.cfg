SPECIFICATION HSpec
CONSTANTS
  null = null
  c1 = c1  h1 = h1  h2 = h2  s1 = s1  s2 = s2  r1 = r1  r2 = r2
  Hwid = {h1, h2}
  SessionId = {s1, s2}
  CardId = {c1}
  Request = {r1, r2}
  Operator = {a1}
  Calls <- LicenceCalls
  Grants = {null}
  Day = 1
  SessionStale = 1
  AdminOps = {"unbind"}
  ExtendDays = {1}
  MaxDays = 1
  MaxClock = 0
  MaxExpiry = 0
INVARIANTS ActivationGrantTrue
