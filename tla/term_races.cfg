SPECIFICATION RSpec
CONSTANTS
  null = null
  c1 = c1  h1 = h1  h2 = h2  r1 = r1  r2 = r2  a1 = a1  a2 = a2
  Hwid = {h1, h2}
  SessionId = {}
  CardId = {c1}
  Request = {r1, r2}
  Operator = {a1, a2}
  Calls <- Activations
  Grants = {1, null}
  Day = 1
  SessionStale = 1
  AdminOps = {"ban", "unbind", "extend"}
  ExtendDays = {1}
  MaxDays = 2
  MaxClock = 1
  MaxExpiry = 2
SYMMETRY Symmetry
PROPERTIES DeviceNeverSwapped TermKept LivesALife TimeLostInOverlapOnly
