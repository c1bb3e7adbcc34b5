SPECIFICATION RSpec
CONSTANTS
  null = null
  c1 = c1  h1 = h1  h2 = h2  r1 = r1  r2 = r2  a1 = a1  a2 = a2
  Hwid = {h1, h2}
  SessionId = {}
  CardId = {c1}
  Request = {r1}
  Operator = {a1, a2}
  Calls <- LicenceCalls
  Grants = {1, null}
  Day = 1
  SessionStale = 1
  AdminOps = {"ban", "unban", "unbind", "remove", "extend"}
  ExtendDays = {1}
  MaxDays = 1
  MaxClock = 1
  MaxExpiry = 1
SYMMETRY Symmetry
INVARIANTS TypeOK LicenceTermsConsistent PlansConsistent
PROPERTIES BannedRowFrozen UnbanRestores
