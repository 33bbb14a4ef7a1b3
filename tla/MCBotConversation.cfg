SPECIFICATION MCSpec
CONSTANTS
  c1 = c1
  c2 = c2
  o1 = o1
  o2 = o2
  m1 = m1
  m2 = m2
  m3 = m3
  Scenes = {"chat", "group"}
  Customers = {c1, c2}
  Orgs = {o1, o2}
  OrgOf <- MCOrgOf
  Messages = {m1, m2, m3}
  SenderOf <- MCSenderOf
  Handlers = {h1, h2}
  Admins = {a1, a2}
  Millis = {t1}
  TTL = 0
  Horizon = 1
  MaxDeliveries = 2
  MaxCommands = 2
  MaxFaults = 1
  None = None
SYMMETRY Symmetric
INVARIANTS
  AnsweredOnce
  AnsweredUnlessFailed
CHECK_DEADLOCK FALSE
