SPECIFICATION MCSpec
CONSTANTS
  c1 = c1
  c2 = c2
  o1 = o1
  o2 = o2
  m1 = m1
  m2 = m2
  m3 = m3
  Scenes = {"all"}
  Customers = {c1, c2}
  Orgs = {o1, o2}
  OrgOf <- MCOrgOf
  Messages = {m1, m3}
  SenderOf <- MCSenderOf
  Handlers = {h1}
  Admins = {a1, a2}
  Millis = {t1}
  TTL = 0
  Horizon = 1
  MaxDeliveries = 1
  MaxCommands = 2
  MaxFaults = 1
  None = None
PROPERTIES
  CommandsStayInTenant
CHECK_DEADLOCK FALSE
