SPECIFICATION Spec
CONSTANTS
  o1 = o1
  o2 = o2
  wash = wash
  polish = polish
  Orgs = {o1}
  Phones = {p1}
  Services = {wash, polish}
  Catalogue <- MCCatalogue
  Duration <- MCDuration
  Buffer <- MCBuffer
  Open = 2
  Close = 6
  Starts = {2, 4}
  Millis = {m1}
  Horizon = 4
  HasUpdatedAt = FALSE
  NoTime = NoTime
  NoVehicle = NoVehicle
  Requests = {r1}
  NoRequest = NoRequest
  Passes = {}
  TickPeriod = 9
  WindowLo = 0
  WindowHi = 2
  MaxFaults = 0
  NoApt = NoApt
  Handlers = {}
  ReplyTTL = 2
  NoRow = NoRow
  NoMessage = NoMessage
  WashBuffer = 1
INVARIANT
  SiteBookingSucceeds
CHECK_DEADLOCK FALSE
