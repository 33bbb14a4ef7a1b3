SPECIFICATION MCSpec
CONSTANTS
  o1 = o1
  o2 = o2
  wash = wash
  polish = polish
  Orgs = {o1}
  Phones = {p1}
  Services = {wash}
  Catalogue <- MCCatalogue
  Duration <- MCDuration
  Buffer <- MCBuffer
  Open = 2
  Close = 6
  Starts = {2, 3}
  Millis = {m1}
  Horizon = 3
  HasUpdatedAt = TRUE
  NoTime = NoTime
  NoVehicle = NoVehicle
  Requests = {}
  NoRequest = NoRequest
  Passes = {j1}
  TickPeriod = 1
  WindowLo = 1
  WindowHi = 2
  MaxFaults = 0
  NoApt = NoApt
  Handlers = {h1, h2}
  ReplyTTL = 2
  NoRow = NoRow
  NoMessage = NoMessage
  WashBuffer = 1
  Washes = {"short", "long"}
  Days = {"monday", "tuesday"}
  Times = {1, 2}
  Length <- MCLength
  MaxFetches = 2
  MaxConfirms = 2
  MaxOthers = 1
  Nothing = Nothing
SYMMETRY Symmetric
INVARIANTS
  NoOverlap
  BookedAsShown
  OnboardedAsAsked
PROPERTIES
  ImplementsAgenda
CHECK_DEADLOCK FALSE
