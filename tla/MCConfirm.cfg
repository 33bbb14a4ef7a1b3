SPECIFICATION Spec
CONSTANTS
  o1 = o1
  o2 = o2
  wash = wash
  polish = polish
  Orgs = {o1}
  Phones = {p1, p2}
  Services = {wash}
  Catalogue <- MCCatalogue
  Duration <- MCDuration
  Buffer <- MCBuffer
  Open = 2
  Close = 6
  Starts = {3}
  Millis = {m1}
  Horizon = 4
  HasUpdatedAt = FALSE
  NoTime = NoTime
  NoVehicle = NoVehicle
  Requests = {r1}
  NoRequest = NoRequest
  Passes = {j1, j2}
  TickPeriod = 1
  WindowLo = 0
  WindowHi = 2
  MaxFaults = 1
  NoApt = NoApt
  Handlers = {h1}
  ReplyTTL = 2
  NoRow = NoRow
  NoMessage = NoMessage
  WashBuffer = 1
SYMMETRY Symmetric
INVARIANTS
  ConfirmedWasAsked
  NobodyForgotten
PROPERTIES
  OnlyOwnerDecides
CHECK_DEADLOCK FALSE
