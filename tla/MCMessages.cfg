SPECIFICATION MCSpec
CONSTANTS
  Instances = {i1, i2}
  Messages = {m1, m2}
  MaxTime = 2
  MaxQueue = 2
  MaxEdits = 1
  MaxHappenings = 2
  Nobody = Nobody
  Contacts = {c1, c2}
  Handlers = {i1, i2}
  MaxDisturbances = 2
  GroupHappenings = 1
  Calls = {i1, i2}
  MaxSets = 3
  MaxSettingsDisturbances = 1
  Labels = {m1, m2}
  MaxEvents = 3
  Numbers = {m1, m2}
  MaxRows = 3
  MaxCalls = 3
  Values <- MCValues
  Events = {"plain", "dotted"}
  Misnamed = {"dotted"}
  Apps = {"first", "second"}
  MaxFaults = 2
SYMMETRY Sym
INVARIANTS
  NothingLost
  ReadIsRead
  LatestText
  FiledUnderContact
  
  SettingsAgree
  
  OneAccount
  SubscribedIsServed
CHECK_DEADLOCK FALSE
