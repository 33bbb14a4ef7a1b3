SPECIFICATION MCSpec
CONSTANTS
  Messages = {m1, m2}
  Calls = {k1, k2}
  ImportDb = TRUE
  MaxConversations = 2
  MaxDisturbances = 1
  None = None
  Instances = {i1}
  Contacts = {c1}
  Bots = {b1, b2}
  Creds = {s1}
  BotForms <- MCForms
  MaxRequests = 3
SYMMETRY Sym
INVARIANTS
  OneConversation
  OnceOnEachSide
  DeletedOnBoth
  TriggersApart
  SessionsHaveBots
  FiledWithOnePerson
CHECK_DEADLOCK FALSE
