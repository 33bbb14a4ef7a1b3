SPECIFICATION Spec
CONSTANTS
  A = A
  B = B
  m1 = m1
  m2 = m2
  s1 = s1
  None = None
  Messages = {m1, m2}
  Starts = {}
  Instances = {A, B}
  InstanceOf <- MCTwoInstances
  Integrations = {"n8n"}
  Configurations <- MCDebounced
  MaxSessions = 3
  MaxCommands = 0
  MaxFaults = 0
INVARIANT
  MessagesStayInInstance
CHECK_DEADLOCK FALSE
