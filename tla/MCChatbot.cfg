SPECIFICATION Spec
CONSTANTS
  A = A
  B = B
  m1 = m1
  m2 = m2
  s1 = s1
  None = None
  Messages = {m1, m2}
  Starts = {s1}
  Instances = {A}
  InstanceOf <- MCInstanceOf
  Integrations = {"n8n", "evoai", "openai", "typebot"}
  Configurations <- MCAll
  MaxSessions = 5
  MaxCommands = 1
  MaxFaults = 1
INVARIANTS
  ServedOnce
  DebounceArmed
  QuietStaysQuiet
PROPERTIES
  EmitsEnd
CHECK_DEADLOCK FALSE
