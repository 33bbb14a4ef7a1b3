SPECIFICATION MCSpec
CONSTANTS
  Conns = {1, 2, 3, 4, 5}
  MaxReconnectAttempts = 3
  EarlyEmit = FALSE
  MaxLosses = 3
  None = None
  Producers = {11, 12, 13}
  Emitters = {e1, e2}
  KafkaAttempts = 3
  Global = TRUE
  SlowCleanup = FALSE
  MaxFlips = 3
  Events = {v1}
  Enabled = {"websocket", "rabbitmq", "nats", "sqs", "webhook", "pusher", "kafka"}
  Subscribed = {"local", "global"}
  MaxAttempts = 3
  MaxFaults = 3
INVARIANTS
  NeverForgotten
  SingleFlight
  KafkaHoldsProducer
  ServedOrGivenUp
PROPERTIES
  RabbitmqRecovers
  EmitEnds
CHECK_DEADLOCK FALSE
