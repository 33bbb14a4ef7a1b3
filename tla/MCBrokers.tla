------------------------------ MODULE MCBrokers ------------------------------
(***************************************************************************)
(* The two controllers that reconnect, RabbitMQ's and Kafka's, and the     *)
(* delivery of events through all sinks, on small instances.  They share   *)
(* no state here (EventDelivery has its own view of which broker has a     *)
(* client), so in a behaviour only one of them moves.                      *)
(***************************************************************************)
EXTENDS RabbitmqController

CONSTANTS Producers, Emitters, Global, SlowCleanup, MaxFlips, KafkaAttempts,
          Events, Enabled, Subscribed, MaxAttempts, MaxFaults

VARIABLES moves, kctl, stage, connects, cleanups, emits, broker,
          kind, at, rejected, waiting, posts, got, lost, channel, faults

K == INSTANCE KafkaController WITH
       ctl <- kctl, MaxReconnectAttempts <- KafkaAttempts
D == INSTANCE EventDelivery

kvars == <<kctl, stage, connects, cleanups, emits, broker>>
dvars == <<kind, at, rejected, waiting, posts, got, lost, channel, faults>>

ASSUME BrokersAssumption ==
  /\ KafkaAttempts \in Nat
  /\ MaxFlips \in Nat
  /\ None \notin Producers
  /\ Enabled \subseteq D!SinkNames
  /\ Subscribed \subseteq D!Scopes

MCInit ==
  /\ Init
  /\ K!Init
  /\ moves \in {"rabbitmq", "kafka", "events"}
  /\ D!Init
  \* One event of any kind, and of one kind where it does not move.
  /\ moves # "events" => kind = [e \in Events |-> "message"]

MCNext ==
  \/ moves = "rabbitmq" /\ Next /\ UNCHANGED <<moves, kvars, dvars>>
  \/ moves = "kafka" /\ K!Next /\ UNCHANGED <<moves, vars, dvars>>
  \/ moves = "events" /\ D!Next /\ UNCHANGED <<moves, vars, kvars>>

\* Each keeps the fairness of its own specification while it moves.
Moving(A) == moves = "rabbitmq" /\ A
MCFairness ==
  /\ WF_vars(Moving(TimerFires))
  /\ \A c \in Conns : WF_vars(Moving(ConnectStep(c))) /\ WF_vars(Moving(ClosedEvent(c)))
  /\ D!Fairness

MCSpec == MCInit /\ [][MCNext]_<<moves, vars, kvars, dvars>> /\ MCFairness

(* RecoversOrGivesUp, where the RabbitMQ controller moves: once its channel  *)
(* is gone it comes back, or all attempts have failed.                      *)
RabbitmqRecovers ==
  moves = "rabbitmq" /\ ctl.channel = None ~> ctl.channel # None \/ GivenUp

(* The properties of the other two modules.                                 *)
KafkaHoldsProducer == K!HoldsProducer
ServedOrGivenUp == D!ServedOrGivenUp
EmitEnds == D!EmitEnds
=============================================================================
