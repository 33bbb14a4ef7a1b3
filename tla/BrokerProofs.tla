----------------------------- MODULE BrokerProofs -----------------------------
(***************************************************************************)
(* Proofs about the brokers of the Evolution API: RabbitmqController, and  *)
(* KafkaController and EventDelivery as MCBrokers puts them beside it, for *)
(* any number of connections, producers, emits, attempts, losses and       *)
(* events, any sinks that are on and any subscription.                     *)
(***************************************************************************)
EXTENDS MCBrokers, FiniteSetTheorems, TLAPS

(***************************************************************************)
(* The controller of RabbitMQ, whether or not events are emitted while the *)
(* first connect is under way.                                             *)
(***************************************************************************)

(* The fields the methods work on, for whom the lemmas are stated.          *)
Fields == [channel : Conns \cup {None}, attempts : 0..MaxReconnectAttempts,
           reconnecting : BOOLEAN, timers : Nat]

ConnStates == [Conns -> [stage : Stages, by : {"init", "timer"}]]

-----------------------------------------------------------------------------
(* scheduleReconnect keeps the types and the channel, and afterwards either *)
(* the flag is up or no attempt is left; it raises the flag only with a     *)
(* timer, and takes none away.                                              *)
LEMMA ScheduleFacts ==
  ASSUME NEW s \in Fields
  PROVE  LET t == scheduleReconnect(s) IN
         /\ t \in Fields
         /\ t.channel = s.channel
         /\ t.reconnecting \/ t.attempts >= MaxReconnectAttempts
         /\ t.reconnecting => s.reconnecting \/ t.timers > 0
         /\ t.timers >= s.timers
         /\ s.reconnecting => t = s
PROOF
  <1>1. CASE s.attempts >= MaxReconnectAttempts \/ s.reconnecting
    BY <1>1 DEF scheduleReconnect, Fields
  <1>2. CASE ~(s.attempts >= MaxReconnectAttempts \/ s.reconnecting)
    <2>1. scheduleReconnect(s) = [channel |-> s.channel, attempts |-> s.attempts + 1,
                                  reconnecting |-> TRUE, timers |-> s.timers + 1]
      BY <1>2 DEF scheduleReconnect
    <2>2. s.attempts + 1 \in 0..MaxReconnectAttempts /\ s.timers + 1 \in Nat
      BY <1>2, RabbitmqAssumption DEF Fields
    <2>. QED BY <1>2, <2>1, <2>2 DEF Fields
  <1>. QED BY <1>1, <1>2, Zenon

(* handleConnectionLoss leaves fields that are reconnecting alone; others   *)
(* lose the channel and are reconnecting afterwards, or out of attempts.    *)
LEMMA LossFacts ==
  ASSUME NEW s \in Fields
  PROVE  LET t == handleConnectionLoss(s) IN
         /\ t \in Fields
         /\ t.reconnecting \/ t.attempts >= MaxReconnectAttempts
         /\ t.reconnecting => s.reconnecting \/ t.timers > 0
         /\ t.timers >= s.timers
PROOF
  <1>1. CASE s.reconnecting
    BY <1>1 DEF handleConnectionLoss, Fields
  <1>2. CASE ~s.reconnecting
    <2>. DEFINE u == [s EXCEPT !.channel = None]
    <2>1. u \in Fields /\ u.timers = s.timers /\ ~u.reconnecting
      BY <1>2 DEF Fields
    <2>2. handleConnectionLoss(s) = scheduleReconnect(u)
      BY <1>2 DEF handleConnectionLoss
    <2>. HIDE DEF u
    <2>. QED BY <2>1, <2>2, ScheduleFacts
  <1>. QED BY <1>1, <1>2

(* A failed connect keeps the channel; afterwards the fields are            *)
(* reconnecting or out of attempts, and if a timer had called it they are   *)
(* reconnecting only because another timer has been armed.                  *)
LEMMA FailFacts ==
  ASSUME NEW s \in Fields, NEW by \in {"init", "timer"}
  PROVE  LET t == connectFails(s, by) IN
         /\ t \in Fields
         /\ t.reconnecting \/ t.attempts >= MaxReconnectAttempts
         /\ t.reconnecting => (by = "init" /\ s.reconnecting) \/ t.timers > 0
         /\ t.timers >= s.timers
PROOF
  <1>. DEFINE caught == scheduleReconnect(s)
  <1>1. /\ caught \in Fields
        /\ caught.timers >= s.timers
        /\ caught.reconnecting \/ caught.attempts >= MaxReconnectAttempts
        /\ caught.reconnecting => s.reconnecting \/ caught.timers > 0
    BY ScheduleFacts
  <1>2. CASE by = "init"
    <2>1. connectFails(s, by) = caught
      BY <1>2 DEF connectFails
    <2>. HIDE DEF caught
    <2>. QED BY <1>1, <1>2, <2>1
  <1>3. CASE by = "timer"
    <2>. DEFINE u == [caught EXCEPT !.reconnecting = FALSE]
    <2>1. connectFails(s, by) = scheduleReconnect(u)
      BY <1>3 DEF connectFails
    <2>. HIDE DEF caught
    <2>2. u \in Fields /\ u.timers = caught.timers /\ ~u.reconnecting
      BY <1>1 DEF Fields
    <2>. HIDE DEF u
    <2>3. /\ scheduleReconnect(u) \in Fields
          /\ scheduleReconnect(u).timers >= u.timers
          /\ scheduleReconnect(u).reconnecting
                \/ scheduleReconnect(u).attempts >= MaxReconnectAttempts
          /\ scheduleReconnect(u).reconnecting => scheduleReconnect(u).timers > 0
      BY <2>2, ScheduleFacts
    <2>4. scheduleReconnect(u).timers >= s.timers
      BY <1>1, <2>2, <2>3 DEF Fields
    <2>. QED BY <1>3, <2>1, <2>3, <2>4
  <1>. QED BY <1>2, <1>3

(* cleanup() touches no connection that is being opened.                    *)
LEMMA CleanupFacts ==
  ASSUME NEW s \in Fields, NEW cs \in ConnStates, NEW ds \in AfterCleanup(s, cs)
  PROVE  /\ ds \in ConnStates
         /\ \A c \in Conns : cs[c].stage \in {"tcp", "channel"} => ds[c] = cs[c]
         /\ \A c \in Conns : ds[c].stage \in {"tcp", "channel"} => ds[c] = cs[c]
PROOF
  <1>1. CASE ds = cs
    BY <1>1
  <1>2. CASE ds # cs
    <2>1. s.channel \in Conns
      BY <1>2 DEF AfterCleanup, Fields
    <2>2. \/ /\ cs[s.channel].stage = "open"
             /\ ds = [cs EXCEPT ![s.channel].stage = "closing_channel"]
          \/ /\ cs[s.channel].stage = "chanless"
             /\ ds = [cs EXCEPT ![s.channel].stage = "closing"]
      BY <1>2 DEF AfterCleanup
    <2>. QED BY <2>1, <2>2 DEF ConnStates, Stages
  <1>. QED BY <1>1, <1>2

-----------------------------------------------------------------------------
(* The two invariants need nothing but the types to be inductive.           *)
IInv == TypeOK /\ NeverForgotten /\ FlagHonest

(* A loss that leaves the connections being opened as they are keeps IInv:  *)
(* if a reconnection is under way it still is, if not a timer is armed or   *)
(* no attempt is left.                                                      *)
LEMMA LossKeeps ==
  ASSUME IInv, NEW cs \in ConnStates, Loss(cs), losses' \in 0..MaxLosses,
         \A c \in Conns : Connecting(c) => cs[c] = conns[c],
         \A c \in Conns : cs[c].stage \in {"tcp", "channel"} => cs[c] = conns[c]
  PROVE  IInv'
PROOF
  <1>1. ctl \in Fields
    BY DEF IInv, TypeOK, Fields
  <1>2. /\ ctl' \in Fields
        /\ ctl'.reconnecting \/ ctl'.attempts >= MaxReconnectAttempts
        /\ ctl'.reconnecting => ctl.reconnecting \/ ctl'.timers > 0
        /\ ctl'.timers >= ctl.timers
    BY <1>1, LossFacts DEF Loss
  <1>3. /\ conns' \in ConnStates
        /\ \A c \in Conns : Connecting(c) => conns'[c] = conns[c]
    BY <1>1, CleanupFacts DEF Loss, Connecting
  <1>4. TypeOK'
    BY <1>2, <1>3 DEF TypeOK, Fields, ConnStates
  <1>5. NeverForgotten'
    BY <1>2 DEF NeverForgotten, GivenUp
  <1>6. FlagHonest'
    <2>1. CASE ctl'.timers > 0
      BY <2>1 DEF FlagHonest
    <2>2. CASE ~(ctl'.timers > 0)
      <3>1. ~(ctl.timers > 0)
        BY <1>1, <1>2, <2>2 DEF Fields
      <3>2. ctl'.reconnecting => Pending # {}
        BY <1>2, <2>2, <3>1 DEF IInv, FlagHonest
      <3>3. Pending \subseteq Pending'
        BY <1>3 DEF Pending, Connecting
      <3>. QED BY <3>2, <3>3 DEF FlagHonest
    <2>. QED BY <2>1, <2>2
  <1>. QED BY <1>4, <1>5, <1>6 DEF IInv

(* A connect of c that fails after the fields have become s keeps IInv.     *)
LEMMA FailKeeps ==
  ASSUME IInv, NEW c \in Conns, Connecting(c), NEW s \in Fields,
         s.reconnecting => ctl.reconnecting \/ s.timers > 0,
         s.timers >= ctl.timers,
         ctl' = connectFails(s, conns[c].by),
         conns' \in ConnStates, losses' \in 0..MaxLosses,
         \A d \in Conns \ {c} : Connecting(d) => conns'[d] = conns[d]
  PROVE  IInv'
PROOF
  <1>1. ctl \in Fields /\ conns[c].by \in {"init", "timer"}
    BY DEF IInv, TypeOK, Fields
  <1>2. /\ ctl' \in Fields
        /\ ctl'.reconnecting \/ ctl'.attempts >= MaxReconnectAttempts
        /\ ctl'.reconnecting => (conns[c].by = "init" /\ s.reconnecting) \/ ctl'.timers > 0
        /\ ctl'.timers >= s.timers
    BY <1>1, FailFacts
  <1>3. TypeOK'
    BY <1>2 DEF TypeOK, Fields, ConnStates
  <1>4. NeverForgotten'
    BY <1>2 DEF NeverForgotten, GivenUp
  <1>5. FlagHonest'
    <2>1. CASE ctl'.timers > 0
      BY <2>1 DEF FlagHonest
    <2>2. CASE ~(ctl'.timers > 0)
      <3>1. ~(s.timers > 0) /\ ~(ctl.timers > 0)
        BY <1>1, <1>2, <2>2 DEF Fields
      <3>2. ctl'.reconnecting => conns[c].by = "init" /\ Pending # {}
        BY <1>2, <2>2, <3>1 DEF IInv, FlagHonest
      <3>3. conns[c].by = "init" => Pending \subseteq Pending'
        BY DEF Pending, Connecting
      <3>. QED BY <3>2, <3>3 DEF FlagHonest
    <2>. QED BY <2>1, <2>2
  <1>. QED BY <1>3, <1>4, <1>5 DEF IInv

-----------------------------------------------------------------------------
(* The first connect is under way at the start, so nothing is forgotten.    *)
LEMMA InitEstablishes == Init => IInv
PROOF
  <1>. SUFFICES ASSUME Init PROVE IInv
    OBVIOUS
  <1>1. PICK c \in Conns :
          conns = [d \in Conns |-> IF d = c THEN [stage |-> "tcp", by |-> "init"] ELSE Unused]
    BY DEF Init
  <1>2. TypeOK
    BY <1>1, RabbitmqAssumption DEF Init, TypeOK, Unused, Stages
  <1>3. InitConnects
    BY <1>1 DEF InitConnects, Connecting
  <1>4. NeverForgotten /\ FlagHonest
    BY <1>3 DEF NeverForgotten, FlagHonest, Init
  <1>. QED BY <1>2, <1>4 DEF IInv

(* Every action of the controller, the broker and the emitters keeps IInv.  *)
LEMMA StepKeeps == IInv /\ [Next]_vars => IInv'
PROOF
  <1>. SUFFICES ASSUME IInv, [Next]_vars PROVE IInv'
    OBVIOUS
  <1>0. ctl \in Fields /\ conns \in ConnStates /\ losses \in 0..MaxLosses
    BY DEF IInv, TypeOK, Fields, ConnStates
  <1>1. CASE TimerFires
    <2>1. PICK c \in Conns :
            /\ conns[c].stage = "unused"
            /\ conns' = [conns EXCEPT ![c] = [stage |-> "tcp", by |-> "timer"]]
      BY <1>1 DEF TimerFires
    <2>2. /\ ctl.timers > 0
          /\ ctl' = [ctl EXCEPT !.timers = @ - 1]
          /\ losses' = losses
      BY <1>1 DEF TimerFires
    <2>3. ctl' \in Fields /\ conns' \in ConnStates
      BY <1>0, <2>1, <2>2 DEF Fields, ConnStates, Stages
    <2>4. /\ ctl'.channel = ctl.channel
          /\ ctl'.attempts = ctl.attempts
          /\ ctl'.reconnecting = ctl.reconnecting
      BY <1>0, <2>2 DEF Fields
    <2>5. TypeOK'
      BY <1>0, <2>2, <2>3 DEF TypeOK, Fields, ConnStates
    <2>6. c \in Pending'
      BY <1>0, <2>1 DEF Pending, Connecting, ConnStates
    <2>7. InitConnects => InitConnects'
      BY <1>0, <2>1 DEF InitConnects, Connecting, ConnStates
    <2>8. NeverForgotten'
      BY <2>4, <2>7 DEF IInv, NeverForgotten, GivenUp
    <2>9. FlagHonest'
      BY <2>6 DEF FlagHonest
    <2>. QED BY <2>5, <2>8, <2>9 DEF IInv
  <1>2. ASSUME NEW c \in Conns, ConnectFails(c)
        PROVE  IInv'
    <2>1. Connecting(c) /\ ctl' = connectFails(ctl, conns[c].by) /\ losses' = losses
      BY <1>2 DEF ConnectFails, Connecting
    <2>2. conns' \in ConnStates /\ \A d \in Conns \ {c} : conns'[d] = conns[d]
      BY <1>0, <1>2 DEF ConnectFails, ConnStates, Unused, Stages
    <2>3. ctl.timers >= ctl.timers
      BY <1>0 DEF Fields
    <2>. QED BY <1>0, <2>1, <2>2, <2>3, FailKeeps
  <1>3. ASSUME NEW c \in Conns, ConnectSucceeds(c)
        PROVE  IInv'
    <2>1. /\ conns' \in ConnStates
          /\ conns[c].stage = "tcp"
          /\ conns' = [conns EXCEPT ![c].stage = "channel"]
          /\ UNCHANGED <<ctl, losses>>
      BY <1>0, <1>3 DEF ConnectSucceeds, ConnStates, Stages
    <2>2. Pending \subseteq Pending' /\ (InitConnects => InitConnects')
      BY <1>0, <2>1 DEF Pending, InitConnects, Connecting, ConnStates
    <2>3. TypeOK'
      BY <1>0, <2>1 DEF TypeOK, Fields, ConnStates
    <2>. QED BY <2>1, <2>2, <2>3 DEF IInv, NeverForgotten, FlagHonest, GivenUp
  <1>4. ASSUME NEW c \in Conns, ChannelFails(c)
        PROVE  IInv'
    <2>1. Connecting(c) /\ ctl' = connectFails(ctl, conns[c].by)
      BY <1>4 DEF ChannelFails, Connecting
    <2>2. conns' \in ConnStates /\ \A d \in Conns \ {c} : conns'[d] = conns[d]
      BY <1>0, <1>4 DEF ChannelFails, ConnStates, Stages
    <2>3. losses' \in 0..MaxLosses /\ ctl.timers >= ctl.timers
      BY <1>0, <1>4, RabbitmqAssumption DEF ChannelFails, Fields
    <2>. QED BY <1>0, <2>1, <2>2, <2>3, FailKeeps
  <1>5. ASSUME NEW c \in Conns, ChannelOpens(c)
        PROVE  IInv'
    <2>1. /\ ctl' = [ctl EXCEPT !.channel = c, !.attempts = 0, !.reconnecting = FALSE]
          /\ conns' = [conns EXCEPT ![c].stage = "open"]
          /\ losses' = losses
      BY <1>5 DEF ChannelOpens
    <2>2. /\ ctl'.channel = c /\ ctl'.attempts = 0
          /\ ctl'.reconnecting = FALSE /\ ctl'.timers = ctl.timers
      BY <1>0, <2>1 DEF Fields
    <2>3. ctl' = [channel |-> c, attempts |-> 0, reconnecting |-> FALSE,
                  timers |-> ctl.timers]
      BY <1>0, <2>1 DEF Fields
    <2>4. ctl' \in Fields
      BY <1>0, <2>3, RabbitmqAssumption DEF Fields
    <2>5. conns' \in ConnStates
      BY <1>0, <2>1 DEF ConnStates, Stages
    <2>6. losses' \in 0..MaxLosses
      BY <1>0, <2>1
    <2>7. TypeOK'
      BY <2>4, <2>5, <2>6 DEF TypeOK, Fields, ConnStates
    <2>. QED BY <2>2, <2>7, RabbitmqAssumption DEF IInv, NeverForgotten, FlagHonest
  <1>6. ASSUME NEW c \in Conns, ConnectionLost(c)
        PROVE  IInv'
    <2>. DEFINE cs == [conns EXCEPT ![c] = Unused]
    <2>1. losses' \in 0..MaxLosses
      BY <1>0, <1>6, RabbitmqAssumption DEF ConnectionLost
    <2>2. cs \in ConnStates /\ cs[c].stage = "unused" /\ \A d \in Conns \ {c} : cs[d] = conns[d]
      BY <1>0 DEF ConnStates, Unused, Stages
    <2>3. CASE /\ conns[c].stage \in {"open", "chanless", "closing_channel", "closing"}
               /\ Loss(cs)
      <3>1. ~Connecting(c)
        BY <2>3 DEF Connecting
      <3>. HIDE DEF cs
      <3>. QED BY <2>1, <2>2, <2>3, <3>1, LossKeeps
    <2>4. CASE /\ conns[c].stage = "channel"
               /\ ctl' = connectFails(handleConnectionLoss(ctl), conns[c].by)
               /\ conns' \in AfterCleanup(ctl, cs)
      <3>1. Connecting(c)
        BY <2>4 DEF Connecting
      <3>2. conns' \in ConnStates
            /\ \A d \in Conns \ {c} : Connecting(d) => conns'[d] = conns[d]
        <4>. HIDE DEF cs
        <4>. QED BY <1>0, <2>2, <2>4, CleanupFacts DEF Connecting
      <3>3. /\ handleConnectionLoss(ctl) \in Fields
            /\ handleConnectionLoss(ctl).reconnecting
                  => ctl.reconnecting \/ handleConnectionLoss(ctl).timers > 0
            /\ handleConnectionLoss(ctl).timers >= ctl.timers
        BY <1>0, LossFacts
      <3>. QED BY <2>1, <2>4, <3>1, <3>2, <3>3, FailKeeps
    <2>. QED BY <1>6, <2>3, <2>4 DEF ConnectionLost
  <1>7. ASSUME NEW c \in Conns, ChannelError(c)
        PROVE  IInv'
    <2>. DEFINE cs == [conns EXCEPT ![c].stage = "chanless"]
    <2>1. losses' \in 0..MaxLosses /\ Loss(cs) /\ ~Connecting(c)
      BY <1>0, <1>7, RabbitmqAssumption DEF ChannelError, Connecting
    <2>2. /\ cs \in ConnStates
          /\ cs[c].stage = "chanless"
          /\ \A d \in Conns \ {c} : cs[d] = conns[d]
      BY <1>0 DEF ConnStates, Stages
    <2>. HIDE DEF cs
    <2>. QED BY <2>1, <2>2, LossKeeps
  <1>8. ASSUME NEW c \in Conns, ClosedEvent(c)
        PROVE  IInv'
    <2>1. losses' \in 0..MaxLosses /\ ~Connecting(c)
      BY <1>0, <1>8 DEF ClosedEvent, Connecting
    <2>2. PICK cs \in {[conns EXCEPT ![c].stage = "closing"], [conns EXCEPT ![c] = Unused]} :
            Loss(cs)
      BY <1>8 DEF ClosedEvent
    <2>3. /\ cs \in ConnStates
          /\ cs[c].stage \in {"closing", "unused"}
          /\ \A d \in Conns \ {c} : cs[d] = conns[d]
      BY <1>0, <2>2 DEF ConnStates, Unused, Stages
    <2>. QED BY <2>1, <2>2, <2>3, LossKeeps
  <1>9. CASE Emit
    <2>1. losses' = losses
      BY <1>9 DEF Emit
    <2>2. CASE ctl.channel = None
      <3>1. ctl' = scheduleReconnect(ctl) /\ conns' = conns
        BY <1>9, <2>2 DEF Emit
      <3>2. /\ ctl' \in Fields
            /\ ctl'.reconnecting \/ ctl'.attempts >= MaxReconnectAttempts
            /\ ctl'.reconnecting => ctl.reconnecting \/ ctl'.timers > 0
            /\ ctl'.timers >= ctl.timers
        BY <1>0, <3>1, ScheduleFacts
      <3>3. TypeOK'
        BY <1>0, <2>1, <3>1, <3>2 DEF TypeOK, Fields, ConnStates
      <3>4. NeverForgotten'
        BY <3>2 DEF NeverForgotten, GivenUp
      <3>5. Pending' = Pending
        BY <3>1 DEF Pending, Connecting
      <3>6. ctl.timers > 0 => ctl'.timers > 0
        BY <1>0, <3>2 DEF Fields
      <3>7. FlagHonest'
        BY <3>2, <3>5, <3>6 DEF IInv, FlagHonest
      <3>. QED BY <3>3, <3>4, <3>7 DEF IInv
    <2>3. CASE Loss(conns)
      BY <1>0, <2>1, <2>3, LossKeeps
    <2>4. CASE UNCHANGED <<ctl, conns>>
      BY <2>1, <2>4 DEF IInv, TypeOK, NeverForgotten, FlagHonest, InitConnects,
                        Pending, Connecting, GivenUp
    <2>. QED BY <1>9, <2>2, <2>3, <2>4 DEF Emit
  <1>10. CASE UNCHANGED vars
    BY <1>10 DEF vars, IInv, TypeOK, NeverForgotten, FlagHonest, InitConnects,
                 Pending, Connecting, GivenUp
  <1>. QED
    BY <1>1, <1>2, <1>3, <1>4, <1>5, <1>6, <1>7, <1>8, <1>9, <1>10 DEF Next, ConnectStep

-----------------------------------------------------------------------------
(* The types hold, a lost channel is never forgotten, and the flag never    *)
(* sticks, in every behaviour: emissions during init() included.            *)
THEOREM RabbitmqInvariant == Spec => []IInv
PROOF
  <1>1. Init => IInv
    BY InitEstablishes
  <1>2. IInv /\ [Next]_vars => IInv'
    BY StepKeeps
  <1>. QED BY <1>1, <1>2, PTL DEF Spec

(* The fields and the connections keep their types.                         *)
THEOREM RabbitmqTypes == Spec => []TypeOK
PROOF
  <1>1. IInv => TypeOK
    BY DEF IInv
  <1>. QED BY <1>1, RabbitmqInvariant, PTL

(* Without a channel, a reconnection is under way or every attempt failed.  *)
THEOREM ReconnectionNeverForgotten == Spec => []NeverForgotten
PROOF
  <1>1. IInv => NeverForgotten
    BY DEF IInv
  <1>. QED BY <1>1, RabbitmqInvariant, PTL

(* isReconnecting holds only while a timer or its connect is under way.     *)
THEOREM ReconnectingFlagIsHonest == Spec => []FlagHonest
PROOF
  <1>1. IInv => FlagHonest
    BY DEF IInv
  <1>. QED BY <1>1, RabbitmqInvariant, PTL

-----------------------------------------------------------------------------
(* One attempt at a time, where no event is emitted while init() connects.  *)
(* The flag is up whenever a timer is armed or its connect under way, so    *)
(* nothing else arms one; and while init() connects there is nothing yet    *)
(* whose loss could.                                                        *)
OneAttempt ==
  /\ ctl.timers <= 1
  /\ \A c, d \in Conns : Connecting(c) /\ Connecting(d) => c = d
  /\ \A c \in Conns : Connecting(c) => ctl.timers = 0

FlagRaised == ctl.timers > 0 \/ Pending # {} => ctl.reconnecting

NothingBeforeInit ==
  InitConnects =>
    /\ ctl.channel = None /\ ~ctl.reconnecting
    /\ \A c \in Conns : Connecting(c) \/ conns[c].stage = "unused"

FInv == OneAttempt /\ FlagRaised /\ NothingBeforeInit

(* scheduleReconnect arms at most one timer and raises the flag with it.    *)
LEMMA ScheduleArms ==
  ASSUME NEW s \in Fields
  PROVE  LET t == scheduleReconnect(s) IN
         \/ t = s /\ (s.reconnecting \/ s.attempts >= MaxReconnectAttempts)
         \/ ~s.reconnecting /\ t.reconnecting /\ t.timers = s.timers + 1
BY DEF scheduleReconnect

(* With the connections that connect gone and at most one timer, which the  *)
(* flag knows of, FInv holds.                                               *)
LEMMA QuietFInv ==
  ASSUME \A c \in Conns : ~Connecting(c)', ctl'.timers \in {0, 1},
         ctl'.timers = 1 => ctl'.reconnecting
  PROVE  FInv'
BY DEF FInv, OneAttempt, FlagRaised, NothingBeforeInit, InitConnects, Pending

(* A loss that leaves the connections being opened as they are, outside     *)
(* init(), keeps FInv.                                                      *)
LEMMA LossKeepsFlight ==
  ASSUME IInv, FInv, ~InitConnects, NEW cs \in ConnStates, Loss(cs),
         \A c \in Conns : Connecting(c) => cs[c] = conns[c],
         \A c \in Conns : cs[c].stage \in {"tcp", "channel"} => cs[c] = conns[c]
  PROVE  FInv'
PROOF
  <1>1. ctl \in Fields
    BY DEF IInv, TypeOK, Fields
  <1>2. \A c \in Conns : Connecting(c) \/ Connecting(c)' => conns'[c] = conns[c]
    BY <1>1, CleanupFacts DEF Loss, Connecting
  <1>3. CASE ctl.reconnecting
    <2>1. ctl' = ctl
      BY <1>3 DEF Loss, handleConnectionLoss
    <2>2. ~InitConnects'
      BY <1>2 DEF InitConnects, Connecting
    <2>. QED BY <1>2, <1>3, <2>1, <2>2
             DEF FInv, OneAttempt, FlagRaised, NothingBeforeInit, Connecting
  <1>4. CASE ~ctl.reconnecting
    <2>1. ctl.timers = 0 /\ Pending = {}
      BY <1>1, <1>4 DEF FInv, FlagRaised, Fields
    <2>2. \A c \in Conns : ~Connecting(c)
      BY <2>1 DEF Pending, InitConnects, IInv, TypeOK
    <2>3. \A c \in Conns : ~Connecting(c)'
      BY <1>2, <2>2 DEF Connecting
    <2>. DEFINE u == [ctl EXCEPT !.channel = None]
    <2>4. u \in Fields /\ u.timers = 0 /\ ~u.reconnecting
      BY <1>1, <1>4, <2>1 DEF Fields
    <2>5. ctl' = scheduleReconnect(u)
      BY <1>4 DEF Loss, handleConnectionLoss
    <2>. HIDE DEF u
    <2>6. ctl'.timers \in {0, 1} /\ (ctl'.timers = 1 => ctl'.reconnecting)
      BY <2>4, <2>5, ScheduleArms
    <2>. QED BY <2>3, <2>6, QuietFInv
  <1>. QED BY <1>3, <1>4

(* A connect that fails was the only one, and leaves at most one timer.     *)
LEMMA FailKeepsFlight ==
  ASSUME IInv, FInv, NEW c \in Conns, Connecting(c),
         NEW s \in {ctl, handleConnectionLoss(ctl)},
         ctl' = connectFails(s, conns[c].by),
         ~Connecting(c)',
         \A d \in Conns : Connecting(d)' => Connecting(d)
  PROVE  FInv'
PROOF
  <1>1. ctl \in Fields /\ ctl.timers = 0 /\ conns[c].by \in {"init", "timer"}
    BY DEF IInv, TypeOK, Fields, FInv, OneAttempt
  <1>2. \A d \in Conns : ~Connecting(d)'
    BY DEF FInv, OneAttempt
  <1>3. CASE conns[c].by = "timer"
    <2>1. ctl.reconnecting
      BY <1>3 DEF FInv, FlagRaised, Pending
    <2>2. s = ctl
      BY <2>1 DEF handleConnectionLoss
    <2>3. scheduleReconnect(ctl) = ctl
      BY <2>1 DEF scheduleReconnect
    <2>. DEFINE u == [ctl EXCEPT !.reconnecting = FALSE]
    <2>4. u \in Fields /\ u.timers = 0 /\ ~u.reconnecting
      BY <1>1 DEF Fields
    <2>5. ctl' = scheduleReconnect(u)
      BY <1>3, <2>2, <2>3 DEF connectFails
    <2>. HIDE DEF u
    <2>6. ctl'.timers \in {0, 1} /\ (ctl'.timers = 1 => ctl'.reconnecting)
      BY <2>4, <2>5, ScheduleArms
    <2>. QED BY <1>2, <2>6, QuietFInv
  <1>4. CASE conns[c].by = "init"
    <2>1. ~ctl.reconnecting
      BY <1>4 DEF FInv, NothingBeforeInit, InitConnects
    <2>2. s \in Fields /\ s.timers \in {0, 1} /\ (s.timers = 1 => s.reconnecting)
      <3>1. CASE s = ctl
        BY <1>1, <3>1
      <3>2. CASE s = handleConnectionLoss(ctl)
        <4>. DEFINE u == [ctl EXCEPT !.channel = None]
        <4>1. u \in Fields /\ u.timers = 0 /\ ~u.reconnecting
          BY <1>1, <2>1 DEF Fields
        <4>2. s = scheduleReconnect(u)
          BY <2>1, <3>2 DEF handleConnectionLoss
        <4>. HIDE DEF u
        <4>. QED BY <4>1, <4>2, ScheduleArms, ScheduleFacts
      <3>. QED BY <3>1, <3>2
    <2>3. ctl' = scheduleReconnect(s)
      BY <1>4 DEF connectFails
    <2>4. ctl'.timers \in {0, 1} /\ (ctl'.timers = 1 => ctl'.reconnecting)
      BY <2>2, <2>3, ScheduleArms
    <2>. QED BY <1>2, <2>4, QuietFInv
  <1>. QED BY <1>1, <1>3, <1>4

LEMMA InitEstablishesFlight == Init => FInv
PROOF
  <1>. SUFFICES ASSUME Init PROVE FInv
    OBVIOUS
  <1>1. PICK c \in Conns :
          conns = [d \in Conns |-> IF d = c THEN [stage |-> "tcp", by |-> "init"] ELSE Unused]
    BY DEF Init
  <1>2. ctl = [channel |-> None, attempts |-> 0, reconnecting |-> FALSE, timers |-> 0]
    BY DEF Init
  <1>3. \A d \in Conns : /\ d = c => Connecting(d) /\ conns[d].by = "init"
                         /\ d # c => ~Connecting(d) /\ conns[d].stage = "unused"
    BY <1>1 DEF Connecting, Unused
  <1>. QED BY <1>2, <1>3 DEF FInv, OneAttempt, FlagRaised, Pending, NothingBeforeInit

(* Every action keeps FInv if nothing is emitted during init().             *)
LEMMA StepKeepsFlight ==
  ASSUME ~EarlyEmit, IInv, FInv, [Next]_vars
  PROVE  FInv'
PROOF
  <1>0. ctl \in Fields /\ conns \in ConnStates
    BY DEF IInv, TypeOK, Fields, ConnStates
  <1>1. CASE TimerFires
    <2>1. PICK c \in Conns :
            /\ conns[c].stage = "unused"
            /\ conns' = [conns EXCEPT ![c] = [stage |-> "tcp", by |-> "timer"]]
      BY <1>1 DEF TimerFires
    <2>2. ctl.timers = 1 /\ ctl.reconnecting
      BY <1>0, <1>1 DEF TimerFires, FInv, OneAttempt, FlagRaised, Fields
    <2>3. ctl'.timers = 0 /\ ctl'.reconnecting
      BY <1>0, <1>1, <2>2 DEF TimerFires, Fields
    <2>4. \A d \in Conns : ~Connecting(d)
      BY <2>2 DEF FInv, OneAttempt
    <2>5. \A d \in Conns : Connecting(d)' => d = c
      BY <1>0, <2>1, <2>4 DEF Connecting, ConnStates
    <2>6. conns'[c].by = "timer"
      BY <1>0, <2>1 DEF ConnStates
    <2>7. ~InitConnects'
      BY <2>5, <2>6 DEF InitConnects
    <2>. QED BY <2>3, <2>5, <2>7 DEF FInv, OneAttempt, FlagRaised, NothingBeforeInit
  <1>2. ASSUME NEW c \in Conns, ConnectFails(c) PROVE FInv'
    <2>1. Connecting(c) /\ ctl' = connectFails(ctl, conns[c].by)
      BY <1>2 DEF ConnectFails, Connecting
    <2>2. ~Connecting(c)' /\ \A d \in Conns : Connecting(d)' => Connecting(d)
      BY <1>0, <1>2 DEF ConnectFails, Connecting, ConnStates, Unused
    <2>. QED BY <2>1, <2>2, FailKeepsFlight
  <1>3. ASSUME NEW c \in Conns, ConnectSucceeds(c) PROVE FInv'
    <2>1. /\ conns[c].stage = "tcp"
          /\ conns' = [conns EXCEPT ![c].stage = "channel"]
          /\ ctl' = ctl
      BY <1>3 DEF ConnectSucceeds
    <2>2. \A d \in Conns : /\ Connecting(d)' <=> Connecting(d)
                           /\ conns'[d].by = conns[d].by
                           /\ d # c => conns'[d] = conns[d]
      BY <1>0, <2>1 DEF Connecting, ConnStates
    <2>3. Pending' = Pending /\ (InitConnects' <=> InitConnects)
      BY <2>2 DEF Pending, InitConnects
    <2>4. \A d \in Conns : Connecting(d) \/ conns[d].stage = "unused"
             => Connecting(d)' \/ conns'[d].stage = "unused"
      BY <2>1, <2>2
    <2>. QED BY <2>1, <2>2, <2>3, <2>4 DEF FInv, OneAttempt, FlagRaised,
                    NothingBeforeInit
  <1>4. ASSUME NEW c \in Conns, ChannelFails(c) PROVE FInv'
    <2>1. Connecting(c) /\ ctl' = connectFails(ctl, conns[c].by)
      BY <1>4 DEF ChannelFails, Connecting
    <2>2. ~Connecting(c)' /\ \A d \in Conns : Connecting(d)' => Connecting(d)
      BY <1>0, <1>4 DEF ChannelFails, Connecting, ConnStates
    <2>. QED BY <2>1, <2>2, FailKeepsFlight
  <1>5. ASSUME NEW c \in Conns, ChannelOpens(c) PROVE FInv'
    <2>1. Connecting(c) /\ conns' = [conns EXCEPT ![c].stage = "open"]
      BY <1>5 DEF ChannelOpens, Connecting
    <2>2. \A d \in Conns : ~Connecting(d)'
      BY <1>0, <2>1 DEF FInv, OneAttempt, Connecting, ConnStates
    <2>3. ctl.timers = 0
      BY <2>1 DEF FInv, OneAttempt
    <2>4. ctl'.timers = 0
      BY <1>0, <1>5, <2>3 DEF ChannelOpens, Fields
    <2>. QED BY <2>2, <2>4, QuietFInv
  <1>6. ASSUME NEW c \in Conns, ConnectionLost(c) PROVE FInv'
    <2>. DEFINE cs == [conns EXCEPT ![c] = Unused]
    <2>1. cs \in ConnStates /\ cs[c].stage = "unused" /\ \A d \in Conns \ {c} : cs[d] = conns[d]
      BY <1>0 DEF ConnStates, Unused, Stages
    <2>2. CASE /\ conns[c].stage \in {"open", "chanless", "closing_channel", "closing"}
               /\ Loss(cs)
      <3>1. ~Connecting(c) /\ ~InitConnects
        BY <2>2 DEF Connecting, FInv, NothingBeforeInit
      <3>. HIDE DEF cs
      <3>. QED BY <2>1, <2>2, <3>1, LossKeepsFlight
    <2>3. CASE /\ conns[c].stage = "channel"
               /\ ctl' = connectFails(handleConnectionLoss(ctl), conns[c].by)
               /\ conns' \in AfterCleanup(ctl, cs)
      <3>1. Connecting(c)
        BY <2>3 DEF Connecting
      <3>2. ~Connecting(c)' /\ \A d \in Conns : Connecting(d)' => Connecting(d)
        <4>. HIDE DEF cs
        <4>. QED BY <1>0, <2>1, <2>3, CleanupFacts DEF Connecting
      <3>. QED BY <2>3, <3>1, <3>2, FailKeepsFlight
    <2>. QED BY <1>6, <2>2, <2>3 DEF ConnectionLost
  <1>7. ASSUME NEW c \in Conns, ChannelError(c) PROVE FInv'
    <2>. DEFINE cs == [conns EXCEPT ![c].stage = "chanless"]
    <2>1. Loss(cs) /\ ~Connecting(c) /\ ~InitConnects
      BY <1>7 DEF ChannelError, Connecting, FInv, NothingBeforeInit
    <2>2. /\ cs \in ConnStates
          /\ cs[c].stage = "chanless"
          /\ \A d \in Conns \ {c} : cs[d] = conns[d]
      BY <1>0 DEF ConnStates, Stages
    <2>. HIDE DEF cs
    <2>. QED BY <2>1, <2>2, LossKeepsFlight
  <1>8. ASSUME NEW c \in Conns, ClosedEvent(c) PROVE FInv'
    <2>1. ~Connecting(c) /\ ~InitConnects
      BY <1>8 DEF ClosedEvent, Connecting, FInv, NothingBeforeInit
    <2>2. PICK cs \in {[conns EXCEPT ![c].stage = "closing"], [conns EXCEPT ![c] = Unused]} :
            Loss(cs)
      BY <1>8 DEF ClosedEvent
    <2>3. /\ cs \in ConnStates
          /\ cs[c].stage \in {"closing", "unused"}
          /\ \A d \in Conns \ {c} : cs[d] = conns[d]
      BY <1>0, <2>2 DEF ConnStates, Unused, Stages
    <2>. QED BY <2>1, <2>2, <2>3, LossKeepsFlight
  <1>9. CASE Emit
    <2>1. ~InitConnects
      BY <1>9 DEF Emit
    <2>2. CASE ctl.channel = None
      <3>1. ctl' = scheduleReconnect(ctl) /\ conns' = conns
        BY <1>9, <2>2 DEF Emit
      <3>2. CASE ctl' = ctl
        BY <3>1, <3>2 DEF FInv, OneAttempt, FlagRaised, NothingBeforeInit, InitConnects,
                          Pending, Connecting
      <3>3. CASE ctl' # ctl
        <4>1. ~ctl.reconnecting /\ ctl'.reconnecting /\ ctl'.timers = ctl.timers + 1
          BY <1>0, <3>1, <3>3, ScheduleArms
        <4>2. ctl.timers = 0 /\ Pending = {}
          BY <1>0, <4>1 DEF FInv, FlagRaised, Fields
        <4>3. \A c \in Conns : ~Connecting(c)'
          BY <1>0, <2>1, <3>1, <4>2 DEF Pending, InitConnects, Connecting, ConnStates
        <4>. QED BY <4>1, <4>2, <4>3, QuietFInv
      <3>. QED BY <3>2, <3>3
    <2>3. CASE Loss(conns)
      BY <1>0, <2>1, <2>3, LossKeepsFlight
    <2>4. CASE UNCHANGED <<ctl, conns>>
      BY <2>4 DEF FInv, OneAttempt, FlagRaised, NothingBeforeInit, InitConnects,
                  Pending, Connecting
    <2>. QED BY <1>9, <2>2, <2>3, <2>4 DEF Emit
  <1>10. CASE UNCHANGED vars
    BY <1>10 DEF vars, FInv, OneAttempt, FlagRaised, NothingBeforeInit, InitConnects,
                 Pending, Connecting
  <1>. QED
    BY <1>1, <1>2, <1>3, <1>4, <1>5, <1>6, <1>7, <1>8, <1>9, <1>10 DEF Next, ConnectStep

LEMMA OneAttemptCounts == IInv /\ OneAttempt => SingleFlight
PROOF
  <1>. SUFFICES ASSUME IInv, OneAttempt PROVE SingleFlight
    OBVIOUS
  <1>. DEFINE S == {c \in Conns : Connecting(c)}
  <1>1. ctl.timers \in Nat /\ ctl.timers <= 1
    BY DEF IInv, TypeOK, OneAttempt
  <1>2. CASE S = {}
    <2>1. Cardinality(S) = 0
      BY <1>2, FS_EmptySet
    <2>. QED BY <1>1, <2>1 DEF SingleFlight
  <1>3. CASE S # {}
    <2>1. PICK c \in Conns : Connecting(c)
      BY <1>3
    <2>2. S = {c} /\ ctl.timers = 0
      BY <2>1 DEF OneAttempt
    <2>3. Cardinality(S) = 1
      BY <2>2, FS_Singleton
    <2>. QED BY <2>2, <2>3 DEF SingleFlight
  <1>. QED BY <1>2, <1>3

(* Where no event is emitted before init() has ended, never more than one  *)
(* connection attempt is armed or under way, whatever is lost and whichever *)
(* handlers of old connections run.                                         *)
THEOREM OneReconnectionAtATime == ~EarlyEmit => (Spec => []SingleFlight)
PROOF
  <1>. SUFFICES ASSUME ~EarlyEmit PROVE Spec => []SingleFlight
    OBVIOUS
  <1>1. Init => FInv
    BY InitEstablishesFlight
  <1>2. IInv /\ FInv /\ [Next]_vars => FInv'
    BY StepKeepsFlight
  <1>3. IInv /\ FInv => SingleFlight
    BY OneAttemptCounts DEF FInv
  <1>. QED BY <1>1, <1>2, <1>3, RabbitmqInvariant, PTL DEF Spec

-----------------------------------------------------------------------------
(***************************************************************************)
(* The controller of Kafka.                                                *)
(***************************************************************************)

(* The fields the methods work on, for whom the lemmas are stated.          *)
KFields == [producer : Producers \cup {None}, consumer : BOOLEAN, client : BOOLEAN,
           attempts : 0..KafkaAttempts, reconnecting : BOOLEAN, timers : Nat]

KStages == [Producers -> {"unused", "connecting", "connected", "gone"}]
KConnects == [by : {"init", "timer"}, p : Producers, pc : {"producer", "consumer"}]
KCleanups == [by : Emitters, p : Producers \cup {None}, pc : {"consumer", "producer"}]

(* Nothing is emitted before init() has ended, a cleanup ends before the    *)
(* timer armed with it fires, and the bounds are numbers.                   *)
Timely == /\ KafkaAttempts \in Nat
          /\ MaxFlips \in Nat
          /\ None \notin Producers
          /\ ~EarlyEmit
          /\ ~SlowCleanup

-----------------------------------------------------------------------------
(* The connect under way is the only one, no timer is armed beside it and   *)
(* no cleanup takes its producer from it; the flag is up if a timer made    *)
(* it, and no emit() is in progress if init() did.                          *)
Alone(c) ==
  /\ connects = {c}
  /\ kctl.timers = 0
  /\ cleanups = {}
  /\ kctl.producer = c.p
  /\ c.pc = "consumer" => stage[c.p] = "connected"
  /\ kctl.reconnecting <=> c.by = "timer"
  /\ c.by = "init" => \A e \in Emitters : emits[e] = "idle"

(* With no connect under way, the flag is up exactly while the one timer is *)
(* armed; without it the producer in use is good or no attempt is left, and *)
(* then alone may a cleanup be in progress.                                 *)
Waiting ==
  /\ connects = {}
  /\ kctl.timers = IF kctl.reconnecting THEN 1 ELSE 0
  /\ kctl.reconnecting \/ K!Usable \/ K!GivenUp
  /\ cleanups # {} => kctl.reconnecting \/ K!GivenUp

(* The inductive invariant.                                                 *)
KafkaInv == K!TypeOK /\ (Waiting \/ \E c \in connects : Alone(c))

-----------------------------------------------------------------------------
(* scheduleReconnect keeps the types, the producer and what the timers say  *)
(* of the flag, and afterwards the flag is up or no attempt is left.        *)
LEMMA KafkaScheduleFacts ==
  ASSUME Timely, NEW s \in KFields
  PROVE  LET t == K!scheduleReconnect(s) IN
         /\ t \in KFields
         /\ t.producer = s.producer /\ t.consumer = s.consumer
         /\ t.reconnecting \/ t.attempts >= KafkaAttempts
         /\ s.reconnecting => t = s
         /\ ~s.reconnecting /\ s.timers = 0
              => t.timers = IF t.reconnecting THEN 1 ELSE 0
PROOF
  <1>1. CASE s.attempts >= KafkaAttempts \/ s.reconnecting
    BY <1>1 DEF K!scheduleReconnect, KFields
  <1>2. CASE ~(s.attempts >= KafkaAttempts \/ s.reconnecting)
    <2>1. K!scheduleReconnect(s) = [producer |-> s.producer, consumer |-> s.consumer,
                                  client |-> s.client, attempts |-> s.attempts + 1,
                                  reconnecting |-> TRUE, timers |-> s.timers + 1]
      BY <1>2 DEF K!scheduleReconnect, KFields
    <2>2. s.attempts + 1 \in 0..KafkaAttempts /\ s.timers + 1 \in Nat
      BY <1>2 DEF KFields, Timely
    <2>. QED BY <1>2, <2>1, <2>2 DEF KFields
  <1>. QED BY <1>1, <1>2, Zenon

(* A cleanup that goes on to the producer, from fields s that are           *)
(* reconnecting or out of attempts, leaves them so.                         *)
LEMMA KafkaDisconnectKeeps ==
  ASSUME Timely, K!TypeOK, NEW e \in Emitters, NEW s \in KFields,
         NEW rest \in SUBSET KCleanups,
         K!DisconnectProducer(e, s, rest),
         connects = {}, connects' = connects,
         s.timers = IF s.reconnecting THEN 1 ELSE 0,
         s.reconnecting \/ s.attempts >= KafkaAttempts
  PROVE  /\ Waiting'
         /\ kctl' \in KFields /\ stage' \in KStages /\ cleanups' \in SUBSET KCleanups
PROOF
  <1>1. CASE s.producer = None
    <2>1. kctl' = [producer |-> s.producer, consumer |-> s.consumer,
                  client |-> FALSE, attempts |-> s.attempts,
                  reconnecting |-> s.reconnecting, timers |-> s.timers]
      BY <1>1 DEF K!DisconnectProducer, KFields
    <2>2. cleanups' = rest /\ stage' = stage
      BY <1>1 DEF K!DisconnectProducer
    <2>3. kctl' \in KFields
      BY <2>1 DEF KFields
    <2>. QED BY <2>1, <2>2, <2>3 DEF Waiting, K!GivenUp, K!TypeOK, KStages
  <1>2. CASE s.producer # None
    <2>1. /\ kctl' = s
          /\ cleanups' = rest \cup {[by |-> e, p |-> s.producer, pc |-> "producer"]}
          /\ stage' = [stage EXCEPT ![s.producer] = "gone"]
      BY <1>2 DEF K!DisconnectProducer
    <2>2. cleanups' \in SUBSET KCleanups
      BY <2>1 DEF KCleanups, KFields
    <2>3. stage' \in KStages
      BY <2>1 DEF K!TypeOK, KStages
    <2>. QED BY <2>1, <2>2, <2>3 DEF Waiting, K!GivenUp
  <1>. QED BY <1>1, <1>2

(* The loss that a failed send of e sees keeps IInv: during a connect the   *)
(* flag turns it away, and otherwise it ends with the flag up or no attempt *)
(* left.                                                                    *)
LEMMA KafkaLossKeeps ==
  ASSUME Timely, KafkaInv, NEW e \in Emitters,
         ~(\E c \in connects : Alone(c)) \/ kctl.reconnecting,
         K!handleConnectionLoss(e), connects' = connects
  PROVE  /\ kctl' \in KFields
         /\ stage' \in KStages /\ cleanups' \in SUBSET KCleanups
         /\ kctl.reconnecting => UNCHANGED <<kctl, stage, cleanups>>
         /\ ~kctl.reconnecting => Waiting'
PROOF
  <1>0. kctl \in KFields /\ stage \in KStages /\ cleanups \in SUBSET KCleanups
    BY DEF KafkaInv, K!TypeOK, KFields, KStages, KCleanups
  <1>1. CASE kctl.reconnecting
    BY <1>0, <1>1 DEF K!handleConnectionLoss
  <1>2. CASE ~kctl.reconnecting
    <2>. DEFINE s == K!scheduleReconnect(kctl)
    <2>1. Waiting
      BY <1>2 DEF KafkaInv
    <2>2. connects = {} /\ kctl.timers = 0
      BY <1>2, <2>1 DEF Waiting
    <2>3. /\ s \in KFields
          /\ s.reconnecting \/ s.attempts >= KafkaAttempts
          /\ s.timers = IF s.reconnecting THEN 1 ELSE 0
      BY <1>0, <1>2, <2>2, KafkaScheduleFacts
    <2>4. CASE kctl.consumer
      <3>1. /\ kctl' = s
            /\ cleanups' = cleanups \cup {[by |-> e, p |-> None, pc |-> "consumer"]}
            /\ stage' = stage
        BY <1>2, <2>4 DEF K!handleConnectionLoss
      <3>. HIDE DEF s
      <3>2. cleanups' \in SUBSET KCleanups
        BY <1>0, <3>1 DEF KCleanups
      <3>3. Waiting'
        BY <2>2, <2>3, <3>1 DEF Waiting, K!GivenUp
      <3>. QED BY <1>0, <1>2, <2>3, <3>1, <3>2, <3>3
    <2>5. CASE ~kctl.consumer
      <3>1. K!DisconnectProducer(e, s, cleanups)
        BY <1>2, <2>5 DEF K!handleConnectionLoss
      <3>2. K!TypeOK
        BY DEF KafkaInv
      <3>. HIDE DEF s
      <3>. QED BY <1>0, <1>2, <2>2, <2>3, <3>1, <3>2, KafkaDisconnectKeeps
    <2>. QED BY <2>4, <2>5
  <1>. QED BY <1>1, <1>2

-----------------------------------------------------------------------------
(* init() connects at the start, alone.                                     *)
LEMMA KafkaInit ==
  ASSUME Timely, K!Init
  PROVE  KafkaInv
PROOF
  <1>1. PICK p \in Producers :
          /\ kctl = [producer |-> p, consumer |-> FALSE, client |-> TRUE, attempts |-> 0,
                    reconnecting |-> FALSE, timers |-> 0]
          /\ stage = [q \in Producers |-> IF q = p THEN "connecting" ELSE "unused"]
          /\ connects = {[by |-> "init", p |-> p, pc |-> "producer"]}
    BY DEF K!Init
  <1>2. K!TypeOK
    <2>1. 0 \in 0..KafkaAttempts
      BY DEF Timely
    <2>2. kctl \in KFields
      BY <1>1, <2>1 DEF KFields
    <2>3. stage \in KStages /\ connects \in SUBSET KConnects
      BY <1>1 DEF KStages, KConnects
    <2>4. emits \in [Emitters -> {"idle", "get", "local", "global"}] /\ cleanups = {}
      BY DEF K!Init
    <2>5. broker \in [up : BOOLEAN, flips : 0..MaxFlips]
      BY DEF K!Init, Timely
    <2>. QED BY <2>2, <2>3, <2>4, <2>5 DEF K!TypeOK, KFields, KStages, KConnects
  <1>3. Alone([by |-> "init", p |-> p, pc |-> "producer"])
    BY <1>1 DEF Alone, K!Init
  <1>. QED BY <1>1, <1>2, <1>3 DEF KafkaInv
-----------------------------------------------------------------------------
(* Every step keeps IInv.                                                   *)
LEMMA KafkaStep ==
  ASSUME Timely, KafkaInv, [K!Next]_K!vars
  PROVE  KafkaInv'
PROOF
  <1>0. /\ kctl \in KFields /\ stage \in KStages
        /\ connects \in SUBSET KConnects /\ cleanups \in SUBSET KCleanups
        /\ emits \in [Emitters -> {"idle", "get", "local", "global"}]
        /\ broker \in [up : BOOLEAN, flips : 0..MaxFlips]
    BY DEF KafkaInv, K!TypeOK, KFields, KStages, KConnects, KCleanups
  <1>1. CASE K!TimerFires
    <2>1. PICK p \in K!Fresh : K!Begins("timer", p, [kctl EXCEPT !.timers = @ - 1])
      BY <1>1 DEF K!TimerFires
    <2>2. /\ kctl.timers > 0 /\ cleanups = {}
          /\ UNCHANGED <<cleanups, emits, broker>>
      BY <1>1 DEF K!TimerFires, Timely
    <2>3. connects = {} /\ kctl.reconnecting /\ kctl.timers = 1
      BY <1>0, <2>2 DEF KafkaInv, Alone, Waiting
    <2>. DEFINE n == [by |-> "timer", p |-> p, pc |-> "producer"]
    <2>4. p \in Producers /\ n \in KConnects
      BY DEF K!Fresh, KConnects
    <2>. DEFINE s == [kctl EXCEPT !.timers = @ - 1]
    <2>5. kctl' = [producer |-> p, consumer |-> kctl.consumer, client |-> TRUE,
                  attempts |-> kctl.attempts, reconnecting |-> kctl.reconnecting, timers |-> 0]
      <3>1. kctl.timers - 1 = 0
        BY <2>3
      <3>2. /\ s \in KFields /\ s.timers = 0 /\ s.consumer = kctl.consumer
            /\ s.attempts = kctl.attempts /\ s.reconnecting = kctl.reconnecting
        BY <1>0, <3>1 DEF KFields
      <3>3. kctl' = [s EXCEPT !.producer = p, !.client = TRUE]
        BY <2>1 DEF K!Begins
      <3>. HIDE DEF s
      <3>. QED BY <3>2, <3>3 DEF KFields
    <2>6. connects' = {n} /\ stage' \in KStages
      BY <1>0, <2>1, <2>3, <2>4 DEF K!Begins, KStages
    <2>7. kctl' \in KFields
      BY <1>0, <2>4, <2>5 DEF KFields
    <2>8. K!TypeOK'
      BY <1>0, <2>2, <2>4, <2>6, <2>7 DEF K!TypeOK, KFields, KStages, KConnects,
             KCleanups
    <2>9. Alone(n)'
      BY <2>2, <2>3, <2>5, <2>6 DEF Alone
    <2>. QED BY <2>6, <2>8, <2>9 DEF KafkaInv
  <1>2. ASSUME NEW c \in connects, K!Connected(c)
        PROVE  KafkaInv'
    <2>1. Alone(c) /\ c \in KConnects
      BY <1>0 DEF KafkaInv, Alone, Waiting
    <2>2. /\ c.pc = "producer" /\ stage' = [stage EXCEPT ![c.p] = "connected"]
          /\ UNCHANGED <<cleanups, emits, broker>>
      BY <1>2 DEF K!Connected
    <2>3. c.p \in Producers /\ stage' \in KStages /\ stage'[c.p] = "connected"
      BY <1>0, <2>1, <2>2 DEF KConnects, KStages
    <2>4. CASE Global
      <3>. DEFINE n == [c EXCEPT !.pc = "consumer"]
      <3>1. /\ kctl' = [kctl EXCEPT !.consumer = @ \/ kctl.client]
            /\ connects' = (connects \ {c}) \cup {n}
        BY <1>2, <2>4 DEF K!Connected
      <3>2. n \in KConnects /\ n.p = c.p /\ n.by = c.by /\ connects' = {n}
        BY <2>1, <3>1 DEF KConnects, Alone
      <3>3. kctl' \in KFields /\ kctl'.producer = kctl.producer
            /\ kctl'.timers = kctl.timers /\ kctl'.reconnecting = kctl.reconnecting
        BY <1>0, <3>1 DEF KFields
      <3>4. K!TypeOK'
        BY <1>0, <2>2, <2>3, <3>2, <3>3 DEF K!TypeOK, KFields, KStages, KConnects,
               KCleanups
      <3>. HIDE DEF n
      <3>5. Alone(n)'
        BY <2>1, <2>2, <2>3, <3>2, <3>3 DEF Alone
      <3>. QED BY <3>2, <3>4, <3>5 DEF KafkaInv
    <2>5. CASE ~Global
      <3>1. kctl' = K!Succeeded(kctl) /\ connects' = {}
        BY <1>2, <2>1, <2>5 DEF K!Connected, Alone
      <3>2. kctl' = [producer |-> kctl.producer, consumer |-> kctl.consumer,
                    client |-> kctl.client, attempts |-> 0,
                    reconnecting |-> FALSE, timers |-> kctl.timers]
        BY <1>0, <3>1 DEF K!Succeeded, KFields
      <3>3. kctl' \in KFields
        BY <1>0, <3>2 DEF KFields, Timely
      <3>4. K!TypeOK'
        BY <1>0, <2>2, <2>3, <3>1, <3>3 DEF K!TypeOK, KFields, KStages, KConnects,
               KCleanups
      <3>5. K!Usable'
        BY <2>1, <2>3, <3>2 DEF K!Usable, Alone, Timely
      <3>6. Waiting'
        BY <2>1, <2>2, <3>1, <3>2, <3>5 DEF Waiting, Alone
      <3>. QED BY <3>4, <3>6 DEF KafkaInv
    <2>. QED BY <2>4, <2>5
  <1>3. ASSUME NEW c \in connects, K!ConsumerDone(c)
        PROVE  KafkaInv'
    <2>1. Alone(c) /\ c \in KConnects /\ c.pc = "consumer" /\ c.p \in Producers
      BY <1>0, <1>3 DEF KafkaInv, Alone, Waiting, K!ConsumerDone, KConnects
    <2>2. /\ kctl' = K!Succeeded(kctl) /\ connects' = {}
          /\ UNCHANGED <<stage, cleanups, emits, broker>>
      BY <1>3, <2>1 DEF K!ConsumerDone, Alone
    <2>3. kctl' = [producer |-> kctl.producer, consumer |-> kctl.consumer,
                  client |-> kctl.client, attempts |-> 0,
                  reconnecting |-> FALSE, timers |-> kctl.timers]
      BY <1>0, <2>2 DEF K!Succeeded, KFields
    <2>4. kctl' \in KFields
      BY <1>0, <2>3 DEF KFields, Timely
    <2>5. K!TypeOK'
      BY <1>0, <2>2, <2>4 DEF K!TypeOK, KFields, KStages, KConnects, KCleanups
    <2>6. K!Usable'
      BY <2>1, <2>2, <2>3 DEF K!Usable, Alone, Timely
    <2>7. Waiting'
      BY <2>1, <2>2, <2>3, <2>6 DEF Waiting, Alone
    <2>. QED BY <2>5, <2>7 DEF KafkaInv
  <1>4. ASSUME NEW c \in connects, K!ConnectFails(c)
        PROVE  KafkaInv'
    <2>. DEFINE s == [K!scheduleReconnect(kctl) EXCEPT !.reconnecting = FALSE]
    <2>1. Alone(c) /\ c \in KConnects /\ c.p \in Producers /\ c.by \in {"init", "timer"}
      BY <1>0 DEF KafkaInv, Alone, Waiting, KConnects
    <2>2. connects' = {} /\ UNCHANGED <<cleanups, emits, broker>>
      BY <1>4, <2>1 DEF K!ConnectFails, Alone
    <2>3. stage' \in KStages
      BY <1>0, <1>4 DEF K!ConnectFails, KStages
    <2>4. /\ kctl' \in KFields
          /\ kctl'.reconnecting \/ kctl'.attempts >= KafkaAttempts
          /\ kctl'.timers = IF kctl'.reconnecting THEN 1 ELSE 0
      <3>1. CASE c.by = "init"
        <4>1. kctl' = K!scheduleReconnect(kctl) /\ kctl.timers = 0 /\ ~kctl.reconnecting
          BY <1>4, <2>1, <3>1 DEF K!ConnectFails, Alone
        <4>. QED BY <1>0, <4>1, KafkaScheduleFacts
      <3>2. CASE c.by = "timer"
        <4>1. kctl' = K!scheduleReconnect(s) /\ kctl.timers = 0 /\ kctl.reconnecting
          BY <1>4, <2>1, <3>2 DEF K!ConnectFails, Alone
        <4>2. K!scheduleReconnect(kctl) = kctl
          BY <1>0, <4>1, KafkaScheduleFacts
        <4>3. s \in KFields /\ ~s.reconnecting /\ s.timers = 0
          BY <1>0, <4>1, <4>2 DEF KFields
        <4>. HIDE DEF s
        <4>. QED BY <4>1, <4>3, KafkaScheduleFacts
      <3>. QED BY <2>1, <3>1, <3>2
    <2>5. K!TypeOK'
      BY <1>0, <2>2, <2>3, <2>4 DEF K!TypeOK, KFields, KStages, KConnects, KCleanups
    <2>6. Waiting'
      BY <2>1, <2>2, <2>4 DEF Waiting, Alone, K!GivenUp
    <2>. QED BY <2>5, <2>6 DEF KafkaInv
  <1>5. ASSUME NEW t \in cleanups, K!ConsumerClosed(t)
        PROVE  KafkaInv'
    <2>. DEFINE s == [kctl EXCEPT !.consumer = FALSE]
    <2>1. Waiting /\ t \in KCleanups
      BY <1>0 DEF KafkaInv, Alone
    <2>2. /\ K!DisconnectProducer(t.by, s, cleanups \ {t})
          /\ UNCHANGED <<connects, emits, broker>>
      BY <1>5 DEF K!ConsumerClosed
    <2>3. /\ s \in KFields /\ s.timers = kctl.timers
          /\ s.reconnecting = kctl.reconnecting /\ s.attempts = kctl.attempts
      BY <1>0 DEF KFields
    <2>4. connects = {} /\ (s.reconnecting \/ s.attempts >= KafkaAttempts)
          /\ s.timers = IF s.reconnecting THEN 1 ELSE 0
      BY <2>1, <2>3 DEF Waiting, K!GivenUp
    <2>5. K!TypeOK /\ t.by \in Emitters /\ cleanups \ {t} \in SUBSET KCleanups
      BY <1>0, <2>1 DEF KafkaInv, KCleanups
    <2>. HIDE DEF s
    <2>6. /\ Waiting' /\ kctl' \in KFields
          /\ stage' \in KStages /\ cleanups' \in SUBSET KCleanups
      BY <2>2, <2>3, <2>4, <2>5, KafkaDisconnectKeeps
    <2>7. K!TypeOK'
      BY <1>0, <2>2, <2>6 DEF K!TypeOK, KFields, KStages, KConnects, KCleanups
    <2>. QED BY <2>6, <2>7 DEF KafkaInv
  <1>6. ASSUME NEW t \in cleanups, K!ProducerClosed(t) \/ K!CleanupFails(t)
        PROVE  KafkaInv'
    <2>1. Waiting /\ cleanups # {}
      BY <1>0 DEF KafkaInv, Alone
    <2>2. /\ cleanups' = cleanups \ {t} /\ UNCHANGED <<stage, connects, emits, broker>>
          /\ \/ kctl' = [kctl EXCEPT !.producer = None, !.client = FALSE]
             \/ kctl' = [kctl EXCEPT !.producer = None, !.consumer = FALSE, !.client = FALSE]
      BY <1>6 DEF K!ProducerClosed, K!CleanupFails
    <2>3. /\ kctl' \in KFields /\ kctl'.timers = kctl.timers
          /\ kctl'.reconnecting = kctl.reconnecting /\ kctl'.attempts = kctl.attempts
      <3>1. CASE kctl' = [kctl EXCEPT !.producer = None, !.client = FALSE]
        BY <1>0, <3>1 DEF KFields
      <3>2. CASE kctl' = [kctl EXCEPT !.producer = None, !.consumer = FALSE, !.client = FALSE]
        BY <1>0, <3>2 DEF KFields
      <3>. QED BY <2>2, <3>1, <3>2
    <2>4. K!TypeOK'
      BY <1>0, <2>2, <2>3 DEF K!TypeOK, KFields, KStages, KConnects, KCleanups
    <2>5. Waiting'
      BY <2>1, <2>2, <2>3 DEF Waiting, K!GivenUp
    <2>. QED BY <2>4, <2>5 DEF KafkaInv
  <1>7. ASSUME NEW e \in Emitters, K!Ensure(e)
        PROVE  KafkaInv'
    <2>1. UNCHANGED <<stage, connects, cleanups, broker>> /\ emits[e] = "idle"
      BY <1>7 DEF K!Ensure
    <2>2. ~K!InitConnects
      BY <1>7 DEF K!Ensure, Timely
    <2>3. CASE kctl.producer = None
      <3>1. kctl' = K!scheduleReconnect(kctl) /\ emits' = emits
        BY <1>7, <2>3 DEF K!Ensure
      <3>2. /\ kctl' \in KFields
            /\ kctl.reconnecting => kctl' = kctl
            /\ kctl'.producer = kctl.producer
        BY <1>0, <3>1, KafkaScheduleFacts
      <3>3. K!TypeOK'
        BY <1>0, <2>1, <3>1, <3>2 DEF K!TypeOK, KFields, KStages, KConnects, KCleanups
      <3>4. CASE kctl.reconnecting
        BY <2>1, <3>1, <3>2, <3>3, <3>4 DEF KafkaInv, Alone, Waiting, K!Usable,
               K!GivenUp
      <3>5. CASE ~kctl.reconnecting
        <4>1. Waiting
          BY <1>0, <2>2, <3>5 DEF KafkaInv, Alone, K!InitConnects, KConnects
        <4>2. /\ kctl'.timers = IF kctl'.reconnecting THEN 1 ELSE 0
              /\ kctl'.reconnecting \/ kctl'.attempts >= KafkaAttempts
          BY <1>0, <3>1, <3>5, <4>1, KafkaScheduleFacts DEF Waiting
        <4>3. Waiting'
          BY <2>1, <4>1, <4>2 DEF Waiting, K!GivenUp
        <4>. QED BY <3>3, <4>3 DEF KafkaInv
      <3>. QED BY <3>4, <3>5
    <2>4. CASE kctl.producer # None
      <3>1. emits' = [emits EXCEPT ![e] = "get"] /\ kctl' = kctl
        BY <1>7, <2>4 DEF K!Ensure
      <3>2. K!TypeOK'
        BY <1>0, <2>1, <3>1 DEF K!TypeOK, KFields, KStages, KConnects, KCleanups
      <3>3. Waiting => Waiting'
        BY <2>1, <3>1 DEF Waiting, K!Usable, K!GivenUp
      <3>4. ASSUME NEW c \in connects, Alone(c)
            PROVE  Alone(c)'
        BY <2>1, <2>2, <3>1, <3>4 DEF Alone, K!InitConnects
      <3>. QED BY <2>1, <3>2, <3>3, <3>4 DEF KafkaInv
    <2>. QED BY <2>3, <2>4
  <1>8. ASSUME NEW e \in Emitters, K!Got(e) \/ K!Sent(e) \/ K!Unsent(e)
        PROVE  KafkaInv'
    <2>1. emits[e] # "idle" /\ UNCHANGED <<connects, broker>>
      BY <1>8 DEF K!Got, K!Sent, K!Unsent
    <2>2. emits' \in [Emitters -> {"idle", "get", "local", "global"}]
      BY <1>0, <1>8 DEF K!Got, K!Sent, K!Unsent, K!GoesOn, K!After, K!Scopes
    <2>3. ASSUME NEW c \in connects, Alone(c)
          PROVE  kctl.reconnecting
      BY <1>0, <2>1, <2>3 DEF Alone, KConnects
    <2>4. /\ kctl' \in KFields /\ stage' \in KStages /\ cleanups' \in SUBSET KCleanups
          /\ UNCHANGED <<kctl, stage, cleanups>> \/ Waiting'
      <3>1. CASE K!Got(e) \/ K!Sent(e)
        BY <1>0, <3>1 DEF K!Got, K!Sent
      <3>2. CASE K!Unsent(e)
        <4>1. K!handleConnectionLoss(e)
          BY <3>2 DEF K!Unsent
        <4>. QED BY <2>1, <2>3, <4>1, KafkaLossKeeps
      <3>. QED BY <1>8, <3>1, <3>2
    <2>5. K!TypeOK'
      BY <1>0, <2>1, <2>2, <2>4 DEF K!TypeOK, KFields, KStages, KConnects, KCleanups
    <2>6. CASE Waiting'
      BY <2>5, <2>6 DEF KafkaInv
    <2>7. CASE UNCHANGED <<kctl, stage, cleanups>>
      <3>1. Waiting => Waiting'
        BY <2>1, <2>7 DEF Waiting, K!Usable, K!GivenUp
      <3>2. ASSUME NEW c \in connects, Alone(c)
            PROVE  Alone(c)'
        <4>1. c.by # "init"
          BY <2>3, <3>2 DEF Alone
        <4>. QED BY <2>1, <2>7, <3>2, <4>1 DEF Alone
      <3>. QED BY <2>1, <2>5, <3>1, <3>2 DEF KafkaInv
    <2>. QED BY <2>4, <2>6, <2>7
  <1>9. CASE K!Flip
    <2>1. UNCHANGED <<kctl, stage, connects, cleanups, emits>>
      BY <1>9 DEF K!Flip
    <2>2. broker' \in [up : BOOLEAN, flips : 0..MaxFlips]
      BY <1>0, <1>9 DEF K!Flip, Timely
    <2>3. K!TypeOK'
      BY <1>0, <2>1, <2>2 DEF K!TypeOK, KFields, KStages, KConnects, KCleanups
    <2>. QED BY <2>1, <2>3 DEF KafkaInv, Waiting, Alone, K!Usable, K!GivenUp
  <1>10. CASE UNCHANGED K!vars
    BY <1>10 DEF K!vars, KafkaInv, K!TypeOK, Waiting, Alone, K!Usable, K!GivenUp
  <1>. QED BY <1>1, <1>2, <1>3, <1>4, <1>5, <1>6, <1>7, <1>8, <1>9, <1>10 DEF K!Next

(* Where nothing is emitted before init() has ended and no cleanup outlasts *)
(* the delay of a timer, Kafka's producer is good whenever nothing is under *)
(* way, or every attempt has failed, for any number of producers, emits,    *)
(* attempts and losses, with or without global topics.                      *)
THEOREM KafkaNeverDeaf ==
  ~EarlyEmit /\ ~SlowCleanup => (MCSpec => []KafkaHoldsProducer)
PROOF
  <1>. SUFFICES ASSUME ~EarlyEmit, ~SlowCleanup PROVE MCSpec => []KafkaHoldsProducer
    OBVIOUS
  <1>0. Timely
    BY BrokersAssumption DEF Timely
  <1>1. MCInit => KafkaInv
    BY <1>0, KafkaInit DEF MCInit
  <1>2. KafkaInv /\ [MCNext]_<<moves, vars, kvars, dvars>> => KafkaInv'
    <2>1. [MCNext]_<<moves, vars, kvars, dvars>> => [K!Next]_K!vars
      BY DEF MCNext, kvars, K!vars
    <2>. QED BY <1>0, <2>1, KafkaStep
  <1>3. KafkaInv => KafkaHoldsProducer
    BY DEF KafkaInv, Waiting, Alone, KafkaHoldsProducer, K!HoldsProducer, K!AtRest,
           K!TypeOK
  <1>. QED BY <1>1, <1>2, <1>3, PTL DEF MCSpec

-----------------------------------------------------------------------------
(***************************************************************************)
(* The delivery of events.                                                 *)
(***************************************************************************)

(* The sinks and scopes are those there are.                                *)
Configured == Enabled \subseteq D!SinkNames /\ Subscribed \subseteq D!Scopes

Turns == 1..7
Thirds == 1..3

(* The number of stages that come before the j-th of sink k.                *)
Before(k, j) == 3 * (k - 1) + j

(* The fields the invariant speaks of.                                      *)
Counted ==
  /\ at \in [Events -> 0..D!Done]
  /\ got \in [Events -> [D!SinkNames -> [D!Scopes -> Nat]]]
  /\ lost \in [Events -> SUBSET (D!SinkNames \X D!Scopes)]

(* Sink s has given event e to scope c, or given up on that.                *)
Settled(e, s, c) == got[e][s][c] > 0 \/ <<s, c>> \in lost[e]

(* Every stage that emit(e) has passed has served its scope, or settled it. *)
PassedAreSettled ==
  \A e \in Events, k \in Turns, j \in Thirds :
    /\ at[e] > Before(k, j)
    /\ D!Sinks[k] \in Enabled
    /\ D!Stages(D!Sinks[k])[j] \in D!Serves(D!Sinks[k])
    => Settled(e, D!Sinks[k], D!Stages(D!Sinks[k])[j])

EInv == Counted /\ PassedAreSettled

-----------------------------------------------------------------------------
(* Where an emit that runs has got: the j-th stage of the k-th sink.        *)
LEMMA Position ==
  ASSUME Counted, NEW e \in Events, D!Running(e)
  PROVE  \E k \in Turns, j \in Thirds :
           /\ at[e] = Before(k, j)
           /\ D!Sink(e) = D!Sinks[k] /\ D!Sink(e) \in D!SinkNames
           /\ D!Stage(e) = D!Stages(D!Sinks[k])[j]
           /\ 3 * (((at[e] - 1) \div 3) + 1) + 1 = 3 * k + 1
PROOF
  <1>. DEFINE n == at[e]
              k == ((n - 1) \div 3) + 1
              j == ((n - 1) % 3) + 1
  <1>1. n \in 1..21
    BY DEF D!Running, D!Done, Counted, D!Sinks
  <1>2. k \in Turns /\ j \in Thirds /\ n = Before(k, j)
    BY <1>1 DEF Turns, Thirds, Before
  <1>3. D!Sink(e) = D!Sinks[k] /\ D!Stage(e) = D!Stages(D!Sinks[k])[j]
    BY DEF D!Sink, D!Stage
  <1>4. D!Sinks[k] \in D!SinkNames
    BY <1>2 DEF D!Sinks, D!SinkNames, Turns
  <1>. QED BY <1>2, <1>3, <1>4

(* The stages of different sinks or of one sink are in one order.           *)
LEMMA Order ==
  ASSUME NEW k \in Turns, NEW j \in Thirds, NEW l \in Turns, NEW i \in Thirds
  PROVE  /\ Before(k, j) \in 1..21
         /\ Before(l, i) < Before(k, j) + 1 => (l = k /\ i = j) \/ Before(l, i) < Before(k, j)
         /\ Before(l, i) < 3 * k + 1 => l = k \/ Before(l, i) < Before(k, j)
PROOF
  BY DEF Turns, Thirds, Before

(* The sinks have seven names, no two the same, and each scope is a stage of *)
(* each sink.                                                               *)
LEMMA Names ==
  /\ \A k \in Turns : D!Sinks[k] \in D!SinkNames
  /\ \A s \in D!SinkNames : \E k \in Turns : s = D!Sinks[k]
  /\ \A s \in D!SinkNames, c \in D!Scopes : \E j \in Thirds : c = D!Stages(s)[j]
  /\ \A k \in Turns, l \in Turns : D!Sinks[k] = D!Sinks[l] => k = l
PROOF
  <1>1. /\ \A k \in Turns : D!Sinks[k] \in D!SinkNames
        /\ \A s \in D!SinkNames : \E k \in Turns : s = D!Sinks[k]
    BY DEF Turns, D!Sinks, D!SinkNames
  <1>2. \A s \in D!SinkNames, c \in D!Scopes : \E j \in Thirds : c = D!Stages(s)[j]
    <2>. SUFFICES ASSUME NEW s \in D!SinkNames, NEW c \in D!Scopes
                  PROVE  \E j \in Thirds : c = D!Stages(s)[j]
      OBVIOUS
    <2>1. 1 \in Thirds /\ 2 \in Thirds /\ 3 \in Thirds
      BY DEF Thirds
    <2>2. CASE s = "websocket"
      BY <2>1, <2>2 DEF D!Stages, D!Scopes
    <2>3. CASE s # "websocket"
      BY <2>1, <2>3 DEF D!Stages, D!Scopes
    <2>. QED BY <2>2, <2>3
  <1>3. \A k \in Turns, l \in Turns : D!Sinks[k] = D!Sinks[l] => k = l
    BY DEF Turns, D!Sinks
  <1>. QED BY <1>1, <1>2, <1>3

-----------------------------------------------------------------------------
(* What is settled stays so, and from stage j of sink k emit(e) goes on to  *)
(* the next stage or to the next sink, with what it passes settled.         *)
LEMMA GoingOn ==
  ASSUME Configured, EInv, Counted',
         NEW e \in Events, NEW k \in Turns, NEW j \in Thirds,
         at[e] = Before(k, j),
         \A f \in Events : f # e => at'[f] = at[f],
         \A f \in Events, s \in D!SinkNames, c \in D!Scopes :
           Settled(f, s, c) => Settled(f, s, c)',
         \/ at'[e] = at[e]
         \/ /\ at'[e] = Before(k, j) + 1
            /\ /\ D!Sinks[k] \in Enabled
               /\ D!Stages(D!Sinks[k])[j] \in D!Serves(D!Sinks[k])
               => Settled(e, D!Sinks[k], D!Stages(D!Sinks[k])[j])'
         \/ /\ at'[e] = 3 * k + 1
            /\ \A i \in Thirds :
                 /\ j <= i
                 /\ D!Sinks[k] \in Enabled
                 /\ D!Stages(D!Sinks[k])[i] \in D!Serves(D!Sinks[k])
                 => Settled(e, D!Sinks[k], D!Stages(D!Sinks[k])[i])'
  PROVE  EInv'
PROOF
  <1>. USE DEF EInv
  <1>1. \A s \in D!SinkNames : D!Serves(s) \subseteq D!Scopes
    BY DEF D!Serves, Configured, D!Scopes
  <1>. SUFFICES ASSUME NEW f \in Events, NEW l \in Turns, NEW i \in Thirds,
                       at'[f] > Before(l, i), D!Sinks[l] \in Enabled,
                       D!Stages(D!Sinks[l])[i] \in D!Serves(D!Sinks[l])
                PROVE  Settled(f, D!Sinks[l], D!Stages(D!Sinks[l])[i])'
    BY DEF PassedAreSettled
  <1>2. D!Sinks[l] \in D!SinkNames /\ D!Stages(D!Sinks[l])[i] \in D!Scopes
    BY <1>1, Names
  <1>3. CASE at[f] > Before(l, i)
    BY <1>2, <1>3 DEF PassedAreSettled
  <1>4. CASE ~(at[f] > Before(l, i))
    <2>1. f = e /\ at'[e] # at[e]
      BY <1>4
    <2>2. Before(k, j) <= Before(l, i) /\ Before(l, i) \in 1..21 /\ Before(k, j) \in 1..21
      BY <1>4, <2>1, Order
    <2>3. CASE at'[e] = Before(k, j) + 1
      <3>1. l = k /\ i = j
        BY <2>1, <2>2, <2>3, Order
      <3>2. Before(k, j) + 1 # 3 * k + 1 \/ j = 3
        BY DEF Before, Turns, Thirds
      <3>. QED BY <2>1, <2>3, <3>1, <3>2 DEF Thirds
    <2>4. CASE at'[e] = 3 * k + 1
      <3>1. l = k /\ j <= i
        BY <2>1, <2>2, <2>4 DEF Before, Turns, Thirds
      <3>2. Before(k, j) + 1 # 3 * k + 1 \/ i = j
        BY <3>1 DEF Before, Turns, Thirds
      <3>. QED BY <2>1, <2>4, <3>1, <3>2
    <2>. QED BY <2>1, <2>3, <2>4
  <1>. QED BY <1>3, <1>4

(* A step that leaves every emit where it is keeps EInv.                    *)
LEMMA Staying ==
  ASSUME Configured, EInv, Counted', UNCHANGED at,
         \A f \in Events, s \in D!SinkNames, c \in D!Scopes :
           Settled(f, s, c) => Settled(f, s, c)'
  PROVE  EInv'
PROOF
  <1>1. \A s \in D!SinkNames : D!Serves(s) \subseteq D!Scopes
    BY DEF D!Serves, Configured, D!Scopes
  <1>. QED BY <1>1, Names DEF EInv, PassedAreSettled

(* What the receiver gets is settled, and nothing else changes.             *)
LEMMA ReceivesFacts ==
  ASSUME Counted, NEW e \in Events,
         D!Sink(e) \in D!SinkNames, D!Stage(e) \in D!Scopes, D!Receives(e),
         NEW k, NEW j, D!Sink(e) = D!Sinks[k], D!Stage(e) = D!Stages(D!Sinks[k])[j],
         lost' \in [Events -> SUBSET (D!SinkNames \X D!Scopes)],
         \A f \in Events : lost[f] \subseteq lost'[f]
  PROVE  /\ got' \in [Events -> [D!SinkNames -> [D!Scopes -> Nat]]]
         /\ \A f \in Events, s \in D!SinkNames, c \in D!Scopes :
              Settled(f, s, c) => Settled(f, s, c)'
         /\ Settled(e, D!Sinks[k], D!Stages(D!Sinks[k])[j])'
PROOF
  <1>. DEFINE s == D!Sink(e)  c == D!Stage(e)
  <1>1. got' = [got EXCEPT ![e] =
                  [got[e] EXCEPT ![s] = [got[e][s] EXCEPT ![c] = got[e][s][c] + 1]]]
    BY DEF D!Receives
  <1>2. /\ got[e] \in [D!SinkNames -> [D!Scopes -> Nat]]
        /\ got[e][s] \in [D!Scopes -> Nat]
        /\ got[e][s][c] \in Nat
    BY DEF Counted
  <1>3. PICK n \in Nat : n = got[e][s][c] + 1
    BY <1>2
  <1>. DEFINE g == [got[e][s] EXCEPT ![c] = n]
  <1>4. g \in [D!Scopes -> Nat] /\ g[c] > 0 /\ \A d \in D!Scopes : d # c => g[d] = got[e][s][d]
    BY <1>2, <1>3
  <1>. DEFINE h == [got[e] EXCEPT ![s] = g]
  <1>5. /\ h \in [D!SinkNames -> [D!Scopes -> Nat]]
        /\ h[s] = g
        /\ \A r \in D!SinkNames : r # s => h[r] = got[e][r]
    BY <1>2, <1>4
  <1>6. got' = [got EXCEPT ![e] = h]
    BY <1>1, <1>3
  <1>. HIDE DEF h, g
  <1>7. /\ got' \in [Events -> [D!SinkNames -> [D!Scopes -> Nat]]]
        /\ got'[e] = h /\ \A f \in Events : f # e => got'[f] = got[f]
    BY <1>5, <1>6 DEF Counted
  <1>8. \A f \in Events, r \in D!SinkNames, d \in D!Scopes :
          got[f][r][d] > 0 => got'[f][r][d] > 0
    BY <1>4, <1>5, <1>7
  <1>9. got'[e][D!Sinks[k]][D!Stages(D!Sinks[k])[j]] > 0
    BY <1>4, <1>5, <1>7
  <1>. QED BY <1>7, <1>8, <1>9 DEF Settled

(* What emit(e) gives up on is settled, and nothing else changes.           *)
LEMMA GivesUpFacts ==
  ASSUME Counted, NEW e \in Events, D!Sink(e) \in D!SinkNames,
         NEW scopes \in SUBSET D!Scopes, D!GivesUp(e, scopes),
         NEW k, D!Sink(e) = D!Sinks[k]
  PROVE  /\ lost' \in [Events -> SUBSET (D!SinkNames \X D!Scopes)]
         /\ \A f \in Events : lost[f] \subseteq lost'[f]
         /\ \A c \in scopes : Settled(e, D!Sinks[k], c)'
PROOF
  <1>1. lost' = [lost EXCEPT ![e] = lost[e] \cup ({D!Sink(e)} \X scopes)]
    BY DEF D!GivesUp
  <1>2. lost[e] \cup ({D!Sink(e)} \X scopes) \in SUBSET (D!SinkNames \X D!Scopes)
    BY DEF Counted
  <1>3. /\ lost' \in [Events -> SUBSET (D!SinkNames \X D!Scopes)]
        /\ lost'[e] = lost[e] \cup ({D!Sink(e)} \X scopes)
        /\ \A f \in Events : f # e => lost'[f] = lost[f]
    BY <1>1, <1>2 DEF Counted
  <1>. QED BY <1>3 DEF Settled

(* What is settled stays so while nothing is received.                      *)
LEMMA Kept ==
  ASSUME UNCHANGED got, \A f \in Events : lost[f] \subseteq lost'[f]
  PROVE  \A f \in Events, s \in D!SinkNames, c \in D!Scopes :
           Settled(f, s, c) => Settled(f, s, c)'
PROOF
  BY DEF Settled
(* Where the stage of a running emit takes it.                              *)
LEMMA Moves ==
  ASSUME Counted, NEW e \in Events, NEW k \in Turns, NEW j \in Thirds,
         at[e] = Before(k, j),
         3 * (((at[e] - 1) \div 3) + 1) + 1 = 3 * k + 1
  PROVE  /\ D!NextStage(e) \/ D!NextSink(e) => at' \in [Events -> 0..D!Done]
         /\ D!NextStage(e) \/ D!NextSink(e) => \A f \in Events : f # e => at'[f] = at[f]
         /\ D!NextStage(e) => at'[e] = Before(k, j) + 1
         /\ D!NextSink(e) => at'[e] = 3 * k + 1
PROOF
  <1>1. Before(k, j) + 1 \in 0..D!Done /\ 3 * k + 1 \in 0..D!Done
    BY DEF Before, Turns, Thirds, D!Done, D!Sinks
  <1>2. at[e] + 1 = Before(k, j) + 1 /\ 3 * (((at[e] - 1) \div 3) + 1) + 1 \in 0..D!Done
    BY <1>1
  <1>3. ASSUME D!NextStage(e)
        PROVE  /\ at' \in [Events -> 0..D!Done]
               /\ \A f \in Events : f # e => at'[f] = at[f]
               /\ at'[e] = Before(k, j) + 1
    BY <1>1, <1>2, <1>3 DEF D!NextStage, Counted
  <1>4. ASSUME D!NextSink(e)
        PROVE  /\ at' \in [Events -> 0..D!Done]
               /\ \A f \in Events : f # e => at'[f] = at[f]
               /\ at'[e] = 3 * k + 1
    BY <1>1, <1>2, <1>4 DEF D!NextSink, Counted
  <1>. QED BY <1>3, <1>4

(* The lookup is the first stage, but for the websocket, where it is second. *)
LEMMA StagesOf ==
  ASSUME NEW k \in Turns, NEW j \in Thirds
  PROVE  /\ D!Stages(D!Sinks[k])[j] = "lookup" => j = 1 \/ (k = 1 /\ j = 2)
         /\ k = 1 <=> D!Sinks[k] = "websocket"
         /\ D!Stages(D!Sinks[1])[3] = "local"
         /\ "lookup" \notin D!Scopes
PROOF
  <1>1. k = 1 <=> D!Sinks[k] = "websocket"
    BY DEF Turns, D!Sinks
  <1>2. CASE k = 1
    BY <1>1, <1>2 DEF D!Stages, Thirds, D!Scopes, D!Sinks
  <1>3. CASE k # 1
    BY <1>1, <1>3 DEF D!Stages, Thirds, D!Scopes, D!Sinks
  <1>. QED BY <1>1, <1>2, <1>3

(* Every step of an emit but the end of a delay is one of an emit that runs. *)
LEMMA EmitStepRuns == \A e \in Events : D!EmitStep(e) => D!Retry(e) \/ D!Running(e)
PROOF
  BY DEF D!EmitStep, D!Passes, D!Dropped, D!Lookup, D!LookupFails, D!Publish,
         D!PublishFails, D!PublishLarge,
         D!Accepted, D!TimesOut, D!Unreachable, D!Refused, D!Posting, D!Serving

(* The steps of an emit keep EInv.                                          *)
LEMMA EmitStepKeeps ==
  ASSUME Configured, EInv, NEW e \in Events, D!EmitStep(e)
  PROVE  EInv'
PROOF
  <1>0. Counted /\ \A s : D!Serves(s) \subseteq D!Scopes
    BY DEF EInv, D!Serves, Configured, D!Scopes
  <1>1. CASE D!Retry(e)
    <2>1. UNCHANGED <<at, got, lost>>
      BY <1>1 DEF D!Retry
    <2>. QED BY <1>0, <2>1, Staying DEF Counted, Settled
  <1>2. CASE D!Running(e)
    <2>1. PICK k \in Turns, j \in Thirds :
             /\ at[e] = Before(k, j)
             /\ D!Sink(e) = D!Sinks[k] /\ D!Sink(e) \in D!SinkNames
             /\ D!Stage(e) = D!Stages(D!Sinks[k])[j]
             /\ 3 * (((at[e] - 1) \div 3) + 1) + 1 = 3 * k + 1
      BY <1>0, <1>2, Position
    <2>. DEFINE Others == \A f \in Events : f # e => at'[f] = at[f]
                Keeps == \A f \in Events, s \in D!SinkNames, c \in D!Scopes :
                           Settled(f, s, c) => Settled(f, s, c)'
                Here == Settled(e, D!Sinks[k], D!Stages(D!Sinks[k])[j])'
                ToStage == at'[e] = Before(k, j) + 1
                ToSink == at'[e] = 3 * k + 1
    <2>2. /\ D!NextStage(e) \/ D!NextSink(e) => at' \in [Events -> 0..D!Done] /\ Others
          /\ D!NextStage(e) => ToStage
          /\ D!NextSink(e) => ToSink
      BY <1>0, <2>1, Moves
    <2>3. UNCHANGED at => at'[e] = at[e] /\ Others /\ at' \in [Events -> 0..D!Done]
      BY <1>0 DEF Counted
    <2>4. UNCHANGED got => got' \in [Events -> [D!SinkNames -> [D!Scopes -> Nat]]]
      BY <1>0 DEF Counted
    <2>5. UNCHANGED lost => /\ lost' \in [Events -> SUBSET (D!SinkNames \X D!Scopes)]
                            /\ \A f \in Events : lost[f] \subseteq lost'[f]
      BY <1>0 DEF Counted
    <2>6. ASSUME NEW scopes \in SUBSET D!Scopes, D!GivesUp(e, scopes)
          PROVE  /\ lost' \in [Events -> SUBSET (D!SinkNames \X D!Scopes)]
                 /\ \A f \in Events : lost[f] \subseteq lost'[f]
                 /\ \A c \in scopes : Settled(e, D!Sinks[k], c)'
      BY <1>0, <2>1, <2>6, GivesUpFacts
    <2>7. ASSUME D!Stage(e) \in D!Scopes, D!Receives(e),
                 lost' \in [Events -> SUBSET (D!SinkNames \X D!Scopes)],
                 \A f \in Events : lost[f] \subseteq lost'[f]
          PROVE  got' \in [Events -> [D!SinkNames -> [D!Scopes -> Nat]]] /\ Keeps /\ Here
      BY <1>0, <2>1, <2>7, ReceivesFacts
    <2>8. ASSUME UNCHANGED got, \A f \in Events : lost[f] \subseteq lost'[f]
          PROVE  Keeps
      BY <2>8, Kept
    <2>9. ASSUME Counted', Others, Keeps,
                 \/ at'[e] = at[e]
                 \/ /\ ToStage
                    /\ D!Sinks[k] \in Enabled /\ D!Stages(D!Sinks[k])[j] \in D!Serves(D!Sinks[k]) => Here
                 \/ /\ ToSink
                    /\ \A i \in Thirds :
                         /\ j <= i
                         /\ D!Sinks[k] \in Enabled
                         /\ D!Stages(D!Sinks[k])[i] \in D!Serves(D!Sinks[k])
                         => Settled(e, D!Sinks[k], D!Stages(D!Sinks[k])[i])'
          PROVE  EInv'
      BY <2>1, <2>9, GoingOn
    <2>. HIDE DEF Others, Keeps, Here, ToStage, ToSink
    <2>10. CASE D!Passes(e)
      <3>1. Counted' /\ Keeps /\ Others
        BY <2>2, <2>4, <2>5, <2>8, <2>10 DEF D!Passes, Counted
      <3>2. CASE D!Sink(e) \notin Enabled /\ D!NextSink(e)
        BY <2>1, <2>2, <2>9, <3>1, <3>2
      <3>3. CASE D!Stage(e) \notin D!Serves(D!Sink(e)) /\ D!NextStage(e)
        BY <2>1, <2>2, <2>9, <3>1, <3>3
      <3>. QED BY <2>10, <3>2, <3>3 DEF D!Passes
    <2>11. CASE D!Dropped(e)
      <3>1. D!GivesUp(e, D!Serves(D!Sink(e))) /\ D!NextSink(e) /\ UNCHANGED got
        BY <2>11 DEF D!Dropped
      <3>2. Counted' /\ Keeps /\ Others
        BY <1>0, <2>2, <2>4, <2>6, <2>8, <3>1 DEF Counted
      <3>3. \A c \in D!Serves(D!Sinks[k]) : Settled(e, D!Sinks[k], c)'
        BY <1>0, <2>1, <2>6, <3>1
      <3>. QED BY <2>2, <2>9, <3>1, <3>2, <3>3
    <2>12. CASE D!Lookup(e)
      <3>1. D!Stage(e) = "lookup" /\ UNCHANGED got
        BY <2>12 DEF D!Lookup, D!Serving
      <3>2. CASE D!GivesUp(e, D!Serves("pusher")) /\ D!NextSink(e) /\ D!Sink(e) = "pusher"
        <4>1. Counted' /\ Keeps /\ Others
          BY <1>0, <2>2, <2>4, <2>6, <2>8, <3>1, <3>2 DEF Counted
        <4>2. \A c \in D!Serves(D!Sinks[k]) : Settled(e, D!Sinks[k], c)'
          BY <1>0, <2>1, <2>6, <3>2
        <4>. QED BY <2>2, <2>9, <3>2, <4>1, <4>2
      <3>3. CASE UNCHANGED <<at, lost>>
        <4>1. Counted' /\ Keeps /\ Others
          BY <2>3, <2>4, <2>5, <2>8, <3>1, <3>3 DEF Counted
        <4>. QED BY <2>3, <2>9, <3>3, <4>1
      <3>4. CASE D!NextStage(e) /\ UNCHANGED lost
        <4>1. Counted' /\ Keeps /\ Others
          BY <2>2, <2>4, <2>5, <2>8, <3>1, <3>4 DEF Counted
        <4>2. D!Stages(D!Sinks[k])[j] \notin D!Serves(D!Sinks[k])
          BY <1>0, <2>1, <3>1, StagesOf
        <4>. QED BY <2>2, <2>9, <3>4, <4>1, <4>2
      <3>. QED BY <2>12, <3>2, <3>3, <3>4 DEF D!Lookup
    <2>13. CASE D!LookupFails(e)
      <3>1. D!Stage(e) = "lookup" /\ UNCHANGED got
        BY <2>13 DEF D!LookupFails, D!Serving
      <3>2. CASE D!Sink(e) = "websocket" /\ D!GivesUp(e, {"local"}) /\ D!NextSink(e)
        <4>1. {"local"} \in SUBSET D!Scopes
          BY DEF D!Scopes
        <4>2. Counted' /\ Keeps /\ Others
          BY <1>0, <2>2, <2>4, <2>6, <2>8, <3>1, <3>2, <4>1 DEF Counted
        <4>3. Settled(e, D!Sinks[k], "local")'
          BY <2>6, <3>2, <4>1
        <4>4. /\ k = 1 /\ j \in {1, 2}
              /\ \A i \in Thirds : D!Stages(D!Sinks[k])[i] \in D!Scopes /\ j <= i => i = 3
          <5>1. k = 1 /\ j \in {1, 2}
            BY <2>1, <3>1, <3>2, StagesOf
          <5>. QED BY <2>1, <3>1, <3>2, <5>1 DEF D!Stages, D!Sinks, D!Scopes, Thirds
        <4>5. \A i \in Thirds :
                /\ j <= i
                /\ D!Sinks[k] \in Enabled
                /\ D!Stages(D!Sinks[k])[i] \in D!Serves(D!Sinks[k])
                => Settled(e, D!Sinks[k], D!Stages(D!Sinks[k])[i])'
          BY <1>0, <4>3, <4>4, StagesOf
        <4>. QED BY <2>2, <2>9, <3>2, <4>2, <4>5
      <3>3. CASE UNCHANGED <<at, lost>>
        <4>1. Counted' /\ Keeps /\ Others
          BY <2>3, <2>4, <2>5, <2>8, <3>1, <3>3 DEF Counted
        <4>. QED BY <2>3, <2>9, <3>3, <4>1
      <3>. QED BY <2>13, <3>2, <3>3 DEF D!LookupFails
    <2>14. ASSUME D!Stage(e) \in D!Scopes, D!Receives(e), D!NextStage(e), UNCHANGED lost
           PROVE  EInv'
      <3>1. Counted' /\ Keeps /\ Others /\ Here
        BY <2>2, <2>5, <2>7, <2>14 DEF Counted
      <3>. QED BY <2>2, <2>9, <2>14, <3>1
    <2>15. ASSUME D!Stage(e) \in D!Scopes, D!GivesUp(e, {D!Stage(e)}), UNCHANGED got \/ D!Receives(e),
                  D!NextStage(e)
           PROVE  EInv'
      <3>1. /\ lost' \in [Events -> SUBSET (D!SinkNames \X D!Scopes)]
            /\ \A f \in Events : lost[f] \subseteq lost'[f]
            /\ Here
        BY <2>1, <2>6, <2>15 DEF Here
      <3>2. Counted' /\ Keeps /\ Others
        BY <2>2, <2>4, <2>7, <2>8, <2>15, <3>1 DEF Counted
      <3>. QED BY <2>2, <2>9, <2>15, <3>1, <3>2
    <2>16. ASSUME D!Stage(e) \in D!Scopes, UNCHANGED <<at, lost>>, UNCHANGED got \/ D!Receives(e)
           PROVE  EInv'
      <3>1. Counted' /\ Keeps /\ Others
        BY <2>3, <2>4, <2>5, <2>7, <2>8, <2>16 DEF Counted
      <3>. QED BY <2>3, <2>9, <2>16, <3>1
    <2>17. CASE D!Publish(e) \/ D!Accepted(e)
      BY <2>14, <2>17 DEF D!Publish, D!Accepted, D!Posting, D!Serving
    <2>18. CASE D!PublishFails(e) \/ D!Refused(e)
      BY <2>15, <2>18 DEF D!PublishFails, D!Refused, D!Posting, D!Serving
    <2>19. CASE D!PublishLarge(e)
      <3>1. D!Stage(e) \in D!Scopes
        BY <2>19 DEF D!PublishLarge, D!Serving
      <3>. QED BY <2>14, <2>15, <2>16, <2>19, <3>1 DEF D!PublishLarge
    <2>20. CASE D!TimesOut(e) \/ D!Unreachable(e)
      <3>1. /\ D!Stage(e) \in D!Scopes
            /\ UNCHANGED got \/ D!Receives(e)
            /\ \/ D!GivesUp(e, {D!Stage(e)}) /\ D!NextStage(e)
               \/ UNCHANGED <<at, lost>>
        BY <2>20 DEF D!TimesOut, D!Unreachable, D!Posting, D!Serving, D!AttemptFailed
      <3>. QED BY <2>15, <2>16, <3>1
    <2>. QED BY <1>1, <2>10, <2>11, <2>12, <2>13, <2>17, <2>18, <2>19, <2>20
                DEF D!EmitStep
  <1>. QED BY <1>1, <1>2, EmitStepRuns
(* Nothing is settled, and nothing has to be, before the first emit.        *)
LEMMA EventsInit == D!Init => EInv
PROOF
  <1>. SUFFICES ASSUME D!Init PROVE EInv
    OBVIOUS
  <1>1. Counted
    BY DEF D!Init, Counted, D!Done, D!Sinks
  <1>2. \A k \in Turns, j \in Thirds : Before(k, j) >= 0
    BY DEF Before, Turns, Thirds
  <1>3. \A e \in Events : at[e] = 0
    BY DEF D!Init
  <1>. QED BY <1>1, <1>2, <1>3, Order DEF EInv, PassedAreSettled

(* Every step keeps EInv.                                                   *)
LEMMA EventsStep ==
  ASSUME Configured, EInv, [D!Next]_D!vars
  PROVE  EInv'
PROOF
  <1>1. ASSUME NEW e \in Events, D!Emit(e)
        PROVE  EInv'
    <2>1. at[e] = 0 /\ at' = [at EXCEPT ![e] = 1] /\ UNCHANGED <<got, lost>>
      BY <1>1 DEF D!Emit, D!NextStage
    <2>2. Counted'
      BY <2>1 DEF EInv, Counted, D!Done, D!Sinks
    <2>3. \A k \in Turns, j \in Thirds : Before(k, j) >= 1
      BY DEF Before, Turns, Thirds
    <2>4. \A f \in Events : at'[f] = at[f] \/ at'[f] = 1
      BY <2>1 DEF EInv, Counted
    <2>5. \A f \in Events, k \in Turns, j \in Thirds :
            at'[f] > Before(k, j) => at[f] > Before(k, j)
      BY <2>3, <2>4, Order
    <2>. QED BY <2>1, <2>2, <2>5 DEF EInv, PassedAreSettled, Settled
  <1>2. ASSUME NEW e \in Events, D!EmitStep(e)
        PROVE  EInv'
    BY <1>2, EmitStepKeeps
  <1>3. ASSUME NEW s \in D!Brokers, D!ClientLost(s) \/ D!ClientBack(s)
        PROVE  EInv'
    BY <1>3 DEF D!ClientLost, D!ClientBack, EInv, Counted, PassedAreSettled, Settled
  <1>4. CASE UNCHANGED D!vars
    BY <1>4 DEF D!vars, EInv, Counted, PassedAreSettled, Settled
  <1>. QED BY <1>1, <1>2, <1>3, <1>4 DEF D!Next

(* At its end an emit has passed every stage of every sink.                 *)
LEMMA EndIsPast ==
  ASSUME Configured, EInv
  PROVE  D!ServedOrGivenUp
PROOF
  <1>. SUFFICES ASSUME NEW e \in Events, at[e] = D!Done,
                       NEW s \in Enabled, NEW c \in D!Serves(s)
                PROVE  got[e][s][c] > 0 \/ <<s, c>> \in lost[e]
    BY DEF D!ServedOrGivenUp
  <1>1. s \in D!SinkNames /\ c \in D!Scopes
    BY DEF Configured, D!Serves, D!Scopes
  <1>2. PICK k \in Turns : s = D!Sinks[k]
    BY <1>1, Names
  <1>3. PICK j \in Thirds : c = D!Stages(s)[j]
    BY <1>1, Names
  <1>4. at[e] > Before(k, j)
    BY DEF D!Done, D!Sinks, Before, Turns, Thirds
  <1>. QED BY <1>2, <1>3, <1>4 DEF EInv, PassedAreSettled, Settled

(* Whatever lookups, posts and publications fail, and however clients come  *)
(* and go, an emit that ends has served every sink and scope, or given up   *)
(* on that one, for any events, sinks and subscription.                     *)
THEOREM NoSinkCostsAnother == MCSpec => []ServedOrGivenUp
PROOF
  <1>0. Configured
    BY BrokersAssumption DEF Configured
  <1>1. MCInit => EInv
    BY EventsInit DEF MCInit
  <1>2. EInv /\ [MCNext]_<<moves, vars, kvars, dvars>> => EInv'
    <2>1. [MCNext]_<<moves, vars, kvars, dvars>> => [D!Next]_D!vars
      BY DEF MCNext, dvars, D!vars
    <2>. QED BY <1>0, <2>1, EventsStep
  <1>3. EInv => ServedOrGivenUp
    BY <1>0, EndIsPast DEF ServedOrGivenUp
  <1>. QED BY <1>1, <1>2, <1>3, PTL DEF MCSpec

=============================================================================
