-------------------------- MODULE RabbitmqController --------------------------
(***************************************************************************)
(* The connection of the Evolution API to RabbitMQ                         *)
(* (src/api/integrations/event/rabbitmq/rabbitmq.controller.ts).  One      *)
(* channel is in use; when it or its connection is lost, a timer connects  *)
(* again after a growing delay, and after maxReconnectAttempts failures in *)
(* a row nothing does.  Connections that are being opened, closed or have  *)
(* been forgotten keep their event handlers, and each of those handlers    *)
(* acts on whatever channel is in use when it runs.                        *)
(*                                                                         *)
(* The awaits inside cleanup() resolve before any further event is served, *)
(* so it is one step with the caller; amqpChannel and amqpConnection are   *)
(* set and cleared together and ctl.channel names the connection of both.  *)
(***************************************************************************)
EXTENDS Integers, FiniteSets

CONSTANTS
  Conns,                 \* names of connections that exist at once
  MaxReconnectAttempts,
  EarlyEmit,             \* are events emitted while init() still connects?
  MaxLosses,             \* bound: connections and channels the broker drops
  None                   \* amqpChannel === null

ASSUME RabbitmqAssumption ==
  /\ Conns \subseteq Nat \ {0}
  /\ MaxReconnectAttempts \in Nat
  /\ EarlyEmit \in BOOLEAN
  /\ MaxLosses \in Nat
  /\ None \notin Conns

VARIABLES
  ctl,                   \* the controller's fields, and its armed timers
  conns,                 \* the connections, as the broker and amqplib see them
  losses                 \* connections and channels dropped so far

vars == <<ctl, conns, losses>>

-----------------------------------------------------------------------------
\* "chanless": open, but its channel was refused or closed by the broker.
Stages == {"unused", "tcp", "channel", "open", "chanless",
           "closing_channel", "closing"}

Unused == [stage |-> "unused", by |-> "init"]

Connecting(c) == conns[c].stage \in {"tcp", "channel"}
InitConnects == \E c \in Conns : Connecting(c) /\ conns[c].by = "init"
Pending == {c \in Conns : Connecting(c) /\ conns[c].by = "timer"}
GivenUp == ctl.attempts >= MaxReconnectAttempts

TypeOK ==
  /\ ctl \in [channel : Conns \cup {None}, attempts : 0..MaxReconnectAttempts,
              reconnecting : BOOLEAN, timers : Nat]
  /\ conns \in [Conns -> [stage : Stages, by : {"init", "timer"}]]
  /\ losses \in 0..MaxLosses

\* init() has called connect().
Init ==
  /\ ctl = [channel |-> None, attempts |-> 0, reconnecting |-> FALSE, timers |-> 0]
  /\ \E c \in Conns :
       /\ \A d \in Conns : c <= d
       /\ conns = [d \in Conns |-> IF d = c THEN [stage |-> "tcp", by |-> "init"] ELSE Unused]
  /\ losses = 0

-----------------------------------------------------------------------------
(* The private methods, on the fields s.                                   *)

\* Mutant: the flag is not looked at before a timer is armed.
ScheduleAnyway(s) ==
  IF s.attempts >= MaxReconnectAttempts THEN s
  ELSE [s EXCEPT !.reconnecting = TRUE, !.attempts = @ + 1, !.timers = @ + 1]

\* Mutant: one attempt more than there are.
ScheduleOneMore(s) ==
  IF s.attempts > MaxReconnectAttempts \/ s.reconnecting THEN s
  ELSE [s EXCEPT !.reconnecting = TRUE, !.attempts = @ + 1, !.timers = @ + 1]

scheduleReconnect(s) ==
  IF s.attempts >= MaxReconnectAttempts \/ s.reconnecting THEN s
  ELSE [channel |-> s.channel, attempts |-> s.attempts + 1,
        reconnecting |-> TRUE, timers |-> s.timers + 1]

\* Mutant: the channel is cleaned up and no timer armed.
OnlyCleanup(s) == IF s.reconnecting THEN s ELSE [s EXCEPT !.channel = None]

handleConnectionLoss(s) ==
  IF s.reconnecting THEN s ELSE scheduleReconnect([s EXCEPT !.channel = None])

\* What becomes of the connections cs when handleConnectionLoss closes the one
\* in use.  Closing a channel that is closed may throw: then the connection is
\* forgotten as it is.
AfterCleanup(s, cs) ==
  IF s.reconnecting \/ s.channel = None THEN {cs}
  ELSE CASE cs[s.channel].stage = "open" ->
              {[cs EXCEPT ![s.channel].stage = "closing_channel"]}
         [] cs[s.channel].stage = "chanless" ->
              {cs, [cs EXCEPT ![s.channel].stage = "closing"]}
         [] OTHER -> {cs}

\* Mutant: the timer's catch forgets isReconnecting = false.
connectFailsSilently(s, by) == scheduleReconnect(s)

\* connect()'s catch, and then the timer's if a timer called it.
connectFails(s, by) ==
  LET caught == scheduleReconnect(s) IN
  IF by = "init" THEN caught
  ELSE scheduleReconnect([caught EXCEPT !.reconnecting = FALSE])

\* An event handler of a connection runs when cs is what is left of it.
Loss(cs) ==
  /\ ctl' = handleConnectionLoss(ctl)
  /\ conns' \in AfterCleanup(ctl, cs)

-----------------------------------------------------------------------------
(* connect() and the timer.                                                *)

TimerFires ==
  /\ ctl.timers > 0
  /\ \E c \in Conns :
       /\ conns[c].stage = "unused"
       /\ \A d \in Conns : d < c => conns[d].stage # "unused"
       /\ conns' = [conns EXCEPT ![c] = [stage |-> "tcp", by |-> "timer"]]
  /\ ctl' = [ctl EXCEPT !.timers = @ - 1]
  /\ UNCHANGED losses

ConnectFails(c) ==
  /\ conns[c].stage = "tcp"
  /\ conns' = [conns EXCEPT ![c] = Unused]
  /\ ctl' = connectFails(ctl, conns[c].by)
  /\ UNCHANGED losses

ConnectSucceeds(c) ==
  /\ conns[c].stage = "tcp"
  /\ conns' = [conns EXCEPT ![c].stage = "channel"]
  /\ UNCHANGED <<ctl, losses>>

\* createChannel's callback with an error: nobody closes the connection.
ChannelFails(c) ==
  /\ conns[c].stage = "channel"
  /\ losses < MaxLosses
  /\ losses' = losses + 1
  /\ conns' = [conns EXCEPT ![c].stage = "chanless"]
  /\ ctl' = connectFails(ctl, conns[c].by)

\* createChannel's callback.  A channel that was in use is forgotten.
ChannelOpens(c) ==
  /\ conns[c].stage = "channel"
  /\ conns' = [conns EXCEPT ![c].stage = "open"]
  /\ ctl' = [ctl EXCEPT !.channel = c, !.attempts = 0, !.reconnecting = FALSE]
  /\ UNCHANGED losses

-----------------------------------------------------------------------------
(* What the broker and the network do.                                     *)

\* A connection dies: its 'error' and 'close' handlers run, and a pending
\* createChannel is answered with an error.
ConnectionLost(c) ==
  /\ losses < MaxLosses
  /\ losses' = losses + 1
  /\ \/ /\ conns[c].stage \in {"open", "chanless", "closing_channel", "closing"}
        /\ Loss([conns EXCEPT ![c] = Unused])
     \/ /\ conns[c].stage = "channel"
        /\ ctl' = connectFails(handleConnectionLoss(ctl), conns[c].by)
        /\ conns' \in AfterCleanup(ctl, [conns EXCEPT ![c] = Unused])

\* The broker closes a channel, as it does when a queue is declared anew with
\* other arguments.
ChannelError(c) ==
  /\ conns[c].stage = "open"
  /\ losses < MaxLosses
  /\ losses' = losses + 1
  /\ Loss([conns EXCEPT ![c].stage = "chanless"])

\* The 'close' events of a channel and of a connection that cleanup() closed.
ClosedEvent(c) ==
  /\ \/ /\ conns[c].stage = "closing_channel"
        /\ Loss([conns EXCEPT ![c].stage = "closing"])
     \/ /\ conns[c].stage = "closing"
        /\ Loss([conns EXCEPT ![c] = Unused])
  /\ UNCHANGED losses

\* emit() of one event.  Without a channel the event is dropped and the timer
\* armed; on a dead channel three attempts throw, and then it counts as lost.
Emit ==
  /\ EarlyEmit \/ ~InitConnects
  /\ IF ctl.channel = None
     THEN ctl' = scheduleReconnect(ctl) /\ UNCHANGED conns
     ELSE IF conns[ctl.channel].stage = "open" THEN UNCHANGED <<ctl, conns>>
     ELSE Loss(conns)
  /\ UNCHANGED losses

ConnectStep(c) ==
  ConnectFails(c) \/ ConnectSucceeds(c) \/ ChannelFails(c) \/ ChannelOpens(c)

Next ==
  \/ TimerFires
  \/ \E c \in Conns : ConnectStep(c) \/ ConnectionLost(c) \/ ChannelError(c) \/ ClosedEvent(c)
  \/ Emit

\* A setTimeout fires, a connect gets some answer (the socket fails or the
\* broker speaks), and a close is answered or given up by the heartbeat.
Fairness ==
  /\ WF_vars(TimerFires)
  /\ \A c \in Conns : WF_vars(ConnectStep(c)) /\ WF_vars(ClosedEvent(c))

Spec == Init /\ [][Next]_vars /\ Fairness

-----------------------------------------------------------------------------
(* Without a channel the controller is never left to itself: a timer or the *)
(* first connect is under way, or all attempts have failed in a row.        *)
NeverForgotten ==
  ctl.channel = None => ctl.reconnecting \/ InitConnects \/ GivenUp

(* isReconnecting, which turns every other cause to reconnect away, is true *)
(* only while a timer is armed or its connect under way: it never sticks.   *)
FlagHonest == ctl.reconnecting => ctl.timers > 0 \/ Pending # {}

(* One connection attempt at a time, armed or under way, provided that no   *)
(* event is emitted before init() has ended.                                *)
SingleFlight ==
  ctl.timers + Cardinality({c \in Conns : Connecting(c)}) <= 1

(* A lost channel is replaced, or every attempt there is has failed.        *)
RecoversOrGivesUp == ctl.channel = None ~> ctl.channel # None \/ GivenUp
=============================================================================
