---------------------------- MODULE KafkaController ----------------------------
(***************************************************************************)
(* The connection of the Evolution API to Kafka                            *)
(* (src/api/integrations/event/kafka/kafka.controller.ts).  Unlike the     *)
(* RabbitMQ controller it listens to no event of its connection: a loss is *)
(* noticed when three sends in a row fail.  cleanup() is not awaited, and  *)
(* clears this.producer when the disconnects it awaits have ended.  A send *)
(* is the three attempts of its loop.                                      *)
(***************************************************************************)
EXTENDS Integers, FiniteSets

CONSTANTS
  Producers,             \* positive numbers that name producers, as many as exist at once
  Emitters,              \* emit() calls in progress at once
  MaxReconnectAttempts,
  Global,                \* GLOBAL_ENABLED
  EarlyEmit,             \* are events emitted while init() still connects?
  SlowCleanup,           \* may a cleanup outlast the delay of a timer?
  MaxFlips,              \* bound: times the broker goes away or comes back
  None                   \* this.producer === null

VARIABLES
  ctl,                   \* the controller's fields, and its armed timers
  stage,                 \* the producers
  connects,              \* connect() calls in progress
  cleanups,              \* cleanup() calls in progress
  emits,                 \* emits[e]: where an emit() has got
  broker                 \* is it up, and how often has that changed

vars == <<ctl, stage, connects, cleanups, emits, broker>>

-----------------------------------------------------------------------------
TypeOK ==
  /\ ctl \in [producer : Producers \cup {None}, consumer : BOOLEAN, client : BOOLEAN,
              attempts : 0..MaxReconnectAttempts, reconnecting : BOOLEAN, timers : Nat]
  /\ stage \in [Producers -> {"unused", "connecting", "connected", "gone"}]
  /\ connects \subseteq [by : {"init", "timer"}, p : Producers, pc : {"producer", "consumer"}]
  /\ cleanups \subseteq [by : Emitters, p : Producers \cup {None}, pc : {"consumer", "producer"}]
  /\ emits \in [Emitters -> {"idle", "get", "local", "global"}]
  /\ broker \in [up : BOOLEAN, flips : 0..MaxFlips]

GivenUp == ctl.attempts >= MaxReconnectAttempts
InitConnects == \E c \in connects : c.by = "init"
Usable == ctl.producer # None /\ stage[ctl.producer] = "connected"

Fresh == {p \in Producers : /\ p # ctl.producer
                            /\ \A c \in connects \cup cleanups : c.p # p}

\* connect() makes a client and a producer, in use before it is connected.
Begins(by, p, s) ==
  /\ ctl' = [s EXCEPT !.producer = p, !.client = TRUE]
  /\ stage' = [stage EXCEPT ![p] = "connecting"]
  /\ connects' = connects \cup {[by |-> by, p |-> p, pc |-> "producer"]}

Init ==
  /\ \E p \in Producers :
       /\ \A q \in Producers : p <= q
       /\ ctl = [producer |-> p, consumer |-> FALSE, client |-> TRUE, attempts |-> 0,
                 reconnecting |-> FALSE, timers |-> 0]
       /\ stage = [q \in Producers |-> IF q = p THEN "connecting" ELSE "unused"]
       /\ connects = {[by |-> "init", p |-> p, pc |-> "producer"]}
  /\ cleanups = {}
  /\ emits = [e \in Emitters |-> "idle"]
  /\ broker \in [up : BOOLEAN, flips : {0}]

-----------------------------------------------------------------------------
scheduleReconnect(s) ==
  IF s.attempts >= MaxReconnectAttempts \/ s.reconnecting THEN s
  ELSE [s EXCEPT !.reconnecting = TRUE, !.attempts = @ + 1, !.timers = @ + 1]

\* Mutant: the timer's catch forgets isReconnecting = false.
ConnectFailsSilently(c) ==
  /\ c.pc = "producer"
  /\ stage' = [stage EXCEPT ![c.p] = "gone"]
  /\ ctl' = scheduleReconnect(ctl)
  /\ connects' = connects \ {c}
  /\ UNCHANGED <<cleanups, emits, broker>>

\* connect()'s catch, and the timer's.  The producer that failed stays in use.
ConnectFails(c) ==
  LET caught == scheduleReconnect(ctl) IN
  /\ c.pc = "producer"
  /\ stage' = [stage EXCEPT ![c.p] = "gone"]
  /\ ctl' = IF c.by = "init" THEN caught
            ELSE scheduleReconnect([caught EXCEPT !.reconnecting = FALSE])
  /\ connects' = connects \ {c}
  /\ UNCHANGED <<cleanups, emits, broker>>

TimerFires ==
  /\ ctl.timers > 0
  /\ SlowCleanup \/ cleanups = {}
  /\ \E p \in Fresh :
       /\ \A q \in Fresh : p <= q
       /\ Begins("timer", p, [ctl EXCEPT !.timers = @ - 1])
  /\ UNCHANGED <<cleanups, emits, broker>>

Succeeded(s) == [s EXCEPT !.attempts = 0, !.reconnecting = FALSE]

\* The producer is connected; the consumer of the global topics comes next,
\* from the client that is in use by now.
Connected(c) ==
  /\ c.pc = "producer" /\ broker.up
  /\ stage' = [stage EXCEPT ![c.p] = "connected"]
  /\ IF Global
     THEN /\ ctl' = [ctl EXCEPT !.consumer = @ \/ ctl.client]
          /\ connects' = (connects \ {c}) \cup {[c EXCEPT !.pc = "consumer"]}
     ELSE ctl' = Succeeded(ctl) /\ connects' = connects \ {c}
  /\ UNCHANGED <<cleanups, emits, broker>>

\* The consumer subscribed, or failed to: only a log line tells.
ConsumerDone(c) ==
  /\ c.pc = "consumer"
  /\ ctl' = Succeeded(ctl)
  /\ connects' = connects \ {c}
  /\ UNCHANGED <<stage, cleanups, emits, broker>>

-----------------------------------------------------------------------------
(* cleanup(), from the fields s, on behalf of emit e.                      *)

\* It disconnects the producer that is in use now, and clears the one that is
\* in use when that is done.
DisconnectProducer(e, s, rest) ==
  IF s.producer = None
  THEN ctl' = [s EXCEPT !.client = FALSE] /\ cleanups' = rest /\ UNCHANGED stage
  ELSE /\ ctl' = s
       /\ cleanups' = rest \cup {[by |-> e, p |-> s.producer, pc |-> "producer"]}
       /\ stage' = [stage EXCEPT ![s.producer] = "gone"]

handleConnectionLoss(e) ==
  LET s == scheduleReconnect(ctl) IN
  IF ctl.reconnecting THEN UNCHANGED <<ctl, stage, cleanups>>
  ELSE IF ctl.consumer
  THEN /\ ctl' = s
       /\ cleanups' = cleanups \cup {[by |-> e, p |-> None, pc |-> "consumer"]}
       /\ UNCHANGED stage
  ELSE DisconnectProducer(e, s, cleanups)

ConsumerClosed(t) ==
  /\ t.pc = "consumer"
  /\ DisconnectProducer(t.by, [ctl EXCEPT !.consumer = FALSE], cleanups \ {t})
  /\ UNCHANGED <<connects, emits, broker>>

ProducerClosed(t) ==
  /\ t.pc = "producer"
  /\ ctl' = [ctl EXCEPT !.producer = None, !.client = FALSE]
  /\ cleanups' = cleanups \ {t}
  /\ UNCHANGED <<stage, connects, emits, broker>>

CleanupFails(t) ==
  /\ ctl' = [ctl EXCEPT !.producer = None, !.consumer = FALSE, !.client = FALSE]
  /\ cleanups' = cleanups \ {t}
  /\ UNCHANGED <<stage, connects, emits, broker>>

-----------------------------------------------------------------------------
(* emit().                                                                 *)

Ensure(e) ==
  /\ emits[e] = "idle"
  /\ EarlyEmit \/ ~InitConnects
  /\ IF ctl.producer = None THEN ctl' = scheduleReconnect(ctl) /\ UNCHANGED emits
     ELSE emits' = [emits EXCEPT ![e] = "get"] /\ UNCHANGED ctl
  /\ UNCHANGED <<stage, connects, cleanups, broker>>

\* The scopes that are left for an event, if this.producer is still there.
GoesOn(e, scopes) ==
  \E pc \in {"idle"} \cup (IF ctl.producer = None THEN {} ELSE scopes) :
    emits' = [emits EXCEPT ![e] = pc]

Scopes == IF Global THEN {"global"} ELSE {}
After(e) == IF emits[e] = "local" THEN Scopes ELSE {}

Got(e) ==
  /\ emits[e] = "get"
  /\ GoesOn(e, {"local"} \cup Scopes)
  /\ UNCHANGED <<ctl, stage, connects, cleanups, broker>>

Sent(e) ==
  /\ emits[e] \in {"local", "global"}
  /\ Usable /\ broker.up
  /\ GoesOn(e, After(e))
  /\ UNCHANGED <<ctl, stage, connects, cleanups, broker>>

Unsent(e) ==
  /\ emits[e] \in {"local", "global"}
  /\ ~(Usable /\ broker.up)
  /\ handleConnectionLoss(e)
  /\ GoesOn(e, After(e))
  /\ UNCHANGED <<connects, broker>>

Flip ==
  /\ broker.flips < MaxFlips
  /\ broker' = [up |-> ~broker.up, flips |-> broker.flips + 1]
  /\ UNCHANGED <<ctl, stage, connects, cleanups, emits>>

Next ==
  \/ TimerFires
  \/ \E c \in connects : Connected(c) \/ ConsumerDone(c) \/ ConnectFails(c)
  \/ \E t \in cleanups : ConsumerClosed(t) \/ ProducerClosed(t) \/ CleanupFails(t)
  \/ \E e \in Emitters : Ensure(e) \/ Got(e) \/ Sent(e) \/ Unsent(e)
  \/ Flip

Spec == Init /\ [][Next]_vars

-----------------------------------------------------------------------------
AtRest == ctl.timers = 0 /\ connects = {} /\ cleanups = {}

(* With nothing under way the producer in use is connected, or every       *)
(* attempt has failed: no loss, failed connect or cleanup leaves the       *)
(* controller with a dead producer it takes for a good one.                *)
HoldsProducer == AtRest => Usable \/ GivenUp

=============================================================================
