------------------------------ MODULE EventSettings ------------------------------
(***************************************************************************)
(* What an instance subscribes to at one sink, and what the sink keeps for *)
(* it (src/api/integrations/event): a row, at SQS a queue per event, at    *)
(* Pusher a client for the instance's application.  Requests that set the  *)
(* subscription overlap, and events are emitted meanwhile.  Scopes and     *)
(* retries are the subject of EventDelivery; here SQS has no global queue. *)
(***************************************************************************)
EXTENDS Integers, FiniteSets

CONSTANTS
  Events,            \* EventController.events
  Misnamed,          \* events whose queue is made under another name
  Apps,              \* Pusher applications
  Calls,             \* set and emit in progress
  MaxCalls,          \* bound: calls begun
  MaxFaults,         \* bound: failures and restarts
  None

VARIABLES
  sink,
  row,               \* the subscription
  queues,            \* events that have a queue
  client,            \* pusherClients: the application it is for
  calls,
  begun, faults,     \* for the bounds
  unmade,            \* events whose queue could not be made
  overlapped         \* has a set at Pusher, or an emit, met another set?

vars == <<sink, row, queues, client, calls, begun, faults, unmade, overlapped>>

-----------------------------------------------------------------------------
Sinks == {"webhook", "sqs", "pusher"}   \* the other four are like the webhook
Rows == [enabled : BOOLEAN, events : SUBSET Events, app : Apps \cup {None}]

NoRow == [enabled |-> FALSE, events |-> {}, app |-> None]
NoCall == [op |-> "none", pc |-> "none", data |-> NoRow, todo |-> {}, event |-> None]

TypeOK ==
  /\ sink \in Sinks
  /\ row \in Rows \cup {None}
  /\ queues \subseteq Events /\ unmade \subseteq Events
  /\ client \in Apps \cup {None}
  /\ calls \in [Calls -> [op : {"none", "set", "emit"}, data : Rows, todo : SUBSET Events,
                          pc : {"none", "list", "create", "upsert", "client", "get", "publish"},
                          event : Events \cup {None}]]
  /\ begun \in 0..MaxCalls /\ faults \in 0..MaxFaults
  /\ overlapped \in BOOLEAN

Init ==
  /\ sink \in Sinks
  /\ row = None
  /\ queues = {} /\ unmade = {}
  /\ client = None
  /\ calls = [c \in Calls |-> NoCall]
  /\ begun = 0 /\ faults = 0
  /\ overlapped = FALSE

-----------------------------------------------------------------------------
At(c, pc) == calls[c].pc = pc
Goes(c, pc) == calls' = [calls EXCEPT ![c].pc = pc]
Ends(c) == calls' = [calls EXCEPT ![c] = NoCall]
Fault == faults < MaxFaults /\ faults' = faults + 1

Others(c, op) == {d \in Calls \ {c} : calls[d].op = op}

Begin(c, call) ==
  /\ calls[c] = NoCall
  /\ begun < MaxCalls /\ begun' = begun + 1
  /\ calls' = [calls EXCEPT ![c] = call]
  /\ UNCHANGED <<sink, row, queues, client, faults, unmade>>

\* No events means all of them, or none where the sink is switched off.
Subscription(enabled, events, app) ==
  [enabled |-> enabled, app |-> app,
   events |-> IF ~enabled THEN {} ELSE IF events = {} THEN Events ELSE events]

\* set; setInstance, when an instance is created, only switches on.
Set(c, enabled, events, app) ==
  LET data == Subscription(enabled, events, app) IN
  /\ sink # "pusher" => app = None
  /\ Begin(c, [NoCall EXCEPT !.op = "set", !.data = data, !.todo = data.events,
                             !.pc = IF sink = "sqs" /\ enabled THEN "list" ELSE "upsert"])
  /\ overlapped' = (overlapped \/ Others(c, "emit") # {} \/ (sink = "pusher" /\ Others(c, "set") # {}))

-----------------------------------------------------------------------------
(* SQS: saveQueues.                                                        *)

ListQueues(c) ==
  /\ At(c, "list")
  /\ calls' = [calls EXCEPT ![c].todo = @ \ queues,
                            ![c].pc = IF calls[c].todo \subseteq queues THEN "upsert" ELSE "create"]
  /\ UNCHANGED <<sink, row, queues, client, begun, faults, unmade, overlapped>>

\* listQueues then returns nothing, and the use of it throws.
ListFails(c) ==
  /\ At(c, "list")
  /\ Fault /\ Ends(c)
  /\ UNCHANGED <<sink, row, queues, client, begun, unmade, overlapped>>

Tried(c, e) ==
  calls' = [calls EXCEPT ![c].todo = @ \ {e},
                         ![c].pc = IF calls[c].todo = {e} THEN "upsert" ELSE "create"]

CreateQueue(c) ==
  /\ At(c, "create")
  /\ \E e \in calls[c].todo :
       queues' = queues \cup {e} /\ unmade' = unmade \ {e} /\ Tried(c, e)
  /\ UNCHANGED <<sink, row, client, begun, faults, overlapped>>

\* Mutant: the error ends the loop.
CreateFailsAndStops(c) ==
  /\ At(c, "create")
  /\ Fault
  /\ \E e \in calls[c].todo : unmade' = unmade \cup ({e} \ queues) /\ Goes(c, "upsert")
  /\ UNCHANGED <<sink, row, queues, client, begun, overlapped>>

\* The error is logged.
CreateFails(c) ==
  /\ At(c, "create")
  /\ Fault
  /\ \E e \in calls[c].todo : unmade' = unmade \cup ({e} \ queues) /\ Tried(c, e)
  /\ UNCHANGED <<sink, row, queues, client, begun, overlapped>>

-----------------------------------------------------------------------------
(* The row, and Pusher's client after it.                                  *)

Upsert(c) ==
  /\ At(c, "upsert")
  /\ row' = calls[c].data
  /\ IF sink = "pusher" THEN Goes(c, "client") ELSE Ends(c)
  /\ UNCHANGED <<sink, queues, client, begun, faults, unmade, overlapped>>

UpsertFails(c) ==
  /\ At(c, "upsert")
  /\ Fault /\ Ends(c)
  /\ UNCHANGED <<sink, row, queues, client, begun, unmade, overlapped>>

\* None where the sink is off or something of the application is missing.
ClientOf(r) == IF r # None /\ r.enabled THEN r.app ELSE None

SetClient(c) ==
  /\ At(c, "client")
  /\ client' = ClientOf(calls[c].data)
  /\ Ends(c)
  /\ UNCHANGED <<sink, row, queues, begun, faults, unmade, overlapped>>

-----------------------------------------------------------------------------
(* An event.                                                               *)

Emit(c, e) ==
  /\ Begin(c, [NoCall EXCEPT !.op = "emit", !.event = e, !.pc = "get"])
  /\ overlapped' = (overlapped \/ Others(c, "set") # {})

Get(c) ==
  /\ At(c, "get")
  /\ IF row # None /\ row.enabled /\ calls[c].event \in row.events
     THEN Goes(c, "publish") ELSE Ends(c)
  /\ UNCHANGED <<sink, row, queues, client, begun, faults, unmade, overlapped>>

\* Without a queue of the name, or a client, the event is lost.
Arrives(e) ==
  CASE sink = "sqs" -> e \in queues \ Misnamed
    [] sink = "pusher" -> client # None
    [] OTHER -> TRUE

Publish(c) ==
  /\ At(c, "publish")
  /\ Ends(c)
  /\ UNCHANGED <<sink, row, queues, client, begun, faults, unmade, overlapped>>

-----------------------------------------------------------------------------
\* The instance is deleted, its row with it, and made again under its name.
Remove ==
  /\ \A c \in Calls : calls[c] = NoCall
  /\ row # None
  /\ row' = None
  /\ UNCHANGED <<sink, queues, client, calls, begun, faults, unmade, overlapped>>

\* PusherController.init makes the clients of all rows.
Restart ==
  /\ Fault
  /\ calls' = [c \in Calls |-> NoCall]
  /\ client' = IF sink = "pusher" THEN ClientOf(row) ELSE None
  /\ UNCHANGED <<sink, row, queues, begun, unmade, overlapped>>

CallStep(c) ==
  \/ ListQueues(c) \/ ListFails(c) \/ CreateQueue(c) \/ CreateFails(c)
  \/ Upsert(c) \/ UpsertFails(c) \/ SetClient(c) \/ Get(c) \/ Publish(c)

Next ==
  \/ \E c \in Calls :
       \/ \E on \in BOOLEAN, events \in SUBSET Events, app \in Apps \cup {None} :
            Set(c, on, events, app)
       \/ \E e \in Events : Emit(c, e)
       \/ CallStep(c)
  \/ Remove \/ Restart

Spec == Init /\ [][Next]_vars

-----------------------------------------------------------------------------
(* A row that is switched on has what serves it: a queue of every event, but *)
(* for those that could not be made, and between sets that did not overlap  *)
(* the client of its application.  So where nobody set the subscription     *)
(* meanwhile, an event on its way arrives unless its queue could not be     *)
(* made or has another name, or something of the application is missing.    *)
SubscribedIsServed ==
  /\ row # None /\ row.enabled =>
       /\ sink = "sqs" => row.events \subseteq queues \cup unmade
       /\ sink = "pusher" /\ ~overlapped /\ (\A c \in Calls : ~At(c, "client")) =>
            client = row.app
  /\ ~overlapped =>
       \A c \in Calls : At(c, "publish") =>
         \/ Arrives(calls[c].event)
         \/ calls[c].event \in unmade \cup Misnamed
         \/ sink = "pusher" /\ row.app = None
=============================================================================
