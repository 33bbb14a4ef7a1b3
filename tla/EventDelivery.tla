---------------------------- MODULE EventDelivery ----------------------------
(***************************************************************************)
(* EventManager.emit of the Evolution API and the emit of each sink        *)
(* (src/api/integrations/event).  One event goes to the sinks one after    *)
(* the other, each awaited; a sink looks up what the instance subscribed   *)
(* to, serves that, and then the global subscription.  The webhook sink    *)
(* posts again after a failure, with a growing delay.  The Trinity bot is  *)
(* a receiver of webhooks: what it does about an event it gets twice is    *)
(* the subject of BotConversation; how the client of "rabbitmq" comes and  *)
(* goes is the subject of RabbitmqController.                              *)
(***************************************************************************)
EXTENDS Integers, Sequences

CONSTANTS
  Events,            \* events that are emitted
  Enabled,           \* sinks switched on by the configuration
  Subscribed,        \* scopes the event is subscribed to in
  MaxAttempts,       \* WEBHOOK.RETRY.MAX_ATTEMPTS
  MaxFaults          \* bound: lookups, posts and publications that fail

Sinks == <<"websocket", "rabbitmq", "nats", "sqs", "webhook", "pusher", "kafka">>
SinkNames == {Sinks[n] : n \in DOMAIN Sinks}
Scopes == {"local", "global"}

\* A QR code; the notice that there will be no more of them; an event too
\* large for SQS and Pusher.
Kinds == {"message", "qrcode", "qrcode_limit", "large"}

VARIABLES
  kind,              \* kind[e]: what sort of event e is
  at,                \* at[e]: the stage emit(e) is in; 0: not emitted yet
  rejected,          \* events whose emit has rejected
  waiting,           \* events between two posts
  posts,             \* posts[e][scope]: webhook posts that failed
  got,               \* got[e][s][scope]: how often the receiver got e
  lost,              \* lost[e]: what emit(e) has given up on
  channel,           \* brokers there is a client of
  faults

vars == <<kind, at, rejected, waiting, posts, got, lost, channel, faults>>

-----------------------------------------------------------------------------
Brokers == {"rabbitmq", "nats", "kafka"}

\* Every sink has three stages; the websocket serves the global scope first.
Stages(s) == IF s = "websocket" THEN <<"global", "lookup", "local">>
                                ELSE <<"lookup", "local", "global">>
Done == 3 * Len(Sinks) + 1

Sink(e) == Sinks[((at[e] - 1) \div 3) + 1]
Stage(e) == Stages(Sink(e))[((at[e] - 1) % 3) + 1]
Running(e) == at[e] \in 1..(Done - 1) /\ e \notin rejected \cup waiting

\* SQS serves either the one scope or the other.
Serves(s) == IF s = "sqs" /\ "global" \in Subscribed THEN {"global"} ELSE Subscribed

TypeOK ==
  /\ kind \in [Events -> Kinds]
  /\ at \in [Events -> 0..Done]
  /\ rejected \subseteq Events
  /\ waiting \subseteq Events
  /\ posts \in [Events -> [Scopes -> 0..MaxAttempts]]
  /\ got \in [Events -> [SinkNames -> [Scopes -> 0..MaxAttempts]]]
  /\ lost \in [Events -> SUBSET (SinkNames \X Scopes)]
  /\ channel \subseteq Brokers
  /\ faults \in 0..MaxFaults

Init ==
  /\ kind \in [Events -> Kinds]
  /\ at = [e \in Events |-> 0]
  /\ rejected = {}
  /\ waiting = {}
  /\ posts = [e \in Events |-> [c \in Scopes |-> 0]]
  /\ got = [e \in Events |-> [s \in SinkNames |-> [c \in Scopes |-> 0]]]
  /\ lost = [e \in Events |-> {}]
  /\ channel = Brokers
  /\ faults = 0

-----------------------------------------------------------------------------
NextStage(e) == at' = [at EXCEPT ![e] = @ + 1]
NextSink(e) == at' = [at EXCEPT ![e] = 3 * (((@ - 1) \div 3) + 1) + 1]
Reject(e) == rejected' = rejected \cup {e}

Receives(e) == got' = [got EXCEPT ![e][Sink(e)][Stage(e)] = @ + 1]
GivesUp(e, scopes) == lost' = [lost EXCEPT ![e] = @ \cup ({Sink(e)} \X scopes)]
Fault == faults < MaxFaults /\ faults' = faults + 1

\* The client a broker's emit needs: ensureConnection(), natsClient.
HasClient(e) == Sink(e) \in Brokers => Sink(e) \in channel

\* A sink that is off returns at once, and a scope nobody subscribed to is
\* passed over.
Passes(e) ==
  /\ Running(e)
  /\ \/ Sink(e) \notin Enabled /\ NextSink(e)
     \/ /\ Sink(e) \in Enabled
        /\ Stage(e) \in Scopes \ Serves(Sink(e))
        /\ NextStage(e)
  /\ UNCHANGED <<kind, rejected, waiting, posts, got, lost, channel, faults>>

Serving(e, stages) ==
  Running(e) /\ Sink(e) \in Enabled /\ Stage(e) \in stages

-----------------------------------------------------------------------------
(* The lookup of the instance's subscription.                              *)

\* Mutant: emit waits until there is a client.
WaitsForClient(e) ==
  /\ Serving(e, {"lookup"})
  /\ ~HasClient(e)
  /\ UNCHANGED vars

\* Without a client the event is dropped before the lookup.
Dropped(e) ==
  /\ Serving(e, {"lookup"})
  /\ ~HasClient(e)
  /\ GivesUp(e, Serves(Sink(e)))
  /\ NextSink(e)
  /\ UNCHANGED <<kind, rejected, waiting, posts, got, channel, faults>>

\* get() answers.  Pusher then deletes data.qrcode.base64, which throws for a
\* notice without a QR code, and gives up on what is too large.
Lookup(e) ==
  /\ Serving(e, {"lookup"})
  /\ HasClient(e)
  /\ CASE Sink(e) = "pusher" /\ kind[e] = "qrcode_limit" ->
            Reject(e) /\ UNCHANGED <<at, lost>>
       [] Sink(e) = "pusher" /\ kind[e] = "large" ->
            GivesUp(e, Serves("pusher")) /\ NextSink(e) /\ UNCHANGED rejected
       [] OTHER -> NextStage(e) /\ UNCHANGED <<rejected, lost>>
  /\ UNCHANGED <<kind, waiting, posts, got, channel, faults>>

\* The database fails: only the websocket's emit catches it, and SQS does not
\* ask when it serves the global scope.
LookupFails(e) ==
  /\ Serving(e, {"lookup"})
  /\ HasClient(e)
  /\ Sink(e) = "sqs" => "global" \notin Subscribed
  /\ Fault
  /\ IF Sink(e) = "websocket"
     THEN GivesUp(e, {"local"}) /\ NextSink(e) /\ UNCHANGED rejected
     ELSE Reject(e) /\ UNCHANGED <<at, lost>>
  /\ UNCHANGED <<kind, waiting, posts, got, channel>>

-----------------------------------------------------------------------------
(* One scope of a sink other than the webhook: a publication.              *)

Publish(e) ==
  /\ Serving(e, Scopes)
  /\ Sink(e) # "webhook"
  /\ HasClient(e)
  /\ ~(Sink(e) = "sqs" /\ kind[e] = "large")
  /\ Receives(e)
  /\ NextStage(e)
  /\ UNCHANGED <<kind, rejected, waiting, posts, lost, channel, faults>>

\* Mutant: a failure of the first scope returns.
PublishFailsReturning(e) ==
  /\ Serving(e, Scopes)
  /\ Sink(e) \notin {"webhook", "websocket"}
  /\ IF HasClient(e) THEN Fault ELSE UNCHANGED faults
  /\ GivesUp(e, {Stage(e)})
  /\ NextSink(e)
  /\ UNCHANGED <<kind, rejected, waiting, posts, got, channel>>

\* All attempts throw (three of them at RabbitMQ and Kafka, whose connection
\* then counts as lost), or the client has gone since the lookup.
PublishFails(e) ==
  /\ Serving(e, Scopes)
  /\ Sink(e) \notin {"webhook", "websocket"}
  /\ IF HasClient(e) THEN Fault ELSE UNCHANGED faults
  /\ channel' = IF Sink(e) = "nats" THEN channel ELSE channel \ {Sink(e)}
  /\ GivesUp(e, {Stage(e)})
  /\ NextStage(e)
  /\ UNCHANGED <<kind, rejected, waiting, posts, got>>

\* SQS takes what is too large by way of S3: it is ignored without S3, and an
\* upload that fails rejects.
PublishLarge(e) ==
  /\ Serving(e, Scopes)
  /\ Sink(e) = "sqs"
  /\ kind[e] = "large"
  /\ \/ Receives(e) /\ NextStage(e) /\ UNCHANGED <<lost, rejected, faults>>
     \/ GivesUp(e, {Stage(e)}) /\ NextStage(e) /\ UNCHANGED <<got, rejected, faults>>
     \/ Fault /\ Reject(e) /\ UNCHANGED <<at, got, lost>>
  /\ UNCHANGED <<kind, waiting, posts, channel>>

-----------------------------------------------------------------------------
(* One scope of the webhook: retryWebhookRequest.                          *)

Posting(e) == Serving(e, Scopes) /\ Sink(e) = "webhook"

Accepted(e) ==
  /\ Posting(e)
  /\ Receives(e)
  /\ NextStage(e)
  /\ UNCHANGED <<kind, rejected, waiting, posts, lost, channel, faults>>

\* attempts++, and either a delay or the end of the loop, which emit catches.
AttemptFailed(e) ==
  /\ posts' = [posts EXCEPT ![e][Stage(e)] = @ + 1]
  /\ IF posts[e][Stage(e)] + 1 = MaxAttempts
     THEN GivesUp(e, {Stage(e)}) /\ NextStage(e) /\ UNCHANGED waiting
     ELSE waiting' = waiting \cup {e} /\ UNCHANGED <<at, lost>>

\* The receiver has it, but its answer comes too late or says 5xx.
TimesOut(e) ==
  /\ Posting(e)
  /\ Fault
  /\ Receives(e)
  /\ AttemptFailed(e)
  /\ UNCHANGED <<kind, rejected, channel>>

Unreachable(e) ==
  /\ Posting(e)
  /\ Fault
  /\ AttemptFailed(e)
  /\ UNCHANGED <<kind, rejected, got, channel>>

\* 400, 401, 403, 404 or 422: no further attempt.
Refused(e) ==
  /\ Posting(e)
  /\ Fault
  /\ posts' = [posts EXCEPT ![e][Stage(e)] = @ + 1]
  /\ GivesUp(e, {Stage(e)})
  /\ NextStage(e)
  /\ UNCHANGED <<kind, rejected, waiting, got, channel>>

\* The delay is over.
Retry(e) ==
  /\ e \in waiting
  /\ waiting' = waiting \ {e}
  /\ UNCHANGED <<kind, at, rejected, posts, got, lost, channel, faults>>

-----------------------------------------------------------------------------
Emit(e) ==
  /\ at[e] = 0
  /\ NextStage(e)
  /\ UNCHANGED <<kind, rejected, waiting, posts, got, lost, channel, faults>>

\* The client of a broker is lost, or there again.
ClientLost(s) ==
  /\ s \in channel
  /\ Fault
  /\ channel' = channel \ {s}
  /\ UNCHANGED <<kind, at, rejected, waiting, posts, got, lost>>

ClientBack(s) ==
  /\ channel' = channel \cup {s}
  /\ UNCHANGED <<kind, at, rejected, waiting, posts, got, lost, faults>>

EmitStep(e) ==
  \/ Passes(e) \/ Dropped(e) \/ Lookup(e) \/ LookupFails(e)
  \/ Publish(e) \/ PublishFails(e) \/ PublishLarge(e)
  \/ Accepted(e) \/ TimesOut(e) \/ Unreachable(e) \/ Refused(e) \/ Retry(e)

Next ==
  \/ \E e \in Events : Emit(e) \/ EmitStep(e)
  \/ \E s \in Brokers : ClientLost(s) \/ ClientBack(s)

\* Calls return: the lookup and the publication are local or have answers,
\* and axios gives a post up after its timeout.
Fairness == \A e \in Events : WF_vars(EmitStep(e))

Spec == Init /\ [][Next]_vars /\ Fairness

-----------------------------------------------------------------------------
(* An emit that ran to its end has served every sink that is on and every   *)
(* scope it serves, or has given up on just that one: no failure of one     *)
(* sink costs another its event.                                            *)
ServedOrGivenUp ==
  \A e \in Events : at[e] = Done =>
    \A s \in Enabled : \A c \in Serves(s) :
      got[e][s][c] > 0 \/ <<s, c>> \in lost[e]

(* Every emit ends, however the receivers fail: the callers that await it   *)
(* are not held for ever.                                                   *)
EmitEnds == \A e \in Events : at[e] > 0 ~> at[e] = Done \/ e \in rejected
=============================================================================
