# A formal model of the Lava Car Mendes booking system

The repository holds two programs that work together, and a web site:

* **the Trinity bot** (`src-bot/`): an Express server that takes the webhooks of the
  WhatsApp gateway, talks to customers through an assistant, keeps the agenda of
  several organizations in PostgreSQL, asks customers to confirm, and serves the
  booking site;
* **the Evolution API** (`src/`): the WhatsApp gateway, which keeps one connection
  per *instance*, stores messages, runs chatbots, bridges to Chatwoot, and delivers
  events to the bot and to message brokers;
* **the booking site** (`site agendamentos lava car mendes/`): a React front end with a
  six-step page on which a customer books a wash.

This directory models what they do when requests, timers, webhooks, restarts and
failures interleave. TLC checks small instances, and TLAPS proves the most important
invariants for every value of the constants.

    tlc -workers 2 -config MCAgenda.cfg MCAgenda.tla
    tlapm AgendaProofs.tla

Paths below are relative to the repository; `integrations/` is `src/api/integrations/`.

## 1. Inventory

| Part | Code | State | Operations | Correct when |
|---|---|---|---|---|
| Agenda tables | `src-bot/database/Database.js`, `schema-pg.sql`, `migration_confirmation.sql` | `customers`, `vehicles`, `appointments`, and their constraints | one SQL statement each | no two live appointments of an organization overlap; a row's owner is the one who booked it |
| Site endpoint | `src-bot/booking.routes.js`, `saveFullBooking` | local values of the request | find or create customer and vehicle, insert appointment | a customer can come back; free slots are free |
| Booking page | `src/pages/Booking.tsx`, `hooks/useBooking.ts`, `lib/api.ts` of the site | step, draft, offered times, requests on their way | choose, go back, search, confirm | what is chosen was offered, what is shown as booked is booked |
| Confirmation job | `src-bot/services/ConfirmationService.js`, `index.js:74` | the rows a pass selected | select, send, mark | every appointment in reach is asked about |
| WhatsApp agenda | `src-bot/services/WebhookHandler.js`, `AppointmentService.js` | the row a handler has read | confirm, cancel, book | only the owner settles a row, and only one that was asked about |
| Conversations and orders | `WebhookHandler.js`, `Database.js`, `webhook.routes.js` | `customers`, `conversations`, `messages`, `service_requests` | store, ask the assistant, send, open an order | a message is answered once and opens one order, or a failure accounts for it |
| Admin group | `WebhookHandler.js:350-400` | orders | `.saiu`, `.pronto`, `.cancelou` | a customer hears every status; a command stays in its organization |
| Onboarding, seed, migration | `src-bot/onboard-client.js`, `seed.js`, `migrate-to-pg.js` | organizations, services, history, menu files | register, seed, move the SQLite database, look a menu up | a script that is alone ends with what it was asked for, whatever died before it |
| Instance lifecycle | `src/api/services/monitor.service.ts`, `controllers/instance.controller.ts`, `guards/instance.guard.ts` | `waInstances`, `Instance` rows, sockets, timers | create, connect, restart, logout, delete; QR codes, pairing, reconnection | a name has one row and one socket; a lost connection comes back |
| Auth state | `src/utils/use-multi-file-auth-state-*.ts`, `api/provider/sessions.ts`, `cache/rediscache.ts` | credentials and Signal keys in four backends | read, save, set, remove | what is read is what was set last |
| Baileys channel | `integrations/channel/whatsapp/whatsapp.baileys.service.ts`, `utils/onWhatsappCache.ts` | messages, chats, contacts, labels, group metadata, accounts | upsert, update, receipt, edit, revoke, history, send | a message is stored and told once, a status and a text are never stale |
| Meta and Evolution channels | `integrations/channel/meta/**`, `channel/evolution/**` | messages, contacts, chats | webhooks, sends | told once, stored once, filed under the right contact |
| Instance settings | `api/services/channel.service.ts`, `settings.service.ts`, `proxy.service.ts` | rows, copies in the channel object, cached provider | set, load, look up | copies agree with the rows |
| Chatbots | `integrations/chatbot/**` | `IntegrationSession`, debounce map, bots, settings, credentials | open, pause, close, keyword, expiry; create, change and delete bots | a message is handed over once; triggers stay apart; a session has its bot |
| Chatwoot bridge | `integrations/chatbot/chatwoot/**` | conversation cache, lock, source ids, contacts, inbox | forward, delete, import, merge, set up | one conversation, each message once on each side, one contact per person |
| Event delivery | `integrations/event/**` | client of each broker, reconnection timers, subscriptions, queues | `emit`, `set`, reconnect | a failing sink costs no other its event; a lost connection is found again; what is subscribed to is served |
| Routers, DTOs, JSON schemas | `api/routes`, `api/dto`, `validate` | none | validation | - |
| Admin panel API | `src-bot/admin.routes.js` | none of its own | lists, status PATCH | see section 7 |
| Docker, Prisma, manager bundle | | none at run time | | - |

**How they meet.** WhatsApp reaches the Evolution API over a socket; the API stores the
message and emits an event; the webhook sink posts it to the bot, again if the answer is
late; the bot answers 200 at once and handles the message afterwards, reading and
writing PostgreSQL and calling the assistant; what it sends goes back over the API.
The site writes to the same tables with no lock in common, and so does the
confirmation job, whose timer does not wait for the pass before.

**What is hard.** Nothing in the bot runs in a transaction: every SQL statement is
a step, every `await` a place where another handler, request or pass runs. Only three
things order them: `UNIQUE(remote_jid, organization_id)`, `UNIQUE(whatsapp_message_id)`
and the exclusion constraint `no_overlap`. 200 is sent before the work, so a restart
loses work that nobody repeats. In the gateway, handlers of the socket's events are
awaited by nobody, a look and the write it justifies are separate queries, handlers of
old connections act on the present one, copies are kept beside rows, and sinks are
served one after the other. `PROJECT.json` lists each hazard at its line, with the
properties that would catch it.

## 2. Modules

    AppointmentStore       the tables, the clock and the constraints; an operator per statement
      SiteBooking          POST /api/public/bookings, a program counter per request
      Confirmations        the job's passes
      WhatsAppAgenda       handlers that settle or book an appointment
        Trinity            the composition: Init, Next, restarts, properties
          AgendaProofs     no double booking, the refinement of Agenda, who is asked and decides; the page
          MCTrinity        values for TLC
            MCAgenda       with SiteWizard and BotTenants
    Agenda                 abstract: a set of reservations that never overlap
    SiteWizard             the page a customer books on
    BotTenants             onboarding, seed, migration, and the menu the bot finds
    BotConversation        customers, conversations, messages, orders, admin commands
      ConversationProofs   its theorems
      MCBotConversation
    ChatbotSession         sessions, debounce and bots of the chatbot integrations
      ChatbotProofs        its theorems
      MCChatbotSession
    RabbitmqController     the RabbitMQ channel, its loss and its reconnection
      MCBrokers            with KafkaController and EventDelivery
        BrokerProofs       theorems of the three
    KafkaController        the Kafka producer and its awaited cleanup
    EventDelivery          EventManager.emit and the emit of seven sinks
    InstanceLifecycle      one instance name: requests, monitor, connection
      MCLifecycle          with AuthState
        LifecycleProofs    theorems of both
    AuthState              credentials and keys in four backends
    BaileysMessages        the messages of one chat
      MCMessages           with the five modules that follow
        MessageProofs      theorems of the messages
        SettingProofs      theorems of the five
    CloudChannels          the Meta and Evolution channels
    InstanceSettings       settings, proxy, chatwoot, webhook: rows and copies
    ChatDirectory          chats, labels, contacts, group metadata
    OnWhatsappCache        the table of accounts and the lookup before a send
    EventSettings          subscriptions, SQS queues, Pusher clients
    ChatwootBridge         messages between a contact and Chatwoot
      MCIntegrations       with ChatwootContacts and BotSettings
        IntegrationProofs  theorems of the bridge and of the bots' administration
    ChatwootContacts       contacts, merging, inbox and its set-up
    BotSettings            administration of bots, settings and credentials

Everywhere, what a handler does between two awaits is one action. A call in progress
is a record with its `pc` and what it has read; between two of its steps anything else
may happen. Failures, restarts, expiries and repeated deliveries are actions with a
bound (`MaxFaults`, `MaxDisturbances`, `MaxUpsets`, ...). Where a module's property
does not hold after a certain overlap or failure, the model *marks* that it has happened
(`marks`, `upset`, `met`, `loose`), by a condition on what is stored or in progress before the step, and the property says for each mark what is still promised. These exceptions are
the code's own races, listed in section 6.

**Agenda modules.** Time is a number of units from `0` to `Horizon`; `now` moves by
`Tick`. An appointment is a record with its organization, customer, hours, `status` and
`confirmationSentAt`; `asked` counts the questions that were delivered. `FitsAgenda` is `no_overlap`; the primary
key is the millisecond of the insert (`APT-<ms>`), so two inserts can collide
(`Millis`). What a message says, and what the assistant makes of it, are `\E` choices:
`MessageProcessor` and the assistant only choose among the steps that are modelled.
`Restart` ends every request, pass and handler in progress; the tables stay.
`HasUpdatedAt` says whether the database has the column the cancellation writes: no
schema in the repository creates it, so `FALSE` is the code as it stands and `TRUE` is
what the code intends; the runs use both.

**Agenda** is what the bot promises: a set of reservations; `Reserve` adds one that fits,
`Confirm` makes one firm, `Release` takes one away. `Trinity` maps its live appointments to it
(`ImplementsAgenda`), although the code reads a slot grid, decides, and inserts much
later.

**SiteWizard** has an action per event of the page. Searches (`fetches`) are sent for the
draft of that moment and answered in any order; `Confirm` sends the draft, after which
the customer may still go back. The server is reduced to an agenda that offers, books or
refuses, since `SiteBooking` has its insides.

**BotTenants** has an action per statement of the three scripts, two at once, each stopped
or failing anywhere (`Upset`) and run again. Names stand for slugs; `Extends` says
which slug is the beginning of another, which is what the menu lookup
(`AskForMenu`, `SendMenu`) trips over.

**BotConversation** models the webhook from delivery to answer with one action per
statement or call, handlers of the same or different messages in parallel, deliveries
that come twice, the job that closes idle conversations, and admin commands. The agenda
side of the same handler is in `WhatsAppAgenda`; the two share no table but
`customers`, which both only add to.

**ChatbotSession** follows each message of one contact through every integration
at once (`emits[i][m]`). An emit reads the newest session of the chat (`Lookup`), decides
(`Route`), may hold the text back (`Hold`, `DebounceEnds`), and processes it in the way of its
service: `BaseProcess` for n8n, dify, evoai, flowise and evolutionBot, `OpenaiProcess`,
`TypebotProcess`. It keeps what it has read of the session, and every later write uses that
row. `settings` are chosen in `Init` from `Configurations` and stay. What the bots say is
left out; `served` counts how often a bot answered for a message. Operators change sessions
(`ChangeStatus`), typebot can be started by a call (`StartBot`), a call can fail, and the
process can restart, which loses the debounce map.

**BotSettings** is the other half: requests that create, change and delete bots, default
settings and openai credentials, in looks and a write, of an integration whose peculiarities
(which checks it makes, whether it has credentials) are the record `integration`; messages begin
sessions with the bot they find.

**RabbitmqController** has the controller's fields (`ctl`), every connection that still
exists with its stage (`conns`), and who opened it. Connections that the controller
has forgotten keep their handlers and take part: a close event that comes late tears
down the channel that is in use by then. **KafkaController** listens to no event; a loss
is found when the sends of an emit fail, and `cleanup()` runs beside the timer.

**EventDelivery** walks an event through the sinks in the order of `event.manager.ts`.
A sink has three stages (look the subscription up, serve the local scope, serve the
global one; the websocket has the global one first). Each fails the way its code does.
**EventSettings** sets the subscriptions that are looked up.

**InstanceLifecycle** has one name with the registry entry (`registry`), the objects it
may hold, the row (`db`), the sockets with their stage, and `tasks`, what is left of handlers that
were started. `Overlaps` is the set of overlaps of requests that may happen:
"name" two requests pass the guard of one name, "connect" a connect while reconnecting,
"ending" a connect during a removal, "save" a reconnection before the save
of its credentials, "restart" a restart between pairing and the write of the row. Each
of them breaks a property below (section 6), so the run has none and says what holds
without them. **AuthState** opens what that module takes for one item: per item the stored stamp, the one
that was set last (`wanted`), and the jobs in progress, for each of the four backends.

**BaileysMessages** has for each instance the queue of batches that `ev.process` fills, the batch
that is handled, the rows, what was told to subscribers, and one API call. WhatsApp and the
Baileys library are modelled from how they are used. **ChatDirectory** does the same for
what is kept beside messages, and **OnWhatsappCache** for accounts: numbers in two
forms, LIDs, rows found by any overlap. **CloudChannels** has webhooks in progress that
share the field `phoneNumber`. **InstanceSettings** compares a row with its copies.

**ChatwootBridge** has calls in progress from both sides, the cache, the lock with its
expiry, conversations and messages as Chatwoot holds them, and what each row knows of
Chatwoot's ids. **ChatwootContacts** has the contacts of one person whose number Chatwoot
may know with or without the ninth digit.

## 3. Runs

Modules that share no state are checked in one run: the MC module starts in one of several *scenes*
(`scene`, `moves`) and only that scene's module moves, so a run's states are the sum of
its scenes', not their product.

| Run | Instance | What it shows |
|---|---|---|
| `agenda` | agenda: 1 organization, 1 service, two overlapping starts, 2 handlers, 1 pass, `HasUpdatedAt`; page: 2 washes, 2 days of 2 times, 2 searches, 2 confirmations, 1 other customer or failure; scripts: 3 of which 2 at once, 2 slugs, 2 fixed services, 1 interruption | no double booking while cancellations, bookings and late confirmations interleave, and every step implements `Agenda`; what is chosen was offered and what is shown as booked is booked; scripts end with what was asked for |
| `confirmations` | 2 customers, 1 request, 1 handler, 2 overlapping passes, 1 fault, `~HasUpdatedAt` | who is asked, that nobody is forgotten, who settles |
| `returning_customer` (violated) | 1 customer, 1 request | a person known to the database books over the site and gets a 500 |
| `offered_slots` (violated) | 1 handler, 1 pass | the grid offers the hours of a confirmed appointment |
| `conversation` | "chat": 2 messages of a customer delivered up to twice, 2 handlers; "group": 2 customers in 2 organizations, 2 commands at once; 1 fault | answered once, one order per message, unanswered only after a failure; the status of an order is told |
| `tenants` (violated) | 2 organizations, 2 commands | a command moves an order of another organization |
| `events` | RabbitMQ: 5 connections, 3 attempts, 3 losses; Kafka: 3 producers, 2 emits, 3 attempts, the broker goes or comes 3 times; delivery: 1 event of any kind, 7 sinks, both scopes, 3 attempts, 3 faults; liveness | a reconnection is never forgotten, never doubled, and ends connected or out of attempts; at rest Kafka's producer is usable or given up; who gets an event, and that `emit` ends |
| `chatbot` | 2 messages of 1 contact, n8n, openai and typebot under 12 settings each and typebot under 2 more, evoai as a fallback beside n8n, `startBot`; at most 5 sessions, 1 command, 1 fault; liveness | nothing is handed over twice or stranded by the debounce; a chat at rest that is closed or paused stays quiet; every emit ends |
| `lifecycle` | lifecycle: 2 requests on one name, 3 sockets, 1 QR code, the deletion timer, 1 loss or restart, liveness; keys: 1 key beside the credentials, 4 writes, connects or removals, 1 fault, 4 backends | registry, row, credentials and sockets agree at rest, a lost connection comes back; what is read was set last |
| `messages` | Baileys: 2 messages, 2 instances, contact or group, queues of 2, 1 edit, 2 happenings (1 in a group); cloud: 2 messages, 2 webhooks at once, 2 disturbances, both channels, with and without S3; settings: 3 values, 3 sets, 1 disturbance, 4 kinds; directory: 2 labels, 3 changes, 1 failure; accounts: 2 numbers, 3 calls of which 2 at once; subscriptions: 3 sets or events of which 2 at once, 2 failures, 2 sinks | nothing lost, statuses and texts current, messages filed and told once, copies and directories agree with their source, accounts not mixed up, subscriptions served |
| `integrations` | bridge: 2 messages, 2 calls at once, 2 conversations, 1 disturbance; contacts: 2 messages or set-ups, 4 contacts, 1 upset; bots: 2 bots, 1 credential, 3 requests of which 2 at once, 3 integrations | one conversation, each message once on each side, deletions carried over; one contact per person; triggers apart, sessions have bots |
| `debounce` (violated) | 1 message to each of 2 instances, n8n with a debounce | the texts of both go to the second instance's bot |

The runs' properties are about what could go wrong; the types are one operator per module
(`TypeOK`, `StoreTypeOK`, ...), which hold in the same instances when added to the cfg
(in an MC module as `K!TypeOK` for a module it instantiates) and are proved, where theorems
rest on them, with the inductive invariants of section 4.

**Why the bounds are enough.** The interesting agenda races need two writers and
two overlapping starts; a third writer meets the same constraint. A late
confirmation needs a row to be cancelled and its hours taken between a handler's
read and write: two handlers, one asked row. A double question needs two passes and
one fault. On the page, two searches cross, and two confirmations are a
retry. Scripts: a third one runs after one that was cut short, beside one that was not.
Two messages delivered twice are the smallest instance in
which a duplicate and a different message race at once. For RabbitMQ, five connections
leave room for two forgotten ones beside a new one, and three losses are enough for a late close event to
meet a connect the timer made and for all attempts to fail; for Kafka three producers are one in use,
one being cleaned up and one connecting. One event is enough for
the sinks: emits share only the state of the clients, which `ClientLost` and
`ClientBack` change at will. Chatbots: two messages are what it takes
for one to join, race or end the session of the other; m2 is plain, the keyword, or
the owner's. Five sessions are more than two messages, two integrations and a
`startBot` create beside the one from before, so the bound never stops `Create`.
Lifecycle: two requests are every pair of operations, in sequence or overlapping as far as `Overlaps` lets them; three sockets are the
one in use, its replacement and one that is about to end. Messages: an edit or receipt races a row with one message; a second one is
needed for a batch that goes on or stops after an error, for "read up to", and for two
webhooks that share a field. The look-then-write races (accounts, bots, contacts, settings,
subscriptions) need two calls at once and one before or after them. Deadlock is not checked: a bounded run ends when
the clock, the messages or the faults are used up.

**Symmetry** is used for customers, messages, handlers, calls, bots and the like, which the
modules only compare, and not in runs with a liveness property.

**Fairness.** Only gateway modules assume any. `RabbitmqController`: a timer
that is armed fires (`setTimeout`), a connect or `createChannel` is answered (the
socket fails or the broker speaks), a close is answered or given up by the heartbeat;
`MCBrokers` repeats it for the scene in which that controller moves.
`EventDelivery`: what `emit` awaits settles, since brokers' clients answer or reject and
axios has a timeout. `ChatbotSession`: as long as some
emit can go on, one does: queries and HTTP calls are answered or fail, and an armed
timeout fires. One weak fairness for all emits is enough, as each takes finitely many
steps. `InstanceLifecycle`: some handler goes on whenever one can, and a socket that is
connecting is accepted or refused and says so when it has closed; nobody is assumed to
scan a code. No message, event or client is assumed to come. Under it `RabbitmqRecovers`,
`EmitEnds`, `EmitsEnd` and `Reconnects` are checked. The
bot's modules assume none and state no liveness: after a restart nothing is repeated,
so "every message is answered" is false, and `AnsweredUnlessFailed` says
instead what must have happened if one is not.

## 4. Proofs

Every theorem holds for all constants that satisfy the modules' named assumptions (in
`AgendaProofs` for the page, and for `SingleFlight`, an assumption is the theorem's hypothesis).

`AgendaProofs`: `TypeCorrect`, `NeverDoubleBooked`, `BotImplementsAgenda`, all from `InductiveInvariant`.
`NoOverlap` alone is not inductive: an update by a handler that is in the middle of its work
rewrites a row it read earlier, so the invariant also says what each program counter implies
about the row in hand. Inserts keep `NoOverlap` because `FitsAgenda` is
evaluated against the table of that very step; status changes keep it because the
`UPDATE` of a confirmation goes through the constraint again. A row that was
cancelled meanwhile, and whose hours are taken, is refused. In the refinement each
action maps to one of `Reserve`, `Confirm`, `Release`, or
leaves the reservations alone, which is the step-by-step reading of `ImplementsAgenda`.

On top of it, `NeverConfirmedUnasked` and `DecidedByOwner` from
`DInv`, which adds to `IInv` that a row belongs to a customer of its car wash
(`RowsOwned`), that a handler about to settle a row holds one of its sender's that has been
marked (`HandlersHoldOwnRows`), and that a pass about to mark a row has delivered its question
(`PassesHoldAsked`). Rows never change their customer and marks never go away (`RowsKeep`), so
what a handler read stays true while others run. `NobodyIsForgotten` (`NobodyForgotten`) adds
`FInv`: the timer is punctual (`TimerPunctual`), a pass holds one list at a time
(`PassesHoldOne`), and an appointment still waiting for its question is in the hands of a pass or
has a firing ahead of it inside its window (`AskedInTime`). Its hypothesis `WindowSpansTick`,
`TickPeriod <= WindowHi - WindowLo + 1`, is what the code has: a timer of 15 minutes and a window of 30.

There too, of the page: `PageTypes` and `WhatIsShownIsBooked` (`BookedAsShown`). The strengthening
says that an answered search holds times that were offered for what it asked for
(`AnswersOffered`), that without a crossing at most one search is on its way and it is for the present draft
(`InOrder`, `SearchedForDraft`), that the times on the page were offered for the draft
(`ShownOffered`), and so the chosen one (`ChosenOffered`).

`ConversationProofs`: `OneAnswerAndOrder` (`AnsweredOnce`) and `NothingLostSilently`
(`AnsweredUnlessFailed`) from `ConversationInvariant`. The key is that the `UNIQUE` message id makes
the `INSERT` of the inbound row a lock: past it a handler has its message to itself
(`WorkedOnce`), so only it can order, answer or fail it, and a handler turned away by that
row leaves its message to the one that owns it (`NothingDropped`). Orders name stored messages
whose handler is past ordering (`OrdersStored`). All steps are first put into eight
kinds (`StepKinds`), and one lemma per kind shows it keeps the invariant. `StatusKnown` is
inductive by itself.

`BrokerProofs`. RabbitMQ: `RabbitmqTypes`, `ReconnectionNeverForgotten` and
`ReconnectingFlagIsHonest` for any number of connections, attempts and losses, with
emissions during `init()` allowed. The conjunction of the three is inductive. One
lemma per private method (`ScheduleFacts`, `LossFacts`, `FailFacts`,
`CleanupFacts`) says what it guarantees, and two (`LossKeeps`, `FailKeeps`) that any
step made of them keeps the invariant. The subtle case is a connection that dies while
its channel is being created: `handleConnectionLoss` arms a timer, and then the failing
`connect()` runs its own catch. `OneReconnectionAtATime` is `~EarlyEmit => (Spec =>
[]SingleFlight)`: while the flag is down, no timer is armed and no connect of the timer is under
way (`FlagRaised`), and nothing but `init()` connects before it has ended (`NothingBeforeInit`).
With early emissions the invariant is false (section 6).
Kafka: `KafkaNeverDeaf` (`KafkaHoldsProducer`) under `~EarlyEmit` and `~SlowCleanup`. The invariant is
that one connect is under way and neither a timer nor a cleanup beside it (`Alone`), or none is, and then a
timer is armed, the producer is usable or the attempts are used up (`Waiting`). Events:
`NoSinkCostsAnother` (`ServedOrGivenUp`) because an emit has settled every sink it has passed
(`PassedAreSettled`): it counted the event there or noted that it gave up.

`ChatbotProofs`: `ChatbotTypes`, `NothingServedTwice` and `NothingStranded` for any
integrations, messages, settings and bounds. `ServedOnce` is not inductive: nothing in
it forbids a message to be in two texts that are still to be handed over. `Placed` says where each
message of an integration is: ahead (not routed yet), held back, in the batch of
exactly one live emit, or served or lost. Five lemmas on it (`GoingOn`, `Beginning`, `Holding`,
`Taking`, `Serving`) are all an action can do to it, and one lemma per action
says which it does. `HasNewest` shows that `getSession` reads a row
that exists; it rests on the well-foundedness of `<`. `RestIsKept` (`QuietStaysQuiet`) comes from `QInv`:
the row an emit has read is of its instance (`RowsOwned`), an armed timeout is that of an emit which
waits for it (`ArmedHeld`), and each emit in the instance of a quiet message is over, has not read yet, or has read
just the session that silences it (`QuietHushed`). The proof found the property too strong as first
stated: `stopBotFromMe` and the keyword also act on sessions that are closed already
(`base-chatbot.controller.ts:871`), and openai and typebot resume what others would leave; which session
silences a chat is now `Silenced`, and the run has a setting for it.

`LifecycleProofs`. Keys: `ReadAsSet` (`KeptAsSet`) for any keys and all four backends. `AuthInv` says that
an item is in the hands of one job, or of removals (`Alone`), and is stored as it was set last when in none
(`Settled`), that a job writes what was set last (`WritesWanted`), that what removals have not taken away one still to come will
(`Removing`), and that one job connects (`OneConnects`). Instances: every field is typed, and the sockets an
object holds are its own (`LifeTypes`). `EntryIsOfTheRow` (`RegistryMatchesRow`) supposes `"name" \notin Overlaps`: then
at most one creation is in progress (`OneCreates`) and none beside a deletion (`EitherOr`), a creation that
has looked found neither entry nor row (`NoneYet`), and entry and row differ only
while one of them is on its way (`Matches`, `Gone`). `NeverTwoSockets` (`OneSocket`) supposes `"connect" \notin Overlaps`: one socket of an
object runs (`OneRuns`), a load has no socket beside it (`LoadsAlone`), what is prepared is
held by its object (`Prepared`, `HoldsPrepared`), and an id just made has none (`FreshId`).
The other overlaps may happen.

`IntegrationProofs`. Bots: `BotsTakeApart` (`TriggersApart`) and `NoSessionWithoutBot` (`SessionsHaveBots`) from
`SettingsInv`: a request that met no other still sees what it has looked up (`RequestsOK`, `Met2`), and a session without
its bot bears the mark that excuses it (`SessionsMarked`). Chatwoot, from `BridgeInv`: `OneToAnswer`
(`OneConversation`), `BridgedOnce` (`OnceOnEachSide`) and `DeletedTogether` (`DeletedOnBoth`). As
long as the section of `createConversation` held, one call searches (`OneSearches`), it found
none when it creates (`NoneToTake`), and one conversation can be taken (`OneToTake`). Per message (`Fine`):
one call works on it, and where it is on its way (call, webhook, history) fixes how often it was
sent and shown so far (`InItsWay`, `SentOnce`, `ShownOnce`); a deletion known on one side goes on to the other
(`DeletionsGoOn`). There is a lemma for each kind of step (`BridgingStep`, `StoreStep`, `ShownStep`,
`SendStep`, `DeletionStep`, ...) and one for all the messages a step leaves alone (`OthersFine`).

`SettingProofs`. Subscriptions: `SubscribersServed` (`SubscribedIsServed`) from `SubInv`: a set at SQS has seen to a
queue of every event before it writes the row (`CallsOK`, `RowHasQueues`), and at Pusher, without an overlap, the
client follows the row (`Orderly`). Settings: `CopiesFollowRows` (`SettingsAgree`) from `SettingsInv`: calls in progress
together have met (`MetOrAlone`), one that met none holds what the row says or has written it (`HandsHold`), and
copy and provider follow the row but for the call that is about to change them (`CopyFollows`, `ProviderFollows`).

Accounts: `OneAccountEach` (`OneAccount`) from `AccountInv`: a row, and a call, is of one number (`RowsOfOne`, `CallsOfOne`); calls in
progress together have met (`Alone`), so what a save that met none has found is still as it was (`WritesFound`), and what it
links is in one row (`LinkedInOne`). Directory: `DirectoryFollows` (`DirectoryAgrees`) from `DirectoryInv`. For each thing the phone can
change (`Aspects`: the chat, a label on it, the label, a name) the last change that waits or is handled says what the phone holds, and where none does the row
holds it (`LastWord`, `RestWord`); that what is handled is older than what waits (`InTheirOrder`) and alone of its part unless it has met another (`OneOfPart`)
is what makes a write the last. A picture and a group are fetched, so there it is the last fetch that counts (`PictureIsLast`, `GroupIsLast`).

The other two channels, also in `SettingProofs`: `FiledRightly` (`FiledUnderContact`) and `ToldAndStoredOnce` (`OnceAndStored`) from `CloudInv`. A handler past its reading of
`phoneNumber` holds the contact of its message or has been overtaken, and one that is to read it finds that contact there (`KnowsContact`). The step a handler is at fixes
how often its message was told and stored (`Stage`), and what it was when nobody works on it (`Over`); who has written has a contact,
and a contact a chat, or a handler that will see to it (`ContactDue`, `ChatDue`); a reported status is recorded or still in its batch (`RecordedOf`). Every step of a handler is one of four: it goes on
with its message (`Goes`), or with what it works on (`Turns`), takes the next status (`Batched`), or starts (`Started`).

`MessageProofs`. `NothingIsLost` (`NothingLost`) from `KeptInv`: until its row is there, a message is once in the queue of
an instance and no update is before it, and where the handler is in its batch says whether it has its row and was told.
`TextIsLatest` (`LatestText`) from `TextInv`, on top of it: the row has the last text, or the last edit in the queue does, or a request is about to
write it (`TextOrDue`); a deletion is in the status or to come (`RevokedOrDue`). `ReadStaysRead` (`ReadIsRead`) from `ReadInv`: what the owner has read is `READ`, or
a receipt, a status or an answer that will make it so is behind it in the queue (`Due`), and whatever marks as read is of
something read as late (`BatchOK`). Each proof has one lemma for what may happen to a queue (a batch is added, a message joins the last, the
first is done) and one per handler that says which of these it does.

Save for the agenda's, the conversations', the chatbots' and RabbitMQ's, the proofs are about the components in the composition the runs check (`MCSpec`, one
scene moving), under the assumptions of its modules (`BrokersAssumption`, `KeysAssumption`, `LifecycleAssumption`,
`IntegrationsAssumption`, `BridgeAssumption`, `MessagesAssumption`): bounds are naturals, `None` is none
of the values, and what is set is a setting.

Model-checked only: liveness, which needs fairness and `ENABLED`; `OnboardedAsAsked`, whose
scripts walk over sequences given by constants; `NoGhosts` and `OpenIsRemembered`, which relate the credentials to
what every handler of a connection will still do; and `FiledWithOnePerson`. Nothing stands against
proving these invariants but the size of the strengthening, which has to say of every step of
every call what it has read and what may have changed since (section 8).

## 5. Divergences the runs show

1. `SiteBookingSucceeds`: `findOrCreateCustomer` looks up the bare phone the site sends
   and stores it with `@s.whatsapp.net` (`Database.js:97`), so the second booking of a
   person, or the retry after a 409, breaks the unique key and gets a 500;
   `documentation/arquitetura/trinity.md:45` promises the whole cascade.
2. `OfferedSlotsAreFree`: the grid counts only `agendado` (`Database.js:428`), the
   constraint `agendado` and `confirmado`.
3. `CommandsStayInTenant`: an admin command looks its order up by the ending of its id
   and moves it in whatever organization it is (`WebhookHandler.js:371`); `trinity.md:58`
   asks for isolation in every query.
4. `MessagesStayInInstance`: the debounce map of an integration is keyed by the contact
   alone (`chatbot.controller.ts:116`), so a contact who writes to two instances within the
   debounce time has both texts handed to the second instance's bot;
   `documentation/vibe-coding/claude-instructions.md:55` promises instances that are isolated completely.

## 6. Further observations

What the modules above keep apart with a mark or an assumption, or show in an intermediate state.

**Bot.**
* A crash between the stored inbound row and the answer loses the answer: the delivery
  that comes again is taken for a duplicate. Two first messages of one customer race in
  `findOrCreateCustomer`; the loser throws and its message is lost. Two handlers can open
  two active conversations.
* `APT-<ms>` and `PED-<ms>` collide when two rows are inserted in one millisecond.
* The cancellation writes `updated_at`, which no schema creates (`Database.js:569`), so it throws.
* An answer of the assistant with an unknown service id ends the handler after the answer
  was stored and before it was sent (`WebhookHandler.js:214`).
* Site bookings end after the service's duration, assistant bookings after duration and
  buffer (`booking.routes.js:54`).
* Page: the answers of two searches may arrive in the other order and the page shows the times of
  the former day, its spinner removed by the first answer; a search that fails leaves the old
  times; `goBack` works while the booking is on its way; a lost reply and a retry
  tell the customer "Horário já ocupado" of what is the customer's own.
* Menus: the interview files the menu under the instance name before the registration is
  confirmed, and the handler looks for a file that begins with the slug of the organization's
  *name*: with different names it is not found, an organization without a menu can be given that of one whose
  slug begins with its own, a second format leaves the first file in front, and the file of
  `documentation/guias/novo-cliente.md:43` is never found.
* After the seed has registered an organization of the older database, no migration can
  succeed: `ON CONFLICT (id)` does not cover `UNIQUE(instance_name)`. The ids
  `svc_1`.. are one key for all organizations. `migrate.js` and `migrate_notices.js` call an API `Database.js` no longer has.

**Lifecycle and credentials** (`Overlaps` and `loose`).
* Two creates pass the guard at once, or a create passes during a removal: the registry
  then has an object without its row, and `cleaningStoreData` deletes by name what the other made.
* A connect is accepted while a reconnection is on its way: two sockets run. A deletion
  or the deletion timer during a connection leaves a socket nobody holds.
* A connect or scan while the cleanup of a logout is pending loses the new credentials; a restart
  between the pairing and the un-awaited write of the row forgets that it was open; the reconnection after a pairing
  reads the credentials before the save that nobody awaits; a late `connecting` is written after `open`.
* A query that fails at connect counts as "no credentials": new ones are made and
  written over those of a paired account.
* Two saves on their way can land in the wrong order; files are truncated before they
  are filled; `hSet` swallows errors; unlinking the phone leaves the session on the file server (removed
  by name, stored by id) and the keys in Redis.

**Channels** (`marks`).
* Baileys: ids remembered from an earlier history double rows;
  a status that arrives before the row is skipped; a message whose key was read within five minutes never
  becomes READ by an update; `messageKey` and `protocol_<id>` carry no instance, nor do
  `deleteMessage` and `updateMessage` (lines 3779 and 4200) in their queries; in groups anybody's receipt marks incoming
  messages READ; the status of own messages is never stored; one media without S3 ends the batch.
* Meta: `phoneNumber` is overwritten by a webhook that comes during another one's awaits (line 133); the
  statuses of several contacts in a batch get the first one's jid; a webhook with two entries
  handles the first one twice (`meta.controller.ts:40`); without S3 media is told and not stored; a repeated webhook is told
  and stored again.
* Directory: a presence in an ignored group and an association of labels `return`, which drops
  the rest of the batch; a known contact's name is never updated; group metadata up to an hour old
  answers sends, under a key without the instance.
* Accounts: a LID that is part of another, and saves that meet, can make one row of two
  accounts; a phone and a LID saved apart stay in two rows; unchanged rows are never
  made fresh again.
* Settings: `webhook` changes the row and not the copy; the cloud channels load only chatwoot, so
  other settings are gone after a restart; an optional field that is not given
  leaves the row and empties the copy; turning chatwoot off leaves the cached provider.

**Chatbots.**
* A message read while the session was open writes `opened` after the bot's answer,
  so it undoes a pause or close set meanwhile; hence
  `QuietStaysQuiet` speaks of chats at rest.
* The openai bot opens a paused session at the contact's next message (which it drops);
  typebot starts a new flow in place of one that has expired, though it be paused, and in that new
  flow looks for the text in `msg.message` (`typebot.service.ts:641`), where there is none.
* The keyword closes a session of the plain bots whatever `keepOpen` says, and since a closed session is
  never replaced, the contact is not answered again until an operator intervenes.
* An integration with a fallback bot answers beside the one that owns the session, and
  two first messages at once create two sessions.
* `changeStatus` with `delete` or `closed` has no `instanceId` in its query
  (`base-chatbot.controller.ts:462-489`): it takes the contact's sessions of all instances.
* `sendSingleMessage` awaits a promise that is only resolved after `textMessage` (`base-chatbot.service.ts:289`):
  if WhatsApp refuses the text, the emit never ends (`pc = "hung"`).
* Administration: requests that meet make two bots for one trigger, neither of which can be
  updated; deleted credentials delete bots and leave their sessions, and a session begun while its
  bot is deleted stays: both mute the contact. n8n and dify read `fallbackId` and write
  `n8nIdFallback` and `difyIdFallback`, so their fallback is never used.

**Chatwoot** (`upset`, `met`).
* Two calls get past cache and lock together, or the lock expires: two conversations. A call under
  the phone and one under the LID share neither.
* The import's filter never matches (`chatwoot-import-helper.ts:257` compares bare ids with `WAID:` ones), so
  a history that is imported twice is shown twice;
  what history arrives during an import is deleted with it.
* A deletion that comes before the row has its ids is lost.
* A merge that fails or crosses a call counts as nobody found, and a contact is made anew; taggings
  and inboxes are looked for and made in separate requests; the inbox is cached without expiry.

**Events.**
* An event that is emitted while `init()` still connects arms the reconnection timer; when
  `init()` succeeds, the timer connects a second time and the first connection is left
  open with nobody holding it. With `EarlyEmit = TRUE`, `SingleFlight` fails. The run
  has `FALSE`: `main.ts:149` calls `eventManager.init` without awaiting it and loads
  the instances next, so an early emission takes an instance that emits before the broker has
  answered.
* A connection whose `createChannel` fails, or whose channel is already closed when
  `cleanup()` closes it, is forgotten while open (`chanless`). After `maxReconnectAttempts` failures in a row
  nothing reconnects until a restart.
* Kafka's `cleanup()` clears the producer after its awaits: with `SlowCleanup = TRUE` it clears one that was
  connected meanwhile and `HoldsProducer` fails. The run has `FALSE`: a disconnect takes longer than the
  reconnection delay only if the broker hangs.
* `pusher.controller.ts:148` deletes `qrcode.base64` from the object all sinks share, so
  Kafka, which comes after, gets the QR code without its picture, or, at the notice of the limit, nothing.
* A failed lookup in any sink but the websocket rejects the `emit` and the sinks after
  it go without the event.
* SQS queues are made from the names of the enumeration, and `emit` replaces only the first dot
  of the event: `send.message.update`, `group-participants.update` and
  `typebot.change-status` go to queues that do not exist (`Misnamed`). No subscription can name `groups.update`.
  Two Pusher sets that overlap can leave the client of one beside the row of the other.

## 7. Not modelled, and why

* `admin.routes.js`: every request with a key reads an undeclared `config` (line 13) and is
  answered with 500, so its statements are unreachable; the site's admin pages only read it.
* `MessageProcessor`, `BusinessHoursService`, `StatsService` and the commands that print them: parsing and formatting;
  what they extract is a nondeterministic input of the handlers. `.hoje` overwrites one
  column that only the prompt reads.
* `generateAvailabilityContext` passes `org.id` where an instance name is expected
  (`AppointmentService.js:132`): its only effect is the text of the prompt.
* Profile, privacy, calls, templates, the API's administration of groups, speech to text, `startBot` without a
  session: requests passed on to WhatsApp or a provider, which keep no state here.
* Chatwoot: the bot's commands and the participants of groups, which repeat the contact's path.
* The queues, topics and NATS subscriptions of the global scope, which are made once at the start.
* `ignoreJid` of the chatbots, which changes one list; unread counts and `handleLabel` of the API.
* The Redis client's own connection, and the mapping of key names to file names.
* Routers, DTOs, JSON schemas: no state. Docker files, generated Prisma code, the manager bundle.

## 8. What could follow

* Theorems: `NoGhosts` and `FiledWithOnePerson`; `OpenIsRemembered` without the overlaps that break it.
* A composition of `BotConversation` with `EventDelivery`'s webhook retries, which are now the
  bound `MaxDeliveries`.
* Two instance names in `InstanceLifecycle`, which share no key today; global queues at start-up in `EventSettings`.
