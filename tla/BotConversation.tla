--------------------------- MODULE BotConversation ---------------------------
(***************************************************************************)
(* WebhookHandler.handle of the Trinity bot, as far as conversations,      *)
(* stored messages, answers and orders go, with the job that closes idle   *)
(* conversations and the commands of the admin group.  A webhook is        *)
(* acknowledged before it is handled, so a handler that throws loses its   *)
(* message; the sender may deliver a message again, also while the first   *)
(* delivery is in progress.  Each action below is one statement or call    *)
(* between two awaits.  The agenda is modelled in Trinity.                 *)
(***************************************************************************)
EXTENDS Integers, FiniteSets

CONSTANTS
  Customers,         \* senders, each writing to one organization
  Orgs,              \* organizations, one WhatsApp instance each
  OrgOf,             \* OrgOf[c]: the organization c writes to
  Messages,          \* WhatsApp message ids
  SenderOf,          \* SenderOf[m]: who sent m
  Handlers,          \* webhook calls in progress at once
  Admins,            \* admin commands in progress at once
  Millis,            \* milliseconds told apart within a unit of time
  TTL,               \* CONVERSATION_TIMEOUT_MINUTES
  Horizon,           \* bound: the last instant
  MaxDeliveries,     \* bound: deliveries of one message
  MaxCommands,       \* bound: admin commands
  MaxFaults,         \* bound: failed sends and restarts
  None               \* no conversation, no order

ASSUME ConversationAssumption ==
  /\ OrgOf \in [Customers -> Orgs]
  /\ SenderOf \in [Messages -> Customers]
  /\ {TTL, Horizon, MaxDeliveries, MaxCommands, MaxFaults} \subseteq Nat

VARIABLES
  now,
  customers,         \* rows of customers
  convs,             \* rows of conversations, numbered as they are created
  inbound,           \* inbound messages stored: message -> conversation
  orders,            \* rows of service_requests, by `PED-${Date.now()}`
  handlers,          \* progress of each webhook call
  admins,            \* progress of each admin command
  delivered,         \* delivered[m]: webhook calls made for m
  commands,          \* admin commands given
  sent,              \* sent[m]: answers sent for m
  told,              \* told[i]: statuses the customer of order i was told
  failed,            \* messages whose handler ended without an answer
  faults

database == <<customers, convs, inbound, orders>>
world == <<delivered, commands, sent, told, failed, faults>>
vars == <<now, database, handlers, admins, world>>

-----------------------------------------------------------------------------
OrderIds == [at : 0..Horizon, ms : Millis]
ConvIds == 1..(Cardinality(Messages) * MaxDeliveries)
NewStatuses == {"em_entrega", "pronto", "cancelled"}

HandlerPcs ==
  {"idle", "customer", "insert_customer", "conversation", "close", "touch",
   "create", "store", "settle", "ask", "save", "order", "book", "send"}

\* What the tags of the assistant's answer carry.
Tags == SUBSET {"order", "booking"}

HandlerIdle == [pc |-> "idle", msg |-> None, conv |-> None, tags |-> {}]
AdminIdle == [pc |-> "idle", org |-> None, order |-> None, status |-> None]

TypeOK ==
  /\ now \in 0..Horizon
  /\ customers \subseteq Customers
  /\ DOMAIN convs \subseteq ConvIds
  /\ \A k \in DOMAIN convs :
       convs[k] \in [customer : Customers, active : BOOLEAN, last : 0..Horizon]
  /\ DOMAIN inbound \subseteq Messages
  /\ \A m \in DOMAIN inbound : inbound[m] \in DOMAIN convs
  /\ DOMAIN orders \subseteq OrderIds
  /\ \A i \in DOMAIN orders :
       orders[i] \in [msg : Messages, customer : Customers, org : Orgs,
                      status : {"pending"} \cup NewStatuses]
  /\ handlers \in [Handlers -> [pc : HandlerPcs, msg : Messages \cup {None},
                                conv : ConvIds \cup {None}, tags : Tags]]
  /\ admins \in [Admins -> [pc : {"idle", "update", "notify"}, org : Orgs \cup {None},
                            order : OrderIds \cup {None},
                            status : NewStatuses \cup {None}]]
  /\ delivered \in [Messages -> 0..MaxDeliveries]
  /\ commands \in 0..MaxCommands
  /\ sent \in [Messages -> Nat]
  /\ told \in [OrderIds -> SUBSET NewStatuses]
  /\ failed \subseteq Messages
  /\ faults \in 0..MaxFaults

Init ==
  /\ now = 0
  /\ customers = {}
  /\ convs = [k \in {} |-> {}]
  /\ inbound = [m \in {} |-> 0]
  /\ orders = [i \in {} |-> {}]
  /\ handlers = [h \in Handlers |-> HandlerIdle]
  /\ admins = [a \in Admins |-> AdminIdle]
  /\ delivered = [m \in Messages |-> 0]
  /\ commands = 0
  /\ sent = [m \in Messages |-> 0]
  /\ told = [i \in OrderIds |-> {}]
  /\ failed = {}
  /\ faults = 0

-----------------------------------------------------------------------------
Put(f, x, v) == [y \in DOMAIN f \cup {x} |-> IF y = x THEN v ELSE f[y]]

Sender(h) == SenderOf[handlers[h].msg]

Goto(h, label) == handlers' = [handlers EXCEPT ![h].pc = label]
Finish(h) == handlers' = [handlers EXCEPT ![h] = HandlerIdle]

\* Mutant: no UNIQUE index.
NeverStored(m) == FALSE

Active(c) == {k \in DOMAIN convs : convs[k].customer = c /\ convs[k].active}

Expired(k) == now - convs[k].last > TTL

\* ORDER BY last_message_at DESC LIMIT 1
LatestActive(c) ==
  {k \in Active(c) : \A j \in Active(c) : convs[j].last <= convs[k].last}

\* messages.whatsapp_message_id is UNIQUE
Stored(m) == m \in DOMAIN inbound

-----------------------------------------------------------------------------
(* The steps of handle() for a message of a person.                        *)

\* POST /webhook: 200 at once, then messageExists.
Deliver(h, m) ==
  /\ handlers[h].pc = "idle"
  /\ delivered[m] < MaxDeliveries
  /\ delivered' = [delivered EXCEPT ![m] = @ + 1]
  /\ handlers' = IF Stored(m) THEN handlers
                 ELSE [handlers EXCEPT ![h] = [HandlerIdle EXCEPT !.pc = "customer", !.msg = m]]
  /\ UNCHANGED <<now, database, admins, commands, sent, told, failed, faults>>

FindCustomer(h) ==
  /\ handlers[h].pc = "customer"
  /\ Goto(h, IF Sender(h) \in customers THEN "conversation" ELSE "insert_customer")
  /\ UNCHANGED <<now, database, admins, world>>

\* UNIQUE(remote_jid, organization_id): of two first messages of a customer
\* handled at once, the second INSERT throws and its message is lost.
InsertCustomer(h) ==
  /\ handlers[h].pc = "insert_customer"
  /\ IF Sender(h) \in customers
     THEN /\ Finish(h)
          /\ failed' = failed \cup {handlers[h].msg}
          /\ UNCHANGED customers
     ELSE /\ customers' = customers \cup {Sender(h)}
          /\ Goto(h, "conversation")
          /\ UNCHANGED failed
  /\ UNCHANGED <<now, convs, inbound, orders, admins, delivered, commands, sent, told, faults>>

\* findActiveConversation, and what to do with the row it returns.
FindConversation(h) ==
  /\ handlers[h].pc = "conversation"
  /\ \/ /\ LatestActive(Sender(h)) = {}
        /\ Goto(h, "create")
     \/ \E k \in LatestActive(Sender(h)) :
          handlers' = [handlers EXCEPT ![h].conv = k,
                                       ![h].pc = IF Expired(k) THEN "close" ELSE "touch"]
  /\ UNCHANGED <<now, database, admins, world>>

CloseConversation(h) ==
  /\ handlers[h].pc = "close"
  /\ convs' = [convs EXCEPT ![handlers[h].conv].active = FALSE]
  /\ Goto(h, "create")
  /\ UNCHANGED <<now, customers, inbound, orders, admins, world>>

\* UPDATE ... SET last_message_at: a row closed meanwhile stays closed.
TouchConversation(h) ==
  /\ handlers[h].pc = "touch"
  /\ convs' = [convs EXCEPT ![handlers[h].conv].last = now]
  /\ Goto(h, "store")
  /\ UNCHANGED <<now, customers, inbound, orders, admins, world>>

\* randomUUID() names a new row.
CreateConversation(h) ==
  /\ handlers[h].pc = "create"
  /\ LET k == Cardinality(DOMAIN convs) + 1 IN
       /\ convs' = Put(convs, k, [customer |-> Sender(h), active |-> TRUE, last |-> now])
       /\ handlers' = [handlers EXCEPT ![h].conv = k, ![h].pc = "store"]
  /\ UNCHANGED <<now, customers, inbound, orders, admins, world>>

\* createMessage(inbound): a duplicate that raced throws here.
StoreInbound(h) ==
  /\ handlers[h].pc = "store"
  /\ IF Stored(handlers[h].msg)
     THEN Finish(h) /\ UNCHANGED inbound
     ELSE /\ inbound' = Put(inbound, handlers[h].msg, handlers[h].conv)
          /\ Goto(h, "settle")
  /\ UNCHANGED <<now, customers, convs, orders, admins, world>>

\* A question about an appointment is waiting and the message settles it: a
\* fixed answer is sent, unless the UPDATE throws.  If not, on to the assistant.
SettleQuestion(h) ==
  /\ handlers[h].pc = "settle"
  /\ \/ Goto(h, "ask") /\ UNCHANGED failed
     \/ Goto(h, "send") /\ UNCHANGED failed
     \/ Finish(h) /\ failed' = failed \cup {handlers[h].msg}
  /\ UNCHANGED <<now, database, admins, delivered, commands, sent, told, faults>>

\* Mutant: a failing assistant ends the handler.
AskOrGiveUp(h) ==
  /\ handlers[h].pc = "ask"
  /\ \/ Goto(h, "save")
     \/ Finish(h)
  /\ UNCHANGED <<now, database, admins, world>>

\* aiService.ask returns a text whatever happens, with or without tags.
AskAssistant(h) ==
  /\ handlers[h].pc = "ask"
  /\ \E tags \in Tags :
       handlers' = [handlers EXCEPT ![h].tags = tags, ![h].pc = "save"]
  /\ UNCHANGED <<now, database, admins, world>>

AfterOrder(h) == IF "booking" \in handlers[h].tags THEN "book" ELSE "send"

SaveAnswer(h) ==
  /\ handlers[h].pc = "save"
  /\ Goto(h, IF "order" \in handlers[h].tags THEN "order" ELSE AfterOrder(h))
  /\ UNCHANGED <<now, database, admins, world>>

\* createServiceRequest: two orders of one millisecond have the same key.
CreateServiceRequest(h) ==
  /\ handlers[h].pc = "order"
  /\ \E ms \in Millis :
       LET i == [at |-> now, ms |-> ms] IN
       IF i \in DOMAIN orders
       THEN /\ Finish(h)
            /\ failed' = failed \cup {handlers[h].msg}
            /\ UNCHANGED orders
       ELSE /\ orders' = Put(orders, i, [msg |-> handlers[h].msg, customer |-> Sender(h),
                                         org |-> OrgOf[Sender(h)], status |-> "pending"])
            /\ Goto(h, AfterOrder(h))
            /\ UNCHANGED failed
  /\ UNCHANGED <<now, customers, convs, inbound, admins, delivered, commands, sent, told, faults>>

\* The appointment is booked, or refused with an apology for an answer; a
\* service id that is not in the catalogue ends the handler without a word.
BookAppointment(h) ==
  /\ handlers[h].pc = "book"
  /\ \/ Goto(h, "send") /\ UNCHANGED failed
     \/ Finish(h) /\ failed' = failed \cup {handlers[h].msg}
  /\ UNCHANGED <<now, database, admins, delivered, commands, sent, told, faults>>

\* The text in hand goes out: the assistant's, the fixed one, or the apology.
SendAnswer(h) ==
  /\ handlers[h].pc = "send"
  /\ sent' = [sent EXCEPT ![handlers[h].msg] = @ + 1]
  /\ Finish(h)
  /\ UNCHANGED <<now, database, admins, delivered, commands, told, failed, faults>>

\* _sendWhatsApp logs the error and returns.
SendAnswerFails(h) ==
  /\ handlers[h].pc = "send"
  /\ faults < MaxFaults
  /\ faults' = faults + 1
  /\ failed' = failed \cup {handlers[h].msg}
  /\ Finish(h)
  /\ UNCHANGED <<now, database, admins, delivered, commands, sent, told>>

HandlerStep(h) ==
  \/ FindCustomer(h) \/ InsertCustomer(h) \/ FindConversation(h)
  \/ CloseConversation(h) \/ TouchConversation(h) \/ CreateConversation(h)
  \/ StoreInbound(h) \/ SettleQuestion(h) \/ AskAssistant(h) \/ SaveAnswer(h)
  \/ CreateServiceRequest(h) \/ BookAppointment(h) \/ SendAnswer(h) \/ SendAnswerFails(h)

-----------------------------------------------------------------------------
(* Commands of the admin group: .saiu, .pronto and .cancelou.              *)

\* findServiceRequestById: the id itself, or else the latest id it ends.
Found(key) ==
  IF key \in DOMAIN orders THEN {key}
  ELSE LET ending == {i \in DOMAIN orders : i.ms = key} IN
       {i \in ending : \A j \in ending : j.at <= i.at}

\* The command arrives through the instance of org and looks its order up;
\* the row's organization is not compared.  If there is none, reading the
\* undeclared org throws.
AdminCommand(a, org, key, status) ==
  /\ admins[a].pc = "idle"
  /\ commands < MaxCommands
  /\ commands' = commands + 1
  /\ admins' = IF Found(key) = {} THEN admins
               ELSE [admins EXCEPT ![a] =
                       [pc |-> "update", org |-> org, status |-> status,
                        order |-> CHOOSE i \in Found(key) : TRUE]]
  /\ UNCHANGED <<now, database, handlers, delivered, sent, told, failed, faults>>

UpdateServiceRequest(a) ==
  /\ admins[a].pc = "update"
  /\ orders' = [orders EXCEPT ![admins[a].order].status = admins[a].status]
  /\ admins' = [admins EXCEPT ![a].pc = "notify"]
  /\ UNCHANGED <<now, customers, convs, inbound, handlers, world>>

\* The customer is told; confirming to the group then throws.
NotifyCustomer(a) ==
  /\ admins[a].pc = "notify"
  /\ told' = [told EXCEPT ![admins[a].order] = @ \cup {admins[a].status}]
  /\ admins' = [admins EXCEPT ![a] = AdminIdle]
  /\ UNCHANGED <<now, database, handlers, delivered, commands, sent, failed, faults>>

\* _sendWhatsApp logs the error; the order stays as it was set.
NotifyFails(a) ==
  /\ admins[a].pc = "notify"
  /\ faults < MaxFaults
  /\ faults' = faults + 1
  /\ admins' = [admins EXCEPT ![a] = AdminIdle]
  /\ UNCHANGED <<now, database, handlers, delivered, commands, sent, told, failed>>

AdminStep(a) == UpdateServiceRequest(a) \/ NotifyCustomer(a) \/ NotifyFails(a)

-----------------------------------------------------------------------------
\* closeExpiredConversations, every five minutes.
CloseExpiredConversations ==
  /\ \E k \in DOMAIN convs : convs[k].active /\ Expired(k)
  /\ convs' = [k \in DOMAIN convs |->
                 [convs[k] EXCEPT !.active = @ /\ ~Expired(k)]]
  /\ UNCHANGED <<now, customers, inbound, orders, handlers, admins, world>>

Advance ==
  /\ now < Horizon
  /\ now' = now + 1
  /\ UNCHANGED <<database, handlers, admins, world>>

\* The bot is restarted: calls in progress are forgotten.
Restart ==
  /\ faults < MaxFaults
  /\ faults' = faults + 1
  /\ failed' = failed \cup {handlers[h].msg : h \in {g \in Handlers : handlers[g].pc # "idle"}}
  /\ handlers' = [h \in Handlers |-> HandlerIdle]
  /\ admins' = [a \in Admins |-> AdminIdle]
  /\ UNCHANGED <<now, database, delivered, commands, sent, told>>

Next ==
  \/ \E h \in Handlers : HandlerStep(h) \/ \E m \in Messages : Deliver(h, m)
  \/ \E a \in Admins :
       \/ AdminStep(a)
       \/ \E org \in Orgs, key \in DOMAIN orders \cup Millis, status \in NewStatuses :
            AdminCommand(a, org, key, status)
  \/ CloseExpiredConversations
  \/ Advance
  \/ Restart

Spec == Init /\ [][Next]_vars

-----------------------------------------------------------------------------
(* A message is answered at most once and makes at most one order, of its   *)
(* sender, however often and however close together the webhook delivers it.*)
AnsweredOnce ==
  /\ \A m \in Messages : sent[m] <= 1
  /\ \A i, j \in DOMAIN orders :
       /\ orders[i].msg = orders[j].msg => i = j
       /\ orders[i].customer = SenderOf[orders[i].msg]

(* A delivered message that no handler is working on was answered, or its   *)
(* handler threw (the race for a new customer or an order key, the UPDATE   *)
(* of a cancellation), met an unknown service, died, or could not send.  A  *)
(* duplicate that is turned away never takes the answer with it.  And the   *)
(* customer of an order is told every status the order is given, or a       *)
(* command still will, or the bot died or could not send in between.        *)
AnsweredUnlessFailed ==
  /\ \A m \in Messages :
       delivered[m] > 0 /\ (\A h \in Handlers : handlers[h].msg # m)
         => sent[m] = 1 \/ m \in failed
  /\ \A i \in DOMAIN orders :
       orders[i].status = "pending" \/ orders[i].status \in told[i] \/ faults > 0
         \/ \E a \in Admins : /\ admins[a].pc = "notify"
                              /\ admins[a].order = i
                              /\ admins[a].status = orders[i].status

(* A command moves only orders of the organization it was given to.         *)
CommandsStayInTenant ==
  [][\A i \in DOMAIN orders :
       orders'[i].status # orders[i].status =>
         \E a \in Admins : admins[a].order = i /\ admins[a].org = orders[i].org]_vars
=============================================================================
