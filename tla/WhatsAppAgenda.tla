---------------------------- MODULE WhatsAppAgenda ----------------------------
(***************************************************************************)
(* The part of WebhookHandler.handle that touches the agenda: the customer *)
(* of an incoming WhatsApp message is found or created, a question that is *)
(* waiting for the customer's yes or no is looked up, and the message then *)
(* cancels it, confirms it, or goes to the assistant, whose answer may     *)
(* carry an appointment.  Handlers of different messages run interleaved.  *)
(* Conversations and stored messages are modelled in BotConversation.      *)
(***************************************************************************)
EXTENDS AppointmentStore

CONSTANTS
  Handlers,          \* webhook calls that may be in progress at once
  ReplyTTL,          \* how long an answer counts: one hour
  NoMessage,         \* the message of an idle handler
  NoRow              \* no pending appointment

ASSUME ReplyAssumption == ReplyTTL \in Nat /\ NoRow \notin AptIds

VARIABLE
  handlers           \* handlers[h]: progress of webhook call h

HandlerStates ==
  {"idle", "insert_customer", "pending", "cancel", "confirm", "ask"}

\* What the keyword lists find in the text: neither, one, or both.
Tones == SUBSET {"positive", "negative"}

Messages == [phone : Phones, org : Orgs, tone : Tones]

HandlerTypeOK ==
  handlers \in [Handlers -> [pc : HandlerStates,
                             msg : Messages \cup {NoMessage},
                             apt : AptIds \cup {NoRow}]]

Quiet == [pc |-> "idle", msg |-> NoMessage, apt |-> NoRow]

HandlerInit == handlers = [h \in Handlers |-> Quiet]

-----------------------------------------------------------------------------
Sender(h) == CustomerRow(WhatsAppJid(handlers[h].msg.phone), handlers[h].msg.org)

\* Mutant: the SELECT of the pending question forgets the customer.
PendingOfAnyone(c) ==
  {i \in DOMAIN appts :
     /\ appts[i].confirmationSentAt # NoTime
     /\ appts[i].confirmationSentAt + ReplyTTL > now
     /\ appts[i].confirmedAt = NoTime
     /\ appts[i].status = "agendado"}

\* Mutant: any upcoming appointment of the customer takes the answer.
PendingAskedOrNot(c) ==
  {i \in DOMAIN appts :
     appts[i].customer = c /\ appts[i].status = "agendado"}

\* SELECT ... WHERE customer_id = $1 AND confirmation_sent_at > $2
\*   AND confirmed_at IS NULL AND status = 'agendado'
PendingApts(c) ==
  {i \in DOMAIN appts :
     /\ appts[i].customer = c
     /\ appts[i].confirmationSentAt # NoTime
     /\ appts[i].confirmationSentAt + ReplyTTL > now
     /\ appts[i].confirmedAt = NoTime
     /\ appts[i].status = "agendado"}

\* ORDER BY start_time ASC LIMIT 1
FirstPending(c) ==
  {i \in PendingApts(c) : \A j \in PendingApts(c) : appts[i].start <= appts[j].start}

Step(h, label) == handlers' = [handlers EXCEPT ![h].pc = label]

\* The handler returns or throws.
Finish(h) == handlers' = [handlers EXCEPT ![h] = Quiet]

-----------------------------------------------------------------------------
\* A message from a person arrives; its sender is looked up.
HandleMessage(h) ==
  /\ handlers[h].pc = "idle"
  /\ \E m \in Messages :
       handlers' = [handlers EXCEPT ![h] =
         [pc |-> IF CustomerFound(WhatsAppJid(m.phone), m.org)
                 THEN "pending" ELSE "insert_customer",
          msg |-> m, apt |-> NoRow]]
  /\ UNCHANGED storeVars

\* A second call that races on the same new customer breaks the UNIQUE key:
\* handle throws, and the message is neither stored nor answered.
WaInsertCustomer(h) ==
  /\ handlers[h].pc = "insert_customer"
  /\ \/ /\ InsertCustomer(Sender(h))
        /\ Step(h, "pending")
     \/ /\ Sender(h) \in customers
        /\ Finish(h)
        /\ UNCHANGED customers
  /\ UNCHANGED <<now, vehicles, appts>>

\* A "no" is looked for before a "yes"; without either the assistant answers.
Verdict(tone) ==
  IF "negative" \in tone THEN "cancel"
  ELSE IF "positive" \in tone THEN "confirm" ELSE "ask"

\* pendingApts is read once, and what is done about it comes later.
ReadPending(h) ==
  /\ handlers[h].pc = "pending"
  /\ \/ \E i \in FirstPending(Sender(h)) :
          handlers' = [handlers EXCEPT ![h] =
            [pc |-> Verdict(@.msg.tone), msg |-> @.msg,
             apt |-> IF @.msg.tone = {} THEN NoRow ELSE i]]
     \/ /\ PendingApts(Sender(h)) = {}
        /\ Step(h, "ask")
  /\ UNCHANGED storeVars

\* updateAppointmentStatus(apt.id, org.id, 'cancelado'), or it throws and
\* the customer hears nothing.
CancelAppointment(h) ==
  /\ handlers[h].pc = "cancel"
  /\ IF CanUpdateStatus
     THEN appts' = [appts EXCEPT ![handlers[h].apt] = Cancelled(@)]
     ELSE UNCHANGED appts
  /\ Finish(h)
  /\ UNCHANGED <<now, customers, vehicles>>

\* UPDATE appointments SET status = 'confirmado', confirmed_at = NOW()
\* WHERE id = $2: the status is not looked at again, only no_overlap is.
ConfirmAppointment(h) ==
  /\ handlers[h].pc = "confirm"
  /\ LET i == handlers[h].apt IN
     IF FitsAgenda(i, Confirmed(appts[i]))
     THEN appts' = [appts EXCEPT ![i] = Confirmed(@)]
     ELSE UNCHANGED appts
  /\ Finish(h)
  /\ UNCHANGED <<now, customers, vehicles>>

\* The assistant's answer carries no appointment, or one whose service id is
\* not in the catalogue: then the handler ends without a word.
AnswerOnly(h) ==
  /\ handlers[h].pc = "ask"
  /\ Finish(h)
  /\ UNCHANGED storeVars

\* createAppointment with duration and buffer, and without a vehicle.  The
\* customer of a refused INSERT is told to choose or to try again.
BookAppointment(h) ==
  /\ handlers[h].pc = "ask"
  /\ \E s \in Services, start \in Starts, ms \in Millis :
       LET o == handlers[h].msg.org
           id == [at |-> now, ms |-> ms]
           a == NewAppointment(Sender(h), o, s, NoVehicle,
                               start, start + Duration[s] + Buffer[s])
       IN /\ InCatalogue(o, s)
          /\ IF InsertOutcome(id, a) = "ok" THEN InsertAppointment(id, a)
                                            ELSE UNCHANGED appts
  /\ Finish(h)
  /\ UNCHANGED <<now, customers, vehicles>>

HandlerStep(h) ==
  \/ HandleMessage(h) \/ WaInsertCustomer(h) \/ ReadPending(h)
  \/ CancelAppointment(h) \/ ConfirmAppointment(h)
  \/ AnswerOnly(h) \/ BookAppointment(h)
=============================================================================
