----------------------------- MODULE CloudChannels -----------------------------
(***************************************************************************)
(* One instance of the Meta channel (whatsapp.business.service.ts) or of   *)
(* the Evolution channel (evolution.channel.service.ts).  What the         *)
(* provider reports arrives as webhooks, which nobody awaits: all of them  *)
(* are handled at once and share the field phoneNumber of the instance.    *)
(* Requests of the API send beside them.  Each action is what one handler  *)
(* does between two awaits.                                                *)
(***************************************************************************)
EXTENDS Integers, FiniteSets, Sequences

CONSTANTS
  Contacts, Messages,
  Handlers,          \* webhooks handled at once
  MaxDisturbances,   \* bound: repeated webhooks, failures, restarts
  None

VARIABLES
  channel,           \* the integration of the instance
  s3,                \* is media stored in S3?
  sent,              \* each message at the provider
  phoneNumber,       \* this.phoneNumber: the contact of the last webhook
  handlers,
  rows,              \* rows[m]: of Message
  told,              \* told[m]: times subscribers and bots were told
  filed,             \* filed[m]: whose remoteJid rows, events and updates of m bear
  statuses,          \* statuses[m]: [reported, recorded], recorded as MessageUpdate
  contact, chat,     \* contacts with a row of Contact, of Chat
  disturbances,
  marks              \* marks[m]: what has happened that properties except

fixed == <<channel, s3>>
store == <<rows, told, filed, statuses, contact, chat>>
vars == <<fixed, sent, phoneNumber, handlers, store, disturbances, marks>>

-----------------------------------------------------------------------------
Unsent == [with |-> None, own |-> FALSE, kind |-> "text"]
Idle == [pc |-> "idle", msg |-> None, items |-> <<>>, jid |-> None]
Pcs == {"idle", "connect", "settings", "media", "tell", "bots", "contact", "create_contact",
        "chat", "status", "upload", "send", "save"}
Marks == {"behind", "twice", "overtaken", "mixed", "early", "cut"}

TypeOK ==
  /\ channel \in {"meta", "evolution"} /\ s3 \in BOOLEAN
  /\ sent \in [Messages -> [with : Contacts \cup {None}, own : BOOLEAN,
                         kind : {"text", "media", "other"}]]
  /\ phoneNumber \in Contacts \cup {None}
  /\ \A h \in Handlers :
       /\ handlers[h].pc \in Pcs
       /\ handlers[h].msg \in Messages \cup {None}
       /\ handlers[h].items \in Seq(Messages)
       /\ handlers[h].jid \in Contacts \cup {None}
  /\ rows \in [Messages -> Nat] /\ told \in [Messages -> Nat]
  /\ filed \in [Messages -> SUBSET (Contacts \cup {None})]
  /\ statuses \in [Messages -> [reported : 0..1, recorded : 0..1]]
  /\ contact \subseteq Contacts /\ chat \subseteq contact
  /\ disturbances \in 0..MaxDisturbances
  /\ marks \in [Messages -> SUBSET Marks]

Init ==
  /\ channel \in {"meta", "evolution"} /\ s3 \in BOOLEAN
  /\ sent = [m \in Messages |-> Unsent]
  /\ phoneNumber = None
  /\ handlers = [h \in Handlers |-> Idle]
  /\ rows = [m \in Messages |-> 0] /\ told = [m \in Messages |-> 0]
  /\ filed = [m \in Messages |-> {}]
  /\ statuses = [m \in Messages |-> [reported |-> 0, recorded |-> 0]]
  /\ contact = {} /\ chat = {}
  /\ disturbances = 0
  /\ marks = [m \in Messages |-> {}]

Meta == channel = "meta"
At(h, label) == handlers[h].pc = label
Msg(h) == handlers[h].msg
Goto(h, label) == handlers' = [handlers EXCEPT ![h].pc = label]
Return(h) == handlers' = [handlers EXCEPT ![h] = Idle]
Disturb == disturbances < MaxDisturbances /\ disturbances' = disturbances + 1
Mark(ms, mark) ==
  marks' = [m \in Messages |-> IF m \in ms THEN marks[m] \cup {mark} ELSE marks[m]]
File(m, jid) == filed' = [filed EXCEPT ![m] = @ \cup {jid}]

-----------------------------------------------------------------------------
(* Webhooks.                                                               *)

Enters(h, m, items) ==
  /\ handlers[h] = Idle
  /\ handlers' = [handlers EXCEPT ![h] = [Idle EXCEPT !.pc = "connect", !.msg = m, !.items = items]]

\* A contact writes; the controller has found the instance by its number.
Receive(h, m) ==
  /\ sent[m] = Unsent
  /\ \E c \in Contacts, k \in {"text", "media", "other"} :
       sent' = [sent EXCEPT ![m] = [with |-> c, own |-> FALSE, kind |-> k]]
  /\ Enters(h, m, <<>>)
  /\ UNCHANGED <<fixed, phoneNumber, store, disturbances, marks>>

\* A webhook with two entries: connectToWhatsapp is called for each with all
\* of the data and looks at entry[0].
ReceiveTwo(h, g, m, n) ==
  /\ Meta /\ h # g /\ m # n
  /\ handlers[h] = Idle /\ handlers[g] = Idle
  /\ sent[m] = Unsent /\ sent[n] = Unsent
  /\ \E c, d \in Contacts :
       sent' = [sent EXCEPT ![m].with = c, ![n].with = d]
  /\ handlers' = [k \in Handlers |-> IF k \in {h, g}
                    THEN [Idle EXCEPT !.pc = "connect", !.msg = m] ELSE handlers[k]]
  /\ marks' = [marks EXCEPT ![m] = @ \cup {"twice"}, ![n] = @ \cup {"behind"}]
  /\ UNCHANGED <<fixed, phoneNumber, store, disturbances>>

\* The provider repeats a webhook.
ReceiveAgain(h, m) ==
  /\ Disturb
  /\ sent[m].with # None /\ ~sent[m].own
  /\ Enters(h, m, <<>>)
  /\ Mark({m}, "twice")
  /\ UNCHANGED <<fixed, sent, phoneNumber, store>>

\* Statuses of messages the instance has sent, of one contact or of several.
ReceiveStatuses(h, items) ==
  /\ Meta
  /\ \A n \in DOMAIN items : sent[items[n]].own /\ statuses[items[n]].reported = 0
  /\ Enters(h, None, items)
  /\ statuses' = [m \in Messages |-> IF \E n \in DOMAIN items : items[n] = m
                    THEN [statuses[m] EXCEPT !.reported = 1] ELSE statuses[m]]
  /\ Mark({m \in Messages : \E n \in DOMAIN items : items[n] = m /\ sent[m].with # sent[items[1]].with},
          "mixed")
  /\ UNCHANGED <<fixed, sent, phoneNumber, rows, told, filed, contact, chat, disturbances>>

\* Handlers that have read phoneNumber late, or read it again for each status.
Items(h) == {handlers[h].items[n] : n \in DOMAIN handlers[h].items}
Reading(h) == IF At(h, "settings") \/ At(h, "status") THEN {Msg(h)} \cup Items(h) ELSE {}
Subject(h) == IF Msg(h) # None THEN Msg(h) ELSE handlers[h].items[1]

\* Mutant: only messages set phoneNumber.
ConnectForMessages(h) ==
  /\ Meta /\ At(h, "connect")
  /\ phoneNumber' = IF Msg(h) # None THEN sent[Msg(h)].with ELSE phoneNumber
  /\ Mark(UNION {Reading(g) : g \in Handlers \ {h}}, "overtaken")
  /\ Goto(h, "settings")
  /\ UNCHANGED <<fixed, sent, store, disturbances>>

\* connectToWhatsapp: eventHandler is started and awaits findSettings, then
\* phoneNumber is set.
Connect(h) ==
  /\ Meta /\ At(h, "connect")
  /\ phoneNumber' = sent[Subject(h)].with
  /\ Mark(UNION {Reading(g) : g \in Handlers \ {h}}, "overtaken")
  /\ Goto(h, "settings")
  /\ UNCHANGED <<fixed, sent, store, disturbances>>

\* eventHandler knows the types it lets through.
Recognised(m) == m = None \/ sent[m].kind # "other"
Media(m) == sent[m].kind = "media"

\* messageHandle begins: the key takes its remoteJid from phoneNumber.
MessageHandle(h) ==
  /\ Meta /\ At(h, "settings")
  /\ IF Recognised(Msg(h))
     THEN handlers' = [handlers EXCEPT ![h].jid = phoneNumber,
                         ![h].pc = IF Msg(h) = None THEN "status"
                                   ELSE IF Media(Msg(h)) /\ s3 THEN "media" ELSE "tell"]
     ELSE Return(h)
  /\ UNCHANGED <<fixed, sent, phoneNumber, store, disturbances, marks>>

\* Media goes to S3 and gets its row before anybody is told; an error is
\* logged and the message goes on without a row.
StoreMedia(h) ==
  /\ At(h, "media")
  /\ \/ /\ rows' = [rows EXCEPT ![Msg(h)] = @ + 1]
        /\ File(Msg(h), handlers[h].jid)
        /\ UNCHANGED <<disturbances, marks>>
     \/ Disturb /\ Mark({Msg(h)}, "cut") /\ UNCHANGED <<rows, filed>>
  /\ Goto(h, "tell")
  /\ UNCHANGED <<fixed, sent, phoneNumber, told, statuses, contact, chat>>

\* sendDataWebhook and chatbotController.emit, then the Chatwoot bridge.
Tell(h) ==
  /\ At(h, "tell")
  /\ told' = [told EXCEPT ![Msg(h)] = @ + 1]
  /\ File(Msg(h), handlers[h].jid)
  /\ Goto(h, "bots")
  /\ UNCHANGED <<fixed, sent, phoneNumber, rows, statuses, contact, chat, disturbances, marks>>

\* eventHandler of the Evolution channel, which takes the remoteJid from the
\* webhook.
EvolutionHandler(h) ==
  /\ ~Meta /\ At(h, "connect")
  /\ handlers' = [handlers EXCEPT ![h].jid = sent[Msg(h)].with, ![h].pc = "tell"]
  /\ UNCHANGED <<fixed, sent, phoneNumber, store, disturbances, marks>>

\* Mutant: media gets a row here too.
StoreEverything(h) ==
  /\ At(h, "bots")
  /\ \/ /\ rows' = [rows EXCEPT ![Msg(h)] = @ + 1]
        /\ IF Meta THEN Return(h) ELSE Goto(h, "contact")
        /\ UNCHANGED <<disturbances, marks>>
     \/ Disturb /\ Mark({Msg(h)}, "cut") /\ Return(h) /\ UNCHANGED rows
  /\ UNCHANGED <<fixed, sent, phoneNumber, told, filed, statuses, contact, chat>>

\* message.create, in the Meta channel not of media.  Its contacts are looked
\* up, but contacts[0].profile.phone is no field of the webhook: the create
\* that follows is rejected and nobody awaits it.
StoreMessage(h) ==
  /\ At(h, "bots")
  /\ \/ /\ rows' = IF Meta /\ Media(Msg(h)) THEN rows ELSE [rows EXCEPT ![Msg(h)] = @ + 1]
        /\ IF Meta THEN Return(h) ELSE Goto(h, "contact")
        /\ UNCHANGED <<disturbances, marks>>
     \/ Disturb /\ Mark({Msg(h)}, "cut") /\ Return(h) /\ UNCHANGED rows
  /\ UNCHANGED <<fixed, sent, phoneNumber, told, filed, statuses, contact, chat>>

-----------------------------------------------------------------------------
(* updateContact of the Evolution channel.                                 *)

FindContact(h) ==
  /\ At(h, "contact")
  /\ Goto(h, IF handlers[h].jid \in contact THEN "chat" ELSE "create_contact")
  /\ UNCHANGED <<fixed, sent, phoneNumber, store, disturbances, marks>>

\* UNIQUE(remoteJid, instanceId): whoever comes second fails.
CreateContact(h) ==
  /\ At(h, "create_contact")
  /\ contact' = contact \cup {handlers[h].jid}
  /\ IF handlers[h].jid \in contact THEN Return(h) ELSE Goto(h, "chat")
  /\ UNCHANGED <<fixed, sent, phoneNumber, rows, told, filed, statuses, chat, disturbances, marks>>

\* A chat that is there is updated, to what it is; chat.create follows either
\* way and fails if it is there: UNIQUE(instanceId, remoteJid).
CreateChat(h) ==
  /\ At(h, "chat")
  /\ \/ /\ chat' = chat \cup {handlers[h].jid}
        /\ UNCHANGED <<disturbances, marks>>
     \/ /\ Disturb /\ Mark({Msg(h)}, "cut")
        /\ UNCHANGED chat
  /\ Return(h)
  /\ UNCHANGED <<fixed, sent, phoneNumber, rows, told, filed, statuses, contact>>

-----------------------------------------------------------------------------
(* Statuses of the Meta channel, one after the other.                      *)

Item(h) == Head(handlers[h].items)

\* A message without a row ends the batch; so does a webhookUrl that fails,
\* after its own status was recorded.
Status(h) ==
  /\ At(h, "status")
  /\ IF handlers[h].items = <<>>
     THEN Return(h) /\ UNCHANGED <<filed, statuses, disturbances, marks>>
     ELSE IF rows[Item(h)] = 0
     THEN /\ Mark(Items(h), "early")
          /\ Return(h)
          /\ UNCHANGED <<filed, statuses, disturbances>>
     ELSE /\ statuses' = [statuses EXCEPT ![Item(h)].recorded = 1]
          /\ File(Item(h), phoneNumber)
          /\ \/ /\ handlers' = [handlers EXCEPT ![h].items = Tail(@)]
                /\ UNCHANGED <<disturbances, marks>>
             \/ /\ Disturb /\ Mark(Items(h), "cut")
                /\ Return(h)
  /\ UNCHANGED <<fixed, sent, phoneNumber, rows, told, contact, chat>>

-----------------------------------------------------------------------------
(* sendMessageWithTyping.                                                  *)

Sends(h, m, label) ==
  /\ sent[m] = Unsent
  /\ handlers[h] = Idle
  /\ \E c \in Contacts, k \in {"text", "media"} :
       /\ sent' = [sent EXCEPT ![m] = [with |-> c, own |-> TRUE, kind |-> k]]
       /\ handlers' = [handlers EXCEPT ![h] = [Idle EXCEPT !.pc = label, !.msg = m, !.jid = c]]
  /\ UNCHANGED <<fixed, phoneNumber, store, disturbances, marks>>

\* The message is posted to the Graph API in its form; an error of the API is
\* returned and nothing more happens.
GraphSend(h, m) == Meta /\ Sends(h, m, "send")

\* The Evolution channel gives the message an id of its own.
EvolutionSend(h, m) == ~Meta /\ Sends(h, m, "upload")

\* Media goes to S3; an error is logged.
Upload(h) ==
  /\ At(h, "upload")
  /\ Goto(h, "send")
  /\ UNCHANGED <<fixed, sent, phoneNumber, store, disturbances, marks>>

\* The event SEND_MESSAGE, the bridge or, for an integration, the bots.
TellSent(h) ==
  /\ At(h, "send")
  /\ told' = [told EXCEPT ![Msg(h)] = @ + 1]
  /\ Goto(h, "save")
  /\ UNCHANGED <<fixed, sent, phoneNumber, rows, filed, statuses, contact, chat, disturbances, marks>>

StoreSent(h) ==
  /\ At(h, "save")
  /\ \/ /\ rows' = [rows EXCEPT ![Msg(h)] = @ + 1]
        /\ File(Msg(h), handlers[h].jid)
        /\ UNCHANGED <<disturbances, marks>>
     \/ Disturb /\ Mark({Msg(h)}, "cut") /\ UNCHANGED <<rows, filed>>
  /\ Return(h)
  /\ UNCHANGED <<fixed, sent, phoneNumber, told, statuses, contact, chat>>

\* Handlers in progress and phoneNumber are lost; the provider has its answer.
Restart ==
  /\ Disturb
  /\ \E h \in Handlers : handlers[h] # Idle
  /\ Mark(UNION {{Msg(h)} \cup Items(h) : h \in Handlers}, "cut")
  /\ handlers' = [h \in Handlers |-> Idle]
  /\ phoneNumber' = None
  /\ UNCHANGED <<fixed, sent, store>>

Batches == {<<m>> : m \in Messages} \cup {s \in Messages \X Messages : s[1] # s[2]}

Next ==
  \/ \E h \in Handlers :
       \/ Connect(h) \/ MessageHandle(h) \/ StoreMedia(h) \/ Tell(h) \/ EvolutionHandler(h)
       \/ StoreMessage(h) \/ FindContact(h) \/ CreateContact(h) \/ CreateChat(h)
       \/ Status(h) \/ Upload(h) \/ TellSent(h) \/ StoreSent(h)
       \/ \E m \in Messages : Receive(h, m) \/ ReceiveAgain(h, m)
                             \/ GraphSend(h, m) \/ EvolutionSend(h, m)
       \/ \E g \in Handlers, m, n \in Messages : ReceiveTwo(h, g, m, n)
       \/ \E items \in Batches : ReceiveStatuses(h, items)
  \/ Restart

Spec == Init /\ [][Next]_vars

-----------------------------------------------------------------------------
AtRest(m) == \A h \in Handlers : Msg(h) # m /\ m \notin Items(h)

(* Whatever is stored or told of a message names the contact it was         *)
(* exchanged with, as long as no other webhook came between its own and its *)
(* handling and its statuses were not batched with another contact's.  And  *)
(* a contact of the Evolution channel that has written has its row and its  *)
(* chat when nothing is under way, also if two of its messages met.         *)
FiledUnderContact ==
  \A m \in Messages :
    /\ marks[m] \cap {"overtaken", "mixed"} = {} => filed[m] \subseteq {sent[m].with}
    /\ ~Meta /\ sent[m].with # None /\ ~sent[m].own
         /\ (\A n \in Messages : AtRest(n) /\ "cut" \notin marks[n]) =>
            sent[m].with \in contact \cap chat

(* When nothing is under way every message of a known type was told once    *)
(* and has one row: except media without S3, what shares a webhook with     *)
(* another entry, what the provider repeats and what failed.  Its statuses  *)
(* are recorded, unless one before it in the batch came before its row.     *)
OnceAndStored ==
  \A m \in Messages :
    /\ AtRest(m) /\ marks[m] \cap {"early", "cut"} = {} =>
         statuses[m].recorded = statuses[m].reported
    /\ sent[m].with # None /\ AtRest(m) /\ marks[m] \cap {"behind", "twice", "cut"} = {} =>
         IF Meta /\ ~Recognised(m) THEN told[m] = 0 /\ rows[m] = 0
         ELSE /\ told[m] = 1
              /\ rows[m] = IF Meta /\ Media(m) /\ ~sent[m].own /\ ~s3 THEN 0 ELSE 1
=============================================================================
