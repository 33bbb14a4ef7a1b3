---------------------------- MODULE ChatwootBridge ----------------------------
(***************************************************************************)
(* The bridge between one WhatsApp contact and Chatwoot                    *)
(* (chatwoot.service.ts, with the parts of the Baileys service and of      *)
(* chatwoot-import-helper.ts that call it).  Messages received from        *)
(* WhatsApp are bridged before their row is created, those sent through    *)
(* the API beside it; what agents write arrives as webhooks.  All of these *)
(* are calls in progress at once, and each action is what one of them does *)
(* between two awaits.  Calls under two addresses of the contact (phone    *)
(* number and LID) share its conversations but neither cache nor lock.     *)
(* Chatwoot itself is modelled from how it is used.                        *)
(***************************************************************************)
EXTENDS Integers, FiniteSets, Sequences

CONSTANTS
  Messages,
  Calls,             \* eventWhatsapp and receiveWebhook calls in progress
  ImportDb,          \* can history be imported into Chatwoot's database?
  MaxConversations,  \* bound
  MaxDisturbances,   \* bound: deletions, resolutions, expiries, failures, restarts
  None

VARIABLES
  messages,          \* each message, on either side and in the Message table
  conversations,     \* Chatwoot's, of this contact and inbox
  cache,             \* <instance>:createConversation-<address>
  lock,              \* <instance>:lock:createConversation-<address>
  calls,
  webhooks,          \* Chatwoot's webhooks on their way
  history,           \* chatwootImport.historyMessages
  importing,         \* what the imports in progress took from it
  provider,          \* reopenConversation and conversationPending
  disturbances,
  upset              \* what has happened that a property makes exception for

evolution == <<cache, lock, calls, history, importing, provider>>
vars == <<messages, conversations, evolution, webhooks, disturbances, upset>>

-----------------------------------------------------------------------------
Addresses == {"phone", "lid"}
Origins == {"contact", "phone", "api", "agent", "template"}

\* None is no message and no origin, and there is somebody to call.
ASSUME BridgeAssumption ==
  /\ None \notin Messages \cup Origins
  /\ Calls # {}
  /\ MaxConversations \in Nat
  /\ MaxDisturbances \in Nat

Unseen ==
  [origin |-> None, addr |-> "phone",
   whatsapp |-> "none",    \* none, there, deleted
   sends |-> 0,            \* times this process sent it
   shown |-> 0,            \* Chatwoot messages that show it
   gone |-> FALSE,         \* deleted in Chatwoot
   row |-> "unsaved",      \* unsaved, plain, linked (chatwootMessageId), removed, gone
   spoilt |-> FALSE]       \* a request for it failed

Idle == [pc |-> "idle", msg |-> None, conv |-> 0]

Pcs == {"idle", "cache", "wait", "lock", "contact", "list", "create", "unlock", "post",
        "store", "agent", "link", "del_row", "del_chatwoot", "import"}
Section == {"contact", "list", "create", "unlock"}

TypeOK ==
  /\ messages \in [Messages -> [origin : Origins \cup {None}, addr : Addresses,
                                whatsapp : {"none", "there", "deleted"}, sends : Nat,
                                shown : Nat, gone : BOOLEAN,
                                row : {"unsaved", "plain", "linked", "removed", "gone"},
                                spoilt : BOOLEAN]]
  /\ conversations \in Seq({"open", "pending", "resolved", "deleted"})
  /\ Len(conversations) <= MaxConversations
  /\ cache \in [Addresses -> 0..Len(conversations)]
  /\ lock \in [Addresses -> BOOLEAN]
  /\ calls \in [Calls -> [pc : Pcs, msg : Messages \cup {None}, conv : 0..Len(conversations)]]
  /\ webhooks \subseteq ([event : {"created", "deleted"}, msg : Messages]
                         \cup {[event |-> "resolved", msg |-> None]})
  /\ history \subseteq Messages
  /\ importing \in [Calls -> SUBSET Messages]
  /\ provider \in [reopen : BOOLEAN, pending : BOOLEAN]
  /\ disturbances \in 0..MaxDisturbances
  /\ upset \subseteq {"section", "crossing", "early", "import", "recreated"}

Init ==
  /\ messages = [m \in Messages |-> Unseen]
  /\ conversations = <<>>
  /\ cache = [a \in Addresses |-> 0]
  /\ lock = [a \in Addresses |-> FALSE]
  /\ calls = [c \in Calls |-> Idle]
  /\ webhooks = {}
  /\ history = {}
  /\ importing = [c \in Calls |-> {}]
  /\ provider \in [reopen : BOOLEAN, pending : BOOLEAN]
  /\ disturbances = 0
  /\ upset = {}

-----------------------------------------------------------------------------
Msg(c) == calls[c].msg
Addr(c) == messages[Msg(c)].addr
Live(k) == k \in DOMAIN conversations /\ conversations[k] # "deleted"
Unresolved == {k \in DOMAIN conversations : conversations[k] \in {"open", "pending"}}

\* fromMe: posted with message_type outgoing, so Chatwoot reports it back.
Outgoing(m) == messages[m].origin # "contact"
\* The Chatwoot message has a source_id WAID:...
Bridged(m) == messages[m].origin \in {"contact", "phone", "api"}

Goto(c, label) == calls' = [calls EXCEPT ![c].pc = label]
Return(c) == calls' = [calls EXCEPT ![c] = Idle]
Begin(c, label, m) == calls' = [calls EXCEPT ![c] = [Idle EXCEPT !.pc = label, !.msg = m]]
With(c, label, k) == calls' = [calls EXCEPT ![c].pc = label, ![c].conv = k]

Disturb == disturbances < MaxDisturbances /\ disturbances' = disturbances + 1
Spoil(m) == messages' = [messages EXCEPT ![m].spoilt = TRUE]

\* Upserts are handled one after the other, each to the end.
Upserting ==
  \E c \in Calls : calls[c].msg # None /\ messages[Msg(c)].origin \in {"contact", "phone"}
                   /\ calls[c].pc \notin {"del_row", "del_chatwoot"}

-----------------------------------------------------------------------------
(* Messages enter.                                                         *)

\* messages.upsert awaits eventWhatsapp before message.create.
Upsert(c, m) ==
  /\ calls[c].pc = "idle" /\ ~Upserting
  /\ messages[m].origin = None
  /\ \E o \in {"contact", "phone"}, a \in Addresses :
       messages' = [messages EXCEPT ![m].origin = o, ![m].addr = a, ![m].whatsapp = "there"]
  /\ Begin(c, "cache", m)
  /\ UNCHANGED <<conversations, cache, lock, history, importing, provider, webhooks, disturbances, upset>>

\* sendMessageWithTyping starts eventWhatsapp and goes on to message.create.
ApiSend(c, m) ==
  /\ calls[c].pc = "idle"
  /\ messages[m].origin = None
  /\ messages' = [messages EXCEPT ![m].origin = "api", ![m].whatsapp = "there", ![m].sends = 1]
  /\ Begin(c, "cache", m)
  /\ UNCHANGED <<conversations, cache, lock, history, importing, provider, webhooks, disturbances, upset>>

StoreSent(m) ==
  /\ messages[m].origin \in {"api", "template"}
  /\ messages[m].sends > 0 /\ messages[m].row = "unsaved"
  /\ messages' = [messages EXCEPT ![m].row = "plain"]
  /\ UNCHANGED <<conversations, evolution, webhooks, disturbances, upset>>

\* An agent, or an automation of Chatwoot (message_type template), writes.
Write(m, k) ==
  /\ messages[m].origin = None
  /\ Live(k)
  /\ \E o \in {"agent", "template"} :
       messages' = [messages EXCEPT ![m].origin = o, ![m].shown = 1]
  /\ webhooks' = webhooks \cup {[event |-> "created", msg |-> m]}
  /\ UNCHANGED <<conversations, evolution, disturbances, upset>>

-----------------------------------------------------------------------------
(* createConversation.                                                     *)

\* A cached conversation is looked up: if Chatwoot does not know it, or the
\* request fails, its key is deleted and all begins again.
LookUp(c) ==
  /\ calls[c].pc = "cache"
  /\ LET a == Addr(c) IN
       \/ /\ cache[a] # 0 /\ Live(cache[a])
          /\ With(c, "post", cache[a])
          /\ UNCHANGED <<cache, disturbances>>
       \/ /\ cache[a] # 0
          /\ IF Live(cache[a]) THEN Disturb ELSE UNCHANGED disturbances
          /\ cache' = [cache EXCEPT ![a] = 0]
          /\ UNCHANGED calls
       \/ /\ cache[a] = 0
          /\ Goto(c, IF lock[a] THEN "wait" ELSE "lock")
          /\ UNCHANGED <<cache, disturbances>>
  /\ UNCHANGED <<messages, conversations, lock, history, importing, provider, webhooks, upset>>

\* Mutant: the waiter begins at once.
DoNotWait(c) ==
  /\ calls[c].pc = "wait"
  /\ Goto(c, "contact")
  /\ UNCHANGED <<messages, conversations, cache, lock, history, importing, provider, webhooks, disturbances, upset>>

\* Polling until there is a result, or no lock, or five seconds have passed.
Wait(c) ==
  /\ calls[c].pc = "wait"
  /\ \/ lock[Addr(c)] /\ cache[Addr(c)] # 0 /\ With(c, "post", cache[Addr(c)])
     \/ Goto(c, "lock")
  /\ UNCHANGED <<messages, conversations, cache, lock, history, importing, provider, webhooks, disturbances, upset>>

\* set() after has(): nothing keeps two calls out of the section.
TakeLock(c) ==
  /\ calls[c].pc = "lock"
  /\ lock' = [lock EXCEPT ![Addr(c)] = TRUE]
  /\ IF cache[Addr(c)] # 0
     THEN With(c, "unlock", cache[Addr(c)]) /\ UNCHANGED upset
     ELSE /\ Goto(c, "contact")
          /\ upset' = IF \E d \in Calls : calls[d].pc \in Section
                      THEN upset \cup {"section"} ELSE upset
  /\ UNCHANGED <<messages, conversations, cache, history, importing, provider, webhooks, disturbances>>

\* getInbox, findContact, createContact: a contact that exists already is
\* found by its identifier.  Any error ends in null.
GetContact(c) ==
  /\ calls[c].pc = "contact"
  /\ \/ Goto(c, "list") /\ UNCHANGED <<messages, disturbances>>
     \/ Goto(c, "unlock") /\ Disturb /\ Spoil(Msg(c))
  /\ UNCHANGED <<conversations, cache, lock, history, importing, provider, webhooks, upset>>

Suitable(k) == Live(k) /\ (provider.reopen \/ k \in Unresolved)

\* contacts.listConversations, and toggleStatus of the one that is reused.
ListConversations(c) ==
  /\ calls[c].pc = "list"
  /\ \/ \E k \in DOMAIN conversations :
          /\ Suitable(k)
          /\ conversations' = IF provider.reopen /\ provider.pending /\ conversations[k] # "open"
                              THEN [conversations EXCEPT ![k] = "pending"] ELSE conversations
          /\ cache' = [cache EXCEPT ![Addr(c)] = k]
          /\ With(c, "unlock", k)
          /\ UNCHANGED <<messages, disturbances>>
     \/ /\ \A k \in DOMAIN conversations : ~Suitable(k)
        /\ Goto(c, "create")
        /\ UNCHANGED <<messages, conversations, cache, disturbances>>
     \/ /\ Disturb /\ Spoil(Msg(c))
        /\ Goto(c, "unlock")
        /\ UNCHANGED <<conversations, cache>>
  /\ UNCHANGED <<lock, history, importing, provider, webhooks, upset>>

Create(c) ==
  /\ calls[c].pc = "create"
  /\ \/ /\ Len(conversations) < MaxConversations
        /\ conversations' = Append(conversations, IF provider.pending THEN "pending" ELSE "open")
        /\ cache' = [cache EXCEPT ![Addr(c)] = Len(conversations) + 1]
        /\ With(c, "unlock", Len(conversations) + 1)
        /\ UNCHANGED <<messages, disturbances>>
     \/ /\ Disturb /\ Spoil(Msg(c))
        /\ Goto(c, "unlock")
        /\ UNCHANGED <<conversations, cache>>
  /\ UNCHANGED <<lock, history, importing, provider, webhooks, upset>>

\* finally: the lock is deleted, whoever set it last.
Unlock(c) ==
  /\ calls[c].pc = "unlock"
  /\ lock' = [lock EXCEPT ![Addr(c)] = FALSE]
  /\ Goto(c, IF calls[c].conv = 0 THEN "store" ELSE "post")
  /\ UNCHANGED <<messages, conversations, cache, history, importing, provider, webhooks, disturbances, upset>>

-----------------------------------------------------------------------------
(* The rest of eventWhatsapp and of messages.upsert.                       *)

Awaited(m) == messages[m].origin \in {"contact", "phone"}

\* createMessage, with source_id WAID:<id>: what is outgoing is reported back.
Shown(m) ==
  /\ messages' = [messages EXCEPT ![m].shown = @ + 1]
  /\ webhooks' = IF Outgoing(m) /\ Bridged(m)
                 THEN webhooks \cup {[event |-> "created", msg |-> m]} ELSE webhooks

\* sendData, for media, the same way.  Chatwoot refuses a conversation that
\* was deleted meanwhile.
Post(c) ==
  /\ calls[c].pc = "post"
  /\ LET m == Msg(c) IN
     IF Live(calls[c].conv)
     THEN \/ /\ Shown(m)
             /\ Goto(c, "store")
             /\ UNCHANGED disturbances
          \/ /\ Disturb /\ Spoil(m)
             /\ With(c, "store", 0)
             /\ UNCHANGED webhooks
     ELSE /\ Spoil(m)
          /\ With(c, "store", 0)
          /\ UNCHANGED <<webhooks, disturbances>>
  /\ UNCHANGED <<conversations, cache, lock, history, importing, provider, upset>>

\* message.create with the ids Chatwoot returned; nobody waits for the ids of
\* a message sent through the API.
Store(c) ==
  /\ calls[c].pc = "store"
  /\ messages' = IF Awaited(Msg(c))
                 THEN [messages EXCEPT ![Msg(c)].row = IF calls[c].conv = 0 THEN "plain" ELSE "linked"]
                 ELSE messages
  /\ Return(c)
  /\ UNCHANGED <<conversations, cache, lock, history, importing, provider, webhooks, disturbances, upset>>

-----------------------------------------------------------------------------
(* receiveWebhook.                                                         *)

\* message_created: the guard against echoes looks at the last message of the
\* conversation in the payload, which need not be the one the event is about.
Created(c, w) ==
  /\ calls[c].pc = "idle"
  /\ w \in webhooks /\ w.event = "created"
  /\ webhooks' = webhooks \ {w}
  /\ \E last \in {w.msg} \cup {n \in Messages : messages[n].shown > 0} :
       /\ upset' = IF Bridged(last) = Bridged(w.msg) \/ messages[w.msg].origin = "template"
                   THEN upset ELSE upset \cup {"crossing"}
       /\ IF messages[w.msg].origin # "template" /\ Bridged(last)
          THEN UNCHANGED calls ELSE Begin(c, "agent", w.msg)
  /\ UNCHANGED <<messages, conversations, cache, lock, history, importing, provider, disturbances>>

\* Mutant: textMessage(data) for the agents' messages too.
AgentSendAsApi(c) ==
  /\ calls[c].pc = "agent"
  /\ messages' = [messages EXCEPT ![Msg(c)].whatsapp = "there", ![Msg(c)].sends = @ + 1]
  /\ Goto(c, "cache")
  /\ UNCHANGED <<conversations, cache, lock, history, importing, provider, webhooks, disturbances, upset>>

\* onSendMessageError: a private note, which nothing here looks at.
NotSent(m) == Disturb /\ Spoil(m)

\* textMessage(data, true) or sendAttachment.
\* Automations use textMessage(data), which bridges the message a second time.
AgentSend(c) ==
  /\ calls[c].pc = "agent"
  /\ LET m == Msg(c) IN
       \/ /\ messages' = [messages EXCEPT ![m].whatsapp = "there", ![m].sends = @ + 1,
                            ![m].row = IF messages[m].origin = "template" \/ @ # "unsaved"
                                       THEN @ ELSE "plain"]
          /\ Goto(c, IF messages[m].origin = "template" THEN "cache" ELSE "link")
          /\ UNCHANGED disturbances
       \/ /\ NotSent(m)
          /\ Return(c)
  /\ UNCHANGED <<conversations, cache, lock, history, importing, provider, webhooks, upset>>

\* updateChatwootMessageId
Link(c) ==
  /\ calls[c].pc = "link"
  /\ messages' = [messages EXCEPT ![Msg(c)].row = IF @ = "plain" THEN "linked" ELSE @]
  /\ Return(c)
  /\ UNCHANGED <<conversations, cache, lock, history, importing, provider, webhooks, disturbances, upset>>

\* Is something on its way that will link the row of m?
Linking(m) ==
  \/ [event |-> "created", msg |-> m] \in webhooks'
  \/ \E c \in Calls : Msg(c) = m /\ (calls[c].pc \in {"agent", "link"} \/ Awaited(m))

\* message_updated, deleted: the row is found by chatwootMessageId.
Deleted(w) ==
  /\ w \in webhooks /\ w.event = "deleted"
  /\ webhooks' = webhooks \ {w}
  /\ \/ /\ messages[w.msg].row = "linked"
        /\ messages' = [messages EXCEPT ![w.msg].whatsapp = "deleted", ![w.msg].row = "removed"]
        /\ UNCHANGED <<disturbances, upset>>
     \/ /\ messages[w.msg].row = "linked"
        /\ Disturb /\ Spoil(w.msg)
        /\ UNCHANGED upset
     \/ /\ messages[w.msg].row # "linked"
        /\ upset' = IF Linking(w.msg) THEN upset \cup {"early"} ELSE upset
        /\ UNCHANGED <<messages, disturbances>>
  /\ UNCHANGED <<conversations, evolution>>

\* conversation_status_changed: the key of the contact's identifier, its phone
\* number, is deleted, unless conversations are reopened.
Resolved(w) ==
  /\ w \in webhooks /\ w.event = "resolved"
  /\ webhooks' = webhooks \ {w}
  /\ cache' = IF provider.reopen THEN cache ELSE [cache EXCEPT !["phone"] = 0]
  /\ UNCHANGED <<messages, conversations, lock, calls, history, importing, provider, disturbances, upset>>

-----------------------------------------------------------------------------
(* Deletions.                                                              *)

\* messages.update with message null, on the phone of whoever wrote it: the
\* row is looked up, first by the handler, then by eventWhatsapp.
WhatsAppDelete(c, m) ==
  /\ calls[c].pc = "idle" /\ Disturb
  /\ messages[m].whatsapp = "there"
  /\ ~Awaited(m) \/ messages[m].row # "unsaved"
  /\ messages' = [messages EXCEPT ![m].whatsapp = "deleted"]
  /\ UNCHANGED webhooks
  /\ IF messages[m].row = "linked"
     THEN Begin(c, "del_row", m) /\ UNCHANGED upset
     ELSE /\ UNCHANGED calls
          /\ upset' = IF Linking(m) THEN upset \cup {"early"} ELSE upset
  /\ UNCHANGED <<conversations, cache, lock, history, importing, provider>>

\* Mutant: only the row is deleted.
DeleteOnlyRow(c) ==
  /\ calls[c].pc = "del_row"
  /\ messages' = [messages EXCEPT ![Msg(c)].row = "removed"]
  /\ Return(c)
  /\ UNCHANGED <<conversations, cache, lock, history, importing, provider, webhooks, disturbances, upset>>

DeleteRow(c) ==
  /\ calls[c].pc = "del_row"
  /\ messages' = [messages EXCEPT ![Msg(c)].row = "removed"]
  /\ Goto(c, "del_chatwoot")
  /\ UNCHANGED <<conversations, cache, lock, history, importing, provider, webhooks, disturbances, upset>>

DeleteInChatwoot(c) ==
  /\ calls[c].pc = "del_chatwoot"
  /\ LET m == Msg(c) IN
       \/ /\ messages' = [messages EXCEPT ![m].gone = TRUE]
          /\ webhooks' = webhooks \cup {[event |-> "deleted", msg |-> m]}
          /\ UNCHANGED disturbances
       \/ /\ Disturb /\ Spoil(m)
          /\ UNCHANGED webhooks
  /\ Return(c)
  /\ UNCHANGED <<conversations, cache, lock, history, importing, provider, upset>>

\* An agent deletes the message.
AgentDelete(m) ==
  /\ messages[m].shown > 0 /\ ~messages[m].gone /\ Disturb
  /\ messages' = [messages EXCEPT ![m].gone = TRUE]
  /\ webhooks' = webhooks \cup {[event |-> "deleted", msg |-> m]}
  /\ UNCHANGED <<conversations, evolution, upset>>

-----------------------------------------------------------------------------
(* Import into Chatwoot's database.                                        *)

\* What syncLostMessages finds in the table and, by source_id, not in Chatwoot.
Stored == {m \in Messages : messages[m].row \in {"plain", "linked"}}
HasSource(m) == IF messages[m].origin \in {"agent", "template"}
                THEN messages[m].row = "linked" \/ messages[m].shown > 1
                ELSE messages[m].shown > 0

Lost == {m \in Stored : ~HasSource(m)}

\* The instance is deleted, its rows with it, and paired again under the same
\* name: the phone sends its history, of which only what has no row is kept.
Recreate ==
  /\ Disturb
  /\ \A c \in Calls : calls[c].pc = "idle"
  /\ messages' = [m \in Messages |-> [messages[m] EXCEPT
                    !.row = IF m \in Stored THEN "gone" ELSE @]]
  /\ upset' = upset \cup {"recreated"}
  /\ UNCHANGED <<conversations, evolution, webhooks>>

PhoneHistory(m) ==
  /\ ImportDb
  /\ messages[m].whatsapp = "there" /\ messages[m].row = "gone"
  /\ messages' = [messages EXCEPT ![m].row = "plain"]
  /\ history' = history \cup {m}
  /\ UNCHANGED <<conversations, cache, lock, calls, importing, provider, webhooks, disturbances, upset>>

\* importHistoryMessages takes what the history holds; syncLostMessages adds
\* what is lost just before.
BeginImport(c) ==
  /\ ImportDb
  /\ calls[c].pc = "idle"
  /\ \E added \in {{}, Lost} : history' = history \cup added
  /\ history' # {}
  /\ importing' = [importing EXCEPT ![c] = history']
  /\ calls' = [calls EXCEPT ![c] = [Idle EXCEPT !.pc = "import"]]
  /\ upset' = IF \E d \in Calls : Msg(d) \in history' \/ importing[d] # {}
              THEN upset \cup {"import"} ELSE upset
  /\ UNCHANGED <<messages, conversations, cache, lock, provider, webhooks, disturbances>>

\* getExistingSourceIds answers with the prefix WAID:, the ids it is asked for
\* have none.
ExistingSourceIds == {<<"WAID:", m>> : m \in {n \in Messages : HasSource(n)}}
Filtered(batch) == {m \in batch : m \notin ExistingSourceIds}

\* selectOrCreateFksFromChatwoot: a conversation is made if there is none.
ConversationForImport ==
  IF (\E k \in DOMAIN conversations : Live(k)) \/ Len(conversations) = MaxConversations
  THEN conversations ELSE Append(conversations, "open")

\* What was added meanwhile is deleted with the rest; clearCacheChatwoot drops
\* the caches.
EndImport(c) ==
  /\ calls[c].pc = "import"
  /\ \/ /\ conversations' = ConversationForImport
        /\ messages' = [m \in Messages |-> [messages[m] EXCEPT
                          !.shown = IF m \in Filtered(importing[c]) THEN @ + 1 ELSE @]]
        /\ UNCHANGED disturbances
     \/ Disturb /\ UNCHANGED <<messages, conversations>>
  /\ upset' = IF \E d \in Calls : Msg(d) \in importing[c] \/ calls[d].pc \in Section
              THEN upset \cup {"import"} ELSE upset
  /\ history' = {}
  /\ importing' = [importing EXCEPT ![c] = {}]
  /\ cache' = [a \in Addresses |-> 0]
  /\ Return(c)
  /\ UNCHANGED <<lock, provider, webhooks>>

-----------------------------------------------------------------------------
(* Agents, time and restarts.                                              *)

Resolve(k) ==
  /\ k \in Unresolved
  /\ conversations' = [conversations EXCEPT ![k] = "resolved"]
  /\ webhooks' = webhooks \cup {[event |-> "resolved", msg |-> None]}
  /\ UNCHANGED <<cache, lock>>

DeleteConversation(k) ==
  /\ Live(k)
  /\ conversations' = [conversations EXCEPT ![k] = "deleted"]
  /\ UNCHANGED <<webhooks, cache, lock>>

\* 30 minutes, or the command clearcache; the lock's 30 seconds.
Expire(a) ==
  /\ \/ cache[a] # 0 /\ cache' = [cache EXCEPT ![a] = 0] /\ UNCHANGED lock
     \/ lock[a] /\ lock' = [lock EXCEPT ![a] = FALSE] /\ UNCHANGED cache
  /\ UNCHANGED <<conversations, webhooks>>

Move ==
  /\ Disturb
  /\ \/ \E k \in DOMAIN conversations : Resolve(k) \/ DeleteConversation(k)
     \/ \E a \in Addresses : Expire(a)
  /\ UNCHANGED <<messages, calls, history, importing, provider, upset>>

\* Calls in progress and the history are lost, Redis is not.
Restart ==
  /\ Disturb
  /\ \E c \in Calls : calls[c].pc # "idle"
  /\ LET unstored == {m \in Messages : messages[m].origin \in {"api", "template"}
                                      /\ messages[m].sends > 0 /\ messages[m].row = "unsaved"}
         dying == unstored \cup {Msg(c) : c \in Calls}
     IN messages' = [m \in Messages |-> [messages[m] EXCEPT
                       !.spoilt = @ \/ m \in dying,
                       !.row = IF m \in unstored THEN "removed" ELSE @]]
  /\ calls' = [c \in Calls |-> Idle]
  /\ history' = {}
  /\ importing' = [c \in Calls |-> {}]
  /\ UNCHANGED <<conversations, cache, lock, provider, webhooks, upset>>

Create_(c) == LookUp(c) \/ Wait(c) \/ TakeLock(c) \/ GetContact(c) \/ ListConversations(c)
              \/ Create(c) \/ Unlock(c)

Next ==
  \/ \E c \in Calls :
       \/ Create_(c) \/ Post(c) \/ Store(c)
       \/ AgentSend(c) \/ Link(c) \/ DeleteRow(c) \/ DeleteInChatwoot(c)
       \/ BeginImport(c) \/ EndImport(c)
       \/ \E m \in Messages : Upsert(c, m) \/ ApiSend(c, m) \/ WhatsAppDelete(c, m)
       \/ \E w \in webhooks : Created(c, w)
  \/ \E m \in Messages :
       StoreSent(m) \/ AgentDelete(m) \/ PhoneHistory(m)
       \/ \E k \in DOMAIN conversations : Write(m, k)
  \/ \E w \in webhooks : Deleted(w) \/ Resolved(w)
  \/ Recreate \/ Move \/ Restart

Spec == Init /\ [][Next]_vars

-----------------------------------------------------------------------------
AtRest(m) ==
  /\ \A c \in Calls : Msg(c) # m
  /\ \A w \in webhooks : w.msg # m
  /\ m \notin history
  /\ \A c \in Calls : m \notin importing[c]

(* Unless two calls were inside the section at once, a contact never has    *)
(* two conversations to answer, whatever is resolved, deleted or forgotten. *)
OneConversation == Cardinality(Unresolved) <= 1 \/ upset \cap {"section", "import"} # {}

(* A message appears on the other side exactly once when nothing is under   *)
(* way: what comes from WhatsApp is not sent there again, what agents write *)
(* is sent once and not shown again.  Except for the automations' messages, *)
(* failed requests, and webhooks that carry another message.                *)
OnceOnEachSide ==
  upset \cap {"crossing", "import", "recreated"} = {} =>
    \A m \in Messages :
      LET x == messages[m] IN
      /\ x.sends <= (IF x.origin \in {"api", "agent", "template"} THEN 1 ELSE 0)
      /\ ~x.spoilt => x.shown <= (IF x.origin = "template" THEN 2 ELSE 1)
      /\ AtRest(m) /\ x.origin # None /\ ~x.spoilt =>
           x.shown >= 1 /\ x.whatsapp # "none"

(* A message deleted on one side is deleted on the other, unless its row    *)
(* never learnt the ids, or learns them after the deletion was handled.     *)
DeletedOnBoth ==
  \A m \in Messages :
    AtRest(m) /\ ~messages[m].spoilt /\ upset \cap {"early", "crossing", "import", "recreated"} = {} =>
      (messages[m].gone <=> messages[m].whatsapp = "deleted") \/ messages[m].row \in {"plain", "unsaved"}
=============================================================================
