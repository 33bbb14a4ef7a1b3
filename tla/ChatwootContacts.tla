--------------------------- MODULE ChatwootContacts ---------------------------
(***************************************************************************)
(* Which contact of Chatwoot a bridged message is filed with, and how the  *)
(* inbox and the contact of the bot come to be (chatwoot.service.ts).  One *)
(* person writes from a Brazilian number whose registered form has, or has *)
(* not, the ninth digit; Chatwoot may know the person under either form,   *)
(* under both, or by identifier only.  Each action is what a call does     *)
(* between two awaits, so calls cross.  The conversations themselves are   *)
(* in ChatwootBridge; groups, whose participants are looked up the same    *)
(* way, are not modelled.  Chatwoot is modelled from how it is used.       *)
(***************************************************************************)
EXTENDS Integers, FiniteSets, Sequences

CONSTANTS
  Calls,          \* calls of the service in progress
  MaxContacts,    \* bound
  MaxMessages,    \* bound: messages and notices
  MaxSetUps,      \* bound
  MaxUpsets,      \* bound: requests that fail and acts of agents
  None

VARIABLES
  form,           \* of the person's number, as WhatsApp has it registered
  merging,        \* mergeBrazilContacts
  contacts,       \* Chatwoot's, by id, with how often each has the tag
  inboxes,        \* how many of Chatwoot's have the instance's name
  inboxCache,     \* is <instance>:getInbox set?
  cached,         \* the contact of the conversation cached for an address
  greeted,        \* open conversations of the bot's contact
  calls,
  messages, setups, upsets,
  known,          \* has a message been filed since the contacts were disturbed?
  met             \* what has happened that a property speaks of

vars == <<form, merging, contacts, inboxes, inboxCache, cached, greeted, calls,
          messages, setups, upsets, known, met>>

-----------------------------------------------------------------------------
Forms == {"with", "without"}
Addresses == {"phone", "lid"}

\* phone "bot" is 123456, ident "phone" the jid of the number; a contact that
\* was merged has become the one that is its fate.
ContactRows ==
  [phone : Forms \cup {"bot", None}, ident : Addresses \cup {None},
   fate : {0} \cup 1..MaxContacts, gone : BOOLEAN, taggings : Nat]

Idle ==
  [pc |-> "idle", kind |-> None, addr |-> "phone",
   next |-> None,               \* what a search is for
   contact |-> 0,               \* found or created
   pair |-> <<0, 0>>,           \* to be merged; the first of them to be tagged
   calm |-> TRUE]               \* has nobody interfered?

Kinds == {"message", "setup", "notice"}
Pcs == {"idle", "find", "merge", "update", "unite", "cache", "refresh", "create", "search",
        "label", "tag", "list", "inbox", "new_inbox", "greet"}
Section == {"refresh", "create", "search", "label", "tag", "list"}

TypeOK ==
  /\ form \in Forms /\ merging \in BOOLEAN
  /\ contacts \in Seq(ContactRows) /\ Len(contacts) <= MaxContacts
  /\ inboxes \in Nat /\ inboxCache \in BOOLEAN
  /\ cached \in [Addresses -> 0..MaxContacts]
  /\ greeted \in Nat
  /\ calls \in [Calls -> [pc : Pcs, kind : Kinds \cup {None}, addr : Addresses, calm : BOOLEAN,
                          next : {None, "identify", "base", "contact", "label"},
                          contact : 0..MaxContacts, pair : (0..MaxContacts) \X (0..MaxContacts)]]
  /\ known \in BOOLEAN
  /\ met \subseteq {"lost", "taggings", "setups"}

Person(phone, ident) ==
  [phone |-> phone, ident |-> ident, fate |-> 0, gone |-> FALSE, taggings |-> 0]

\* What agents, and versions that filed people under their LID, left behind.
Init ==
  /\ form \in Forms /\ merging \in BOOLEAN
  /\ contacts \in {<<>>, <<Person(form, "lid")>>, <<Person(None, "phone")>>,
                   <<Person("without", None), Person("with", None)>>,
                   <<Person("with", "phone"), Person("without", "lid")>>}
  /\ inboxes \in 0..1 /\ inboxCache = FALSE
  /\ cached = [a \in Addresses |-> 0]
  /\ greeted = 0
  /\ calls = [c \in Calls |-> Idle]
  /\ messages = 0 /\ setups = 0 /\ upsets = 0
  /\ known = FALSE /\ met = {}

-----------------------------------------------------------------------------
There(k) == k \in DOMAIN contacts /\ contacts[k].fate = 0 /\ ~contacts[k].gone
HavingPhone(phones) == {k \in DOMAIN contacts : There(k) /\ contacts[k].phone \in phones}

\* Chatwoot keeps phone numbers and identifiers unique in an account: 422.
Taken(phone, ident, others) ==
  \E j \in others : There(j) /\ (contacts[j].phone = phone \/ (ident # None /\ contacts[j].ident = ident))

PhoneOf(c) == IF calls[c].kind = "message" THEN form ELSE "bot"
IdentOf(c) == IF calls[c].kind = "message" THEN "phone" ELSE None

\* Mutant: only the number itself is looked for.
NumberAsGiven(c) == {PhoneOf(c)}

\* getNumbers: a Brazilian number with and without the ninth digit.
Numbers(c) == IF calls[c].kind = "message" THEN Forms ELSE {"bot"}

To(c, pc) == [calls EXCEPT ![c].pc = pc]
Finding(c, purpose) == [calls EXCEPT ![c].pc = "find", ![c].next = purpose]
\* What c does may make the other calls stumble.
Disturbed(f, c) == [d \in Calls |-> [f[d] EXCEPT !.calm = @ /\ (d = c \/ f[d].pc = "idle")]]

\* The call ends without having done what it is for.
Lose(c) ==
  /\ calls' = [calls EXCEPT ![c] = Idle]
  /\ met' = met \cup (IF calls[c].calm THEN {"lost"} ELSE {})

-----------------------------------------------------------------------------
(* findContact.                                                            *)

\* Where a search that came upon contact k, or none (0), leads.
Found(c, k) ==
  LET call == calls[c]
      pc == CASE call.next = "identify" ->
                   IF k # 0 /\ contacts[k].ident # call.addr THEN "update" ELSE "cache"
              [] call.next = "base" -> IF k \notin {0, call.contact} THEN "unite" ELSE "cache"
              [] call.next = "label" -> "label"
              [] call.kind = "notice" -> "greet"
              [] OTHER -> IF k = 0 THEN "create"
                          ELSE IF call.kind = "message" THEN "refresh" ELSE "greet"
  IN [calls EXCEPT ![c].pc = pc,
                   ![c].pair = CASE call.next = "base" -> <<k, call.contact>>
                                 [] call.next = "label" -> <<k, 0>> [] OTHER -> <<0, 0>>,
                   ![c].contact = IF call.next \in {"base", "label"} THEN @ ELSE k]

\* The number is looked for in both forms.  Of two contacts the one with the
\* longer number is meant, unless they are to be merged into it.
Search(c) ==
  /\ calls[c].pc = "find"
  /\ LET hits == HavingPhone(Numbers(c))
         longer == CHOOSE k \in hits : Cardinality(hits) > 1 => contacts[k].phone = "with"
     IN calls' =
          CASE hits = {} -> Found(c, 0)
            [] Cardinality(hits) = 2 /\ merging ->
                 [calls EXCEPT ![c].pc = "merge",
                               ![c].pair[1] = longer, ![c].pair[2] = CHOOSE k \in hits : k # longer]
            [] OTHER -> Found(c, longer)
  /\ UNCHANGED <<form, merging, contacts, inboxes, inboxCache, cached, greeted,
                 messages, setups, upsets, known, met>>

Mergeable(p) == There(p[1]) /\ There(p[2])

\* Chatwoot fills what the base lacks from the other, which disappears.
Merged(p) ==
  [contacts EXCEPT
     ![p[1]].ident = IF @ = None THEN contacts[p[2]].ident ELSE @,
     ![p[1]].phone = IF @ = None THEN contacts[p[2]].phone ELSE @,
     ![p[2]].fate = p[1]]

\* mergeBrazilianContacts, whose promise is truthy: when the request fails,
\* nothing was found.
MergeBrazilian(c) ==
  /\ calls[c].pc = "merge"
  /\ IF Mergeable(calls[c].pair)
     THEN /\ contacts' = Merged(calls[c].pair)
          /\ calls' = Disturbed(Found(c, calls[c].pair[1]), c)
     ELSE contacts' = contacts /\ calls' = Found(c, 0)
  /\ UNCHANGED <<form, merging, inboxes, inboxCache, cached, greeted,
                 messages, setups, upsets, known, met>>

-----------------------------------------------------------------------------
(* createConversation.                                                     *)

Bridge(c) ==
  /\ calls[c].pc = "idle" /\ messages < MaxMessages
  /\ messages' = messages + 1
  /\ \E a \in Addresses :
       calls' = [calls EXCEPT ![c] = [Idle EXCEPT !.pc = "find", !.kind = "message",
                                                  !.addr = a, !.next = "identify"]]
  /\ UNCHANGED <<form, merging, contacts, inboxes, inboxCache, cached, greeted,
                 setups, upsets, known, met>>

\* The contact has another identifier than the address of the message.
UpdateIdentifier(c) ==
  LET k == calls[c].contact IN
  /\ calls[c].pc = "update"
  /\ IF There(k) /\ ~Taken(form, "phone", DOMAIN contacts \ {k})
     THEN /\ contacts' = [contacts EXCEPT ![k].ident = "phone", ![k].phone = form]
          /\ calls' = To(c, "cache")
     ELSE contacts' = contacts /\ calls' = Finding(c, "base")
  /\ UNCHANGED <<form, merging, inboxes, inboxCache, cached, greeted,
                 messages, setups, upsets, known, met>>

\* mergeContacts, into what a second search found.
Unite(c) ==
  /\ calls[c].pc = "unite"
  /\ IF Mergeable(calls[c].pair)
     THEN contacts' = Merged(calls[c].pair) /\ calls' = Disturbed(To(c, "cache"), c)
     ELSE contacts' = contacts /\ calls' = To(c, "cache")
  /\ UNCHANGED <<form, merging, inboxes, inboxCache, cached, greeted,
                 messages, setups, upsets, known, met>>

\* A merged contact keeps its conversations, in the one it has become.
Conversations(k) == k # 0 /\ ~contacts[k].gone /\ (contacts[k].fate # 0 => ~contacts[contacts[k].fate].gone)

\* getInbox: the inbox that is cached, or is Chatwoot's.
KnownInbox == inboxCache \/ inboxes > 0

\* The conversation is cached; or the lock of the address is taken, and the
\* inbox known.
LookUp(c) ==
  LET a == calls[c].addr IN
  /\ calls[c].pc = "cache"
  /\ IF cached[a] # 0
     THEN IF Conversations(cached[a])
          THEN calls' = [calls EXCEPT ![c] = Idle] /\ UNCHANGED <<cached, inboxCache>>
          ELSE /\ cached' = [cached EXCEPT ![a] = 0]
               /\ calls' = Finding(c, "identify") /\ UNCHANGED inboxCache
     ELSE /\ \A d \in Calls \ {c} : calls[d].kind = "message" /\ calls[d].addr = a =>
               calls[d].pc \notin Section /\ calls[d].next # "contact"
          /\ UNCHANGED cached
          /\ IF KnownInbox
             THEN inboxCache' = TRUE /\ calls' = Finding(c, "contact")
             ELSE UNCHANGED inboxCache /\ calls' = [calls EXCEPT ![c] = Idle]
  /\ UNCHANGED <<form, merging, contacts, inboxes, greeted, messages, setups, upsets, known, met>>

\* A name or picture that is not Chatwoot's is written to the contact.
Refresh(c) ==
  /\ calls[c].pc = "refresh"
  /\ \/ calls' = To(c, "list") /\ UNCHANGED met
     \/ ~There(calls[c].contact) /\ Lose(c)
  /\ UNCHANGED <<form, merging, contacts, inboxes, inboxCache, cached, greeted,
                 messages, setups, upsets, known>>

\* listConversations, and what follows in ChatwootBridge.
File(c) ==
  /\ calls[c].pc = "list"
  /\ IF There(calls[c].contact)
     THEN /\ cached' = [cached EXCEPT ![calls[c].addr] = calls[c].contact]
          /\ calls' = [calls EXCEPT ![c] = Idle]
          /\ known' = (known \/ calls[c].calm)
          /\ UNCHANGED met
     ELSE Lose(c) /\ UNCHANGED <<cached, known>>
  /\ UNCHANGED <<form, merging, contacts, inboxes, inboxCache, greeted, messages, setups, upsets>>

-----------------------------------------------------------------------------
(* createContact, of the person or of the bot.                             *)

CreateContact(c) ==
  /\ calls[c].pc = "create" /\ Len(contacts) < MaxContacts
  /\ IF Taken(PhoneOf(c), IdentOf(c), DOMAIN contacts)
     THEN /\ IF calls[c].kind = "message"
             THEN calls' = To(c, "search") /\ UNCHANGED met
             ELSE Lose(c)
          /\ UNCHANGED <<contacts, known>>
     ELSE /\ contacts' = Append(contacts, Person(PhoneOf(c), IdentOf(c)))
          /\ calls' = [Finding(c, "label") EXCEPT ![c].contact = Len(contacts')]
          /\ known' = (known /\ calls[c].calm)
          /\ UNCHANGED met
  /\ UNCHANGED <<form, merging, inboxes, inboxCache, cached, greeted, messages, setups, upsets>>

\* findContactByIdentifier, after a 422.
SearchIdentifier(c) ==
  LET same == {k \in DOMAIN contacts : There(k) /\ contacts[k].ident = "phone"} IN
  /\ calls[c].pc = "search"
  /\ IF same = {}
     THEN Lose(c)
     ELSE \E k \in same :
            /\ calls' = [calls EXCEPT ![c].pc = "label", ![c].contact = k, ![c].pair = <<k, 0>>]
            /\ UNCHANGED met
  /\ UNCHANGED <<form, merging, contacts, inboxes, inboxCache, cached, greeted,
                 messages, setups, upsets, known>>

Labelled(c) == IF calls[c].kind = "message" THEN "list" ELSE "greet"

\* addLabelToContact asks for a tagging and then inserts it.
CheckTagging(c) ==
  LET k == calls[c].pair[1] IN
  /\ calls[c].pc = "label"
  /\ calls' = To(c, IF k # 0 /\ contacts[k].taggings = 0 THEN "tag" ELSE Labelled(c))
  /\ met' = met \cup (IF \E d \in Calls : calls[d].pc = "tag" /\ calls[d].pair[1] = k
                      THEN {"taggings"} ELSE {})
  /\ UNCHANGED <<form, merging, contacts, inboxes, inboxCache, cached, greeted,
                 messages, setups, upsets, known>>

InsertTagging(c) ==
  /\ calls[c].pc = "tag"
  /\ contacts' = [contacts EXCEPT ![calls[c].pair[1]].taggings = @ + 1]
  /\ calls' = To(c, Labelled(c))
  /\ UNCHANGED <<form, merging, inboxes, inboxCache, cached, greeted,
                 messages, setups, upsets, known, met>>

-----------------------------------------------------------------------------
(* initInstanceChatwoot.                                                   *)

SettingUp == {c \in Calls : calls[c].kind = "setup"}

SetUp(c) ==
  /\ calls[c].pc = "idle" /\ setups < MaxSetUps
  /\ setups' = setups + 1
  /\ calls' = [d \in Calls |->
                 IF d = c
                 THEN [Idle EXCEPT !.pc = "inbox", !.kind = "setup", !.calm = SettingUp = {}]
                 ELSE [calls[d] EXCEPT !.calm = @ /\ d \notin SettingUp]]
  /\ met' = met \cup (IF SettingUp = {} THEN {} ELSE {"setups"})
  /\ UNCHANGED <<form, merging, contacts, inboxes, inboxCache, cached, greeted,
                 messages, upsets, known>>

ListInboxes(c) ==
  /\ calls[c].pc = "inbox"
  /\ calls' = IF inboxes > 0 THEN Finding(c, "contact") ELSE To(c, "new_inbox")
  /\ UNCHANGED <<form, merging, contacts, inboxes, inboxCache, cached, greeted,
                 messages, setups, upsets, known, met>>

CreateInbox(c) ==
  /\ calls[c].pc = "new_inbox"
  /\ inboxes' = inboxes + 1
  /\ calls' = Finding(c, "contact")
  /\ UNCHANGED <<form, merging, contacts, inboxCache, cached, greeted,
                 messages, setups, upsets, known, met>>

\* Every set-up opens a conversation with the bot and writes init there.
Greet(c) ==
  /\ calls[c].pc = "greet" /\ calls[c].kind = "setup"
  /\ IF There(calls[c].contact)
     THEN greeted' = greeted + 1 /\ calls' = [calls EXCEPT ![c] = Idle] /\ UNCHANGED met
     ELSE UNCHANGED greeted /\ Lose(c)
  /\ UNCHANGED <<form, merging, contacts, inboxes, inboxCache, cached,
                 messages, setups, upsets, known>>

\* getOpenConversationByContact, for the bot.
OpenConversation == greeted > 0

\* createBotMessage and createBotQr: a state or a QR code, for the agents to see.
Notice(c) ==
  /\ calls[c].pc = "idle" /\ messages < MaxMessages
  /\ messages' = messages + 1
  /\ calls' = [calls EXCEPT ![c] = [Idle EXCEPT !.pc = "find", !.kind = "notice",
                                                !.next = "contact", !.calm = greeted > 0]]
  /\ UNCHANGED <<form, merging, contacts, inboxes, inboxCache, cached, greeted,
                 setups, upsets, known, met>>

\* It is written to an open conversation of the bot, when there is one.
Tell(c) ==
  /\ calls[c].pc = "greet" /\ calls[c].kind = "notice"
  /\ inboxCache' = (inboxCache \/ (calls[c].contact # 0 /\ KnownInbox))
  /\ IF calls[c].contact # 0 /\ inboxCache' /\ OpenConversation
     THEN calls' = [calls EXCEPT ![c] = Idle] /\ UNCHANGED met
     ELSE Lose(c)
  /\ UNCHANGED <<form, merging, contacts, inboxes, cached, greeted, messages, setups, upsets, known>>

-----------------------------------------------------------------------------
(* Agents and failures.                                                    *)

Upset == upsets < MaxUpsets /\ upsets' = upsets + 1

\* An agent adds the person under a number, or deletes a contact.
AgentAct ==
  /\ Upset
  /\ \/ /\ Len(contacts) < MaxContacts
        /\ \E f \in Forms : ~Taken(f, None, DOMAIN contacts) /\ contacts' = Append(contacts, Person(f, None))
        /\ UNCHANGED greeted
     \/ \E k \in DOMAIN contacts :
          /\ There(k)
          /\ contacts' = [contacts EXCEPT ![k].gone = TRUE]
          /\ greeted' = IF contacts[k].phone = "bot" THEN 0 ELSE greeted
     \/ greeted > 0 /\ greeted' = greeted - 1 /\ UNCHANGED contacts
  /\ calls' = [c \in Calls |-> [calls[c] EXCEPT !.calm = calls[c].pc = "idle"]]
  /\ known' = FALSE
  /\ UNCHANGED <<form, merging, inboxes, inboxCache, cached, messages, setups, met>>

\* A request fails: to write a contact or a tag, which is taken for "no", or
\* any other, which ends the call.
Fail(c) ==
  /\ Upset
  /\ calls[c].pc # "idle"
  /\ LET then == CASE calls[c].pc = "merge" -> Found(c, 0)
                   [] calls[c].pc = "update" -> Finding(c, "base")
                   [] calls[c].pc = "unite" -> To(c, "cache")
                   [] calls[c].pc \in {"label", "tag"} -> To(c, Labelled(c))
                   [] OTHER -> [calls EXCEPT ![c] = Idle]
     IN calls' = [then EXCEPT ![c].calm = then[c].pc = "idle"]
  /\ UNCHANGED <<form, merging, contacts, inboxes, inboxCache, cached, greeted,
                 messages, setups, known, met>>

Expire ==
  /\ Upset
  /\ cached' = [a \in Addresses |-> 0]
  /\ UNCHANGED <<form, merging, contacts, inboxes, inboxCache, greeted, calls,
                 messages, setups, known, met>>

Next ==
  \/ \E c \in Calls :
       \/ Bridge(c) \/ Search(c) \/ MergeBrazilian(c) \/ UpdateIdentifier(c) \/ Unite(c)
       \/ LookUp(c) \/ Refresh(c) \/ File(c)
       \/ CreateContact(c) \/ SearchIdentifier(c) \/ CheckTagging(c) \/ InsertTagging(c)
       \/ SetUp(c) \/ ListInboxes(c) \/ CreateInbox(c) \/ Greet(c)
       \/ Notice(c) \/ Tell(c) \/ Fail(c)
  \/ AgentAct \/ Expire

Spec == Init /\ [][Next]_vars

-----------------------------------------------------------------------------
(* A call that nothing failed and nobody interfered with (another call by  *)
(* merging contacts, an agent, a second set-up) does what it is for: the   *)
(* message is filed with a contact that is there, the set-up ends with a   *)
(* greeting, the notice is told.  With mergeBrazilContacts the person is   *)
(* left with one contact that has a number, tagged once; and unless two    *)
(* set-ups overlap the instance has one inbox.                             *)
FiledWithOnePerson ==
  /\ "lost" \notin met
  /\ merging /\ known => Cardinality(HavingPhone(Forms)) <= 1
  /\ "taggings" \notin met => \A k \in DOMAIN contacts : contacts[k].taggings <= 1
  /\ "setups" \notin met => inboxes <= 1
===============================================================================
