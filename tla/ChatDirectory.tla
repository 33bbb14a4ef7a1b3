----------------------------- MODULE ChatDirectory -----------------------------
(***************************************************************************)
(* What an instance of the Baileys channel keeps of a chat beside its      *)
(* messages: the rows of the chat with its labels, of a label and of a     *)
(* contact, and the cached metadata of a group.  The phone changes them;   *)
(* the socket reports the changes in batches, and the handlers that the    *)
(* batch starts are awaited by nobody, so they overlap with each other and *)
(* with those of the next batch.                                           *)
(***************************************************************************)
EXTENDS Integers, Sequences, FiniteSets

CONSTANTS
  Labels,            \* labels a chat may carry
  MaxEvents,         \* bound: changes on the phone, requests and sends
  MaxDisturbances,   \* bound: statements, or fetches from WhatsApp, that fail
  None

VARIABLES
  groupsIgnore,      \* a setting, as the queue reads it
  phone,             \* what the account holds
  inbox,             \* batches reported and not handled yet
  calls,             \* handlers in progress
  rows,              \* what the instance keeps
  events, disturbances,
  marks              \* per part, what the property excepts

vars == <<groupsIgnore, phone, inbox, calls, rows, events, disturbances, marks>>

-----------------------------------------------------------------------------
Parts == {"chat", "label", "contact", "group"}
Versions == 0..MaxEvents

\* Names, pictures, colours and members are versions: the event that made them.
Things == [chat : BOOLEAN, on : SUBSET Labels, label : Versions \cup {None},
           name : Versions \cup {None}, picture : Versions \cup {None}, group : Versions]
Event == [n : 1..MaxEvents, kind : STRING, part : Parts \cup {None}, val : Versions \cup Labels \cup {None}]

TypeOK ==
  /\ groupsIgnore \in BOOLEAN
  /\ phone \in Things
  /\ \A i \in DOMAIN inbox : \A e \in inbox[i] : e \in Event
  /\ \A c \in calls : c.event \in Event
  /\ rows \in [chat : BOOLEAN, on : SUBSET Labels, label : Versions \cup {None},
               name : Versions \cup {None}, picture : Versions \cup {None},
               group : Versions \cup {None}, old : BOOLEAN, contact : BOOLEAN]
  /\ events \in Versions /\ disturbances \in 0..MaxDisturbances
  /\ marks \in [Parts -> SUBSET {"met", "dropped", "failed", "known", "revived"}]

Init ==
  /\ groupsIgnore \in BOOLEAN
  /\ phone = [chat |-> FALSE, on |-> {}, label |-> None, name |-> 0, picture |-> 0, group |-> 0]
  /\ inbox = <<>> /\ calls = {}
  /\ rows = [chat |-> FALSE, on |-> {}, label |-> None, name |-> None, picture |-> None,
             group |-> None, old |-> FALSE, contact |-> FALSE]
  /\ events = 0 /\ disturbances = 0
  /\ marks = [p \in Parts |-> {}]

-----------------------------------------------------------------------------
(* The phone.  The buffer of the socket puts a change into the last batch,  *)
(* unless that has one of its kind, or into a new one.                      *)

Report(kind, part, val) ==
  LET e == [n |-> events + 1, kind |-> kind, part |-> part, val |-> val] IN
  /\ events < MaxEvents /\ events' = events + 1
  /\ \/ inbox' = Append(inbox, {e})
     \/ /\ inbox # <<>>
        /\ \A f \in inbox[Len(inbox)] : f.kind # kind
        /\ inbox' = [inbox EXCEPT ![Len(inbox)] = @ \cup {e}]
  /\ UNCHANGED <<groupsIgnore, calls, rows, disturbances, marks>>

ChatBegins ==
  /\ ~phone.chat
  /\ phone' = [phone EXCEPT !.chat = TRUE]
  /\ Report("chats.upsert", "chat", None)

ChatChanges ==
  /\ phone.chat
  /\ Report("chats.update", "chat", None)
  /\ UNCHANGED phone

ChatDeleted ==
  /\ phone.chat
  /\ phone' = [phone EXCEPT !.chat = FALSE, !.on = {}]
  /\ Report("chats.delete", "chat", None)

LabelOn(l) ==
  /\ phone.chat /\ l \notin phone.on
  /\ phone' = [phone EXCEPT !.on = @ \cup {l}]
  /\ Report("labels.add", "chat", l)

LabelOff(l) ==
  /\ l \in phone.on
  /\ phone' = [phone EXCEPT !.on = @ \ {l}]
  /\ Report("labels.remove", "chat", l)

LabelEdited ==
  /\ phone' = [phone EXCEPT !.label = events + 1]
  /\ Report("labels.edit", "label", events + 1)

\* It may be reported again.
LabelDeleted ==
  /\ phone' = [phone EXCEPT !.label = None]
  /\ Report("labels.edit", "label", None)

\* A contact as a whole, or a change that need not name it.
ContactNamed ==
  /\ phone' = [phone EXCEPT !.name = events + 1]
  /\ \/ Report("contacts.upsert", "contact", events + 1)
     \/ Report("contacts.update", "contact", events + 1)

PictureChanged ==
  /\ phone' = [phone EXCEPT !.picture = events + 1]
  /\ Report("contacts.update", "contact", None)

\* groups.update, or group-participants.update, which looks at the
\* participants first.
GroupChanged ==
  /\ phone' = [phone EXCEPT !.group = events + 1]
  /\ \E kind \in {"groups.update", "group-participants.update"} : Report(kind, "group", None)

\* Somebody writes in a group.
Presence == Report("presence.update", None, None) /\ UNCHANGED phone

-----------------------------------------------------------------------------
(* The queue of events: the rest of eventHandler.                           *)

FirstStep(kind) ==
  CASE kind \in {"chats.upsert", "labels.edit"} -> "find"
    [] kind = "contacts.upsert" -> "create"
    [] kind = "contacts.update" -> "picture"
    [] kind = "group-participants.update" -> "participants"
    [] kind = "groups.update" -> "fetch"
    [] OTHER -> "write"

Associations == {"labels.add", "labels.remove"}
GroupEvents == {"groups.update", "group-participants.update"}

\* A presence in a group that is ignored returns before anything is handled,
\* and an association returns before the edit of a label is.
Handled(batch) ==
  LET kinds == {e.kind : e \in batch}
      heard == IF groupsIgnore THEN {e \in batch : e.kind \notin GroupEvents} ELSE batch IN
  IF groupsIgnore /\ "presence.update" \in kinds THEN {}
  ELSE {e \in heard : /\ e.kind # "presence.update"
                      /\ e.kind = "labels.edit" => kinds \cap Associations = {}}

Handler(e) == [event |-> e, pc |-> FirstStep(e.kind), val |-> None]

\* Handlers of one part that are in progress together have met.
Started(batch) ==
  LET started == Handled(batch)
      parts == {e.part : e \in batch} \ {None}
      Met(p) == \/ \E e \in started, c \in calls : e.part = p /\ c.event.part = p
                \/ Cardinality({e \in started : e.part = p}) > 1
      Dropped(p) == \E e \in batch \ started : e.part = p IN
  [p \in Parts |-> marks[p] \cup (IF Met(p) THEN {"met"} ELSE {})
                            \cup (IF p \in parts /\ Dropped(p) THEN {"dropped"} ELSE {})]

Dispatch ==
  /\ inbox # <<>>
  /\ calls' = calls \cup {Handler(e) : e \in Handled(Head(inbox))}
  /\ marks' = Started(Head(inbox))
  /\ inbox' = Tail(inbox)
  /\ UNCHANGED <<groupsIgnore, phone, rows, events, disturbances>>

-----------------------------------------------------------------------------
(* The handlers.                                                            *)

At(c, kinds, pc) == c \in calls /\ c.event.kind \in kinds /\ c.pc = pc
Goto(c, pc, val) == calls' = (calls \ {c}) \cup {[c EXCEPT !.pc = pc, !.val = val]}
Return(c) == calls' = calls \ {c}
Keep == UNCHANGED <<groupsIgnore, phone, inbox, events, disturbances>>

\* createMany skips a row that came meanwhile.
UpsertChat(c) ==
  /\ \/ /\ At(c, {"chats.upsert"}, "find")
        /\ IF rows.chat THEN Return(c) ELSE Goto(c, "write", None)
        /\ UNCHANGED rows
     \/ /\ At(c, {"chats.upsert"}, "write")
        /\ rows' = [rows EXCEPT !.chat = TRUE]
        /\ Return(c)
  /\ Keep /\ UNCHANGED marks

\* The update writes remoteJid and nothing else.
UpdateChat(c) ==
  /\ At(c, {"chats.update"}, "write")
  /\ Return(c)
  /\ Keep /\ UNCHANGED <<rows, marks>>

DeleteChat(c) ==
  /\ At(c, {"chats.delete"}, "write")
  /\ rows' = [rows EXCEPT !.chat = FALSE, !.on = {}]
  /\ Return(c)
  /\ Keep /\ UNCHANGED marks

\* Mutant: INSERT without ON CONFLICT.
InsertLabel(c) ==
  /\ At(c, Associations, "write")
  /\ rows' = IF rows.chat THEN rows
             ELSE [rows EXCEPT !.chat = TRUE,
                               !.on = IF c.event.kind = "labels.add" THEN {c.event.val} ELSE {}]
  /\ Return(c)
  /\ Keep /\ UNCHANGED marks

\* addLabel and removeLabel: one INSERT ... ON CONFLICT DO UPDATE each.
Associate(c) ==
  /\ At(c, Associations, "write")
  /\ rows' = [rows EXCEPT !.chat = TRUE,
                          !.on = IF c.event.kind = "labels.add" THEN @ \cup {c.event.val}
                                 ELSE @ \ {c.event.val}]
  /\ Return(c)
  /\ Keep /\ UNCHANGED marks

\* What is deleted and not saved is saved.
EditLabel(c) ==
  /\ \/ /\ At(c, {"labels.edit"}, "find")
        /\ \/ rows.label # None /\ rows.label = c.event.val /\ Return(c)
           \/ /\ rows.label = None \/ rows.label # c.event.val
              /\ Goto(c, "write", rows.label)
        /\ UNCHANGED <<rows, marks>>
     \/ /\ At(c, {"labels.edit"}, "write")
        /\ LET deleted == c.event.val = None IN
           /\ rows' = [rows EXCEPT !.label = IF ~deleted THEN c.event.val
                                             ELSE IF c.val # None THEN None ELSE c.event.n]
           /\ marks' = [marks EXCEPT !["label"] = (@ \ {"revived"}) \cup
                          IF deleted /\ c.val = None THEN {"revived"} ELSE {}]
        /\ Return(c)
  /\ Keep

\* createMany leaves the name of a contact that is there.
UpsertContact(c) ==
  /\ At(c, {"contacts.upsert"}, "create")
  /\ rows' = IF rows.contact THEN rows
             ELSE [rows EXCEPT !.contact = TRUE, !.name = c.event.val]
  /\ marks' = IF rows.contact THEN [marks EXCEPT !["contact"] = @ \cup {"known"}] ELSE marks
  /\ Goto(c, "picture", None)
  /\ Keep

\* profilePicture: what cannot be fetched is no picture.
FetchPicture(c) ==
  /\ At(c, {"contacts.upsert", "contacts.update"}, "picture")
  /\ \/ /\ Goto(c, "write", phone.picture)
        /\ UNCHANGED <<disturbances, marks>>
     \/ /\ disturbances < MaxDisturbances /\ disturbances' = disturbances + 1
        /\ Goto(c, "write", None)
        /\ marks' = [marks EXCEPT !["contact"] = @ \cup {"failed"}]
  /\ UNCHANGED <<groupsIgnore, phone, inbox, events, rows>>

\* A change without a name leaves that of the row.
UpdateContact(c) ==
  /\ At(c, {"contacts.upsert", "contacts.update"}, "write")
  /\ IF c.event.kind = "contacts.upsert"
     THEN rows' = [rows EXCEPT !.picture = IF rows.contact THEN c.val ELSE @] /\ UNCHANGED marks
     ELSE /\ rows' = [rows EXCEPT !.contact = TRUE, !.picture = c.val,
                                  !.name = IF c.event.val # None THEN c.event.val ELSE @]
          /\ marks' = [marks EXCEPT !["contact"] =
                         IF c.event.val # None THEN @ \ {"known"} ELSE @]
  /\ Return(c)
  /\ Keep

-----------------------------------------------------------------------------
(* The metadata of a group.                                                 *)

FindParticipants(c) ==
  /\ At(c, {"group-participants.update"}, "participants")
  /\ Goto(c, "fetch", None)
  /\ Keep /\ UNCHANGED <<rows, marks>>

\* updateGroupMetadataCache: what fails is logged, what is fetched is what the
\* group is, whatever was dropped before.
FetchGroup(c) ==
  /\ At(c, GroupEvents \cup {"send"}, "fetch")
  /\ \/ /\ Goto(c, "write", phone.group)
        /\ marks' = [marks EXCEPT !["group"] = @ \cap {"met"}]
        /\ UNCHANGED disturbances
     \/ /\ disturbances < MaxDisturbances /\ disturbances' = disturbances + 1
        /\ Return(c)
        /\ marks' = [marks EXCEPT !["group"] = @ \cup {"failed"}]
  /\ UNCHANGED <<groupsIgnore, phone, inbox, events, rows>>

CacheGroup(c) ==
  /\ At(c, GroupEvents \cup {"send"}, "write")
  /\ rows' = [rows EXCEPT !.group = c.val, !.old = FALSE]
  /\ Return(c)
  /\ Keep /\ UNCHANGED marks

\* getGroupMetadataCache, as a message to the group is sent: what is older
\* than an hour is answered and fetched again.
Send ==
  LET e == [n |-> events + 1, kind |-> "send", part |-> "group", val |-> None] IN
  /\ events < MaxEvents /\ events' = events + 1
  /\ IF rows.group # None /\ ~rows.old
     THEN UNCHANGED <<calls, marks>>
     ELSE /\ calls' = calls \cup {[event |-> e, pc |-> "fetch", val |-> None]}
          /\ marks' = IF \E c \in calls : c.event.part = "group"
                      THEN [marks EXCEPT !["group"] = @ \cup {"met"}] ELSE marks
  /\ UNCHANGED <<groupsIgnore, phone, inbox, rows, disturbances>>

HourPasses ==
  /\ rows.group # None /\ ~rows.old
  /\ rows' = [rows EXCEPT !.old = TRUE]
  /\ Keep /\ UNCHANGED <<calls, marks>>

-----------------------------------------------------------------------------
\* A statement fails: the handler ends, in an error that is logged.
Fails(c) ==
  /\ c \in calls /\ c.pc \in {"find", "create", "write"}
  /\ disturbances < MaxDisturbances /\ disturbances' = disturbances + 1
  /\ Return(c)
  /\ marks' = [marks EXCEPT ![c.event.part] = @ \cup {"failed"}]
  /\ UNCHANGED <<groupsIgnore, phone, inbox, rows, events>>

Next ==
  \/ ChatBegins \/ ChatChanges \/ ChatDeleted
  \/ \E l \in Labels : LabelOn(l) \/ LabelOff(l)
  \/ LabelEdited \/ LabelDeleted \/ ContactNamed \/ PictureChanged
  \/ GroupChanged \/ Presence \/ Dispatch
  \/ \E c \in calls :
       \/ UpsertChat(c) \/ UpdateChat(c) \/ DeleteChat(c) \/ Associate(c) \/ EditLabel(c)
       \/ UpsertContact(c) \/ FetchPicture(c) \/ UpdateContact(c)
       \/ FindParticipants(c) \/ FetchGroup(c) \/ CacheGroup(c) \/ Fails(c)
  \/ Send \/ HourPasses

Spec == Init /\ [][Next]_vars

-----------------------------------------------------------------------------
(* When every reported change was handled, the rows are what the phone      *)
(* holds: the chat with its labels, the label, the contact if it was        *)
(* reported, and the group if it is cached.  Except, part by part: handlers *)
(* that met, changes dropped with their batch, failures, the name of a      *)
(* contact that was known, and a label whose deletion was reported again.   *)
DirectoryAgrees ==
  inbox = <<>> /\ calls = {} =>
    /\ marks["chat"] = {} => rows.chat = phone.chat /\ rows.on = phone.on
    /\ marks["label"] = {} => rows.label = phone.label
    /\ marks["contact"] = {} /\ rows.contact =>
         rows.name \in {phone.name, None} /\ rows.picture = phone.picture
    /\ marks["group"] = {} => rows.group \in {phone.group, None}
=============================================================================
