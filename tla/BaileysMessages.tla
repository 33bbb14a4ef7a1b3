---------------------------- MODULE BaileysMessages ----------------------------
(***************************************************************************)
(* The messages of one chat in the Baileys channel                         *)
(* (whatsapp.baileys.service.ts).  What WhatsApp reports to an instance    *)
(* waits in eventProcessingQueue and is handled one batch after the other, *)
(* while requests of the API send, edit and delete beside it.  Instances   *)
(* share the Message table and baileysCache.  They are all in the chat, a  *)
(* group, or each has the contact for itself.  WhatsApp and Baileys are    *)
(* modelled from how they are used.                                        *)
(***************************************************************************)
EXTENDS Integers, FiniteSets, Sequences

CONSTANTS
  Instances, Messages,
  MaxTime,           \* bound: seconds in which messages are sent
  MaxQueue,          \* bound: batches waiting
  MaxEdits,          \* bound: edits of a message
  MaxHappenings,     \* bound: reads, acks, edits, deletions, syncs, failures, restarts
  Nobody

VARIABLES
  group,             \* is the chat a group?
  ignores,           \* instances with groupsIgnore
  phone,             \* each message on WhatsApp
  seen,              \* seen[i]: what the owner of i has read or answered
  queue,             \* queue[i]: eventProcessingQueue
  at,                \* at[i]: how far the first batch has come
  row,               \* row[i][m]: the rows of m that belong to i
  told,              \* told[i][m]: were subscribers and bots told of m?
  cached,            \* baileysCache: <remoteJid>_<timestamp>_<fromMe>
  known,             \* known[i]: chatwootImport's repositoryMessagesCache
  call,              \* call[i]: the API request in progress
  happenings,
  marks              \* marks[i][m]: what has happened that properties except

whatsapp == <<group, ignores, phone, seen>>
table == <<row, told, cached, known>>
vars == <<whatsapp, queue, at, table, call, happenings, marks>>

-----------------------------------------------------------------------------
Statuses == {"SENT", "DELIVERY_ACK", "READ", "EDITED", "DELETED"}
Marks == {"cut", "skipped", "passed", "crossed", "stale"}

Unsent == [from |-> Nobody, to |-> {}, time |-> 0, text |-> 0, revoked |-> FALSE]
NoRow == [copies |-> 0, status |-> "SENT", text |-> 0]
NoCall == [op |-> "none", m |-> Nobody]
Waiting == [pc |-> "next", n |-> 1]

Exists(m) == phone[m].time > 0
FromMe(i, m) == phone[m].from = i
Stored(i, m) == row[i][m].copies > 0
Unread(i, m) == Stored(i, m) /\ ~FromMe(i, m) /\ row[i][m].status = "DELIVERY_ACK"
Key(i, m) == <<phone[m].time, FromMe(i, m)>>
Chat(i) == {m \in Messages : i \in phone[m].to}
Ignored(i) == group /\ i \in ignores

\* x: the text of an edit, the time of a receipt.
Batch(t, s, x) == [type |-> t, msgs |-> s, x |-> x, order |-> <<>>]
Upsert(m) == [type |-> "upsert", msgs |-> {m}, x |-> 0, order |-> <<m>>]
Head1(i) == Head(queue[i])

TypeOK ==
  /\ group \in BOOLEAN /\ ignores \subseteq Instances
  /\ phone \in [Messages -> [from : Instances \cup {Nobody}, to : SUBSET Instances,
                             time : 0..MaxTime, text : 0..MaxEdits, revoked : BOOLEAN]]
  /\ seen \in [Instances -> SUBSET Messages]
  /\ \A i \in Instances : /\ Len(queue[i]) <= MaxQueue
                          /\ known[i] = {Nobody} \/ known[i] \subseteq Messages
                          /\ call[i].op \in {"none", "send", "tell", "edit", "delete"}
  /\ at \in [Instances -> [pc : {"next", "count", "tell"},
                           n : 1..Cardinality(Messages) + 1]]
  /\ row \in [Instances -> [Messages -> [copies : 0..MaxHappenings + 1, status : Statuses,
                                         text : 0..MaxEdits]]]
  /\ told \in [Instances -> [Messages -> BOOLEAN]]
  /\ cached \subseteq (1..MaxTime) \X BOOLEAN
  /\ happenings \in 0..MaxHappenings
  /\ marks \in [Instances -> [Messages -> SUBSET Marks]]

Init ==
  /\ group \in BOOLEAN
  /\ ignores \in IF group THEN {{}, Instances} ELSE {{}}
  /\ phone = [m \in Messages |-> Unsent]
  /\ seen = [i \in Instances |-> {}]
  /\ queue = [i \in Instances |-> <<>>]
  /\ at = [i \in Instances |-> Waiting]
  /\ row = [i \in Instances |-> [m \in Messages |-> NoRow]]
  /\ told = [i \in Instances |-> [m \in Messages |-> FALSE]]
  /\ cached = {}
  /\ known = [i \in Instances |-> {Nobody}]    \* null
  /\ call = [i \in Instances |-> NoCall]
  /\ happenings = 0
  /\ marks = [i \in Instances |-> [m \in Messages |-> {}]]

Happens == happenings < MaxHappenings /\ happenings' = happenings + 1
Mark(i, ms, mark) ==
  marks' = [marks EXCEPT ![i] = [m \in Messages |-> @[m] \cup (IF m \in ms THEN {mark} ELSE {})]]

-----------------------------------------------------------------------------
(* On WhatsApp.  Every report joins the queue of the instances it is for.  *)

Clock == IF \E m \in Messages : Exists(m)
         THEN CHOOSE t \in 1..MaxTime : /\ \E m \in Messages : phone[m].time = t
                                        /\ \A m \in Messages : phone[m].time <= t
         ELSE 1

Report(who, b) ==
  /\ \A i \in who : Len(queue[i]) < MaxQueue
  /\ queue' = [i \in Instances |-> IF i \in who THEN Append(queue[i], b) ELSE queue[i]]

\* Messages that come while a batch is being handled may share the next one.
ReportMessage(who, m) ==
  \/ Report(who, Upsert(m))
  \/ /\ who # {}
     /\ \A i \in who : Len(queue[i]) > 1 /\ queue[i][Len(queue[i])].type = "upsert"
     /\ queue' = [i \in Instances |->
                    IF i \in who THEN [queue[i] EXCEPT ![Len(queue[i])].msgs = @ \cup {m},
                                                      ![Len(queue[i])].order = Append(@, m)]
                    ELSE queue[i]]

Appears(m, o, to) ==
  \E t \in {Clock, Clock + 1} \cap 1..MaxTime :
    phone' = [phone EXCEPT ![m] = [Unsent EXCEPT !.from = o, !.to = to, !.time = t]]

\* The contact, somebody in the group or an owner with the phone writes; who
\* writes has read what came before.
Arrives(m) ==
  /\ ~Exists(m)
  /\ \E to \in IF group THEN {Instances} ELSE {{i} : i \in Instances} :
     \E o \in to \cup {Nobody} :
       /\ Appears(m, o, to)
       /\ ReportMessage(to, m)
       /\ seen' = [i \in Instances |-> IF i = o THEN Chat(i) \cup {m} ELSE seen[i]]
  /\ UNCHANGED <<group, ignores, at, table, call, happenings, marks>>

\* The owner of i reads: updates of single messages, or in a group a receipt.
Reads(i) ==
  /\ Happens
  /\ Chat(i) \ seen[i] # {}
  /\ seen' = [seen EXCEPT ![i] = Chat(i)]
  /\ Report({i}, IF group THEN Batch("receipt", {}, Clock)
                 ELSE Batch("read", Chat(i) \ seen[i], 0))
  /\ UNCHANGED <<group, ignores, phone, at, table, call, marks>>

\* Somebody else has received or read what i wrote.
Acked(i, m) ==
  /\ Happens
  /\ Exists(m) /\ FromMe(i, m)
  /\ Report({i}, IF group THEN Batch("receipt", {}, Clock) ELSE Batch("ack", {m}, 0))
  /\ UNCHANGED <<whatsapp, at, table, call, marks>>

Edits(m) ==
  /\ Happens
  /\ Exists(m) /\ ~phone[m].revoked /\ phone[m].text < MaxEdits
  /\ phone' = [phone EXCEPT ![m].text = @ + 1]
  /\ Report(phone[m].to, Batch("edit", {m}, phone[m].text + 1))
  /\ UNCHANGED <<group, ignores, seen, at, table, call, marks>>

\* A revocation is reported as a protocol message too.
Revokes(m) ==
  /\ Happens
  /\ Exists(m) /\ ~phone[m].revoked
  /\ phone' = [phone EXCEPT ![m].revoked = TRUE]
  /\ Report(phone[m].to, Batch("revoke", {m}, 0))
  /\ UNCHANGED <<group, ignores, seen, at, table, call, marks>>

\* messaging-history.set comes with all of the chat.
Syncs(i) ==
  /\ Happens
  /\ Chat(i) # {}
  /\ Report({i}, Batch("history", Chat(i), 0))
  /\ UNCHANGED <<whatsapp, at, table, call, marks>>

-----------------------------------------------------------------------------
(* The queue of i.                                                         *)

Busy(i, types) == queue[i] # <<>> /\ Head1(i).type \in types
Current(i) == Head1(i).order[at[i].n]
Done(i) == queue' = [queue EXCEPT ![i] = Tail(@)] /\ at' = [at EXCEPT ![i] = Waiting]

\* Mutant: messages of the last second are left out.
MarksReadBefore(i, time) ==
  row' = [row EXCEPT ![i] = [m \in Messages |->
            IF Unread(i, m) /\ phone[m].time < time
            THEN [@[m] EXCEPT !.status = "READ"] ELSE @[m]]]

\* updateMessagesReadedByTimestamp
MarksRead(i, time) ==
  row' = [row EXCEPT ![i] = [m \in Messages |->
            IF Unread(i, m) /\ phone[m].time <= time
            THEN [@[m] EXCEPT !.status = "READ"] ELSE @[m]]]

\* prepareMessage
Prepared(i, m, copies, text) ==
  [copies |-> copies, text |-> text, status |-> IF FromMe(i, m) THEN "SENT" ELSE "DELIVERY_ACK"]

\* The next message of messages.upsert; groups may be ignored.  The Chatwoot
\* bridge (module ChatwootBridge) is awaited, then comes message.create with
\* what prepareMessage makes of it: no look whether the message has a row.
Create(i) ==
  /\ Busy(i, {"upsert"}) /\ at[i].pc = "next"
  /\ IF at[i].n > Len(Head1(i).order) \/ Ignored(i)
     THEN Done(i) /\ UNCHANGED row
     ELSE /\ row' = [row EXCEPT ![i][Current(i)] = Prepared(i, Current(i), @.copies + 1, 0)]
          /\ at' = [at EXCEPT ![i].pc = "count"]
          /\ UNCHANGED queue
  /\ UNCHANGED <<whatsapp, told, cached, known, call, happenings, marks>>

\* Mutant: a cached key ends the work on the message.
CountOrContinue(i) ==
  /\ Busy(i, {"upsert"}) /\ at[i].pc = "count"
  /\ at' = [at EXCEPT ![i] = IF Key(i, Current(i)) \in cached
                             THEN [pc |-> "next", n |-> @.n + 1] ELSE [@ EXCEPT !.pc = "tell"]]
  /\ cached' = cached \cup {Key(i, Current(i))}
  /\ UNCHANGED <<whatsapp, queue, row, told, known, call, happenings, marks>>

\* What the owner writes on the phone makes what was before it read, unless
\* the key is cached.  (What the contact writes has the unread ones counted.)
Count(i) ==
  /\ Busy(i, {"upsert"}) /\ at[i].pc = "count"
  /\ LET m == Current(i) IN
     IF Key(i, m) \notin cached
     THEN /\ IF FromMe(i, m) THEN MarksRead(i, phone[m].time) ELSE UNCHANGED row
          /\ cached' = cached \cup {Key(i, m)}
          /\ UNCHANGED marks
     ELSE /\ IF FromMe(i, m) THEN Mark(i, Chat(i), "passed") ELSE UNCHANGED marks
          /\ UNCHANGED <<row, cached>>
  /\ at' = [at EXCEPT ![i].pc = "tell"]
  /\ UNCHANGED <<whatsapp, queue, told, known, call, happenings>>

\* sendDataWebhook, chatbotController.emit and the contact.
Tell(i) ==
  /\ Busy(i, {"upsert"}) /\ at[i].pc = "tell"
  /\ told' = [told EXCEPT ![i][Current(i)] = TRUE]
  /\ at' = [at EXCEPT ![i] = [pc |-> "next", n |-> @.n + 1]]
  /\ UNCHANGED <<whatsapp, queue, row, cached, known, call, happenings, marks>>

\* An error, or media that cannot be stored in S3: the rest of the batch goes
\* with it.
Fails(i) ==
  /\ Happens
  /\ queue[i] # <<>>
  /\ Mark(i, seen[i] \cup {m \in Head1(i).msgs : ~told[i][m] \/ Head1(i).type # "upsert"}, "cut")
  /\ Done(i)
  /\ UNCHANGED <<whatsapp, table, call>>

\* Mutant: a message that was read is not edited any more.
EditUnread(i) ==
  /\ Busy(i, {"edit", "revoke"})
  /\ LET b == Head1(i) IN
     row' = [row EXCEPT ![i] = [m \in Messages |->
               IF m \in b.msgs /\ Stored(i, m) /\ @[m].status # "READ"
               THEN [@[m] EXCEPT !.status = "EDITED",
                                !.text = IF b.type = "revoke" THEN row[i][m].text ELSE b.x]
               ELSE @[m]]]
  /\ Done(i)
  /\ UNCHANGED <<whatsapp, told, cached, known, call, happenings, marks>>

\* A protocol message with a key: the row becomes EDITED; the text of a
\* revocation is undefined, which leaves the old one.  A message.update with
\* message null follows and only reports.
EditRow(i) ==
  /\ Busy(i, {"edit", "revoke"})
  /\ LET b == Head1(i) IN
     /\ row' = [row EXCEPT ![i] = [m \in Messages |->
                  IF m \in b.msgs /\ Stored(i, m)
                  THEN [@[m] EXCEPT !.status = "EDITED",
                                !.text = IF b.type = "revoke" THEN row[i][m].text ELSE b.x]
                  ELSE @[m]]]
     /\ Mark(i, {m \in b.msgs : ~Stored(i, m)}, "skipped")
  /\ Done(i)
  /\ UNCHANGED <<whatsapp, told, cached, known, call, happenings>>

\* messages.update: only the status of what others wrote is ever stored.
Update(i) ==
  /\ Busy(i, {"read", "ack"})
  /\ LET b == Head1(i) IN
     IF b.msgs = {}
     THEN Done(i) /\ UNCHANGED <<row, cached, marks>>
     ELSE \E m \in b.msgs :
       /\ queue' = [queue EXCEPT ![i][1].msgs = @ \ {m}]
       /\ UNCHANGED at
       /\ CASE ~Stored(i, m) -> Mark(i, {m}, "skipped") /\ UNCHANGED <<row, cached>>
            [] Stored(i, m) /\ (FromMe(i, m) \/ row[i][m].status = "READ") ->
                 UNCHANGED <<row, cached, marks>>
            [] Stored(i, m) /\ ~FromMe(i, m) /\ row[i][m].status # "READ" ->
                 IF Key(i, m) \in cached
                 THEN Mark(i, {m}, "passed") /\ UNCHANGED <<row, cached>>
                 ELSE /\ row' = [row EXCEPT ![i] = [k \in Messages |->
                                   IF k = m \/ (Unread(i, k) /\ phone[k].time <= phone[m].time)
                                   THEN [@[k] EXCEPT !.status = "READ"] ELSE @[k]]]
                      /\ cached' = cached \cup {Key(i, m)}
                      /\ UNCHANGED marks
  /\ UNCHANGED <<whatsapp, told, known, call, happenings>>

\* message-receipt.update: whoever has read.
ReceiptUpdate(i) ==
  /\ Busy(i, {"receipt"})
  /\ MarksRead(i, Head1(i).x)
  /\ Done(i)
  /\ UNCHANGED <<whatsapp, told, cached, known, call, happenings, marks>>

\* messaging-history.set: what the ids in known[i], or else the table, have is
\* left out; the ids stay in known[i].
History(i) ==
  /\ Busy(i, {"history"})
  /\ LET stored == {m \in Messages : Stored(i, m)}
         ids == IF known[i] = {Nobody} THEN stored ELSE known[i]
         new == {m \in Head1(i).msgs : m \notin ids}
     IN
     /\ known' = [known EXCEPT ![i] = ids]
     /\ row' = [row EXCEPT ![i] = [m \in Messages |->
                  IF m \notin new THEN @[m]
                  ELSE IF Stored(i, m) THEN [@[m] EXCEPT !.copies = row[i][m].copies + 1]
                  ELSE Prepared(i, m, 1, phone[m].text)]]
     /\ marks' = [marks EXCEPT ![i] = [m \in Messages |->
                    @[m] \cup (IF m \in new /\ (Stored(i, m) \/ call[i] = [op |-> "send", m |-> m])
                                 THEN {"stale"} ELSE {})
                         \cup (IF m \in new /\ ~Stored(i, m) THEN {"passed"} ELSE {})]]
  /\ Done(i)
  /\ UNCHANGED <<whatsapp, told, cached, call, happenings>>

-----------------------------------------------------------------------------
(* Requests of the API.                                                    *)

Begins(i, op, m) == call[i] = NoCall /\ call' = [call EXCEPT ![i] = [op |-> op, m |-> m]]
Returns(i) == call' = [call EXCEPT ![i] = NoCall]

\* sendMessage: emitOwnEvents is off, so the queue of i does not see it.
SendMessage(i, m) ==
  LET to == IF group THEN Instances ELSE {i} IN
    /\ Appears(m, i, to)
    /\ ReportMessage(to \ {i}, m)

\* sendMessageWithTyping
ApiSend(i, m) ==
  /\ ~Exists(m)
  /\ Begins(i, "send", m)
  /\ SendMessage(i, m)
  /\ UNCHANGED <<group, ignores, seen, at, table, happenings, marks>>

SendStore(i) ==
  /\ call[i].op = "send"
  /\ row' = [row EXCEPT ![i][call[i].m] = Prepared(i, call[i].m, @.copies + 1, 0)]
  /\ call' = [call EXCEPT ![i].op = "tell"]
  /\ UNCHANGED <<whatsapp, queue, at, told, cached, known, happenings, marks>>

SendTell(i) ==
  /\ call[i].op = "tell"
  /\ told' = [told EXCEPT ![i][call[i].m] = TRUE]
  /\ Returns(i)
  /\ UNCHANGED <<whatsapp, queue, at, row, cached, known, happenings, marks>>

\* The database fails, or media cannot be stored in S3.
SendFails(i) ==
  /\ call[i].op \in {"send", "tell"}
  /\ Happens
  /\ Mark(i, {call[i].m}, "cut")
  /\ Returns(i)
  /\ UNCHANGED <<whatsapp, queue, at, table>>

\* updateMessage: the own row must be there.
ApiEdit(i, m) ==
  /\ Happens
  /\ Exists(m) /\ FromMe(i, m) /\ ~phone[m].revoked /\ phone[m].text < MaxEdits
  /\ Stored(i, m)
  /\ Begins(i, "edit", m)
  /\ phone' = [phone EXCEPT ![m].text = @ + 1]
  /\ Report(phone[m].to \ {i}, Batch("edit", {m}, phone[m].text + 1))
  /\ UNCHANGED <<group, ignores, seen, at, table, marks>>

\* deleteMessage
ApiDelete(i, m) ==
  /\ Happens
  /\ Exists(m) /\ FromMe(i, m) /\ ~phone[m].revoked
  /\ Begins(i, "delete", m)
  /\ phone' = [phone EXCEPT ![m].revoked = TRUE]
  /\ Report(phone[m].to \ {i}, Batch("revoke", {m}, 0))
  /\ UNCHANGED <<group, ignores, seen, at, table, marks>>

\* Rows are looked up by the id of the message alone: any instance's.
Pending(i, m) ==
  \E n \in DOMAIN queue[i] : queue[i][n].type \in {"edit", "revoke"} /\ m \in queue[i][n].msgs

Changed(i, status, text) ==
  LET m == call[i].m
      owners == {j \in Instances : Stored(j, m)}
  IN /\ \/ /\ owners = {}
           /\ Mark(i, {m}, "crossed")
           /\ UNCHANGED row
        \/ \E j \in owners :
             /\ row' = [row EXCEPT ![j][m].status = status, ![j][m].text = text]
             /\ marks' = [k \in Instances |-> [marks[k] EXCEPT ![m] =
                            @ \cup (IF k \in {i, j} /\ (j # i \/ Pending(i, m))
                                    THEN {"crossed"} ELSE {})]]
     /\ Returns(i)

ApiEditRow(i) ==
  /\ call[i].op = "edit"
  /\ Changed(i, "EDITED", phone[call[i].m].text)
  /\ UNCHANGED <<whatsapp, queue, at, told, cached, known, happenings>>

ApiDeleteRow(i) ==
  /\ call[i].op = "delete"
  /\ Changed(i, "DELETED", row[i][call[i].m].text)
  /\ UNCHANGED <<whatsapp, queue, at, told, cached, known, happenings>>

-----------------------------------------------------------------------------
\* Five minutes.
Expires ==
  /\ Happens
  /\ cached # {} /\ cached' = {}
  /\ UNCHANGED <<whatsapp, queue, at, row, told, known, call, marks>>

\* Queues and requests are lost.
Restart ==
  /\ Happens
  /\ \E i \in Instances : queue[i] # <<>> \/ call[i] # NoCall
  /\ marks' = [i \in Instances |->
       LET lost == seen[i] \cup {call[i].m}
                     \cup UNION {queue[i][n].msgs : n \in DOMAIN queue[i]}
       IN [m \in Messages |-> marks[i][m] \cup (IF m \in lost THEN {"cut"} ELSE {})]]
  /\ queue' = [i \in Instances |-> <<>>]
  /\ at' = [i \in Instances |-> Waiting]
  /\ call' = [i \in Instances |-> NoCall]
  /\ known' = [i \in Instances |-> {Nobody}]
  /\ UNCHANGED <<whatsapp, row, told, cached>>

Next ==
  \/ \E i \in Instances :
       \/ Reads(i) \/ Syncs(i)
       \/ Create(i) \/ Count(i) \/ Tell(i) \/ Fails(i)
       \/ EditRow(i) \/ Update(i) \/ ReceiptUpdate(i) \/ History(i)
       \/ SendStore(i) \/ SendTell(i) \/ SendFails(i) \/ ApiEditRow(i) \/ ApiDeleteRow(i)
       \/ \E m \in Messages : Acked(i, m) \/ ApiSend(i, m) \/ ApiEdit(i, m) \/ ApiDelete(i, m)
  \/ \E m \in Messages : Arrives(m) \/ Edits(m) \/ Revokes(m)
  \/ Expires \/ Restart

Spec == Init /\ [][Next]_vars

-----------------------------------------------------------------------------
AtRest(i) == queue[i] = <<>> /\ \A j \in Instances : call[j] = NoCall
Except(i, m, ms) == marks[i][m] \cap ms # {}

(* When nothing is under way, every message of the chat has one row of each *)
(* instance in it and was told to subscribers and bots, and no update came  *)
(* before the row: a failure in the batch, a restart or ids remembered from *)
(* an earlier history are the only ways to lose or double one, and a status *)
(* that overtakes the row of what the API sends the only one to be skipped. *)
NothingLost ==
  \A i \in Instances : \A m \in Chat(i) :
    /\ AtRest(i) /\ ~Ignored(i) /\ ~Except(i, m, {"cut", "stale"}) =>
         row[i][m].copies = 1 /\ told[i][m]
    /\ Except(i, m, {"skipped"}) =>
         Except(i, m, {"cut"}) \/ FromMe(i, m) \/ Ignored(i)

(* A message the owner has read or answered is READ when nothing is under   *)
(* way, unless its key was cached; and it is READ only if the owner or, in  *)
(* a group, anybody has read something as late.                             *)
ReadIsRead ==
  \A i \in Instances : \A m \in Chat(i) :
    Stored(i, m) /\ ~FromMe(i, m) =>
      /\ AtRest(i) /\ m \in seen[i] /\ ~Except(i, m, {"cut", "skipped", "passed"}) =>
           row[i][m].status # "DELIVERY_ACK"
      /\ row[i][m].status = "READ" =>
           group \/ \E k \in seen[i] : phone[k].time >= phone[m].time

(* The row has the text of the last edit when nothing is under way, unless  *)
(* an edit through the API met one from the phone or another instance's row.*)
LatestText ==
  \A i \in Instances : \A m \in Chat(i) :
    AtRest(i) /\ Stored(i, m) /\ ~Except(i, m, {"cut", "skipped", "crossed", "stale"}) =>
      /\ row[i][m].text = phone[m].text
      /\ phone[m].revoked => row[i][m].status # "DELIVERY_ACK"
=============================================================================
