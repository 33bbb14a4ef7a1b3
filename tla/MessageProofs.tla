---------------------------- MODULE MessageProofs ----------------------------
(***************************************************************************)
(* Proofs about the messages of a chat of the Baileys channel,             *)
(* BaileysMessages, as MCMessages checks them: for any instances, messages *)
(* and bounds.                                                             *)
(***************************************************************************)
EXTENDS MCMessages, TLAPS, SequenceTheorems, WellFoundedInduction

-----------------------------------------------------------------------------
(* Nobody is none of the instances and messages, and the bounds are numbers.*)
Chatting == /\ Nobody \notin Instances /\ Nobody \notin Messages
            /\ MaxTime \in Nat /\ MaxEdits \in Nat

(* What the type says of a message, a batch, a row and a request.           *)
Phones == [from : Instances \cup {Nobody}, to : SUBSET Instances, time : 0..MaxTime,
           text : Nat, revoked : BOOLEAN]
Batches == [type : {"upsert", "receipt", "read", "ack", "edit", "revoke", "history"},
            msgs : SUBSET Messages, x : Nat, order : Seq(Messages)]
Places == [pc : {"next", "count", "tell"}, n : Nat]
Copies == [copies : Nat, status : Statuses, text : Nat]
Asks == [op : {"send", "tell", "edit", "delete"}, m : Messages] \cup {NoCall}

ChatTypes ==
  /\ group \in BOOLEAN /\ ignores \subseteq Instances
  /\ phone \in [Messages -> Phones]
  /\ seen \in [Instances -> SUBSET Messages]
  /\ queue \in [Instances -> Seq(Batches)]
  /\ at \in [Instances -> Places]
  /\ row \in [Instances -> [Messages -> Copies]]
  /\ told \in [Instances -> [Messages -> BOOLEAN]]
  /\ known \in [Instances -> SUBSET (Messages \cup {Nobody})]
  /\ call \in [Instances -> Asks]
  /\ marks \in [Instances -> [Messages -> SUBSET Marks]]

(* There is a last second in which something was sent.                      *)
LEMMA ClockTyped ==
  ASSUME Chatting, ChatTypes PROVE Clock \in Nat /\ \A m \in Messages : phone[m].time <= Clock
PROOF
  <1>. SUFFICES ASSUME \E m \in Messages : Exists(m)
                PROVE  Clock \in 1..MaxTime /\ \A m \in Messages : phone[m].time <= Clock
    <2>1. \A m \in Messages : phone[m].time \in Nat
      BY DEF ChatTypes, Phones, Chatting
    <2>. QED BY <2>1 DEF Clock, Chatting, Exists
  <1>. DEFINE T == {n \in Nat : \E m \in Messages : phone[m].time = MaxTime - n}
  <1>1. \A m \in Messages : phone[m].time \in 0..MaxTime /\ MaxTime - phone[m].time \in T
    BY DEF Chatting, ChatTypes, Phones
  <1>2. PICK x \in T : \A y \in T : ~(<<y, x>> \in OpToRel(<, Nat))
    <2>1. T \subseteq Nat /\ \E y : y \in T
      BY <1>1
    <2>. HIDE DEF T
    <2>. QED BY <2>1, WFMin, NatLessThanWellFounded
  <1>3. \A y \in T : x <= y
    <2>. SUFFICES ASSUME NEW y \in T, y < x PROVE FALSE
      OBVIOUS
    <2>1. y \in Nat /\ x \in Nat
      OBVIOUS
    <2>2. <<y, x>> \in OpToRel(<, Nat)
      BY <2>1 DEF OpToRel
    <2>. QED BY <2>2, <1>2
  <1>4. PICK k \in Messages : phone[k].time = MaxTime - x
    OBVIOUS
  <1>5. \A m \in Messages : phone[m].time <= MaxTime - x
    <2>. SUFFICES ASSUME NEW m \in Messages PROVE phone[m].time <= MaxTime - x
      OBVIOUS
    <2>1. x <= MaxTime - phone[m].time
      BY <1>1, <1>3
    <2>. QED BY <2>1, <1>1 DEF Chatting
  <1>6. MaxTime - x \in 1..MaxTime
    <2>1. PICK m \in Messages : Exists(m)
      OBVIOUS
    <2>. QED BY <2>1, <1>1, <1>4, <1>5 DEF Exists, Chatting
  <1>7. \E t \in 1..MaxTime : /\ \E m \in Messages : phone[m].time = t
                              /\ \A m \in Messages : phone[m].time <= t
    BY <1>4, <1>5, <1>6
  <1>. QED BY <1>7 DEF Clock

(* What a report does to the queues.                                        *)
LEMMA Reported ==
  ASSUME ChatTypes, NEW who \in SUBSET Instances, NEW b \in Batches, Report(who, b)
  PROVE  /\ queue' \in [Instances -> Seq(Batches)]
         /\ \A i \in who : queue'[i] = Append(queue[i], b)
         /\ \A i \in Instances \ who : queue'[i] = queue[i]
PROOF
  <1>1. \A i \in Instances : queue[i] \in Seq(Batches) /\ Append(queue[i], b) \in Seq(Batches)
    BY AppendProperties DEF ChatTypes
  <1>. QED BY <1>1 DEF Report, ChatTypes

(* The last batch of the queue q of i takes a message, or a new batch does. *)
Joined(q, m) == [q EXCEPT ![Len(q)].msgs = @ \cup {m}, ![Len(q)].order = Append(@, m)]

(* It is still a queue, and only its last batch is another.                 *)
LEMMA JoinTyped ==
  ASSUME NEW q \in Seq(Batches), Len(q) > 1, NEW m \in Messages
  PROVE  /\ Joined(q, m) \in Seq(Batches)
         /\ Len(Joined(q, m)) = Len(q)
         /\ \A n \in 1..Len(q) : n # Len(q) => Joined(q, m)[n] = q[n]
         /\ Joined(q, m)[Len(q)].type = q[Len(q)].type
         /\ Joined(q, m)[Len(q)].msgs = q[Len(q)].msgs \cup {m}
         /\ Joined(q, m)[Len(q)].order = Append(q[Len(q)].order, m)
PROOF
  <1>1. Len(q) \in 1..Len(q) /\ q[Len(q)] \in Batches
    BY ElementOfSeq, LenProperties
  <1>. DEFINE e == [q[Len(q)] EXCEPT !.msgs = @ \cup {m}, !.order = Append(@, m)]
  <1>2. /\ e \in Batches /\ e.type = q[Len(q)].type
        /\ e.msgs = q[Len(q)].msgs \cup {m} /\ e.order = Append(q[Len(q)].order, m)
    <2>1. Append(q[Len(q)].order, m) \in Seq(Messages)
      BY <1>1, AppendProperties DEF Batches
    <2>. QED BY <1>1, <2>1 DEF Batches
  <1>3. Joined(q, m) = [q EXCEPT ![Len(q)] = e]
    BY <1>1, LenProperties DEF Joined
  <1>. HIDE DEF e
  <1>. QED BY <1>1, <1>2, <1>3, ExceptSeq

(* What a message does to the queues.                                       *)
LEMMA MessageReported ==
  ASSUME ChatTypes, NEW who \in SUBSET Instances, NEW m \in Messages, ReportMessage(who, m)
  PROVE  /\ queue' \in [Instances -> Seq(Batches)]
         /\ \A i \in Instances \ who : queue'[i] = queue[i]
         /\ \A i \in who : \/ queue'[i] = Append(queue[i], Upsert(m))
                           \/ /\ Len(queue[i]) > 1 /\ queue[i][Len(queue[i])].type = "upsert"
                              /\ queue'[i] = Joined(queue[i], m)
PROOF
  <1>1. Upsert(m) \in Batches
    BY DEF Upsert, Batches
  <1>2. CASE Report(who, Upsert(m))
    BY <1>1, <1>2, Reported
  <1>3. CASE /\ \A i \in who : Len(queue[i]) > 1 /\ queue[i][Len(queue[i])].type = "upsert"
             /\ queue' = [i \in Instances |-> IF i \in who THEN Joined(queue[i], m) ELSE queue[i]]
    <2>1. \A i \in who : Joined(queue[i], m) \in Seq(Batches)
      BY <1>3, JoinTyped DEF ChatTypes
    <2>. QED BY <1>3, <2>1 DEF ChatTypes
  <1>. QED BY <1>2, <1>3 DEF ReportMessage, Joined

(* A message that appears.                                                  *)
Appeared(m, o, to) ==
  /\ Exists(m)' /\ phone'[m].from = o /\ phone'[m].to = to
  /\ phone'[m].text = 0 /\ ~phone'[m].revoked
  /\ \A k \in Messages : k # m => phone'[k] = phone[k]

(* It has a time, and the others stay as they are.                          *)
LEMMA AppearedTyped ==
  ASSUME Chatting, ChatTypes, NEW m \in Messages, NEW o \in Instances \cup {Nobody},
         NEW to \in SUBSET Instances, Appears(m, o, to)
  PROVE  phone' \in [Messages -> Phones] /\ Appeared(m, o, to)
PROOF
  <1>1. PICK t \in {Clock, Clock + 1} \cap 1..MaxTime :
          phone' = [phone EXCEPT ![m] = [Unsent EXCEPT !.from = o, !.to = to, !.time = t]]
    BY DEF Appears
  <1>2. t \in 0..MaxTime /\ t > 0
    BY <1>1 DEF Chatting
  <1>. DEFINE p == [Unsent EXCEPT !.from = o, !.to = to, !.time = t]
  <1>3. /\ p \in Phones
        /\ p.from = o /\ p.to = to /\ p.time = t /\ p.text = 0 /\ ~p.revoked
    <2>1. Unsent \in Phones /\ Unsent.text = 0 /\ ~Unsent.revoked
      BY DEF Unsent, Phones, Chatting
    <2>. QED BY <1>2, <2>1 DEF Phones
  <1>4. phone' = [phone EXCEPT ![m] = p]
    BY <1>1
  <1>. HIDE DEF p
  <1>. QED BY <1>2, <1>3, <1>4 DEF ChatTypes, Appeared, Exists

(* What marking does.                                                       *)
LEMMA Marked ==
  ASSUME ChatTypes, NEW i \in Instances, NEW ms, NEW mark \in Marks, Mark(i, ms, mark)
  PROVE  /\ marks' \in [Instances -> [Messages -> SUBSET Marks]]
         /\ \A j \in Instances : j # i => marks'[j] = marks[j]
         /\ \A m \in Messages : marks'[i][m] = marks[i][m] \cup (IF m \in ms THEN {mark} ELSE {})
PROOF
  <1>1. [m \in Messages |-> marks[i][m] \cup (IF m \in ms THEN {mark} ELSE {})] \in [Messages -> SUBSET Marks]
    BY DEF ChatTypes
  <1>. QED BY <1>1 DEF ChatTypes, Mark

(* The first batch is done with.                                            *)
LEMMA DoneTyped ==
  ASSUME ChatTypes, NEW i \in Instances, queue[i] # <<>>, Done(i)
  PROVE  /\ queue' \in [Instances -> Seq(Batches)] /\ at' \in [Instances -> Places]
         /\ queue'[i] = Tail(queue[i]) /\ at'[i] = Waiting
         /\ \A j \in Instances : j # i => queue'[j] = queue[j] /\ at'[j] = at[j]
PROOF
  <1>1. Tail(queue[i]) \in Seq(Batches)
    BY HeadTailProperties DEF ChatTypes
  <1>2. Waiting \in Places
    BY DEF Waiting, Places
  <1>. QED BY <1>1, <1>2 DEF ChatTypes, Done

(* The first batch and its message in work.                                 *)
LEMMA HeadTyped ==
  ASSUME ChatTypes, NEW i \in Instances, queue[i] # <<>>
  PROVE  /\ 1 \in 1..Len(queue[i]) /\ Head1(i) = queue[i][1] /\ Head1(i) \in Batches
         /\ at[i].n \in 1..Len(Head1(i).order) => Current(i) \in Messages
PROOF
  <1>1. queue[i] \in Seq(Batches)
    BY DEF ChatTypes
  <1>2. Len(queue[i]) \in Nat \ {0} /\ Head1(i) = queue[i][1] /\ Head1(i) \in Batches
    BY <1>1, HeadTailProperties, EmptySeq DEF Head1
  <1>3. Head1(i).order \in Seq(Messages)
    BY <1>2 DEF Batches
  <1>. QED BY <1>2, <1>3, ElementOfSeq DEF Current

(* A row that is made, and one that gets a status.                          *)
LEMMA PreparedTyped ==
  ASSUME NEW i, NEW m, NEW c \in Nat, NEW t \in Nat
  PROVE  Prepared(i, m, c, t) \in Copies /\ Prepared(i, m, c, t).copies = c
BY DEF Prepared, Copies, Statuses

(* A row stays one when it is changed.                                      *)
LEMMA CopyChanged ==
  ASSUME NEW c \in Copies, NEW s \in Statuses, NEW x \in Nat
  PROVE  /\ [c EXCEPT !.status = s] \in Copies
         /\ [c EXCEPT !.status = s, !.text = x] \in Copies
         /\ [c EXCEPT !.copies = x] \in Copies
BY DEF Copies

(* A message that changes.                                                  *)
LEMMA PhoneChanged ==
  ASSUME ChatTypes, NEW m \in Messages
  PROVE  /\ phone' = [phone EXCEPT ![m].text = @ + 1] => phone' \in [Messages -> Phones]
         /\ phone' = [phone EXCEPT ![m].revoked = TRUE] => phone' \in [Messages -> Phones]
PROOF
  <1>1. phone[m] \in Phones
    BY DEF ChatTypes
  <1>2. [phone[m] EXCEPT !.text = @ + 1] \in Phones
    BY <1>1 DEF Phones
  <1>3. [phone[m] EXCEPT !.revoked = TRUE] \in Phones
    BY <1>1 DEF Phones
  <1>. QED BY <1>2, <1>3 DEF ChatTypes

(* What a request leaves of a row that it changes.                          *)
LEMMA RowChanged ==
  ASSUME ChatTypes, NEW j \in Instances, NEW m \in Messages, NEW s \in Statuses, NEW x \in Nat,
         row' = [row EXCEPT ![j][m].status = s, ![j][m].text = x]
  PROVE  row' \in [Instances -> [Messages -> Copies]]
PROOF
  <1>. DEFINE r == [row EXCEPT ![j][m].status = s]
  <1>1. row' = [r EXCEPT ![j][m].text = x]
    OBVIOUS
  <1>2. r \in [Instances -> [Messages -> Copies]]
    <2>0. m \in Messages => row[j][m] \in Copies
      BY DEF ChatTypes
    <2>1. m \in Messages => [row[j][m] EXCEPT !.status = s] \in Copies
      BY <2>0, CopyChanged, Zenon
    <2>. QED BY <2>1 DEF ChatTypes
  <1>. HIDE DEF r
  <1>3. m \in Messages => [r[j][m] EXCEPT !.text = x] \in Copies
    <2>1. m \in Messages => r[j][m] \in Copies
      BY <1>2
    <2>. QED BY <2>1 DEF Copies
  <1>. QED BY <1>1, <1>2, <1>3

(* Every step keeps what the type says.                                     *)
LEMMA TypesStep == ASSUME Chatting, ChatTypes, Next PROVE ChatTypes'
PROOF
  <1>. USE DEF whatsapp, table
  <1>. DEFINE Ch == /\ group' \in BOOLEAN /\ ignores' \subseteq Instances
                    /\ phone' \in [Messages -> Phones] /\ seen' \in [Instances -> SUBSET Messages]
              Qu == queue' \in [Instances -> Seq(Batches)] /\ at' \in [Instances -> Places]
              Ta == /\ row' \in [Instances -> [Messages -> Copies]]
                    /\ told' \in [Instances -> [Messages -> BOOLEAN]]
                    /\ known' \in [Instances -> SUBSET (Messages \cup {Nobody})]
              Ca == call' \in [Instances -> Asks]
              Ma == marks' \in [Instances -> [Messages -> SUBSET Marks]]
  <1>. SUFFICES Ch /\ Qu /\ Ta /\ Ca /\ Ma
    BY DEF ChatTypes
  <1>0. /\ UNCHANGED whatsapp => Ch
        /\ UNCHANGED <<queue, at>> => Qu
        /\ UNCHANGED <<row, told, known>> => Ta
        /\ UNCHANGED call => Ca
        /\ UNCHANGED marks => Ma
    BY DEF ChatTypes
  <1>1. /\ NoCall \in Asks /\ NoCall.op = "none" /\ Waiting \in Places
        /\ \A o \in {"send", "edit", "delete"}, m \in Messages : [op |-> o, m |-> m] \in Asks
    BY DEF NoCall, Waiting, Asks, Places
  <1>b. \A i \in Instances, m \in Messages : row[i][m] \in Copies
    BY DEF ChatTypes
  <1>2. \A i \in Instances, m \in Messages : row[i][m] \in Copies /\ \A s \in Statuses, x \in Nat :
          /\ [row[i][m] EXCEPT !.status = s] \in Copies
          /\ [row[i][m] EXCEPT !.status = s, !.text = x] \in Copies
    BY <1>b, CopyChanged
  <1>3. \A i \in Instances, m \in Messages : row[i][m].copies \in Nat /\ row[i][m].text \in Nat
    BY DEF ChatTypes, Copies
  <1>4. \A m \in Messages : phone[m].text \in Nat /\ phone[m].to \subseteq Instances
    BY DEF ChatTypes, Phones
  <1>5. \A i \in Instances : at[i].n \in Nat /\ call[i] \in Asks
    BY DEF ChatTypes, Places
  <1>a. \A i \in Instances, m \in Messages :
          /\ row[i][m].copies + 1 \in Nat
          /\ \A c \in Nat, t \in Nat : Prepared(i, m, c, t) \in Copies
    BY <1>3, PreparedTyped
  <1>6. ASSUME NEW i \in Instances, NEW t, MarksRead(i, t) PROVE row' \in [Instances -> [Messages -> Copies]]
    <2>1. [m \in Messages |-> IF Unread(i, m) /\ phone[m].time <= t
                              THEN [row[i][m] EXCEPT !.status = "READ"] ELSE row[i][m]]
            \in [Messages -> Copies]
      BY <1>2 DEF Statuses
    <2>. QED BY <1>6, <2>1 DEF MarksRead, ChatTypes
  <1>7. \A i \in Instances, f \in [Messages -> Copies] : [row EXCEPT ![i] = f] \in [Instances -> [Messages -> Copies]]
    BY DEF ChatTypes
  <1>. HIDE DEF Ch, Qu, Ta, Ca, Ma
  <1>11. ASSUME NEW i \in Instances, Reads(i) PROVE Ch /\ Qu /\ Ta /\ Ca /\ Ma
    <2>. DEFINE b == IF group THEN Batch("receipt", {}, Clock) ELSE Batch("read", Chat(i) \ seen[i], 0)
    <2>1. b \in Batches
      BY ClockTyped DEF Batch, Batches, Chat
    <2>. HIDE DEF b
    <2>2. Report({i}, b)
      BY <1>11 DEF Reads, b
    <2>3. Qu
      BY <1>11, <2>1, <2>2, Reported DEF Reads, Qu, ChatTypes
    <2>4. Ch
      BY <1>11 DEF Reads, Ch, ChatTypes, Chat
    <2>. QED BY <1>0, <1>11, <2>3, <2>4 DEF Reads
  <1>12. ASSUME NEW i \in Instances, Syncs(i) PROVE Ch /\ Qu /\ Ta /\ Ca /\ Ma
    <2>1. Batch("history", Chat(i), 0) \in Batches
      BY DEF Batch, Batches, Chat
    <2>2. Qu
      BY <1>12, <2>1, Reported DEF Syncs, Qu, ChatTypes
    <2>. QED BY <1>0, <1>12, <2>2 DEF Syncs
  <1>13. ASSUME NEW i \in Instances, NEW m \in Messages, Acked(i, m) PROVE Ch /\ Qu /\ Ta /\ Ca /\ Ma
    <2>. DEFINE b == IF group THEN Batch("receipt", {}, Clock) ELSE Batch("ack", {m}, 0)
    <2>1. b \in Batches
      BY ClockTyped DEF Batch, Batches
    <2>. HIDE DEF b
    <2>2. Report({i}, b)
      BY <1>13 DEF Acked, b
    <2>3. Qu
      BY <1>13, <2>1, <2>2, Reported DEF Acked, Qu, ChatTypes
    <2>. QED BY <1>0, <1>13, <2>3 DEF Acked
  <1>14. ASSUME NEW m \in Messages, Edits(m) PROVE Ch /\ Qu /\ Ta /\ Ca /\ Ma
    <2>1. Batch("edit", {m}, phone[m].text + 1) \in Batches
      BY <1>4 DEF Batch, Batches
    <2>2. Qu
      BY <1>4, <1>14, <2>1, Reported DEF Edits, Qu, ChatTypes
    <2>3. Ch
      BY <1>14, PhoneChanged DEF Edits, Ch, ChatTypes
    <2>. QED BY <1>0, <1>14, <2>2, <2>3 DEF Edits
  <1>15. ASSUME NEW m \in Messages, Revokes(m) PROVE Ch /\ Qu /\ Ta /\ Ca /\ Ma
    <2>1. Batch("revoke", {m}, 0) \in Batches
      BY DEF Batch, Batches
    <2>2. Qu
      BY <1>4, <1>15, <2>1, Reported DEF Revokes, Qu, ChatTypes
    <2>3. Ch
      BY <1>15, PhoneChanged DEF Revokes, Ch, ChatTypes
    <2>. QED BY <1>0, <1>15, <2>2, <2>3 DEF Revokes
  <1>16. ASSUME NEW m \in Messages, Arrives(m) PROVE Ch /\ Qu /\ Ta /\ Ca /\ Ma
    <2>1. PICK to \in SUBSET Instances, o \in Instances \cup {Nobody} :
            /\ Appears(m, o, to) /\ ReportMessage(to, m)
            /\ seen' = [i \in Instances |-> IF i = o THEN Chat(i) \cup {m} ELSE seen[i]]
      BY <1>16 DEF Arrives
    <2>3. Qu
      BY <1>16, <2>1, MessageReported DEF Arrives, Qu, ChatTypes
    <2>4. Ch
      BY <1>16, <2>1, AppearedTyped DEF Arrives, Ch, ChatTypes, Chat
    <2>. QED BY <1>0, <1>16, <2>3, <2>4 DEF Arrives
  <1>17. ASSUME NEW i \in Instances, Create(i) PROVE Ch /\ Qu /\ Ta /\ Ca /\ Ma
    <2>. Busy(i, {"upsert"})
      BY <1>17 DEF Create
    <2>1. CASE at[i].n > Len(Head1(i).order) \/ Ignored(i)
      <3>1. Qu
        BY <1>17, <2>1, DoneTyped DEF Create, Busy, Qu
      <3>. QED BY <1>0, <1>17, <2>1, <3>1 DEF Create
    <2>2. CASE ~(at[i].n > Len(Head1(i).order) \/ Ignored(i))
      <3>1. /\ row' = [row EXCEPT ![i][Current(i)] = Prepared(i, Current(i), row[i][Current(i)].copies + 1, 0)]
            /\ at' = [at EXCEPT ![i].pc = "count"] /\ queue' = queue
        BY <1>17, <2>2 DEF Create
      <3>2. Qu
        BY <3>1 DEF Qu, ChatTypes, Places
      <3>3. row' \in [Instances -> [Messages -> Copies]]
        <4>1. CASE Current(i) \in Messages
          <5>1. Prepared(i, Current(i), row[i][Current(i)].copies + 1, 0) \in Copies
            BY <1>a, <4>1
          <5>. QED BY <3>1, <5>1 DEF ChatTypes
        <4>2. CASE Current(i) \notin Messages
          BY <3>1, <4>2 DEF ChatTypes
        <4>. QED BY <4>1, <4>2
      <3>. QED BY <1>0, <1>17, <3>2, <3>3 DEF Create, Ta, ChatTypes
    <2>. QED BY <2>1, <2>2
  <1>18. ASSUME NEW i \in Instances, Count(i) PROVE Ch /\ Qu /\ Ta /\ Ca /\ Ma
    <2>1. row' \in [Instances -> [Messages -> Copies]]
      BY <1>6, <1>18 DEF Count, ChatTypes
    <2>2. Ma
      BY <1>0, <1>18, Marked DEF Count, Ma, Marks
    <2>3. Qu
      BY <1>18 DEF Count, Qu, ChatTypes, Places
    <2>. QED BY <1>0, <1>18, <2>1, <2>2, <2>3 DEF Count, Ta, ChatTypes
  <1>19. ASSUME NEW i \in Instances, Tell(i) PROVE Ch /\ Qu /\ Ta /\ Ca /\ Ma
    <2>1. told' \in [Instances -> [Messages -> BOOLEAN]]
      BY <1>19 DEF Tell, ChatTypes
    <2>2. Qu
      BY <1>5, <1>19 DEF Tell, Qu, ChatTypes, Places
    <2>. QED BY <1>0, <1>19, <2>1, <2>2 DEF Tell, Ta, ChatTypes
  <1>20. ASSUME NEW i \in Instances, Fails(i) PROVE Ch /\ Qu /\ Ta /\ Ca /\ Ma
    <2>1. Ma
      BY <1>20, Marked DEF Fails, Ma, Marks
    <2>2. Qu
      BY <1>20, DoneTyped DEF Fails, Qu
    <2>. QED BY <1>0, <1>20, <2>1, <2>2 DEF Fails
  <1>21. ASSUME NEW i \in Instances, EditRow(i) PROVE Ch /\ Qu /\ Ta /\ Ca /\ Ma
    <2>. DEFINE b == Head1(i)
                f == [m \in Messages |-> IF m \in b.msgs /\ Stored(i, m)
                        THEN [row[i][m] EXCEPT !.status = "EDITED",
                                               !.text = IF b.type = "revoke" THEN row[i][m].text ELSE b.x]
                        ELSE row[i][m]]
    <2>1. b.x \in Nat
      BY <1>21, HeadTyped DEF EditRow, Busy, Batches
    <2>2. row' = [row EXCEPT ![i] = f]
      BY <1>21, Zenon DEF EditRow
    <2>3. f \in [Messages -> Copies]
      <3>. HIDE DEF b
      <3>. QED BY <1>2, <1>3, <2>1 DEF Statuses
    <2>. HIDE DEF f
    <2>7. row' \in [Instances -> [Messages -> Copies]]
      BY <1>7, <2>2, <2>3
    <2>4. Ta
      BY <1>21, <2>7 DEF EditRow, Ta, ChatTypes
    <2>5. Ma
      BY <1>21, Marked DEF EditRow, Ma, Marks
    <2>6. Qu
      BY <1>21, DoneTyped DEF EditRow, Busy, Qu
    <2>. QED BY <1>0, <1>21, <2>4, <2>5, <2>6 DEF EditRow
  <1>22. ASSUME NEW i \in Instances, Update(i) PROVE Ch /\ Qu /\ Ta /\ Ca /\ Ma
    <2>. DEFINE b == Head1(i)
    <2>1. CASE b.msgs = {}
      <3>1. Done(i) /\ UNCHANGED <<row, marks>>
        BY <1>22, <2>1 DEF Update
      <3>2. Qu
        BY <1>22, <3>1, DoneTyped DEF Update, Busy, Qu
      <3>. QED BY <1>0, <1>22, <3>1, <3>2 DEF Update
    <2>2. CASE b.msgs # {}
      <3>1. PICK m \in b.msgs :
         /\ queue' = [queue EXCEPT ![i][1].msgs = @ \ {m}]
         /\ UNCHANGED at
         /\ \/ Mark(i, {m}, "skipped") /\ UNCHANGED row
            \/ UNCHANGED <<row, marks>>
            \/ Mark(i, {m}, "passed") /\ UNCHANGED row
            \/ /\ row' = [row EXCEPT ![i] = [k \in Messages |->
                         IF k = m \/ (Unread(i, k) /\ phone[k].time <= phone[m].time)
                         THEN [row[i][k] EXCEPT !.status = "READ"] ELSE row[i][k]]]
               /\ UNCHANGED marks
        BY <1>22, <2>2 DEF Update
      <3>2. Ma
        BY <1>0, <3>1, Marked DEF Marks, Ma
      <3>3. queue' \in [Instances -> Seq(Batches)]
        <4>1. queue[i] # <<>> /\ queue[i] \in Seq(Batches)
          BY <1>22 DEF Update, Busy, ChatTypes
        <4>2. 1 \in 1..Len(queue[i]) /\ queue[i][1] \in Batches
          BY <4>1, HeadTyped
        <4>. DEFINE e == [queue[i][1] EXCEPT !.msgs = @ \ {m}]
        <4>3. e \in Batches
          BY <4>2 DEF Batches
        <4>4. queue' = [queue EXCEPT ![i] = [queue[i] EXCEPT ![1] = e]]
          BY <3>1
        <4>. HIDE DEF e
        <4>5. [queue[i] EXCEPT ![1] = e] \in Seq(Batches)
          BY <4>1, <4>2, <4>3, ExceptSeq
        <4>. QED BY <4>4, <4>5 DEF ChatTypes
      <3>4. row' \in [Instances -> [Messages -> Copies]]
        <4>1. [k \in Messages |-> IF k = m \/ (Unread(i, k) /\ phone[k].time <= phone[m].time)
                                  THEN [row[i][k] EXCEPT !.status = "READ"] ELSE row[i][k]]
                \in [Messages -> Copies]
          BY <1>2 DEF Statuses
        <4>. QED BY <3>1, <4>1 DEF ChatTypes
      <3>. QED BY <1>0, <1>22, <3>1, <3>2, <3>3, <3>4 DEF Update, Qu, Ta, ChatTypes
    <2>. QED BY <2>1, <2>2
  <1>23. ASSUME NEW i \in Instances, ReceiptUpdate(i) PROVE Ch /\ Qu /\ Ta /\ Ca /\ Ma
    <2>1. row' \in [Instances -> [Messages -> Copies]]
      BY <1>6, <1>23 DEF ReceiptUpdate
    <2>2. Qu
      BY <1>23, DoneTyped DEF ReceiptUpdate, Busy, Qu
    <2>. QED BY <1>0, <1>23, <2>1, <2>2 DEF ReceiptUpdate, Ta, ChatTypes
  <1>24. ASSUME NEW i \in Instances, History(i) PROVE Ch /\ Qu /\ Ta /\ Ca /\ Ma
    <2>. DEFINE stored == {m \in Messages : Stored(i, m)}
                ids == IF known[i] = {Nobody} THEN stored ELSE known[i]
                new == {m \in Head1(i).msgs : m \notin ids}
    <2>1. /\ ids \subseteq Messages \cup {Nobody}
          /\ known' = [known EXCEPT ![i] = ids]
          /\ row' = [row EXCEPT ![i] = [m \in Messages |->
                 IF m \notin new THEN row[i][m]
                 ELSE IF Stored(i, m) THEN [row[i][m] EXCEPT !.copies = row[i][m].copies + 1]
                 ELSE Prepared(i, m, 1, phone[m].text)]]
          /\ marks' = [marks EXCEPT ![i] = [m \in Messages |->
                 marks[i][m] \cup (IF m \in new /\ (Stored(i, m) \/ call[i] = [op |-> "send", m |-> m])
                                     THEN {"stale"} ELSE {})
                             \cup (IF m \in new /\ ~Stored(i, m) THEN {"passed"} ELSE {})]]
      <3>1. ids \subseteq Messages \cup {Nobody}
        BY DEF ChatTypes
      <3>2. known' = [known EXCEPT ![i] = ids]
        BY <1>24, Zenon DEF History
      <3>3. row' = [row EXCEPT ![i] = [m \in Messages |->
                 IF m \notin new THEN row[i][m]
                 ELSE IF Stored(i, m) THEN [row[i][m] EXCEPT !.copies = row[i][m].copies + 1]
                 ELSE Prepared(i, m, 1, phone[m].text)]]
        BY <1>24, Zenon DEF History
      <3>4. marks' = [marks EXCEPT ![i] = [m \in Messages |->
                 marks[i][m] \cup (IF m \in new /\ (Stored(i, m) \/ call[i] = [op |-> "send", m |-> m])
                                     THEN {"stale"} ELSE {})
                             \cup (IF m \in new /\ ~Stored(i, m) THEN {"passed"} ELSE {})]]
        BY <1>24, Zenon DEF History
      <3>. QED BY <3>1, <3>2, <3>3, <3>4
    <2>. HIDE DEF ids, new
    <2>2. [m \in Messages |->  IF m \notin new THEN row[i][m]
                               ELSE IF Stored(i, m) THEN [row[i][m] EXCEPT !.copies = row[i][m].copies + 1]
                               ELSE Prepared(i, m, 1, phone[m].text)] \in [Messages -> Copies]
      <3>1. \A m \in Messages : /\ Prepared(i, m, 1, phone[m].text) \in Copies
                                /\ [row[i][m] EXCEPT !.copies = row[i][m].copies + 1] \in Copies
        BY <1>2, <1>4, <1>a, CopyChanged DEF Copies
      <3>. QED BY <1>2, <3>1
    <2>3. row' \in [Instances -> [Messages -> Copies]]
      BY <1>7, <2>1, <2>2
    <2>4. Ma
      <3>1. [m \in Messages |->
                    marks[i][m] \cup (IF m \in new /\ (Stored(i, m) \/ call[i] = [op |-> "send", m |-> m])
                                 THEN {"stale"} ELSE {})
                         \cup (IF m \in new /\ ~Stored(i, m) THEN {"passed"} ELSE {})] \in [Messages -> SUBSET Marks]
        BY DEF ChatTypes, Marks
      <3>. QED BY <2>1, <3>1 DEF Ma, ChatTypes
    <2>5. Qu
      BY <1>24, DoneTyped DEF History, Busy, Qu
    <2>6. known' \in [Instances -> SUBSET (Messages \cup {Nobody})]
      BY <2>1 DEF ChatTypes
    <2>7. UNCHANGED <<whatsapp, told, call>>
      BY <1>24 DEF History
    <2>8. Ta
      BY <2>3, <2>6, <2>7 DEF Ta, ChatTypes
    <2>. QED BY <1>0, <2>4, <2>5, <2>7, <2>8
  <1>25. ASSUME NEW i \in Instances, NEW m \in Messages, ApiSend(i, m) PROVE Ch /\ Qu /\ Ta /\ Ca /\ Ma
    <2>1. PICK to \in SUBSET Instances : Appears(m, i, to) /\ ReportMessage(to \ {i}, m)
      BY <1>25 DEF ApiSend, SendMessage
    <2>2. Qu
      BY <1>25, <2>1, MessageReported DEF ApiSend, Qu, ChatTypes
    <2>3. Ch
      BY <1>25, <2>1, AppearedTyped DEF ApiSend, Ch, ChatTypes
    <2>4. Ca
      BY <1>1, <1>25 DEF ApiSend, Begins, Ca, ChatTypes
    <2>. QED BY <1>0, <1>25, <2>2, <2>3, <2>4 DEF ApiSend
  <1>26. ASSUME NEW i \in Instances, SendStore(i) PROVE Ch /\ Qu /\ Ta /\ Ca /\ Ma
    <2>1. row' = [row EXCEPT ![i][call[i].m] = Prepared(i, call[i].m, row[i][call[i].m].copies + 1, 0)]
      BY <1>26 DEF SendStore
    <2>2. row' \in [Instances -> [Messages -> Copies]]
      <3>1. CASE call[i].m \in Messages
        <4>1. Prepared(i, call[i].m, row[i][call[i].m].copies + 1, 0) \in Copies
          BY <1>a, <3>1
        <4>. QED BY <2>1, <4>1 DEF ChatTypes
      <3>2. CASE call[i].m \notin Messages
        BY <2>1, <3>2 DEF ChatTypes
      <3>. QED BY <3>1, <3>2
    <2>4. [call[i] EXCEPT !.op = "tell"] \in Asks
      BY <1>5, <1>26 DEF SendStore, Asks, NoCall
    <2>3. Ca
      BY <1>26, <2>4 DEF SendStore, Ca, ChatTypes
    <2>. QED BY <1>0, <1>26, <2>2, <2>3 DEF SendStore, Ta, ChatTypes
  <1>27. ASSUME NEW i \in Instances, SendTell(i) PROVE Ch /\ Qu /\ Ta /\ Ca /\ Ma
    <2>1. told' \in [Instances -> [Messages -> BOOLEAN]]
      BY <1>27 DEF SendTell, ChatTypes
    <2>2. Ca
      BY <1>1, <1>27 DEF SendTell, Returns, Ca, ChatTypes
    <2>. QED BY <1>0, <1>27, <2>1, <2>2 DEF SendTell, Ta, ChatTypes
  <1>28. ASSUME NEW i \in Instances, SendFails(i) PROVE Ch /\ Qu /\ Ta /\ Ca /\ Ma
    <2>1. Ma
      BY <1>28, Marked DEF SendFails, Ma, Marks
    <2>2. Ca
      BY <1>1, <1>28 DEF SendFails, Returns, Ca, ChatTypes
    <2>. QED BY <1>0, <1>28, <2>1, <2>2 DEF SendFails
  <1>29. ASSUME NEW i \in Instances, NEW m \in Messages, ApiEdit(i, m) PROVE Ch /\ Qu /\ Ta /\ Ca /\ Ma
    <2>1. Batch("edit", {m}, phone[m].text + 1) \in Batches
      BY <1>4 DEF Batch, Batches
    <2>2. Qu
      BY <1>4, <1>29, <2>1, Reported DEF ApiEdit, Qu, ChatTypes
    <2>3. Ch
      BY <1>29, PhoneChanged DEF ApiEdit, Ch, ChatTypes
    <2>4. Ca
      BY <1>1, <1>29 DEF ApiEdit, Begins, Ca, ChatTypes
    <2>. QED BY <1>0, <1>29, <2>2, <2>3, <2>4 DEF ApiEdit
  <1>30. ASSUME NEW i \in Instances, NEW m \in Messages, ApiDelete(i, m) PROVE Ch /\ Qu /\ Ta /\ Ca /\ Ma
    <2>1. Batch("revoke", {m}, 0) \in Batches
      BY DEF Batch, Batches
    <2>2. Qu
      BY <1>4, <1>30, <2>1, Reported DEF ApiDelete, Qu, ChatTypes
    <2>3. Ch
      BY <1>30, PhoneChanged DEF ApiDelete, Ch, ChatTypes
    <2>4. Ca
      BY <1>1, <1>30 DEF ApiDelete, Begins, Ca, ChatTypes
    <2>. QED BY <1>0, <1>30, <2>2, <2>3, <2>4 DEF ApiDelete
  <1>31. ASSUME NEW i \in Instances, NEW s \in Statuses, NEW x \in Nat, Changed(i, s, x), call[i].m \in Messages,
                UNCHANGED <<told, known>>
         PROVE Ta /\ Ma /\ Ca
    <2>1. Ca
      BY <1>1, <1>31 DEF Changed, Returns, Ca, ChatTypes
    <2>2. CASE Mark(i, {call[i].m}, "crossed") /\ UNCHANGED row
      BY <1>0, <1>31, <2>1, <2>2, Marked DEF Ma, Marks
    <2>3. CASE \E j \in Instances :
             /\ row' = [row EXCEPT ![j][call[i].m].status = s, ![j][call[i].m].text = x]
             /\ marks' = [k \in Instances |-> [marks[k] EXCEPT ![call[i].m] =
                            @ \cup (IF k \in {i, j} /\ (j # i \/ Pending(i, call[i].m))
                                    THEN {"crossed"} ELSE {})]]
      <3>1. PICK j \in Instances :
             /\ row' = [row EXCEPT ![j][call[i].m].status = s, ![j][call[i].m].text = x]
             /\ marks' = [k \in Instances |-> [marks[k] EXCEPT ![call[i].m] =
                            @ \cup (IF k \in {i, j} /\ (j # i \/ Pending(i, call[i].m))
                                    THEN {"crossed"} ELSE {})]]
        BY <2>3
      <3>2. Ma
        <4>1. \A k \in Instances : [marks[k] EXCEPT ![call[i].m] =
                            @ \cup (IF k \in {i, j} /\ (j # i \/ Pending(i, call[i].m))
                                    THEN {"crossed"} ELSE {})] \in [Messages -> SUBSET Marks]
          <5>1. \A m : \A f \in [Messages -> SUBSET Marks], R \in SUBSET Marks : [f EXCEPT ![m] = @ \cup R] \in [Messages -> SUBSET Marks]
            OBVIOUS
          <5>2. \A k \in Instances : (IF k \in {i, j} /\ (j # i \/ Pending(i, call[i].m)) THEN {"crossed"} ELSE {}) \in SUBSET Marks
            BY DEF Marks
          <5>. QED BY <5>1, <5>2 DEF ChatTypes
        <4>. QED BY <3>1, <4>1 DEF Ma
      <3>3. row' \in [Instances -> [Messages -> Copies]]
        BY <1>31, <3>1, RowChanged
      <3>. QED BY <1>31, <2>1, <3>2, <3>3 DEF Ta, ChatTypes
    <2>. QED BY <1>31, <2>2, <2>3 DEF Changed
  <1>32. ASSUME NEW i \in Instances, ApiEditRow(i) PROVE Ch /\ Qu /\ Ta /\ Ca /\ Ma
    <2>1. phone[call[i].m].text \in Nat /\ call[i].m \in Messages
      BY <1>4, <1>32, <1>5 DEF ApiEditRow, Asks, NoCall
    <2>. QED BY <1>0, <1>31, <1>32, <2>1 DEF ApiEditRow, Statuses
  <1>33. ASSUME NEW i \in Instances, ApiDeleteRow(i) PROVE Ch /\ Qu /\ Ta /\ Ca /\ Ma
    <2>1. row[i][call[i].m].text \in Nat /\ call[i].m \in Messages
      BY <1>3, <1>33, <1>5 DEF ApiDeleteRow, Asks, NoCall
    <2>. QED BY <1>0, <1>31, <1>33, <2>1 DEF ApiDeleteRow, Statuses
  <1>34. ASSUME Expires PROVE Ch /\ Qu /\ Ta /\ Ca /\ Ma
    BY <1>0, <1>34 DEF Expires
  <1>35. ASSUME Restart PROVE Ch /\ Qu /\ Ta /\ Ca /\ Ma
    <2>1. Qu
      BY <1>1, <1>35, EmptySeq DEF Restart, Qu
    <2>2. Ca /\ Ta
      BY <1>1, <1>35 DEF Restart, Ca, Ta, ChatTypes
    <2>3. Ma
      BY <1>35 DEF Restart, Ma, ChatTypes, Marks
    <2>. QED BY <1>0, <1>35, <2>1, <2>2, <2>3 DEF Restart
  <1>. QED BY <1>11, <1>12, <1>13, <1>14, <1>15, <1>16, <1>17, <1>18, <1>19, <1>20,
              <1>21, <1>22, <1>23, <1>24,
              <1>25, <1>26, <1>27, <1>28, <1>29, <1>30, <1>32, <1>33, <1>34,
              <1>35 DEF Next

-----------------------------------------------------------------------------
(* Message m is the k-th of the n-th batch of the queue of i; the n-th      *)
(* batch holds it; it is an update of it.                                   *)
Comes(i, n, k, m) ==
  /\ n \in 1..Len(queue[i]) /\ queue[i][n].type = "upsert"
  /\ k \in 1..Len(queue[i][n].order) /\ queue[i][n].order[k] = m
Holds(i, n, m) == n \in 1..Len(queue[i]) /\ m \in queue[i][n].msgs
Updates(i, n, m) == Holds(i, n, m) /\ queue[i][n].type # "upsert"

(* Its turn is still to come, or it is in work.                             *)
ToCome(i, n, k) == n # 1 \/ k > at[i].n \/ (k = at[i].n /\ at[i].pc = "next")
InWork(i, n, k) == n = 1 /\ k = at[i].n /\ at[i].pc # "next"
Comings(i, m) == \E n, k \in Nat : Comes(i, n, k, m) /\ (ToCome(i, n, k) \/ InWork(i, n, k))

(* The queue is about messages of the chat.                                 *)
InChat(i) ==
  /\ \A m \in Messages, n, k \in Nat :
       Comes(i, n, k, m) => Exists(m) /\ i \in phone[m].to /\ Holds(i, n, m)
  /\ \A m \in Messages, n \in Nat : Updates(i, n, m) => Exists(m) /\ i \in phone[m].to

(* Who writes is in the chat, and what nobody has written is nowhere.       *)
Written(i) ==
  \A m \in Messages : /\ Exists(m) /\ FromMe(i, m) => i \in phone[m].to
                      /\ ~Exists(m) => /\ row[i][m].copies = 0 /\ ~told[i][m]
                                      /\ ~FromMe(i, m) /\ i \notin phone[m].to

(* A message comes once, and what happens to it after it.                   *)
ComesOnce(i) ==
  \A m \in Messages, n1, n2, k1, k2 \in Nat :
    Comes(i, n1, k1, m) /\ Comes(i, n2, k2, m) => n1 = n2 /\ k1 = k2
ComesFirst(i) ==
  \A m \in Messages, n, k, n2 \in Nat : Comes(i, n, k, m) /\ Updates(i, n2, m) => n < n2

(* The place in the first batch.                                            *)
PlaceOK(i) ==
  /\ at[i].n > 0
  /\ at[i] # Waiting => queue[i] # <<>> /\ queue[i][1].type = "upsert"
  /\ at[i].pc # "next" => at[i].n \in 1..Len(queue[i][1].order)

(* A request is about a message of its own, which the queue does not bring. *)
RequestOK(i) ==
  /\ call[i] # NoCall => Exists(call[i].m) /\ FromMe(i, call[i].m)
  /\ call[i].op \in {"send", "tell"} => \A n, k \in Nat : ~Comes(i, n, k, call[i].m)

(* A message has no row before its turn has come, and one when it has.      *)
RowsCome(i) ==
  \A m \in Messages, n, k \in Nat : Comes(i, n, k, m) =>
    /\ ToCome(i, n, k) => row[i][m].copies = 0 /\ ~told[i][m]
    /\ InWork(i, n, k) => row[i][m].copies = 1 /\ ~told[i][m]

(* Nor has what the API sends, save from a history.                         *)
RequestRows(i) ==
  /\ call[i].op = "send" => row[i][call[i].m].copies = 0 \/ "stale" \in marks[i][call[i].m]
  /\ call[i].op = "tell" => row[i][call[i].m].copies = 1
                              \/ (row[i][call[i].m].copies > 0 /\ "stale" \in marks[i][call[i].m])

(* A message of the chat is on its way, or has its row, or was lost.        *)
Tracked(i) ==
  \A m \in Messages :
    Exists(m) /\ i \in phone[m].to /\ ~Ignored(i) /\ "cut" \notin marks[i][m] =>
      \/ Comings(i, m)
      \/ call[i].op \in {"send", "tell"} /\ call[i].m = m
      \/ row[i][m].copies > 0 /\ ("stale" \in marks[i][m] \/ (row[i][m].copies = 1 /\ told[i][m]))

(* An update is skipped for one of these reasons.                           *)
Skips(i) ==
  \A m \in Messages :
    "skipped" \in marks[i][m] => "cut" \in marks[i][m] \/ FromMe(i, m) \/ Ignored(i)

Kept(i) == /\ InChat(i) /\ Written(i) /\ ComesOnce(i) /\ ComesFirst(i) /\ PlaceOK(i)
           /\ RequestOK(i) /\ RowsCome(i) /\ RequestRows(i) /\ Tracked(i) /\ Skips(i)

KeptInv == ChatTypes /\ \A i \in Instances : Kept(i)

-----------------------------------------------------------------------------
(* What a step may do beside what it is for: it keeps the messages and      *)
(* their rows, and marks them.                                              *)
PhonesStay == \A m \in Messages : /\ phone'[m].from = phone[m].from /\ phone'[m].to = phone[m].to
                                  /\ Exists(m)' <=> Exists(m)
GroupStays == group' = group /\ ignores' = ignores
RowsStay(i) == \A m \in Messages : row'[i][m].copies = row[i][m].copies /\ told'[i][m] = told[i][m]
MarksStay(i) == \A m \in Messages : /\ "cut" \in marks[i][m] => "cut" \in marks'[i][m]
                                    /\ "stale" \in marks[i][m] => "stale" \in marks'[i][m]
Unskipped(i) == \A m \in Messages : "skipped" \in marks'[i][m] => "skipped" \in marks[i][m]

(* The request goes on, ends or begins.                                     *)
CallGoesOn(i) ==
  \/ call'[i] = call[i]
  \/ /\ call'[i] = NoCall
     /\ call[i].op \in {"send", "tell"} => "cut" \in marks'[i][call[i].m]
  \/ /\ call[i] = NoCall /\ call'[i] # NoCall /\ call'[i].op \in {"edit", "delete"}
     /\ Exists(call'[i].m) /\ FromMe(i, call'[i].m)

(* Where what is not in the queue stays.                                    *)
LEMMA Ignores ==
  ASSUME GroupStays, NEW i PROVE Ignored(i)' <=> Ignored(i)
BY DEF GroupStays, Ignored

(* Who wrote stays.                                                         *)
LEMMA FromStays ==
  ASSUME PhonesStay, NEW i, NEW m \in Messages PROVE FromMe(i, m)' <=> FromMe(i, m)
BY DEF PhonesStay, FromMe

(* The request of a call is about a message.                                *)
LEMMA CallTyped ==
  ASSUME ChatTypes, NEW i \in Instances
  PROVE  /\ call[i].op \in {"none", "send", "tell", "edit", "delete"}
         /\ call[i].op = "none" <=> call[i] = NoCall
         /\ call[i] # NoCall => call[i].m \in Messages
BY DEF ChatTypes, Asks, NoCall

(* Another instance or the request moves: the queue stays.                  *)
LEMMA StillKept ==
  ASSUME ChatTypes, ChatTypes', NEW i \in Instances, Kept(i), queue'[i] = queue[i], at'[i] = at[i],
         RowsStay(i), MarksStay(i), Unskipped(i), PhonesStay, GroupStays, CallGoesOn(i)
  PROVE  Kept(i)'
PROOF
  <1>1. \A m, n, k : /\ Comes(i, n, k, m)' <=> Comes(i, n, k, m)
                     /\ Holds(i, n, m)' <=> Holds(i, n, m)
                     /\ Updates(i, n, m)' <=> Updates(i, n, m)
                     /\ ToCome(i, n, k)' <=> ToCome(i, n, k)
                     /\ InWork(i, n, k)' <=> InWork(i, n, k)
    BY DEF Comes, Holds, Updates, ToCome, InWork
  <1>2. \A m : Comings(i, m)' <=> Comings(i, m)
    BY <1>1 DEF Comings
  <1>3. InChat(i)' /\ ComesOnce(i)' /\ ComesFirst(i)'
    BY <1>1 DEF Kept, InChat, ComesOnce, ComesFirst, PhonesStay
  <1>4. Written(i)'
    BY FromStays DEF Kept, Written, PhonesStay, RowsStay
  <1>5. PlaceOK(i)'
    BY DEF Kept, PlaceOK
  <1>6. call'[i] = call[i] => call[i].m \in Messages \/ call'[i] = NoCall
    BY CallTyped
  <1>7. RequestOK(i)'
    <2>1. CASE call'[i] = call[i]
      BY <1>1, <1>6, <2>1, CallTyped, FromStays DEF Kept, RequestOK, PhonesStay, NoCall
    <2>2. CASE call'[i] = NoCall
      BY <2>2 DEF RequestOK, NoCall
    <2>3. CASE call[i] = NoCall /\ call'[i].op \in {"edit", "delete"} /\ Exists(call'[i].m) /\ FromMe(i, call'[i].m)
      <3>1. call'[i] # NoCall /\ call'[i].m \in Messages
        BY <2>3 DEF ChatTypes, Asks, NoCall
      <3>2. \A m \in Messages : (Exists(m)' <=> Exists(m)) /\ (FromMe(i, m)' <=> FromMe(i, m))
        BY FromStays DEF PhonesStay
      <3>. QED BY <2>3, <3>1, <3>2 DEF RequestOK, Exists, FromMe
    <2>. QED BY <2>1, <2>2, <2>3 DEF CallGoesOn
  <1>8. RowsCome(i)'
    BY <1>1 DEF Kept, RowsCome, RowsStay
  <1>9. RequestRows(i)'
    <2>1. CASE call'[i] = call[i] /\ call[i].m \in Messages
      BY <2>1 DEF Kept, RequestRows, RowsStay, MarksStay
    <2>2. CASE call'[i] = NoCall \/ call'[i].op \in {"edit", "delete"}
      BY <2>2 DEF RequestRows, NoCall
    <2>. QED BY <1>6, <2>1, <2>2 DEF CallGoesOn
  <1>10. Tracked(i)'
    <2>. SUFFICES ASSUME NEW m \in Messages, Exists(m)', i \in phone'[m].to, ~Ignored(i)', "cut" \notin marks'[i][m]
                  PROVE  \/ Comings(i, m)'
                         \/ call'[i].op \in {"send", "tell"} /\ call'[i].m = m
                         \/ row'[i][m].copies > 0 /\ ("stale" \in marks'[i][m] \/ (row'[i][m].copies = 1 /\ told'[i][m]))
      BY DEF Tracked
    <2>1. Exists(m) /\ i \in phone[m].to /\ ~Ignored(i) /\ "cut" \notin marks[i][m]
      BY Ignores DEF PhonesStay, MarksStay
    <2>2. call[i].op \in {"send", "tell"} /\ call[i].m = m => call'[i] = call[i]
      BY DEF CallGoesOn, NoCall
    <2>. QED BY <1>2, <2>1, <2>2 DEF Kept, Tracked, RowsStay, MarksStay
  <1>11. Skips(i)'
    BY Ignores, FromStays DEF Kept, Skips, Unskipped, MarksStay
  <1>. QED BY <1>3, <1>4, <1>5, <1>7, <1>8, <1>9, <1>10, <1>11 DEF Kept

(* A batch of updates comes.                                                *)
LEMMA ReportKept ==
  ASSUME ChatTypes, ChatTypes', NEW i \in Instances, Kept(i), NEW b \in Batches, b.type # "upsert",
         \A m \in b.msgs : Exists(m) /\ i \in phone[m].to,
         queue'[i] = Append(queue[i], b), at'[i] = at[i], call'[i] = call[i],
         RowsStay(i), MarksStay(i), Unskipped(i), PhonesStay, GroupStays
  PROVE  Kept(i)'
PROOF
  <1>. DEFINE q == queue[i]
  <1>1. /\ q \in Seq(Batches) /\ Len(q) \in Nat
        /\ Len(queue'[i]) = Len(q) + 1
        /\ \A n \in 1..Len(q) : queue'[i][n] = q[n]
        /\ queue'[i][Len(q) + 1] = b
    BY AppendProperties, LenProperties DEF ChatTypes
  <1>2. \A m, n, k : /\ Comes(i, n, k, m)' <=> Comes(i, n, k, m)
                     /\ Updates(i, n, m)' <=> Updates(i, n, m) \/ (n = Len(q) + 1 /\ m \in b.msgs)
                     /\ Holds(i, n, m) => Holds(i, n, m)'
                     /\ ToCome(i, n, k)' <=> ToCome(i, n, k)
                     /\ InWork(i, n, k)' <=> InWork(i, n, k)
    <2>. SUFFICES ASSUME NEW m, NEW n, NEW k
                  PROVE  /\ Comes(i, n, k, m)' <=> Comes(i, n, k, m)
                         /\ Updates(i, n, m)' <=> Updates(i, n, m) \/ (n = Len(q) + 1 /\ m \in b.msgs)
                         /\ Holds(i, n, m) => Holds(i, n, m)'
                         /\ ToCome(i, n, k)' <=> ToCome(i, n, k)
                         /\ InWork(i, n, k)' <=> InWork(i, n, k)
      BY Zenon
    <2>1. n \in 1..Len(q) + 1 <=> n \in 1..Len(q) \/ n = Len(q) + 1
      BY <1>1
    <2>2. ~(Len(q) + 1 \in 1..Len(q))
      BY <1>1
    <2>3. Comes(i, n, k, m)' <=> Comes(i, n, k, m)
      BY <1>1, <2>1, <2>2 DEF Comes
    <2>4. Holds(i, n, m)' <=> Holds(i, n, m) \/ (n = Len(q) + 1 /\ m \in b.msgs)
      BY <1>1, <2>1, <2>2 DEF Holds
    <2>5. Updates(i, n, m)' <=> Updates(i, n, m) \/ (n = Len(q) + 1 /\ m \in b.msgs)
      BY <1>1, <2>1, <2>2 DEF Holds, Updates
    <2>. QED BY <2>3, <2>4, <2>5 DEF ToCome, InWork
  <1>3. \A m : Comings(i, m)' <=> Comings(i, m)
    BY <1>2 DEF Comings
  <1>4. InChat(i)' /\ ComesOnce(i)'
    <2>1. \A m \in Messages, n, k \in Nat : Comes(i, n, k, m)' => Exists(m) /\ i \in phone[m].to /\ Holds(i, n, m)'
      BY <1>2 DEF Kept, InChat
    <2>2. \A m \in Messages, n \in Nat : Updates(i, n, m)' => Exists(m) /\ i \in phone[m].to
      BY <1>2 DEF Kept, InChat
    <2>3. InChat(i)'
      BY <2>1, <2>2 DEF InChat, PhonesStay
    <2>4. ComesOnce(i)'
      BY <1>2 DEF Kept, ComesOnce
    <2>. QED BY <2>3, <2>4
  <1>5. ComesFirst(i)'
    <2>1. \A m, n, k : Comes(i, n, k, m) => n < Len(q) + 1
      BY <1>1 DEF Comes
    <2>. QED BY <1>2, <2>1 DEF Kept, ComesFirst
  <1>6. Written(i)'
    BY FromStays DEF Kept, Written, PhonesStay, RowsStay
  <1>7. PlaceOK(i)'
    <2>1. q # <<>> => 1 \in 1..Len(q)
      BY <1>1, EmptySeq
    <2>2. queue'[i] # <<>>
      BY AppendProperties DEF ChatTypes
    <2>3. at[i].pc # "next" => at[i] # Waiting
      BY DEF Waiting
    <2>. QED BY <1>1, <2>1, <2>2, <2>3 DEF Kept, PlaceOK
  <1>8. RequestOK(i)'
    BY <1>2, CallTyped, FromStays DEF Kept, RequestOK, PhonesStay, NoCall
  <1>9. RowsCome(i)'
    BY <1>2 DEF Kept, RowsCome, RowsStay
  <1>10. RequestRows(i)'
    BY CallTyped DEF Kept, RequestRows, RowsStay, MarksStay, NoCall
  <1>11. Tracked(i)'
    BY <1>3, Ignores DEF Kept, Tracked, RowsStay, MarksStay, PhonesStay
  <1>12. Skips(i)'
    BY Ignores, FromStays DEF Kept, Skips, Unskipped, MarksStay
  <1>. QED BY <1>4, <1>5, <1>6, <1>7, <1>8, <1>9, <1>10, <1>11, <1>12 DEF Kept

(* A batch of one message at the end of the queue: the message comes from it *)
(* and the rest comes as it did.                                            *)
LEMMA AppendedComes ==
  ASSUME NEW i \in Instances, NEW x \in Messages,
         queue[i] \in Seq(Batches), queue'[i] = Append(queue[i], Upsert(x))
  PROVE  \A m \in Messages, n, k \in Nat :
           Comes(i, n, k, m)' <=> Comes(i, n, k, m) \/ (n = Len(queue[i]) + 1 /\ k = 1 /\ m = x)
PROOF
  <1>. PICK L \in Nat : L = Len(queue[i])
    BY LenProperties
  <1>. SUFFICES ASSUME NEW m \in Messages, NEW n \in Nat, NEW k \in Nat
                PROVE  Comes(i, n, k, m)' <=> Comes(i, n, k, m) \/ (n = L + 1 /\ k = 1 /\ m = x)
    OBVIOUS
  <1>0. /\ Len(queue'[i]) = L + 1
        /\ \A j \in 1..L : queue'[i][j] = queue[i][j]
        /\ queue'[i][L + 1] = Upsert(x)
    <2>1. Upsert(x) \in Batches
      BY DEF Upsert, Batches
    <2>. QED BY <2>1, AppendProperties
  <1>1. CASE n = L + 1
    <2>1. n \in 1..Len(queue'[i]) /\ ~(n \in 1..Len(queue[i]))
      BY <1>0, <1>1
    <2>2. ~Comes(i, n, k, m)
      BY <2>1 DEF Comes
    <2>3. Comes(i, n, k, m)' <=> k \in 1..1 /\ x = m
      <3>1. k \in 1..1 => k = 1
        OBVIOUS
      <3>2. Upsert(x).type = "upsert" /\ Len(Upsert(x).order) = 1 /\ Upsert(x).order[1] = x
        BY DEF Upsert
      <3>. QED BY <1>0, <1>1, <2>1, <3>1, <3>2 DEF Comes
    <2>4. k \in 1..1 <=> k = 1
      OBVIOUS
    <2>. QED BY <1>1, <2>2, <2>3, <2>4
  <1>2. CASE n # L + 1
    <2>1. n \in 1..Len(queue'[i]) <=> n \in 1..Len(queue[i])
      BY <1>0, <1>2
    <2>2. n \in 1..Len(queue[i]) => queue'[i][n] = queue[i][n]
      BY <1>0
    <2>3. Comes(i, n, k, m)' <=> Comes(i, n, k, m)
      BY <2>1, <2>2 DEF Comes
    <2>. QED BY <1>2, <2>3
  <1>. QED BY <1>1, <1>2

(* A message comes.                                                         *)
LEMMA ArrivalKept ==
  ASSUME ChatTypes, ChatTypes', NEW i \in Instances, Kept(i), NEW x \in Messages, NEW o, NEW to,
         ~Exists(x), Appeared(x, o, to), o \in Instances => o \in to, i \in to,
         \/ queue'[i] = Append(queue[i], Upsert(x))
         \/ /\ Len(queue[i]) > 1 /\ queue[i][Len(queue[i])].type = "upsert"
            /\ queue'[i] = Joined(queue[i], x),
         at'[i] = at[i], call'[i] = call[i],
         RowsStay(i), MarksStay(i), Unskipped(i), GroupStays
  PROVE  Kept(i)'
PROOF
  <1>. DEFINE q == queue[i]
  <1>0. q \in Seq(Batches) /\ Len(q) \in Nat /\ \A n \in 1..Len(q) : q[n] \in Batches
    BY LenProperties, ElementOfSeq DEF ChatTypes
  <1>l. PICK L \in Nat : L = Len(q)
    BY <1>0
  <1>1. PICK N, K \in Nat :
          /\ \A m \in Messages, n, k \in Nat : Comes(i, n, k, m)' <=> Comes(i, n, k, m) \/ (n = N /\ k = K /\ m = x)
          /\ ToCome(i, N, K)
          /\ \A n, m : Updates(i, n, m)' <=> Updates(i, n, m)
          /\ \A n, m : Holds(i, n, m) => Holds(i, n, m)'
          /\ Holds(i, N, x)'
          /\ PlaceOK(i)'
    <2>1. CASE q' = Append(q, Upsert(x))
      <3>0. Upsert(x) \in Batches /\ Upsert(x).type = "upsert" /\ Upsert(x).msgs = {x}
            /\ Len(Upsert(x).order) = 1 /\ Upsert(x).order[1] = x
        BY DEF Upsert, Batches
      <3>1. /\ Len(queue'[i]) = L + 1
            /\ \A n \in 1..L : queue'[i][n] = q[n]
            /\ queue'[i][L + 1] = Upsert(x)
            /\ queue'[i] # <<>>
        BY <1>0, <1>l, <2>1, <3>0, AppendProperties
      <3>2. \A n : n \in 1..L + 1 <=> n \in 1..L \/ n = L + 1
        BY <1>0, <1>l
      <3>3. ~(L + 1 \in 1..L)
        BY <1>0, <1>l
      <3>4. \A m \in Messages, n, k \in Nat : Comes(i, n, k, m)' <=> Comes(i, n, k, m) \/ (n = L + 1 /\ k = 1 /\ m = x)
        BY <1>0, <1>l, <2>1, AppendedComes
      <3>5. \A n, m : Updates(i, n, m)' <=> Updates(i, n, m)
        BY <1>l, <3>0, <3>1, <3>2, <3>3 DEF Updates, Holds
      <3>6. \A n, m : Holds(i, n, m) => Holds(i, n, m)'
        BY <1>l, <3>0, <3>1, <3>2, <3>3 DEF Holds
      <3>7. Holds(i, L + 1, x)'
        BY <1>0, <1>l, <3>0, <3>1 DEF Holds
      <3>8. ToCome(i, L + 1, 1)
        <4>1. CASE L = 0
          <5>1. q = <<>>
            BY <1>0, <1>l, <4>1, EmptySeq
          <5>. QED BY <5>1 DEF Kept, PlaceOK, ToCome, Waiting
        <4>2. CASE L # 0
          BY <1>0, <1>l, <4>2 DEF ToCome
        <4>. QED BY <4>1, <4>2
      <3>9. PlaceOK(i)'
        <4>1. q # <<>> => 1 \in 1..L
          BY <1>0, <1>l, EmptySeq
        <4>2. at[i].pc # "next" => at[i] # Waiting
          BY DEF Waiting
        <4>. QED BY <1>l, <3>1, <4>1, <4>2 DEF Kept, PlaceOK
      <3>. L + 1 \in Nat /\ 1 \in Nat
        BY <1>l
      <3>. WITNESS L + 1 \in Nat, 1 \in Nat
      <3>. QED BY <3>4, <3>5, <3>6, <3>7, <3>8, <3>9
    <2>2. CASE Len(q) > 1 /\ q[Len(q)].type = "upsert" /\ q' = Joined(q, x)
      <3>0. PICK s : s = q[L].order
        OBVIOUS
      <3>1. /\ Len(queue'[i]) = L
            /\ \A n \in 1..L : n # L => queue'[i][n] = q[n]
            /\ queue'[i][L].type = "upsert"
            /\ queue'[i][L].msgs = q[L].msgs \cup {x}
            /\ queue'[i][L].order = Append(s, x)
        BY <1>0, <1>l, <2>2, <3>0, JoinTyped
      <3>2. s \in Seq(Messages) /\ L \in 1..L /\ Len(s) \in Nat
        <4>1. L \in 1..L
          BY <1>l, <2>2
        <4>2. s \in Seq(Messages)
          BY <1>0, <1>l, <3>0, <4>1 DEF Batches
        <4>. QED BY <4>1, <4>2, LenProperties
      <3>3. /\ Len(Append(s, x)) = Len(s) + 1
            /\ \A k \in 1..Len(s) : Append(s, x)[k] = s[k]
            /\ Append(s, x)[Len(s) + 1] = x
        BY <3>2, AppendProperties
      <3>4. \A m \in Messages, n, k \in Nat : Comes(i, n, k, m)' <=> Comes(i, n, k, m) \/ (n = L /\ k = Len(s) + 1 /\ m = x)
        <4>. SUFFICES ASSUME NEW m \in Messages, NEW n \in Nat, NEW k \in Nat
                      PROVE  Comes(i, n, k, m)' <=> Comes(i, n, k, m) \/ (n = L /\ k = Len(s) + 1 /\ m = x)
          BY Zenon
        <4>1. CASE n = L
          <5>1. Comes(i, n, k, m)' <=> k \in 1..Len(s) + 1 /\ Append(s, x)[k] = m
            BY <1>l, <3>0, <3>1, <3>2, <3>3, <4>1 DEF Comes
          <5>2. Comes(i, n, k, m) <=> k \in 1..Len(s) /\ s[k] = m
            BY <1>l, <3>0, <2>2, <3>2, <4>1 DEF Comes
          <5>3. k \in 1..Len(s) + 1 <=> k \in 1..Len(s) \/ k = Len(s) + 1
            BY <3>2
          <5>4. ~(Len(s) + 1 \in 1..Len(s))
            BY <3>2
          <5>. QED BY <3>3, <4>1, <5>1, <5>2, <5>3, <5>4
        <4>2. CASE n # L
          BY <1>l, <3>0, <3>1, <4>2 DEF Comes
        <4>. QED BY <4>1, <4>2
      <3>5. \A n, m : Updates(i, n, m)' <=> Updates(i, n, m)
        BY <1>l, <3>0, <2>2, <3>1 DEF Updates, Holds
      <3>6. \A n, m : Holds(i, n, m) => Holds(i, n, m)'
        BY <1>l, <3>0, <3>1 DEF Holds
      <3>7. Holds(i, L, x)'
        BY <1>l, <3>0, <3>1, <3>2 DEF Holds
      <3>8. ToCome(i, L, Len(s) + 1)
        BY <1>0, <1>l, <2>2 DEF ToCome
      <3>9. PlaceOK(i)'
        <4>1. 1 \in 1..L /\ 1 # L
          BY <1>0, <1>l, <2>2
        <4>2. q # <<>> /\ q' # <<>>
          <5>1. Len(q) # 0 /\ Len(q') # 0
            BY <1>l, <2>2, <3>1
          <5>. QED BY <5>1, EmptySeq
        <4>. QED BY <1>l, <3>1, <4>1, <4>2 DEF Kept, PlaceOK
      <3>. L \in Nat /\ Len(s) + 1 \in Nat
        BY <3>2
      <3>. WITNESS L \in Nat, Len(s) + 1 \in Nat
      <3>. QED BY <3>4, <3>5, <3>6, <3>7, <3>8, <3>9
    <2>. QED BY <2>1, <2>2
  <1>2. \A m \in Messages, n, k \in Nat : /\ ToCome(i, n, k)' <=> ToCome(i, n, k)
                                          /\ InWork(i, n, k)' <=> InWork(i, n, k)
                                          /\ ToCome(i, n, k) => ~InWork(i, n, k)
    BY DEF ToCome, InWork, Kept, PlaceOK, ChatTypes, Places
  <1>3. /\ Exists(x)' /\ phone'[x].to = to /\ phone'[x].from = o
        /\ \A m \in Messages : m # x => phone'[m] = phone[m] /\ (Exists(m)' <=> Exists(m))
        /\ \A m \in Messages : m # x => (FromMe(i, m)' <=> FromMe(i, m))
    BY DEF Appeared, Exists, FromMe
  <1>4. row[i][x].copies = 0 /\ ~told[i][x]
    BY DEF Kept, Written
  <1>5. \A n, k \in Nat : ~Comes(i, n, k, x) /\ ~Updates(i, n, x)
    BY DEF Kept, InChat
  <1>6. InChat(i)'
    BY <1>1, <1>3, <1>5 DEF Kept, InChat
  <1>7. ComesOnce(i)'
    BY <1>1, <1>5 DEF Kept, ComesOnce
  <1>8. ComesFirst(i)'
    BY <1>1, <1>5 DEF Kept, ComesFirst
  <1>9. Written(i)'
    <2>1. FromMe(i, x)' => i \in phone'[x].to
      BY <1>3
    <2>. QED BY <1>3, <2>1 DEF Kept, Written, RowsStay
  <1>10. call[i] # NoCall => call[i].m \in Messages /\ call[i].m # x
    BY CallTyped DEF Kept, RequestOK
  <1>11. RequestOK(i)' /\ RequestRows(i)'
    <2>1. call[i].op \in {"send", "tell"} => call[i] # NoCall
      BY DEF NoCall
    <2>2. RequestOK(i)'
      <3>1. call[i] # NoCall => Exists(call[i].m)' /\ FromMe(i, call[i].m)'
        BY <1>3, <1>10 DEF Kept, RequestOK
      <3>2. Exists(call[i].m)' = (phone'[call[i].m].time > 0) /\ FromMe(i, call[i].m)' = (phone'[call[i].m].from = i)
        BY DEF Exists, FromMe
      <3>3. call'[i].op \in {"send", "tell"} => \A n, k \in Nat : ~Comes(i, n, k, call[i].m)'
        BY <1>1, <1>10, <2>1 DEF Kept, RequestOK
      <3>. QED BY <3>1, <3>2, <3>3 DEF RequestOK, Exists, FromMe, Comes
    <2>3. RequestRows(i)'
      BY <1>10, <2>1 DEF Kept, RequestRows, RowsStay, MarksStay
    <2>. QED BY <2>2, <2>3
  <1>12. RowsCome(i)'
    <2>. SUFFICES ASSUME NEW m \in Messages, NEW n \in Nat, NEW k \in Nat, Comes(i, n, k, m)'
                  PROVE  /\ ToCome(i, n, k)' => row'[i][m].copies = 0 /\ ~told'[i][m]
                         /\ InWork(i, n, k)' => row'[i][m].copies = 1 /\ ~told'[i][m]
      BY DEF RowsCome
    <2>1. row'[i][m].copies = row[i][m].copies /\ told'[i][m] = told[i][m]
      BY DEF RowsStay
    <2>2. CASE Comes(i, n, k, m)
      BY <1>2, <2>1, <2>2 DEF Kept, RowsCome
    <2>3. CASE n = N /\ k = K /\ m = x
      BY <1>1, <1>2, <1>4, <2>1, <2>3
    <2>. QED BY <1>1, <2>2, <2>3
  <1>13. Tracked(i)'
    <2>1. \A m : Comings(i, m) /\ m \in Messages => Comings(i, m)'
      BY <1>1, <1>2 DEF Comings
    <2>2. Comings(i, x)'
      BY <1>1, <1>2 DEF Comings
    <2>. QED BY <1>3, <2>1, <2>2, Ignores DEF Kept, Tracked, RowsStay, MarksStay
  <1>14. Skips(i)'
    <2>1. "skipped" \notin marks'[i][x]  \/ "cut" \in marks'[i][x] \/ FromMe(i, x)' \/ Ignored(i)'
      BY Ignores DEF Kept, Skips, Unskipped, MarksStay, Written
    <2>. QED BY <1>3, <2>1, Ignores DEF Kept, Skips, Unskipped, MarksStay
  <1>. QED BY <1>1, <1>6, <1>7, <1>8, <1>9, <1>11, <1>12, <1>13, <1>14 DEF Kept

(* A message is sent through i, or appears where i is not.                  *)
LEMMA SentKept ==
  ASSUME ChatTypes, ChatTypes', NEW i \in Instances, Kept(i), NEW x \in Messages, NEW o, NEW to,
         ~Exists(x), Appeared(x, o, to), queue'[i] = queue[i], at'[i] = at[i],
         \/ i \notin to /\ o # i /\ call'[i] = call[i]
         \/ i \in to /\ o = i /\ call[i] = NoCall /\ call'[i] = [op |-> "send", m |-> x],
         RowsStay(i), MarksStay(i), Unskipped(i), GroupStays
  PROVE  Kept(i)'
PROOF
  <1>1. \A m, n, k : /\ Comes(i, n, k, m)' <=> Comes(i, n, k, m)
                     /\ Holds(i, n, m)' <=> Holds(i, n, m)
                     /\ Updates(i, n, m)' <=> Updates(i, n, m)
                     /\ ToCome(i, n, k)' <=> ToCome(i, n, k)
                     /\ InWork(i, n, k)' <=> InWork(i, n, k)
    BY DEF Comes, Holds, Updates, ToCome, InWork
  <1>2. \A m : Comings(i, m)' <=> Comings(i, m)
    BY <1>1 DEF Comings
  <1>3. /\ Exists(x)' /\ phone'[x].to = to /\ phone'[x].from = o
        /\ \A m \in Messages : m # x => phone'[m] = phone[m] /\ (Exists(m)' <=> Exists(m))
        /\ \A m \in Messages : m # x => (FromMe(i, m)' <=> FromMe(i, m))
    BY DEF Appeared, Exists, FromMe
  <1>4. /\ row[i][x].copies = 0 /\ ~told[i][x] /\ ~FromMe(i, x)
        /\ \A n, k \in Nat : ~Comes(i, n, k, x) /\ ~Updates(i, n, x)
    BY DEF Kept, Written, InChat
  <1>5. InChat(i)' /\ ComesOnce(i)' /\ ComesFirst(i)'
    <2>1. \A m \in Messages, n, k \in Nat : Comes(i, n, k, m)' => Exists(m)' /\ i \in phone'[m].to /\ Holds(i, n, m)'
      BY <1>1, <1>3, <1>4 DEF Kept, InChat
    <2>2. \A m \in Messages, n \in Nat : Updates(i, n, m)' => Exists(m)' /\ i \in phone'[m].to
      BY <1>1, <1>3, <1>4 DEF Kept, InChat
    <2>3. ComesOnce(i)' /\ ComesFirst(i)'
      BY <1>1 DEF Kept, ComesOnce, ComesFirst
    <2>. QED BY <2>1, <2>2, <2>3 DEF InChat
  <1>6. FromMe(i, x)' <=> o = i
    BY <1>3 DEF FromMe
  <1>7. Written(i)'
    BY <1>3, <1>6 DEF Kept, Written, RowsStay
  <1>8. PlaceOK(i)' /\ RowsCome(i)'
    BY <1>1 DEF Kept, PlaceOK, RowsCome, RowsStay
  <1>9. call[i] # NoCall => call[i].m \in Messages /\ call[i].m # x
    BY CallTyped DEF Kept, RequestOK
  <1>10. RequestOK(i)' /\ RequestRows(i)'
    <2>1. CASE call'[i] = call[i]
      <3>1. call[i] # NoCall => Exists(call[i].m)' /\ FromMe(i, call[i].m)'
        BY <2>1, <1>3, <1>9 DEF Kept, RequestOK, Exists, FromMe
      <3>2. RequestOK(i)'
        <4>1. call[i].op \in {"send", "tell"} => \A n, k \in Nat : ~Comes(i, n, k, call[i].m)
          BY DEF Kept, RequestOK
        <4>. QED BY <1>1, <1>9, <2>1, <3>1, <4>1, CallTyped DEF RequestOK, Exists,
                        FromMe
      <3>3. RequestRows(i)'
        BY <1>9, <2>1, CallTyped DEF Kept, RequestRows, RowsStay, MarksStay
      <3>. QED BY <3>2, <3>3
    <2>2. CASE o = i /\ call'[i] = [op |-> "send", m |-> x]
      BY <1>1, <1>3, <1>4, <1>6, <2>2 DEF RequestOK, RequestRows, RowsStay, Exists,
             FromMe
    <2>. QED BY <2>1, <2>2
  <1>11. Tracked(i)'
    <2>. SUFFICES ASSUME NEW m \in Messages, Exists(m)', i \in phone'[m].to, ~Ignored(i)', "cut" \notin marks'[i][m]
                  PROVE  \/ Comings(i, m)'
                         \/ call'[i].op \in {"send", "tell"} /\ call'[i].m = m
                         \/ row'[i][m].copies > 0 /\ ("stale" \in marks'[i][m] \/ (row'[i][m].copies = 1 /\ told'[i][m]))
      BY DEF Tracked
    <2>1. CASE m = x
      BY <1>3, <2>1
    <2>2. CASE m # x
      <3>1. Exists(m) /\ i \in phone[m].to /\ ~Ignored(i) /\ "cut" \notin marks[i][m]
        BY <1>3, <2>2, Ignores DEF MarksStay
      <3>2. call[i].op \in {"send", "tell"} /\ call[i].m = m => call'[i] = call[i]
        BY DEF NoCall
      <3>. QED BY <1>2, <3>1, <3>2 DEF Kept, Tracked, RowsStay, MarksStay
    <2>. QED BY <2>1, <2>2
  <1>12. Skips(i)'
    <2>1. "skipped" \notin marks'[i][x]  \/ "cut" \in marks'[i][x] \/ FromMe(i, x)' \/ Ignored(i)'
      BY <1>4, Ignores DEF Kept, Skips, Unskipped, MarksStay
    <2>. QED BY <1>3, <2>1, Ignores DEF Kept, Skips, Unskipped, MarksStay
  <1>. QED BY <1>5, <1>7, <1>8, <1>10, <1>11, <1>12 DEF Kept

(* The message in the first batch whose turn it is.                         *)
LEMMA CurrentComes ==
  ASSUME ChatTypes, NEW i \in Instances, Kept(i), Busy(i, {"upsert"}),
         at[i].pc = "next" => at[i].n <= Len(Head1(i).order)
  PROVE  Current(i) \in Messages /\ at[i].n \in Nat /\ Comes(i, 1, at[i].n, Current(i))
PROOF
  <1>1. queue[i] # <<>> /\ 1 \in 1..Len(queue[i]) /\ Head1(i) = queue[i][1] /\ Head1(i) \in Batches
        /\ Head1(i).type = "upsert"
    BY HeadTyped DEF Busy
  <1>2. Len(Head1(i).order) \in Nat /\ at[i].n \in Nat
    BY <1>1 DEF Batches, ChatTypes, Places
  <1>3. at[i].n \in 1..Len(Head1(i).order)
    BY <1>1, <1>2 DEF Kept, PlaceOK
  <1>. QED BY <1>1, <1>2, <1>3, HeadTyped DEF Comes, Current

(* The message whose turn it is, x at place k, moves on: to pc, or to the   *)
(* next place.  Its row and whether it was told change with it.             *)
LEMMA TurnKept ==
  ASSUME ChatTypes, ChatTypes', NEW i \in Instances, Kept(i), NEW x \in Messages, NEW k0 \in Nat,
         Comes(i, 1, k0, x), at[i].n = k0, queue'[i] = queue[i], call'[i] = call[i],
         \/ /\ at[i].pc = "next" /\ at'[i].n = k0 /\ at'[i].pc = "count"
            /\ row'[i][x].copies = row[i][x].copies + 1 /\ told'[i][x] = told[i][x]
         \/ /\ at[i].pc = "count" /\ at'[i].n = k0 /\ at'[i].pc = "tell"
            /\ row'[i][x].copies = row[i][x].copies /\ told'[i][x] = told[i][x]
         \/ /\ at[i].pc = "tell" /\ at'[i].n = k0 + 1 /\ at'[i].pc = "next"
            /\ row'[i][x].copies = row[i][x].copies /\ told'[i][x],
         \A m \in Messages : m # x => row'[i][m].copies = row[i][m].copies /\ told'[i][m] = told[i][m],
         MarksStay(i), Unskipped(i), PhonesStay, GroupStays
  PROVE  Kept(i)'
PROOF
  <1>1. \A m, n, k : /\ Comes(i, n, k, m)' <=> Comes(i, n, k, m)
                     /\ Holds(i, n, m)' <=> Holds(i, n, m)
                     /\ Updates(i, n, m)' <=> Updates(i, n, m)
    BY DEF Comes, Holds, Updates
  <1>2. InChat(i)' /\ ComesOnce(i)' /\ ComesFirst(i)'
    BY <1>1 DEF Kept, InChat, ComesOnce, ComesFirst, PhonesStay
  <1>3. \A n, k \in Nat : Comes(i, n, k, x) <=> n = 1 /\ k = k0
    BY DEF Kept, ComesOnce
  <1>4. \A m \in Messages, n, k \in Nat : Comes(i, n, k, m) /\ m # x => ~(n = 1 /\ k = k0)
    BY DEF Comes
  <1>5. \A n, k \in Nat : ~(n = 1 /\ k = k0) =>
           (ToCome(i, n, k)' <=> ToCome(i, n, k)) /\ (InWork(i, n, k)' <=> InWork(i, n, k))
    <2>1. \A n, k \in Nat : ~(n = 1 /\ k = k0) => (ToCome(i, n, k)' <=> ToCome(i, n, k))
      BY DEF ToCome
    <2>2. \A n, k \in Nat : ~(n = 1 /\ k = k0) => (InWork(i, n, k)' <=> InWork(i, n, k))
      BY DEF InWork
    <2>. QED BY <2>1, <2>2
  <1>6. /\ ToCome(i, 1, k0) <=> at[i].pc = "next"
        /\ InWork(i, 1, k0) <=> at[i].pc # "next"
        /\ ~ToCome(i, 1, k0)'
        /\ InWork(i, 1, k0)' <=> at[i].pc # "tell"
    BY DEF ToCome, InWork
  <1>7. /\ row[i][x].copies = (IF at[i].pc = "next" THEN 0 ELSE 1) /\ ~told[i][x]
    BY <1>6 DEF Kept, RowsCome
  <1>8. row'[i][x].copies = 1 /\ (told'[i][x] <=> at[i].pc = "tell")
    BY <1>7
  <1>9. RowsCome(i)'
    <2>. SUFFICES ASSUME NEW m \in Messages, NEW n \in Nat, NEW k \in Nat, Comes(i, n, k, m)
                  PROVE  /\ ToCome(i, n, k)' => row'[i][m].copies = 0 /\ ~told'[i][m]
                         /\ InWork(i, n, k)' => row'[i][m].copies = 1 /\ ~told'[i][m]
      BY <1>1 DEF RowsCome
    <2>1. CASE m = x
      BY <1>3, <1>6, <1>8, <2>1
    <2>2. CASE m # x
      BY <1>4, <1>5, <2>2 DEF Kept, RowsCome
    <2>. QED BY <2>1, <2>2
  <1>10. Exists(x) /\ i \in phone[x].to
    BY DEF Kept, InChat
  <1>11. Written(i)'
    BY <1>10, FromStays DEF Kept, Written, PhonesStay
  <1>12. PlaceOK(i)'
    <2>1. queue[i] # <<>> /\ queue[i][1].type = "upsert" /\ k0 \in 1..Len(queue[i][1].order)
      <3>1. queue[i] = <<>> => Len(queue[i]) = 0
        BY EmptySeq
      <3>. QED BY <3>1 DEF Comes
    <2>. QED BY <2>1 DEF PlaceOK
  <1>13. call[i].op \in {"send", "tell"} => call[i].m # x
    BY DEF Kept, RequestOK
  <1>14. RequestOK(i)' /\ RequestRows(i)'
    <2>1. call[i].op \in {"send", "tell"} => call[i].m \in Messages
      BY CallTyped DEF NoCall
    <2>2. RequestRows(i)'
      BY <1>13, <2>1 DEF Kept, RequestRows, MarksStay
    <2>3. RequestOK(i)'
      BY <1>1, CallTyped, FromStays DEF Kept, RequestOK, PhonesStay, NoCall
    <2>. QED BY <2>2, <2>3
  <1>15. Tracked(i)'
    <2>. SUFFICES ASSUME NEW m \in Messages, Exists(m)', i \in phone'[m].to, ~Ignored(i)', "cut" \notin marks'[i][m]
                  PROVE  \/ Comings(i, m)'
                         \/ call'[i].op \in {"send", "tell"} /\ call'[i].m = m
                         \/ row'[i][m].copies > 0 /\ ("stale" \in marks'[i][m] \/ (row'[i][m].copies = 1 /\ told'[i][m]))
      BY DEF Tracked
    <2>1. CASE m = x
      <3>1. CASE at[i].pc = "tell"
        BY <1>8, <2>1, <3>1
      <3>2. CASE at[i].pc # "tell"
        BY <1>1, <1>6, <2>1, <3>2 DEF Comings
      <3>. QED BY <3>1, <3>2
    <2>2. CASE m # x
      <3>1. Exists(m) /\ i \in phone[m].to /\ ~Ignored(i) /\ "cut" \notin marks[i][m]
        BY Ignores DEF PhonesStay, MarksStay
      <3>2. Comings(i, m) => Comings(i, m)'
        BY <1>1, <1>4, <1>5, <2>2 DEF Comings
      <3>. QED BY <2>2, <3>1, <3>2 DEF Kept, Tracked, MarksStay
    <2>. QED BY <2>1, <2>2
  <1>16. Skips(i)'
    BY Ignores, FromStays DEF Kept, Skips, Unskipped, MarksStay
  <1>. QED BY <1>2, <1>9, <1>11, <1>12, <1>14, <1>15, <1>16 DEF Kept

(* What an update in work misses has a reason.                              *)
LEMMA SkipsKept ==
  ASSUME ChatTypes, NEW i \in Instances, Kept(i), PhonesStay, GroupStays, MarksStay(i),
         \A m \in Messages : "skipped" \in marks'[i][m] =>
           "skipped" \in marks[i][m] \/ (Updates(i, 1, m) /\ row[i][m].copies = 0)
  PROVE  Skips(i)'
PROOF
  <1>1. ASSUME NEW m \in Messages, Updates(i, 1, m), row[i][m].copies = 0
        PROVE  "cut" \in marks[i][m] \/ FromMe(i, m) \/ Ignored(i)
    <2>. SUFFICES ASSUME "cut" \notin marks[i][m], ~Ignored(i) PROVE FromMe(i, m)
      OBVIOUS
    <2>1. Exists(m) /\ i \in phone[m].to
      BY <1>1 DEF Kept, InChat
    <2>2. ~Comings(i, m)
      <3>1. \A n, k \in Nat : Comes(i, n, k, m) => n < 1 /\ n \in 1..Len(queue[i])
        BY <1>1 DEF Kept, ComesFirst, Comes
      <3>. QED BY <3>1 DEF Comings
    <2>3. call[i].op \in {"send", "tell"} /\ call[i].m = m
      BY <1>1, <2>1, <2>2 DEF Kept, Tracked
    <2>. QED BY <2>3 DEF Kept, RequestOK, NoCall
  <1>. QED BY <1>1, Ignores, FromStays DEF Kept, Skips, MarksStay

(* The first batch goes.                                                    *)
LEMMA DoneKept ==
  ASSUME ChatTypes, ChatTypes', NEW i \in Instances, Kept(i),
         queue[i] # <<>>, queue'[i] = Tail(queue[i]), at'[i] = Waiting, call'[i] = call[i],
         PhonesStay, GroupStays, MarksStay(i), Skips(i)',
         \A m \in Messages, k \in Nat :
           Comes(i, 1, k, m) /\ (ToCome(i, 1, k) \/ InWork(i, 1, k)) => Ignored(i) \/ "cut" \in marks'[i][m],
         \A m \in Messages : told'[i][m] = told[i][m],
         \A m \in Messages :
           \/ row'[i][m].copies = row[i][m].copies
           \/ /\ Updates(i, 1, m) /\ row'[i][m].copies > 0
              /\ row[i][m].copies > 0 \/ call[i] = [op |-> "send", m |-> m] => "stale" \in marks'[i][m]
              /\ row[i][m].copies = 0 => row'[i][m].copies = 1
  PROVE  Kept(i)'
PROOF
  <1>1. PICK L \in Nat : L = Len(queue[i]) /\ L > 0
    BY EmptySeq, LenProperties DEF ChatTypes
  <1>2. Len(queue'[i]) = L - 1 /\ \A n \in 1..L - 1 : queue'[i][n] = queue[i][n + 1]
    BY <1>1, HeadTailProperties DEF ChatTypes
  <1>3. \A n \in Nat : n \in 1..L - 1 <=> n # 0 /\ n + 1 \in 1..L
    BY <1>1
  <1>5. \A m \in Messages, n, k \in Nat : Comes(i, n, k, m)' <=> n # 0 /\ Comes(i, n + 1, k, m)
    BY <1>1, <1>2, <1>3 DEF Comes
  <1>6. \A m \in Messages, n \in Nat : Holds(i, n, m)' <=> n # 0 /\ Holds(i, n + 1, m)
    BY <1>1, <1>2, <1>3 DEF Holds
  <1>7. \A m \in Messages, n \in Nat : Updates(i, n, m)' <=> n # 0 /\ Updates(i, n + 1, m)
    BY <1>1, <1>2, <1>3 DEF Updates, Holds
  <1>8. \A m \in Messages, n, k \in Nat : Comes(i, n, k, m) => n # 0 /\ k # 0
    BY DEF Comes
  <1>9. \A n, k \in Nat : k # 0 => ToCome(i, n, k)' /\ ~InWork(i, n, k)'
    BY DEF ToCome, InWork, Waiting
  <1>10. \A n, k \in Nat : n # 0 /\ n # 1 => ToCome(i, n, k)
    BY DEF ToCome
  <1>11. InChat(i)'
    <2>1. \A m \in Messages, n, k \in Nat : Comes(i, n, k, m)' => Exists(m) /\ i \in phone[m].to /\ Holds(i, n, m)'
      <3>1. ASSUME NEW m \in Messages, NEW n \in Nat, NEW k \in Nat, Comes(i, n, k, m)'
            PROVE  Exists(m) /\ i \in phone[m].to /\ Holds(i, n, m)'
        <4>1. n + 1 \in Nat /\ n # 0 /\ Comes(i, n + 1, k, m)
          BY <1>5, <3>1
        <4>2. Exists(m) /\ i \in phone[m].to /\ Holds(i, n + 1, m)
          BY <4>1 DEF Kept, InChat
        <4>. QED BY <1>6, <4>1, <4>2
      <3>. QED BY <3>1
    <2>2. \A m \in Messages, n \in Nat : Updates(i, n, m)' => Exists(m) /\ i \in phone[m].to
      <3>1. ASSUME NEW m \in Messages, NEW n \in Nat, Updates(i, n, m)' PROVE Exists(m) /\ i \in phone[m].to
        <4>1. n + 1 \in Nat /\ Updates(i, n + 1, m)
          BY <1>7, <3>1
        <4>. QED BY <4>1 DEF Kept, InChat
      <3>. QED BY <3>1
    <2>. QED BY <2>1, <2>2 DEF InChat, PhonesStay
  <1>12. ComesOnce(i)'
    <2>. SUFFICES ASSUME NEW m \in Messages, NEW n1 \in Nat, NEW n2 \in Nat, NEW k1 \in Nat, NEW k2 \in Nat,
                         Comes(i, n1, k1, m)', Comes(i, n2, k2, m)'
                  PROVE  n1 = n2 /\ k1 = k2
      BY DEF ComesOnce
    <2>1. Comes(i, n1 + 1, k1, m) /\ Comes(i, n2 + 1, k2, m)
      BY <1>5
    <2>2. n1 + 1 \in Nat /\ n2 + 1 \in Nat
      OBVIOUS
    <2>3. n1 + 1 = n2 + 1 /\ k1 = k2
      BY <2>1, <2>2 DEF Kept, ComesOnce
    <2>. QED BY <2>3
  <1>13. ComesFirst(i)'
    <2>. SUFFICES ASSUME NEW m \in Messages, NEW n \in Nat, NEW k \in Nat, NEW n2 \in Nat,
                         Comes(i, n + 1, k, m), Updates(i, n2 + 1, m)
                  PROVE  n < n2
      BY <1>5, <1>7 DEF ComesFirst
    <2>2. n + 1 \in Nat /\ n2 + 1 \in Nat
      OBVIOUS
    <2>1. n + 1 < n2 + 1
      BY <2>2 DEF Kept, ComesFirst
    <2>. QED BY <2>1
  <1>14. \A m \in Messages, n, k \in Nat : Comes(i, n, k, m) => ~Updates(i, 1, m)
    <2>. SUFFICES ASSUME NEW m \in Messages, NEW n \in Nat, NEW k \in Nat, Comes(i, n, k, m), Updates(i, 1, m)
                  PROVE  FALSE
      OBVIOUS
    <2>1. n < 1
      BY DEF Kept, ComesFirst
    <2>. QED BY <1>8, <2>1
  <1>15. RowsCome(i)'
    <2>. SUFFICES ASSUME NEW m \in Messages, NEW n \in Nat, NEW k \in Nat, n # 0, Comes(i, n + 1, k, m)
                  PROVE  ~InWork(i, n, k)' /\ row'[i][m].copies = 0 /\ ~told'[i][m]
      BY <1>5 DEF RowsCome
    <2>1. ToCome(i, n + 1, k)
      BY <1>10
    <2>2. row[i][m].copies = 0 /\ ~told[i][m]
      BY <2>1 DEF Kept, RowsCome
    <2>5. n + 1 \in Nat
      OBVIOUS
    <2>3. row'[i][m].copies = row[i][m].copies
      BY <1>14, <2>5
    <2>4. k # 0
      BY <1>8
    <2>. QED BY <1>9, <2>2, <2>3, <2>4
  <1>16. Written(i)'
    <2>1. \A m \in Messages : ~Exists(m) => row'[i][m].copies = row[i][m].copies
      BY DEF Kept, InChat
    <2>. QED BY <2>1, FromStays DEF Kept, Written, PhonesStay
  <1>17. PlaceOK(i)'
    BY DEF PlaceOK, Waiting
  <1>18. RequestOK(i)'
    <2>1. call[i].op \in {"send", "tell"} => \A n, k \in Nat : ~Comes(i, n, k, call[i].m)'
      BY <1>5, CallTyped DEF Kept, RequestOK, NoCall
    <2>. QED BY <2>1, CallTyped, FromStays DEF Kept, RequestOK, PhonesStay
  <1>19. RequestRows(i)'
    <2>1. call[i].op \in {"send", "tell"} => call[i].m \in Messages
      BY CallTyped DEF NoCall
    <2>2. call[i].op = "send" => call[i] = [op |-> "send", m |-> call[i].m]
      BY DEF ChatTypes, Asks, NoCall
    <2>3. \A m \in Messages : row[i][m].copies \in Nat
      BY DEF ChatTypes, Copies
    <2>. QED BY <2>1, <2>2, <2>3, SMTT(40) DEF Kept, RequestRows, MarksStay
  <1>20. Tracked(i)'
    <2>. SUFFICES ASSUME NEW m \in Messages, Exists(m)', i \in phone'[m].to, ~Ignored(i)', "cut" \notin marks'[i][m]
                  PROVE  \/ Comings(i, m)'
                         \/ call'[i].op \in {"send", "tell"} /\ call'[i].m = m
                         \/ row'[i][m].copies > 0 /\ ("stale" \in marks'[i][m] \/ (row'[i][m].copies = 1 /\ told'[i][m]))
      BY DEF Tracked
    <2>1. Exists(m) /\ i \in phone[m].to /\ ~Ignored(i) /\ "cut" \notin marks[i][m]
      BY Ignores DEF PhonesStay, MarksStay
    <2>2. CASE Comings(i, m)
      <3>1. PICK n, k \in Nat : Comes(i, n, k, m) /\ (ToCome(i, n, k) \/ InWork(i, n, k))
        BY <2>2 DEF Comings
      <3>2. n # 1 /\ n # 0 /\ k # 0
        BY <1>8, <2>1, <3>1
      <3>3. PICK j \in Nat : j + 1 = n /\ j # 0
        <4>1. n - 1 \in Nat /\ (n - 1) + 1 = n /\ n - 1 # 0
          BY <3>2
        <4>. QED BY <4>1
      <3>4. Comes(i, j, k, m)' /\ ToCome(i, j, k)'
        BY <1>5, <1>9, <3>1, <3>2, <3>3
      <3>. QED BY <3>4 DEF Comings
    <2>3. CASE row[i][m].copies > 0 /\ ("stale" \in marks[i][m] \/ (row[i][m].copies = 1 /\ told[i][m]))
      BY <2>3 DEF MarksStay
    <2>. QED BY <2>1, <2>2, <2>3 DEF Kept, Tracked
  <1>. QED BY <1>11, <1>12, <1>13, <1>15, <1>16, <1>17, <1>18, <1>19, <1>20 DEF Kept

(* A status is taken out of the first batch.                                *)
LEMMA ShrunkKept ==
  ASSUME ChatTypes, ChatTypes', NEW i \in Instances, Kept(i), NEW x,
         queue[i] # <<>>, queue[i][1].type # "upsert",
         queue'[i] = [queue[i] EXCEPT ![1].msgs = @ \ {x}], at'[i] = at[i], call'[i] = call[i],
         PhonesStay, GroupStays, MarksStay(i), RowsStay(i), Skips(i)'
  PROVE  Kept(i)'
PROOF
  <1>0. queue[i] \in Seq(Batches) /\ 1 \in 1..Len(queue[i]) /\ queue[i][1] \in Batches
    BY HeadTyped DEF ChatTypes
  <1>. DEFINE e == [queue[i][1] EXCEPT !.msgs = @ \ {x}]
  <1>1. /\ e \in Batches /\ e.type = queue[i][1].type /\ e.msgs = queue[i][1].msgs \ {x}
        /\ queue'[i] = [queue[i] EXCEPT ![1] = e]
    BY <1>0 DEF Batches
  <1>. HIDE DEF e
  <1>2. /\ Len(queue'[i]) = Len(queue[i])
        /\ \A n \in 1..Len(queue[i]) : queue'[i][n] = IF n = 1 THEN e ELSE queue[i][n]
    <2>. DEFINE f == [queue[i] EXCEPT ![1] = e]
    <2>1. Len(f) = Len(queue[i]) /\ \A n \in 1..Len(queue[i]) : f[n] = IF n = 1 THEN e ELSE queue[i][n]
      BY <1>0, <1>1, ExceptSeq
    <2>. HIDE DEF f
    <2>2. queue'[i] = f
      BY <1>1 DEF f
    <2>. QED BY <2>1, <2>2
  <1>3. \A m, n, k : Comes(i, n, k, m)' <=> Comes(i, n, k, m)
    BY <1>1, <1>2 DEF Comes
  <1>4. \A m, n : Updates(i, n, m)' => Updates(i, n, m)
    BY <1>1, <1>2 DEF Updates, Holds
  <1>5. \A m \in Messages, n, k \in Nat : Comes(i, n, k, m) => (Holds(i, n, m) <=> Holds(i, n, m)')
    BY <1>2 DEF Comes, Holds
  <1>6. \A n, k : /\ ToCome(i, n, k)' <=> ToCome(i, n, k)
                  /\ InWork(i, n, k)' <=> InWork(i, n, k)
    BY DEF ToCome, InWork
  <1>7. \A m : Comings(i, m)' <=> Comings(i, m)
    BY <1>3, <1>6 DEF Comings
  <1>8. InChat(i)'
    <2>1. \A m \in Messages, n, k \in Nat : Comes(i, n, k, m)' => Exists(m) /\ i \in phone[m].to /\ Holds(i, n, m)'
      BY <1>3, <1>5 DEF Kept, InChat
    <2>2. \A m \in Messages, n \in Nat : Updates(i, n, m)' => Exists(m) /\ i \in phone[m].to
      BY <1>4 DEF Kept, InChat
    <2>. QED BY <2>1, <2>2 DEF InChat, PhonesStay
  <1>9. ComesOnce(i)' /\ ComesFirst(i)'
    BY <1>3, <1>4 DEF Kept, ComesOnce, ComesFirst
  <1>10. Written(i)'
    BY FromStays DEF Kept, Written, PhonesStay, RowsStay
  <1>11. PlaceOK(i)'
    <2>1. at[i] = Waiting
      BY DEF Kept, PlaceOK
    <2>. QED BY <2>1 DEF PlaceOK, Waiting
  <1>12. RequestOK(i)'
    BY <1>3, CallTyped, FromStays DEF Kept, RequestOK, PhonesStay, NoCall
  <1>13. RowsCome(i)'
    BY <1>3, <1>6 DEF Kept, RowsCome, RowsStay
  <1>14. RequestRows(i)'
    BY CallTyped DEF Kept, RequestRows, RowsStay, MarksStay, NoCall
  <1>15. Tracked(i)'
    BY <1>7, Ignores DEF Kept, Tracked, RowsStay, MarksStay, PhonesStay
  <1>. QED BY <1>8, <1>9, <1>10, <1>11, <1>12, <1>13, <1>14, <1>15 DEF Kept

(* What was sent through i gets its row, or is told.                        *)
LEMMA SendKept ==
  ASSUME ChatTypes, ChatTypes', NEW i \in Instances, Kept(i), NEW x \in Messages, call[i].m = x,
         queue'[i] = queue[i], at'[i] = at[i],
         \/ /\ call[i].op = "send" /\ call'[i] = [op |-> "tell", m |-> x]
            /\ row'[i][x].copies = row[i][x].copies + 1 /\ told'[i][x] = told[i][x]
         \/ /\ call[i].op = "tell" /\ call'[i] = NoCall
            /\ row'[i][x].copies = row[i][x].copies /\ told'[i][x],
         \A m \in Messages : m # x => row'[i][m].copies = row[i][m].copies /\ told'[i][m] = told[i][m],
         MarksStay(i), Unskipped(i), PhonesStay, GroupStays
  PROVE  Kept(i)'
PROOF
  <1>1. \A m, n, k : /\ Comes(i, n, k, m)' <=> Comes(i, n, k, m)
                     /\ Holds(i, n, m)' <=> Holds(i, n, m)
                     /\ Updates(i, n, m)' <=> Updates(i, n, m)
                     /\ ToCome(i, n, k)' <=> ToCome(i, n, k)
                     /\ InWork(i, n, k)' <=> InWork(i, n, k)
    BY DEF Comes, Holds, Updates, ToCome, InWork
  <1>2. \A m : Comings(i, m)' <=> Comings(i, m)
    BY <1>1 DEF Comings
  <1>3. InChat(i)' /\ ComesOnce(i)' /\ ComesFirst(i)'
    BY <1>1 DEF Kept, InChat, ComesOnce, ComesFirst, PhonesStay
  <1>4. Exists(x) /\ FromMe(i, x) /\ \A n, k \in Nat : ~Comes(i, n, k, x)
    BY DEF Kept, RequestOK, NoCall
  <1>5. row[i][x].copies \in Nat
    BY DEF ChatTypes, Copies
  <1>6. Written(i)'
    BY <1>4, FromStays DEF Kept, Written, PhonesStay
  <1>7. PlaceOK(i)'
    BY DEF Kept, PlaceOK
  <1>8. RequestOK(i)'
    <2>1. Exists(x)' /\ FromMe(i, x)' /\ \A n, k \in Nat : ~Comes(i, n, k, x)'
      BY <1>1, <1>4, FromStays DEF PhonesStay
    <2>. QED BY <2>1 DEF RequestOK, Exists, FromMe, Comes, NoCall
  <1>9. RowsCome(i)'
    <2>. SUFFICES ASSUME NEW m \in Messages, NEW n \in Nat, NEW k \in Nat, Comes(i, n, k, m)'
                  PROVE  /\ ToCome(i, n, k)' => row'[i][m].copies = 0 /\ ~told'[i][m]
                         /\ InWork(i, n, k)' => row'[i][m].copies = 1 /\ ~told'[i][m]
      BY DEF RowsCome
    <2>1. Comes(i, n, k, m) /\ (ToCome(i, n, k)' <=> ToCome(i, n, k)) /\ (InWork(i, n, k)' <=> InWork(i, n, k))
      BY <1>1
    <2>2. m # x
      BY <1>4, <2>1
    <2>3. row'[i][m].copies = row[i][m].copies /\ told'[i][m] = told[i][m]
      BY <2>2
    <2>4. /\ ToCome(i, n, k) => row[i][m].copies = 0 /\ ~told[i][m]
          /\ InWork(i, n, k) => row[i][m].copies = 1 /\ ~told[i][m]
      BY <2>1 DEF Kept, RowsCome
    <2>. QED BY <2>1, <2>3, <2>4
  <1>10. RequestRows(i)'
    BY <1>5 DEF Kept, RequestRows, MarksStay, NoCall
  <1>11. Tracked(i)'
    <2>. SUFFICES ASSUME NEW m \in Messages, Exists(m)', i \in phone'[m].to, ~Ignored(i)', "cut" \notin marks'[i][m]
                  PROVE  \/ Comings(i, m)'
                         \/ call'[i].op \in {"send", "tell"} /\ call'[i].m = m
                         \/ row'[i][m].copies > 0 /\ ("stale" \in marks'[i][m] \/ (row'[i][m].copies = 1 /\ told'[i][m]))
      BY DEF Tracked
    <2>1. CASE m = x
      BY <2>1 DEF Kept, RequestRows, MarksStay
    <2>2. CASE m # x
      <3>1. Exists(m) /\ i \in phone[m].to /\ ~Ignored(i) /\ "cut" \notin marks[i][m]
        BY Ignores DEF PhonesStay, MarksStay
      <3>. QED BY <1>2, <2>2, <3>1 DEF Kept, Tracked, MarksStay
    <2>. QED BY <2>1, <2>2
  <1>12. Skips(i)'
    BY Ignores, FromStays DEF Kept, Skips, Unskipped, MarksStay
  <1>. QED BY <1>3, <1>6, <1>7, <1>8, <1>9, <1>10, <1>11, <1>12 DEF Kept

(* The queue and the request are lost, and what they were about is cut.     *)
LEMMA LostKept ==
  ASSUME ChatTypes, ChatTypes', NEW i \in Instances, Kept(i),
         queue'[i] = <<>>, at'[i] = Waiting, call'[i] = NoCall,
         \A m \in Messages : call[i].m = m \/ (\E n \in 1..Len(queue[i]) : m \in queue[i][n].msgs) => "cut" \in marks'[i][m],
         RowsStay(i), MarksStay(i), Unskipped(i), PhonesStay, GroupStays
  PROVE  Kept(i)'
PROOF
  <1>1. \A m, n, k : ~Comes(i, n, k, m)' /\ ~Holds(i, n, m)' /\ ~Updates(i, n, m)'
    BY EmptySeq DEF Comes, Holds, Updates
  <1>2. InChat(i)' /\ ComesOnce(i)' /\ ComesFirst(i)' /\ RowsCome(i)'
    BY <1>1 DEF InChat, ComesOnce, ComesFirst, RowsCome
  <1>3. Written(i)'
    BY FromStays DEF Kept, Written, PhonesStay, RowsStay
  <1>4. PlaceOK(i)' /\ RequestOK(i)' /\ RequestRows(i)'
    BY DEF PlaceOK, RequestOK, RequestRows, Waiting, NoCall
  <1>5. \A m \in Messages : Comings(i, m) => "cut" \in marks'[i][m]
    BY DEF Comings, Kept, InChat, Holds
  <1>6. Tracked(i)'
    BY <1>5, Ignores DEF Kept, Tracked, RowsStay, MarksStay, PhonesStay
  <1>7. Skips(i)'
    BY Ignores, FromStays DEF Kept, Skips, Unskipped, MarksStay
  <1>. QED BY <1>2, <1>3, <1>4, <1>6, <1>7 DEF Kept

(* What marks besides.                                                      *)
LEMMA MarkStays ==
  ASSUME ChatTypes, NEW i \in Instances, NEW ms, NEW mark \in Marks, Mark(i, ms, mark)
  PROVE  /\ \A j \in Instances : MarksStay(j)
         /\ \A j \in Instances : j # i \/ mark # "skipped" => Unskipped(j)
         /\ mark = "cut" => \A m \in Messages : m \in ms => "cut" \in marks'[i][m]
         /\ \A m \in Messages : "skipped" \in marks'[i][m] => "skipped" \in marks[i][m] \/ m \in ms
PROOF
  <1>1. /\ \A j \in Instances : j # i => marks'[j] = marks[j]
        /\ \A m \in Messages : marks'[i][m] = marks[i][m] \cup (IF m \in ms THEN {mark} ELSE {})
    BY Marked
  <1>2. \A j \in Instances : MarksStay(j)
    BY <1>1 DEF MarksStay
  <1>3. \A j \in Instances : j # i \/ mark # "skipped" => Unskipped(j)
    <2>1. \A j \in Instances : j # i => Unskipped(j)
      BY <1>1 DEF Unskipped
    <2>2. mark # "skipped" => Unskipped(i)
      BY <1>1 DEF Unskipped
    <2>. QED BY <2>1, <2>2
  <1>4. mark = "cut" => \A m \in Messages : m \in ms => "cut" \in marks'[i][m]
    BY <1>1
  <1>5. \A m \in Messages : "skipped" \in marks'[i][m] => "skipped" \in marks[i][m] \/ m \in ms
    BY <1>1
  <1>. QED BY <1>2, <1>3, <1>4, <1>5

(* What stays when the variables do.                                        *)
LEMMA Unchanging ==
  /\ UNCHANGED phone => PhonesStay
  /\ UNCHANGED <<group, ignores>> => GroupStays
  /\ UNCHANGED <<row, told>> => \A i \in Instances : RowsStay(i)
  /\ UNCHANGED marks => \A i \in Instances : MarksStay(i) /\ Unskipped(i)
  /\ UNCHANGED call => \A i \in Instances : CallGoesOn(i)
BY DEF PhonesStay, GroupStays, RowsStay, MarksStay, Unskipped, CallGoesOn, Exists

(* What is edited or revoked stays who it was from and for.                 *)
LEMMA PhoneStays ==
  ASSUME ChatTypes, NEW m \in Messages,
         \/ phone' = [phone EXCEPT ![m].text = @ + 1]
         \/ phone' = [phone EXCEPT ![m].revoked = TRUE]
  PROVE  PhonesStay
PROOF
  <1>1. phone[m] \in Phones /\ \A k \in Messages : k # m => phone'[k] = phone[k]
    BY DEF ChatTypes
  <1>2. phone'[m].from = phone[m].from /\ phone'[m].to = phone[m].to /\ phone'[m].time = phone[m].time
    <2>1. CASE phone' = [phone EXCEPT ![m] = [phone[m] EXCEPT !.text = @ + 1]]
      BY <1>1, <2>1 DEF ChatTypes, Phones
    <2>2. CASE phone' = [phone EXCEPT ![m] = [phone[m] EXCEPT !.revoked = TRUE]]
      BY <1>1, <2>2 DEF ChatTypes, Phones
    <2>. QED BY <2>1, <2>2
  <1>. QED BY <1>1, <1>2 DEF PhonesStay, Exists

(* A report leaves every instance with what it has.                         *)
LEMMA ReportKeepsAll ==
  ASSUME KeptInv, ChatTypes', NEW who \in SUBSET Instances, NEW b \in Batches, Report(who, b),
         b.type # "upsert", \A i \in who, m \in b.msgs : Exists(m) /\ i \in phone[m].to,
         UNCHANGED <<group, ignores, at, row, told, marks>>, PhonesStay,
         \A i \in who : call'[i] = call[i], \A i \in Instances \ who : CallGoesOn(i)
  PROVE  \A i \in Instances : Kept(i)'
PROOF
  <1>. SUFFICES ASSUME NEW i \in Instances PROVE Kept(i)'
    OBVIOUS
  <1>1. ChatTypes /\ Kept(i) /\ GroupStays /\ RowsStay(i) /\ MarksStay(i) /\ Unskipped(i) /\ at'[i] = at[i]
    BY Unchanging DEF KeptInv
  <1>2. /\ i \in who => queue'[i] = Append(queue[i], b)
        /\ i \notin who => queue'[i] = queue[i]
    BY <1>1, Reported
  <1>3. CASE i \in who
    BY <1>1, <1>2, <1>3, ReportKept
  <1>4. CASE i \notin who
    BY <1>1, <1>2, <1>4, StillKept
  <1>. QED BY <1>3, <1>4

(* So does a message that comes to the queues of who.                       *)
LEMMA MessageKeepsAll ==
  ASSUME KeptInv, ChatTypes', NEW x \in Messages, ~Exists(x), NEW o \in Instances \cup {Nobody},
         NEW to \in SUBSET Instances, NEW who \in SUBSET to, Appeared(x, o, to), ReportMessage(who, x),
         UNCHANGED <<group, ignores, at, row, told, marks>>,
         o \in Instances => o \in to,
         \A i \in Instances : i \notin to \/ i \in who => call'[i] = call[i],
         \A i \in to \ who : o = i /\ call[i] = NoCall /\ call'[i] = [op |-> "send", m |-> x]
  PROVE  \A i \in Instances : Kept(i)'
PROOF
  <1>. SUFFICES ASSUME NEW i \in Instances PROVE Kept(i)'
    OBVIOUS
  <1>1. ChatTypes /\ Kept(i) /\ GroupStays /\ RowsStay(i) /\ MarksStay(i) /\ Unskipped(i) /\ at'[i] = at[i]
    BY Unchanging DEF KeptInv
  <1>2. /\ i \notin who => queue'[i] = queue[i]
        /\ i \in who => \/ queue'[i] = Append(queue[i], Upsert(x))
                        \/ /\ Len(queue[i]) > 1 /\ queue[i][Len(queue[i])].type = "upsert"
                           /\ queue'[i] = Joined(queue[i], x)
    BY <1>1, MessageReported
  <1>3. CASE i \in who
    <2>1. i \in to /\ call'[i] = call[i]
      BY <1>3
    <2>. QED BY <1>1, <1>2, <1>3, <2>1, ArrivalKept
  <1>4. CASE i \notin who
    <2>1. \/ i \notin to /\ o # i /\ call'[i] = call[i]
          \/ i \in to /\ o = i /\ call[i] = NoCall /\ call'[i] = [op |-> "send", m |-> x]
      BY <1>4
    <2>. QED BY <1>1, <1>2, <1>4, <2>1, SentKept
  <1>. QED BY <1>3, <1>4

(* What the others keep while i moves.                                      *)
LEMMA OthersKept ==
  ASSUME KeptInv, ChatTypes', NEW i \in Instances,
         \A j \in Instances : j # i => /\ queue'[j] = queue[j] /\ at'[j] = at[j] /\ call'[j] = call[j]
                                       /\ RowsStay(j) /\ MarksStay(j) /\ Unskipped(j),
         PhonesStay, GroupStays, Kept(i)'
  PROVE  \A j \in Instances : Kept(j)'
PROOF
  <1>. SUFFICES ASSUME NEW j \in Instances, j # i PROVE Kept(j)'
    OBVIOUS
  <1>1. ChatTypes /\ Kept(j) /\ CallGoesOn(j)
    BY DEF KeptInv, CallGoesOn
  <1>. QED BY <1>1, StillKept

(* What a step of the queue of i leaves to the others.                      *)
LEMMA Elsewhere ==
  ASSUME ChatTypes, NEW i \in Instances
  PROVE  /\ \A f : row' = [row EXCEPT ![i] = f] =>
              /\ row'[i] = f
              /\ \A j \in Instances, m \in Messages : j # i => row'[j][m] = row[j][m]
         /\ Done(i) => \A j \in Instances : j # i => queue'[j] = queue[j] /\ at'[j] = at[j]
BY DEF ChatTypes, Done

(* Reading makes no copies.                                                 *)
LEMMA ReadingStays ==
  ASSUME ChatTypes, NEW i \in Instances, NEW t, MarksRead(i, t), told' = told
  PROVE  \A j \in Instances : RowsStay(j)
PROOF
  <1>. DEFINE f == [m \in Messages |-> IF Unread(i, m) /\ phone[m].time <= t
                                       THEN [row[i][m] EXCEPT !.status = "READ"] ELSE row[i][m]]
  <1>1. row' = [row EXCEPT ![i] = f]
    BY DEF MarksRead
  <1>2. \A m \in Messages : f[m].copies = row[i][m].copies
    BY DEF ChatTypes, Copies
  <1>. HIDE DEF f
  <1>3. row'[i] = f /\ \A j \in Instances : j # i => row'[j] = row[j]
    BY <1>1 DEF ChatTypes
  <1>. QED BY <1>2, <1>3 DEF RowsStay

(* Every step keeps the invariant.                                          *)
LEMMA KeptStep == ASSUME Chatting, KeptInv, Next PROVE KeptInv'
PROOF
  <1>. USE DEF whatsapp, table
  <1>0. ChatTypes /\ ChatTypes'
    BY TypesStep DEF KeptInv
  <1>. SUFFICES \A j \in Instances : Kept(j)'
    BY <1>0 DEF KeptInv
  <1>. DEFINE Goal == \A j \in Instances : Kept(j)'
  <1>k. \A i \in Instances : Kept(i)
    BY DEF KeptInv
  <1>e. \A i \in Instances, m \in Messages : Exists(m) /\ FromMe(i, m) => i \in phone[m].to
    BY <1>k DEF Kept, Written
  <1>c. \A i \in Instances : \A m \in Chat(i) : Exists(m) /\ i \in phone[m].to
    BY <1>k DEF Kept, Written, Chat
  <1>s. /\ UNCHANGED phone => PhonesStay
        /\ UNCHANGED <<group, ignores>> => GroupStays
        /\ UNCHANGED <<row, told>> => \A j \in Instances : RowsStay(j)
        /\ UNCHANGED marks => \A j \in Instances : MarksStay(j) /\ Unskipped(j)
        /\ UNCHANGED call => \A j \in Instances : CallGoesOn(j)
    BY Unchanging
  <1>1. ASSUME NEW i \in Instances, Reads(i) PROVE Goal
    <2>. DEFINE b == IF group THEN Batch("receipt", {}, Clock) ELSE Batch("read", Chat(i) \ seen[i], 0)
    <2>1. b \in Batches /\ b.type # "upsert" /\ b.msgs \subseteq Chat(i)
      BY <1>0, ClockTyped DEF Batch, Batches, Chat
    <2>. HIDE DEF b
    <2>2. Report({i}, b) /\ UNCHANGED <<group, ignores, phone, at, row, told, call, marks>>
      BY <1>1 DEF Reads, b
    <2>3. \A m \in b.msgs : Exists(m) /\ i \in phone[m].to
      BY <1>c, <2>1
    <2>. QED BY <1>0, <1>s, <2>1, <2>2, <2>3, ReportKeepsAll
  <1>2. ASSUME NEW i \in Instances, Syncs(i) PROVE Goal
    <2>. DEFINE b == Batch("history", Chat(i), 0)
    <2>1. b \in Batches /\ b.type # "upsert" /\ b.msgs = Chat(i)
      BY DEF Batch, Batches, Chat
    <2>. HIDE DEF b
    <2>2. Report({i}, b) /\ UNCHANGED <<group, ignores, phone, at, row, told, call, marks>>
      BY <1>2 DEF Syncs, b
    <2>3. \A m \in b.msgs : Exists(m) /\ i \in phone[m].to
      BY <1>c, <2>1
    <2>. QED BY <1>0, <1>s, <2>1, <2>2, <2>3, ReportKeepsAll
  <1>3. ASSUME NEW i \in Instances, NEW x \in Messages, Acked(i, x) PROVE Goal
    <2>. DEFINE b == IF group THEN Batch("receipt", {}, Clock) ELSE Batch("ack", {x}, 0)
    <2>1. b \in Batches /\ b.type # "upsert" /\ b.msgs \subseteq {x}
      BY <1>0, ClockTyped DEF Batch, Batches
    <2>. HIDE DEF b
    <2>2. Report({i}, b) /\ UNCHANGED <<group, ignores, phone, at, row, told, call, marks>>
      BY <1>3 DEF Acked, b
    <2>3. \A m \in b.msgs : Exists(m) /\ i \in phone[m].to
      BY <1>3, <1>e, <2>1 DEF Acked
    <2>. QED BY <1>0, <1>s, <2>1, <2>2, <2>3, ReportKeepsAll
  <1>4. ASSUME NEW x \in Messages, Edits(x) PROVE Goal
    <2>. DEFINE b == Batch("edit", {x}, phone[x].text + 1)
                who == phone[x].to
    <2>1. b \in Batches /\ b.type # "upsert" /\ b.msgs = {x} /\ who \in SUBSET Instances
      BY <1>0 DEF Batch, Batches, ChatTypes, Phones
    <2>2. /\ Report(who, b) /\ UNCHANGED <<group, ignores, at, row, told, call, marks>>
          /\ phone' = [phone EXCEPT ![x].text = @ + 1] /\ Exists(x)
      BY <1>4 DEF Edits
    <2>3. \A i \in who : \A m \in b.msgs : Exists(m) /\ i \in phone[m].to
      BY <2>1, <2>2
    <2>4. PhonesStay
      BY <1>0, <2>2, PhoneStays
    <2>. HIDE DEF b, who
    <2>. QED BY <1>0, <1>s, <2>1, <2>2, <2>3, <2>4, ReportKeepsAll
  <1>5. ASSUME NEW x \in Messages, Revokes(x) PROVE Goal
    <2>. DEFINE b == Batch("revoke", {x}, 0)
                who == phone[x].to
    <2>1. b \in Batches /\ b.type # "upsert" /\ b.msgs = {x} /\ who \in SUBSET Instances
      BY <1>0 DEF Batch, Batches, ChatTypes, Phones
    <2>2. /\ Report(who, b) /\ UNCHANGED <<group, ignores, at, row, told, call, marks>>
          /\ phone' = [phone EXCEPT ![x].revoked = TRUE] /\ Exists(x)
      BY <1>5 DEF Revokes
    <2>3. \A i \in who : \A m \in b.msgs : Exists(m) /\ i \in phone[m].to
      BY <2>1, <2>2
    <2>4. PhonesStay
      BY <1>0, <2>2, PhoneStays
    <2>. HIDE DEF b, who
    <2>. QED BY <1>0, <1>s, <2>1, <2>2, <2>3, <2>4, ReportKeepsAll
  <1>6. ASSUME NEW x \in Messages, Arrives(x) PROVE Goal
    <2>1. PICK to \in SUBSET Instances, o \in Instances \cup {Nobody} :
            /\ o \in to \cup {Nobody} /\ Appears(x, o, to) /\ ReportMessage(to, x)
      BY <1>6 DEF Arrives
    <2>2. ~Exists(x) /\ UNCHANGED <<group, ignores, at, row, told, call, marks>>
      BY <1>6 DEF Arrives
    <2>3. Appeared(x, o, to) /\ (o \in Instances => o \in to)
      BY <1>0, <2>1, AppearedTyped DEF Chatting
    <2>. QED BY <1>0, <2>1, <2>2, <2>3, MessageKeepsAll
  <1>7. ASSUME NEW i \in Instances, NEW x \in Messages, ApiSend(i, x) PROVE Goal
    <2>1. PICK to \in SUBSET Instances : i \in to /\ Appears(x, i, to) /\ ReportMessage(to \ {i}, x)
      BY <1>7 DEF ApiSend, SendMessage
    <2>2. /\ ~Exists(x) /\ UNCHANGED <<group, ignores, at, row, told, marks>>
          /\ call[i] = NoCall /\ call' = [call EXCEPT ![i] = [op |-> "send", m |-> x]]
      BY <1>7 DEF ApiSend, Begins
    <2>3. Appeared(x, i, to)
      BY <1>0, <2>1, AppearedTyped
    <2>4. /\ \A j \in Instances : j \notin to \/ j \in to \ {i} => call'[j] = call[j]
          /\ \A j \in to \ (to \ {i}) : i = j /\ call[j] = NoCall /\ call'[j] = [op |-> "send", m |-> x]
      BY <1>0, <2>1, <2>2 DEF ChatTypes
    <2>. QED BY <1>0, <2>1, <2>2, <2>3, <2>4, MessageKeepsAll
  <1>8. ASSUME NEW i \in Instances, NEW x \in Messages, ApiEdit(i, x) PROVE Goal
    <2>. DEFINE b == Batch("edit", {x}, phone[x].text + 1)
                who == phone[x].to \ {i}
    <2>1. b \in Batches /\ b.type # "upsert" /\ b.msgs = {x} /\ who \in SUBSET Instances
      BY <1>0 DEF Batch, Batches, ChatTypes, Phones
    <2>2. /\ Report(who, b) /\ UNCHANGED <<group, ignores, at, row, told, marks>>
          /\ phone' = [phone EXCEPT ![x].text = @ + 1] /\ Exists(x) /\ FromMe(i, x)
          /\ call[i] = NoCall /\ call' = [call EXCEPT ![i] = [op |-> "edit", m |-> x]]
      BY <1>8 DEF ApiEdit, Begins
    <2>3. \A j \in who : \A m \in b.msgs : Exists(m) /\ j \in phone[m].to
      BY <2>1, <2>2
    <2>4. PhonesStay
      BY <1>0, <2>2, PhoneStays
    <2>5. \A j \in Instances : IF j = i THEN call'[j] = [op |-> "edit", m |-> x] ELSE call'[j] = call[j]
      BY <1>0, <2>2 DEF ChatTypes
    <2>6. CallGoesOn(i)
      BY <2>2, <2>5 DEF CallGoesOn, NoCall
    <2>7. (\A j \in who : call'[j] = call[j]) /\ \A j \in Instances \ who : CallGoesOn(j)
      BY <2>1, <2>5, <2>6 DEF CallGoesOn
    <2>. HIDE DEF b, who
    <2>. QED BY <1>0, <2>1, <2>2, <2>3, <2>4, <2>7, ReportKeepsAll
  <1>9. ASSUME NEW i \in Instances, NEW x \in Messages, ApiDelete(i, x) PROVE Goal
    <2>. DEFINE b == Batch("revoke", {x}, 0)
                who == phone[x].to \ {i}
    <2>1. b \in Batches /\ b.type # "upsert" /\ b.msgs = {x} /\ who \in SUBSET Instances
      BY <1>0 DEF Batch, Batches, ChatTypes, Phones
    <2>2. /\ Report(who, b) /\ UNCHANGED <<group, ignores, at, row, told, marks>>
          /\ phone' = [phone EXCEPT ![x].revoked = TRUE] /\ Exists(x) /\ FromMe(i, x)
          /\ call[i] = NoCall /\ call' = [call EXCEPT ![i] = [op |-> "delete", m |-> x]]
      BY <1>9 DEF ApiDelete, Begins
    <2>3. \A j \in who : \A m \in b.msgs : Exists(m) /\ j \in phone[m].to
      BY <2>1, <2>2
    <2>4. PhonesStay
      BY <1>0, <2>2, PhoneStays
    <2>5. \A j \in Instances : IF j = i THEN call'[j] = [op |-> "delete", m |-> x] ELSE call'[j] = call[j]
      BY <1>0, <2>2 DEF ChatTypes
    <2>6. CallGoesOn(i)
      BY <2>2, <2>5 DEF CallGoesOn, NoCall
    <2>7. (\A j \in who : call'[j] = call[j]) /\ \A j \in Instances \ who : CallGoesOn(j)
      BY <2>1, <2>5, <2>6 DEF CallGoesOn
    <2>. HIDE DEF b, who
    <2>. QED BY <1>0, <2>1, <2>2, <2>3, <2>4, <2>7, ReportKeepsAll
  <1>10. ASSUME NEW i \in Instances, Create(i) PROVE Goal
    <2>1. UNCHANGED <<group, ignores, phone, told, call, marks>> /\ Busy(i, {"upsert"}) /\ at[i].pc = "next"
      BY <1>10 DEF Create
    <2>2. PhonesStay /\ GroupStays /\ \A j \in Instances : MarksStay(j) /\ Unskipped(j) /\ call'[j] = call[j]
      BY <1>s, <2>1
    <2>3. CASE at[i].n > Len(Head1(i).order) \/ Ignored(i)
      <3>1. Done(i) /\ UNCHANGED row
        BY <1>10, <2>3 DEF Create
      <3>2. \A j \in Instances : RowsStay(j)
        BY <1>s, <2>1, <3>1
      <3>3. queue[i] # <<>> /\ queue'[i] = Tail(queue[i]) /\ at'[i] = Waiting /\ Head1(i) = queue[i][1]
            /\ Len(Head1(i).order) \in Nat
        BY <1>0, <2>1, <3>1, DoneTyped, HeadTyped, LenProperties DEF Busy, Batches
      <3>4. ASSUME NEW m \in Messages, NEW k \in Nat, Comes(i, 1, k, m), ToCome(i, 1, k) \/ InWork(i, 1, k)
            PROVE  Ignored(i)
        <4>1. k <= Len(Head1(i).order) /\ k >= at[i].n /\ at[i].n \in Nat
          BY <1>0, <3>3, <3>4 DEF Comes, ToCome, InWork, ChatTypes, Places
        <4>. QED BY <2>3, <3>3, <4>1
      <3>5. Skips(i)'
        BY <1>k, <2>2, Ignores, FromStays DEF Kept, Skips, Unskipped, MarksStay
      <3>6. Kept(i)'
        BY <1>0, <1>k, <2>1, <2>2, <3>1, <3>3, <3>4, <3>5, DoneKept
      <3>. QED BY <1>0, <2>2, <3>1, <3>2, <3>6, Elsewhere, OthersKept
    <2>4. CASE ~(at[i].n > Len(Head1(i).order) \/ Ignored(i))
      <3>1. /\ row' = [row EXCEPT ![i][Current(i)] = Prepared(i, Current(i), row[i][Current(i)].copies + 1, 0)]
            /\ at' = [at EXCEPT ![i].pc = "count"] /\ queue' = queue
        BY <1>10, <2>4 DEF Create
      <3>2. at[i].pc = "next" => at[i].n <= Len(Head1(i).order)
        <4>1. Head1(i) \in Batches
          BY <1>0, <2>1, HeadTyped DEF Busy
        <4>2. Len(Head1(i).order) \in Nat /\ at[i].n \in Nat
          BY <1>0, <4>1, LenProperties DEF Batches, ChatTypes, Places
        <4>. QED BY <2>4, <4>2
      <3>3. PICK x \in Messages, k \in Nat : x = Current(i) /\ k = at[i].n /\ Comes(i, 1, k, x)
        BY <1>0, <1>k, <2>1, <3>2, CurrentComes
      <3>4. /\ row'[i][x].copies = row[i][x].copies + 1
            /\ \A m \in Messages : m # x => row'[i][m] = row[i][m]
            /\ \A j \in Instances : j # i => row'[j] = row[j] /\ at'[j] = at[j]
            /\ at'[i].pc = "count" /\ at'[i].n = k
        <4>1. Prepared(i, x, row[i][x].copies + 1, 0).copies = row[i][x].copies + 1
          BY DEF Prepared
        <4>. QED BY <1>0, <3>1, <3>3, <4>1 DEF ChatTypes, Places
      <3>5. Kept(i)'
        BY <1>0, <1>k, <2>1, <2>2, <3>1, <3>3, <3>4, TurnKept
      <3>. QED BY <1>0, <2>1, <2>2, <3>1, <3>4, <3>5, OthersKept DEF RowsStay
    <2>. QED BY <2>3, <2>4
  <1>11. ASSUME NEW i \in Instances, Count(i) PROVE Goal
    <2>1. UNCHANGED <<group, ignores, phone, queue, told, call>> /\ Busy(i, {"upsert"}) /\ at[i].pc = "count"
          /\ at' = [at EXCEPT ![i].pc = "tell"]
      BY <1>11 DEF Count
    <2>2. \A j \in Instances : MarksStay(j) /\ Unskipped(j)
      <3>1. UNCHANGED marks \/ Mark(i, Chat(i), "passed")
        BY <1>11 DEF Count
      <3>. QED BY <1>0, <1>s, <3>1, MarkStays DEF Marks
    <2>3. \A j \in Instances : RowsStay(j)
      <3>1. UNCHANGED row \/ MarksRead(i, phone[Current(i)].time)
        BY <1>11 DEF Count
      <3>. QED BY <1>0, <1>s, <2>1, <3>1, ReadingStays
    <2>4. PhonesStay /\ GroupStays
      BY <1>s, <2>1
    <2>5. PICK x \in Messages, k \in Nat : x = Current(i) /\ k = at[i].n /\ Comes(i, 1, k, x)
      BY <1>0, <1>k, <2>1, CurrentComes
    <2>6. /\ at'[i].pc = "tell" /\ at'[i].n = k
          /\ \A j \in Instances : j # i => at'[j] = at[j]
      BY <1>0, <2>1, <2>5 DEF ChatTypes, Places
    <2>7. \A m \in Messages : row'[i][m].copies = row[i][m].copies /\ told'[i][m] = told[i][m]
      BY <2>3 DEF RowsStay
    <2>8. Kept(i)'
      BY <1>0, <1>k, <2>1, <2>2, <2>4, <2>5, <2>6, <2>7, TurnKept
    <2>. QED BY <1>0, <2>1, <2>2, <2>3, <2>4, <2>6, <2>8, OthersKept
  <1>12. ASSUME NEW i \in Instances, Tell(i) PROVE Goal
    <2>1. /\ UNCHANGED <<group, ignores, phone, queue, row, call, marks>> /\ Busy(i, {"upsert"}) /\ at[i].pc = "tell"
          /\ told' = [told EXCEPT ![i][Current(i)] = TRUE]
          /\ at' = [at EXCEPT ![i] = [pc |-> "next", n |-> at[i].n + 1]]
      BY <1>12 DEF Tell
    <2>2. PhonesStay /\ GroupStays /\ \A j \in Instances : MarksStay(j) /\ Unskipped(j)
      BY <1>s, <2>1
    <2>3. PICK x \in Messages, k \in Nat : x = Current(i) /\ k = at[i].n /\ Comes(i, 1, k, x)
      BY <1>0, <1>k, <2>1, CurrentComes
    <2>4. /\ at'[i].pc = "next" /\ at'[i].n = k + 1
          /\ told'[i][x] /\ \A m \in Messages : m # x => told'[i][m] = told[i][m]
          /\ \A j \in Instances : j # i => at'[j] = at[j] /\ told'[j] = told[j]
      BY <1>0, <2>1, <2>3 DEF ChatTypes
    <2>5. Kept(i)'
      BY <1>0, <1>k, <2>1, <2>2, <2>3, <2>4, TurnKept
    <2>6. \A j \in Instances : j # i => RowsStay(j)
      BY <2>1, <2>4 DEF RowsStay
    <2>. QED BY <1>0, <2>1, <2>2, <2>4, <2>5, <2>6, OthersKept
  <1>13. ASSUME NEW i \in Instances, Fails(i) PROVE Goal
    <2>1. /\ UNCHANGED <<group, ignores, phone, row, told, call>> /\ queue[i] # <<>> /\ Done(i)
          /\ Mark(i, seen[i] \cup {m \in Head1(i).msgs : ~told[i][m] \/ Head1(i).type # "upsert"}, "cut")
      BY <1>13 DEF Fails
    <2>2. PhonesStay /\ GroupStays /\ \A j \in Instances : RowsStay(j)
      BY <1>s, <2>1
    <2>3. /\ \A j \in Instances : MarksStay(j) /\ Unskipped(j)
          /\ \A m \in Messages : m \in Head1(i).msgs /\ ~told[i][m] => "cut" \in marks'[i][m]
      BY <1>0, <2>1, MarkStays DEF Marks
    <2>4. queue'[i] = Tail(queue[i]) /\ at'[i] = Waiting /\ Head1(i) = queue[i][1]
      BY <1>0, <2>1, DoneTyped, HeadTyped
    <2>5. ASSUME NEW m \in Messages, NEW k \in Nat, Comes(i, 1, k, m), ToCome(i, 1, k) \/ InWork(i, 1, k)
          PROVE  "cut" \in marks'[i][m]
      <3>1. Holds(i, 1, m) /\ ~told[i][m]
        BY <1>k, <2>5 DEF Kept, InChat, RowsCome
      <3>. QED BY <2>3, <2>4, <3>1 DEF Holds
    <2>6. Skips(i)'
      BY <1>k, <2>2, <2>3, Ignores, FromStays DEF Kept, Skips, Unskipped, MarksStay
    <2>7. Kept(i)'
      BY <1>0, <1>k, <2>1, <2>2, <2>3, <2>4, <2>5, <2>6, DoneKept
    <2>. QED BY <1>0, <2>1, <2>2, <2>3, <2>7, Elsewhere, OthersKept
  <1>h. ASSUME NEW i \in Instances, queue[i] # <<>>, queue[i][1].type # "upsert",
               NEW m \in Messages, NEW k \in Nat
        PROVE  ~Comes(i, 1, k, m)
    BY <1>h DEF Comes
  <1>14. ASSUME NEW i \in Instances, EditRow(i) PROVE Goal
    <2>. DEFINE b == Head1(i)
                f == [m \in Messages |-> IF m \in b.msgs /\ Stored(i, m)
                        THEN [row[i][m] EXCEPT !.status = "EDITED",
                                               !.text = IF b.type = "revoke" THEN row[i][m].text ELSE b.x]
                        ELSE row[i][m]]
    <2>1. /\ UNCHANGED <<group, ignores, phone, told, call>> /\ Busy(i, {"edit", "revoke"}) /\ Done(i)
          /\ Mark(i, {m \in b.msgs : ~Stored(i, m)}, "skipped")
      BY <1>14 DEF EditRow
    <2>2. row' = [row EXCEPT ![i] = f]
      BY <1>14, Zenon DEF EditRow
    <2>3. \A m \in Messages : f[m].copies = row[i][m].copies
      <3>1. \A m \in Messages : row[i][m] \in Copies
        BY <1>0 DEF ChatTypes
      <3>. HIDE DEF b
      <3>. QED BY <3>1 DEF Copies
    <2>. HIDE DEF f
    <2>4. \A j \in Instances : RowsStay(j)
      <3>1. row'[i] = f /\ \A j \in Instances : j # i => row'[j] = row[j]
        BY <1>0, <2>2 DEF ChatTypes
      <3>. QED BY <2>1, <2>3, <3>1 DEF RowsStay
    <2>5. PhonesStay /\ GroupStays
      BY <1>s, <2>1
    <2>6. /\ \A j \in Instances : MarksStay(j) /\ (j # i => Unskipped(j))
          /\ \A m \in Messages : "skipped" \in marks'[i][m] => "skipped" \in marks[i][m] \/ (m \in b.msgs /\ ~Stored(i, m))
      BY <1>0, <2>1, MarkStays DEF Marks
    <2>7. queue[i] # <<>> /\ queue'[i] = Tail(queue[i]) /\ at'[i] = Waiting /\ b = queue[i][1] /\ 1 \in 1..Len(queue[i])
          /\ b.type # "upsert"
      BY <1>0, <2>1, DoneTyped, HeadTyped DEF Busy
    <2>8. Skips(i)'
      <3>1. \A m \in Messages : m \in b.msgs /\ ~Stored(i, m) => Updates(i, 1, m) /\ row[i][m].copies = 0
        BY <1>0, <2>7 DEF Updates, Holds, Stored, ChatTypes, Copies
      <3>. QED BY <1>0, <1>k, <2>5, <2>6, <3>1, SkipsKept
    <2>9. Kept(i)'
      BY <1>0, <1>h, <1>k, <2>1, <2>4, <2>5, <2>6, <2>7, <2>8, DoneKept DEF RowsStay
    <2>. QED BY <1>0, <2>1, <2>4, <2>5, <2>6, <2>9, Elsewhere, OthersKept
  <1>15. ASSUME NEW i \in Instances, Update(i) PROVE Goal
    <2>. DEFINE b == Head1(i)
    <2>1. UNCHANGED <<group, ignores, phone, told, call>> /\ Busy(i, {"read", "ack"})
      BY <1>15 DEF Update
    <2>2. PhonesStay /\ GroupStays
      BY <1>s, <2>1
    <2>3. queue[i] # <<>> /\ b = queue[i][1] /\ 1 \in 1..Len(queue[i]) /\ b.type # "upsert" /\ b \in Batches
      BY <1>0, <2>1, HeadTyped DEF Busy
    <2>4. CASE b.msgs = {}
      <3>1. Done(i) /\ UNCHANGED <<row, marks>>
        BY <1>15, <2>4 DEF Update
      <3>2. \A j \in Instances : RowsStay(j) /\ MarksStay(j) /\ Unskipped(j)
        BY <1>s, <2>1, <3>1
      <3>3. Skips(i)'
        BY <1>k, <2>2, <3>2, Ignores, FromStays DEF Kept, Skips, Unskipped, MarksStay
      <3>4. queue'[i] = Tail(queue[i]) /\ at'[i] = Waiting
        BY <1>0, <2>3, <3>1, DoneTyped
      <3>5. Kept(i)'
        BY <1>0, <1>h, <1>k, <2>1, <2>2, <2>3, <3>2, <3>3, <3>4, DoneKept DEF RowsStay
      <3>. QED BY <1>0, <2>1, <2>2, <3>1, <3>2, <3>5, Elsewhere, OthersKept
    <2>5. CASE b.msgs # {}
      <3>1. PICK m \in b.msgs :
              /\ queue' = [queue EXCEPT ![i][1].msgs = @ \ {m}] /\ UNCHANGED at
              /\ \/ ~Stored(i, m) /\ Mark(i, {m}, "skipped") /\ UNCHANGED row
                 \/ UNCHANGED <<row, marks>>
                 \/ Mark(i, {m}, "passed") /\ UNCHANGED row
                 \/ /\ row' = [row EXCEPT ![i] = [k \in Messages |->
                            IF k = m \/ (Unread(i, k) /\ phone[k].time <= phone[m].time)
                            THEN [row[i][k] EXCEPT !.status = "READ"] ELSE row[i][k]]]
                    /\ UNCHANGED marks
        BY <1>15, <2>5 DEF Update
      <3>2. \A j \in Instances : RowsStay(j)
        <4>1. CASE UNCHANGED row
          BY <1>s, <2>1, <4>1
        <4>2. CASE row' = [row EXCEPT ![i] = [k \in Messages |->
                            IF k = m \/ (Unread(i, k) /\ phone[k].time <= phone[m].time)
                            THEN [row[i][k] EXCEPT !.status = "READ"] ELSE row[i][k]]]
          <5>. DEFINE f == [k \in Messages |-> IF k = m \/ (Unread(i, k) /\ phone[k].time <= phone[m].time)
                                               THEN [row[i][k] EXCEPT !.status = "READ"] ELSE row[i][k]]
          <5>1. \A k \in Messages : f[k].copies = row[i][k].copies
            <6>1. \A k \in Messages : row[i][k] \in Copies
              BY <1>0 DEF ChatTypes
            <6>. QED BY <6>1 DEF Copies
          <5>2. row' = [row EXCEPT ![i] = f]
            BY <4>2
          <5>. HIDE DEF f
          <5>3. row'[i] = f /\ \A j \in Instances : j # i => row'[j] = row[j]
            BY <1>0, <5>2 DEF ChatTypes
          <5>. QED BY <2>1, <5>1, <5>3 DEF RowsStay
        <4>. QED BY <3>1, <4>1, <4>2
      <3>3. /\ \A j \in Instances : MarksStay(j) /\ (j # i => Unskipped(j))
            /\ \A k \in Messages : "skipped" \in marks'[i][k] => "skipped" \in marks[i][k] \/ (k = m /\ ~Stored(i, m))
        <4>1. CASE UNCHANGED marks
          BY <1>s, <4>1
        <4>2. CASE Mark(i, {m}, "passed")
          BY <1>0, <4>2, MarkStays DEF Marks, Unskipped
        <4>3. CASE ~Stored(i, m) /\ Mark(i, {m}, "skipped")
          BY <1>0, <4>3, MarkStays DEF Marks
        <4>. QED BY <3>1, <4>1, <4>2, <4>3
      <3>4. Skips(i)'
        <4>1. \A k \in Messages : k = m /\ ~Stored(i, m) => Updates(i, 1, k) /\ row[i][k].copies = 0
          BY <1>0, <2>3 DEF Updates, Holds, Stored, ChatTypes, Copies
        <4>. QED BY <1>0, <1>k, <2>2, <3>3, <4>1, SkipsKept
      <3>5. /\ queue'[i] = [queue[i] EXCEPT ![1].msgs = @ \ {m}]
            /\ \A j \in Instances : j # i => queue'[j] = queue[j]
        BY <1>0, <3>1 DEF ChatTypes
      <3>6. Kept(i)'
        BY <1>0, <1>k, <2>1, <2>2, <2>3, <3>1, <3>2, <3>3, <3>4, <3>5, ShrunkKept
      <3>. QED BY <1>0, <2>1, <2>2, <3>1, <3>2, <3>3, <3>5, <3>6, OthersKept
    <2>. QED BY <2>4, <2>5
  <1>16. ASSUME NEW i \in Instances, ReceiptUpdate(i) PROVE Goal
    <2>1. UNCHANGED <<group, ignores, phone, told, call, marks>> /\ Busy(i, {"receipt"}) /\ Done(i)
          /\ MarksRead(i, Head1(i).x)
      BY <1>16 DEF ReceiptUpdate
    <2>2. PhonesStay /\ GroupStays /\ \A j \in Instances : MarksStay(j) /\ Unskipped(j)
      BY <1>s, <2>1
    <2>3. \A j \in Instances : RowsStay(j)
      BY <1>0, <2>1, ReadingStays
    <2>4. queue[i] # <<>> /\ queue[i][1].type # "upsert" /\ queue'[i] = Tail(queue[i]) /\ at'[i] = Waiting
      BY <1>0, <2>1, DoneTyped, HeadTyped DEF Busy
    <2>5. Skips(i)'
      BY <1>k, <2>2, Ignores, FromStays DEF Kept, Skips, Unskipped, MarksStay
    <2>6. Kept(i)'
      BY <1>0, <1>h, <1>k, <2>1, <2>2, <2>3, <2>4, <2>5, DoneKept DEF RowsStay
    <2>. QED BY <1>0, <2>1, <2>2, <2>3, <2>6, Elsewhere, OthersKept
  <1>17. ASSUME NEW i \in Instances, History(i) PROVE Goal
    <2>. DEFINE ids == IF known[i] = {Nobody} THEN {m \in Messages : Stored(i, m)} ELSE known[i]
                new == {m \in Head1(i).msgs : m \notin ids}
                f == [m \in Messages |->
                       IF m \notin new THEN row[i][m]
                       ELSE IF Stored(i, m) THEN [row[i][m] EXCEPT !.copies = row[i][m].copies + 1]
                       ELSE Prepared(i, m, 1, phone[m].text)]
                g == [m \in Messages |->
                       marks[i][m] \cup (IF m \in new /\ (Stored(i, m) \/ call[i] = [op |-> "send", m |-> m])
                                           THEN {"stale"} ELSE {})
                                   \cup (IF m \in new /\ ~Stored(i, m) THEN {"passed"} ELSE {})]
    <2>1. UNCHANGED <<group, ignores, phone, told, call>> /\ Busy(i, {"history"}) /\ Done(i)
      BY <1>17 DEF History
    <2>2. row' = [row EXCEPT ![i] = f]
      BY <1>17, Zenon DEF History
    <2>3. marks' = [marks EXCEPT ![i] = g]
      BY <1>17, Zenon DEF History
    <2>4. new \subseteq Head1(i).msgs
      OBVIOUS
    <2>. HIDE DEF new
    <2>5. PhonesStay /\ GroupStays
      BY <1>s, <2>1
    <2>6. queue[i] # <<>> /\ Head1(i) = queue[i][1] /\ queue[i][1].type # "upsert" /\ 1 \in 1..Len(queue[i])
          /\ queue'[i] = Tail(queue[i]) /\ at'[i] = Waiting
      BY <1>0, <2>1, DoneTyped, HeadTyped DEF Busy
    <2>7. \A m \in Messages : m \in new => Updates(i, 1, m)
      BY <2>4, <2>6 DEF Updates, Holds
    <2>8. ASSUME NEW m \in Messages
          PROVE  /\ m \notin new => f[m].copies = row[i][m].copies
                 /\ m \in new /\ Stored(i, m) => f[m].copies = row[i][m].copies + 1
                 /\ m \in new /\ ~Stored(i, m) => f[m].copies = 1
      <3>1. row[i][m] \in Copies
        BY <1>0 DEF ChatTypes
      <3>2. Prepared(i, m, 1, phone[m].text).copies = 1
        BY DEF Prepared
      <3>. QED BY <3>1, <3>2 DEF Copies
    <2>9. \A m \in Messages : row[i][m].copies \in Nat /\ (Stored(i, m) <=> row[i][m].copies > 0)
      BY <1>0 DEF ChatTypes, Copies, Stored
    <2>10. /\ \A m \in Messages : marks[i][m] \subseteq g[m] /\ ("skipped" \in g[m] => "skipped" \in marks[i][m])
           /\ \A m \in Messages : m \in new /\ (Stored(i, m) \/ call[i] = [op |-> "send", m |-> m]) => "stale" \in g[m]
      OBVIOUS
    <2>. HIDE DEF f, g
    <2>11. row'[i] = f /\ \A j \in Instances : j # i => row'[j] = row[j]
      BY <1>0, <2>2 DEF ChatTypes
    <2>12. marks'[i] = g /\ \A j \in Instances : j # i => marks'[j] = marks[j]
      BY <1>0, <2>3 DEF ChatTypes
    <2>13. \A j \in Instances : MarksStay(j) /\ Unskipped(j)
      BY <2>10, <2>12 DEF MarksStay, Unskipped
    <2>14. \A j \in Instances : j # i => RowsStay(j)
      BY <2>1, <2>11 DEF RowsStay
    <2>15. Skips(i)'
      BY <1>k, <2>5, <2>13, Ignores, FromStays DEF Kept, Skips, Unskipped, MarksStay
    <2>16. ASSUME NEW m \in Messages
           PROVE  \/ row'[i][m].copies = row[i][m].copies
                  \/ /\ Updates(i, 1, m) /\ row'[i][m].copies > 0
                     /\ row[i][m].copies > 0 \/ call[i] = [op |-> "send", m |-> m] => "stale" \in marks'[i][m]
                     /\ row[i][m].copies = 0 => row'[i][m].copies = 1
      BY <2>7, <2>8, <2>9, <2>10, <2>11, <2>12
    <2>17. \A m \in Messages : told'[i][m] = told[i][m]
      BY <2>1
    <2>18. \A m \in Messages, k \in Nat : ~Comes(i, 1, k, m)
      BY <1>h, <2>6
    <2>19. Kept(i)'
      BY <1>0, <1>k, <2>1, <2>5, <2>6, <2>13, <2>15, <2>16, <2>17, <2>18, DoneKept
    <2>. QED BY <1>0, <2>1, <2>5, <2>13, <2>14, <2>19, Elsewhere, OthersKept
  <1>18. ASSUME NEW i \in Instances, SendStore(i) PROVE Goal
    <2>1. /\ UNCHANGED <<group, ignores, phone, queue, at, told, marks>> /\ call[i].op = "send"
          /\ row' = [row EXCEPT ![i][call[i].m] = Prepared(i, call[i].m, row[i][call[i].m].copies + 1, 0)]
          /\ call' = [call EXCEPT ![i].op = "tell"]
      BY <1>18 DEF SendStore
    <2>2. PhonesStay /\ GroupStays /\ \A j \in Instances : MarksStay(j) /\ Unskipped(j)
      BY <1>s, <2>1
    <2>3. PICK x \in Messages : x = call[i].m /\ call[i] = [op |-> "send", m |-> x]
      BY <1>0, <2>1 DEF ChatTypes, Asks, NoCall
    <2>4. call'[i] = [op |-> "tell", m |-> x] /\ \A j \in Instances : j # i => call'[j] = call[j]
      BY <1>0, <2>1, <2>3 DEF ChatTypes
    <2>5. /\ row'[i][x].copies = row[i][x].copies + 1
          /\ \A m \in Messages : m # x => row'[i][m] = row[i][m]
          /\ \A j \in Instances : j # i => row'[j] = row[j]
      <3>1. Prepared(i, x, row[i][x].copies + 1, 0).copies = row[i][x].copies + 1
        BY DEF Prepared
      <3>. QED BY <1>0, <2>1, <2>3, <3>1 DEF ChatTypes
    <2>6. Kept(i)'
      BY <1>0, <1>k, <2>1, <2>2, <2>3, <2>4, <2>5, SendKept
    <2>7. \A j \in Instances : j # i => RowsStay(j)
      BY <2>1, <2>5 DEF RowsStay
    <2>. QED BY <1>0, <2>1, <2>2, <2>4, <2>6, <2>7, OthersKept
  <1>19. ASSUME NEW i \in Instances, SendTell(i) PROVE Goal
    <2>1. /\ UNCHANGED <<group, ignores, phone, queue, at, row, marks>> /\ call[i].op = "tell"
          /\ told' = [told EXCEPT ![i][call[i].m] = TRUE] /\ call' = [call EXCEPT ![i] = NoCall]
      BY <1>19 DEF SendTell, Returns
    <2>2. PhonesStay /\ GroupStays /\ \A j \in Instances : MarksStay(j) /\ Unskipped(j)
      BY <1>s, <2>1
    <2>3. PICK x \in Messages : x = call[i].m
      BY <1>0, <2>1 DEF ChatTypes, Asks, NoCall
    <2>4. call'[i] = NoCall /\ \A j \in Instances : j # i => call'[j] = call[j]
      BY <1>0, <2>1 DEF ChatTypes
    <2>5. /\ told'[i][x] /\ \A m \in Messages : m # x => told'[i][m] = told[i][m]
          /\ \A j \in Instances : j # i => told'[j] = told[j]
      BY <1>0, <2>1, <2>3 DEF ChatTypes
    <2>6. Kept(i)'
      BY <1>0, <1>k, <2>1, <2>2, <2>3, <2>4, <2>5, SendKept
    <2>7. \A j \in Instances : j # i => RowsStay(j)
      BY <2>1, <2>5 DEF RowsStay
    <2>. QED BY <1>0, <2>1, <2>2, <2>4, <2>6, <2>7, OthersKept
  <1>20. ASSUME NEW i \in Instances, SendFails(i) PROVE Goal
    <2>1. /\ UNCHANGED <<group, ignores, phone, queue, at, row, told>> /\ call[i].op \in {"send", "tell"}
          /\ Mark(i, {call[i].m}, "cut") /\ call' = [call EXCEPT ![i] = NoCall]
      BY <1>20 DEF SendFails, Returns
    <2>2. PhonesStay /\ GroupStays /\ \A j \in Instances : RowsStay(j)
      BY <1>s, <2>1
    <2>3. /\ \A j \in Instances : MarksStay(j) /\ Unskipped(j)
          /\ \A m \in Messages : m = call[i].m => "cut" \in marks'[i][m]
      BY <1>0, <2>1, MarkStays DEF Marks
    <2>4. call'[i] = NoCall /\ \A j \in Instances : j # i => call'[j] = call[j]
      BY <1>0, <2>1 DEF ChatTypes
    <2>5. call[i].m \in Messages
      BY <1>0, <2>1 DEF ChatTypes, Asks, NoCall
    <2>6. \A j \in Instances : CallGoesOn(j)
      BY <2>3, <2>4, <2>5 DEF CallGoesOn
    <2>. QED BY <1>0, <1>k, <2>1, <2>2, <2>3, <2>6, StillKept
  <1>21. ASSUME NEW i \in Instances, NEW s \in Statuses, NEW t, Changed(i, s, t), call[i].op \in {"edit", "delete"},
                UNCHANGED <<group, ignores, phone, queue, at, told>>
         PROVE Goal
    <2>1. call' = [call EXCEPT ![i] = NoCall]
      BY <1>21 DEF Changed, Returns
    <2>. DEFINE x == call[i].m
    <2>2. x \in Messages
      <3>1. call[i] # NoCall
        BY <1>21 DEF NoCall
      <3>. QED BY <1>0, <3>1, CallTyped
    <2>3. PhonesStay /\ GroupStays
      BY <1>s, <1>21
    <2>4. \A j \in Instances : CallGoesOn(j)
      BY <1>0, <1>21, <2>1 DEF CallGoesOn, ChatTypes
    <2>5. CASE Mark(i, {x}, "crossed") /\ UNCHANGED row
      <3>1. \A j \in Instances : MarksStay(j) /\ Unskipped(j)
        BY <1>0, <2>5, MarkStays DEF Marks
      <3>2. \A j \in Instances : RowsStay(j)
        BY <1>s, <1>21, <2>5
      <3>. QED BY <1>0, <1>k, <1>21, <2>3, <2>4, <3>1, <3>2, StillKept
    <2>6. CASE \E j \in Instances :
             /\ row' = [row EXCEPT ![j][x].status = s, ![j][x].text = t]
             /\ marks' = [k \in Instances |-> [marks[k] EXCEPT ![x] =
                            @ \cup (IF k \in {i, j} /\ (j # i \/ Pending(i, x))
                                    THEN {"crossed"} ELSE {})]]
      <3>1. PICK j \in Instances :
             /\ row' = [row EXCEPT ![j][x].status = s, ![j][x].text = t]
             /\ marks' = [k \in Instances |-> [marks[k] EXCEPT ![x] =
                            @ \cup (IF k \in {i, j} /\ (j # i \/ Pending(i, x))
                                    THEN {"crossed"} ELSE {})]]
        BY <2>6
      <3>2. \A k \in Instances, m \in Messages : marks[k][m] \subseteq marks'[k][m]
                                                 /\ marks'[k][m] \subseteq marks[k][m] \cup {"crossed"}
        BY <1>0, <2>2, <3>1 DEF ChatTypes
      <3>3. \A k \in Instances : MarksStay(k) /\ Unskipped(k)
        BY <3>2 DEF MarksStay, Unskipped
      <3>4. \A k \in Instances, m \in Messages : row'[k][m].copies = row[k][m].copies
        <4>1. \A k \in Instances, m \in Messages : row[k][m] \in Copies
          BY <1>0 DEF ChatTypes
        <4>. DEFINE r == [row EXCEPT ![j][x].status = s]
        <4>2. \A k \in Instances, m \in Messages : r[k][m].copies = row[k][m].copies
          <5>1. [row[j][x] EXCEPT !.status = s].copies = row[j][x].copies
            BY <2>2, <4>1 DEF Copies
          <5>. QED BY <1>0, <2>2, <5>1 DEF ChatTypes
        <4>3. row' = [r EXCEPT ![j][x].text = t]
          BY <3>1
        <4>4. /\ DOMAIN r = Instances /\ \A k \in Instances : DOMAIN r[k] = Messages
              /\ "copies" \in DOMAIN r[j][x]
          <5>1. row \in [Instances -> [Messages -> Copies]]
            BY <1>0 DEF ChatTypes
          <5>2. DOMAIN r = Instances
            BY <5>1
          <5>3. \A k \in Instances : DOMAIN r[k] = Messages
            BY <2>2, <5>1
          <5>4. r[j][x] = [row[j][x] EXCEPT !.status = s]
            BY <2>2, <5>1
          <5>5. "copies" \in DOMAIN r[j][x]
            BY <2>2, <4>1, <5>4 DEF Copies
          <5>. QED BY <5>2, <5>3, <5>5
        <4>. HIDE DEF r
        <4>5. \A k \in Instances, m \in Messages : row'[k][m].copies = r[k][m].copies
          BY <2>2, <4>3, <4>4
        <4>. QED BY <4>2, <4>5
      <3>5. \A k \in Instances : RowsStay(k)
        BY <1>21, <3>4 DEF RowsStay
      <3>. QED BY <1>0, <1>k, <1>21, <2>3, <2>4, <3>3, <3>5, StillKept
    <2>. QED BY <1>21, <2>2, <2>5, <2>6 DEF Changed
  <1>22. ASSUME NEW i \in Instances, ApiEditRow(i) PROVE Goal
    BY <1>21, <1>22 DEF ApiEditRow, Statuses
  <1>23. ASSUME NEW i \in Instances, ApiDeleteRow(i) PROVE Goal
    BY <1>21, <1>23 DEF ApiDeleteRow, Statuses
  <1>24. ASSUME Expires PROVE Goal
    <2>1. UNCHANGED <<group, ignores, phone, queue, at, row, told, call, marks>>
      BY <1>24 DEF Expires
    <2>. QED BY <1>0, <1>k, <1>s, <2>1, StillKept
  <1>25. ASSUME Restart PROVE Goal
    <2>1. /\ UNCHANGED <<group, ignores, phone, row, told>>
          /\ \A i \in Instances : queue'[i] = <<>> /\ at'[i] = Waiting /\ call'[i] = NoCall
      BY <1>25 DEF Restart
    <2>2. PhonesStay /\ GroupStays /\ \A j \in Instances : RowsStay(j)
      BY <1>s, <2>1
    <2>3. \A i \in Instances, m \in Messages :
            /\ marks[i][m] \subseteq marks'[i][m] /\ marks'[i][m] \subseteq marks[i][m] \cup {"cut"}
            /\ m = call[i].m \/ m \in UNION {queue[i][n].msgs : n \in DOMAIN queue[i]} => "cut" \in marks'[i][m]
      BY <1>25 DEF Restart
    <2>4. \A i \in Instances : MarksStay(i) /\ Unskipped(i)
      BY <2>3 DEF MarksStay, Unskipped
    <2>5. \A i \in Instances : DOMAIN queue[i] = 1..Len(queue[i])
      BY <1>0, LenProperties DEF ChatTypes
    <2>6. \A i \in Instances, m \in Messages :
            call[i].m = m \/ (\E n \in 1..Len(queue[i]) : m \in queue[i][n].msgs) => "cut" \in marks'[i][m]
      BY <2>3, <2>5
    <2>. QED BY <1>0, <1>k, <2>1, <2>2, <2>4, <2>6, LostKept
  <1>. QED BY <1>1, <1>2, <1>3, <1>4, <1>5, <1>6, <1>7, <1>8, <1>9, <1>10, <1>11, <1>12,
              <1>13, <1>14, <1>15,
              <1>16, <1>17, <1>18, <1>19, <1>20, <1>22, <1>23, <1>24, <1>25 DEF Next

(* It holds at the start.                                                   *)
LEMMA KeptInit == ASSUME Chatting, Init PROVE KeptInv
PROOF
  <1>1. ChatTypes
    <2>1. Unsent \in Phones /\ NoRow \in Copies /\ NoCall \in Asks /\ Waiting \in Places /\ <<>> \in Seq(Batches)
      BY EmptySeq DEF Unsent, NoRow, NoCall, Waiting, Phones, Copies, Asks, Places,
             Statuses, Chatting
    <2>. QED BY <2>1 DEF Init, ChatTypes
  <1>. SUFFICES ASSUME NEW i \in Instances PROVE Kept(i)
    BY <1>1 DEF KeptInv
  <1>2. /\ queue[i] = <<>> /\ at[i] = Waiting /\ call[i] = NoCall
        /\ \A m \in Messages : phone[m] = Unsent /\ row[i][m] = NoRow /\ ~told[i][m] /\ marks[i][m] = {}
    BY DEF Init
  <1>3. Len(queue[i]) = 0
    BY <1>2, EmptySeq
  <1>4. \A n, k, m : ~Comes(i, n, k, m) /\ ~Holds(i, n, m) /\ ~Updates(i, n, m)
    BY <1>3 DEF Comes, Holds, Updates
  <1>5. InChat(i) /\ ComesOnce(i) /\ ComesFirst(i) /\ RowsCome(i)
    BY <1>4 DEF InChat, ComesOnce, ComesFirst, RowsCome
  <1>6. Written(i)
    BY <1>2 DEF Written, Exists, FromMe, Unsent, NoRow, Chatting
  <1>7. PlaceOK(i) /\ RequestOK(i) /\ RequestRows(i)
    BY <1>2 DEF PlaceOK, RequestOK, RequestRows, Waiting, NoCall
  <1>8. Tracked(i) /\ Skips(i)
    BY <1>2 DEF Tracked, Skips, Exists, Unsent
  <1>. QED BY <1>5, <1>6, <1>7, <1>8 DEF Kept

(* With no call and an empty queue, a message of the chat can only have its *)
(* one row and be told, or have been lost.                                  *)
LEMMA KeptEntails == ASSUME KeptInv PROVE NothingLost
PROOF
  <1>. SUFFICES ASSUME NEW i \in Instances, NEW m \in Chat(i)
                PROVE  /\ AtRest(i) /\ ~Ignored(i) /\ ~Except(i, m, {"cut", "stale"}) =>
                            row[i][m].copies = 1 /\ told[i][m]
                       /\ Except(i, m, {"skipped"}) => Except(i, m, {"cut"}) \/ FromMe(i, m) \/ Ignored(i)
    BY DEF NothingLost
  <1>1. m \in Messages /\ i \in phone[m].to /\ Exists(m) /\ Kept(i)
    BY DEF Chat, KeptInv, Kept, Written
  <1>2. ASSUME AtRest(i), ~Ignored(i), ~Except(i, m, {"cut", "stale"}) PROVE row[i][m].copies = 1 /\ told[i][m]
    <2>1. "cut" \notin marks[i][m] /\ "stale" \notin marks[i][m]
      BY <1>2 DEF Except
    <2>2. ~Comings(i, m)
      BY <1>2, EmptySeq DEF AtRest, Comings, Comes
    <2>3. call[i].op = "none"
      BY <1>2 DEF AtRest, NoCall
    <2>. QED BY <1>1, <1>2, <2>1, <2>2, <2>3 DEF Kept, Tracked
  <1>3. Except(i, m, {"skipped"}) => Except(i, m, {"cut"}) \/ FromMe(i, m) \/ Ignored(i)
    BY <1>1 DEF Kept, Skips, Except
  <1>. QED BY <1>2, <1>3

(* Where nothing happens it stays.                                          *)
LEMMA KeptStutters == ASSUME KeptInv, UNCHANGED vars PROVE KeptInv'
PROOF
  <1>1. UNCHANGED <<group, ignores, phone, seen, queue, at, row, told, known, call, marks>>
    BY DEF vars, whatsapp, table
  <1>2. ChatTypes /\ ChatTypes'
    BY <1>1 DEF KeptInv, ChatTypes
  <1>. QED BY <1>1, <1>2, Unchanging, StillKept DEF KeptInv

(* Whatever interleaves, fails and restarts, a message of the chat gets one *)
(* row and is told, save where the property excepts it, and an update does  *)
(* not come before the row: for any instances, messages and bounds.         *)
THEOREM NothingIsLost == MCSpec => []NothingLost
PROOF
  <1>0. Chatting
    BY MessagesAssumption DEF Chatting
  <1>1. MCInit => KeptInv
    BY <1>0, KeptInit DEF MCInit
  <1>2. KeptInv /\ [MCNext]_<<scene, vars, cvars, svars, dvars, avars, evars>> => KeptInv'
    <2>1. [MCNext]_<<scene, vars, cvars, svars, dvars, avars, evars>> => Next \/ UNCHANGED vars
      BY DEF MCNext
    <2>. QED BY <1>0, <2>1, KeptStep, KeptStutters
  <1>3. KeptInv => NothingLost
    BY KeptEntails
  <1>. QED BY <1>1, <1>2, <1>3, PTL DEF MCSpec

-----------------------------------------------------------------------------
(* Nothing has happened that the text of m is excepted for.                 *)
Free(i, m) == marks[i][m] \cap {"cut", "skipped", "crossed", "stale"} = {}

(* The n-th batch of the queue is an edit or a revocation of m.             *)
Turns(i, n, m, ty) == n \in 1..Len(queue[i]) /\ queue[i][n].type = ty /\ m \in queue[i][n].msgs

(* The row has the text of m, or its last edit is to come, or to be stored. *)
TextOrDue(i, m) ==
  i \in phone[m].to /\ Free(i, m) =>
    \/ call[i] = [op |-> "edit", m |-> m]
    \/ \E n \in Nat : /\ Turns(i, n, m, "edit") /\ queue[i][n].x = phone[m].text
                      /\ \A n2 \in Nat : Turns(i, n2, m, "edit") => n2 <= n
    \/ /\ \A n \in Nat : ~Turns(i, n, m, "edit")
       /\ row[i][m].copies > 0 => row[i][m].text = phone[m].text
       /\ row[i][m].copies = 0 => phone[m].text = 0

(* A revocation is in the status of the row, or to come.                    *)
RevokedOrDue(i, m) ==
  /\ FromMe(i, m) \/ row[i][m].copies = 0 => row[i][m].status # "DELIVERY_ACK"
  /\ i \in phone[m].to /\ phone[m].revoked /\ Free(i, m) =>
       \/ FromMe(i, m)
       \/ \E n \in Nat : Turns(i, n, m, "revoke")
       \/ row[i][m].copies > 0 /\ row[i][m].status # "DELIVERY_ACK"

TextInv == KeptInv /\ \A i \in Instances, m \in Messages : TextOrDue(i, m) /\ RevokedOrDue(i, m)

-----------------------------------------------------------------------------
(* What a step may do beside what it is for: the turns of m of a kind are   *)
(* as they were, d places behind, while nothing excepts m.                  *)
Shifted(i, m, ty, d) ==
  \A n \in Nat : /\ Turns(i, n, m, ty)' <=> n # 0 /\ Turns(i, n + d, m, ty)
                 /\ Turns(i, n, m, ty) => n > d
                 /\ Turns(i, n, m, ty)' => queue'[i][n].x = queue[i][n + d].x
EditsStay(i, m) ==
  Free(i, m)' => /\ Free(i, m)
                 /\ call[i] = [op |-> "edit", m |-> m] => call'[i] = call[i]
                 /\ \E d \in {0, 1} : Shifted(i, m, "edit", d)
RevokesStay(i, m) ==
  Free(i, m)' => Free(i, m) /\ \E d \in {0, 1} : Shifted(i, m, "revoke", d)

(* The row stays, or is made.                                               *)
RowGoesOn(i, m) ==
  \/ /\ row'[i][m].copies > 0 <=> row[i][m].copies > 0
     /\ row[i][m].copies > 0 /\ Free(i, m)' => row'[i][m].text = row[i][m].text
     /\ row'[i][m].status = "DELIVERY_ACK" => row[i][m].status = "DELIVERY_ACK"
  \/ /\ row[i][m].copies = 0 /\ row'[i][m].copies > 0
     /\ row'[i][m].text \in {0, phone[m].text}
     /\ FromMe(i, m) => row'[i][m].status # "DELIVERY_ACK"

(* And so does what is on WhatsApp.                                         *)
PhoneSame(m) == /\ phone'[m].from = phone[m].from /\ phone'[m].to = phone[m].to
                /\ phone'[m].text = phone[m].text /\ phone'[m].revoked = phone[m].revoked

(* The queue stays as to m where nothing is added or done about m.          *)
LEMMA SameShifted ==
  ASSUME NEW i \in Instances, NEW m \in Messages, NEW ty, queue'[i] = queue[i]
  PROVE  Shifted(i, m, ty, 0)
PROOF
  <1>1. \A n \in Nat : Turns(i, n, m, ty)' <=> Turns(i, n, m, ty)
    BY DEF Turns
  <1>2. \A n \in Nat : Turns(i, n, m, ty) => n > 0
    BY DEF Turns
  <1>3. \A n \in Nat : n + 0 = n
    OBVIOUS
  <1>. QED BY <1>1, <1>2, <1>3 DEF Shifted

(* So it does when something else comes.                                    *)
LEMMA AppendShifted ==
  ASSUME ChatTypes, NEW i \in Instances, NEW m \in Messages, NEW ty, NEW b \in Batches,
         queue'[i] = Append(queue[i], b), b.type # ty \/ m \notin b.msgs
  PROVE  Shifted(i, m, ty, 0)
PROOF
  <1>1. PICK L \in Nat : L = Len(queue[i]) /\ queue[i] \in Seq(Batches)
    BY LenProperties DEF ChatTypes
  <1>2. /\ Len(queue'[i]) = L + 1
        /\ \A n \in 1..L : queue'[i][n] = queue[i][n]
        /\ queue'[i][L + 1] = b
    BY <1>1, AppendProperties
  <1>3. \A n \in Nat : n + 0 = n /\ (n \in 1..L + 1 <=> n \in 1..L \/ n = L + 1) /\ ~(L + 1 \in 1..L)
    BY <1>1
  <1>4. \A n \in Nat : Turns(i, n, m, ty)' <=> Turns(i, n, m, ty)
    BY <1>1, <1>2, <1>3 DEF Turns
  <1>5. \A n \in Nat : Turns(i, n, m, ty) => n > 0 /\ n \in 1..L
    BY <1>1 DEF Turns
  <1>. QED BY <1>2, <1>3, <1>4, <1>5 DEF Shifted

(* And when a message joins the last batch.                                 *)
LEMMA JoinShifted ==
  ASSUME ChatTypes, NEW i \in Instances, NEW m \in Messages, NEW ty, NEW x \in Messages, ty # "upsert",
         Len(queue[i]) > 1, queue[i][Len(queue[i])].type = "upsert", queue'[i] = Joined(queue[i], x)
  PROVE  Shifted(i, m, ty, 0)
PROOF
  <1>1. PICK L \in Nat : L = Len(queue[i]) /\ queue[i] \in Seq(Batches)
    BY LenProperties DEF ChatTypes
  <1>2. /\ Len(queue'[i]) = L /\ queue'[i][L].type = "upsert" /\ queue[i][L].type = "upsert"
        /\ \A n \in 1..L : n # L => queue'[i][n] = queue[i][n]
    BY <1>1, JoinTyped
  <1>4. \A n \in Nat : Turns(i, n, m, ty)' <=> Turns(i, n, m, ty)
    BY <1>1, <1>2 DEF Turns
  <1>5. \A n \in Nat : Turns(i, n, m, ty) => n > 0 /\ n \in 1..L /\ n # L
    BY <1>1, <1>2 DEF Turns
  <1>6. \A n \in Nat : n + 0 = n
    OBVIOUS
  <1>. QED BY <1>2, <1>4, <1>5, <1>6 DEF Shifted

(* Or the first, of another kind, gives one away.                           *)
LEMMA ShrinkShifted ==
  ASSUME ChatTypes, NEW i \in Instances, NEW m \in Messages, NEW ty, NEW x, queue[i] # <<>>,
         queue[i][1].type # ty, queue'[i] = [queue[i] EXCEPT ![1].msgs = @ \ {x}]
  PROVE  Shifted(i, m, ty, 0)
PROOF
  <1>1. PICK L \in Nat : L = Len(queue[i]) /\ queue[i] \in Seq(Batches) /\ 1 \in 1..L /\ queue[i][1] \in Batches
    BY HeadTyped, LenProperties DEF ChatTypes
  <1>. DEFINE e == [queue[i][1] EXCEPT !.msgs = @ \ {x}]
              f == [queue[i] EXCEPT ![1] = e]
  <1>2. e \in Batches /\ e.type = queue[i][1].type /\ queue'[i] = f
    BY <1>1 DEF Batches
  <1>. HIDE DEF e
  <1>3. Len(f) = Len(queue[i]) /\ \A n \in 1..Len(queue[i]) : f[n] = IF n = 1 THEN e ELSE queue[i][n]
    BY <1>1, <1>2, ExceptSeq
  <1>. HIDE DEF f
  <1>4. Len(queue'[i]) = L /\ queue'[i][1].type = queue[i][1].type /\ \A n \in 1..L : n # 1 => queue'[i][n] = queue[i][n]
    BY <1>1, <1>2, <1>3
  <1>5. \A n \in Nat : Turns(i, n, m, ty)' <=> Turns(i, n, m, ty)
    BY <1>1, <1>4 DEF Turns
  <1>6. \A n \in Nat : Turns(i, n, m, ty) => n > 0 /\ n \in 1..L /\ n # 1
    BY <1>1 DEF Turns
  <1>7. \A n \in Nat : n + 0 = n
    OBVIOUS
  <1>. QED BY <1>4, <1>5, <1>6, <1>7 DEF Shifted

(* What is behind the first batch moves up.                                 *)
LEMMA TailTurns ==
  ASSUME ChatTypes, NEW i \in Instances, NEW m \in Messages, NEW ty, queue[i] # <<>>, queue'[i] = Tail(queue[i])
  PROVE  \A n \in Nat : /\ Turns(i, n, m, ty)' <=> n # 0 /\ Turns(i, n + 1, m, ty)
                        /\ Turns(i, n, m, ty)' => queue'[i][n].x = queue[i][n + 1].x
PROOF
  <1>1. PICK L \in Nat : L = Len(queue[i]) /\ L > 0 /\ queue[i] \in Seq(Batches)
    BY EmptySeq, LenProperties DEF ChatTypes
  <1>2. Len(queue'[i]) = L - 1 /\ \A n \in 1..L - 1 : queue'[i][n] = queue[i][n + 1]
    BY <1>1, HeadTailProperties
  <1>3. \A n \in Nat : n \in 1..L - 1 <=> n # 0 /\ n + 1 \in 1..L
    BY <1>1
  <1>4. \A n \in Nat : Turns(i, n, m, ty)' <=> n # 0 /\ Turns(i, n + 1, m, ty)
    BY <1>1, <1>2, <1>3 DEF Turns
  <1>5. \A n \in Nat : Turns(i, n, m, ty)' => n \in 1..L - 1
    BY <1>2 DEF Turns
  <1>. QED BY <1>2, <1>4, <1>5

(* Those of another message, or another kind, are one place behind.         *)
LEMMA TailShifted ==
  ASSUME ChatTypes, NEW i \in Instances, NEW m \in Messages, NEW ty, queue[i] # <<>>, queue'[i] = Tail(queue[i]),
         queue[i][1].type # ty \/ m \notin queue[i][1].msgs
  PROVE  Shifted(i, m, ty, 1)
PROOF
  <1>1. \A n \in Nat : Turns(i, n, m, ty) => n # 1 /\ n # 0
    BY DEF Turns
  <1>2. \A n \in Nat : n # 1 /\ n # 0 => n > 1
    OBVIOUS
  <1>. QED BY <1>1, <1>2, TailTurns DEF Shifted

(* A step that adds and does nothing about the text of m.                   *)
LEMMA TextStays ==
  ASSUME NEW i \in Instances, NEW m \in Messages, ChatTypes, ChatTypes', TextOrDue(i, m),
         phone'[m].to = phone[m].to, phone'[m].text = phone[m].text, RowGoesOn(i, m), EditsStay(i, m)
  PROVE  TextOrDue(i, m)'
PROOF
  <1>1. row[i][m].copies \in Nat /\ row'[i][m].copies \in Nat
    BY DEF ChatTypes, Copies
  <1>. SUFFICES ASSUME i \in phone[m].to, Free(i, m)'
                PROVE  \/ call'[i] = [op |-> "edit", m |-> m]
                       \/ \E n \in Nat : /\ Turns(i, n, m, "edit")' /\ queue'[i][n].x = phone[m].text
                                         /\ \A n2 \in Nat : Turns(i, n2, m, "edit")' => n2 <= n
                       \/ /\ \A n \in Nat : ~Turns(i, n, m, "edit")'
                          /\ row'[i][m].copies > 0 => row'[i][m].text = phone[m].text
                          /\ row'[i][m].copies = 0 => phone[m].text = 0
    BY DEF TextOrDue
  <1>2. PICK d \in {0, 1} : Shifted(i, m, "edit", d)
    BY DEF EditsStay
  <1>3. Free(i, m) /\ (call[i] = [op |-> "edit", m |-> m] => call'[i] = call[i])
    BY DEF EditsStay
  <1>4. ASSUME NEW n \in Nat, Turns(i, n, m, "edit"), queue[i][n].x = phone[m].text,
               \A n2 \in Nat : Turns(i, n2, m, "edit") => n2 <= n
        PROVE  \E k \in Nat : /\ Turns(i, k, m, "edit")' /\ queue'[i][k].x = phone[m].text
                              /\ \A n2 \in Nat : Turns(i, n2, m, "edit")' => n2 <= k
    <2>1. n > d
      BY <1>2, <1>4 DEF Shifted
    <2>2. PICK k \in Nat : k + d = n /\ k # 0
      <3>1. n - d \in Nat /\ (n - d) + d = n /\ n - d # 0
        BY <2>1
      <3>. QED BY <3>1
    <2>3. Turns(i, k, m, "edit")' /\ queue'[i][k].x = phone[m].text
      BY <1>2, <1>4, <2>2 DEF Shifted
    <2>4. ASSUME NEW n2 \in Nat, Turns(i, n2, m, "edit")' PROVE n2 <= k
      <3>1. Turns(i, n2 + d, m, "edit") /\ n2 + d \in Nat
        BY <1>2, <2>4 DEF Shifted
      <3>2. n2 + d <= n
        BY <1>4, <3>1
      <3>. QED BY <2>2, <3>2
    <2>. QED BY <2>3, <2>4
  <1>5. ASSUME \A n \in Nat : ~Turns(i, n, m, "edit"),
               row[i][m].copies > 0 => row[i][m].text = phone[m].text,
               row[i][m].copies = 0 => phone[m].text = 0
        PROVE  /\ \A n \in Nat : ~Turns(i, n, m, "edit")'
               /\ row'[i][m].copies > 0 => row'[i][m].text = phone[m].text
               /\ row'[i][m].copies = 0 => phone[m].text = 0
    <2>1. \A n \in Nat : n + d \in Nat
      OBVIOUS
    <2>2. \A n \in Nat : ~Turns(i, n, m, "edit")'
      BY <1>2, <1>5, <2>1 DEF Shifted
    <2>. QED BY <1>1, <1>5, <2>2 DEF RowGoesOn
  <1>. QED BY <1>3, <1>4, <1>5 DEF TextOrDue

(* A step that does nothing about a revocation of m.                        *)
LEMMA RevokedStays ==
  ASSUME NEW i \in Instances, NEW m \in Messages, ChatTypes, ChatTypes', RevokedOrDue(i, m),
         phone'[m].from = phone[m].from, phone'[m].to = phone[m].to, phone'[m].revoked = phone[m].revoked,
         RowGoesOn(i, m), RevokesStay(i, m)
  PROVE  RevokedOrDue(i, m)'
PROOF
  <1>1. row[i][m].copies \in Nat /\ row'[i][m].copies \in Nat
    BY DEF ChatTypes, Copies
  <1>2. FromMe(i, m)' <=> FromMe(i, m)
    BY DEF FromMe
  <1>3. FromMe(i, m)' \/ row'[i][m].copies = 0 => row'[i][m].status # "DELIVERY_ACK"
    BY <1>1, <1>2 DEF RevokedOrDue, RowGoesOn
  <1>4. ASSUME i \in phone[m].to, phone[m].revoked, Free(i, m)', ~FromMe(i, m)
        PROVE  (\E n \in Nat : Turns(i, n, m, "revoke")') \/ (row'[i][m].copies > 0 /\ row'[i][m].status # "DELIVERY_ACK")
    <2>1. PICK d \in {0, 1} : Shifted(i, m, "revoke", d)
      BY <1>4 DEF RevokesStay
    <2>2. ASSUME NEW n \in Nat, Turns(i, n, m, "revoke") PROVE \E k \in Nat : Turns(i, k, m, "revoke")'
      <3>1. n > d
        BY <2>1, <2>2 DEF Shifted
      <3>2. PICK k \in Nat : k + d = n /\ k # 0
        <4>1. n - d \in Nat /\ (n - d) + d = n /\ n - d # 0
          BY <3>1
        <4>. QED BY <4>1
      <3>. QED BY <2>1, <2>2, <3>2 DEF Shifted
    <2>3. Free(i, m)
      BY <1>4 DEF RevokesStay
    <2>. QED BY <1>1, <1>4, <2>2, <2>3 DEF RevokedOrDue, RowGoesOn
  <1>. QED BY <1>2, <1>3, <1>4 DEF RevokedOrDue

(* What leaves a row as it is, or only reads it.                            *)
LEMMA RowSame ==
  ASSUME NEW i \in Instances, NEW m \in Messages, ChatTypes,
         row'[i][m] = row[i][m] \/ row'[i][m] = [row[i][m] EXCEPT !.status = "READ"]
  PROVE  RowGoesOn(i, m)
PROOF
  <1>1. row[i][m] \in Copies
    BY DEF ChatTypes
  <1>. QED BY <1>1 DEF RowGoesOn, Copies

(* Marks only come, and none lifts what another has set.                    *)
MarksGrow == \A i \in Instances, m \in Messages : marks[i][m] \subseteq marks'[i][m]

(* What a state of the row is not caught up with, an earlier one was not.  *)
LEMMA FreeBefore ==
  ASSUME MarksGrow PROVE \A i \in Instances, m \in Messages : Free(i, m)' => Free(i, m)
BY DEF MarksGrow, Free

(* A mark a step found is there after it.                                  *)
LEMMA MarkGrows ==
  ASSUME ChatTypes, UNCHANGED marks \/ \E i \in Instances, mark \in Marks : \E ms : Mark(i, ms, mark)
  PROVE  MarksGrow
PROOF
  <1>1. CASE UNCHANGED marks
    BY <1>1 DEF MarksGrow
  <1>2. ASSUME NEW i \in Instances, NEW mark \in Marks, NEW ms, Mark(i, ms, mark) PROVE MarksGrow
    BY <1>2, Marked DEF MarksGrow
  <1>. QED BY <1>1, <1>2

(* Reading leaves the rows.                                                 *)
LEMMA ReadingGoesOn ==
  ASSUME ChatTypes, NEW i \in Instances, NEW t, MarksRead(i, t)
  PROVE  \A j \in Instances, m \in Messages : RowGoesOn(j, m)
PROOF
  <1>. DEFINE f == [m \in Messages |-> IF Unread(i, m) /\ phone[m].time <= t
                                       THEN [row[i][m] EXCEPT !.status = "READ"] ELSE row[i][m]]
  <1>1. row' = [row EXCEPT ![i] = f]
    BY DEF MarksRead
  <1>2. \A m \in Messages : f[m] = row[i][m] \/ f[m] = [row[i][m] EXCEPT !.status = "READ"]
    OBVIOUS
  <1>. HIDE DEF f
  <1>3. row'[i] = f /\ \A j \in Instances : j # i => row'[j] = row[j]
    BY <1>1 DEF ChatTypes
  <1>4. ASSUME NEW j \in Instances, NEW m \in Messages PROVE RowGoesOn(j, m)
    <2>1. row'[j][m] = row[j][m] \/ row'[j][m] = [row[j][m] EXCEPT !.status = "READ"]
      BY <1>2, <1>3
    <2>. QED BY <2>1, RowSame
  <1>. QED BY <1>4

(* The queue of i goes on as to m.                                          *)
QueueGoesOn(i, m) == \A ty \in {"edit", "revoke"} : \E d \in {0, 1} : Shifted(i, m, ty, d)

(* A step that does nothing about m.                                        *)
LEMMA StaysBoth ==
  ASSUME NEW i \in Instances, NEW m \in Messages, ChatTypes, ChatTypes', TextOrDue(i, m), RevokedOrDue(i, m),
         PhoneSame(m), RowGoesOn(i, m), Free(i, m)' => Free(i, m) /\ QueueGoesOn(i, m),
         call[i] = [op |-> "edit", m |-> m] /\ Free(i, m)' => call'[i] = call[i]
  PROVE  TextOrDue(i, m)' /\ RevokedOrDue(i, m)'
PROOF
  <1>1. EditsStay(i, m) /\ RevokesStay(i, m)
    BY DEF EditsStay, RevokesStay, QueueGoesOn
  <1>. QED BY <1>1, TextStays, RevokedStays DEF PhoneSame

(* The queue goes on in these ways.                                         *)
LEMMA QueuesGoOn ==
  ASSUME ChatTypes, NEW i \in Instances, NEW m \in Messages
  PROVE  /\ queue'[i] = queue[i] => QueueGoesOn(i, m)
         /\ \A b \in Batches : queue'[i] = Append(queue[i], b) /\ (b.type \notin {"edit", "revoke"} \/ m \notin b.msgs)
                                 => QueueGoesOn(i, m)
         /\ \A x \in Messages : /\ Len(queue[i]) > 1 /\ queue[i][Len(queue[i])].type = "upsert"
                                /\ queue'[i] = Joined(queue[i], x)
                                => QueueGoesOn(i, m)
         /\ \A x : /\ queue[i] # <<>> /\ queue[i][1].type \notin {"edit", "revoke"}
                   /\ queue'[i] = [queue[i] EXCEPT ![1].msgs = @ \ {x}]
                   => QueueGoesOn(i, m)
         /\ /\ queue[i] # <<>> /\ queue'[i] = Tail(queue[i])
            /\ queue[i][1].type \notin {"edit", "revoke"} \/ m \notin queue[i][1].msgs
            => QueueGoesOn(i, m)
PROOF
  <1>1. queue'[i] = queue[i] => QueueGoesOn(i, m)
    BY SameShifted DEF QueueGoesOn
  <1>2. ASSUME NEW b \in Batches, queue'[i] = Append(queue[i], b), b.type \notin {"edit", "revoke"} \/ m \notin b.msgs
        PROVE  QueueGoesOn(i, m)
    <2>1. ASSUME NEW ty \in {"edit", "revoke"} PROVE Shifted(i, m, ty, 0)
      <3>1. b.type # ty \/ m \notin b.msgs
        BY <1>2
      <3>. QED BY <1>2, <3>1, AppendShifted
    <2>. QED BY <2>1 DEF QueueGoesOn
  <1>3. ASSUME NEW x \in Messages, Len(queue[i]) > 1, queue[i][Len(queue[i])].type = "upsert",
               queue'[i] = Joined(queue[i], x)
        PROVE  QueueGoesOn(i, m)
    BY <1>3, JoinShifted DEF QueueGoesOn
  <1>4. ASSUME NEW x, queue[i] # <<>>, queue[i][1].type \notin {"edit", "revoke"},
               queue'[i] = [queue[i] EXCEPT ![1].msgs = @ \ {x}]
        PROVE  QueueGoesOn(i, m)
    <2>1. ASSUME NEW ty \in {"edit", "revoke"} PROVE Shifted(i, m, ty, 0)
      BY <1>4, ShrinkShifted
    <2>. QED BY <2>1 DEF QueueGoesOn
  <1>5. ASSUME queue[i] # <<>>, queue'[i] = Tail(queue[i]),
               queue[i][1].type \notin {"edit", "revoke"} \/ m \notin queue[i][1].msgs
        PROVE  QueueGoesOn(i, m)
    <2>1. ASSUME NEW ty \in {"edit", "revoke"} PROVE Shifted(i, m, ty, 1)
      <3>1. queue[i][1].type # ty \/ m \notin queue[i][1].msgs
        BY <1>5
      <3>. QED BY <1>5, <3>1, TailShifted
    <2>. QED BY <2>1 DEF QueueGoesOn
  <1>. QED BY <1>1, <1>2, <1>3, <1>4, <1>5

(* A message that is new has no text, no row and no turn.                   *)
LEMMA NewText ==
  ASSUME NEW i \in Instances, NEW x \in Messages, NEW o, NEW to, Appeared(x, o, to),
         ~Exists(x), Kept(i), QueueGoesOn(i, x), RevokedOrDue(i, x), row'[i][x] = row[i][x]
  PROVE  TextOrDue(i, x)' /\ RevokedOrDue(i, x)'
PROOF
  <1>1. \A n \in Nat : ~Turns(i, n, x, "edit")
    BY DEF Kept, InChat, Updates, Holds, Turns
  <1>2. PICK d \in {0, 1} : Shifted(i, x, "edit", d)
    BY DEF QueueGoesOn
  <1>3. \A n \in Nat : n + d \in Nat
    OBVIOUS
  <1>4. \A n \in Nat : ~Turns(i, n, x, "edit")'
    BY <1>1, <1>2, <1>3 DEF Shifted
  <1>5. row'[i][x].copies = 0 /\ row'[i][x].status # "DELIVERY_ACK"
    BY DEF Kept, Written, RevokedOrDue
  <1>6. ~(row'[i][x].copies > 0)
    BY <1>5
  <1>. QED BY <1>4, <1>5, <1>6 DEF Appeared, TextOrDue, RevokedOrDue

(* An edit that comes is the last.                                          *)
LEMMA LastEdit ==
  ASSUME ChatTypes, NEW i \in Instances, NEW m \in Messages, NEW b \in Batches, queue'[i] = Append(queue[i], b),
         b.type \in {"edit", "revoke"}, m \in b.msgs
  PROVE  \E n \in Nat : /\ Turns(i, n, m, b.type)' /\ queue'[i][n].x = b.x
                        /\ \A n2 \in Nat : Turns(i, n2, m, "edit")' => n2 <= n
PROOF
  <1>1. PICK L \in Nat : L = Len(queue[i]) /\ queue[i] \in Seq(Batches)
    BY LenProperties DEF ChatTypes
  <1>2. Len(queue'[i]) = L + 1 /\ queue'[i][L + 1] = b
    BY <1>1, AppendProperties
  <1>3. L + 1 \in Nat /\ L + 1 \in 1..L + 1 /\ \A n \in 1..L + 1 : n <= L + 1
    BY <1>1
  <1>4. Turns(i, L + 1, m, b.type)' /\ queue'[i][L + 1].x = b.x
    BY <1>2, <1>3 DEF Turns
  <1>5. \A n2 \in Nat : Turns(i, n2, m, "edit")' => n2 <= L + 1
    BY <1>2, <1>3 DEF Turns
  <1>. QED BY <1>3, <1>4, <1>5

(* Every step keeps the text and the revocation in the row, or to come.     *)
LEMMA TextStep == ASSUME Chatting, TextInv, Next PROVE TextInv'
PROOF
  <1>. USE DEF whatsapp, table
  <1>0. KeptInv' /\ ChatTypes /\ ChatTypes' /\ \A i \in Instances : Kept(i)
    BY KeptStep DEF TextInv, KeptInv
  <1>. DEFINE Good(j, m) == TextOrDue(j, m)' /\ RevokedOrDue(j, m)'
              Goal == \A j \in Instances, m \in Messages : Good(j, m)
  <1>. SUFFICES Goal
    BY <1>0 DEF TextInv
  <1>g. ASSUME NEW j \in Instances, NEW m \in Messages, PhoneSame(m), RowGoesOn(j, m),
               Free(j, m)' => Free(j, m) /\ QueueGoesOn(j, m),
               call[j] = [op |-> "edit", m |-> m] /\ Free(j, m)' => call'[j] = call[j]
        PROVE  Good(j, m)
    BY <1>0, <1>g, StaysBoth DEF TextInv
  <1>p. UNCHANGED phone => \A m \in Messages : PhoneSame(m)
    BY DEF PhoneSame
  <1>r. \A j \in Instances, m \in Messages : row'[j][m] = row[j][m] => RowGoesOn(j, m)
    BY <1>0, RowSame
  <1>f. MarksGrow => \A j \in Instances, m \in Messages : Free(j, m)' => Free(j, m)
    BY FreeBefore
  <1>u. UNCHANGED marks => MarksGrow
    BY DEF MarksGrow
  <1>q. \A j \in Instances, m \in Messages : queue'[j] = queue[j] => QueueGoesOn(j, m)
    BY <1>0, QueuesGoOn
  <1>. HIDE DEF Good
  <1>a. ASSUME NEW who \in SUBSET Instances, NEW b \in Batches, Report(who, b), NEW j \in Instances, NEW m \in Messages,
               b.type \notin {"edit", "revoke"} \/ m \notin b.msgs
        PROVE  QueueGoesOn(j, m)
    <2>1. (j \in who => queue'[j] = Append(queue[j], b)) /\ (j \notin who => queue'[j] = queue[j])
      BY <1>0, <1>a, Reported
    <2>. QED BY <1>0, <1>a, <2>1, QueuesGoOn
  <1>1. ASSUME NEW who \in SUBSET Instances, NEW b \in Batches, Report(who, b), b.type \notin {"edit", "revoke"},
               UNCHANGED <<phone, row, call, marks>>
        PROVE  Goal
    BY <1>1, <1>a, <1>f, <1>g, <1>p, <1>r, <1>u
  <1>2. ASSUME NEW i \in Instances, Reads(i) PROVE Goal
    <2>. DEFINE b == IF group THEN Batch("receipt", {}, Clock) ELSE Batch("read", Chat(i) \ seen[i], 0)
    <2>1. b \in Batches /\ b.type \notin {"edit", "revoke"}
      BY <1>0, ClockTyped DEF Batch, Batches, Chat
    <2>. HIDE DEF b
    <2>2. Report({i}, b) /\ UNCHANGED <<phone, row, call, marks>>
      BY <1>2 DEF Reads, b
    <2>. QED BY <1>1, <2>1, <2>2
  <1>3. ASSUME NEW i \in Instances, Syncs(i) PROVE Goal
    <2>. DEFINE b == Batch("history", Chat(i), 0)
    <2>1. b \in Batches /\ b.type \notin {"edit", "revoke"}
      BY DEF Batch, Batches, Chat
    <2>. HIDE DEF b
    <2>2. Report({i}, b) /\ UNCHANGED <<phone, row, call, marks>>
      BY <1>3 DEF Syncs, b
    <2>. QED BY <1>1, <2>1, <2>2
  <1>4. ASSUME NEW i \in Instances, NEW x \in Messages, Acked(i, x) PROVE Goal
    <2>. DEFINE b == IF group THEN Batch("receipt", {}, Clock) ELSE Batch("ack", {x}, 0)
    <2>1. b \in Batches /\ b.type \notin {"edit", "revoke"}
      BY <1>0, ClockTyped DEF Batch, Batches
    <2>. HIDE DEF b
    <2>2. Report({i}, b) /\ UNCHANGED <<phone, row, call, marks>>
      BY <1>4 DEF Acked, b
    <2>. QED BY <1>1, <2>1, <2>2
  <1>5. ASSUME NEW x \in Messages, NEW who \in SUBSET Instances, NEW b \in Batches, Report(who, b),
               b = Batch("edit", {x}, phone[x].text + 1), ~phone[x].revoked,
               phone' = [phone EXCEPT ![x].text = @ + 1], UNCHANGED <<row, marks>>,
               \A j \in phone[x].to : j \in who \/ call'[j] = [op |-> "edit", m |-> x],
               \A j \in Instances : call'[j] = call[j] \/ call[j] = NoCall
        PROVE  Goal
    <2>1. /\ \A m \in Messages : m # x => PhoneSame(m)
          /\ phone'[x].from = phone[x].from /\ phone'[x].to = phone[x].to
          /\ phone'[x].text = phone[x].text + 1 /\ phone'[x].revoked = phone[x].revoked
      <3>1. phone[x] \in Phones /\ phone'[x] = [phone[x] EXCEPT !.text = @ + 1]
            /\ \A m \in Messages : m # x => phone'[m] = phone[m]
        BY <1>0, <1>5 DEF ChatTypes
      <3>. QED BY <3>1 DEF Phones, PhoneSame
    <2>2. b.type = "edit" /\ b.msgs = {x} /\ b.x = phone[x].text + 1
      BY <1>5 DEF Batch
    <2>3. ASSUME NEW j \in Instances, NEW m \in Messages, m # x PROVE Good(j, m)
      <3>1. call[j] = [op |-> "edit", m |-> m] => call'[j] = call[j]
        BY <1>5 DEF NoCall
      <3>. QED BY <1>5, <1>a, <1>f, <1>g, <1>r, <1>u, <2>1, <2>2, <2>3, <3>1
    <2>4. ASSUME NEW j \in Instances PROVE Good(j, x)
      <3>1. RevokedOrDue(j, x)'
        BY <1>5, <2>1 DEF TextInv, RevokedOrDue, FromMe
      <3>2. TextOrDue(j, x)'
        <4>1. CASE j \notin phone[x].to \/ call'[j] = [op |-> "edit", m |-> x]
          BY <2>1, <4>1 DEF TextOrDue
        <4>2. CASE j \in who
          <5>1. queue'[j] = Append(queue[j], b)
            BY <1>0, <1>5, <4>2, Reported
          <5>2. \E n \in Nat : /\ Turns(j, n, x, "edit")' /\ queue'[j][n].x = phone'[x].text
                               /\ \A n2 \in Nat : Turns(j, n2, x, "edit")' => n2 <= n
            BY <1>0, <2>1, <2>2, <5>1, LastEdit
          <5>. QED BY <5>2 DEF TextOrDue
        <4>. QED BY <1>5, <4>1, <4>2
      <3>. QED BY <3>1, <3>2 DEF Good
    <2>. QED BY <2>3, <2>4
  <1>6. ASSUME NEW x \in Messages, Edits(x) PROVE Goal
    <2>1. phone[x].to \in SUBSET Instances /\ Batch("edit", {x}, phone[x].text + 1) \in Batches
      BY <1>0 DEF Batch, Batches, ChatTypes, Phones
    <2>. QED BY <1>5, <1>6, <2>1 DEF Edits
  <1>7. ASSUME NEW i \in Instances, NEW x \in Messages, ApiEdit(i, x) PROVE Goal
    <2>1. phone[x].to \ {i} \in SUBSET Instances /\ Batch("edit", {x}, phone[x].text + 1) \in Batches
      BY <1>0 DEF Batch, Batches, ChatTypes, Phones
    <2>2. call[i] = NoCall /\ call' = [call EXCEPT ![i] = [op |-> "edit", m |-> x]]
      BY <1>7 DEF ApiEdit, Begins
    <2>3. call'[i] = [op |-> "edit", m |-> x] /\ \A j \in Instances : j # i => call'[j] = call[j]
      BY <1>0, <2>2 DEF ChatTypes
    <2>4. /\ Report(phone[x].to \ {i}, Batch("edit", {x}, phone[x].text + 1)) /\ ~phone[x].revoked
          /\ phone' = [phone EXCEPT ![x].text = @ + 1] /\ UNCHANGED <<row, marks>>
      BY <1>7 DEF ApiEdit
    <2>5. \A j \in phone[x].to : j \in phone[x].to \ {i} \/ call'[j] = [op |-> "edit", m |-> x]
      BY <2>3
    <2>. QED BY <1>5, <2>1, <2>2, <2>3, <2>4, <2>5
  <1>8. ASSUME NEW x \in Messages, NEW who \in SUBSET Instances, NEW b \in Batches, Report(who, b),
               b = Batch("revoke", {x}, 0), phone' = [phone EXCEPT ![x].revoked = TRUE], UNCHANGED <<row, marks>>,
               \A j \in phone[x].to : j \in who \/ FromMe(j, x),
               \A j \in Instances : call'[j] = call[j] \/ call[j] = NoCall
        PROVE  Goal
    <2>1. /\ \A m \in Messages : m # x => PhoneSame(m)
          /\ phone'[x].from = phone[x].from /\ phone'[x].to = phone[x].to /\ phone'[x].text = phone[x].text
      <3>1. phone[x] \in Phones /\ phone'[x] = [phone[x] EXCEPT !.revoked = TRUE]
            /\ \A m \in Messages : m # x => phone'[m] = phone[m]
        BY <1>0, <1>8 DEF ChatTypes
      <3>. QED BY <3>1 DEF Phones, PhoneSame
    <2>2. b.type = "revoke" /\ b.msgs = {x}
      BY <1>8 DEF Batch
    <2>c. \A j \in Instances, m \in Messages : call[j] = [op |-> "edit", m |-> m] => call'[j] = call[j]
      BY <1>8 DEF NoCall
    <2>3. ASSUME NEW j \in Instances, NEW m \in Messages, m # x PROVE Good(j, m)
      BY <1>8, <1>a, <1>f, <1>g, <1>r, <1>u, <2>1, <2>2, <2>3, <2>c
    <2>4. ASSUME NEW j \in Instances PROVE Good(j, x)
      <3>1. (j \in who => queue'[j] = Append(queue[j], b)) /\ (j \notin who => queue'[j] = queue[j])
        BY <1>0, <1>8, Reported
      <3>2. RevokedOrDue(j, x)'
        <4>1. CASE j \in who
          <5>1. \E n \in Nat : Turns(j, n, x, "revoke")'
            BY <1>0, <2>2, <3>1, <4>1, LastEdit
          <5>. QED BY <1>8, <2>1, <5>1 DEF TextInv, RevokedOrDue, FromMe
        <4>2. CASE j \notin who
          BY <1>8, <2>1, <4>2 DEF TextInv, RevokedOrDue, FromMe
        <4>. QED BY <4>1, <4>2
      <3>3. Shifted(j, x, "edit", 0)
        BY <1>0, <2>2, <3>1, SameShifted, AppendShifted
      <3>4. EditsStay(j, x)
        BY <1>8, <1>f, <1>u, <2>c, <3>3 DEF EditsStay
      <3>5. TextOrDue(j, x)'
        BY <1>0, <1>8, <1>r, <2>1, <3>4, TextStays DEF TextInv
      <3>. QED BY <3>2, <3>5 DEF Good
    <2>. QED BY <2>3, <2>4
  <1>9. ASSUME NEW x \in Messages, Revokes(x) PROVE Goal
    <2>1. phone[x].to \in SUBSET Instances /\ Batch("revoke", {x}, 0) \in Batches
      BY <1>0 DEF Batch, Batches, ChatTypes, Phones
    <2>. QED BY <1>8, <1>9, <2>1 DEF Revokes
  <1>10. ASSUME NEW i \in Instances, NEW x \in Messages, ApiDelete(i, x) PROVE Goal
    <2>1. phone[x].to \ {i} \in SUBSET Instances /\ Batch("revoke", {x}, 0) \in Batches
      BY <1>0 DEF Batch, Batches, ChatTypes, Phones
    <2>2. call[i] = NoCall /\ call' = [call EXCEPT ![i] = [op |-> "delete", m |-> x]]
      BY <1>10 DEF ApiDelete, Begins
    <2>3. \A j \in Instances : j # i => call'[j] = call[j]
      BY <1>0, <2>2 DEF ChatTypes
    <2>4. /\ Report(phone[x].to \ {i}, Batch("revoke", {x}, 0)) /\ FromMe(i, x)
          /\ phone' = [phone EXCEPT ![x].revoked = TRUE] /\ UNCHANGED <<row, marks>>
      BY <1>10 DEF ApiDelete
    <2>5. \A j \in phone[x].to : j \in phone[x].to \ {i} \/ FromMe(j, x)
      BY <2>4
    <2>. QED BY <1>8, <2>1, <2>2, <2>3, <2>4, <2>5
  <1>11. ASSUME NEW x \in Messages, NEW o \in Instances \cup {Nobody}, NEW to \in SUBSET Instances,
                NEW who \in SUBSET to, Appears(x, o, to), ReportMessage(who, x), ~Exists(x), UNCHANGED <<row, marks>>,
                \A j \in Instances : call'[j] = call[j] \/ call[j] = NoCall
         PROVE  Goal
    <2>1. Appeared(x, o, to)
      BY <1>0, <1>11, AppearedTyped
    <2>2. \A m \in Messages : m # x => PhoneSame(m)
      BY <2>1 DEF Appeared, PhoneSame
    <2>3. ASSUME NEW j \in Instances, NEW m \in Messages PROVE QueueGoesOn(j, m)
      <3>1. /\ j \notin who => queue'[j] = queue[j]
            /\ j \in who => \/ queue'[j] = Append(queue[j], Upsert(x))
                            \/ /\ Len(queue[j]) > 1 /\ queue[j][Len(queue[j])].type = "upsert"
                               /\ queue'[j] = Joined(queue[j], x)
        BY <1>0, <1>11, MessageReported
      <3>2. Upsert(x) \in Batches /\ Upsert(x).type \notin {"edit", "revoke"}
        BY DEF Upsert, Batches
      <3>. QED BY <1>0, <3>1, <3>2, QueuesGoOn
    <2>4. \A j \in Instances : Good(j, x)
      BY <1>0, <1>11, <2>1, <2>3, NewText DEF TextInv, Good
    <2>5. ASSUME NEW j \in Instances, NEW m \in Messages, m # x PROVE Good(j, m)
      <3>1. call[j] = [op |-> "edit", m |-> m] => call'[j] = call[j]
        BY <1>11 DEF NoCall
      <3>. QED BY <1>11, <1>f, <1>g, <1>r, <1>u, <2>2, <2>3, <2>5, <3>1
    <2>. QED BY <2>4, <2>5
  <1>12. ASSUME NEW x \in Messages, Arrives(x) PROVE Goal
    <2>1. PICK to \in SUBSET Instances, o \in Instances \cup {Nobody} : Appears(x, o, to) /\ ReportMessage(to, x)
      BY <1>12 DEF Arrives
    <2>2. ~Exists(x) /\ UNCHANGED <<row, call, marks>>
      BY <1>12 DEF Arrives
    <2>. QED BY <1>11, <2>1, <2>2
  <1>13. ASSUME NEW i \in Instances, NEW x \in Messages, ApiSend(i, x) PROVE Goal
    <2>1. PICK to \in SUBSET Instances : Appears(x, i, to) /\ ReportMessage(to \ {i}, x)
      BY <1>13 DEF ApiSend, SendMessage
    <2>2. /\ ~Exists(x) /\ UNCHANGED <<row, marks>>
          /\ call[i] = NoCall /\ call' = [call EXCEPT ![i] = [op |-> "send", m |-> x]]
      BY <1>13 DEF ApiSend, Begins
    <2>3. \A j \in Instances : call'[j] = call[j] \/ call[j] = NoCall
      BY <1>0, <2>2 DEF ChatTypes
    <2>. QED BY <1>11, <2>1, <2>2, <2>3
  <1>b. ASSUME NEW i \in Instances, NEW m \in Messages, UNCHANGED <<phone, call>>, MarksGrow,
               RowGoesOn(i, m), Free(i, m)' => QueueGoesOn(i, m)
        PROVE  Good(i, m)
    BY <1>b, <1>f, <1>g, <1>p
  <1>d. ASSUME NEW i \in Instances, queue[i] # <<>>, Done(i), MarksGrow, UNCHANGED <<phone, call>>
        PROVE  /\ \A j \in Instances, m \in Messages : j # i /\ RowGoesOn(j, m) => Good(j, m)
               /\ \A m \in Messages : /\ RowGoesOn(i, m)
                                      /\ Free(i, m)' => queue[i][1].type \notin {"edit", "revoke"} \/ m \notin queue[i][1].msgs
                                      => Good(i, m)
    <2>1. queue'[i] = Tail(queue[i]) /\ \A j \in Instances : j # i => queue'[j] = queue[j]
      BY <1>0, <1>d, DoneTyped
    <2>2. \A j \in Instances, m \in Messages : j # i /\ RowGoesOn(j, m) => Good(j, m)
      BY <1>b, <1>d, <1>q, <2>1
    <2>3. ASSUME NEW m \in Messages, RowGoesOn(i, m),
                 Free(i, m)' => queue[i][1].type \notin {"edit", "revoke"} \/ m \notin queue[i][1].msgs
          PROVE  Good(i, m)
      <3>1. Free(i, m)' => QueueGoesOn(i, m)
        BY <1>0, <1>d, <2>1, <2>3, QueuesGoOn
      <3>. QED BY <1>b, <1>d, <2>3, <3>1
    <2>. QED BY <2>2, <2>3
  <1>14. ASSUME NEW i \in Instances, Create(i) PROVE Goal
    <2>1. UNCHANGED <<phone, call, marks>> /\ Busy(i, {"upsert"}) /\ at[i].pc = "next"
      BY <1>14 DEF Create
    <2>2. queue[i] # <<>> /\ queue[i][1].type = "upsert"
      BY <1>0, <2>1, HeadTyped DEF Busy
    <2>3. CASE at[i].n > Len(Head1(i).order) \/ Ignored(i)
      <3>1. Done(i) /\ UNCHANGED row
        BY <1>14, <2>3 DEF Create
      <3>. QED BY <1>d, <1>r, <1>u, <2>1, <2>2, <3>1
    <2>4. CASE ~(at[i].n > Len(Head1(i).order) \/ Ignored(i))
      <3>1. /\ row' = [row EXCEPT ![i][Current(i)] = Prepared(i, Current(i), row[i][Current(i)].copies + 1, 0)]
            /\ queue' = queue
        BY <1>14, <2>4 DEF Create
      <3>2. at[i].pc = "next" => at[i].n <= Len(Head1(i).order)
        <4>1. Head1(i) \in Batches
          BY <1>0, <2>1, HeadTyped DEF Busy
        <4>2. Len(Head1(i).order) \in Nat /\ at[i].n \in Nat
          BY <1>0, <4>1, LenProperties DEF Batches, ChatTypes, Places
        <4>. QED BY <2>4, <4>2
      <3>3. PICK x \in Messages, k \in Nat : x = Current(i) /\ k = at[i].n /\ Comes(i, 1, k, x)
        BY <1>0, <2>1, <3>2, CurrentComes
      <3>4. row[i][x].copies = 0
        BY <1>0, <2>1, <3>3 DEF Kept, RowsCome, ToCome
      <3>5. /\ row'[i][x] = Prepared(i, x, 1, 0)
            /\ \A j \in Instances, m \in Messages : j # i \/ m # x => row'[j][m] = row[j][m]
        BY <1>0, <3>1, <3>3, <3>4 DEF ChatTypes
      <3>6. RowGoesOn(i, x)
        BY <3>4, <3>5 DEF RowGoesOn, Prepared
      <3>7. \A j \in Instances, m \in Messages : RowGoesOn(j, m)
        BY <1>r, <3>5, <3>6
      <3>. QED BY <1>b, <1>q, <1>u, <2>1, <3>1, <3>7
    <2>. QED BY <2>3, <2>4
  <1>15. ASSUME NEW i \in Instances, Count(i) PROVE Goal
    <2>1. UNCHANGED <<phone, queue, call>>
      BY <1>15 DEF Count
    <2>2. MarksGrow
      <3>1. UNCHANGED marks \/ Mark(i, Chat(i), "passed")
        BY <1>15 DEF Count
      <3>. QED BY <1>0, <3>1, MarkGrows DEF Marks
    <2>3. \A j \in Instances, m \in Messages : RowGoesOn(j, m)
      <3>1. UNCHANGED row \/ MarksRead(i, phone[Current(i)].time)
        BY <1>15 DEF Count
      <3>. QED BY <1>0, <1>r, <3>1, ReadingGoesOn
    <2>. QED BY <1>b, <1>q, <2>1, <2>2, <2>3
  <1>16. ASSUME UNCHANGED <<phone, queue, row, marks>>,
                \A j \in Instances, m \in Messages : call[j] = [op |-> "edit", m |-> m] => call'[j] = call[j]
         PROVE  Goal
    BY <1>16, <1>f, <1>g, <1>p, <1>q, <1>r, <1>u
  <1>17. ASSUME NEW i \in Instances, Tell(i) PROVE Goal
    BY <1>16, <1>17 DEF Tell
  <1>18. ASSUME NEW i \in Instances, Fails(i) PROVE Goal
    <2>1. /\ UNCHANGED <<phone, row, call>> /\ queue[i] # <<>> /\ Done(i)
          /\ Mark(i, seen[i] \cup {m \in Head1(i).msgs : ~told[i][m] \/ Head1(i).type # "upsert"}, "cut")
      BY <1>18 DEF Fails
    <2>2. MarksGrow
      BY <1>0, <2>1, MarkGrows DEF Marks
    <2>3. ASSUME NEW m \in Messages, Free(i, m)'
          PROVE  queue[i][1].type \notin {"edit", "revoke"} \/ m \notin queue[i][1].msgs
      <3>1. Head1(i) = queue[i][1]
        BY <1>0, <2>1, HeadTyped
      <3>2. m \in queue[i][1].msgs /\ queue[i][1].type # "upsert" => "cut" \in marks'[i][m]
        BY <1>0, <2>1, <3>1, Marked DEF Marks
      <3>. QED BY <2>3, <3>2 DEF Free
    <2>. QED BY <1>d, <1>r, <2>1, <2>2, <2>3
  <1>19. ASSUME NEW i \in Instances, EditRow(i) PROVE Goal
    <2>. DEFINE b == Head1(i)
                f == [m \in Messages |-> IF m \in b.msgs /\ Stored(i, m)
                        THEN [row[i][m] EXCEPT !.status = "EDITED",
                                               !.text = IF b.type = "revoke" THEN row[i][m].text ELSE b.x]
                        ELSE row[i][m]]
    <2>1. /\ UNCHANGED <<phone, call>> /\ Busy(i, {"edit", "revoke"}) /\ Done(i)
          /\ Mark(i, {m \in b.msgs : ~Stored(i, m)}, "skipped")
      BY <1>19 DEF EditRow
    <2>2. row' = [row EXCEPT ![i] = f]
      BY <1>19, Zenon DEF EditRow
    <2>3. ASSUME NEW m \in Messages
          PROVE  IF m \in b.msgs /\ Stored(i, m)
                 THEN /\ f[m].copies = row[i][m].copies /\ f[m].status = "EDITED"
                      /\ f[m].text = IF b.type = "revoke" THEN row[i][m].text ELSE b.x
                 ELSE f[m] = row[i][m]
      <3>1. row[i][m] \in Copies
        BY <1>0 DEF ChatTypes
      <3>. HIDE DEF b
      <3>. QED BY <3>1 DEF Copies
    <2>. HIDE DEF f
    <2>4. row'[i] = f /\ \A j \in Instances : j # i => row'[j] = row[j]
      BY <1>0, <2>2 DEF ChatTypes
    <2>5. MarksGrow /\ \A m \in Messages : m \in b.msgs /\ ~Stored(i, m) => "skipped" \in marks'[i][m]
      BY <1>0, <2>1, Marked, MarkGrows DEF Marks
    <2>6. queue[i] # <<>> /\ queue'[i] = Tail(queue[i]) /\ b = queue[i][1] /\ 1 \in 1..Len(queue[i])
          /\ b.type \in {"edit", "revoke"}
      BY <1>0, <2>1, DoneTyped, HeadTyped DEF Busy
    <2>. HIDE DEF b
    <2>7. \A j \in Instances, m \in Messages : j # i => Good(j, m)
      BY <1>d, <1>r, <2>1, <2>4, <2>5, <2>6
    <2>8. ASSUME NEW m \in Messages PROVE Good(i, m)
      <3>1. CASE ~(m \in b.msgs /\ Stored(i, m))
        <4>1. row'[i][m] = row[i][m]
          BY <2>3, <2>4, <3>1
        <4>2. Free(i, m)' => m \notin queue[i][1].msgs
          BY <2>5, <2>6, <3>1 DEF Free
        <4>. QED BY <1>d, <1>r, <2>1, <2>5, <2>6, <4>1, <4>2
      <3>2. CASE m \in b.msgs /\ Stored(i, m)
        <4>1. /\ row'[i][m].copies = row[i][m].copies /\ row'[i][m].copies > 0 /\ row'[i][m].status = "EDITED"
              /\ row'[i][m].text = IF b.type = "revoke" THEN row[i][m].text ELSE b.x
          BY <2>3, <2>4, <3>2 DEF Stored
        <4>2. RevokedOrDue(i, m)'
          BY <4>1 DEF RevokedOrDue
        <4>3. CASE b.type = "revoke"
          <5>1. RowGoesOn(i, m)
            BY <4>1, <4>3 DEF RowGoesOn
          <5>2. Shifted(i, m, "edit", 1)
            BY <1>0, <2>6, <4>3, TailShifted
          <5>3. EditsStay(i, m)
            BY <1>f, <2>1, <2>5, <5>2 DEF EditsStay
          <5>4. TextOrDue(i, m)'
            BY <1>0, <2>1, <5>1, <5>3, TextStays DEF TextInv
          <5>. QED BY <4>2, <5>4 DEF Good
        <4>4. CASE b.type = "edit"
          <5>. SUFFICES ASSUME i \in phone[m].to, Free(i, m)', call[i] # [op |-> "edit", m |-> m]
                        PROVE  \/ \E n \in Nat : /\ Turns(i, n, m, "edit")' /\ queue'[i][n].x = phone[m].text
                                                 /\ \A n2 \in Nat : Turns(i, n2, m, "edit")' => n2 <= n
                               \/ /\ \A n \in Nat : ~Turns(i, n, m, "edit")'
                                  /\ row'[i][m].text = phone[m].text
            BY <2>1, <4>1, <4>2 DEF TextOrDue, Good
          <5>1. Turns(i, 1, m, "edit")
            BY <2>6, <3>2, <4>4 DEF Turns
          <5>2. PICK n \in Nat : /\ Turns(i, n, m, "edit") /\ queue[i][n].x = phone[m].text
                                 /\ \A n2 \in Nat : Turns(i, n2, m, "edit") => n2 <= n
            BY <1>f, <2>5, <5>1 DEF TextInv, TextOrDue
          <5>3. \A k \in Nat : /\ Turns(i, k, m, "edit")' <=> k # 0 /\ Turns(i, k + 1, m, "edit")
                               /\ Turns(i, k, m, "edit")' => queue'[i][k].x = queue[i][k + 1].x
            BY <1>0, <2>6, TailTurns
          <5>4. CASE n = 1
            <6>1. \A k \in Nat : k + 1 \in Nat /\ (k # 0 => ~(k + 1 <= 1))
              OBVIOUS
            <6>2. \A k \in Nat : ~Turns(i, k, m, "edit")'
              BY <5>2, <5>3, <5>4, <6>1
            <6>3. row'[i][m].text = phone[m].text
              BY <2>6, <4>1, <4>4, <5>2, <5>4
            <6>. QED BY <6>2, <6>3
          <5>5. CASE n # 1
            <6>1. n # 0
              BY <5>2 DEF Turns
            <6>2. PICK k \in Nat : k + 1 = n /\ k # 0
              <7>1. n - 1 \in Nat /\ (n - 1) + 1 = n /\ n - 1 # 0
                BY <5>5, <6>1
              <7>. QED BY <7>1
            <6>3. Turns(i, k, m, "edit")' /\ queue'[i][k].x = phone[m].text
              BY <5>2, <5>3, <6>2
            <6>4. ASSUME NEW n2 \in Nat, Turns(i, n2, m, "edit")' PROVE n2 <= k
              <7>1. n2 + 1 \in Nat /\ n2 + 1 <= n
                BY <5>2, <5>3, <6>4
              <7>. QED BY <6>2, <7>1
            <6>. QED BY <6>3, <6>4
          <5>. QED BY <5>4, <5>5
        <4>. QED BY <2>6, <4>3, <4>4
      <3>. QED BY <3>1, <3>2
    <2>. QED BY <2>7, <2>8
  <1>20. ASSUME NEW i \in Instances, Update(i) PROVE Goal
    <2>. DEFINE b == Head1(i)
    <2>1. UNCHANGED <<phone, call>> /\ Busy(i, {"read", "ack"})
      BY <1>20 DEF Update
    <2>2. queue[i] # <<>> /\ b = queue[i][1] /\ queue[i][1].type \notin {"edit", "revoke"}
      BY <1>0, <2>1, HeadTyped DEF Busy
    <2>3. CASE b.msgs = {}
      <3>1. Done(i) /\ UNCHANGED <<row, marks>>
        BY <1>20, <2>3 DEF Update
      <3>. QED BY <1>d, <1>r, <1>u, <2>1, <2>2, <3>1
    <2>4. CASE b.msgs # {}
      <3>1. PICK m \in b.msgs :
              /\ queue' = [queue EXCEPT ![i][1].msgs = @ \ {m}]
              /\ \/ Mark(i, {m}, "skipped") /\ UNCHANGED row
                 \/ UNCHANGED <<row, marks>>
                 \/ Mark(i, {m}, "passed") /\ UNCHANGED row
                 \/ /\ row' = [row EXCEPT ![i] = [k \in Messages |->
                            IF k = m \/ (Unread(i, k) /\ phone[k].time <= phone[m].time)
                            THEN [row[i][k] EXCEPT !.status = "READ"] ELSE row[i][k]]]
                    /\ UNCHANGED marks
        BY <1>20, <2>4 DEF Update
      <3>2. \A j \in Instances, k \in Messages : RowGoesOn(j, k)
        <4>1. CASE UNCHANGED row
          BY <1>r, <4>1
        <4>2. CASE row' = [row EXCEPT ![i] = [k \in Messages |->
                            IF k = m \/ (Unread(i, k) /\ phone[k].time <= phone[m].time)
                            THEN [row[i][k] EXCEPT !.status = "READ"] ELSE row[i][k]]]
          <5>. DEFINE f == [k \in Messages |-> IF k = m \/ (Unread(i, k) /\ phone[k].time <= phone[m].time)
                                               THEN [row[i][k] EXCEPT !.status = "READ"] ELSE row[i][k]]
          <5>1. \A k \in Messages : f[k] = row[i][k] \/ f[k] = [row[i][k] EXCEPT !.status = "READ"]
            OBVIOUS
          <5>2. row' = [row EXCEPT ![i] = f]
            BY <4>2
          <5>. HIDE DEF f
          <5>3. row'[i] = f /\ \A j \in Instances : j # i => row'[j] = row[j]
            BY <1>0, <5>2 DEF ChatTypes
          <5>4. ASSUME NEW j \in Instances, NEW k \in Messages PROVE RowGoesOn(j, k)
            <6>1. row'[j][k] = row[j][k] \/ row'[j][k] = [row[j][k] EXCEPT !.status = "READ"]
              BY <5>1, <5>3
            <6>. QED BY <1>0, <6>1, RowSame
          <5>. QED BY <5>4
        <4>. QED BY <3>1, <4>1, <4>2
      <3>3. MarksGrow
        BY <1>0, <3>1, MarkGrows DEF Marks
      <3>4. /\ queue'[i] = [queue[i] EXCEPT ![1].msgs = @ \ {m}]
            /\ \A j \in Instances : j # i => queue'[j] = queue[j]
        BY <1>0, <3>1 DEF ChatTypes
      <3>5. \A j \in Instances, k \in Messages : QueueGoesOn(j, k)
        BY <1>0, <1>q, <2>2, <3>4, QueuesGoOn
      <3>. QED BY <1>b, <2>1, <3>2, <3>3, <3>5
    <2>. QED BY <2>3, <2>4
  <1>21. ASSUME NEW i \in Instances, ReceiptUpdate(i) PROVE Goal
    <2>1. UNCHANGED <<phone, call, marks>> /\ Busy(i, {"receipt"}) /\ Done(i) /\ MarksRead(i, Head1(i).x)
      BY <1>21 DEF ReceiptUpdate
    <2>2. queue[i] # <<>> /\ queue[i][1].type \notin {"edit", "revoke"}
      BY <1>0, <2>1, HeadTyped DEF Busy
    <2>3. \A j \in Instances, m \in Messages : RowGoesOn(j, m)
      BY <1>0, <2>1, ReadingGoesOn
    <2>. QED BY <1>d, <1>u, <2>1, <2>2, <2>3
  <1>22. ASSUME NEW i \in Instances, History(i) PROVE Goal
    <2>. DEFINE ids == IF known[i] = {Nobody} THEN {m \in Messages : Stored(i, m)} ELSE known[i]
                new == {m \in Head1(i).msgs : m \notin ids}
                f == [m \in Messages |->
                       IF m \notin new THEN row[i][m]
                       ELSE IF Stored(i, m) THEN [row[i][m] EXCEPT !.copies = row[i][m].copies + 1]
                       ELSE Prepared(i, m, 1, phone[m].text)]
                g == [m \in Messages |->
                       marks[i][m] \cup (IF m \in new /\ (Stored(i, m) \/ call[i] = [op |-> "send", m |-> m])
                                           THEN {"stale"} ELSE {})
                                   \cup (IF m \in new /\ ~Stored(i, m) THEN {"passed"} ELSE {})]
    <2>1. UNCHANGED <<phone, call>> /\ Busy(i, {"history"}) /\ Done(i)
      BY <1>22 DEF History
    <2>2. row' = [row EXCEPT ![i] = f]
      BY <1>22, Zenon DEF History
    <2>3. marks' = [marks EXCEPT ![i] = g]
      BY <1>22, Zenon DEF History
    <2>. HIDE DEF new
    <2>4. ASSUME NEW m \in Messages
          PROVE  \/ f[m] = row[i][m]
                 \/ /\ row[i][m].copies > 0 /\ f[m].copies > 0
                    /\ f[m].text = row[i][m].text /\ f[m].status = row[i][m].status
                 \/ row[i][m].copies = 0 /\ f[m] = Prepared(i, m, 1, phone[m].text)
      <3>1. row[i][m] \in Copies /\ row[i][m].copies \in Nat
        BY <1>0 DEF ChatTypes, Copies
      <3>2. CASE m \notin new
        BY <3>2
      <3>3. CASE m \in new /\ Stored(i, m)
        <4>1. f[m] = [row[i][m] EXCEPT !.copies = row[i][m].copies + 1]
          BY <3>3
        <4>2. row[i][m].copies + 1 > 0
          BY <3>1
        <4>. HIDE DEF f
        <4>. QED BY <3>1, <3>3, <4>1, <4>2 DEF Copies, Stored
      <3>4. CASE m \in new /\ ~Stored(i, m)
        <4>1. f[m] = Prepared(i, m, 1, phone[m].text)
          BY <3>4
        <4>2. row[i][m].copies = 0
          BY <3>1, <3>4 DEF Stored
        <4>. QED BY <4>1, <4>2
      <3>. QED BY <3>2, <3>3, <3>4
    <2>5. \A m \in Messages : marks[i][m] \subseteq g[m]
      OBVIOUS
    <2>. HIDE DEF f, g
    <2>6. row'[i] = f /\ \A j \in Instances : j # i => row'[j] = row[j]
      BY <1>0, <2>2 DEF ChatTypes
    <2>7. marks'[i] = g /\ \A j \in Instances : j # i => marks'[j] = marks[j]
      BY <1>0, <2>3 DEF ChatTypes
    <2>8. MarksGrow
      BY <2>5, <2>7 DEF MarksGrow
    <2>9. queue[i] # <<>> /\ queue[i][1].type \notin {"edit", "revoke"}
      BY <1>0, <2>1, HeadTyped DEF Busy
    <2>10. ASSUME NEW m \in Messages PROVE RowGoesOn(i, m)
      <3>1. CASE row'[i][m] = row[i][m]
        BY <1>r, <3>1
      <3>2. CASE /\ row[i][m].copies > 0 /\ row'[i][m].copies > 0
                 /\ row'[i][m].text = row[i][m].text /\ row'[i][m].status = row[i][m].status
        BY <3>2 DEF RowGoesOn
      <3>3. CASE row[i][m].copies = 0 /\ row'[i][m] = Prepared(i, m, 1, phone[m].text)
        BY <3>3 DEF RowGoesOn, Prepared
      <3>. QED BY <2>4, <2>6, <3>1, <3>2, <3>3
    <2>11. \A j \in Instances, m \in Messages : RowGoesOn(j, m)
      BY <1>r, <2>6, <2>10
    <2>. QED BY <1>d, <2>1, <2>8, <2>9, <2>11
  <1>23. ASSUME NEW i \in Instances, SendStore(i) PROVE Goal
    <2>1. /\ UNCHANGED <<phone, queue, marks>> /\ call[i].op = "send"
          /\ row' = [row EXCEPT ![i][call[i].m] = Prepared(i, call[i].m, row[i][call[i].m].copies + 1, 0)]
          /\ call' = [call EXCEPT ![i].op = "tell"]
      BY <1>23 DEF SendStore
    <2>2. PICK x \in Messages : x = call[i].m /\ call[i] = [op |-> "send", m |-> x]
      BY <1>0, <2>1 DEF ChatTypes, Asks, NoCall
    <2>3. \A j \in Instances, m \in Messages : call[j] = [op |-> "edit", m |-> m] => call'[j] = call[j]
      <3>1. \A j \in Instances : j # i => call'[j] = call[j]
        BY <1>0, <2>1 DEF ChatTypes
      <3>2. \A m \in Messages : call[i] # [op |-> "edit", m |-> m]
        BY <2>1
      <3>. QED BY <3>1, <3>2
    <2>4. /\ row'[i][x] = Prepared(i, x, row[i][x].copies + 1, 0)
          /\ \A j \in Instances, m \in Messages : j # i \/ m # x => row'[j][m] = row[j][m]
      BY <1>0, <2>1, <2>2 DEF ChatTypes
    <2>5. FromMe(i, x) /\ row[i][x].copies \in Nat /\ (row[i][x].copies = 0 \/ "stale" \in marks[i][x])
      <3>1. call[i] # NoCall
        BY <2>1 DEF NoCall
      <3>2. FromMe(i, x)
        BY <1>0, <2>2, <3>1 DEF Kept, RequestOK
      <3>3. row[i][x].copies = 0 \/ "stale" \in marks[i][x]
        BY <1>0, <2>1, <2>2 DEF Kept, RequestRows
      <3>4. row[i][x].copies \in Nat
        BY <1>0 DEF ChatTypes, Copies
      <3>. QED BY <3>2, <3>3, <3>4
    <2>6. RowGoesOn(i, x)
      <3>1. /\ row'[i][x].copies = row[i][x].copies + 1 /\ row'[i][x].status = "SENT" /\ row'[i][x].text = 0
        BY <2>4, <2>5 DEF Prepared
      <3>2. CASE row[i][x].copies = 0
        BY <3>1, <3>2 DEF RowGoesOn
      <3>3. CASE "stale" \in marks[i][x] /\ row[i][x].copies # 0
        <4>1. ~Free(i, x)'
          BY <2>1, <3>3 DEF Free
        <4>. QED BY <2>5, <3>1, <3>3, <4>1 DEF RowGoesOn
      <3>. QED BY <2>5, <3>2, <3>3
    <2>7. \A j \in Instances, m \in Messages : RowGoesOn(j, m)
      BY <1>r, <2>4, <2>6
    <2>. QED BY <1>f, <1>g, <1>p, <1>q, <1>u, <2>1, <2>3, <2>7
  <1>24. ASSUME NEW i \in Instances, SendTell(i) PROVE Goal
    <2>1. UNCHANGED <<phone, queue, row, marks>> /\ call[i].op = "tell" /\ call' = [call EXCEPT ![i] = NoCall]
      BY <1>24 DEF SendTell, Returns
    <2>2. \A j \in Instances, m \in Messages : call[j] = [op |-> "edit", m |-> m] => call'[j] = call[j]
      BY <1>0, <2>1 DEF ChatTypes
    <2>. QED BY <1>16, <2>1, <2>2
  <1>25. ASSUME NEW i \in Instances, SendFails(i) PROVE Goal
    <2>1. /\ UNCHANGED <<phone, queue, row>> /\ call[i].op \in {"send", "tell"}
          /\ Mark(i, {call[i].m}, "cut") /\ call' = [call EXCEPT ![i] = NoCall]
      BY <1>25 DEF SendFails, Returns
    <2>2. \A j \in Instances, m \in Messages : call[j] = [op |-> "edit", m |-> m] => call'[j] = call[j]
      BY <1>0, <2>1 DEF ChatTypes
    <2>3. MarksGrow
      BY <1>0, <2>1, MarkGrows DEF Marks
    <2>. QED BY <1>f, <1>g, <1>p, <1>q, <1>r, <2>1, <2>2, <2>3
  <1>26. ASSUME NEW i \in Instances, NEW x \in Messages, x = call[i].m, NEW s \in {"EDITED", "DELETED"}, NEW t \in Nat,
                Changed(i, s, t), UNCHANGED <<phone, queue>>, call[i].op \in {"edit", "delete"},
                \/ call[i].op = "edit" /\ t = phone[x].text
                \/ call[i].op = "delete" /\ t = row[i][x].text
         PROVE  Goal
    <2>1. call' = [call EXCEPT ![i] = NoCall]
      BY <1>26 DEF Changed, Returns
    <2>2. /\ \A j \in Instances, m \in Messages : call[j] = [op |-> "edit", m |-> m] /\ (j # i \/ m # x) => call'[j] = call[j]
          /\ call[i].op = "delete" => call[i] # [op |-> "edit", m |-> x]
      <3>1. \A j \in Instances : j # i => call'[j] = call[j]
        BY <1>0, <2>1 DEF ChatTypes
      <3>2. \A m \in Messages : call[i] = [op |-> "edit", m |-> m] => call[i].op = "edit" /\ m = x
        BY <1>26
      <3>. QED BY <3>1, <3>2
    <2>3. CASE Mark(i, {x}, "crossed") /\ UNCHANGED row
      <3>1. MarksGrow
        BY <1>0, <2>3, MarkGrows DEF Marks
      <3>2. ~Free(i, x)'
        <4>1. "crossed" \in marks'[i][x]
          BY <1>0, <2>3, Marked DEF Marks
        <4>. QED BY <4>1 DEF Free
      <3>. QED BY <1>26, <1>f, <1>g, <1>p, <1>q, <1>r, <2>2, <2>3, <3>1, <3>2
    <2>4. ASSUME NEW j \in Instances, Stored(j, x),
                 row' = [row EXCEPT ![j][x].status = s, ![j][x].text = t],
                 marks' = [k \in Instances |-> [marks[k] EXCEPT ![x] =
                            @ \cup (IF k \in {i, j} /\ (j # i \/ Pending(i, x)) THEN {"crossed"} ELSE {})]]
          PROVE  Goal
      <3>1. \A k \in Instances, m \in Messages :
              /\ marks[k][m] \subseteq marks'[k][m]
              /\ m = x /\ k \in {i, j} /\ (j # i \/ Pending(i, x)) => "crossed" \in marks'[k][m]
        BY <1>0, <2>4 DEF ChatTypes
      <3>2. MarksGrow /\ (j # i \/ Pending(i, x) => ~Free(i, x)' /\ ~Free(j, x)')
        BY <3>1 DEF MarksGrow, Free
      <3>3. /\ row'[j][x].copies = row[j][x].copies /\ row'[j][x].status = s /\ row'[j][x].text = t
            /\ \A k \in Instances, m \in Messages : k # j \/ m # x => row'[k][m] = row[k][m]
        <4>1. row[j][x] \in Copies
          BY <1>0 DEF ChatTypes
        <4>. DEFINE c == [row[j][x] EXCEPT !.status = s]
                    r == [row EXCEPT ![j][x] = c]
        <4>2. c \in [copies : Nat, status : {"EDITED", "DELETED"}, text : Nat]
              /\ c.copies = row[j][x].copies /\ c.status = s
          BY <4>1 DEF Copies
        <4>. HIDE DEF c
        <4>3. r[j][x] = c /\ DOMAIN r = Instances /\ (\A k \in Instances : DOMAIN r[k] = Messages)
              /\ \A k \in Instances, m \in Messages : k # j \/ m # x => r[k][m] = row[k][m]
          BY <1>0 DEF ChatTypes
        <4>4. row' = [r EXCEPT ![j][x] = [r[j][x] EXCEPT !.text = t]]
          BY <2>4 DEF c
        <4>. HIDE DEF r
        <4>5. row'[j][x] = [c EXCEPT !.text = t]
              /\ \A k \in Instances, m \in Messages : k # j \/ m # x => row'[k][m] = r[k][m]
          BY <4>3, <4>4
        <4>. QED BY <4>2, <4>3, <4>5
      <3>4. Free(j, x)' => j = i /\ ~Pending(i, x)
        BY <3>2
      <3>5. ASSUME NEW k \in Instances, NEW m \in Messages, k # j \/ m # x PROVE Good(k, m)
        <4>1. RowGoesOn(k, m)
          BY <1>r, <3>3, <3>5
        <4>2. call[k] = [op |-> "edit", m |-> m] /\ Free(k, m)' => call'[k] = call[k]
          <5>1. CASE k = i /\ m = x
            BY <3>2, <3>5, <5>1
          <5>2. CASE ~(k = i /\ m = x)
            BY <2>2, <5>2
          <5>. QED BY <5>1, <5>2
        <4>. QED BY <1>26, <1>f, <1>g, <1>p, <1>q, <3>2, <4>1, <4>2
      <3>6. Good(j, x)
        <4>1. RevokedOrDue(j, x)'
          BY <1>26, <2>4, <3>3 DEF RevokedOrDue, Stored
        <4>2. ASSUME Free(j, x)', call[i].op = "edit" PROVE TextOrDue(j, x)'
          <5>1. j = i /\ ~Pending(i, x) /\ t = phone[x].text
            BY <1>26, <3>4, <4>2
          <5>2. DOMAIN queue[i] = 1..Len(queue[i])
            BY <1>0, LenProperties DEF ChatTypes
          <5>3. \A n \in Nat : ~Turns(i, n, x, "edit")
            BY <5>1, <5>2 DEF Pending, Turns
          <5>4. \A n \in Nat : ~Turns(j, n, x, "edit")'
            BY <1>26, <5>1, <5>3 DEF Turns
          <5>5. row'[j][x].copies > 0 /\ row'[j][x].copies # 0
            BY <1>0, <2>4, <3>3 DEF Stored, ChatTypes, Copies
          <5>. QED BY <1>26, <3>3, <5>1, <5>4, <5>5 DEF TextOrDue
        <4>3. ASSUME call[i].op = "delete" PROVE Good(j, x)
          <5>1. RowGoesOn(j, x)
            BY <1>26, <2>4, <3>3, <3>4, <4>3 DEF RowGoesOn
          <5>2. Free(j, x)' => call[j] # [op |-> "edit", m |-> x]
            BY <2>2, <3>4, <4>3
          <5>. QED BY <1>26, <1>f, <1>g, <1>p, <1>q, <3>2, <5>1, <5>2
        <4>4. ~Free(j, x)' => TextOrDue(j, x)'
          BY DEF TextOrDue
        <4>. QED BY <1>26, <4>1, <4>2, <4>3, <4>4 DEF Good
      <3>. QED BY <3>5, <3>6
    <2>. QED BY <1>26, <2>3, <2>4 DEF Changed
  <1>27. ASSUME NEW i \in Instances, ApiEditRow(i) PROVE Goal
    <2>1. call[i].m \in Messages /\ phone[call[i].m].text \in Nat
      BY <1>0, <1>27 DEF ApiEditRow, ChatTypes, Asks, NoCall, Phones
    <2>. QED BY <1>26, <1>27, <2>1 DEF ApiEditRow
  <1>28. ASSUME NEW i \in Instances, ApiDeleteRow(i) PROVE Goal
    <2>1. call[i].m \in Messages /\ row[i][call[i].m].text \in Nat
      BY <1>0, <1>28 DEF ApiDeleteRow, ChatTypes, Asks, NoCall, Copies
    <2>. QED BY <1>26, <1>28, <2>1 DEF ApiDeleteRow
  <1>29. ASSUME Expires PROVE Goal
    BY <1>16, <1>29 DEF Expires
  <1>30. ASSUME Restart PROVE Goal
    <2>1. UNCHANGED <<phone, row>> /\ \A i \in Instances : queue'[i] = <<>>
      BY <1>30 DEF Restart
    <2>2. \A i \in Instances, m \in Messages :
            /\ marks[i][m] \subseteq marks'[i][m]
            /\ m = call[i].m \/ m \in UNION {queue[i][n].msgs : n \in DOMAIN queue[i]} => "cut" \in marks'[i][m]
      BY <1>30 DEF Restart
    <2>3. MarksGrow
      BY <2>2 DEF MarksGrow
    <2>4. ASSUME NEW i \in Instances, NEW m \in Messages, Free(i, m)' PROVE QueueGoesOn(i, m) /\ call[i] # [op |-> "edit", m |-> m]
      <3>1. "cut" \notin marks'[i][m]
        BY <2>4 DEF Free
      <3>2. DOMAIN queue[i] = 1..Len(queue[i])
        BY <1>0, LenProperties DEF ChatTypes
      <3>3. \A n, ty : ~Turns(i, n, m, ty)
        BY <2>2, <3>1, <3>2 DEF Turns
      <3>4. Len(queue'[i]) = 0
        BY <2>1, EmptySeq
      <3>5. \A n, ty : ~Turns(i, n, m, ty)'
        BY <3>4 DEF Turns
      <3>6. \A ty \in {"edit", "revoke"} : Shifted(i, m, ty, 0)
        BY <3>3, <3>5 DEF Shifted
      <3>. QED BY <2>2, <3>1, <3>6 DEF QueueGoesOn
    <2>. QED BY <1>f, <1>g, <1>p, <1>r, <2>1, <2>3, <2>4
  <1>. QED BY <1>2, <1>3, <1>4, <1>6, <1>7, <1>9, <1>10, <1>12, <1>13, <1>14, <1>15,
              <1>17, <1>18, <1>19, <1>20,
              <1>21, <1>22, <1>23, <1>24, <1>25, <1>27, <1>28, <1>29, <1>30 DEF Next

(* It holds at the start.                                                   *)
LEMMA TextInit == ASSUME Chatting, Init PROVE TextInv
PROOF
  <1>. SUFFICES ASSUME NEW i \in Instances, NEW m \in Messages PROVE TextOrDue(i, m) /\ RevokedOrDue(i, m)
    BY KeptInit DEF TextInv
  <1>1. phone[m] = Unsent /\ row[i][m] = NoRow
    BY DEF Init
  <1>. QED BY <1>1 DEF TextOrDue, RevokedOrDue, Unsent, NoRow

(* With no call and an empty queue, the text can only be in the row.        *)
LEMMA TextEntails == ASSUME TextInv PROVE LatestText
PROOF
  <1>. SUFFICES ASSUME NEW i \in Instances, NEW m \in Chat(i), AtRest(i), Stored(i, m),
                       ~Except(i, m, {"cut", "skipped", "crossed", "stale"})
                PROVE  /\ row[i][m].text = phone[m].text
                       /\ phone[m].revoked => row[i][m].status # "DELIVERY_ACK"
    BY DEF LatestText
  <1>1. m \in Messages /\ i \in phone[m].to /\ Free(i, m) /\ TextOrDue(i, m) /\ RevokedOrDue(i, m)
    BY DEF Chat, TextInv, Except, Free
  <1>2. Len(queue[i]) = 0 /\ call[i] # [op |-> "edit", m |-> m]
    BY EmptySeq DEF AtRest, NoCall
  <1>3. \A n, ty : ~Turns(i, n, m, ty)
    BY <1>2 DEF Turns
  <1>4. row[i][m].text = phone[m].text
    BY <1>1, <1>2, <1>3 DEF TextOrDue, Stored
  <1>5. phone[m].revoked => row[i][m].status # "DELIVERY_ACK"
    BY <1>1, <1>3 DEF RevokedOrDue
  <1>. QED BY <1>4, <1>5

(* Whatever edits and revocations come from phones, histories and the API,  *)
(* the row has the last text, and a revocation its status, when nothing is  *)
(* under way, save where the property excepts it: for any instances,        *)
(* messages and bounds.                                                     *)
THEOREM TextIsLatest == MCSpec => []LatestText
PROOF
  <1>0. Chatting
    BY MessagesAssumption DEF Chatting
  <1>1. MCInit => TextInv
    BY <1>0, TextInit DEF MCInit
  <1>2. TextInv /\ [MCNext]_<<scene, vars, cvars, svars, dvars, avars, evars>> => TextInv'
    <2>1. [MCNext]_<<scene, vars, cvars, svars, dvars, avars, evars>> => Next \/ UNCHANGED vars
      BY DEF MCNext
    <2>2. ASSUME TextInv, UNCHANGED vars PROVE TextInv'
      <3>1. UNCHANGED <<phone, queue, row, call, marks>>
        BY <2>2 DEF vars, whatsapp, table
      <3>2. KeptInv'
        BY <2>2, KeptStutters DEF TextInv
      <3>3. \A i, m, n, ty : Turns(i, n, m, ty)' <=> Turns(i, n, m, ty)
        BY <3>1 DEF Turns
      <3>4. \A i \in Instances, m \in Messages : TextOrDue(i, m)' /\ RevokedOrDue(i, m)'
        <4>. SUFFICES ASSUME NEW i \in Instances, NEW m \in Messages PROVE TextOrDue(i, m)' /\ RevokedOrDue(i, m)'
          OBVIOUS
        <4>1. (Free(i, m)' <=> Free(i, m)) /\ (FromMe(i, m)' <=> FromMe(i, m))
          BY <3>1 DEF Free, FromMe
        <4>2. TextOrDue(i, m) /\ RevokedOrDue(i, m)
          BY <2>2 DEF TextInv
        <4>3. TextOrDue(i, m)'
          BY <3>1, <3>3, <4>1, <4>2 DEF TextOrDue
        <4>4. RevokedOrDue(i, m)'
          BY <3>1, <3>3, <4>1, <4>2 DEF RevokedOrDue
        <4>. QED BY <4>3, <4>4
      <3>. QED BY <3>2, <3>4 DEF TextInv
    <2>. QED BY <1>0, <2>1, <2>2, TextStep
  <1>3. TextInv => LatestText
    BY TextEntails
  <1>. QED BY <1>1, <1>2, <1>3, PTL DEF MCSpec

-----------------------------------------------------------------------------
(* Nothing has happened that the status of m is excepted for.               *)
Unpassed(i, m) == marks[i][m] \cap {"cut", "skipped", "passed"} = {}

(* The owner, or in a group anybody, has read something as late as m.       *)
Late(i, m) == group \/ \E k \in Messages : k \in seen[i] /\ phone[k].time >= phone[m].time

(* What is to come in the queue that makes m READ, after m: a receipt, an   *)
(* update, or an answer of the owner.                                       *)
ReceiptDue(i, m, n) ==
  /\ n \in 1..Len(queue[i]) /\ queue[i][n].type = "receipt" /\ phone[m].time <= queue[i][n].x
  /\ \A n2, k2 \in Nat : Comes(i, n2, k2, m) => n2 < n
ReadDue(i, m, n) == n \in 1..Len(queue[i]) /\ queue[i][n].type = "read" /\ m \in queue[i][n].msgs
AnswerDue(i, m, n, k, o) ==
  /\ Comes(i, n, k, o) /\ FromMe(i, o) /\ phone[m].time <= phone[o].time
  /\ n = 1 => k > at[i].n \/ (k = at[i].n /\ at[i].pc # "tell")
  /\ \A n2, k2 \in Nat : Comes(i, n2, k2, m) => n2 < n \/ (n2 = n /\ k2 < k)
Due(i, m) ==
  \/ \E n \in Nat : ReceiptDue(i, m, n) \/ ReadDue(i, m, n)
  \/ \E n, k \in Nat, o \in Messages : AnswerDue(i, m, n, k, o)

(* A message the owner has read has that status, or will get it; it has the *)
(* status only if something as late was read; and in a group that is        *)
(* ignored nothing of others gets a row but by a history.                   *)
Seems(i, m) == row[i][m].copies > 0 /\ row[i][m].status # "DELIVERY_ACK"
ReadFine(i, m) ==
  /\ m \in seen[i] /\ ~FromMe(i, m) /\ ~Ignored(i) /\ Unpassed(i, m) => Seems(i, m) \/ Due(i, m)
  /\ row[i][m].copies > 0 /\ ~FromMe(i, m) /\ row[i][m].status = "READ" => Late(i, m)
  /\ row[i][m].copies > 0 /\ ~FromMe(i, m) /\ Ignored(i) => "passed" \in marks[i][m]

(* What the owner has read is in the chat, and what the queue says of it is *)
(* true: receipts come in groups, statuses of others' messages when they    *)
(* were read, and the owner has read what the owner writes.                 *)
BatchOK(i, n) ==
  /\ queue[i][n].type = "receipt" => group
  /\ queue[i][n].type = "read" => \A m \in queue[i][n].msgs : m \in seen[i]
  /\ queue[i][n].type = "ack" => \A m \in queue[i][n].msgs : FromMe(i, m)
SeenOK(i) ==
  /\ \A m \in Messages : m \in seen[i] => Exists(m) /\ i \in phone[m].to
  /\ \A n \in 1..Len(queue[i]) : BatchOK(i, n)
  /\ \A m \in Messages, n, k \in Nat : Comes(i, n, k, m) /\ FromMe(i, m) => m \in seen[i]

Seen(i) == SeenOK(i) /\ \A m \in Messages : ReadFine(i, m)
ReadInv == KeptInv /\ \A i \in Instances : Seen(i)

-----------------------------------------------------------------------------
(* What a step leaves of the messages there are.                            *)
TimesStay ==
  \A m \in Messages : Exists(m) => /\ phone'[m].from = phone[m].from /\ phone'[m].to = phone[m].to
                                   /\ phone'[m].time = phone[m].time

(* The queue is as it was, d places behind: what comes, and what is due.    *)
ComesMove(i, d) ==
  \A o \in Messages, n, k \in Nat : Exists(o) => (Comes(i, n, k, o)' <=> n # 0 /\ Comes(i, n + d, k, o))
UpdatesMove(i, m, d) ==
  \A n \in Nat : n # 0 /\ n + d \in 1..Len(queue[i]) /\ queue[i][n + d].type \in {"receipt", "read"} =>
    /\ n \in 1..Len(queue'[i]) /\ queue'[i][n].type = queue[i][n + d].type
    /\ queue'[i][n].x = queue[i][n + d].x
    /\ m \in queue[i][n + d].msgs => m \in queue'[i][n].msgs

(* And nothing of what is due for m is behind the place, or went.           *)
DueStays(i, m, d) ==
  IF d = 0
  THEN \A k \in Nat, o \in Messages :
         AnswerDue(i, m, 1, k, o) => k > at'[i].n \/ (k = at'[i].n /\ at'[i].pc # "tell")
  ELSE /\ at'[i] = Waiting /\ ~ReceiptDue(i, m, 1) /\ ~ReadDue(i, m, 1)
       /\ \A k \in Nat, o \in Messages : ~AnswerDue(i, m, 1, k, o)

(* Then it is still due.                                                    *)
LEMMA DueGoesOn ==
  ASSUME ChatTypes, ChatTypes', NEW i \in Instances, NEW m \in Messages, Exists(m), Kept(i), TimesStay,
         NEW d \in {0, 1}, ComesMove(i, d), UpdatesMove(i, m, d), DueStays(i, m, d), Due(i, m)
  PROVE  Due(i, m)'
PROOF
  <1>1. phone'[m].time = phone[m].time
    BY DEF TimesStay
  <1>2. \A n2, k2 \in Nat : Comes(i, n2, k2, m)' => n2 + d \in Nat /\ Comes(i, n2 + d, k2, m)
    BY DEF ComesMove
  <1>3. ASSUME NEW n \in Nat, n # 0, d = 1 => n # 1
        PROVE  \E c \in Nat : c + d = n /\ c # 0
    <2>1. n - d \in Nat /\ (n - d) + d = n /\ n - d # 0
      BY <1>3
    <2>. QED BY <2>1
  <1>4. ASSUME NEW n \in Nat, ReceiptDue(i, m, n) PROVE \E c \in Nat : ReceiptDue(i, m, c)'
    <2>1. n # 0 /\ (d = 1 => n # 1)
      BY <1>4 DEF DueStays, ReceiptDue
    <2>2. PICK c \in Nat : c + d = n /\ c # 0
      BY <1>3, <2>1
    <2>3. c \in 1..Len(queue'[i]) /\ queue'[i][c].type = "receipt" /\ queue'[i][c].x = queue[i][n].x
      BY <1>4, <2>2 DEF UpdatesMove, ReceiptDue
    <2>4. ASSUME NEW n2 \in Nat, NEW k2 \in Nat, Comes(i, n2, k2, m)' PROVE n2 < c
      <3>1. n2 + d < n
        BY <1>2, <1>4, <2>4 DEF ReceiptDue
      <3>. QED BY <2>2, <3>1
    <2>5. phone'[m].time <= queue'[i][c].x
      BY <1>1, <1>4, <2>3 DEF ReceiptDue
    <2>. QED BY <2>3, <2>4, <2>5 DEF ReceiptDue
  <1>5. ASSUME NEW n \in Nat, ReadDue(i, m, n) PROVE \E c \in Nat : ReadDue(i, m, c)'
    <2>1. n # 0 /\ (d = 1 => n # 1)
      BY <1>5 DEF DueStays, ReadDue
    <2>2. PICK c \in Nat : c + d = n /\ c # 0
      BY <1>3, <2>1
    <2>3. c \in 1..Len(queue'[i]) /\ queue'[i][c].type = "read" /\ m \in queue'[i][c].msgs
      BY <1>5, <2>2 DEF UpdatesMove, ReadDue
    <2>. QED BY <2>3 DEF ReadDue
  <1>6. ASSUME NEW n \in Nat, NEW k \in Nat, NEW o \in Messages, AnswerDue(i, m, n, k, o)
        PROVE  \E c \in Nat : AnswerDue(i, m, c, k, o)'
    <2>0. Comes(i, n, k, o) /\ FromMe(i, o) /\ phone[m].time <= phone[o].time /\ n # 0 /\ k # 0
      BY <1>6 DEF AnswerDue, Comes
    <2>1. d = 1 => n # 1
      BY <1>6 DEF DueStays
    <2>2. PICK c \in Nat : c + d = n /\ c # 0
      BY <1>3, <2>0, <2>1
    <2>3. Exists(o)
      BY <2>0 DEF Kept, InChat
    <2>4. Comes(i, c, k, o)' /\ FromMe(i, o)' /\ phone'[m].time <= phone'[o].time
      <3>1. Comes(i, c, k, o)'
        BY <2>0, <2>2, <2>3 DEF ComesMove
      <3>. QED BY <1>1, <2>0, <2>3, <3>1 DEF TimesStay, FromMe
    <2>5. c = 1 => k > at'[i].n \/ (k = at'[i].n /\ at'[i].pc # "tell")
      <3>1. CASE d = 0
        BY <1>6, <2>2, <3>1 DEF DueStays
      <3>2. CASE d = 1
        BY <2>0, <3>2 DEF DueStays, Waiting
      <3>. QED BY <3>1, <3>2
    <2>6. ASSUME NEW n2 \in Nat, NEW k2 \in Nat, Comes(i, n2, k2, m)' PROVE n2 < c \/ (n2 = c /\ k2 < k)
      <3>1. n2 + d < n \/ (n2 + d = n /\ k2 < k)
        BY <1>2, <1>6, <2>6 DEF AnswerDue
      <3>. QED BY <2>2, <3>1
    <2>. QED BY <2>4, <2>5, <2>6 DEF AnswerDue
  <1>. QED BY <1>4, <1>5, <1>6 DEF Due

(* What a step leaves to the owner of i beside what it is for.              *)
Framed(i) == TimesStay /\ GroupStays /\ MarksGrow /\ \A m \in Messages : m \in seen[i] => m \in seen'[i]

(* A batch of the queue was there before, or says what is true.             *)
BatchesMove(i) ==
  \A n \in 1..Len(queue'[i]) :
    \/ BatchOK(i, n)'
    \/ \E n2 \in 1..Len(queue[i]) : /\ queue'[i][n].type = queue[i][n2].type
                                    /\ \A m \in queue'[i][n].msgs : m \in queue[i][n2].msgs

(* Of a message that has appeared: it has no row yet, and its author is its *)
(* only reader, whose queue brings it.                                      *)
NewOK(i) ==
  \A m \in Messages : ~Exists(m) /\ Exists(m)' =>
    /\ row'[i][m].copies = 0
    /\ m \in seen'[i] => FromMe(i, m)' /\ i \in phone'[m].to
    /\ FromMe(i, m)' => m \in seen'[i] \/ \A n, k \in Nat : ~Comes(i, n, k, m)'

(* What a step may do to a row: a status comes from somebody's reading.     *)
RowReads(i, m) ==
  \/ FromMe(i, m)
  \/ /\ row'[i][m].copies > 0 <=> row[i][m].copies > 0
     /\ row'[i][m].copies > 0 => \/ row'[i][m].status = row[i][m].status
                                 \/ row'[i][m].status \in {"EDITED", "DELETED"}
                                 \/ row'[i][m].status = "READ" /\ Late(i, m)'
  \/ /\ row[i][m].copies = 0 /\ row'[i][m].status # "READ"
     /\ Ignored(i) => "passed" \in marks'[i][m]

(* What is due stays due, or is done.                                       *)
ReadsGoOn(i, m, d) ==
  m \in seen'[i] /\ ~FromMe(i, m) /\ ~Ignored(i) /\ Unpassed(i, m)' =>
    \/ m \in seen[i] /\ UpdatesMove(i, m, d) /\ DueStays(i, m, d)
    \/ Due(i, m)'
    \/ Seems(i, m)'

(* What is late stays late.                                                 *)
LEMMA LateStays ==
  ASSUME ChatTypes, NEW i \in Instances, NEW m \in Messages, Exists(m), SeenOK(i), Framed(i), Late(i, m)
  PROVE  Late(i, m)'
PROOF
  <1>1. CASE group
    BY <1>1 DEF Framed, GroupStays, Late
  <1>2. ASSUME NEW k \in Messages, k \in seen[i], phone[k].time >= phone[m].time PROVE Late(i, m)'
    <2>1. k \in seen'[i] /\ phone'[k].time = phone[k].time /\ phone'[m].time = phone[m].time
      BY <1>2 DEF Framed, TimesStay, SeenOK
    <2>. QED BY <1>2, <2>1 DEF Late
  <1>. QED BY <1>1, <1>2 DEF Late

(* A step that keeps to this leaves the owner with what was seen.           *)
LEMMA SeenGoesOn ==
  ASSUME ChatTypes, ChatTypes', NEW i \in Instances, Kept(i), Kept(i)', SeenOK(i), Framed(i),
         NEW d \in {0, 1}, ComesMove(i, d), BatchesMove(i), NewOK(i),
         \A m \in Messages : m \in seen'[i] => m \in seen[i] \/ (Exists(m)' /\ i \in phone'[m].to)
  PROVE  SeenOK(i)'
PROOF
  <1>1. \A m \in Messages : Exists(m) => /\ Exists(m)' /\ (FromMe(i, m)' <=> FromMe(i, m))
                                         /\ phone'[m].to = phone[m].to
    BY DEF Framed, TimesStay, Exists, FromMe
  <1>2. \A m \in Messages : m \in seen'[i] => Exists(m)' /\ i \in phone'[m].to
    BY <1>1 DEF SeenOK
  <1>3. ASSUME NEW n \in 1..Len(queue'[i]) PROVE BatchOK(i, n)'
    <2>. SUFFICES ASSUME NEW n2 \in 1..Len(queue[i]), queue'[i][n].type = queue[i][n2].type,
                         \A m \in queue'[i][n].msgs : m \in queue[i][n2].msgs
                  PROVE  BatchOK(i, n)'
      BY DEF BatchesMove
    <2>1. BatchOK(i, n2)
      BY DEF SeenOK
    <2>2. queue[i][n2] \in Batches /\ n2 \in Nat
      BY ElementOfSeq, LenProperties DEF ChatTypes
    <2>3. ASSUME queue[i][n2].type # "upsert", NEW m \in queue'[i][n].msgs PROVE m \in Messages /\ Exists(m)
      <3>1. m \in Messages /\ Updates(i, n2, m)
        BY <2>2, <2>3 DEF Updates, Holds, Batches
      <3>. QED BY <2>2, <3>1 DEF Kept, InChat
    <2>4. queue'[i][n].type = "ack" => \A m \in queue'[i][n].msgs : FromMe(i, m)'
      BY <1>1, <2>1, <2>3 DEF BatchOK
    <2>5. queue'[i][n].type = "read" => \A m \in queue'[i][n].msgs : m \in seen'[i]
      BY <2>1, <2>3 DEF BatchOK, Framed
    <2>6. queue'[i][n].type = "receipt" => group'
      BY <2>1 DEF BatchOK, Framed, GroupStays
    <2>. QED BY <2>4, <2>5, <2>6 DEF BatchOK
  <1>4. ASSUME NEW m \in Messages, NEW n \in Nat, NEW k \in Nat, Comes(i, n, k, m)', FromMe(i, m)'
        PROVE  m \in seen'[i]
    <2>1. Exists(m)'
      BY <1>4 DEF Kept, InChat
    <2>2. CASE Exists(m)
      <3>1. n + d \in Nat /\ Comes(i, n + d, k, m) /\ FromMe(i, m)
        BY <1>1, <1>4, <2>2 DEF ComesMove
      <3>. QED BY <3>1 DEF SeenOK, Framed
    <2>3. CASE ~Exists(m)
      BY <1>4, <2>1, <2>3 DEF NewOK
    <2>. QED BY <2>2, <2>3
  <1>. QED BY <1>2, <1>3, <1>4 DEF SeenOK

(* And every message with its status, or with what is due.                  *)
LEMMA ReadGoesOn ==
  ASSUME ChatTypes, ChatTypes', NEW i \in Instances, NEW m \in Messages, Kept(i), Seen(i), Framed(i), Exists(m),
         NEW d \in {0, 1}, ComesMove(i, d), RowReads(i, m), ReadsGoOn(i, m, d)
  PROVE  ReadFine(i, m)'
PROOF
  <1>1. FromMe(i, m)' <=> FromMe(i, m)
    BY DEF Framed, TimesStay, FromMe
  <1>2. Ignored(i)' <=> Ignored(i)
    BY DEF Framed, GroupStays, Ignored
  <1>3. Unpassed(i, m)' => Unpassed(i, m)
    BY DEF Framed, MarksGrow, Unpassed
  <1>4. ReadFine(i, m)
    BY DEF Seen
  <1>5. row[i][m].copies \in Nat /\ row'[i][m].copies \in Nat
    BY DEF ChatTypes, Copies
  <1>6. ASSUME ~FromMe(i, m), row'[i][m].copies > 0, row'[i][m].status = "READ" PROVE Late(i, m)'
    <2>1. CASE row[i][m].copies > 0 /\ row[i][m].status = "READ"
      BY <1>4, <1>6, <2>1, LateStays DEF ReadFine, Seen
    <2>. QED BY <1>5, <1>6, <2>1 DEF RowReads
  <1>7. ASSUME ~FromMe(i, m), row'[i][m].copies > 0, Ignored(i) PROVE "passed" \in marks'[i][m]
    <2>1. CASE row[i][m].copies > 0
      BY <1>4, <1>7, <2>1 DEF ReadFine, Framed, MarksGrow
    <2>. QED BY <1>5, <1>7, <2>1 DEF RowReads
  <1>8. ASSUME ~FromMe(i, m), ~Ignored(i), m \in seen'[i], Unpassed(i, m)' PROVE Seems(i, m)' \/ Due(i, m)'
    <2>1. CASE m \in seen[i] /\ UpdatesMove(i, m, d) /\ DueStays(i, m, d)
      <3>1. Due(i, m) => Due(i, m)'
        BY <2>1, DueGoesOn DEF Framed
      <3>2. Seems(i, m) => Seems(i, m)'
        BY <1>5, <1>8 DEF Seems, RowReads
      <3>. QED BY <1>3, <1>4, <1>8, <2>1, <3>1, <3>2 DEF ReadFine
    <2>. QED BY <1>8, <2>1 DEF ReadsGoOn
  <1>. QED BY <1>1, <1>2, <1>6, <1>7, <1>8 DEF ReadFine

(* Together.                                                                *)
LEMMA GoesOn ==
  ASSUME ChatTypes, ChatTypes', NEW i \in Instances, Kept(i), Kept(i)', Seen(i), Framed(i),
         NEW d \in {0, 1}, ComesMove(i, d), BatchesMove(i), NewOK(i),
         \A m \in Messages : m \in seen'[i] => m \in seen[i] \/ (Exists(m)' /\ i \in phone'[m].to),
         \A m \in Messages : Exists(m) => RowReads(i, m) /\ ReadsGoOn(i, m, d)
  PROVE  Seen(i)'
PROOF
  <1>1. SeenOK(i)'
    BY SeenGoesOn DEF Seen
  <1>2. ASSUME NEW m \in Messages PROVE ReadFine(i, m)'
    <2>1. CASE Exists(m)
      BY <2>1, ReadGoesOn
    <2>2. CASE ~Exists(m) /\ Exists(m)'
      BY <2>2 DEF NewOK, ReadFine
    <2>3. CASE ~Exists(m)'
      <3>1. row'[i][m].copies = 0
        BY <2>3 DEF Kept, Written
      <3>2. m \notin seen'[i]
        BY <1>1, <2>3 DEF SeenOK
      <3>. QED BY <3>1, <3>2 DEF ReadFine
    <2>. QED BY <2>1, <2>2, <2>3
  <1>. QED BY <1>1, <1>2 DEF Seen

-----------------------------------------------------------------------------
(* The same messages come at the same places.                               *)
LEMMA ComesSame ==
  ASSUME NEW i \in Instances, \A o \in Messages, n, k \in Nat : Exists(o) => (Comes(i, n, k, o)' <=> Comes(i, n, k, o))
  PROVE  ComesMove(i, 0)
PROOF
  <1>. SUFFICES ASSUME NEW o \in Messages, NEW n \in Nat, NEW k \in Nat, Exists(o)
                PROVE  Comes(i, n, k, o)' <=> n # 0 /\ Comes(i, n + 0, k, o)
    BY DEF ComesMove
  <1>1. n + 0 = n /\ (Comes(i, n, k, o) => n # 0)
    BY DEF Comes
  <1>. QED BY <1>1

(* The queue stays.                                                         *)
LEMMA SameMoves ==
  ASSUME ChatTypes, NEW i \in Instances, queue'[i] = queue[i], Framed(i), Kept(i), SeenOK(i)
  PROVE  ComesMove(i, 0) /\ BatchesMove(i) /\ \A m \in Messages : UpdatesMove(i, m, 0)
PROOF
  <1>1. \A o, n, k : Comes(i, n, k, o)' <=> Comes(i, n, k, o)
    BY DEF Comes
  <1>3. \A n \in Nat : n + 0 = n
    OBVIOUS
  <1>4. ComesMove(i, 0)
    BY <1>1, ComesSame
  <1>. QED BY <1>3, <1>4 DEF BatchesMove, UpdatesMove

(* A batch comes.                                                           *)
LEMMA AppendMoves ==
  ASSUME ChatTypes, NEW i \in Instances, NEW b \in Batches, queue'[i] = Append(queue[i], b),
         b.type # "upsert",
         b.type = "receipt" => group',
         b.type = "read" => \A m \in b.msgs : m \in seen'[i],
         b.type = "ack" => \A m \in b.msgs : FromMe(i, m)'
  PROVE  ComesMove(i, 0) /\ BatchesMove(i) /\ \A m \in Messages : UpdatesMove(i, m, 0)
PROOF
  <1>1. PICK L \in Nat : L = Len(queue[i]) /\ queue[i] \in Seq(Batches)
    BY LenProperties DEF ChatTypes
  <1>2. /\ Len(queue'[i]) = L + 1
        /\ \A n \in 1..L : queue'[i][n] = queue[i][n]
        /\ queue'[i][L + 1] = b
    BY <1>1, AppendProperties
  <1>3. \A n : /\ n \in 1..L + 1 <=> n \in 1..L \/ n = L + 1
               /\ n \in Nat => n + 0 = n
    BY <1>1
  <1>4. \A o \in Messages, n, k \in Nat : Comes(i, n, k, o)' <=> Comes(i, n, k, o)
    BY <1>1, <1>2, <1>3 DEF Comes
  <1>5. ComesMove(i, 0)
    BY <1>4, ComesSame
  <1>6. \A m \in Messages : UpdatesMove(i, m, 0)
    BY <1>1, <1>2, <1>3 DEF UpdatesMove
  <1>7. BatchesMove(i)
    <2>. SUFFICES ASSUME NEW n \in 1..L + 1
                  PROVE  \/ BatchOK(i, n)'
                         \/ \E n2 \in 1..L : /\ queue'[i][n].type = queue[i][n2].type
                                             /\ \A m \in queue'[i][n].msgs : m \in queue[i][n2].msgs
      BY <1>1, <1>2 DEF BatchesMove
    <2>1. CASE n = L + 1
      <3>1. queue'[i][n] = b
        BY <1>2, <2>1
      <3>. QED BY <3>1 DEF BatchOK
    <2>2. CASE n \in 1..L
      BY <1>2, <2>2
    <2>. QED BY <1>3, <2>1, <2>2
  <1>. QED BY <1>5, <1>6, <1>7

(* A message comes, and it comes last.                                      *)
LEMMA ArriveMoves ==
  ASSUME ChatTypes, NEW i \in Instances, NEW x \in Messages, ~Exists(x), Kept(i), at'[i] = at[i],
         \/ queue'[i] = Append(queue[i], Upsert(x))
         \/ /\ Len(queue[i]) > 1 /\ queue[i][Len(queue[i])].type = "upsert"
            /\ queue'[i] = Joined(queue[i], x)
  PROVE  /\ ComesMove(i, 0) /\ BatchesMove(i) /\ \A m \in Messages : UpdatesMove(i, m, 0)
         /\ \E n, k \in Nat :
              /\ Comes(i, n, k, x)' /\ (n = 1 => k > at[i].n \/ (k = at[i].n /\ at[i].pc # "tell"))
              /\ \A m \in Messages, n2, k2 \in Nat : Comes(i, n2, k2, m)' /\ Exists(m) => n2 < n \/ (n2 = n /\ k2 < k)
PROOF
  <1>1. PICK L \in Nat : L = Len(queue[i]) /\ queue[i] \in Seq(Batches)
    BY LenProperties DEF ChatTypes
  <1>2. \A n \in Nat : n + 0 = n
    OBVIOUS
  <1>3. \A o \in Messages, n, k \in Nat : Comes(i, n, k, o) => n # 0 /\ n \in 1..L
    BY <1>1 DEF Comes
  <1>4. CASE queue'[i] = Append(queue[i], Upsert(x))
    <2>0. Upsert(x) \in Batches /\ Upsert(x).type = "upsert" /\ Len(Upsert(x).order) = 1 /\ Upsert(x).order[1] = x
      BY DEF Upsert, Batches
    <2>1. /\ Len(queue'[i]) = L + 1
          /\ \A n \in 1..L : queue'[i][n] = queue[i][n]
          /\ queue'[i][L + 1] = Upsert(x)
      BY <1>1, <1>4, <2>0, AppendProperties
    <2>2. \A n : n \in 1..L + 1 <=> n \in 1..L \/ n = L + 1
      BY <1>1
    <2>4. \A m \in Messages, n, k \in Nat : Comes(i, n, k, m)' <=> Comes(i, n, k, m) \/ (n = L + 1 /\ k = 1 /\ m = x)
      BY <1>1, <1>4, AppendedComes
    <2>5. ComesMove(i, 0)
      BY <2>4, ComesSame
    <2>6. \A m \in Messages : UpdatesMove(i, m, 0)
      BY <1>1, <1>2, <2>1, <2>2 DEF UpdatesMove
    <2>7. BatchesMove(i)
      <3>1. BatchOK(i, L + 1)'
        BY <2>0, <2>1 DEF BatchOK
      <3>. QED BY <1>1, <2>1, <2>2, <3>1 DEF BatchesMove
    <2>8. L + 1 = 1 => 1 > at[i].n \/ (1 = at[i].n /\ at[i].pc # "tell")
      <3>. SUFFICES ASSUME L = 0 PROVE 1 = at[i].n /\ at[i].pc # "tell"
        BY <1>1
      <3>1. queue[i] = <<>>
        BY <1>1, EmptySeq
      <3>. QED BY <3>1 DEF Kept, PlaceOK, Waiting
    <2>9. ASSUME NEW m \in Messages, NEW n2 \in Nat, NEW k2 \in Nat, Comes(i, n2, k2, m)', Exists(m) PROVE n2 < L + 1
      BY <1>1, <1>3, <2>4, <2>9
    <2>10. Comes(i, L + 1, 1, x)' /\ L + 1 \in Nat /\ 1 \in Nat
      BY <1>1, <2>4
    <2>. QED BY <2>5, <2>6, <2>7, <2>8, <2>9, <2>10
  <1>5. CASE Len(queue[i]) > 1 /\ queue[i][Len(queue[i])].type = "upsert" /\ queue'[i] = Joined(queue[i], x)
    <2>0. PICK s : s = queue[i][L].order
      OBVIOUS
    <2>1. /\ Len(queue'[i]) = L
          /\ \A n \in 1..L : n # L => queue'[i][n] = queue[i][n]
          /\ queue'[i][L].type = "upsert" /\ queue[i][L].type = "upsert"
          /\ queue'[i][L].order = Append(s, x)
      BY <1>1, <1>5, <2>0, JoinTyped
    <2>2. s \in Seq(Messages) /\ L \in 1..L /\ L > 1 /\ Len(s) \in Nat
      <3>1. L \in 1..L /\ L > 1
        BY <1>1, <1>5
      <3>2. s \in Seq(Messages)
        <4>1. queue[i][L] \in Batches
          BY <1>1, <3>1, ElementOfSeq
        <4>. QED BY <2>0, <4>1 DEF Batches
      <3>. QED BY <3>1, <3>2, LenProperties
    <2>3. /\ Len(Append(s, x)) = Len(s) + 1
          /\ \A k \in 1..Len(s) : Append(s, x)[k] = s[k]
          /\ Append(s, x)[Len(s) + 1] = x
      BY <2>2, AppendProperties
    <2>4. ASSUME NEW m \in Messages, NEW n \in Nat, NEW k \in Nat
          PROVE  /\ Comes(i, n, k, m)' <=> Comes(i, n, k, m) \/ (n = L /\ k = Len(s) + 1 /\ m = x)
                 /\ Comes(i, n, k, m) => n < L \/ (n = L /\ k < Len(s) + 1)
      <3>1. CASE n = L
        <4>1. Comes(i, n, k, m)' <=> k \in 1..Len(s) + 1 /\ Append(s, x)[k] = m
          BY <1>1, <2>1, <2>2, <2>3, <3>1 DEF Comes
        <4>2. Comes(i, n, k, m) <=> k \in 1..Len(s) /\ s[k] = m
          BY <1>1, <2>0, <2>1, <2>2, <3>1 DEF Comes
        <4>3. k \in 1..Len(s) + 1 <=> k \in 1..Len(s) \/ k = Len(s) + 1
          BY <2>2
        <4>4. ~(Len(s) + 1 \in 1..Len(s)) /\ (k \in 1..Len(s) => k < Len(s) + 1)
          BY <2>2
        <4>. QED BY <2>3, <3>1, <4>1, <4>2, <4>3, <4>4
      <3>2. CASE n # L
        <4>1. Comes(i, n, k, m)' <=> Comes(i, n, k, m)
          BY <1>1, <2>1, <3>2 DEF Comes
        <4>2. n \in 1..L => n < L
          BY <1>1, <3>2
        <4>. QED BY <1>3, <3>2, <4>1, <4>2
      <3>. QED BY <3>1, <3>2
    <2>5. ComesMove(i, 0)
      BY <2>4, ComesSame
    <2>6. \A m \in Messages : UpdatesMove(i, m, 0)
      BY <1>1, <1>2, <2>1 DEF UpdatesMove
    <2>7. BatchesMove(i)
      <3>1. BatchOK(i, L)'
        BY <2>1 DEF BatchOK
      <3>. QED BY <1>1, <2>1, <3>1 DEF BatchesMove
    <2>8. L = 1 => FALSE
      BY <2>2
    <2>9. ASSUME NEW m \in Messages, NEW n2 \in Nat, NEW k2 \in Nat, Comes(i, n2, k2, m)', Exists(m)
          PROVE  n2 < L \/ (n2 = L /\ k2 < Len(s) + 1)
      BY <2>4, <2>9
    <2>10. Comes(i, L, Len(s) + 1, x)' /\ L \in Nat /\ Len(s) + 1 \in Nat
      BY <2>2, <2>4
    <2>. QED BY <2>5, <2>6, <2>7, <2>8, <2>9, <2>10
  <1>. QED BY <1>4, <1>5

(* The first batch goes.                                                    *)
LEMMA TailMoves ==
  ASSUME ChatTypes, NEW i \in Instances, queue[i] # <<>>, queue'[i] = Tail(queue[i])
  PROVE  ComesMove(i, 1) /\ BatchesMove(i) /\ \A m \in Messages : UpdatesMove(i, m, 1)
PROOF
  <1>1. PICK L \in Nat : L = Len(queue[i]) /\ L > 0
    BY EmptySeq, LenProperties DEF ChatTypes
  <1>2. Len(queue'[i]) = L - 1 /\ \A n \in 1..L - 1 : queue'[i][n] = queue[i][n + 1]
    BY <1>1, HeadTailProperties DEF ChatTypes
  <1>3. \A n \in Nat : n \in 1..L - 1 <=> n # 0 /\ n + 1 \in 1..L
    BY <1>1
  <1>4. \A m \in Messages, n, k \in Nat : Comes(i, n, k, m)' <=> n # 0 /\ Comes(i, n + 1, k, m)
    BY <1>1, <1>2, <1>3 DEF Comes
  <1>5. \A n \in 1..L - 1 : n + 1 \in 1..L
    BY <1>1
  <1>6. BatchesMove(i)
    BY <1>1, <1>2, <1>5 DEF BatchesMove
  <1>7. \A m \in Messages : UpdatesMove(i, m, 1)
    BY <1>1, <1>2, <1>3 DEF UpdatesMove
  <1>. QED BY <1>4, <1>6, <1>7 DEF ComesMove

(* A message is taken out of the first batch.                               *)
LEMMA ShrinkMoves ==
  ASSUME ChatTypes, NEW i \in Instances, NEW x, queue[i] # <<>>, queue[i][1].type # "upsert",
         queue'[i] = [queue[i] EXCEPT ![1].msgs = @ \ {x}]
  PROVE  ComesMove(i, 0) /\ BatchesMove(i) /\ \A m \in Messages : m # x => UpdatesMove(i, m, 0)
PROOF
  <1>1. PICK L \in Nat : L = Len(queue[i]) /\ queue[i] \in Seq(Batches) /\ 1 \in 1..L /\ queue[i][1] \in Batches
    BY HeadTyped, LenProperties DEF ChatTypes
  <1>. DEFINE e == [queue[i][1] EXCEPT !.msgs = @ \ {x}]
              f == [queue[i] EXCEPT ![1] = e]
  <1>2. /\ e \in Batches /\ e.type = queue[i][1].type /\ e.x = queue[i][1].x /\ e.msgs = queue[i][1].msgs \ {x}
        /\ queue'[i] = f
    BY <1>1 DEF Batches
  <1>. HIDE DEF e
  <1>3. Len(f) = Len(queue[i]) /\ \A n \in 1..Len(queue[i]) : f[n] = IF n = 1 THEN e ELSE queue[i][n]
    BY <1>1, <1>2, ExceptSeq
  <1>. HIDE DEF f
  <1>4. Len(queue'[i]) = L /\ queue'[i][1] = e /\ \A n \in 1..L : n # 1 => queue'[i][n] = queue[i][n]
    BY <1>1, <1>2, <1>3
  <1>5. \A n \in Nat : n + 0 = n
    OBVIOUS
  <1>6. \A o \in Messages, n, k \in Nat : Comes(i, n, k, o)' <=> Comes(i, n, k, o)
    BY <1>1, <1>2, <1>4 DEF Comes
  <1>7. ComesMove(i, 0)
    BY <1>6, ComesSame
  <1>8. BatchesMove(i)
    <2>. SUFFICES ASSUME NEW n \in 1..L
                  PROVE  /\ queue'[i][n].type = queue[i][n].type
                         /\ \A m \in queue'[i][n].msgs : m \in queue[i][n].msgs
      BY <1>1, <1>4 DEF BatchesMove
    <2>. QED BY <1>2, <1>4
  <1>9. ASSUME NEW m \in Messages, m # x PROVE UpdatesMove(i, m, 0)
    <2>. SUFFICES ASSUME NEW n \in 1..L
                  PROVE  /\ queue'[i][n].type = queue[i][n].type /\ queue'[i][n].x = queue[i][n].x
                         /\ m \in queue[i][n].msgs => m \in queue'[i][n].msgs
      BY <1>1, <1>4, <1>5 DEF UpdatesMove
    <2>. QED BY <1>2, <1>4, <1>9
  <1>. QED BY <1>7, <1>8, <1>9

-----------------------------------------------------------------------------
(* The rows go on.                                                          *)
RowsRead(i) == \A m \in Messages : IF Exists(m) THEN RowReads(i, m) ELSE row'[i][m].copies = row[i][m].copies

(* Nothing appears, or only where i does not read it.                       *)
LEMMA NothingNew ==
  ASSUME ChatTypes, NEW i \in Instances, Kept(i), SeenOK(i), RowsRead(i),
         \/ PhonesStay
         \/ /\ \A m \in Messages : m \in seen'[i] => m \in seen[i]
            /\ \A m \in Messages, n, k \in Nat : Comes(i, n, k, m)' => Exists(m)
  PROVE  NewOK(i)
PROOF
  <1>1. CASE PhonesStay
    BY <1>1 DEF PhonesStay, NewOK
  <1>2. CASE /\ \A m \in Messages : m \in seen'[i] => m \in seen[i]
             /\ \A m \in Messages, n, k \in Nat : Comes(i, n, k, m)' => Exists(m)
    <2>. SUFFICES ASSUME NEW m \in Messages, ~Exists(m)
                  PROVE  row'[i][m].copies = 0 /\ m \notin seen'[i] /\ \A n, k \in Nat : ~Comes(i, n, k, m)'
      BY DEF NewOK
    <2>1. row'[i][m].copies = 0
      BY DEF Kept, Written, RowsRead
    <2>. QED BY <1>2, <2>1 DEF SeenOK
  <1>. QED BY <1>1, <1>2

(* The queue stays; its place may move, if what is due there is done.       *)
LEMMA TurnSeen ==
  ASSUME ChatTypes, ChatTypes', NEW i \in Instances, Kept(i), Kept(i)', Seen(i), Framed(i), RowsRead(i),
         queue'[i] = queue[i], seen'[i] = seen[i],
         \A m \in Messages : Exists(m) /\ m \in seen[i] /\ ~FromMe(i, m) /\ ~Ignored(i) /\ Unpassed(i, m)' =>
           DueStays(i, m, 0) \/ Seems(i, m)'
  PROVE  Seen(i)'
PROOF
  <1>1. SeenOK(i)
    BY DEF Seen
  <1>2. ComesMove(i, 0) /\ BatchesMove(i) /\ \A m \in Messages : UpdatesMove(i, m, 0)
    BY <1>1, SameMoves
  <1>3. \A m \in Messages, n, k \in Nat : Comes(i, n, k, m)' => Exists(m)
    BY DEF Comes, Kept, InChat
  <1>4. NewOK(i)
    BY <1>1, <1>3, NothingNew
  <1>5. \A m \in Messages : Exists(m) => ReadsGoOn(i, m, 0)
    BY <1>2 DEF ReadsGoOn
  <1>. QED BY <1>2, <1>4, <1>5, GoesOn DEF RowsRead

(* Another instance or the request moves.                                   *)
LEMMA StillSeen ==
  ASSUME ChatTypes, ChatTypes', NEW i \in Instances, Kept(i), Kept(i)', Seen(i), Framed(i), RowsRead(i),
         queue'[i] = queue[i], at'[i] = at[i], seen'[i] = seen[i]
  PROVE  Seen(i)'
PROOF
  <1>1. \A m \in Messages : DueStays(i, m, 0)
    BY DEF DueStays, AnswerDue
  <1>. QED BY <1>1, TurnSeen

(* A batch of updates comes.                                                *)
LEMMA ReportSeen ==
  ASSUME ChatTypes, ChatTypes', NEW i \in Instances, Kept(i), Kept(i)', Seen(i), Framed(i), RowsRead(i), PhonesStay,
         NEW b \in Batches, queue'[i] = Append(queue[i], b), at'[i] = at[i],
         b.type # "upsert",
         b.type = "receipt" => group',
         b.type = "read" => \A m \in b.msgs : m \in seen'[i],
         b.type = "ack" => \A m \in b.msgs : FromMe(i, m)',
         \A m \in Messages : m \in seen'[i] => m \in seen[i] \/ (Exists(m) /\ i \in phone[m].to /\ Due(i, m)')
  PROVE  Seen(i)'
PROOF
  <1>1. SeenOK(i)
    BY DEF Seen
  <1>2. ComesMove(i, 0) /\ BatchesMove(i) /\ \A m \in Messages : UpdatesMove(i, m, 0)
    BY AppendMoves
  <1>3. NewOK(i)
    BY <1>1, NothingNew
  <1>4. \A m \in Messages : DueStays(i, m, 0)
    BY DEF DueStays, AnswerDue
  <1>5. \A m \in Messages : Exists(m) => ReadsGoOn(i, m, 0)
    BY <1>2, <1>4 DEF ReadsGoOn
  <1>6. \A m \in Messages : m \in seen'[i] => m \in seen[i] \/ (Exists(m)' /\ i \in phone'[m].to)
    BY DEF PhonesStay
  <1>. QED BY <1>2, <1>3, <1>5, <1>6, GoesOn DEF RowsRead

(* A message comes; who wrote it has read all there is.                     *)
LEMMA ArriveSeen ==
  ASSUME ChatTypes, ChatTypes', NEW i \in Instances, Kept(i), Kept(i)', Seen(i), Framed(i), RowsRead(i),
         NEW x \in Messages, ~Exists(x), NEW o, NEW to, Appeared(x, o, to), i \in to, at'[i] = at[i],
         \/ queue'[i] = Append(queue[i], Upsert(x))
         \/ /\ Len(queue[i]) > 1 /\ queue[i][Len(queue[i])].type = "upsert"
            /\ queue'[i] = Joined(queue[i], x),
         \A m \in Messages : Exists(m) => phone[m].time <= phone'[x].time,
         \/ o # i /\ seen'[i] = seen[i]
         \/ o = i /\ seen'[i] = Chat(i) \cup {x}
  PROVE  Seen(i)'
PROOF
  <1>1. SeenOK(i)
    BY DEF Seen
  <1>2. /\ ComesMove(i, 0) /\ BatchesMove(i) /\ \A m \in Messages : UpdatesMove(i, m, 0)
        /\ \E n, k \in Nat :
              /\ Comes(i, n, k, x)' /\ (n = 1 => k > at[i].n \/ (k = at[i].n /\ at[i].pc # "tell"))
              /\ \A m \in Messages, n2, k2 \in Nat : Comes(i, n2, k2, m)' /\ Exists(m) => n2 < n \/ (n2 = n /\ k2 < k)
    BY ArriveMoves
  <1>3. \A m \in Messages : ~Exists(m) /\ Exists(m)' => m = x
    BY DEF Appeared, Exists
  <1>4. /\ FromMe(i, x)' <=> o = i
        /\ phone'[x].to = to /\ Exists(x)'
    BY DEF Appeared, FromMe
  <1>5. NewOK(i)
    <2>1. row'[i][x].copies = 0
      BY DEF Kept, Written, RowsRead
    <2>2. x \notin seen[i]
      BY <1>1 DEF SeenOK
    <2>. QED BY <1>3, <1>4, <2>1, <2>2 DEF NewOK
  <1>6. \A m \in Messages : DueStays(i, m, 0)
    BY DEF DueStays, AnswerDue
  <1>7. ASSUME NEW m \in Messages, Exists(m), o = i PROVE Due(i, m)'
    <2>1. PICK n \in Nat, k \in Nat :
              /\ Comes(i, n, k, x)' /\ (n = 1 => k > at[i].n \/ (k = at[i].n /\ at[i].pc # "tell"))
              /\ \A y \in Messages, n2, k2 \in Nat : Comes(i, n2, k2, y)' /\ Exists(y) => n2 < n \/ (n2 = n /\ k2 < k)
      BY <1>2
    <2>2. phone'[m].time = phone[m].time /\ phone[m].time <= phone'[x].time
      BY <1>7 DEF Framed, TimesStay
    <2>3. AnswerDue(i, m, n, k, x)'
      BY <1>4, <1>7, <2>1, <2>2 DEF AnswerDue
    <2>. QED BY <2>3 DEF Due
  <1>8. \A m \in Messages : Exists(m) => ReadsGoOn(i, m, 0)
    BY <1>2, <1>6, <1>7 DEF ReadsGoOn
  <1>9. ASSUME NEW m \in Messages, m \in seen'[i] PROVE m \in seen[i] \/ (Exists(m)' /\ i \in phone'[m].to)
    <2>1. CASE m = x
      BY <1>4, <2>1
    <2>2. CASE m # x /\ m \in Chat(i)
      <3>1. i \in phone[m].to /\ Exists(m)
        BY <2>2 DEF Chat, Kept, Written
      <3>. QED BY <2>2, <3>1 DEF Appeared, Exists
    <2>. QED BY <1>9, <2>1, <2>2
  <1>. QED BY <1>2, <1>5, <1>8, <1>9, GoesOn DEF RowsRead

(* The first batch goes, and what was due in it is done.                    *)
LEMMA DoneSeen ==
  ASSUME ChatTypes, ChatTypes', NEW i \in Instances, Kept(i), Kept(i)', Seen(i), Framed(i), RowsRead(i), PhonesStay,
         queue[i] # <<>>, queue'[i] = Tail(queue[i]), seen'[i] = seen[i],
         \A m \in Messages : Exists(m) /\ m \in seen[i] /\ ~FromMe(i, m) /\ ~Ignored(i) /\ Unpassed(i, m)' =>
           DueStays(i, m, 1) \/ Seems(i, m)'
  PROVE  Seen(i)'
PROOF
  <1>1. SeenOK(i)
    BY DEF Seen
  <1>2. ComesMove(i, 1) /\ BatchesMove(i) /\ \A m \in Messages : UpdatesMove(i, m, 1)
    BY TailMoves
  <1>3. NewOK(i)
    BY <1>1, NothingNew
  <1>4. \A m \in Messages : Exists(m) => ReadsGoOn(i, m, 1)
    BY <1>2 DEF ReadsGoOn
  <1>. QED BY <1>2, <1>3, <1>4, GoesOn DEF RowsRead

(* A status is taken out of the first batch, and is in the row.             *)
LEMMA ShrunkSeen ==
  ASSUME ChatTypes, ChatTypes', NEW i \in Instances, Kept(i), Kept(i)', Seen(i), Framed(i), RowsRead(i), PhonesStay,
         NEW x, queue[i] # <<>>, queue[i][1].type # "upsert",
         queue'[i] = [queue[i] EXCEPT ![1].msgs = @ \ {x}], at'[i] = at[i], seen'[i] = seen[i],
         x \in Messages /\ ~FromMe(i, x) /\ Unpassed(i, x)' => Seems(i, x)'
  PROVE  Seen(i)'
PROOF
  <1>1. SeenOK(i)
    BY DEF Seen
  <1>2. ComesMove(i, 0) /\ BatchesMove(i) /\ \A m \in Messages : m # x => UpdatesMove(i, m, 0)
    BY ShrinkMoves
  <1>3. NewOK(i)
    BY <1>1, NothingNew
  <1>4. \A m \in Messages : DueStays(i, m, 0)
    BY DEF DueStays, AnswerDue
  <1>5. \A m \in Messages : Exists(m) => ReadsGoOn(i, m, 0)
    BY <1>2, <1>4 DEF ReadsGoOn
  <1>. QED BY <1>2, <1>3, <1>5, GoesOn DEF RowsRead

(* The queue is lost, and what was read is cut.                             *)
LEMMA LostSeen ==
  ASSUME ChatTypes, ChatTypes', NEW i \in Instances, Kept(i), Seen(i), phone' = phone, GroupStays, MarksGrow,
         queue'[i] = <<>>, seen'[i] = seen[i], row'[i] = row[i],
         \A m \in Messages : m \in seen[i] => "cut" \in marks'[i][m]
  PROVE  Seen(i)'
PROOF
  <1>1. Len(queue'[i]) = 0
    BY EmptySeq
  <1>2. SeenOK(i)'
    BY <1>1 DEF Seen, SeenOK, Comes, Exists
  <1>3. ASSUME NEW m \in Messages PROVE ReadFine(i, m)'
    <2>1. /\ FromMe(i, m)' <=> FromMe(i, m)
          /\ Ignored(i)' <=> Ignored(i)
          /\ Late(i, m)' <=> Late(i, m)
      BY DEF FromMe, Ignored, GroupStays, Late
    <2>2. m \in seen'[i] => ~Unpassed(i, m)'
      BY DEF Unpassed
    <2>3. ReadFine(i, m)
      BY DEF Seen
    <2>. QED BY <2>1, <2>2, <2>3 DEF ReadFine, MarksGrow
  <1>. QED BY <1>2, <1>3 DEF Seen

-----------------------------------------------------------------------------
(* What comes last is due.                                                  *)
LEMMA ReportedDue ==
  ASSUME ChatTypes, NEW i \in Instances, NEW m \in Messages, NEW b \in Batches, queue'[i] = Append(queue[i], b),
         \/ b.type = "receipt" /\ phone'[m].time <= b.x
         \/ b.type = "read" /\ m \in b.msgs
  PROVE  Due(i, m)'
PROOF
  <1>1. PICK L \in Nat : L = Len(queue[i]) /\ queue[i] \in Seq(Batches)
    BY LenProperties DEF ChatTypes
  <1>2. Len(queue'[i]) = L + 1 /\ queue'[i][L + 1] = b
    BY <1>1, AppendProperties
  <1>3. L + 1 \in 1..L + 1 /\ L + 1 \in Nat /\ \A n : n \in 1..L + 1 => n < L + 1 \/ n = L + 1
    BY <1>1
  <1>4. CASE b.type = "receipt" /\ phone'[m].time <= b.x
    <2>1. \A n2, k2 \in Nat : Comes(i, n2, k2, m)' => n2 < L + 1
      BY <1>2, <1>3, <1>4 DEF Comes
    <2>2. ReceiptDue(i, m, L + 1)'
      BY <1>2, <1>3, <1>4, <2>1 DEF ReceiptDue
    <2>. QED BY <1>3, <2>2 DEF Due
  <1>5. CASE b.type = "read" /\ m \in b.msgs
    <2>1. ReadDue(i, m, L + 1)'
      BY <1>2, <1>3, <1>5 DEF ReadDue
    <2>. QED BY <1>3, <2>1 DEF Due
  <1>. QED BY <1>4, <1>5

(* What appears is not earlier than what there is.                          *)
LEMMA AppearedLast ==
  ASSUME Chatting, ChatTypes, NEW x \in Messages, ~Exists(x), NEW o, NEW to, Appears(x, o, to)
  PROVE  TimesStay /\ \A m \in Messages : phone[m].time <= phone'[x].time
PROOF
  <1>1. PICK t \in {Clock, Clock + 1} \cap 1..MaxTime :
          phone' = [phone EXCEPT ![x] = [Unsent EXCEPT !.from = o, !.to = to, !.time = t]]
    BY DEF Appears
  <1>2. \A m \in Messages : phone[m].time \in Nat
    BY DEF ChatTypes, Phones, Chatting
  <1>3. \A m \in Messages : phone[m].time <= t
    BY <1>1, <1>2, ClockTyped
  <1>4. phone'[x].time = t /\ \A m \in Messages : m # x => phone'[m] = phone[m]
    <2>1. phone'[x] = [Unsent EXCEPT !.from = o, !.to = to, !.time = t]
          /\ \A m \in Messages : m # x => phone'[m] = phone[m]
      BY <1>1 DEF ChatTypes
    <2>. QED BY <2>1 DEF Unsent
  <1>. QED BY <1>3, <1>4 DEF TimesStay

(* What is edited or revoked keeps its time.                                *)
LEMMA ChangedTimes ==
  ASSUME ChatTypes, NEW m \in Messages,
         \/ phone' = [phone EXCEPT ![m].text = @ + 1]
         \/ phone' = [phone EXCEPT ![m].revoked = TRUE]
  PROVE  TimesStay
PROOF
  <1>1. phone[m] \in Phones
    BY DEF ChatTypes
  <1>2. CASE phone' = [phone EXCEPT ![m].text = @ + 1]
    <2>1. phone'[m] = [phone[m] EXCEPT !.text = @ + 1] /\ \A k \in Messages : k # m => phone'[k] = phone[k]
      BY <1>2 DEF ChatTypes
    <2>. QED BY <1>1, <2>1 DEF Phones, TimesStay
  <1>3. CASE phone' = [phone EXCEPT ![m].revoked = TRUE]
    <2>1. phone'[m] = [phone[m] EXCEPT !.revoked = TRUE] /\ \A k \in Messages : k # m => phone'[k] = phone[k]
      BY <1>3 DEF ChatTypes
    <2>. QED BY <1>1, <2>1 DEF Phones, TimesStay
  <1>. QED BY <1>2, <1>3

(* A message of others that is not to come any more has its row.            *)
LEMMA StoredNow ==
  ASSUME ChatTypes, NEW i \in Instances, NEW m \in Messages, Kept(i), SeenOK(i), m \in seen[i],
         ~FromMe(i, m), ~Ignored(i), "cut" \notin marks[i][m], ~Comings(i, m)
  PROVE  Stored(i, m)
PROOF
  <1>1. Exists(m) /\ i \in phone[m].to
    BY DEF SeenOK
  <1>2. ~(call[i].op \in {"send", "tell"} /\ call[i].m = m)
    BY CallTyped DEF Kept, RequestOK
  <1>. QED BY <1>1, <1>2 DEF Kept, Tracked, Stored

(* Reading what is as early as t, when something as late was read.          *)
LEMMA ReadingReads ==
  ASSUME ChatTypes, NEW i \in Instances, NEW t, MarksRead(i, t),
         \A m \in Messages : phone[m].time <= t => Late(i, m)'
  PROVE  /\ \A j \in Instances : RowsRead(j)
         /\ \A m \in Messages : Stored(i, m) /\ ~FromMe(i, m) /\ phone[m].time <= t => Seems(i, m)'
PROOF
  <1>. DEFINE f == [m \in Messages |-> IF Unread(i, m) /\ phone[m].time <= t
                                       THEN [row[i][m] EXCEPT !.status = "READ"] ELSE row[i][m]]
  <1>1. row' = [row EXCEPT ![i] = f]
    BY DEF MarksRead
  <1>2. ASSUME NEW m \in Messages
        PROVE  IF Unread(i, m) /\ phone[m].time <= t
               THEN f[m].copies = row[i][m].copies /\ f[m].status = "READ" ELSE f[m] = row[i][m]
    <2>1. row[i][m] \in Copies
      BY DEF ChatTypes
    <2>. QED BY <2>1 DEF Copies
  <1>. HIDE DEF f
  <1>3. row'[i] = f /\ \A j \in Instances : j # i => row'[j] = row[j]
    BY <1>1 DEF ChatTypes
  <1>4. \A j \in Instances, m \in Messages : row'[j][m] = row[j][m] => RowReads(j, m)
    BY DEF RowReads
  <1>5. ASSUME NEW m \in Messages PROVE RowReads(i, m) /\ row'[i][m].copies = row[i][m].copies
    <2>1. CASE Unread(i, m) /\ phone[m].time <= t
      BY <1>2, <1>3, <2>1 DEF RowReads
    <2>2. CASE ~(Unread(i, m) /\ phone[m].time <= t)
      BY <1>2, <1>3, <1>4, <2>2
    <2>. QED BY <2>1, <2>2
  <1>6. \A j \in Instances : RowsRead(j)
    BY <1>3, <1>4, <1>5 DEF RowsRead
  <1>7. ASSUME NEW m \in Messages, Stored(i, m), ~FromMe(i, m), phone[m].time <= t PROVE Seems(i, m)'
    <2>1. CASE Unread(i, m)
      BY <1>2, <1>3, <1>7, <2>1 DEF Seems, Stored
    <2>2. CASE ~Unread(i, m)
      BY <1>2, <1>3, <1>7, <2>2 DEF Seems, Stored, Unread
    <2>. QED BY <2>1, <2>2
  <1>. QED BY <1>6, <1>7

-----------------------------------------------------------------------------
(* Every step keeps what was read.                                          *)
LEMMA ReadStep == ASSUME Chatting, ReadInv, Next PROVE ReadInv'
PROOF
  <1>. USE DEF whatsapp, table
  <1>. DEFINE Goal == \A j \in Instances : Seen(j)'
  <1>0. KeptInv' /\ ChatTypes /\ ChatTypes' /\ \A i \in Instances : Kept(i) /\ Kept(i)' /\ Seen(i)
    BY KeptStep DEF ReadInv, KeptInv
  <1>. SUFFICES Goal
    BY <1>0 DEF ReadInv
  <1>p. UNCHANGED phone => TimesStay /\ PhonesStay
    BY Unchanging DEF TimesStay
  <1>n. UNCHANGED <<group, ignores>> => GroupStays
    BY Unchanging
  <1>u. UNCHANGED marks => MarksGrow
    BY DEF MarksGrow
  <1>r. \A j \in Instances, m \in Messages : row'[j][m] = row[j][m] => RowReads(j, m)
    BY DEF RowReads
  <1>w. \A j \in Instances : row'[j] = row[j] => RowsRead(j)
    BY <1>r DEF RowsRead
  <1>x. \A j \in Instances, m \in Messages : m \in seen[j] => m \in Chat(j) /\ Exists(m)
    BY <1>0 DEF Seen, SeenOK, Chat
  <1>y. \A j \in Instances, m \in Messages : m \in Chat(j) => Exists(m) /\ j \in phone[m].to
    BY <1>0 DEF Kept, Written, Chat
  <1>f. ASSUME UNCHANGED <<group, ignores, seen>>, TimesStay, MarksGrow PROVE \A j \in Instances : Framed(j)
    BY <1>f, <1>n DEF Framed
  <1>s. ASSUME NEW j \in Instances, Framed(j), RowsRead(j), queue'[j] = queue[j], at'[j] = at[j], seen'[j] = seen[j]
        PROVE  Seen(j)'
    BY <1>0, <1>s, StillSeen
  <1>1. ASSUME NEW who \in SUBSET Instances, NEW b \in Batches, Report(who, b),
               UNCHANGED <<group, ignores, seen, at, row, marks>>, TimesStay,
               PhonesStay,
               b.type \notin {"upsert", "read"}, b.type = "receipt" => group,
               b.type = "ack" => \A j \in who, m \in b.msgs : FromMe(j, m)'
        PROVE  Goal
    <2>1. \A j \in Instances : /\ j \in who => queue'[j] = Append(queue[j], b)
                               /\ j \notin who => queue'[j] = queue[j]
      BY <1>0, <1>1, Reported
    <2>2. \A j \in Instances : Framed(j) /\ RowsRead(j) /\ at'[j] = at[j] /\ seen'[j] = seen[j]
      BY <1>1, <1>f, <1>u, <1>w
    <2>3. ASSUME NEW j \in Instances, j \in who PROVE Seen(j)'
      <3>1. b.type = "receipt" => group'
        BY <1>1
      <3>2. b.type = "ack" => \A m \in b.msgs : FromMe(j, m)'
        BY <1>1, <2>3
      <3>3. queue'[j] = Append(queue[j], b) /\ b.type # "upsert" /\ b.type # "read"
        BY <1>1, <2>1, <2>3
      <3>. QED BY <1>0, <1>1, <2>2, <3>1, <3>2, <3>3, ReportSeen
    <2>4. ASSUME NEW j \in Instances, j \notin who PROVE Seen(j)'
      BY <1>s, <2>1, <2>2, <2>4
    <2>. QED BY <2>3, <2>4
  <1>2. ASSUME NEW i \in Instances, Reads(i) PROVE Goal
    <2>. DEFINE b == IF group THEN Batch("receipt", {}, Clock) ELSE Batch("read", Chat(i) \ seen[i], 0)
    <2>1. /\ b \in Batches
          /\ group => b.type = "receipt" /\ b.x = Clock
          /\ ~group => b.type = "read" /\ b.msgs = Chat(i) \ seen[i]
      BY <1>0, ClockTyped DEF Batch, Batches, Chat
    <2>. HIDE DEF b
    <2>2. Report({i}, b) /\ UNCHANGED <<group, ignores, phone, at, row, marks>> /\ seen' = [seen EXCEPT ![i] = Chat(i)]
      BY <1>2 DEF Reads, b
    <2>3. /\ queue'[i] = Append(queue[i], b)
          /\ \A j \in Instances : j # i => queue'[j] = queue[j]
      <3>1. Report({i}, b) /\ {i} \in SUBSET Instances
        BY <2>2
      <3>2. (\A j \in {i} : queue'[j] = Append(queue[j], b)) /\ \A j \in Instances \ {i} : queue'[j] = queue[j]
        BY <1>0, <2>1, <3>1, Reported
      <3>. QED BY <3>2
    <2>4. seen'[i] = Chat(i) /\ \A j \in Instances : j # i => seen'[j] = seen[j]
      BY <1>0, <2>2 DEF ChatTypes
    <2>5. \A j \in Instances : Framed(j) /\ RowsRead(j) /\ at'[j] = at[j]
      BY <1>n, <1>p, <1>u, <1>w, <1>x, <2>2, <2>4 DEF Framed
    <2>6. \A j \in Instances : j # i => Seen(j)'
      BY <1>s, <2>3, <2>4, <2>5
    <2>7. ASSUME NEW m \in Messages, m \in seen'[i], m \notin seen[i] PROVE Exists(m) /\ i \in phone[m].to /\ Due(i, m)'
      <3>1. m \in Chat(i)
        BY <2>4, <2>7
      <3>2. phone'[m].time <= Clock
        BY <1>0, <2>2, ClockTyped
      <3>3. \/ b.type = "receipt" /\ phone'[m].time <= b.x
            \/ b.type = "read" /\ m \in b.msgs
        BY <2>1, <2>7, <3>1, <3>2
      <3>. QED BY <1>0, <1>y, <2>1, <2>3, <3>1, <3>3, ReportedDue
    <2>8. Seen(i)'
      <3>1. b.type \in {"receipt", "read"} /\ (b.type = "receipt" => group') /\ (b.type = "read" => \A m \in b.msgs : m \in seen'[i])
        BY <2>1, <2>2, <2>4
      <3>2. PhonesStay /\ b.type # "upsert" /\ b.type # "ack"
        BY <1>p, <2>2, <3>1
      <3>3. \A m \in Messages : m \in seen'[i] => m \in seen[i] \/ (Exists(m) /\ i \in phone[m].to /\ Due(i, m)')
        BY <2>7
      <3>. QED BY <1>0, <2>1, <2>3, <2>5, <3>1, <3>2, <3>3, ReportSeen
    <2>. QED BY <2>6, <2>8
  <1>3. ASSUME NEW i \in Instances, Syncs(i) PROVE Goal
    <2>. DEFINE b == Batch("history", Chat(i), 0)
    <2>1. b \in Batches /\ b.type = "history"
      BY DEF Batch, Batches, Chat
    <2>. HIDE DEF b
    <2>2. Report({i}, b) /\ UNCHANGED <<group, ignores, phone, seen, at, row, marks>>
      BY <1>3 DEF Syncs, b
    <2>. QED BY <1>1, <1>p, <2>1, <2>2
  <1>4. ASSUME NEW i \in Instances, NEW x \in Messages, Acked(i, x) PROVE Goal
    <2>. DEFINE b == IF group THEN Batch("receipt", {}, Clock) ELSE Batch("ack", {x}, 0)
    <2>1. b \in Batches /\ (IF group THEN b.type = "receipt" ELSE b.type = "ack" /\ b.msgs = {x})
      BY <1>0, ClockTyped DEF Batch, Batches
    <2>. HIDE DEF b
    <2>2. Report({i}, b) /\ UNCHANGED <<group, ignores, phone, seen, at, row, marks>> /\ FromMe(i, x)
      BY <1>4 DEF Acked, b
    <2>3. FromMe(i, x)'
      BY <2>2 DEF FromMe
    <2>4. b.type = "ack" => \A j \in {i}, m \in b.msgs : FromMe(j, m)'
      BY <2>1, <2>3
    <2>5. b.type \notin {"upsert", "read"} /\ (b.type = "receipt" => group)
      BY <2>1
    <2>. QED BY <1>1, <1>p, <2>1, <2>2, <2>4, <2>5
  <1>5. ASSUME NEW x \in Messages, NEW who \in SUBSET Instances, NEW b \in Batches, Report(who, b),
               b.type \in {"edit", "revoke"}, UNCHANGED <<group, ignores, seen, at, row, marks>>,
               \/ phone' = [phone EXCEPT ![x].text = @ + 1]
               \/ phone' = [phone EXCEPT ![x].revoked = TRUE]
        PROVE  Goal
    <2>1. TimesStay /\ PhonesStay
      BY <1>0, <1>5, ChangedTimes, PhoneStays
    <2>. QED BY <1>1, <1>5, <2>1
  <1>6. ASSUME NEW x \in Messages, Edits(x) PROVE Goal
    <2>1. phone[x].to \in SUBSET Instances /\ Batch("edit", {x}, phone[x].text + 1) \in Batches
          /\ Batch("edit", {x}, phone[x].text + 1).type = "edit"
      BY <1>0 DEF Batch, Batches, ChatTypes, Phones
    <2>. QED BY <1>5, <1>6, <2>1 DEF Edits
  <1>7. ASSUME NEW i \in Instances, NEW x \in Messages, ApiEdit(i, x) PROVE Goal
    <2>1. phone[x].to \ {i} \in SUBSET Instances /\ Batch("edit", {x}, phone[x].text + 1) \in Batches
          /\ Batch("edit", {x}, phone[x].text + 1).type = "edit"
      BY <1>0 DEF Batch, Batches, ChatTypes, Phones
    <2>. QED BY <1>5, <1>7, <2>1 DEF ApiEdit
  <1>8. ASSUME NEW x \in Messages, Revokes(x) PROVE Goal
    <2>1. phone[x].to \in SUBSET Instances /\ Batch("revoke", {x}, 0) \in Batches
          /\ Batch("revoke", {x}, 0).type = "revoke"
      BY <1>0 DEF Batch, Batches, ChatTypes, Phones
    <2>. QED BY <1>5, <1>8, <2>1 DEF Revokes
  <1>9. ASSUME NEW i \in Instances, NEW x \in Messages, ApiDelete(i, x) PROVE Goal
    <2>1. phone[x].to \ {i} \in SUBSET Instances /\ Batch("revoke", {x}, 0) \in Batches
          /\ Batch("revoke", {x}, 0).type = "revoke"
      BY <1>0 DEF Batch, Batches, ChatTypes, Phones
    <2>. QED BY <1>5, <1>9, <2>1 DEF ApiDelete
  <1>10. ASSUME NEW x \in Messages, NEW o \in Instances \cup {Nobody}, NEW to \in SUBSET Instances,
                NEW who \in SUBSET to, ~Exists(x), Appears(x, o, to), ReportMessage(who, x),
                UNCHANGED <<group, ignores, at, row, marks>>,
                \A j \in Instances : \/ j # o /\ seen'[j] = seen[j]
                                     \/ j = o /\ j \in who /\ seen'[j] = Chat(j) \cup {x}
                                     \/ j \notin who /\ seen'[j] = seen[j]
         PROVE  Goal
    <2>1. Appeared(x, o, to) /\ TimesStay /\ \A m \in Messages : phone[m].time <= phone'[x].time
      BY <1>0, <1>10, AppearedTyped, AppearedLast
    <2>2. /\ \A j \in Instances \ who : queue'[j] = queue[j]
          /\ \A j \in who : \/ queue'[j] = Append(queue[j], Upsert(x))
                            \/ /\ Len(queue[j]) > 1 /\ queue[j][Len(queue[j])].type = "upsert"
                               /\ queue'[j] = Joined(queue[j], x)
      BY <1>0, <1>10, MessageReported
    <2>3. \A j \in Instances : Framed(j) /\ RowsRead(j) /\ at'[j] = at[j]
      <3>1. \A j \in Instances, m \in Messages : m \in seen[j] => m \in seen'[j]
        BY <1>10, <1>x
      <3>. QED BY <1>10, <1>n, <1>u, <1>w, <2>1, <3>1 DEF Framed
    <2>4. ASSUME NEW j \in Instances, j \notin who PROVE Seen(j)'
      BY <1>10, <1>s, <2>2, <2>3, <2>4
    <2>5. ASSUME NEW j \in Instances, j \in who PROVE Seen(j)'
      <3>1. \/ queue'[j] = Append(queue[j], Upsert(x))
            \/ /\ Len(queue[j]) > 1 /\ queue[j][Len(queue[j])].type = "upsert"
               /\ queue'[j] = Joined(queue[j], x)
        BY <2>2, <2>5
      <3>2. \/ o # j /\ seen'[j] = seen[j]
            \/ o = j /\ seen'[j] = Chat(j) \cup {x}
        BY <1>10, <2>5
      <3>3. j \in to /\ \A m \in Messages : Exists(m) => phone[m].time <= phone'[x].time
        BY <2>1, <2>5
      <3>. QED BY <1>0, <1>10, <2>1, <2>3, <3>1, <3>2, <3>3, ArriveSeen
    <2>. QED BY <2>4, <2>5
  <1>11. ASSUME NEW x \in Messages, Arrives(x) PROVE Goal
    <2>1. PICK to \in IF group THEN {Instances} ELSE {{i} : i \in Instances} :
               \E o \in to \cup {Nobody} :
                 /\ Appears(x, o, to) /\ ReportMessage(to, x)
                 /\ seen' = [i \in Instances |-> IF i = o THEN Chat(i) \cup {x} ELSE seen[i]]
      BY <1>11 DEF Arrives
    <2>2. PICK o \in to \cup {Nobody} :
                 /\ Appears(x, o, to) /\ ReportMessage(to, x)
                 /\ seen' = [i \in Instances |-> IF i = o THEN Chat(i) \cup {x} ELSE seen[i]]
      BY <2>1
    <2>3. to \in SUBSET Instances /\ o \in Instances \cup {Nobody} /\ Nobody \notin Instances
      BY <1>0, <2>1, <2>2 DEF Chatting
    <2>4. \A j \in Instances : \/ j # o /\ seen'[j] = seen[j]
                               \/ j = o /\ j \in to /\ seen'[j] = Chat(j) \cup {x}
                               \/ j \notin to /\ seen'[j] = seen[j]
      BY <2>2, <2>3
    <2>5. ~Exists(x) /\ UNCHANGED <<group, ignores, at, row, marks>>
      BY <1>11 DEF Arrives
    <2>. QED BY <1>10, <2>2, <2>3, <2>4, <2>5
  <1>12. ASSUME NEW i \in Instances, NEW x \in Messages, ApiSend(i, x) PROVE Goal
    <2>1. PICK to \in SUBSET Instances : Appears(x, i, to) /\ ReportMessage(to \ {i}, x)
      BY <1>12 DEF ApiSend, SendMessage
    <2>2. ~Exists(x) /\ UNCHANGED <<group, ignores, seen, at, row, marks>>
      BY <1>12 DEF ApiSend
    <2>3. \A j \in Instances : \/ j # i /\ seen'[j] = seen[j]
                               \/ j \notin to \ {i} /\ seen'[j] = seen[j]
      BY <2>2
    <2>. QED BY <1>10, <2>1, <2>2, <2>3
  <1>d. ASSUME NEW i \in Instances, queue[i] # <<>>, Done(i), UNCHANGED <<group, ignores, phone, seen>>, MarksGrow,
               \A j \in Instances : RowsRead(j),
               \A m \in Messages : Exists(m) /\ m \in seen[i] /\ ~FromMe(i, m) /\ ~Ignored(i) /\ Unpassed(i, m)' =>
                 DueStays(i, m, 1) \/ Seems(i, m)'
        PROVE  Goal
    <2>1. /\ queue'[i] = Tail(queue[i])
          /\ \A j \in Instances : j # i => queue'[j] = queue[j] /\ at'[j] = at[j]
      BY <1>0, <1>d, DoneTyped
    <2>2. PhonesStay /\ \A j \in Instances : Framed(j) /\ RowsRead(j) /\ seen'[j] = seen[j]
      BY <1>d, <1>f, <1>p
    <2>3. \A j \in Instances : j # i => Seen(j)'
      BY <1>s, <2>1, <2>2
    <2>4. Seen(i)'
      BY <1>0, <1>d, <2>1, <2>2, DoneSeen
    <2>. QED BY <2>3, <2>4
  <1>t. ASSUME NEW i \in Instances, UNCHANGED <<group, ignores, phone, seen, queue>>, MarksGrow,
               \A j \in Instances : j # i => at'[j] = at[j],
               \A j \in Instances : RowsRead(j),
               \A m \in Messages : Exists(m) /\ m \in seen[i] /\ ~FromMe(i, m) /\ ~Ignored(i) /\ Unpassed(i, m)' =>
                 DueStays(i, m, 0) \/ Seems(i, m)'
        PROVE  Goal
    <2>1. PhonesStay /\ \A j \in Instances : Framed(j) /\ RowsRead(j) /\ seen'[j] = seen[j] /\ queue'[j] = queue[j]
      BY <1>t, <1>f, <1>p
    <2>2. \A j \in Instances : j # i => Seen(j)'
      BY <1>s, <1>t, <2>1
    <2>3. Seen(i)'
      BY <1>0, <1>t, <2>1, TurnSeen
    <2>. QED BY <2>2, <2>3
  <1>e. ASSUME UNCHANGED <<group, ignores, phone, seen, queue, at>>, MarksGrow, \A j \in Instances : RowsRead(j)
        PROVE  Goal
    BY <1>e, <1>f, <1>p, <1>s
  <1>13. ASSUME NEW i \in Instances, Create(i) PROVE Goal
    <2>1. UNCHANGED <<group, ignores, phone, seen, marks>> /\ Busy(i, {"upsert"}) /\ at[i].pc = "next"
      BY <1>13 DEF Create
    <2>2. queue[i] # <<>> /\ Head1(i) = queue[i][1] /\ Head1(i) \in Batches /\ queue[i][1].type = "upsert"
      BY <1>0, <2>1, HeadTyped DEF Busy
    <2>3. Len(Head1(i).order) \in Nat /\ at[i].n \in Nat
      BY <1>0, <2>2, LenProperties DEF Batches, ChatTypes, Places
    <2>4. CASE at[i].n > Len(Head1(i).order) \/ Ignored(i)
      <3>1. Done(i) /\ UNCHANGED row
        BY <1>13, <2>4 DEF Create
      <3>2. at'[i] = Waiting
        BY <1>0, <2>2, <3>1, DoneTyped
      <3>3. ASSUME NEW m \in Messages, ~Ignored(i) PROVE DueStays(i, m, 1)
        <4>1. ~ReceiptDue(i, m, 1) /\ ~ReadDue(i, m, 1)
          BY <2>2 DEF ReceiptDue, ReadDue
        <4>2. ASSUME NEW k \in Nat, NEW o \in Messages, AnswerDue(i, m, 1, k, o) PROVE FALSE
          <5>1. k \in 1..Len(Head1(i).order) /\ k >= at[i].n
            BY <2>2, <2>3, <4>2 DEF AnswerDue, Comes
          <5>. QED BY <2>3, <2>4, <3>3, <5>1
        <4>. QED BY <3>2, <4>1, <4>2 DEF DueStays
      <3>. QED BY <1>d, <1>u, <1>w, <2>1, <2>2, <3>1, <3>3
    <2>5. CASE ~(at[i].n > Len(Head1(i).order) \/ Ignored(i))
      <3>1. /\ row' = [row EXCEPT ![i][Current(i)] = Prepared(i, Current(i), row[i][Current(i)].copies + 1, 0)]
            /\ at' = [at EXCEPT ![i].pc = "count"] /\ queue' = queue
        BY <1>13, <2>5 DEF Create
      <3>2. at[i].n <= Len(Head1(i).order)
        BY <2>3, <2>5
      <3>3. PICK x \in Messages, k \in Nat : x = Current(i) /\ k = at[i].n /\ Comes(i, 1, k, x)
        BY <1>0, <2>1, <3>2, CurrentComes
      <3>4. row[i][x].copies = 0
        BY <1>0, <2>1, <3>3 DEF Kept, RowsCome, ToCome
      <3>5. /\ row'[i][x] = Prepared(i, x, 1, 0)
            /\ \A j \in Instances, m \in Messages : j # i \/ m # x => row'[j][m] = row[j][m]
            /\ \A j \in Instances : j # i => at'[j] = at[j]
            /\ at'[i].pc = "count" /\ at'[i].n = at[i].n
        BY <1>0, <3>1, <3>3, <3>4 DEF ChatTypes, Places
      <3>6. RowReads(i, x)
        BY <2>5, <3>4, <3>5 DEF RowReads, Prepared
      <3>7. Exists(x)
        BY <1>0, <3>3 DEF Kept, InChat
      <3>8. \A j \in Instances : RowsRead(j)
        BY <1>r, <3>5, <3>6, <3>7 DEF RowsRead
      <3>9. \A m \in Messages : DueStays(i, m, 0)
        BY <3>5 DEF DueStays, AnswerDue
      <3>. QED BY <1>t, <1>u, <2>1, <3>1, <3>5, <3>8, <3>9
    <2>. QED BY <2>4, <2>5
  <1>14. ASSUME NEW i \in Instances, Count(i) PROVE Goal
    <2>1. /\ UNCHANGED <<group, ignores, phone, seen, queue>> /\ Busy(i, {"upsert"}) /\ at[i].pc = "count"
          /\ at' = [at EXCEPT ![i].pc = "tell"]
      BY <1>14 DEF Count
    <2>2. PICK x \in Messages, k0 \in Nat : x = Current(i) /\ k0 = at[i].n /\ Comes(i, 1, k0, x)
      BY <1>0, <2>1, CurrentComes
    <2>3. at'[i].n = k0 /\ at'[i].pc = "tell" /\ \A j \in Instances : j # i => at'[j] = at[j]
      BY <1>0, <2>1, <2>2 DEF ChatTypes, Places
    <2>4. MarksGrow
      <3>1. UNCHANGED marks \/ Mark(i, Chat(i), "passed")
        BY <1>14 DEF Count
      <3>. QED BY <1>0, <3>1, MarkGrows DEF Marks
    <2>5. ASSUME NEW m \in Messages, ~DueStays(i, m, 0)
          PROVE  AnswerDue(i, m, 1, k0, x)
      <3>1. PICK k \in Nat, o \in Messages : AnswerDue(i, m, 1, k, o) /\ ~(k > k0)
        BY <2>3, <2>5 DEF DueStays
      <3>2. k = k0
        BY <2>2, <3>1 DEF AnswerDue
      <3>3. o = x
        BY <2>2, <3>1, <3>2 DEF AnswerDue, Comes
      <3>. QED BY <3>1, <3>2, <3>3
    <2>6. CASE FromMe(i, x) /\ Mark(i, Chat(i), "passed") /\ UNCHANGED row
      <3>1. \A m \in Messages : m \in seen[i] => ~Unpassed(i, m)'
        <4>1. \A m \in Messages : m \in Chat(i) => "passed" \in marks'[i][m]
          BY <1>0, <2>6, Marked DEF Marks
        <4>. QED BY <1>x, <4>1 DEF Unpassed
      <3>. QED BY <1>t, <1>w, <2>1, <2>3, <2>4, <2>6, <3>1
    <2>7. CASE FromMe(i, x) /\ MarksRead(i, phone[x].time)
      <3>1. x \in seen[i]
        BY <1>0, <2>2, <2>7 DEF Seen, SeenOK
      <3>2. \A m \in Messages : phone[m].time <= phone[x].time => Late(i, m)'
        BY <2>1, <3>1 DEF Late
      <3>3. /\ \A j \in Instances : RowsRead(j)
            /\ \A m \in Messages : Stored(i, m) /\ ~FromMe(i, m) /\ phone[m].time <= phone[x].time => Seems(i, m)'
        BY <1>0, <2>7, <3>2, ReadingReads
      <3>4. ASSUME NEW m \in Messages, m \in seen[i], ~FromMe(i, m), ~Ignored(i), Unpassed(i, m)', ~DueStays(i, m, 0)
            PROVE  Seems(i, m)'
        <4>1. AnswerDue(i, m, 1, k0, x)
          BY <2>5, <3>4
        <4>2. ~Comings(i, m)
          <5>1. ASSUME NEW n \in Nat, NEW k \in Nat, Comes(i, n, k, m) PROVE n = 1 /\ k < k0
            <6>1. n < 1 \/ (n = 1 /\ k < k0)
              BY <4>1, <5>1 DEF AnswerDue
            <6>2. n # 0
              BY <5>1 DEF Comes
            <6>. QED BY <6>1, <6>2
          <5>. QED BY <2>2, <5>1 DEF Comings, ToCome, InWork
        <4>3. "cut" \notin marks[i][m]
          BY <2>4, <3>4 DEF MarksGrow, Unpassed
        <4>4. Stored(i, m)
          BY <1>0, <3>4, <4>2, <4>3, StoredNow DEF Seen
        <4>. QED BY <3>3, <3>4, <4>1, <4>4 DEF AnswerDue
      <3>. QED BY <1>t, <2>1, <2>3, <2>4, <3>3, <3>4
    <2>8. CASE ~FromMe(i, x) /\ UNCHANGED row
      <3>1. \A m \in Messages : DueStays(i, m, 0)
        BY <2>5, <2>8 DEF AnswerDue
      <3>. QED BY <1>t, <1>w, <2>1, <2>3, <2>4, <2>8, <3>1
    <2>. QED BY <1>14, <2>2, <2>6, <2>7, <2>8 DEF Count
  <1>15. ASSUME NEW i \in Instances, Tell(i) PROVE Goal
    <2>1. /\ UNCHANGED <<group, ignores, phone, seen, queue, row, marks>> /\ at[i].pc = "tell"
          /\ at' = [at EXCEPT ![i] = [pc |-> "next", n |-> at[i].n + 1]]
      BY <1>15 DEF Tell
    <2>2. PICK k0 \in Nat : k0 = at[i].n
      BY <1>0 DEF ChatTypes, Places
    <2>3. at'[i].n = k0 + 1 /\ at'[i].pc = "next" /\ \A j \in Instances : j # i => at'[j] = at[j]
      BY <1>0, <2>1, <2>2 DEF ChatTypes
    <2>4. \A m \in Messages : DueStays(i, m, 0)
      <3>. SUFFICES ASSUME NEW m \in Messages, NEW k \in Nat, NEW o \in Messages, AnswerDue(i, m, 1, k, o)
                    PROVE  k > at'[i].n \/ (k = at'[i].n /\ at'[i].pc # "tell")
        BY DEF DueStays
      <3>1. k > k0
        BY <2>1, <2>2 DEF AnswerDue
      <3>. QED BY <2>2, <2>3, <3>1
    <2>. QED BY <1>t, <1>u, <1>w, <2>1, <2>3, <2>4
  <1>16. ASSUME NEW i \in Instances, Fails(i) PROVE Goal
    <2>1. /\ UNCHANGED <<group, ignores, phone, seen, row>> /\ queue[i] # <<>> /\ Done(i)
          /\ Mark(i, seen[i] \cup {m \in Head1(i).msgs : ~told[i][m] \/ Head1(i).type # "upsert"}, "cut")
      BY <1>16 DEF Fails
    <2>2. MarksGrow
      BY <1>0, <2>1, MarkGrows DEF Marks
    <2>3. \A m \in Messages : m \in seen[i] => ~Unpassed(i, m)'
      <3>1. "cut" \in Marks
        BY DEF Marks
      <3>2. \A m \in Messages : m \in seen[i] => "cut" \in marks'[i][m]
        BY <1>0, <2>1, <3>1, MarkStays
      <3>. QED BY <3>2 DEF Unpassed
    <2>4. \A j \in Instances : RowsRead(j)
      BY <1>w, <2>1
    <2>. QED BY <1>d, <2>1, <2>2, <2>3, <2>4
  <1>h. ASSUME NEW i \in Instances, queue[i] # <<>>, Done(i), queue[i][1].type # "upsert",
               NEW m \in Messages, ~ReceiptDue(i, m, 1), ~ReadDue(i, m, 1)
        PROVE  DueStays(i, m, 1)
    <2>1. at'[i] = Waiting
      BY <1>0, <1>h, DoneTyped
    <2>2. \A k \in Nat, o \in Messages : ~AnswerDue(i, m, 1, k, o)
      BY <1>h DEF AnswerDue, Comes
    <2>. QED BY <1>h, <2>1, <2>2 DEF DueStays
  <1>17. ASSUME NEW i \in Instances, EditRow(i) PROVE Goal
    <2>. DEFINE b == Head1(i)
                f == [m \in Messages |-> IF m \in b.msgs /\ Stored(i, m)
                        THEN [row[i][m] EXCEPT !.status = "EDITED",
                                               !.text = IF b.type = "revoke" THEN row[i][m].text ELSE b.x]
                        ELSE row[i][m]]
    <2>1. /\ UNCHANGED <<group, ignores, phone, seen>> /\ Busy(i, {"edit", "revoke"}) /\ Done(i)
          /\ Mark(i, {m \in b.msgs : ~Stored(i, m)}, "skipped")
      BY <1>17 DEF EditRow
    <2>2. row' = [row EXCEPT ![i] = f]
      BY <1>17, Zenon DEF EditRow
    <2>3. ASSUME NEW m \in Messages
          PROVE  f[m] = row[i][m] \/ (f[m].copies = row[i][m].copies /\ f[m].status = "EDITED")
      <3>1. row[i][m] \in Copies
        BY <1>0 DEF ChatTypes
      <3>. HIDE DEF b
      <3>. QED BY <3>1 DEF Copies
    <2>. HIDE DEF f
    <2>4. row'[i] = f /\ \A j \in Instances : j # i => row'[j] = row[j]
      BY <1>0, <2>2 DEF ChatTypes
    <2>5. MarksGrow
      BY <1>0, <2>1, MarkGrows DEF Marks
    <2>6. queue[i] # <<>> /\ queue[i][1].type \in {"edit", "revoke"}
      BY <1>0, <2>1, HeadTyped DEF Busy
    <2>7. \A m \in Messages : DueStays(i, m, 1)
      BY <1>h, <2>1, <2>6 DEF ReceiptDue, ReadDue
    <2>8. ASSUME NEW m \in Messages PROVE RowReads(i, m) /\ row'[i][m].copies = row[i][m].copies
      <3>1. row'[i][m] = row[i][m] \/ (row'[i][m].copies = row[i][m].copies /\ row'[i][m].status = "EDITED")
        BY <2>3, <2>4
      <3>. QED BY <3>1 DEF RowReads
    <2>9. \A j \in Instances : RowsRead(j)
      BY <1>w, <2>4, <2>8 DEF RowsRead
    <2>. QED BY <1>d, <2>1, <2>5, <2>6, <2>7, <2>9
  <1>18. ASSUME NEW i \in Instances, Update(i) PROVE Goal
    <2>. DEFINE b == Head1(i)
    <2>1. UNCHANGED <<group, ignores, phone, seen>> /\ Busy(i, {"read", "ack"})
      BY <1>18 DEF Update
    <2>2. queue[i] # <<>> /\ b = queue[i][1] /\ 1 \in 1..Len(queue[i]) /\ queue[i][1] \in Batches
          /\ queue[i][1].type \in {"read", "ack"}
      BY <1>0, <2>1, HeadTyped DEF Busy
    <2>3. CASE b.msgs = {}
      <3>1. Done(i) /\ UNCHANGED <<row, marks>>
        BY <1>18, <2>3 DEF Update
      <3>2. \A m \in Messages : ~ReceiptDue(i, m, 1) /\ ~ReadDue(i, m, 1)
        BY <2>2, <2>3 DEF ReceiptDue, ReadDue
      <3>3. \A m \in Messages : DueStays(i, m, 1)
        BY <1>h, <2>2, <3>1, <3>2
      <3>. QED BY <1>d, <1>u, <1>w, <2>1, <2>2, <3>1, <3>3
    <2>4. CASE b.msgs # {}
      <3>1. PICK x \in b.msgs :
              /\ queue' = [queue EXCEPT ![i][1].msgs = @ \ {x}] /\ UNCHANGED at
              /\ \/ Mark(i, {x}, "skipped") /\ UNCHANGED row
                 \/ Stored(i, x) /\ (FromMe(i, x) \/ row[i][x].status = "READ") /\ UNCHANGED <<row, marks>>
                 \/ Mark(i, {x}, "passed") /\ UNCHANGED row
                 \/ /\ Stored(i, x) /\ ~FromMe(i, x)
                    /\ row' = [row EXCEPT ![i] = [k \in Messages |->
                            IF k = x \/ (Unread(i, k) /\ phone[k].time <= phone[x].time)
                            THEN [row[i][k] EXCEPT !.status = "READ"] ELSE row[i][k]]]
                    /\ UNCHANGED marks
        BY <1>18, <2>4 DEF Update
      <3>2. MarksGrow
        BY <1>0, <3>1, MarkGrows DEF Marks
      <3>3. /\ queue'[i] = [queue[i] EXCEPT ![1].msgs = @ \ {x}]
            /\ \A j \in Instances : j # i => queue'[j] = queue[j]
        BY <1>0, <3>1 DEF ChatTypes
      <3>4. x \in Messages
        BY <2>2 DEF Batches
      <3>5. (\A j \in Instances : RowsRead(j)) /\ (~FromMe(i, x) /\ Unpassed(i, x)' => Seems(i, x)')
        <4>1. CASE (Mark(i, {x}, "skipped") \/ Mark(i, {x}, "passed")) /\ UNCHANGED row
          <5>1. ~Unpassed(i, x)'
            <6>1. "skipped" \in Marks /\ "passed" \in Marks
              BY DEF Marks
            <6>2. Mark(i, {x}, "skipped") => "skipped" \in marks'[i][x]
              BY <1>0, <3>4, <6>1, Marked
            <6>3. Mark(i, {x}, "passed") => "passed" \in marks'[i][x]
              BY <1>0, <3>4, <6>1, Marked
            <6>. QED BY <4>1, <6>2, <6>3 DEF Unpassed
          <5>. QED BY <1>w, <4>1, <5>1
        <4>2. CASE Stored(i, x) /\ (FromMe(i, x) \/ row[i][x].status = "READ") /\ UNCHANGED <<row, marks>>
          BY <1>w, <4>2 DEF Stored, Seems
        <4>3. CASE /\ Stored(i, x) /\ ~FromMe(i, x)
                   /\ row' = [row EXCEPT ![i] = [k \in Messages |->
                            IF k = x \/ (Unread(i, k) /\ phone[k].time <= phone[x].time)
                            THEN [row[i][k] EXCEPT !.status = "READ"] ELSE row[i][k]]]
          <5>. DEFINE f == [k \in Messages |-> IF k = x \/ (Unread(i, k) /\ phone[k].time <= phone[x].time)
                                               THEN [row[i][k] EXCEPT !.status = "READ"] ELSE row[i][k]]
          <5>1. ASSUME NEW k \in Messages
                PROVE  IF k = x \/ (Unread(i, k) /\ phone[k].time <= phone[x].time)
                       THEN f[k].copies = row[i][k].copies /\ f[k].status = "READ" ELSE f[k] = row[i][k]
            <6>1. row[i][k] \in Copies
              BY <1>0 DEF ChatTypes
            <6>. QED BY <6>1 DEF Copies
          <5>2. row' = [row EXCEPT ![i] = f]
            BY <4>3
          <5>. HIDE DEF f
          <5>3. row'[i] = f /\ \A j \in Instances : j # i => row'[j] = row[j]
            BY <1>0, <5>2 DEF ChatTypes
          <5>4. x \in seen[i]
            <6>1. BatchOK(i, 1)
              BY <1>0, <2>2 DEF Seen, SeenOK
            <6>. QED BY <2>2, <3>1, <4>3, <6>1 DEF BatchOK
          <5>5. phone[x].time \in Nat
            BY <1>0, <3>4 DEF ChatTypes, Phones, Chatting
          <5>6. \A k \in Messages : k = x \/ phone[k].time <= phone[x].time => Late(i, k)'
            BY <2>1, <3>4, <5>4, <5>5 DEF Late
          <5>7. ASSUME NEW k \in Messages PROVE RowReads(i, k) /\ row'[i][k].copies = row[i][k].copies
            <6>1. CASE k = x \/ (Unread(i, k) /\ phone[k].time <= phone[x].time)
              <7>1. Late(i, k)' /\ row'[i][k].copies = row[i][k].copies /\ row'[i][k].status = "READ"
                BY <5>1, <5>3, <5>6, <6>1
              <7>. QED BY <7>1 DEF RowReads
            <6>2. CASE ~(k = x \/ (Unread(i, k) /\ phone[k].time <= phone[x].time))
              <7>1. row'[i][k] = row[i][k]
                BY <5>1, <5>3, <6>2
              <7>. QED BY <1>r, <7>1
            <6>. QED BY <6>1, <6>2
          <5>8. \A j \in Instances : RowsRead(j)
            BY <1>w, <5>3, <5>7 DEF RowsRead
          <5>9. Seems(i, x)'
            BY <3>4, <4>3, <5>1, <5>3 DEF Seems, Stored
          <5>. QED BY <5>8, <5>9
        <4>. QED BY <3>1, <4>1, <4>2, <4>3
      <3>6. PhonesStay /\ \A j \in Instances : Framed(j) /\ seen'[j] = seen[j] /\ at'[j] = at[j]
        BY <1>f, <1>p, <2>1, <3>1, <3>2
      <3>7. \A j \in Instances : j # i => Seen(j)'
        BY <1>s, <3>3, <3>5, <3>6
      <3>8. Seen(i)'
        <4>1. queue[i][1].type # "upsert"
          BY <2>2
        <4>. QED BY <1>0, <2>2, <3>3, <3>5, <3>6, <4>1, ShrunkSeen
      <3>. QED BY <3>7, <3>8
    <2>. QED BY <2>3, <2>4
  <1>19. ASSUME NEW i \in Instances, ReceiptUpdate(i) PROVE Goal
    <2>1. UNCHANGED <<group, ignores, phone, seen, marks>> /\ Busy(i, {"receipt"}) /\ Done(i) /\ MarksRead(i, Head1(i).x)
      BY <1>19 DEF ReceiptUpdate
    <2>2. queue[i] # <<>> /\ queue[i][1].type = "receipt" /\ Head1(i) = queue[i][1] /\ 1 \in 1..Len(queue[i])
      BY <1>0, <2>1, HeadTyped DEF Busy
    <2>3. group
      BY <1>0, <2>2 DEF Seen, SeenOK, BatchOK
    <2>4. \A m \in Messages : Late(i, m)'
      BY <2>1, <2>3 DEF Late
    <2>5. /\ \A j \in Instances : RowsRead(j)
          /\ \A m \in Messages : Stored(i, m) /\ ~FromMe(i, m) /\ phone[m].time <= Head1(i).x => Seems(i, m)'
      BY <1>0, <2>1, <2>4, ReadingReads
    <2>6. ASSUME NEW m \in Messages, m \in seen[i], ~FromMe(i, m), ~Ignored(i), Unpassed(i, m)'
          PROVE  DueStays(i, m, 1) \/ Seems(i, m)'
      <3>1. CASE ~ReceiptDue(i, m, 1)
        <4>1. ~ReadDue(i, m, 1) /\ queue[i][1].type # "upsert"
          BY <2>2 DEF ReadDue
        <4>. QED BY <1>h, <2>1, <2>2, <3>1, <4>1
      <3>2. CASE ReceiptDue(i, m, 1)
        <4>1. \A n, k \in Nat : ~Comes(i, n, k, m)
          <5>1. \A n, k \in Nat : Comes(i, n, k, m) => n < 1 /\ n # 0
            BY <3>2 DEF ReceiptDue, Comes
          <5>. QED BY <5>1
        <4>2. ~Comings(i, m) /\ "cut" \notin marks[i][m]
          BY <2>1, <2>6, <4>1 DEF Comings, Unpassed
        <4>3. Stored(i, m)
          BY <1>0, <2>6, <4>2, StoredNow DEF Seen
        <4>. QED BY <2>2, <2>5, <2>6, <3>2, <4>3 DEF ReceiptDue
      <3>. QED BY <3>1, <3>2
    <2>. QED BY <1>d, <1>u, <2>1, <2>2, <2>5, <2>6
  <1>20. ASSUME NEW i \in Instances, History(i) PROVE Goal
    <2>. DEFINE ids == IF known[i] = {Nobody} THEN {m \in Messages : Stored(i, m)} ELSE known[i]
                new == {m \in Head1(i).msgs : m \notin ids}
                f == [m \in Messages |->
                       IF m \notin new THEN row[i][m]
                       ELSE IF Stored(i, m) THEN [row[i][m] EXCEPT !.copies = row[i][m].copies + 1]
                       ELSE Prepared(i, m, 1, phone[m].text)]
                g == [m \in Messages |->
                       marks[i][m] \cup (IF m \in new /\ (Stored(i, m) \/ call[i] = [op |-> "send", m |-> m])
                                           THEN {"stale"} ELSE {})
                                   \cup (IF m \in new /\ ~Stored(i, m) THEN {"passed"} ELSE {})]
    <2>1. UNCHANGED <<group, ignores, phone, seen>> /\ Busy(i, {"history"}) /\ Done(i)
      BY <1>20 DEF History
    <2>2. row' = [row EXCEPT ![i] = f]
      BY <1>20, Zenon DEF History
    <2>3. marks' = [marks EXCEPT ![i] = g]
      BY <1>20, Zenon DEF History
    <2>4. queue[i] # <<>> /\ queue[i][1].type = "history" /\ Head1(i) = queue[i][1] /\ 1 \in 1..Len(queue[i])
      BY <1>0, <2>1, HeadTyped DEF Busy
    <2>5. \A m \in Messages : m \in new => Exists(m)
      <3>1. \A m \in Messages : m \in new => Updates(i, 1, m)
        BY <2>4 DEF Updates, Holds
      <3>. QED BY <1>0, <3>1 DEF Kept, InChat
    <2>. HIDE DEF new
    <2>6. ASSUME NEW m \in Messages
          PROVE  \/ f[m] = row[i][m]
                 \/ /\ m \in new /\ row[i][m].copies > 0 /\ f[m].copies > 0
                    /\ f[m].status = row[i][m].status
                 \/ m \in new /\ row[i][m].copies = 0 /\ f[m] = Prepared(i, m, 1, phone[m].text) /\ "passed" \in g[m]
      <3>1. row[i][m] \in Copies /\ row[i][m].copies \in Nat
        BY <1>0 DEF ChatTypes, Copies
      <3>2. CASE m \notin new
        BY <3>2
      <3>3. CASE m \in new /\ Stored(i, m)
        <4>1. f[m] = [row[i][m] EXCEPT !.copies = row[i][m].copies + 1]
          BY <3>3
        <4>2. row[i][m].copies + 1 > 0
          BY <3>1
        <4>. HIDE DEF f
        <4>. QED BY <3>1, <3>3, <4>1, <4>2 DEF Copies, Stored
      <3>4. CASE m \in new /\ ~Stored(i, m)
        <4>1. f[m] = Prepared(i, m, 1, phone[m].text) /\ "passed" \in g[m]
          BY <3>4
        <4>2. row[i][m].copies = 0
          BY <3>1, <3>4 DEF Stored
        <4>. HIDE DEF f, g
        <4>. QED BY <3>4, <4>1, <4>2
      <3>. QED BY <3>2, <3>3, <3>4
    <2>7. \A m \in Messages : marks[i][m] \subseteq g[m]
      OBVIOUS
    <2>. HIDE DEF f, g
    <2>8. row'[i] = f /\ \A j \in Instances : j # i => row'[j] = row[j]
      BY <1>0, <2>2 DEF ChatTypes
    <2>9. marks'[i] = g /\ \A j \in Instances : j # i => marks'[j] = marks[j]
      BY <1>0, <2>3 DEF ChatTypes
    <2>10. MarksGrow
      BY <2>7, <2>9 DEF MarksGrow
    <2>11. ASSUME NEW m \in Messages
           PROVE  IF Exists(m) THEN RowReads(i, m) ELSE row'[i][m].copies = row[i][m].copies
      <3>1. CASE row'[i][m] = row[i][m]
        BY <1>r, <3>1
      <3>2. CASE /\ m \in new /\ row[i][m].copies > 0 /\ row'[i][m].copies > 0
                 /\ row'[i][m].status = row[i][m].status
        BY <2>5, <3>2 DEF RowReads
      <3>3. CASE m \in new /\ row[i][m].copies = 0 /\ row'[i][m] = Prepared(i, m, 1, phone[m].text)
                 /\ "passed" \in marks'[i][m]
        BY <2>5, <3>3 DEF RowReads, Prepared
      <3>. QED BY <2>6, <2>8, <2>9, <3>1, <3>2, <3>3
    <2>12. \A j \in Instances : RowsRead(j)
      BY <1>w, <2>8, <2>11 DEF RowsRead
    <2>13. \A m \in Messages : DueStays(i, m, 1)
      BY <1>h, <2>1, <2>4 DEF ReceiptDue, ReadDue
    <2>. QED BY <1>d, <2>1, <2>4, <2>10, <2>12, <2>13
  <1>21. ASSUME NEW i \in Instances, SendStore(i) PROVE Goal
    <2>1. /\ UNCHANGED <<group, ignores, phone, seen, queue, at, marks>> /\ call[i].op = "send"
          /\ row' = [row EXCEPT ![i][call[i].m] = Prepared(i, call[i].m, row[i][call[i].m].copies + 1, 0)]
      BY <1>21 DEF SendStore
    <2>2. PICK x \in Messages : x = call[i].m
      BY <1>0, <2>1 DEF ChatTypes, Asks, NoCall
    <2>3. \A j \in Instances, m \in Messages : j # i \/ m # x => row'[j][m] = row[j][m]
      BY <1>0, <2>1, <2>2 DEF ChatTypes
    <2>4. FromMe(i, x) /\ Exists(x)
      <3>1. call[i] # NoCall
        BY <2>1 DEF NoCall
      <3>. QED BY <1>0, <2>2, <3>1 DEF Kept, RequestOK
    <2>5. \A j \in Instances : RowsRead(j)
      BY <1>r, <2>3, <2>4 DEF RowsRead, RowReads
    <2>. QED BY <1>e, <1>u, <2>1, <2>5
  <1>22. ASSUME NEW i \in Instances, SendTell(i) PROVE Goal
    BY <1>22, <1>e, <1>u, <1>w DEF SendTell
  <1>23. ASSUME NEW i \in Instances, SendFails(i) PROVE Goal
    <2>1. /\ UNCHANGED <<group, ignores, phone, seen, queue, at, row>> /\ Mark(i, {call[i].m}, "cut")
      BY <1>23 DEF SendFails
    <2>2. MarksGrow
      BY <1>0, <2>1, MarkGrows DEF Marks
    <2>. QED BY <1>e, <1>w, <2>1, <2>2
  <1>24. ASSUME NEW i \in Instances, NEW x \in Messages, x = call[i].m, NEW s \in {"EDITED", "DELETED"}, NEW t \in Nat,
                Changed(i, s, t), UNCHANGED <<group, ignores, phone, seen, queue, at>>
         PROVE  Goal
    <2>1. CASE Mark(i, {x}, "crossed") /\ UNCHANGED row
      <3>1. MarksGrow
        BY <1>0, <2>1, MarkGrows DEF Marks
      <3>. QED BY <1>24, <1>e, <1>w, <2>1, <3>1
    <2>2. ASSUME NEW j \in Instances, Stored(j, x),
                 row' = [row EXCEPT ![j][x].status = s, ![j][x].text = t],
                 marks' = [k \in Instances |-> [marks[k] EXCEPT ![x] =
                            @ \cup (IF k \in {i, j} /\ (j # i \/ Pending(i, x)) THEN {"crossed"} ELSE {})]]
          PROVE  Goal
      <3>1. \A k \in Instances, m \in Messages : marks[k][m] \subseteq marks'[k][m]
        BY <1>0, <2>2 DEF ChatTypes
      <3>2. MarksGrow
        BY <3>1 DEF MarksGrow
      <3>3. /\ row'[j][x].copies = row[j][x].copies /\ row'[j][x].status = s
            /\ \A k \in Instances, m \in Messages : k # j \/ m # x => row'[k][m] = row[k][m]
        <4>1. row[j][x] \in Copies
          BY <1>0 DEF ChatTypes
        <4>. DEFINE c == [row[j][x] EXCEPT !.status = s]
                    r == [row EXCEPT ![j][x] = c]
        <4>2. c \in [copies : Nat, status : {"EDITED", "DELETED"}, text : Nat]
              /\ c.copies = row[j][x].copies /\ c.status = s
          BY <4>1 DEF Copies
        <4>. HIDE DEF c
        <4>3. r[j][x] = c /\ DOMAIN r = Instances /\ (\A k \in Instances : DOMAIN r[k] = Messages)
              /\ \A k \in Instances, m \in Messages : k # j \/ m # x => r[k][m] = row[k][m]
          BY <1>0 DEF ChatTypes
        <4>4. row' = [r EXCEPT ![j][x] = [r[j][x] EXCEPT !.text = t]]
          BY <2>2 DEF c
        <4>. HIDE DEF r
        <4>5. row'[j][x] = [c EXCEPT !.text = t]
              /\ \A k \in Instances, m \in Messages : k # j \/ m # x => row'[k][m] = r[k][m]
          BY <4>3, <4>4
        <4>. QED BY <4>2, <4>3, <4>5
      <3>4. RowReads(j, x)
        BY <3>3 DEF RowReads
      <3>5. \A k \in Instances : RowsRead(k)
        BY <1>r, <3>3, <3>4 DEF RowsRead
      <3>. QED BY <1>24, <1>e, <3>2, <3>5
    <2>. QED BY <1>24, <2>1, <2>2 DEF Changed
  <1>25. ASSUME NEW i \in Instances, ApiEditRow(i) PROVE Goal
    <2>1. call[i].m \in Messages /\ phone[call[i].m].text \in Nat
      BY <1>0, <1>25 DEF ApiEditRow, ChatTypes, Asks, NoCall, Phones
    <2>. QED BY <1>24, <1>25, <2>1 DEF ApiEditRow
  <1>26. ASSUME NEW i \in Instances, ApiDeleteRow(i) PROVE Goal
    <2>1. call[i].m \in Messages /\ row[i][call[i].m].text \in Nat
      BY <1>0, <1>26 DEF ApiDeleteRow, ChatTypes, Asks, NoCall, Copies
    <2>. QED BY <1>24, <1>26, <2>1 DEF ApiDeleteRow
  <1>27. ASSUME Expires PROVE Goal
    BY <1>27, <1>e, <1>u, <1>w DEF Expires
  <1>28. ASSUME Restart PROVE Goal
    <2>1. UNCHANGED <<group, ignores, phone, seen, row>> /\ \A i \in Instances : queue'[i] = <<>>
      BY <1>28 DEF Restart
    <2>2. \A i \in Instances, m \in Messages :
            marks[i][m] \subseteq marks'[i][m] /\ (m \in seen[i] => "cut" \in marks'[i][m])
      BY <1>28 DEF Restart
    <2>3. MarksGrow /\ GroupStays
      BY <1>n, <2>1, <2>2 DEF MarksGrow
    <2>4. ASSUME NEW i \in Instances PROVE Seen(i)'
      <3>1. queue'[i] = <<>> /\ seen'[i] = seen[i] /\ row'[i] = row[i] /\ phone' = phone
        BY <2>1
      <3>2. \A m \in Messages : m \in seen[i] => "cut" \in marks'[i][m]
        BY <2>2
      <3>. QED BY <1>0, <2>3, <3>1, <3>2, LostSeen
    <2>. QED BY <2>4
  <1>. QED BY <1>2, <1>3, <1>4, <1>6, <1>7, <1>8, <1>9, <1>11, <1>12, <1>13, <1>14,
              <1>15, <1>16, <1>17, <1>18,
              <1>19, <1>20, <1>21, <1>22, <1>23, <1>25, <1>26, <1>27, <1>28 DEF Next

(* It holds at the start.                                                   *)
LEMMA ReadInit == ASSUME Chatting, Init PROVE ReadInv
PROOF
  <1>. SUFFICES ASSUME NEW i \in Instances PROVE Seen(i)
    BY KeptInit DEF ReadInv
  <1>1. seen[i] = {} /\ queue[i] = <<>> /\ Len(queue[i]) = 0 /\ \A m \in Messages : row[i][m] = NoRow
    BY EmptySeq DEF Init
  <1>2. SeenOK(i)
    BY <1>1 DEF SeenOK, Comes
  <1>3. \A m \in Messages : ReadFine(i, m)
    BY <1>1 DEF ReadFine, NoRow
  <1>. QED BY <1>2, <1>3 DEF Seen

(* With an empty queue nothing is due any more.                             *)
LEMMA ReadEntails == ASSUME ReadInv PROVE ReadIsRead
PROOF
  <1>. SUFFICES ASSUME NEW i \in Instances, NEW m \in Chat(i), Stored(i, m), ~FromMe(i, m)
                PROVE  /\ AtRest(i) /\ m \in seen[i] /\ ~Except(i, m, {"cut", "skipped", "passed"}) =>
                            row[i][m].status # "DELIVERY_ACK"
                       /\ row[i][m].status = "READ" =>
                            group \/ \E k \in seen[i] : phone[k].time >= phone[m].time
    BY DEF ReadIsRead
  <1>1. m \in Messages /\ ReadFine(i, m)
    BY DEF Chat, ReadInv, Seen
  <1>2. row[i][m].status = "READ" => group \/ \E k \in seen[i] : phone[k].time >= phone[m].time
    BY <1>1 DEF ReadFine, Stored, Late
  <1>3. ASSUME AtRest(i), m \in seen[i], ~Except(i, m, {"cut", "skipped", "passed"})
        PROVE  row[i][m].status # "DELIVERY_ACK"
    <2>1. Unpassed(i, m) /\ "passed" \notin marks[i][m]
      BY <1>3 DEF Except, Unpassed
    <2>2. Len(queue[i]) = 0
      BY <1>3, EmptySeq DEF AtRest
    <2>3. ~Due(i, m)
      BY <2>2 DEF Due, ReceiptDue, ReadDue, AnswerDue, Comes
    <2>. QED BY <1>1, <1>3, <2>1, <2>3 DEF ReadFine, Stored, Seems
  <1>. QED BY <1>2, <1>3

(* What the owner has read or answered is READ when nothing is under way,   *)
(* and only what was read is, save where the property excepts it: for any   *)
(* instances, messages and bounds.                                          *)
THEOREM ReadStaysRead == MCSpec => []ReadIsRead
PROOF
  <1>0. Chatting
    BY MessagesAssumption DEF Chatting
  <1>1. MCInit => ReadInv
    BY <1>0, ReadInit DEF MCInit
  <1>2. ReadInv /\ [MCNext]_<<scene, vars, cvars, svars, dvars, avars, evars>> => ReadInv'
    <2>1. [MCNext]_<<scene, vars, cvars, svars, dvars, avars, evars>> => Next \/ UNCHANGED vars
      BY DEF MCNext
    <2>2. ASSUME ReadInv, UNCHANGED vars PROVE ReadInv'
      <3>1. UNCHANGED <<group, ignores, phone, seen, queue, at, row, marks>>
        BY <2>2 DEF vars, whatsapp, table
      <3>2. KeptInv'
        BY <2>2, KeptStutters DEF ReadInv
      <3>3. \A j \in Instances : Seen(j)'
        <4>. SUFFICES ASSUME NEW j \in Instances PROVE Seen(j)'
          OBVIOUS
        <4>1. ChatTypes /\ ChatTypes' /\ Kept(j) /\ Kept(j)' /\ Seen(j)
          BY <2>2, <3>2 DEF ReadInv, KeptInv
        <4>2. Framed(j) /\ RowsRead(j)
          BY <3>1 DEF Framed, TimesStay, GroupStays, MarksGrow, RowsRead, RowReads
        <4>. QED BY <3>1, <4>1, <4>2, StillSeen
      <3>. QED BY <3>2, <3>3 DEF ReadInv
    <2>. QED BY <1>0, <2>1, <2>2, ReadStep
  <1>3. ReadInv => ReadIsRead
    BY ReadEntails
  <1>. QED BY <1>1, <1>2, <1>3, PTL DEF MCSpec

=============================================================================
