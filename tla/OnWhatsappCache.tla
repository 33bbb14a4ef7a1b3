---------------------------- MODULE OnWhatsappCache ----------------------------
(***************************************************************************)
(* The table that remembers which addresses are one account on WhatsApp    *)
(* (onWhatsappCache.ts) and the lookup before every message that is sent   *)
(* (whatsappNumber of the Baileys service).  A phone number is written     *)
(* with or without an extra digit, in Brazil, Mexico and Argentina; an     *)
(* account also has a LID.  Saving is a look and a write with an await     *)
(* between them, for all contacts of an event at once.                     *)
(***************************************************************************)
EXTENDS Integers, FiniteSets

CONSTANTS
  Numbers,          \* phone numbers, whatever their form
  Calls,            \* saves and lookups in progress
  MaxRows,          \* bound: rows
  MaxCalls,         \* bound: calls begun
  None

VARIABLES
  registered,       \* the form in which a number is on WhatsApp, or None
  within,           \* pairs of addresses, the text of the first part of the second's
  rows,
  calls,
  begun,
  linked,           \* numbers whose LID was saved with them
  marks             \* per number, what the properties except

vars == <<registered, within, rows, calls, begun, linked, marks>>

-----------------------------------------------------------------------------
Forms == {"with", "without"}
Jids == [number : Numbers, form : Forms \cup {"lid"}]
Jid(n, f) == [number |-> n, form |-> f]
Phone(n) == Jid(n, registered[n])
Lid(n) == Jid(n, "lid")
Ids == 1..MaxRows

\* getAvailableNumbers.
Expand(j) == IF j.form = "lid" THEN {j} ELSE {Jid(j.number, f) : f \in Forms}

\* LIKE '%jid%' on the options, which are one text.
Contains(options, j) == j \in options \/ \E o \in options : <<j, o>> \in within

NoRow == [jid |-> None, options |-> {}, lid |-> FALSE, fresh |-> FALSE]
Row(id) == rows[id] # NoRow
NoCall == [pc |-> "none", jid |-> None, alt |-> None, lid |-> FALSE, found |-> 0,
           options |-> {}, same |-> FALSE, asked |-> None, answer |-> None, met |-> FALSE]

TypeOK ==
  /\ registered \in [Numbers -> Forms \cup {None}]
  /\ within \subseteq Jids \X Jids
  /\ rows \in [Ids -> [jid : Jids \cup {None}, options : SUBSET Jids, lid : BOOLEAN, fresh : BOOLEAN]]
  /\ calls \in [Calls -> [pc : {"none", "find", "write", "look", "verify", "answered"},
                          jid : Jids \cup {None}, alt : Jids \cup {None}, lid : BOOLEAN,
                          found : 0..MaxRows, options : SUBSET Jids, same : BOOLEAN,
                          asked : Jids \cup {None}, answer : Jids \cup {None}, met : BOOLEAN]]
  /\ begun \in 0..MaxCalls
  /\ linked \subseteq Numbers
  /\ marks \in [Numbers -> SUBSET {"met", "split"}]

\* One LID may be part of another.
Init ==
  /\ registered \in [Numbers -> Forms \cup {None}]
  /\ within \in {{}} \cup {{<<Lid(p[1]), Lid(p[2])>>} : p \in {q \in Numbers \X Numbers : q[1] # q[2]}}
  /\ rows = [id \in Ids |-> NoRow]
  /\ calls = [c \in Calls |-> NoCall]
  /\ begun = 0
  /\ linked = {}
  /\ marks = [n \in Numbers |-> {}]

-----------------------------------------------------------------------------
Begin(c, call) ==
  LET others == {d \in Calls : calls[d] # NoCall} IN
  /\ begun < MaxCalls /\ begun' = begun + 1
  /\ calls[c] = NoCall
  /\ calls' = [d \in Calls |->
       IF d = c THEN [call EXCEPT !.met = others # {}]
       ELSE IF d \in others THEN [calls[d] EXCEPT !.met = TRUE] ELSE calls[d]]

Saving(j, alt, lid) == [NoCall EXCEPT !.pc = "find", !.jid = j, !.alt = alt, !.lid = lid]

\* contacts.upsert and findParticipants save the phones.
SaveContact(c, n) ==
  /\ registered[n] # None
  /\ Begin(c, Saving(Phone(n), None, FALSE))
  /\ UNCHANGED <<registered, within, rows, linked, marks>>

\* A message brings the phone with its LID, or, when it was addressed to the
\* LID, the phone twice.
SaveMessage(c, n, addressed) ==
  /\ registered[n] # None
  /\ Begin(c, IF addressed = "lid" THEN Saving(Phone(n), Phone(n), TRUE)
              ELSE Saving(Phone(n), Lid(n), FALSE))
  /\ UNCHANGED <<registered, within, rows, linked, marks>>

LidAlt(call) == IF call.alt # None /\ call.alt.form = "lid" THEN {call.alt} ELSE {}
Addresses(call) == UNION {Expand(j) : j \in {call.jid} \cup LidAlt(call)}

Matches(id, call) ==
  /\ Row(id)
  /\ \/ \E j \in Addresses(call) : Contains(rows[id].options, j)
     \/ rows[id].jid = call.jid

\* Mutant: the options found are replaced.
FindAndReplace(c) ==
  LET call == calls[c]
      matching == {id \in Ids : Matches(id, call)} IN
  /\ call.pc = "find"
  /\ \E id \in (IF matching = {} THEN {0} ELSE matching) :
       calls' = [calls EXCEPT ![c].pc = "write", ![c].found = id,
                   ![c].options = Addresses(call), ![c].same = FALSE]
  /\ UNCHANGED <<registered, within, rows, begun, linked, marks>>

\* findFirst in no order.
Find(c) ==
  LET call == calls[c]
      matching == {id \in Ids : Matches(id, call)} IN
  /\ call.pc = "find"
  /\ \E id \in (IF matching = {} THEN {0} ELSE matching) :
       calls' = [calls EXCEPT ![c].pc = "write", ![c].found = id,
                   ![c].options = Addresses(call) \cup (IF id = 0 THEN {} ELSE rows[id].options),
                   ![c].same = /\ id # 0
                               /\ rows[id].jid = call.jid /\ rows[id].lid = call.lid
                               /\ Addresses(call) \subseteq rows[id].options]
  /\ UNCHANGED <<registered, within, rows, begun, linked, marks>>

Of(n) == {id \in Ids : Row(id) /\ \E j \in rows[id].options : j.number = n}

\* What is the same is not written, nor made fresh.  UNIQUE(remoteJid) refuses
\* a second row of an address; the error is logged.
Write(c) ==
  LET call == calls[c]
      n == call.jid.number
      id == IF call.found # 0 THEN call.found
            ELSE CHOOSE i \in Ids : ~Row(i) /\ \A k \in Ids : k < i => Row(k)
      taken == \E k \in Ids \ {call.found} : rows[k].jid = call.jid
      record == [jid |-> call.jid, options |-> call.options, lid |-> call.lid, fresh |-> TRUE] IN
  /\ call.pc = "write"
  /\ call.found = 0 => \E i \in Ids : ~Row(i)
  /\ IF call.same \/ taken THEN UNCHANGED rows ELSE rows' = [rows EXCEPT ![id] = record]
  /\ linked' = IF LidAlt(call) # {} THEN linked \cup {n} ELSE linked
  /\ marks' = [marks EXCEPT ![n] = @ \cup (IF call.met THEN {"met"} ELSE {})
                                      \cup (IF Cardinality(Of(n)) > 1 THEN {"split"} ELSE {})]
  /\ calls' = [calls EXCEPT ![c] = NoCall]
  /\ UNCHANGED <<registered, within, begun>>

-----------------------------------------------------------------------------
(* whatsappNumber, for one number.                                          *)

Ask(c, j) ==
  /\ Begin(c, [NoCall EXCEPT !.pc = "look", !.asked = j])
  /\ UNCHANGED <<registered, within, rows, linked, marks>>

\* getOnWhatsappCache.
Cached(j) == {id \in Ids : Row(id) /\ rows[id].fresh
                           /\ \E k \in Expand(j) : Contains(rows[id].options, k)}

\* Of what the query returns only a row that holds the address itself counts.
\* A LID that is not cached is taken to exist.
Look(c) ==
  LET j == calls[c].asked
      hits == {id \in Cached(j) : j \in rows[id].options} IN
  /\ calls[c].pc = "look"
  /\ \/ \E id \in hits :
          calls' = [calls EXCEPT ![c].pc = "answered", ![c].answer = rows[id].jid]
     \/ /\ hits = {} /\ j.form = "lid"
        /\ calls' = [calls EXCEPT ![c].pc = "find", ![c].answer = j, ![c].jid = j, ![c].lid = TRUE]
     \/ /\ hits = {} /\ j.form # "lid"
        /\ calls' = [calls EXCEPT ![c].pc = "verify"]
  /\ UNCHANGED <<registered, within, rows, begun, linked, marks>>

\* onWhatsApp answers with the registered form; nobody there is an error to
\* the caller and is not saved.
Verify(c) ==
  LET n == calls[c].asked.number IN
  /\ calls[c].pc = "verify"
  /\ calls' = [calls EXCEPT ![c] =
       IF registered[n] = None THEN [@ EXCEPT !.pc = "answered"]
       ELSE [@ EXCEPT !.pc = "find", !.answer = Phone(n), !.jid = Phone(n)]]
  /\ UNCHANGED <<registered, within, rows, begun, linked, marks>>

Return(c) ==
  /\ calls[c].pc = "answered"
  /\ calls' = [calls EXCEPT ![c] = NoCall]
  /\ UNCHANGED <<registered, within, rows, begun, linked, marks>>

\* IS_ON_WHATSAPP_DAYS pass.
Age ==
  /\ \E id \in Ids : rows[id].fresh
  /\ rows' = [id \in Ids |-> [rows[id] EXCEPT !.fresh = FALSE]]
  /\ UNCHANGED <<registered, within, calls, begun, linked, marks>>

Next ==
  \/ \E c \in Calls :
       \/ \E n \in Numbers :
            \/ SaveContact(c, n)
            \/ \E addressed \in {"pn", "lid"} : SaveMessage(c, n, addressed)
       \/ Find(c) \/ Write(c)
       \/ \E j \in Jids : Ask(c, j)
       \/ Look(c) \/ Verify(c) \/ Return(c)
  \/ Age

Spec == Init /\ [][Next]_vars

-----------------------------------------------------------------------------
(* A lookup answers with an address of the account that was asked for, a    *)
(* phone only in the form that is registered, and a LID that was once saved *)
(* with its phone stays in one row with it.  Except: LIDs that are part of  *)
(* another, for which rows of two accounts become one; saves that met; and  *)
(* numbers whose phone and LID were saved apart before, in two rows.        *)
OneAccount ==
  within = {} =>
    /\ \A c \in Calls : calls[c].answer # None =>
         calls[c].answer \in {Phone(calls[c].asked.number), Lid(calls[c].asked.number)}
    /\ \A n \in linked : marks[n] = {} =>
         \E id \in Ids : {Phone(n), Lid(n)} \subseteq rows[id].options
=============================================================================
