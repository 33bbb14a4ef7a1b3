---------------------------- MODULE ChatbotProofs ----------------------------
(***************************************************************************)
(* Proofs about ChatbotSession, for any integrations, messages, settings   *)
(* and bounds: types, ServedOnce, DebounceArmed and QuietStaysQuiet.       *)
(*                                                                         *)
(* ServedOnce is not inductive: a message is on its way through one        *)
(* integration in exactly one place, and the invariant says which.         *)
(***************************************************************************)
EXTENDS ChatbotSession, TLAPS, FiniteSetTheorems, SequenceTheorems, WellFoundedInduction

Reads == [row : 0..MaxSessions, by : Integrations \cup {None}, status : Statuses \cup {"none"}]
Emits == [pc : PCs, session : Reads, fresh : BOOLEAN, batch : Seq(Inputs)]
Session == [inst : Instances, by : Integrations, status : Statuses] \cup {NoRow}
Table == [Rows -> Session]

\* Only rows that were created are there, and only they are read.
Rowed == /\ sessions \in Table
         /\ created \in 0..MaxSessions
         /\ \A r \in Rows : r > created => sessions[r] = NoRow

Emitted == /\ emits \in [Integrations -> [Inputs -> Emits]]
           /\ \A i \in Integrations, m \in Inputs : emits[i][m].session.row <= created

\* Calls of startBot never are in the stages that messages begin with.
Queued == \A i \in Integrations, m \in Inputs :
            emits[i][m].pc \in {"lookup", "route"} => m \in Messages

Counted == /\ settings \in Configurations
           /\ buffer \in [Integrations -> Seq(Messages)]
           /\ timers \in [Integrations -> SUBSET Messages]
           /\ served \in [Integrations -> [Inputs -> Nat]]
           /\ strays \cup quiet \subseteq Messages
           /\ commands \in 0..MaxCommands /\ faults \in 0..MaxFaults

Types == Rowed /\ Emitted /\ Queued /\ Counted

\* The stages before a text is held back or processed, and those in which it
\* may still be handed over.
Ahead == {"off", "lookup", "route"}
Live == {"process", "create", "opening", "thread", "send"}

Distinct(s) == \A j, k \in DOMAIN s : s[j] = s[k] => j = k
CountIn(s, n) == Cardinality({k \in DOMAIN s : s[k] = n})

\* Where the messages of one integration are, given its emits E, the text B
\* held back, and how often S each was served: ahead, held back, in the batch of one
\* live emit, or served or lost.
Placed(E, B, S) ==
  /\ Distinct(B)
  /\ \A n \in MessagesIn(B) : S[n] = 0 /\ E[n].pc \notin Ahead
  /\ \A m \in Inputs : E[m].pc \in Ahead => S[m] = 0
  /\ \A m \in Inputs : E[m].pc \in Live =>
       /\ Distinct(E[m].batch)
       /\ MessagesIn(E[m].batch) \subseteq Messages \cup {m}
       /\ \A n \in MessagesIn(E[m].batch) :
            S[n] = 0 /\ E[n].pc \notin Ahead /\ n \notin MessagesIn(B)
  /\ \A m, k \in Inputs : m # k /\ E[m].pc \in Live /\ E[k].pc \in Live =>
       MessagesIn(E[m].batch) \cap MessagesIn(E[k].batch) = {}
  /\ \A m \in Inputs : S[m] <= 1

AllPlaced == \A i \in Integrations : Placed(emits[i], buffer[i], served[i])

IInv == Types /\ AllPlaced /\ DebounceArmed

-----------------------------------------------------------------------------
(* Sequences and rows.                                                      *)

(* What the text held back becomes with one more message.                   *)
LEMMA AppendFacts ==
  ASSUME NEW s \in Seq(Inputs), NEW m \in Inputs
  PROVE  /\ MessagesIn(Append(s, m)) = MessagesIn(s) \cup {m}
         /\ Distinct(s) /\ m \notin MessagesIn(s) => Distinct(Append(s, m))
PROOF
  <1>1. /\ Append(s, m) \in Seq(Inputs)
        /\ DOMAIN Append(s, m) = 1..(Len(s) + 1) /\ DOMAIN s = 1..Len(s) /\ Len(s) \in Nat
        /\ Append(s, m)[Len(s) + 1] = m
        /\ \A k \in 1..Len(s) : Append(s, m)[k] = s[k]
    OBVIOUS
  <1>2. MessagesIn(Append(s, m)) \subseteq MessagesIn(s) \cup {m}
    BY <1>1 DEF MessagesIn
  <1>3. \A n \in MessagesIn(s) : n \in MessagesIn(Append(s, m))
    BY <1>1 DEF MessagesIn
  <1>4. m \in MessagesIn(Append(s, m))
    BY <1>1 DEF MessagesIn
  <1>5. Distinct(s) /\ m \notin MessagesIn(s) => Distinct(Append(s, m))
    BY <1>1 DEF Distinct, MessagesIn
  <1>. QED BY <1>2, <1>3, <1>4, <1>5

(* Nothing is in the empty text, and one message in that of one message.    *)
LEMMA ShortFacts ==
  ASSUME NEW m \in Inputs
  PROVE  /\ <<>> \in Seq(Messages) /\ <<>> \in Seq(Inputs) /\ <<m>> \in Seq(Inputs)
         /\ MessagesIn(<<>>) = {} /\ Distinct(<<>>)
         /\ MessagesIn(<<m>>) = {m} /\ Distinct(<<m>>)
BY DEF MessagesIn, Distinct

(* A text of distinct messages has each at most once.                       *)
LEMMA CountFacts ==
  ASSUME NEW s \in Seq(Inputs), NEW n
  PROVE  /\ CountIn(s, n) \in Nat
         /\ n \notin MessagesIn(s) => CountIn(s, n) = 0
         /\ Distinct(s) => CountIn(s, n) <= 1
PROOF
  <1>. DEFINE K == {k \in DOMAIN s : s[k] = n}
  <1>1. DOMAIN s = 1..Len(s) /\ Len(s) \in Nat
    OBVIOUS
  <1>2. IsFiniteSet(K) /\ Cardinality(K) \in Nat
    <2>1. IsFiniteSet(1..Len(s)) /\ K \subseteq 1..Len(s)
      BY <1>1, FS_Interval
    <2>. HIDE DEF K
    <2>. QED BY <2>1, FS_Subset, FS_CardinalityType
  <1>3. n \notin MessagesIn(s) => Cardinality(K) = 0
    BY FS_EmptySet DEF MessagesIn
  <1>4. ASSUME Distinct(s), n \in MessagesIn(s) PROVE Cardinality(K) = 1
    <2>1. PICK k \in DOMAIN s : s[k] = n
      BY <1>4 DEF MessagesIn
    <2>2. K = {k}
      BY <1>4, <2>1 DEF Distinct
    <2>. QED BY <2>2, FS_Singleton
  <1>. QED BY <1>2, <1>3, <1>4 DEF CountIn

(* There is a newest row as soon as there is any.                           *)
LEMMA HasNewest ==
  ASSUME NEW S \in SUBSET Rows, S # {}
  PROVE  \E r \in S : \A q \in S : q <= r
PROOF
  <1>. DEFINE T == {n \in Nat : MaxSessions - n \in S}
  <1>. USE ChatbotAssumption
  <1>1. T \subseteq Nat
    OBVIOUS
  <1>2. \A r \in S : r \in Nat /\ MaxSessions - r \in Nat /\ MaxSessions - (MaxSessions - r) = r
    BY DEF Rows
  <1>3. \A r \in S : MaxSessions - r \in T
    BY <1>2
  <1>4. PICK x \in T : \A y \in T : ~(<<y, x>> \in OpToRel(<, Nat))
    <2>. HIDE DEF T
    <2>. QED BY <1>1, <1>3, WFMin, NatLessThanWellFounded
  <1>5. \A y \in T : x <= y
    <2>. SUFFICES ASSUME NEW y \in T, y < x PROVE FALSE
      BY <1>1
    <2>1. y \in Nat /\ x \in Nat
      BY <1>1
    <2>2. <<y, x>> \in OpToRel(<, Nat)
      BY <2>1 DEF OpToRel
    <2>. QED BY <2>2, <1>4
  <1>6. \A q \in S : q <= MaxSessions - x
    <2>. SUFFICES ASSUME NEW q \in S PROVE q <= MaxSessions - x
      OBVIOUS
    <2>. HIDE DEF T
    <2>1. x <= MaxSessions - q
      BY <1>3, <1>5
    <2>. QED BY <2>1, <1>1, <1>2
  <1>. QED BY <1>6

(* getSession reads a row that exists, or none.                             *)
LEMMA LatestFacts ==
  ASSUME Rowed, NEW o \in Instances
  PROVE  Latest(o) \in Reads /\ Latest(o).row <= created
PROOF
  <1>. USE ChatbotAssumption
  <1>1. CASE RowsOf(o) = {}
    BY <1>1 DEF Latest, NoSession, Reads, Rowed
  <1>2. CASE RowsOf(o) # {}
    <2>1. PICK r \in RowsOf(o) : r = CHOOSE s \in RowsOf(o) : \A q \in RowsOf(o) : q <= s
      BY <1>2, HasNewest DEF RowsOf
    <2>2. r \in Rows /\ sessions[r] # NoRow
      BY DEF RowsOf, NoRow
    <2>3. sessions[r].by \in Integrations /\ sessions[r].status \in Statuses /\ r <= created
      BY <2>2 DEF Rowed, Table, Session, Rows
    <2>4. Latest(o) = [row |-> r, by |-> sessions[r].by, status |-> sessions[r].status]
      BY <1>2, <2>1 DEF Latest
    <2>. QED BY <2>2, <2>3, <2>4 DEF Reads, Rows
  <1>. QED BY <1>1, <1>2

-----------------------------------------------------------------------------
(* Steps of one integration. An emit that goes on keeps its batch while it  *)
(* is live, and never becomes live or ahead when it was not.                *)
GoesOn(e, f) == /\ f.pc \in Live => e.pc \in Live /\ f.batch = e.batch
                /\ f.pc \in Ahead => e.pc \in Ahead

Emitting == [Inputs -> Emits]
Counts == [Inputs -> Nat]

(* Emits that go on or end leave everything placed, a lost debounce map     *)
(* included.                                                                *)
LEMMA GoingOn ==
  ASSUME NEW E \in Emitting, NEW F \in Emitting, NEW B \in Seq(Messages), NEW S \in Counts,
         NEW C \in {B, <<>>},
         Placed(E, B, S), \A n \in Inputs : GoesOn(E[n], F[n])
  PROVE  Placed(F, C, S)
PROOF
  <1>1. Distinct(C) /\ MessagesIn(C) \subseteq MessagesIn(B) /\ MessagesIn(B) \subseteq Inputs
    BY ShortFacts DEF Placed, MessagesIn, Distinct, Inputs
  <1>2. \A n \in MessagesIn(C) : S[n] = 0 /\ F[n].pc \notin Ahead
    BY <1>1 DEF Placed, GoesOn
  <1>3. \A m \in Inputs : F[m].pc \in Ahead => S[m] = 0
    BY DEF Placed, GoesOn
  <1>4. ASSUME NEW m \in Inputs, F[m].pc \in Live
        PROVE  /\ Distinct(F[m].batch)
               /\ MessagesIn(F[m].batch) \subseteq Messages \cup {m}
               /\ \A n \in MessagesIn(F[m].batch) :
                    S[n] = 0 /\ F[n].pc \notin Ahead /\ n \notin MessagesIn(C)
    <2>1. E[m].pc \in Live /\ F[m].batch = E[m].batch
      BY <1>4 DEF GoesOn
    <2>2. MessagesIn(F[m].batch) \subseteq Inputs
      BY DEF Emitting, Emits, MessagesIn
    <2>. QED BY <2>1, <2>2, <1>1 DEF Placed, GoesOn
  <1>5. \A m, k \in Inputs : m # k /\ F[m].pc \in Live /\ F[k].pc \in Live =>
          MessagesIn(F[m].batch) \cap MessagesIn(F[k].batch) = {}
    BY DEF Placed, GoesOn
  <1>. QED BY <1>1, <1>2, <1>3, <1>4, <1>5 DEF Placed

(* An emit that was ahead may begin to process its own message.             *)
LEMMA Beginning ==
  ASSUME NEW E \in Emitting, NEW F \in Emitting, NEW B \in Seq(Messages), NEW S \in Counts,
         NEW m \in Inputs, Placed(E, B, S),
         E[m].pc \in Ahead, F[m].pc \in Live, F[m].batch = <<m>>,
         \A n \in Inputs \ {m} : F[n] = E[n]
  PROVE  Placed(F, B, S)
PROOF
  <1>. DEFINE Mine == MessagesIn(F[m].batch)
  <1>1. Mine = {m} /\ Distinct(F[m].batch) /\ F[m].pc \notin Ahead /\ S[m] = 0
    BY ShortFacts DEF Placed, Ahead, Live
  <1>2. MessagesIn(B) \subseteq Inputs \ {m}
    BY DEF Placed, MessagesIn, Inputs
  <1>3. \A k \in Inputs \ {m} : F[k].pc \in Live =>
          /\ E[k].pc \in Live /\ F[k].batch = E[k].batch
          /\ MessagesIn(F[k].batch) \subseteq Inputs \ {m}
    <2>1. \A k \in Inputs : MessagesIn(E[k].batch) \subseteq Inputs
      BY DEF Emitting, Emits, MessagesIn
    <2>. QED BY <2>1 DEF Placed
  <1>. HIDE DEF Mine
  <1>4. \A n \in MessagesIn(B) : S[n] = 0 /\ F[n].pc \notin Ahead
    BY <1>2 DEF Placed
  <1>5. \A k \in Inputs : F[k].pc \in Ahead => S[k] = 0
    BY <1>1 DEF Placed
  <1>6. ASSUME NEW k \in Inputs, F[k].pc \in Live
        PROVE  /\ Distinct(F[k].batch)
               /\ MessagesIn(F[k].batch) \subseteq Messages \cup {k}
               /\ \A n \in MessagesIn(F[k].batch) :
                    S[n] = 0 /\ F[n].pc \notin Ahead /\ n \notin MessagesIn(B)
    <2>1. CASE k = m
      BY <2>1, <1>1, <1>2 DEF Mine
    <2>2. CASE k # m
      BY <2>2, <1>3, <1>6 DEF Placed
    <2>. QED BY <2>1, <2>2
  <1>7. ASSUME NEW j \in Inputs, NEW k \in Inputs, j # k, F[j].pc \in Live, F[k].pc \in Live
        PROVE  MessagesIn(F[j].batch) \cap MessagesIn(F[k].batch) = {}
    <2>1. CASE j # m /\ k # m
      BY <2>1, <1>3, <1>7 DEF Placed
    <2>2. CASE j = m
      BY <2>2, <1>1, <1>3, <1>7 DEF Mine
    <2>3. CASE k = m
      BY <2>3, <1>1, <1>3, <1>7 DEF Mine
    <2>. QED BY <2>1, <2>2, <2>3
  <1>8. Distinct(B) /\ \A k \in Inputs : S[k] <= 1
    BY DEF Placed
  <1>. QED BY <1>4, <1>5, <1>6, <1>7, <1>8 DEF Placed

(* A message that was ahead may join the text held back; an emit whose      *)
(* timeout it takes over ends.                                              *)
LEMMA Holding ==
  ASSUME NEW E \in Emitting, NEW F \in Emitting, NEW B \in Seq(Messages), NEW S \in Counts,
         NEW m \in Messages, Placed(E, B, S),
         E[m].pc \in Ahead, F[m].pc = "held",
         \A n \in Inputs \ {m} : F[n] = E[n] \/ F[n].pc = "done"
  PROVE  Placed(F, Append(B, m), S)
PROOF
  <1>1. m \in Inputs /\ B \in Seq(Inputs) /\ MessagesIn(B) \subseteq Inputs
    BY DEF Inputs, MessagesIn
  <1>2. m \notin MessagesIn(B) /\ S[m] = 0 /\ F[m].pc \notin Ahead /\ F[m].pc \notin Live
    BY <1>1 DEF Placed, Ahead, Live
  <1>3. MessagesIn(Append(B, m)) = MessagesIn(B) \cup {m} /\ Distinct(Append(B, m))
    BY <1>1, <1>2, AppendFacts DEF Placed
  <1>4. \A n \in Inputs : GoesOn(E[n], F[n])
    BY <1>2 DEF GoesOn, Ahead, Live
  <1>5. Placed(F, B, S)
    BY <1>4, GoingOn
  <1>6. ASSUME NEW k \in Inputs, F[k].pc \in Live
        PROVE  m \notin MessagesIn(F[k].batch)
    <2>1. E[k].pc \in Live /\ F[k].batch = E[k].batch
      BY <1>4, <1>6 DEF GoesOn
    <2>. QED BY <2>1 DEF Placed
  <1>. QED BY ZenonT(40), <1>2, <1>3, <1>5, <1>6 DEF Placed

(* The emit of the timeout may take all that was held back.                 *)
LEMMA Taking ==
  ASSUME NEW E \in Emitting, NEW F \in Emitting, NEW B \in Seq(Messages), NEW S \in Counts,
         NEW m \in Inputs, Placed(E, B, S),
         F[m].pc \in Live, F[m].batch = B,
         \A n \in Inputs \ {m} : F[n] = E[n]
  PROVE  Placed(F, <<>>, S)
PROOF
  <1>1. MessagesIn(B) \subseteq Messages /\ Messages \subseteq Inputs
    BY DEF Inputs, MessagesIn
  <1>2. F[m].pc \notin Ahead
    BY DEF Ahead, Live
  <1>3. \A k \in Inputs : MessagesIn(E[k].batch) \subseteq Inputs
    BY DEF Emitting, Emits, MessagesIn
  <1>4. \A k \in Inputs : F[k].pc \in Ahead => E[k].pc \in Ahead
    BY <1>2
  <1>5. ASSUME NEW k \in Inputs, F[k].pc \in Live
        PROVE  /\ Distinct(F[k].batch)
               /\ MessagesIn(F[k].batch) \subseteq Messages \cup {k}
               /\ \A n \in MessagesIn(F[k].batch) : S[n] = 0 /\ F[n].pc \notin Ahead
    <2>1. CASE k = m
      BY <2>1, <1>1, <1>4 DEF Placed
    <2>2. CASE k # m
      BY <2>2, <1>3, <1>4, <1>5 DEF Placed
    <2>. QED BY <2>1, <2>2
  <1>6. \A k \in Inputs \ {m} : F[k].pc \in Live =>
          MessagesIn(F[k].batch) \cap MessagesIn(B) = {}
    BY DEF Placed
  <1>7. ASSUME NEW j \in Inputs, NEW k \in Inputs, j # k, F[j].pc \in Live, F[k].pc \in Live
        PROVE  MessagesIn(F[j].batch) \cap MessagesIn(F[k].batch) = {}
    <2>1. CASE j # m /\ k # m
      BY <2>1, <1>7 DEF Placed
    <2>2. CASE j = m
      BY <2>2, <1>6, <1>7
    <2>3. CASE k = m
      BY <2>3, <1>6, <1>7
    <2>. QED BY <2>1, <2>2, <2>3
  <1>8. MessagesIn(<<>>) = {} /\ Distinct(<<>>)
    BY DEF MessagesIn, Distinct
  <1>. QED BY <1>4, <1>5, <1>7, <1>8 DEF Placed

(* A live emit may hand its batch over and is live no more.                 *)
LEMMA Serving ==
  ASSUME NEW E \in Emitting, NEW F \in Emitting, NEW B \in Seq(Messages), NEW S \in Counts,
         NEW m \in Inputs, Placed(E, B, S),
         E[m].pc \in Live, F[m].pc \notin Live \cup Ahead,
         \A n \in Inputs \ {m} : F[n] = E[n],
         NEW T \in Counts, \A n \in Inputs : T[n] = S[n] + CountIn(E[m].batch, n)
  PROVE  Placed(F, B, T)
PROOF
  <1>. DEFINE Mine == MessagesIn(E[m].batch)
  <1>1. E[m].batch \in Seq(Inputs) /\ \A k \in Inputs : MessagesIn(E[k].batch) \subseteq Inputs
    BY DEF Emitting, Emits, MessagesIn
  <1>2. Distinct(E[m].batch)
    BY DEF Placed
  <1>3. \A n \in Inputs \ Mine : T[n] = S[n]
    BY <1>1, CountFacts DEF Counts
  <1>4. \A n \in Mine : S[n] = 0 /\ E[n].pc \notin Ahead /\ n \notin MessagesIn(B) /\ n \in Inputs
    BY <1>1 DEF Placed
  <1>5. \A n \in Inputs : T[n] <= 1
    <2>1. \A n \in Inputs : n \in Mine => T[n] <= 1
      BY <1>1, <1>2, <1>4, CountFacts
    <2>. QED BY <2>1, <1>3 DEF Placed
  <1>6. \A k \in Inputs \ {m} : E[k].pc \in Live => MessagesIn(E[k].batch) \cap Mine = {}
    BY DEF Placed
  <1>. HIDE DEF Mine
  <1>7. \A n \in Inputs : GoesOn(E[n], F[n])
    BY DEF GoesOn
  <1>8. Placed(F, B, S)
    BY <1>7, GoingOn
  <1>9. MessagesIn(B) \subseteq Inputs \ Mine
    BY <1>4 DEF MessagesIn, Inputs
  <1>10. \A k \in Inputs : F[k].pc \in Live =>
           k # m /\ E[k].pc \in Live /\ F[k].batch = E[k].batch
           /\ MessagesIn(F[k].batch) \subseteq Inputs \ Mine
    BY <1>1, <1>6
  <1>11. \A k \in Inputs : F[k].pc \in Ahead => k \notin Mine
    BY <1>4
  <1>12. \A n \in MessagesIn(B) : T[n] = 0 /\ F[n].pc \notin Ahead
    BY <1>3, <1>8, <1>9 DEF Placed
  <1>13. \A k \in Inputs : F[k].pc \in Ahead => T[k] = 0
    BY <1>3, <1>8, <1>11 DEF Placed
  <1>14. \A k \in Inputs : F[k].pc \in Live =>
           /\ Distinct(F[k].batch)
           /\ MessagesIn(F[k].batch) \subseteq Messages \cup {k}
           /\ \A n \in MessagesIn(F[k].batch) :
                T[n] = 0 /\ F[n].pc \notin Ahead /\ n \notin MessagesIn(B)
    BY <1>3, <1>8, <1>10 DEF Placed
  <1>. QED BY <1>5, <1>8, <1>12, <1>13, <1>14 DEF Placed

-----------------------------------------------------------------------------
(* What the helpers of the actions do.                                      *)

Settled == [Integrations -> [Inputs -> Emits]]

\* Only the emit of m in i takes a step.
Alone(i, m) == \A j \in Integrations, n \in Inputs :
                 <<j, n>> # <<i, m>> => emits'[j][n] = emits[j][n]

\* That step takes it to the stage pc, with what it has read.
Went(i, m, pc) ==
  /\ emits' \in Settled /\ Alone(i, m)
  /\ emits'[i][m].pc = pc /\ emits'[i][m].batch = emits[i][m].batch
  /\ emits'[i][m].session = emits[i][m].session

(* Go changes the stage of one emit.                                        *)
LEMMA GoFacts ==
  ASSUME emits \in Settled, NEW i \in Integrations, NEW m \in Inputs, NEW pc \in PCs,
         Go(i, m, pc)
  PROVE  Went(i, m, pc)
PROOF
  <1>1. emits[i][m] \in Emits
    BY DEF Settled
  <1>2. [emits[i][m] EXCEPT !.pc = pc] \in Emits
    BY <1>1 DEF Emits
  <1>3. emits' \in Settled /\ emits'[i][m] = [emits[i][m] EXCEPT !.pc = pc] /\ Alone(i, m)
    BY <1>1, <1>2 DEF Settled, Go, Alone
  <1>. QED BY <1>1, <1>3 DEF Went, Emits

(* Update writes a status to a row that is there and goes on, or ends.      *)
LEMMA UpdateFacts ==
  ASSUME Rowed, emits \in Settled, UNCHANGED created,
         NEW i \in Integrations, NEW m \in Inputs, NEW pc \in PCs, NEW status \in Statuses,
         Update(i, m, status, pc)
  PROVE  Rowed' /\ (Went(i, m, pc) \/ Went(i, m, "done"))
PROOF
  <1>. DEFINE r == emits[i][m].session.row
  <1>1. CASE Exists(r)
    <2>1. sessions' = [sessions EXCEPT ![r].status = status] /\ Go(i, m, pc)
      BY <1>1 DEF Update
    <2>2. r \in Rows /\ sessions[r] # NoRow
      BY <1>1 DEF Exists
    <2>. HIDE DEF r
    <2>3. [sessions[r] EXCEPT !.status = status] \in Session
      BY <2>2 DEF Rowed, Table, Session
    <2>4. sessions' \in Table
      BY <2>1, <2>2, <2>3 DEF Rowed, Table
    <2>5. \A q \in Rows : q > created => sessions'[q] = NoRow
      BY <2>1, <2>2 DEF Rowed, Table
    <2>6. Went(i, m, pc)
      BY <2>1, GoFacts
    <2>. QED BY <2>4, <2>5, <2>6 DEF Rowed
  <1>2. CASE ~Exists(r)
    <2>1. UNCHANGED sessions /\ Go(i, m, "done")
      BY <1>2 DEF Update
    <2>2. "done" \in PCs
      BY DEF PCs, Over
    <2>3. Went(i, m, "done")
      BY <2>1, <2>2, GoFacts
    <2>. QED BY <2>1, <2>3 DEF Rowed
  <1>. QED BY <1>1, <1>2

(* Delete leaves fewer rows.                                                *)
LEMMA DeleteFacts ==
  ASSUME Rowed, UNCHANGED created, NEW rows, Delete(rows)
  PROVE  Rowed'
BY DEF Rowed, Delete, Table, Session

(* Leaving the rows alone, for that matter, too.                            *)
LEMMA SameRows ==
  ASSUME Rowed, UNCHANGED <<sessions, created>>
  PROVE  Rowed'
BY DEF Rowed

(* Going on keeps the types of the emits.                                   *)
LEMMA WentFacts ==
  ASSUME Emitted, Queued, UNCHANGED created, NEW i \in Integrations, NEW m \in Inputs,
         NEW pc \in PCs, Went(i, m, pc), pc \in {"lookup", "route"} => m \in Messages
  PROVE  Emitted' /\ Queued'
BY DEF Emitted, Queued, Went, Alone, Settled

(* Steps in which all emits go on keep every message placed.                *)
LEMMA AllGoOn ==
  ASSUME Types, AllPlaced, Emitted', UNCHANGED served,
         \A j \in Integrations : buffer'[j] \in {buffer[j], <<>>},
         \A j \in Integrations, n \in Inputs : GoesOn(emits[j][n], emits'[j][n])
  PROVE  AllPlaced'
PROOF
  <1>. SUFFICES ASSUME NEW j \in Integrations
                PROVE  Placed(emits'[j], buffer'[j], served[j])
    BY DEF AllPlaced
  <1>1. /\ emits[j] \in Emitting /\ emits'[j] \in Emitting
        /\ buffer[j] \in Seq(Messages) /\ served[j] \in Counts
        /\ Placed(emits[j], buffer[j], served[j])
    BY DEF Types, Emitted, Counted, Emitting, Counts, AllPlaced
  <1>. QED BY <1>1, GoingOn

(* A step of one emit that goes on keeps every message placed.              *)
LEMMA OneGoesOn ==
  ASSUME Types, AllPlaced, Emitted', UNCHANGED <<buffer, served>>,
         NEW i \in Integrations, NEW m \in Inputs, Alone(i, m),
         GoesOn(emits[i][m], emits'[i][m])
  PROVE  AllPlaced'
PROOF
  <1>1. \A j \in Integrations, n \in Inputs : GoesOn(emits[j][n], emits'[j][n])
    <2>. SUFFICES ASSUME NEW j \in Integrations, NEW n \in Inputs
                  PROVE  GoesOn(emits[j][n], emits'[j][n])
      OBVIOUS
    <2>1. CASE j = i /\ n = m
      BY <2>1
    <2>2. CASE ~(j = i /\ n = m)
      BY <2>2 DEF Alone, GoesOn
    <2>. QED BY <2>1, <2>2
  <1>. QED BY <1>1, AllGoOn

(* So does a step in which the other integrations stand still.              *)
LEMMA OthersStay ==
  ASSUME AllPlaced, NEW i \in Integrations,
         \A j \in Integrations \ {i} :
           emits'[j] = emits[j] /\ buffer'[j] = buffer[j] /\ served'[j] = served[j],
         Placed(emits'[i], buffer'[i], served'[i])
  PROVE  AllPlaced'
BY DEF AllPlaced

-----------------------------------------------------------------------------
(* The actions in which an emit only goes on.                               *)

\* It writes at most its row, and is not at the beginning afterwards.
Advanced(i, m) ==
  /\ Rowed'
  /\ Went(i, m, emits'[i][m].pc)
  /\ emits'[i][m].pc \in PCs \ Ahead
  /\ emits'[i][m].pc \in Live => emits[i][m].pc \in Live

(* The ways in which they do.                                               *)
LEMMA AdvancedBy ==
  ASSUME Rowed, Emitted, UNCHANGED created,
         NEW i \in Integrations, NEW m \in Inputs, NEW pc \in PCs \ Ahead,
         pc \in Live => emits[i][m].pc \in Live,
         \/ \E status \in Statuses : Update(i, m, status, pc)
         \/ Go(i, m, pc) /\ (UNCHANGED sessions \/ \E rows : Delete(rows))
  PROVE  Advanced(i, m)
PROOF
  <1>1. emits \in Settled
    BY DEF Emitted, Settled
  <1>2. ASSUME NEW status \in Statuses, Update(i, m, status, pc)
        PROVE  Advanced(i, m)
    <2>1. Rowed' /\ (Went(i, m, pc) \/ Went(i, m, "done"))
      BY <1>1, <1>2, UpdateFacts
    <2>2. "done" \in PCs \ Ahead /\ "done" \notin Live
      BY DEF PCs, Over, Ahead, Live
    <2>3. CASE Went(i, m, pc)
      <3>1. emits'[i][m].pc = pc
        BY <2>3 DEF Went
      <3>. QED BY <2>1, <2>3, <3>1 DEF Advanced
    <2>4. CASE Went(i, m, "done")
      <3>1. emits'[i][m].pc = "done"
        BY <2>4 DEF Went
      <3>. QED BY <2>1, <2>2, <2>4, <3>1 DEF Advanced
    <2>. QED BY <2>1, <2>3, <2>4
  <1>3. ASSUME Go(i, m, pc), UNCHANGED sessions \/ \E rows : Delete(rows)
        PROVE  Advanced(i, m)
    <2>1. Went(i, m, pc)
      BY <1>1, <1>3, GoFacts
    <2>2. emits'[i][m].pc = pc
      BY <2>1 DEF Went
    <2>3. Rowed'
      BY <1>3, SameRows, DeleteFacts
    <2>. QED BY <2>1, <2>2, <2>3 DEF Advanced
  <1>. QED BY <1>2, <1>3

(* Every service's processing goes on or ends.                              *)
LEMMA ProcessAdvances ==
  ASSUME Types, NEW i \in Integrations, NEW m \in Inputs, Process(i, m)
  PROVE  Advanced(i, m)
PROOF
  <1>. USE DEF Types
  <1>1. emits[i][m].pc \in Live /\ UNCHANGED created
    BY DEF Process, Live
  <1>2. {"create", "done", "send", "thread", "finish"} \subseteq PCs \ Ahead
    BY DEF PCs, Over, Ahead
  <1>3. {"opened", "paused", "closed"} \subseteq Statuses
    BY DEF Statuses
  <1>4. ASSUME NEW pc \in {"create", "done", "send", "thread", "finish"}
        PROVE  /\ \A status \in Statuses : Update(i, m, status, pc) => Advanced(i, m)
               /\ Go(i, m, pc) /\ UNCHANGED sessions => Advanced(i, m)
               /\ \A rows : Delete(rows) /\ Go(i, m, pc) => Advanced(i, m)
    BY <1>1, <1>2, AdvancedBy
  <1>5. CASE i = "typebot" /\ TypebotProcess(i, m)
    BY <1>3, <1>4, <1>5 DEF TypebotProcess
  <1>6. CASE i = "openai" /\ OpenaiProcess(i, m)
    BY <1>3, <1>4, <1>6 DEF OpenaiProcess
  <1>7. CASE BaseProcess(i, m)
    BY <1>3, <1>4, <1>7 DEF BaseProcess
  <1>. QED BY <1>5, <1>6, <1>7 DEF Process

\* The actions in which an emit does nothing but that.
OwnStep(i, m) ==
  \/ Process(i, m) \/ Opening(i, m) \/ Thread(i, m) \/ FinishFresh(i, m)
  \/ Touch(i, m) \/ FinishTypebot(i, m) \/ Flow(i, m) \/ CallFails(i, m)

(* All of them go on, and write at most the row they have read.             *)
LEMMA OwnStepAdvances ==
  ASSUME Types, NEW i \in Integrations, NEW m \in Inputs, OwnStep(i, m)
  PROVE  Advanced(i, m)
PROOF
  <1>. USE DEF Types
  <1>1. {"thread", "send", "finish", "touch", "done", "hung"} \subseteq PCs \ Ahead
    BY DEF PCs, Over, Ahead
  <1>2. UNCHANGED created
    BY DEF OwnStep, Process, Opening, Thread, FinishFresh, Touch, FinishTypebot, Flow, CallFails
  <1>3. "opened" \in Statuses /\ "closed" \in Statuses
    BY DEF Statuses
  <1>4. ASSUME NEW pc \in {"thread", "send", "finish", "touch", "done", "hung"},
               pc \in Live => emits[i][m].pc \in Live
        PROVE  /\ \A status \in Statuses : Update(i, m, status, pc) => Advanced(i, m)
               /\ Go(i, m, pc) /\ UNCHANGED sessions => Advanced(i, m)
               /\ \A rows : Delete(rows) /\ Go(i, m, pc) => Advanced(i, m)
    BY <1>1, <1>2, <1>4, AdvancedBy
  <1>5. {"finish", "touch", "done", "hung"} \cap Live = {}
    BY DEF Live
  <1>6. CASE Process(i, m)
    BY <1>6, ProcessAdvances
  <1>7. CASE Opening(i, m) \/ Thread(i, m)
    <2>1. emits[i][m].pc \in Live
      BY <1>7 DEF Opening, Thread, Live
    <2>. QED BY <2>1, <1>3, <1>4, <1>7 DEF Opening, Thread
  <1>8. CASE FinishFresh(i, m) \/ CallFails(i, m)
    BY <1>4, <1>5, <1>8 DEF FinishFresh, CallFails
  <1>9. CASE Touch(i, m) \/ FinishTypebot(i, m)
    BY <1>3, <1>4, <1>5, <1>9 DEF Touch, FinishTypebot
  <1>10. CASE Flow(i, m)
    BY <1>3, <1>4, <1>5, <1>10 DEF Flow
  <1>. QED BY <1>6, <1>7, <1>8, <1>9, <1>10 DEF OwnStep

(* They keep the invariant.                                                 *)
LEMMA OwnStepKeeps ==
  ASSUME IInv, NEW i \in Integrations, NEW m \in Inputs, OwnStep(i, m)
  PROVE  IInv'
PROOF
  <1>. USE DEF IInv
  <1>1. Advanced(i, m)
    BY OwnStepAdvances
  <1>2. /\ UNCHANGED <<settings, created, buffer, timers, served, strays, quiet, commands>>
        /\ faults' \in 0..MaxFaults
    <2>1. UNCHANGED <<settings, created, buffer, timers, served, strays, quiet, commands>>
      BY DEF OwnStep, Process, Opening, Thread, FinishFresh, Touch, FinishTypebot, Flow, CallFails
    <2>2. faults' = faults \/ Fault
      BY DEF OwnStep, Process, Opening, Thread, FinishFresh, Touch, FinishTypebot, Flow, CallFails
    <2>3. MaxFaults \in Nat /\ faults \in 0..MaxFaults
      BY ChatbotAssumption DEF Types, Counted
    <2>. QED BY <2>1, <2>2, <2>3 DEF Fault
  <1>3. Emitted' /\ Queued'
    <2>1. emits'[i][m].pc \in PCs /\ emits'[i][m].pc \notin {"lookup", "route"}
      BY <1>1 DEF Advanced, Ahead
    <2>. QED BY <1>1, <1>2, <2>1, WentFacts DEF Advanced, Types
  <1>4. Counted'
    BY <1>2 DEF Types, Counted
  <1>5. AllPlaced'
    <2>1. GoesOn(emits[i][m], emits'[i][m])
      BY <1>1 DEF Advanced, Went, GoesOn
    <2>. QED BY <1>1, <1>2, <1>3, <2>1, OneGoesOn DEF Advanced, Went
  <1>6. DebounceArmed'
    BY <1>2 DEF DebounceArmed
  <1>. QED BY <1>1, <1>3, <1>4, <1>5, <1>6 DEF Types, Advanced

-----------------------------------------------------------------------------
(* The other actions of an emit.                                            *)

(* A message is offered to every integration.                               *)
LEMMA ArriveKeeps ==
  ASSUME IInv, NEW m \in Messages, Arrive(m)
  PROVE  IInv'
PROOF
  <1>. USE DEF IInv
  <1>1. m \in Inputs /\ emits \in Settled /\ {"lookup"} \subseteq PCs
    BY DEF Inputs, Types, Emitted, Settled, PCs
  <1>2. \A j \in Integrations, n \in Inputs :
          \/ emits'[j][n] = emits[j][n]
          \/ /\ n = m /\ emits[j][n].pc = "off"
             /\ emits'[j][n] = [emits[j][n] EXCEPT !.pc = "lookup"]
    BY <1>1 DEF Arrive, Settled
  <1>3. emits' \in Settled
    <2>1. ASSUME NEW j \in Integrations, NEW n \in Inputs
          PROVE  emits'[j][n] \in Emits
      <3>1. emits[j][n] \in Emits
        BY <1>1 DEF Settled
      <3>2. [emits[j][n] EXCEPT !.pc = "lookup"] \in Emits
        BY <1>1, <3>1 DEF Emits
      <3>. QED BY <1>2, <3>1, <3>2
    <2>2. \A j \in Integrations : emits'[j] \in [Inputs -> Emits]
      BY <1>1, <2>1 DEF Arrive, Settled
    <2>. QED BY <1>1, <2>2 DEF Arrive, Settled
  <1>4. Emitted' /\ Queued'
    <2>1. UNCHANGED created
      BY DEF Arrive
    <2>2. \A j \in Integrations, n \in Inputs :
            /\ emits'[j][n].session = emits[j][n].session
            /\ emits'[j][n].pc \in {"lookup", "route"} => n \in Messages
      <3>. SUFFICES ASSUME NEW j \in Integrations, NEW n \in Inputs
                    PROVE  /\ emits'[j][n].session = emits[j][n].session
                           /\ emits'[j][n].pc \in {"lookup", "route"} => n \in Messages
        OBVIOUS
      <3>1. CASE emits'[j][n] = emits[j][n]
        BY <3>1 DEF Types, Queued
      <3>2. CASE n = m /\ emits'[j][n] = [emits[j][n] EXCEPT !.pc = "lookup"]
        BY <1>1, <3>2 DEF Settled, Emits
      <3>. QED BY <1>2, <3>1, <3>2
    <2>. QED BY <1>3, <2>1, <2>2 DEF Types, Emitted, Queued, Settled
  <1>5. Rowed' /\ Counted'
    BY DEF Arrive, Types, Rowed, Counted
  <1>6. AllPlaced'
    <2>1. \A j \in Integrations, n \in Inputs : GoesOn(emits[j][n], emits'[j][n])
      <3>. SUFFICES ASSUME NEW j \in Integrations, NEW n \in Inputs
                    PROVE  GoesOn(emits[j][n], emits'[j][n])
        OBVIOUS
      <3>1. CASE emits'[j][n] = emits[j][n]
        BY <3>1 DEF GoesOn
      <3>2. CASE emits[j][n].pc = "off" /\ emits'[j][n] = [emits[j][n] EXCEPT !.pc = "lookup"]
        <4>1. emits'[j][n].pc = "lookup"
          BY <1>1, <3>2 DEF Settled, Emits
        <4>. QED BY <3>2, <4>1 DEF GoesOn, Ahead, Live
      <3>. QED BY <1>2, <3>1, <3>2
    <2>. QED BY <1>4, <2>1, AllGoOn DEF Arrive
  <1>7. DebounceArmed'
    BY DEF Arrive, DebounceArmed
  <1>. QED BY <1>4, <1>5, <1>6, <1>7 DEF Types

(* An emit reads the newest session.                                        *)
LEMMA LookupKeeps ==
  ASSUME IInv, NEW i \in Integrations, NEW m \in Inputs, Lookup(i, m)
  PROVE  IInv'
PROOF
  <1>. USE DEF IInv
  <1>. DEFINE o == InstanceOf[m]
  <1>1. o \in Instances
    BY ChatbotAssumption DEF Inputs
  <1>2. Latest(o) \in Reads /\ Latest(o).row <= created
    BY <1>1, LatestFacts DEF Types
  <1>3. emits \in Settled /\ emits[i][m] \in Emits /\ "route" \in PCs /\ m \in Messages
    BY DEF Types, Emitted, Settled, PCs, Queued, Lookup
  <1>4. emits' = [emits EXCEPT ![i][m] =
                    [emits[i][m] EXCEPT !.pc = "route", !.session = Latest(o)]]
    BY <1>3 DEF Lookup, Settled, Emits
  <1>. HIDE DEF o
  <1>5. [emits[i][m] EXCEPT !.pc = "route", !.session = Latest(o)] \in Emits
    BY <1>2, <1>3 DEF Emits
  <1>6. emits' \in Settled /\ Alone(i, m)
    BY <1>3, <1>4, <1>5 DEF Settled, Alone
  <1>7. emits'[i][m].pc = "route" /\ emits'[i][m].session = Latest(o)
    BY <1>3, <1>4 DEF Settled, Emits
  <1>8. Emitted' /\ Queued'
    <2>1. UNCHANGED created
      BY DEF Lookup
    <2>. QED BY <1>2, <1>3, <1>6, <1>7, <2>1 DEF Emitted, Queued, Alone, Types, Settled
  <1>9. Rowed' /\ Counted' /\ DebounceArmed'
    BY DEF Lookup, Types, Rowed, Counted, DebounceArmed
  <1>10. AllPlaced'
    <2>1. GoesOn(emits[i][m], emits'[i][m])
      BY <1>7 DEF GoesOn, Ahead, Live, Lookup
    <2>. QED BY <1>6, <1>8, <2>1, OneGoesOn DEF Lookup
  <1>. QED BY <1>8, <1>9, <1>10 DEF Types

(* The text is ignored, pauses the session, joins what is held back, or     *)
(* begins to be processed.                                                  *)
LEMMA RouteKeeps ==
  ASSUME IInv, NEW i \in Integrations, NEW m \in Inputs, Route(i, m)
  PROVE  IInv'
PROOF
  <1>. USE DEF IInv
  <1>1. /\ emits \in Settled /\ emits[i][m] \in Emits /\ emits[i] \in Emitting
        /\ buffer[i] \in Seq(Messages) /\ served[i] \in Counts /\ timers[i] \subseteq Messages
        /\ Placed(emits[i], buffer[i], served[i])
        /\ m \in Messages /\ emits[i][m].pc = "route"
    BY DEF Types, Emitted, Counted, Settled, Emitting, Counts, AllPlaced, Queued, Route
  <1>2. UNCHANGED <<settings, created, served, strays, quiet, commands, faults>>
    BY DEF Route
  <1>3. CASE /\ UNCHANGED <<buffer, timers>>
             /\ \/ Go(i, m, "done") /\ UNCHANGED sessions
                \/ Update(i, m, "paused", "done")
    <2>1. "done" \in PCs \ Ahead /\ "done" \notin Live /\ "paused" \in Statuses
      BY DEF PCs, Over, Ahead, Live, Statuses
    <2>2. Advanced(i, m)
      BY <1>2, <1>3, <2>1, AdvancedBy DEF Types
    <2>3. Emitted' /\ Queued'
      <3>1. emits'[i][m].pc \in PCs /\ emits'[i][m].pc \notin {"lookup", "route"}
        BY <2>2 DEF Advanced, Ahead
      <3>. QED BY <1>2, <2>2, <3>1, WentFacts DEF Advanced, Types
    <2>4. AllPlaced'
      <3>1. GoesOn(emits[i][m], emits'[i][m])
        BY <2>2 DEF Advanced, Went, GoesOn
      <3>. QED BY <1>2, <1>3, <2>2, <2>3, <3>1, OneGoesOn DEF Advanced, Went
    <2>5. Counted' /\ DebounceArmed'
      BY <1>2, <1>3 DEF Types, Counted, DebounceArmed
    <2>. QED BY <2>2, <2>3, <2>4, <2>5 DEF Types, Advanced
  <1>4. CASE Hold(i, m) /\ UNCHANGED sessions
    <2>1. \A n \in Inputs :
            /\ emits'[i][n] \in Emits /\ emits'[i][n].session = emits[i][n].session
            /\ \/ n = m /\ emits'[i][n].pc = "held"
               \/ n # m /\ (emits'[i][n] = emits[i][n] \/ emits'[i][n].pc = "done")
      <3>. SUFFICES ASSUME NEW n \in Inputs
                    PROVE  /\ emits'[i][n] \in Emits /\ emits'[i][n].session = emits[i][n].session
                           /\ \/ n = m /\ emits'[i][n].pc = "held"
                              \/ n # m /\ (emits'[i][n] = emits[i][n] \/ emits'[i][n].pc = "done")
        OBVIOUS
      <3>1. emits[i][n] \in Emits /\ "held" \in PCs /\ "done" \in PCs
        BY <1>1 DEF Settled, PCs, Over
      <3>2. emits'[i][n] = IF n = m THEN [emits[i][n] EXCEPT !.pc = "held"]
                           ELSE IF n \in timers[i] THEN [emits[i][n] EXCEPT !.pc = "done"]
                           ELSE emits[i][n]
        BY <1>1, <1>4 DEF Hold, Settled
      <3>. QED BY <3>1, <3>2 DEF Emits
    <2>2. \A j \in Integrations \ {i} :
            emits'[j] = emits[j] /\ buffer'[j] = buffer[j] /\ timers'[j] = timers[j]
      BY <1>1, <1>4 DEF Hold, Settled, Types, Counted
    <2>3. emits'[i] \in Emitting /\ emits' \in Settled
      BY <1>1, <1>4, <2>1 DEF Hold, Settled, Emitting
    <2>4. Emitted' /\ Queued'
      BY <1>1, <1>2, <2>1, <2>2, <2>3 DEF Types, Emitted, Queued, Settled
    <2>5. /\ buffer' = [buffer EXCEPT ![i] = Append(buffer[i], m)]
          /\ timers' = [timers EXCEPT ![i] = {m}]
      BY <1>4 DEF Hold
    <2>6. /\ buffer'[i] = Append(buffer[i], m) /\ timers'[i] = {m}
          /\ buffer' \in [Integrations -> Seq(Messages)]
          /\ timers' \in [Integrations -> SUBSET Messages]
      BY <1>1, <2>5 DEF Types, Counted
    <2>7. Placed(emits'[i], buffer'[i], served'[i])
      <3>1. emits[i][m].pc \in Ahead
        BY <1>1 DEF Ahead
      <3>2. emits'[i][m].pc = "held" /\ served'[i] = served[i]
        BY <1>1, <1>2, <2>1 DEF Inputs
      <3>3. \A n \in Inputs \ {m} : emits'[i][n] = emits[i][n] \/ emits'[i][n].pc = "done"
        BY <2>1
      <3>4. Placed(emits'[i], Append(buffer[i], m), served[i])
        <4>1. emits[i] \in Emitting /\ emits'[i] \in Emitting
          BY <1>1, <2>3
        <4>2. buffer[i] \in Seq(Messages) /\ served[i] \in Counts /\ m \in Messages
          BY <1>1
        <4>3. Placed(emits[i], buffer[i], served[i])
          BY <1>1
        <4>. QED BY ONLY <3>1, <3>2, <3>3, <4>1, <4>2, <4>3, Holding
      <3>. QED BY <2>6, <3>2, <3>4
    <2>8. AllPlaced'
      BY <1>2, <2>2, <2>7, OthersStay
    <2>9. Rowed' /\ Counted'
      BY <1>2, <1>4, <2>6 DEF Types, Rowed, Counted
    <2>10. DebounceArmed'
      <3>1. Append(buffer[i], m) # <<>> /\ Append(buffer[i], m)[Len(Append(buffer[i], m))] = m
        BY <1>1, AppendProperties
      <3>. QED BY ZenonT(40), <2>2, <2>6, <3>1 DEF DebounceArmed
    <2>. QED BY <2>4, <2>8, <2>9, <2>10 DEF Types
  <1>5. CASE /\ emits' = [emits EXCEPT ![i][m].pc = "process", ![i][m].batch = <<m>>]
             /\ UNCHANGED <<sessions, buffer, timers>>
    <2>1. [emits[i][m] EXCEPT !.pc = "process", !.batch = <<m>>] \in Emits
      BY <1>1, ShortFacts DEF Emits, PCs
    <2>2. emits' = [emits EXCEPT ![i][m] = [emits[i][m] EXCEPT !.pc = "process", !.batch = <<m>>]]
      BY <1>1, <1>5 DEF Settled, Emits
    <2>3. /\ emits' \in Settled /\ emits'[i] \in Emitting
          /\ \A j \in Integrations \ {i} : emits'[j] = emits[j]
          /\ \A n \in Inputs \ {m} : emits'[i][n] = emits[i][n]
          /\ emits'[i][m] = [emits[i][m] EXCEPT !.pc = "process", !.batch = <<m>>]
      BY <1>1, <2>1, <2>2 DEF Settled, Emitting
    <2>4. /\ emits'[i][m].pc = "process" /\ emits'[i][m].batch = <<m>>
          /\ emits'[i][m].session = emits[i][m].session
      BY <1>1, <2>3 DEF Emits
    <2>5. Emitted' /\ Queued'
      BY ZenonT(40), <1>1, <1>2, <2>3, <2>4 DEF Types, Emitted, Queued, Settled
    <2>6. Placed(emits'[i], buffer[i], served[i])
      <3>1. emits[i][m].pc \in Ahead /\ emits'[i][m].pc \in Live
        BY <1>1, <2>4 DEF Ahead, Live
      <3>. QED BY <1>1, <2>3, <2>4, <3>1, Beginning
    <2>7. AllPlaced'
      BY <1>2, <1>5, <2>3, <2>6, OthersStay
    <2>8. Rowed' /\ Counted' /\ DebounceArmed'
      BY <1>2, <1>5 DEF Types, Rowed, Counted, DebounceArmed
    <2>. QED BY <2>5, <2>7, <2>8 DEF Types
  <1>. QED BY <1>3, <1>4, <1>5 DEF Route

(* The timeout fires, and its emit takes the text held back.                *)
LEMMA DebounceEndsKeeps ==
  ASSUME IInv, NEW i \in Integrations, NEW m \in Inputs, DebounceEnds(i, m)
  PROVE  IInv'
PROOF
  <1>. USE DEF IInv
  <1>1. /\ emits \in Settled /\ emits[i][m] \in Emits /\ emits[i] \in Emitting
        /\ buffer[i] \in Seq(Messages) /\ buffer[i] \in Seq(Inputs) /\ served[i] \in Counts
        /\ Placed(emits[i], buffer[i], served[i])
    <2>1. Seq(Messages) \subseteq Seq(Inputs)
      BY DEF Inputs
    <2>. QED BY <2>1 DEF Types, Emitted, Counted, Settled, Emitting, Counts, AllPlaced
  <1>2. UNCHANGED <<settings, sessions, created, served, strays, quiet, commands, faults>>
    BY DEF DebounceEnds
  <1>3. [emits[i][m] EXCEPT !.pc = "process", !.batch = buffer[i]] \in Emits
    BY <1>1 DEF Emits, PCs
  <1>4. emits' = [emits EXCEPT ![i][m] =
                    [emits[i][m] EXCEPT !.pc = "process", !.batch = buffer[i]]]
    BY <1>1 DEF DebounceEnds, Settled, Emits
  <1>5. /\ emits' \in Settled /\ emits'[i] \in Emitting
        /\ \A j \in Integrations \ {i} : emits'[j] = emits[j]
        /\ \A n \in Inputs \ {m} : emits'[i][n] = emits[i][n]
        /\ emits'[i][m] = [emits[i][m] EXCEPT !.pc = "process", !.batch = buffer[i]]
    BY <1>1, <1>3, <1>4 DEF Settled, Emitting
  <1>6. /\ emits'[i][m].pc = "process" /\ emits'[i][m].batch = buffer[i]
        /\ emits'[i][m].session = emits[i][m].session
    BY <1>1, <1>5 DEF Emits
  <1>7. /\ buffer' = [buffer EXCEPT ![i] = <<>>] /\ timers' = [timers EXCEPT ![i] = @ \ {m}]
        /\ m \in timers[i]
    BY DEF DebounceEnds
  <1>8. /\ buffer'[i] = <<>> /\ timers'[i] = timers[i] \ {m}
        /\ \A j \in Integrations \ {i} : buffer'[j] = buffer[j] /\ timers'[j] = timers[j]
        /\ buffer' \in [Integrations -> Seq(Messages)]
        /\ timers' \in [Integrations -> SUBSET Messages]
    BY <1>7 DEF Types, Counted
  <1>9. Emitted' /\ Queued'
    BY <1>1, <1>2, <1>5, <1>6 DEF Types, Emitted, Queued, Settled
  <1>10. AllPlaced'
    <2>1. emits'[i][m].pc \in Live
      BY <1>6 DEF Live
    <2>2. Placed(emits'[i], <<>>, served[i])
      BY <1>1, <1>5, <1>6, <2>1, Taking
    <2>. QED BY <1>2, <1>5, <1>8, <2>2, OthersStay
  <1>11. Rowed' /\ Counted'
    BY <1>2, <1>8 DEF Types, Rowed, Counted
  <1>12. DebounceArmed'
    <2>1. timers[i] = {m}
      BY <1>7 DEF DebounceArmed
    <2>2. timers'[i] = {}
      BY <1>8, <2>1
    <2>. QED BY <1>8, <2>2 DEF DebounceArmed
  <1>. QED BY <1>9, <1>10, <1>11, <1>12 DEF Types

(* A row is added, and the emit has it in hand.                             *)
LEMMA CreateKeeps ==
  ASSUME IInv, NEW i \in Integrations, NEW m \in Inputs, Create(i, m)
  PROVE  IInv'
PROOF
  <1>. USE DEF IInv
  <1>. DEFINE read == [row |-> created', by |-> i, status |-> "opened"]
              next == IF i = "typebot" THEN "send" ELSE "opening"
              e == [emits[i][m] EXCEPT !.session = read, !.fresh = Sessionless(i, m), !.pc = next]
  <1>1. /\ emits \in Settled /\ emits[i][m] \in Emits /\ InstanceOf[m] \in Instances
        /\ emits[i][m].pc = "create"
    BY ChatbotAssumption DEF Types, Emitted, Settled, Create, Inputs
  <1>2. UNCHANGED <<settings, buffer, timers, served, strays, quiet, commands, faults>>
    BY DEF Create
  <1>3. created' = created + 1 /\ created' \in Rows /\ created \in Nat
    BY ChatbotAssumption DEF Create, Types, Rowed, Rows
  <1>4. Rowed'
    <2>1. [inst |-> InstanceOf[m], by |-> i, status |-> "opened"] \in Session
      BY <1>1 DEF Session, Statuses
    <2>2. sessions' = [sessions EXCEPT ![created'] =
                         [inst |-> InstanceOf[m], by |-> i, status |-> "opened"]]
      BY DEF Create
    <2>3. sessions' \in Table
      BY <1>3, <2>1, <2>2 DEF Types, Rowed, Table
    <2>4. \A r \in Rows : r > created' => sessions'[r] = NoRow
      BY <1>3, <2>2 DEF Types, Rowed, Table, Rows
    <2>. QED BY <1>3, <2>3, <2>4 DEF Rowed, Rows
  <1>5. read \in Reads /\ read.row = created'
    BY <1>3 DEF Reads, Rows, Statuses
  <1>6. next \in PCs /\ next \in Live /\ next \notin Ahead /\ Sessionless(i, m) \in BOOLEAN
    BY DEF PCs, Live, Ahead, Sessionless
  <1>7. emits' = [emits EXCEPT ![i][m].session = read, ![i][m].fresh = Sessionless(i, m),
                               ![i][m].pc = next]
    BY DEF Create
  <1>. HIDE DEF read, next
  <1>8. e \in Emits /\ e.session = read /\ e.pc = next /\ e.batch = emits[i][m].batch
    BY <1>1, <1>5, <1>6 DEF Emits
  <1>9. emits' = [emits EXCEPT ![i][m] = e]
    BY <1>1, <1>7 DEF Settled, Emits
  <1>. HIDE DEF e
  <1>10. emits' \in Settled /\ Alone(i, m) /\ emits'[i][m] = e
    BY <1>1, <1>8, <1>9 DEF Settled, Alone
  <1>11. Emitted' /\ Queued'
    <2>1. \A j \in Integrations, n \in Inputs : emits'[j][n].session.row <= created'
      <3>. SUFFICES ASSUME NEW j \in Integrations, NEW n \in Inputs
                    PROVE  emits'[j][n].session.row <= created'
        OBVIOUS
      <3>1. CASE j = i /\ n = m
        BY <1>3, <1>5, <1>8, <1>10, <3>1 DEF Rows
      <3>2. CASE ~(j = i /\ n = m)
        <4>1. emits'[j][n] = emits[j][n] /\ emits[j][n].session.row <= created
          BY <1>10, <3>2 DEF Alone, Types, Emitted
        <4>2. emits[j][n].session.row \in 0..MaxSessions
          BY <1>1 DEF Settled, Emits, Reads
        <4>. QED BY <1>3, <4>1, <4>2, ChatbotAssumption
      <3>. QED BY <3>1, <3>2
    <2>2. Queued'
      BY <1>6, <1>8, <1>10 DEF Types, Queued, Alone, Ahead
    <2>. QED BY <1>10, <2>1, <2>2 DEF Emitted, Settled
  <1>12. Counted' /\ DebounceArmed'
    BY <1>2 DEF Types, Counted, DebounceArmed
  <1>13. AllPlaced'
    <2>1. GoesOn(emits[i][m], emits'[i][m])
      BY <1>1, <1>6, <1>8, <1>10 DEF GoesOn, Live
    <2>. QED BY <1>2, <1>10, <1>11, <2>1, OneGoesOn
  <1>. QED BY <1>4, <1>11, <1>12, <1>13 DEF Types

(* The batch is handed to the bot.                                          *)
LEMMA AnswerKeeps ==
  ASSUME IInv, NEW i \in Integrations, NEW m \in Inputs, Answer(i, m)
  PROVE  IInv'
PROOF
  <1>. USE DEF IInv
  <1>. DEFINE b == emits[i][m].batch
              next == IF i = "typebot" THEN "flow"
                      ELSE IF TouchesAfter(i, emits[i][m].fresh) THEN "touch" ELSE "done"
  <1>1. /\ emits \in Settled /\ emits[i] \in Emitting /\ b \in Seq(Inputs)
        /\ buffer[i] \in Seq(Messages) /\ served[i] \in Counts
        /\ Placed(emits[i], buffer[i], served[i])
        /\ emits[i][m].pc \in Live
    BY DEF Types, Emitted, Counted, Settled, Emitting, Emits, Counts, AllPlaced, Answer, Live
  <1>2. UNCHANGED <<settings, sessions, created, buffer, timers, quiet, commands, faults>>
    BY DEF Answer
  <1>3. next \in PCs \ Ahead /\ next \notin Live
    BY DEF PCs, Over, Ahead, Live
  <1>4. Went(i, m, next)
    BY <1>1, <1>3, GoFacts DEF Answer
  <1>. HIDE DEF next
  <1>5. Emitted' /\ Queued'
    BY <1>2, <1>3, <1>4, WentFacts DEF Types, Ahead
  <1>6. /\ served' = [served EXCEPT ![i] = [n \in Inputs |-> served[i][n] + CountIn(b, n)]]
        /\ strays' = strays \cup {n \in MessagesIn(b) : InstanceOf[n] # InstanceOf[m]}
    BY DEF Answer, CountIn
  <1>7. \A n \in Inputs : CountIn(b, n) \in Nat
    BY <1>1, CountFacts
  <1>8. /\ served' \in [Integrations -> Counts]
        /\ \A n \in Inputs : served'[i][n] = served[i][n] + CountIn(b, n)
        /\ \A j \in Integrations \ {i} : served'[j] = served[j]
    <2>. HIDE DEF b
    <2>1. [n \in Inputs |-> served[i][n] + CountIn(b, n)] \in Counts
      BY <1>1, <1>7 DEF Counts
    <2>2. served \in [Integrations -> Counts]
      BY DEF Types, Counted, Counts
    <2>. QED BY <1>6, <2>1, <2>2 DEF Counts
  <1>9. strays' \subseteq Messages
    <2>1. MessagesIn(b) \subseteq Messages \cup {m} /\ strays \subseteq Messages
      BY <1>1 DEF Placed, Types, Counted
    <2>. QED BY <1>6, <2>1
  <1>10. Rowed' /\ Counted' /\ DebounceArmed'
    BY <1>2, <1>8, <1>9 DEF Types, Rowed, Counted, Counts, DebounceArmed
  <1>11. AllPlaced'
    <2>1. emits' \in Settled /\ emits'[i] \in Emitting /\ emits'[i][m].pc = next
          /\ \A n \in Inputs \ {m} : emits'[i][n] = emits[i][n]
      BY <1>4 DEF Went, Alone, Settled, Emitting
    <2>2. \A j \in Integrations \ {i} : emits'[j] = emits[j]
      <3>1. \A j \in Integrations \ {i} : \A n \in Inputs : emits'[j][n] = emits[j][n]
        BY <1>4 DEF Went, Alone
      <3>. QED BY <1>1, <2>1, <3>1 DEF Settled
    <2>3. emits'[i][m].pc \notin Live \cup Ahead /\ served'[i] \in Counts
      BY <1>3, <1>8, <2>1
    <2>4. Placed(emits'[i], buffer[i], served'[i])
      BY <1>1, <1>8, <2>1, <2>3, Serving
    <2>. QED BY <1>2, <1>8, <2>2, <2>4, OthersStay
  <1>. QED BY <1>5, <1>10, <1>11 DEF Types

-----------------------------------------------------------------------------
(* Operators and restarts.                                                  *)

(* Rows change their status or go; the emits do not notice.                 *)
LEMMA ChangeStatusKeeps ==
  ASSUME IInv, NEW o \in Instances, NEW status \in Statuses \cup {"delete"},
         ChangeStatus(o, status)
  PROVE  IInv'
PROOF
  <1>. USE DEF IInv
  <1>1. UNCHANGED <<settings, created, emits, buffer, timers, served, strays, faults>>
    BY DEF ChangeStatus
  <1>2. commands' \in 0..MaxCommands /\ quiet' = {}
    BY ChatbotAssumption DEF ChangeStatus, Commanded, Types, Counted
  <1>3. Rowed'
    <2>1. CASE Delete(Rows)
      BY <1>1, <2>1, DeleteFacts DEF Types
    <2>2. ASSUME status \in Statuses, sessions' = [r \in Rows |-> sessions'[r]],
                 \A r \in Rows : \/ sessions'[r] = sessions[r]
                                 \/ /\ Exists(r)
                                    /\ sessions'[r] = [sessions[r] EXCEPT !.status = status]
          PROVE  Rowed'
      <3>1. \A r \in Rows : Exists(r) => [sessions[r] EXCEPT !.status = status] \in Session
        BY <2>2 DEF Types, Rowed, Table, Session, Exists
      <3>2. sessions' \in Table
        BY <2>2, <3>1 DEF Types, Rowed, Table
      <3>3. \A r \in Rows : r > created => sessions'[r] = NoRow
        BY <2>2 DEF Types, Rowed, Exists
      <3>. QED BY <1>1, <3>2, <3>3 DEF Types, Rowed
    <2>3. CASE /\ status = "closed"
               /\ sessions' = [r \in Rows |-> IF Exists(r) THEN [sessions[r] EXCEPT !.status = status]
                                              ELSE NoRow]
      BY <2>2, <2>3 DEF Exists, Statuses
    <2>4. CASE /\ status \in {"opened", "paused"}
               /\ sessions' = [r \in Rows |-> IF r \in RowsOf(o) THEN [sessions[r] EXCEPT !.status = status]
                                              ELSE sessions[r]]
      <3>1. \A r \in RowsOf(o) : Exists(r)
        BY ChatbotAssumption DEF RowsOf, Exists, NoRow
      <3>. QED BY <2>2, <2>4, <3>1 DEF Statuses
    <2>5. \/ Delete(Rows)
          \/ /\ status = "closed"
             /\ sessions' = [r \in Rows |-> IF Exists(r) THEN [sessions[r] EXCEPT !.status = status]
                                            ELSE NoRow]
          \/ /\ status \in {"opened", "paused"}
             /\ sessions' = [r \in Rows |-> IF r \in RowsOf(o) THEN [sessions[r] EXCEPT !.status = status]
                                            ELSE sessions[r]]
      BY DEF ChangeStatus
    <2>. QED BY <2>1, <2>3, <2>4, <2>5
  <1>4. Emitted' /\ Queued' /\ AllPlaced' /\ DebounceArmed'
    BY <1>1 DEF Types, Emitted, Queued, AllPlaced, DebounceArmed
  <1>5. Counted'
    BY <1>1, <1>2 DEF Types, Counted
  <1>. QED BY <1>3, <1>4, <1>5 DEF Types

(* startBot begins an emit of its own.                                      *)
LEMMA StartBotKeeps ==
  ASSUME IInv, NEW m \in Starts, StartBot(m)
  PROVE  IInv'
PROOF
  <1>. USE DEF IInv
  <1>. DEFINE i == "typebot"
              e == [emits[i][m] EXCEPT !.pc = "create", !.batch = <<m>>]
  <1>1. i \in Integrations /\ m \in Inputs
    BY ChatbotAssumption DEF Inputs
  <1>. HIDE DEF i
  <1>2. /\ emits \in Settled /\ emits[i][m] \in Emits /\ emits[i] \in Emitting
        /\ buffer[i] \in Seq(Messages) /\ served[i] \in Counts
        /\ Placed(emits[i], buffer[i], served[i])
    BY <1>1 DEF Types, Emitted, Counted, Settled, Emitting, Counts, AllPlaced
  <1>3. UNCHANGED <<settings, created, buffer, timers, served, strays, faults>>
    BY DEF StartBot
  <1>4. commands' \in 0..MaxCommands /\ quiet' = {}
    BY ChatbotAssumption DEF StartBot, Commanded, Types, Counted
  <1>5. Rowed'
    BY <1>3, DeleteFacts DEF StartBot, Types
  <1>6. e \in Emits /\ e.pc = "create" /\ e.batch = <<m>> /\ e.session = emits[i][m].session
    BY <1>1, <1>2, ShortFacts DEF Emits, PCs
  <1>7. emits' = [emits EXCEPT ![i][m] = e] /\ emits[i][m].pc = "off"
    <2>1. emits' = [emits EXCEPT ![i][m].pc = "create", ![i][m].batch = <<m>>]
      BY DEF StartBot, i
    <2>2. emits[i][m].pc = "off"
      BY DEF StartBot, i
    <2>. QED BY <1>1, <1>2, <2>1, <2>2 DEF Settled, Emits
  <1>. HIDE DEF e
  <1>8. /\ emits' \in Settled /\ emits'[i] \in Emitting /\ emits'[i][m] = e
        /\ \A j \in Integrations \ {i} : emits'[j] = emits[j]
        /\ \A n \in Inputs \ {m} : emits'[i][n] = emits[i][n]
    BY <1>1, <1>2, <1>6, <1>7 DEF Settled, Emitting
  <1>9. Emitted' /\ Queued'
    BY <1>1, <1>2, <1>3, <1>6, <1>8 DEF Types, Emitted, Queued, Settled
  <1>10. AllPlaced'
    <2>1. emits[i][m].pc \in Ahead /\ emits'[i][m].pc \in Live /\ emits'[i][m].batch = <<m>>
      BY <1>6, <1>7, <1>8 DEF Ahead, Live
    <2>2. Placed(emits'[i], buffer[i], served[i])
      BY <1>1, <1>2, <1>8, <2>1, Beginning
    <2>. QED BY <1>1, <1>3, <1>8, <2>2, OthersStay
  <1>11. Counted' /\ DebounceArmed'
    BY <1>3, <1>4 DEF Types, Counted, DebounceArmed
  <1>. QED BY <1>5, <1>9, <1>10, <1>11 DEF Types

(* What the process had in memory is lost.                                  *)
LEMMA RestartKeeps ==
  ASSUME IInv, Restart
  PROVE  IInv'
PROOF
  <1>. USE DEF IInv
  <1>1. UNCHANGED <<settings, sessions, created, served, strays, quiet, commands>>
    BY DEF Restart
  <1>2. faults' \in 0..MaxFaults
    BY ChatbotAssumption DEF Restart, Fault, Types, Counted
  <1>3. \A j \in Integrations, n \in Inputs :
          emits'[j][n] = IF emits[j][n].pc = "off" THEN Idle ELSE [Idle EXCEPT !.pc = "done"]
    BY DEF Restart
  <1>4. /\ Idle \in Emits /\ [Idle EXCEPT !.pc = "done"] \in Emits
        /\ Idle.pc = "off" /\ [Idle EXCEPT !.pc = "done"].pc = "done"
        /\ Idle.session.row = 0 /\ [Idle EXCEPT !.pc = "done"].session.row = 0
    <2>1. <<>> \in Seq(Inputs) /\ NoSession \in Reads /\ NoSession.row = 0
      BY ChatbotAssumption DEF NoSession, Reads
    <2>2. Idle = [pc |-> "off", session |-> NoSession, fresh |-> FALSE, batch |-> <<>>]
      BY DEF Idle
    <2>3. Idle \in Emits /\ Idle.pc = "off" /\ Idle.session.row = 0
      BY <2>1, <2>2 DEF Emits, PCs, Over
    <2>. HIDE DEF Idle
    <2>4. /\ [Idle EXCEPT !.pc = "done"] \in Emits /\ [Idle EXCEPT !.pc = "done"].pc = "done"
          /\ [Idle EXCEPT !.pc = "done"].session = Idle.session
      BY <2>3 DEF Emits, PCs, Over
    <2>. QED BY <2>3, <2>4
  <1>5. Emitted' /\ Queued'
    <2>1. created \in Nat /\ UNCHANGED created
      BY <1>1 DEF Types, Rowed
    <2>2. emits' \in Settled
      BY <1>4 DEF Restart, Settled
    <2>3. \A j \in Integrations, n \in Inputs :
            emits'[j][n].session.row = 0 /\ emits'[j][n].pc \in {"off", "done"}
      BY <1>3, <1>4
    <2>. QED BY <2>1, <2>2, <2>3 DEF Emitted, Queued, Settled
  <1>6. AllPlaced'
    <2>1. \A j \in Integrations, n \in Inputs : GoesOn(emits[j][n], emits'[j][n])
      <3>1. \A j \in Integrations, n \in Inputs :
              \/ emits[j][n].pc = "off" /\ emits'[j][n].pc = "off"
              \/ emits'[j][n].pc = "done"
        BY <1>3, <1>4
      <3>. QED BY <3>1 DEF GoesOn, Ahead, Live
    <2>2. \A j \in Integrations : buffer'[j] \in {buffer[j], <<>>}
      BY DEF Restart
    <2>. QED BY <1>1, <1>5, <2>1, <2>2, AllGoOn
  <1>7. buffer' = [j \in Integrations |-> <<>>] /\ timers' = [j \in Integrations |-> {}]
    BY DEF Restart
  <1>8. Rowed' /\ Counted' /\ DebounceArmed'
    BY <1>1, <1>2, <1>7 DEF Types, Rowed, Counted, DebounceArmed
  <1>. QED BY <1>5, <1>6, <1>8 DEF Types

-----------------------------------------------------------------------------
(* The contact may have had a session; nothing is on its way.               *)
LEMMA InitEstablishes ==
  ASSUME Init
  PROVE  IInv
PROOF
  <1>. USE ChatbotAssumption
  <1>1. Rowed
    <2>1. CASE sessions = [r \in Rows |-> NoRow] /\ created = 0
      BY <2>1 DEF Rowed, Table, Session, Rows
    <2>2. CASE /\ created = 1
               /\ \E row \in [inst : Instances, by : settings.enabled, status : Statuses] :
                    sessions = [r \in Rows |-> IF r = 1 THEN row ELSE NoRow]
      <3>1. settings.enabled \subseteq Integrations
        BY DEF Init, Settings
      <3>2. PICK row \in Session : sessions = [r \in Rows |-> IF r = 1 THEN row ELSE NoRow]
        BY <2>2, <3>1 DEF Session
      <3>. QED BY <2>2, <3>2 DEF Rowed, Table, Session, Rows
    <2>. QED BY <2>1, <2>2 DEF Init
  <1>2. Idle \in Emits /\ Idle.session.row = 0 /\ Idle.pc = "off"
    BY DEF Idle, NoSession, Emits, Reads, PCs, Over
  <1>3. \A i \in Integrations, m \in Inputs : emits[i][m] = Idle /\ served[i][m] = 0
    BY DEF Init
  <1>4. Emitted /\ Queued
    BY <1>1, <1>2, <1>3 DEF Init, Emitted, Queued, Rowed
  <1>5. Counted
    BY DEF Init, Counted
  <1>6. AllPlaced
    <2>. SUFFICES ASSUME NEW i \in Integrations
                  PROVE  Placed(emits[i], buffer[i], served[i])
      BY DEF AllPlaced
    <2>1. buffer[i] = <<>>
      BY DEF Init
    <2>2. Distinct(<<>>) /\ MessagesIn(<<>>) = {}
      BY DEF Distinct, MessagesIn
    <2>3. \A m \in Inputs : emits[i][m].pc \notin Live /\ served[i][m] = 0
      BY <1>2, <1>3 DEF Live
    <2>. QED BY <2>1, <2>2, <2>3 DEF Placed
  <1>7. DebounceArmed
    BY DEF Init, DebounceArmed
  <1>. QED BY <1>1, <1>4, <1>5, <1>6, <1>7 DEF IInv, Types

(* No step breaks the invariant.                                            *)
LEMMA NextKeeps ==
  ASSUME IInv, [Next]_vars
  PROVE  IInv'
PROOF
  <1>1. ASSUME NEW m \in Messages, Arrive(m) PROVE IInv'
    BY <1>1, ArriveKeeps
  <1>2. ASSUME NEW i \in Integrations, NEW m \in Inputs, EmitStep(i, m) PROVE IInv'
    <2>1. CASE OwnStep(i, m)
      BY <2>1, OwnStepKeeps
    <2>2. CASE Lookup(i, m)
      BY <2>2, LookupKeeps
    <2>3. CASE Route(i, m)
      BY <2>3, RouteKeeps
    <2>4. CASE DebounceEnds(i, m)
      BY <2>4, DebounceEndsKeeps
    <2>5. CASE Create(i, m)
      BY <2>5, CreateKeeps
    <2>6. CASE Answer(i, m)
      BY <2>6, AnswerKeeps
    <2>. QED BY <1>2, <2>1, <2>2, <2>3, <2>4, <2>5, <2>6 DEF EmitStep, OwnStep
  <1>3. ASSUME NEW o \in Instances, NEW status \in Statuses \cup {"delete"},
               ChangeStatus(o, status)
        PROVE  IInv'
    BY <1>3, ChangeStatusKeeps
  <1>4. ASSUME NEW m \in Starts, StartBot(m) PROVE IInv'
    BY <1>4, StartBotKeeps
  <1>5. CASE Restart
    BY <1>5, RestartKeeps
  <1>6. CASE UNCHANGED vars
    BY <1>6 DEF vars, IInv, Types, Rowed, Emitted, Queued, Counted, AllPlaced, DebounceArmed
  <1>. QED BY <1>1, <1>2, <1>3, <1>4, <1>5, <1>6 DEF Next

(* The types, the place of every message and DebounceArmed hold always.     *)
THEOREM ChatbotInvariant == Spec => []IInv
PROOF
  <1>1. Init => IInv
    BY InitEstablishes
  <1>2. IInv /\ [Next]_vars => IInv'
    BY NextKeeps
  <1>. QED BY <1>1, <1>2, PTL DEF Spec

(* Sessions, emits and the debounce maps of all integrations keep their     *)
(* types.                                                                   *)
THEOREM ChatbotTypes == Spec => []TypeOK
PROOF
  <1>1. IInv => TypeOK
    <2>. SUFFICES ASSUME IInv PROVE TypeOK
      OBVIOUS
    <2>1. Rowed /\ Emitted /\ Counted
      BY DEF IInv, Types
    <2>2. \A r \in Rows :
            sessions[r] \in [inst : Instances, by : Integrations, status : Statuses] \cup {NoRow}
      BY <2>1 DEF Rowed, Table, Session
    <2>3. \A i \in Integrations, m \in Inputs :
            /\ emits[i][m].pc \in PCs /\ emits[i][m].session.row \in 0..created
            /\ \A n \in DOMAIN emits[i][m].batch : emits[i][m].batch[n] \in Inputs
      <3>. SUFFICES ASSUME NEW i \in Integrations, NEW m \in Inputs
                    PROVE  /\ emits[i][m].pc \in PCs /\ emits[i][m].session.row \in 0..created
                           /\ \A n \in DOMAIN emits[i][m].batch : emits[i][m].batch[n] \in Inputs
        OBVIOUS
      <3>1. /\ emits[i][m].pc \in PCs /\ emits[i][m].batch \in Seq(Inputs)
            /\ emits[i][m].session.row \in 0..MaxSessions /\ emits[i][m].session.row <= created
        BY <2>1 DEF Emitted, Emits, Reads
      <3>2. created \in Nat
        BY <2>1 DEF Rowed
      <3>. QED BY <3>1, <3>2
    <2>. QED BY <2>1, <2>2, <2>3 DEF TypeOK, Rowed, Counted
  <1>. QED BY <1>1, ChatbotInvariant, PTL

(* No integration hands a message to a bot twice, whatever the debounce,    *)
(* the operators, failures and restarts do.                                 *)
THEOREM NothingServedTwice == Spec => []ServedOnce
PROOF
  <1>1. IInv => ServedOnce
    BY DEF IInv, AllPlaced, Placed, ServedOnce, Inputs
  <1>. QED BY <1>1, ChatbotInvariant, PTL

(* Text is held back exactly as long as one timeout is armed, that of its   *)
(* last message.                                                            *)
THEOREM NothingStranded == Spec => []DebounceArmed
PROOF
  <1>1. IInv => DebounceArmed
    BY DEF IInv
  <1>. QED BY <1>1, ChatbotInvariant, PTL

-----------------------------------------------------------------------------
(***************************************************************************)
(* Why a chat at rest stays at rest.  The strengthening, QInv, says of an  *)
(* instance with a message in quiet that its newest session is silenced    *)
(* and that each of its emits is over, has not read yet, or has read just  *)
(* that session and will stop at it.                                       *)
(***************************************************************************)

\* A row belongs to the instance of the emits that have read it.
RowsOwned ==
  \A i \in Integrations, m \in Inputs :
    Exists(emits[i][m].session.row) =>
      sessions[emits[i][m].session.row].inst = InstanceOf[m]

\* A timeout is that of an emit that waits for it.
ArmedHeld == \A i \in Integrations : \A m \in timers[i] : emits[i][m].pc = "held"

\* What e, an emit of i, has read is L, and stops it before it reaches a bot.
Stops(i, e, L) ==
  /\ e.session.row = L.row /\ e.session.by = L.by
  /\ Silenced(e.session)
  /\ e.pc # "route" => /\ e.session.by = i \/ i \in settings.fallback
                       /\ e.session.status = "paused"

Reading == {"route", "held", "process"}
Unread == Over \cup {"lookup"}

Muted(i, m) ==
  \/ emits[i][m].pc \in Unread
  \/ emits[i][m].pc \in Reading /\ Stops(i, emits[i][m], Latest(InstanceOf[m]))

Hushed(o) ==
  /\ Silenced(Latest(o))
  /\ \A i \in Integrations, m \in Inputs : InstanceOf[m] = o => Muted(i, m)

QuietHushed ==
  \A m \in quiet :
    /\ Hushed(InstanceOf[m])
    /\ m \in strays \/ \A i \in Integrations : served[i][m] = 0

QInv == RowsOwned /\ ArmedHeld /\ QuietHushed

(* The newest row is one of the instance's, and the table says the rest.    *)
LEMMA NewestIs ==
  ASSUME NEW o \in Instances, RowsOf(o) # {}
  PROVE  /\ Latest(o).row \in RowsOf(o)
         /\ Latest(o).by = sessions[Latest(o).row].by
         /\ Latest(o).status = sessions[Latest(o).row].status
PROOF
  <1>1. PICK r \in RowsOf(o) : r = CHOOSE s \in RowsOf(o) : \A q \in RowsOf(o) : q <= s
    BY HasNewest DEF RowsOf
  <1>2. Latest(o) = [row |-> r, by |-> sessions[r].by, status |-> sessions[r].status]
    BY <1>1 DEF Latest
  <1>. QED BY <1>1, <1>2

(* It stays the newest while the instance has the same rows.                *)
LEMMA NewestStays ==
  ASSUME NEW o \in Instances, RowsOf(o) # {}, RowsOf(o)' = RowsOf(o)
  PROVE  /\ Latest(o)'.row = Latest(o).row
         /\ Latest(o)'.by = sessions'[Latest(o).row].by
         /\ Latest(o)'.status = sessions'[Latest(o).row].status
PROOF
  <1>. DEFINE S == RowsOf(o)
              r == CHOOSE s \in S : \A q \in S : q <= s
  <1>1. Latest(o).row = r
    BY DEF Latest
  <1>2. Latest(o)' = [row |-> r, by |-> sessions'[r].by, status |-> sessions'[r].status]
    <2>1. Latest(o)' = LET t == CHOOSE s \in RowsOf(o)' : \A q \in RowsOf(o)' : q <= s
                       IN  [row |-> t, by |-> sessions'[t].by, status |-> sessions'[t].status]
      BY DEF Latest
    <2>. QED BY <2>1
  <1>. QED BY <1>1, <1>2

(* A silenced session is one that is there.                                 *)
LEMMA SilencedIsThere ==
  ASSUME NEW o \in Instances, Silenced(Latest(o))
  PROVE  RowsOf(o) # {} /\ Latest(o).row # 0
PROOF
  <1>1. RowsOf(o) # {}
    BY DEF Silenced, Latest, NoSession
  <1>. QED BY <1>1, NewestIs DEF RowsOf, Rows

\* The step writes only rows of instance o, and adds at most a row to it.
WritesTo(o) ==
  \A r \in Rows :
    \/ sessions'[r] = sessions[r]
    \/ sessions[r].inst = o /\ sessions'[r].inst \in {o, None}
    \/ r > created /\ sessions'[r].inst = o

\* Of the emits, only that of m in i goes on with what it has read.
OthersHold(i, m) ==
  \A j \in Integrations, n \in Inputs :
    <<j, n>> # <<i, m>> =>
      \/ emits'[j][n] = emits[j][n]
      \/ emits'[j][n].pc = "done" /\ emits'[j][n].session = emits[j][n].session

(* What the ways to write rows amount to.                                   *)
LEMMA WritesOwn ==
  ASSUME Types, RowsOwned, NEW i \in Integrations, NEW m \in Inputs,
         \/ UNCHANGED sessions
         \/ \E status \in Statuses, pc \in PCs : Update(i, m, status, pc)
         \/ Delete({emits[i][m].session.row})
         \/ Delete(RowsOfBot(i, m))
  PROVE  WritesTo(InstanceOf[m])
PROOF
  <1>. DEFINE r == emits[i][m].session.row
  <1>1. CASE UNCHANGED sessions
    BY <1>1 DEF WritesTo
  <1>2. ASSUME NEW status \in Statuses, NEW pc \in PCs, Update(i, m, status, pc), Exists(r)
        PROVE  WritesTo(InstanceOf[m])
    <2>1. r \in Rows /\ sessions[r] \in Session /\ sessions[r] # NoRow
      BY <1>2 DEF Exists, Types, Rowed, Table
    <2>2. sessions' = [sessions EXCEPT ![r].status = status] /\ sessions[r].inst = InstanceOf[m]
      BY <1>2 DEF Update, RowsOwned
    <2>. HIDE DEF r
    <2>3. sessions'[r].inst = sessions[r].inst /\ \A q \in Rows \ {r} : sessions'[q] = sessions[q]
      BY <2>1, <2>2 DEF Types, Rowed, Table, Session
    <2>. QED BY <2>2, <2>3 DEF WritesTo
  <1>3. ASSUME NEW status \in Statuses, NEW pc \in PCs, Update(i, m, status, pc), ~Exists(r)
        PROVE  WritesTo(InstanceOf[m])
    BY <1>1, <1>3 DEF Update
  <1>4. CASE Delete({r})
    <2>1. \A q \in Rows : sessions'[q] = IF q = r THEN NoRow ELSE sessions[q]
      BY <1>4 DEF Delete
    <2>2. r \in Rows /\ sessions[r] # NoRow => sessions[r].inst = InstanceOf[m]
      BY DEF RowsOwned, Exists
    <2>. HIDE DEF r
    <2>. QED BY <2>1, <2>2 DEF WritesTo, NoRow
  <1>5. CASE Delete(RowsOfBot(i, m))
    BY <1>5 DEF Delete, RowsOfBot, RowsOf, WritesTo, NoRow
  <1>. QED BY <1>1, <1>2, <1>3, <1>4, <1>5

(* Emits keep to rows of their own instance.                                *)
LEMMA StaysOwned ==
  ASSUME Types, Types', RowsOwned, NEW i \in Integrations, NEW m \in Inputs,
         WritesTo(InstanceOf[m]), OthersHold(i, m),
         Exists(emits[i][m].session.row)' =>
           sessions'[emits'[i][m].session.row].inst = InstanceOf[m]
  PROVE  RowsOwned'
PROOF
  <1>. SUFFICES ASSUME NEW j \in Integrations, NEW n \in Inputs,
                       emits'[j][n].session.row \in Rows,
                       sessions'[emits'[j][n].session.row] # NoRow
                PROVE  sessions'[emits'[j][n].session.row].inst = InstanceOf[n]
    BY DEF RowsOwned, Exists
  <1>1. CASE j = i /\ n = m
    BY <1>1 DEF Exists
  <1>2. CASE ~(j = i /\ n = m)
    <2>. DEFINE r == emits[j][n].session.row
    <2>1. emits'[j][n].session = emits[j][n].session
      BY <1>2 DEF OthersHold
    <2>2. r \in Rows /\ sessions'[r] # NoRow /\ r <= created
      BY <2>1 DEF Types, Emitted
    <2>3. sessions[r] # NoRow => sessions[r].inst = InstanceOf[n]
      BY <2>2 DEF RowsOwned, Exists
    <2>4. ~(r > created)
      BY <2>2, ChatbotAssumption DEF Types, Rowed, Rows
    <2>. HIDE DEF r
    <2>5. sessions'[r].inst \in Instances
      BY <2>2 DEF Types, Rowed, Table, Session
    <2>6. None \notin Instances /\ InstanceOf[m] \in Instances
      BY ChatbotAssumption DEF Inputs
    <2>7. CASE sessions'[r] = sessions[r]
      BY <2>2, <2>3, <2>7, <2>1 DEF r
    <2>8. CASE sessions[r].inst = InstanceOf[m] /\ sessions'[r].inst \in {InstanceOf[m], None}
      <3>1. sessions[r] # NoRow
        BY <2>6, <2>8 DEF NoRow
      <3>2. sessions'[r].inst = InstanceOf[m]
        BY <2>5, <2>6, <2>8
      <3>. QED BY <2>1, <2>3, <2>8, <3>1, <3>2 DEF r
    <2>. QED BY <2>2, <2>4, <2>7, <2>8 DEF WritesTo
  <1>. QED BY <1>1, <1>2

(* An instance stays hushed while its rows stay, its newest one at most     *)
(* paused, and its emits stay muted.                                        *)
LEMMA StaysHushed ==
  ASSUME NEW o \in Instances, Hushed(o), UNCHANGED settings, RowsOf(o)' = RowsOf(o),
         sessions'[Latest(o).row].by = sessions[Latest(o).row].by,
         \/ sessions'[Latest(o).row].status = sessions[Latest(o).row].status
         \/ sessions'[Latest(o).row].status = "paused" /\ ~Resumes(Latest(o)),
         \A j \in Integrations, n \in Inputs : InstanceOf[n] = o =>
           \/ emits'[j][n] = emits[j][n]
           \/ emits'[j][n].pc \in Unread
           \/ emits'[j][n].pc \in Reading /\ Stops(j, emits'[j][n], Latest(o))
  PROVE  Hushed(o)'
PROOF
  <1>1. RowsOf(o) # {} /\ Silenced(Latest(o))
    BY SilencedIsThere DEF Hushed
  <1>2. /\ Latest(o).by = sessions[Latest(o).row].by
        /\ Latest(o).status = sessions[Latest(o).row].status
    BY <1>1, NewestIs
  <1>3. /\ Latest(o)'.row = Latest(o).row
        /\ Latest(o)'.by = Latest(o).by
        /\ \/ Latest(o)'.status = Latest(o).status
           \/ Latest(o)'.status = "paused" /\ ~Resumes(Latest(o))
    BY <1>1, <1>2, NewestStays
  <1>4. Silenced(Latest(o))'
    BY <1>1, <1>3 DEF Silenced, Resumes, Resuming
  <1>5. ASSUME NEW j \in Integrations, NEW n \in Inputs, InstanceOf[n] = o
        PROVE  Muted(j, n)'
    <2>1. ASSUME Stops(j, emits'[j][n], Latest(o))
          PROVE  Stops(j, emits[j][n], Latest(o))'
      BY <1>3, <2>1 DEF Stops, Silenced, Resumes, Resuming
    <2>2. Muted(j, n)
      BY <1>5 DEF Hushed
    <2>3. \/ emits'[j][n].pc \in Unread
          \/ emits'[j][n].pc \in Reading /\ Stops(j, emits'[j][n], Latest(o))
      BY <1>5, <2>2 DEF Muted
    <2>. QED BY <1>5, <2>1, <2>3 DEF Muted
  <1>. QED BY <1>4, <1>5 DEF Hushed

(* The step of an emit does not reach another instance.                     *)
LEMMA ElsewhereHushed ==
  ASSUME Types, NEW o \in Instances, Hushed(o), UNCHANGED settings,
         NEW i \in Integrations, NEW m \in Inputs, InstanceOf[m] # o,
         WritesTo(InstanceOf[m]), OthersHold(i, m)
  PROVE  Hushed(o)'
PROOF
  <1>1. None \notin Instances /\ InstanceOf[m] \in Instances
    BY ChatbotAssumption DEF Inputs
  <1>2. \A r \in Rows : r > created => sessions[r].inst # o
    BY <1>1 DEF Types, Rowed, NoRow
  <1>3. \A r \in Rows : sessions[r].inst = o \/ sessions'[r].inst = o => sessions'[r] = sessions[r]
    BY <1>1, <1>2 DEF WritesTo
  <1>4. RowsOf(o)' = RowsOf(o)
    BY <1>3 DEF RowsOf
  <1>5. Latest(o).row \in RowsOf(o)
    BY SilencedIsThere, NewestIs DEF Hushed
  <1>6. sessions'[Latest(o).row] = sessions[Latest(o).row]
    BY <1>3, <1>5 DEF RowsOf
  <1>7. \A j \in Integrations, n \in Inputs : InstanceOf[n] = o =>
          emits'[j][n] = emits[j][n] \/ emits'[j][n].pc \in Unread
    BY DEF OthersHold, Unread, Over
  <1>. QED BY <1>4, <1>6, <1>7, StaysHushed

\* What is handed over is handed to strays, as far as messages of quiet go.
ServesNoQuiet ==
  \A k \in quiet :
    \/ k \in strays'
    \/ k \notin strays /\ \A j \in Integrations : served'[j][k] = served[j][k]

(* What has to be shown of the step of an emit.                             *)
LEMMA EmitKeepsQuiet ==
  ASSUME Types, Types', QInv, NEW i \in Integrations, NEW m \in Inputs,
         WritesTo(InstanceOf[m]), OthersHold(i, m), UNCHANGED <<settings, quiet>>,
         Exists(emits[i][m].session.row)' =>
           sessions'[emits'[i][m].session.row].inst = InstanceOf[m],
         ArmedHeld', ServesNoQuiet,
         Hushed(InstanceOf[m]) => Hushed(InstanceOf[m])'
  PROVE  QInv'
PROOF
  <1>1. RowsOwned'
    BY StaysOwned DEF QInv
  <1>2. ASSUME NEW k \in quiet
        PROVE  /\ Hushed(InstanceOf[k])'
               /\ k \in strays' \/ \A j \in Integrations : served'[j][k] = 0
    <2>1. k \in Inputs /\ InstanceOf[k] \in Instances
      BY ChatbotAssumption DEF Types, Counted, Inputs
    <2>2. Hushed(InstanceOf[k]) /\ (k \in strays \/ \A j \in Integrations : served[j][k] = 0)
      BY DEF QInv, QuietHushed
    <2>3. Hushed(InstanceOf[k])'
      <3>1. CASE InstanceOf[k] = InstanceOf[m]
        BY <2>2, <3>1
      <3>2. CASE InstanceOf[k] # InstanceOf[m]
        BY <2>1, <2>2, <3>2, ElsewhereHushed
      <3>. QED BY <3>1, <3>2
    <2>4. k \in strays' \/ \A j \in Integrations : served'[j][k] = 0
      BY <2>2 DEF ServesNoQuiet
    <2>. QED BY <2>3, <2>4
  <1>3. QuietHushed'
    BY <1>2 DEF QuietHushed
  <1>. QED BY <1>1, <1>3 DEF QInv

(* If only that emit moves, and not out of or into the wait for a timeout,  *)
(* the timeouts are waited for.                                             *)
LEMMA StaysArmed ==
  ASSUME Types, ArmedHeld, UNCHANGED timers, NEW i \in Integrations, NEW m \in Inputs,
         Alone(i, m), emits[i][m].pc # "held"
  PROVE  ArmedHeld'
PROOF
  <1>. SUFFICES ASSUME NEW j \in Integrations, NEW n \in timers[j]
                PROVE  emits'[j][n].pc = "held"
    BY DEF ArmedHeld
  <1>1. n \in Inputs /\ emits[j][n].pc = "held"
    BY DEF Types, Counted, Inputs, ArmedHeld
  <1>. QED BY <1>1 DEF Alone

(* An emit on its way to a bot is not one of a hushed instance.             *)
LEMMA LiveNotHushed ==
  ASSUME NEW i \in Integrations, NEW m \in Inputs,
         emits[i][m].pc \notin Unread \cup Reading
  PROVE  ~Hushed(InstanceOf[m])
BY DEF Hushed, Muted

-----------------------------------------------------------------------------
(* Each action of an emit.                                                  *)

(* The emit reads the newest session of its instance.                       *)
LEMMA LookupQuiet ==
  ASSUME IInv, IInv', QInv, NEW i \in Integrations, NEW m \in Inputs, Lookup(i, m)
  PROVE  QInv'
PROOF
  <1>. DEFINE o == InstanceOf[m]
  <1>1. o \in Instances /\ Types /\ Types' /\ emits[i][m] \in Emits /\ emits \in Settled
    BY ZenonT(40), ChatbotAssumption DEF IInv, Inputs, Types, Emitted, Settled
  <1>2. /\ UNCHANGED <<settings, sessions, created, timers, served, strays, quiet>>
        /\ emits[i][m].pc = "lookup"
    BY DEF Lookup
  <1>3. emits' = [emits EXCEPT ![i][m] =
                    [emits[i][m] EXCEPT !.pc = "route", !.session = Latest(o)]]
    BY <1>1 DEF Lookup, Settled, Emits
  <1>. HIDE DEF o
  <1>4. Alone(i, m) /\ emits'[i][m].pc = "route" /\ emits'[i][m].session = Latest(o)
    BY <1>1, <1>3 DEF Alone, Settled, Emits
  <1>5. OthersHold(i, m) /\ WritesTo(o)
    BY <1>2, <1>4 DEF OthersHold, Alone, WritesTo
  <1>6. Exists(emits[i][m].session.row)' =>
          sessions'[emits'[i][m].session.row].inst = o
    <2>1. CASE RowsOf(o) = {}
      BY <1>4, <2>1 DEF Latest, NoSession, Exists, Rows
    <2>2. CASE RowsOf(o) # {}
      BY <1>1, <1>2, <1>4, <2>2, NewestIs DEF RowsOf
    <2>. QED BY <2>1, <2>2
  <1>7. ArmedHeld'
    BY <1>1, <1>2, <1>4, StaysArmed DEF QInv
  <1>8. ASSUME Hushed(o) PROVE Hushed(o)'
    <2>1. RowsOf(o)' = RowsOf(o)
      BY <1>2 DEF RowsOf
    <2>2. Stops(i, emits'[i][m], Latest(o))
      BY <1>4, <1>8 DEF Stops, Hushed
    <2>3. \A j \in Integrations, n \in Inputs : InstanceOf[n] = o =>
            \/ emits'[j][n] = emits[j][n]
            \/ emits'[j][n].pc \in Unread
            \/ emits'[j][n].pc \in Reading /\ Stops(j, emits'[j][n], Latest(o))
      BY <1>4, <2>2 DEF Alone, Reading
    <2>. QED BY <1>1, <1>2, <1>8, <2>1, <2>3, StaysHushed
  <1>9. ServesNoQuiet
    BY <1>2 DEF ServesNoQuiet
  <1>. QED BY <1>1, <1>2, <1>5, <1>6, <1>7, <1>8, <1>9, EmitKeepsQuiet DEF o

(* The text is ignored, pauses the session, is held back or processed.      *)
LEMMA RouteQuiet ==
  ASSUME IInv, IInv', QInv, NEW i \in Integrations, NEW m \in Inputs, Route(i, m)
  PROVE  QInv'
PROOF
  <1>. DEFINE o == InstanceOf[m]
              s == emits[i][m].session
  <1>1. o \in Instances /\ Types /\ Types' /\ emits[i][m] \in Emits /\ emits \in Settled
    BY ChatbotAssumption DEF IInv, Inputs, Types, Emitted, Settled
  <1>2. /\ UNCHANGED <<settings, created, served, strays, quiet>>
        /\ emits[i][m].pc = "route" /\ m \in Messages
    BY <1>1 DEF Route, Types, Queued
  <1>3. ServesNoQuiet
    BY <1>2 DEF ServesNoQuiet
  <1>4. ASSUME Hushed(o)
        PROVE  s.row = Latest(o).row /\ s.by = Latest(o).by /\ Silenced(s) /\ s.row # 0
    <2>1. Muted(i, m)
      BY <1>4 DEF Hushed
    <2>2. Stops(i, emits[i][m], Latest(o))
      BY <1>2, <2>1 DEF Muted, Unread, Over
    <2>. QED BY <1>1, <1>4, <2>2, SilencedIsThere DEF Stops, Hushed
  <1>5. CASE Ignored(i, m) /\ Go(i, m, "done") /\ UNCHANGED <<sessions, timers>>
    <2>1. Went(i, m, "done")
      BY <1>1, <1>5, GoFacts DEF PCs, Over
    <2>2. OthersHold(i, m) /\ WritesTo(o) /\ ArmedHeld'
      BY <1>1, <1>2, <1>5, <2>1, StaysArmed DEF Went, OthersHold, Alone, WritesTo, QInv
    <2>3. Exists(emits[i][m].session.row)' => sessions'[emits'[i][m].session.row].inst = o
      BY <1>5, <2>1 DEF Went, QInv, RowsOwned, Exists
    <2>4. ASSUME Hushed(o) PROVE Hushed(o)'
      <3>1. RowsOf(o)' = RowsOf(o)
        BY <1>5 DEF RowsOf
      <3>2. \A j \in Integrations, n \in Inputs :
              emits'[j][n] = emits[j][n] \/ emits'[j][n].pc \in Unread
        BY <2>1 DEF Went, Alone, Unread, Over
      <3>. QED BY <1>1, <1>2, <1>5, <2>4, <3>1, <3>2, StaysHushed
    <2>. QED BY <1>1, <1>2, <1>3, <2>2, <2>3, <2>4, EmitKeepsQuiet
  <1>6. CASE StopsBot(i, m) /\ Update(i, m, "paused", "done") /\ UNCHANGED timers
    <2>1. Went(i, m, "done") /\ "paused" \in Statuses /\ "done" \in PCs
      BY <1>1, <1>2, <1>6, UpdateFacts DEF PCs, Over, Statuses, Types
    <2>2. OthersHold(i, m) /\ ArmedHeld'
      BY <1>1, <1>2, <1>6, <2>1, StaysArmed DEF Went, OthersHold, Alone, QInv
    <2>3. WritesTo(o)
      BY <1>1, <1>6, <2>1, WritesOwn DEF QInv
    <2>w. CASE Exists(s.row)
      <3>1. s.row \in Rows /\ sessions[s.row] \in Session /\ sessions[s.row] # NoRow
        BY <1>1, <2>w DEF Exists, Types, Rowed, Table
      <3>2. sessions' = [sessions EXCEPT ![s.row].status = "paused"]
        BY <1>6, <2>w DEF Update
      <3>3. /\ sessions'[s.row].inst = sessions[s.row].inst
            /\ sessions'[s.row].by = sessions[s.row].by
            /\ sessions'[s.row].status = "paused"
            /\ \A r \in Rows \ {s.row} : sessions'[r] = sessions[r]
        <4>. DEFINE r == s.row
        <4>. HIDE DEF r
        <4>1. r \in Rows /\ sessions[r] \in Session /\ sessions[r] # NoRow
              /\ sessions' = [sessions EXCEPT ![r].status = "paused"]
          BY <3>1, <3>2 DEF r
        <4>2. /\ sessions'[r].inst = sessions[r].inst
              /\ sessions'[r].by = sessions[r].by
              /\ sessions'[r].status = "paused"
              /\ \A q \in Rows \ {r} : sessions'[q] = sessions[q]
          BY <1>1, <4>1 DEF Types, Rowed, Table, Session
        <4>. QED BY <4>2 DEF r
      <3>4. sessions[s.row].inst = o
        BY <2>w DEF QInv, RowsOwned
      <3>5. Exists(emits[i][m].session.row)' => sessions'[emits'[i][m].session.row].inst = o
        BY <2>1, <3>3, <3>4 DEF Went
      <3>6. ASSUME Hushed(o) PROVE Hushed(o)'
        <4>1. RowsOf(o)' = RowsOf(o)
          BY <3>1, <3>3 DEF RowsOf
        <4>2. ~Resumes(Latest(o))
          <5>1. ~Resumes(s)
            BY <1>4, <1>6, <3>6 DEF Silenced, StopsBot
          <5>. QED BY <1>4, <3>6, <5>1 DEF Resumes
        <4>3. sessions'[Latest(o).row].by = sessions[Latest(o).row].by
              /\ sessions'[Latest(o).row].status = "paused"
          BY <1>4, <3>3, <3>6
        <4>4. \A j \in Integrations, n \in Inputs :
                emits'[j][n] = emits[j][n] \/ emits'[j][n].pc \in Unread
          BY <2>1 DEF Went, Alone, Unread, Over
        <4>. QED BY <1>1, <1>2, <3>6, <4>1, <4>2, <4>3, <4>4, StaysHushed
      <3>. QED BY <1>1, <1>2, <1>3, <2>2, <2>3, <3>5, <3>6, EmitKeepsQuiet
    <2>g. CASE ~Exists(s.row)
      <3>1. UNCHANGED sessions
        BY <1>6, <2>g DEF Update
      <3>2. Exists(emits[i][m].session.row)' => sessions'[emits'[i][m].session.row].inst = o
        BY <2>1, <3>1, <2>g DEF Went, Exists
      <3>3. ASSUME Hushed(o) PROVE Hushed(o)'
        <4>1. RowsOf(o)' = RowsOf(o)
          BY <3>1 DEF RowsOf
        <4>2. \A j \in Integrations, n \in Inputs :
                emits'[j][n] = emits[j][n] \/ emits'[j][n].pc \in Unread
          BY <2>1 DEF Went, Alone, Unread, Over
        <4>. QED BY <1>1, <1>2, <3>1, <3>3, <4>1, <4>2, StaysHushed
      <3>. QED BY <1>1, <1>2, <1>3, <2>2, <2>3, <3>2, <3>3, EmitKeepsQuiet
    <2>. QED BY <2>w, <2>g
  <1>7. ASSUME ~Ignored(i, m), ~StopsBot(i, m), UNCHANGED sessions, OthersHold(i, m),
               emits'[i][m].pc \in {"held", "process"},
               emits'[i][m].session = emits[i][m].session, ArmedHeld'
        PROVE  QInv'
    <2>1. WritesTo(o)
      BY <1>7 DEF WritesTo
    <2>2. Exists(emits[i][m].session.row)' => sessions'[emits'[i][m].session.row].inst = o
      BY <1>7 DEF QInv, RowsOwned, Exists
    <2>3. ASSUME Hushed(o) PROVE Hushed(o)'
      <3>1. RowsOf(o)' = RowsOf(o)
        BY <1>7 DEF RowsOf
      <3>2. s.status = "paused" /\ (s.by = i \/ i \in settings.fallback)
        BY <1>4, <1>7, <2>3 DEF Ignored, StopsBot, FindsBot, Silenced
      <3>3. Stops(i, emits'[i][m], Latest(o))
        BY <1>4, <1>7, <2>3, <3>2 DEF Stops
      <3>4. \A j \in Integrations, n \in Inputs : InstanceOf[n] = o =>
              \/ emits'[j][n] = emits[j][n]
              \/ emits'[j][n].pc \in Unread
              \/ emits'[j][n].pc \in Reading /\ Stops(j, emits'[j][n], Latest(o))
        <4>. SUFFICES ASSUME NEW j \in Integrations, NEW n \in Inputs
                      PROVE  \/ emits'[j][n] = emits[j][n]
                             \/ emits'[j][n].pc \in Unread
                             \/ emits'[j][n].pc \in Reading /\ Stops(j, emits'[j][n], Latest(o))
          OBVIOUS
        <4>1. CASE j = i /\ n = m
          BY <1>7, <3>3, <4>1 DEF Reading
        <4>2. CASE ~(j = i /\ n = m)
          BY <1>7, <4>2 DEF OthersHold, Unread, Over
        <4>. QED BY <4>1, <4>2
      <3>. QED BY <1>1, <1>2, <1>7, <2>3, <3>1, <3>4, StaysHushed
    <2>. QED BY <1>1, <1>2, <1>3, <1>7, <2>1, <2>2, <2>3, EmitKeepsQuiet
  <1>8. CASE ~Ignored(i, m) /\ ~StopsBot(i, m) /\ Hold(i, m) /\ UNCHANGED sessions
    <2>1. ASSUME NEW j \in Integrations, NEW n \in Inputs
          PROVE  IF j = i /\ n = m
                 THEN emits'[j][n].pc = "held" /\ emits'[j][n].session = emits[j][n].session
                 ELSE \/ emits'[j][n] = emits[j][n]
                      \/ /\ emits'[j][n].pc = "done"
                         /\ emits'[j][n].session = emits[j][n].session
      <3>1. emits[j][n] \in Emits
        BY <1>1 DEF Settled
      <3>2. emits'[j][n] = IF j # i THEN emits[j][n]
                           ELSE IF n = m THEN [emits[j][n] EXCEPT !.pc = "held"]
                           ELSE IF n \in timers[i] THEN [emits[j][n] EXCEPT !.pc = "done"]
                           ELSE emits[j][n]
        BY <1>1, <1>8 DEF Hold, Settled
      <3>. QED BY <3>1, <3>2 DEF Emits
    <2>2. OthersHold(i, m)
      BY <2>1 DEF OthersHold
    <2>3. timers' = [timers EXCEPT ![i] = {m}] /\ timers \in [Integrations -> SUBSET Messages]
      BY <1>1, <1>8 DEF Hold, Types, Counted
    <2>4. ArmedHeld'
      <3>. SUFFICES ASSUME NEW j \in Integrations, NEW n \in timers'[j]
                    PROVE  emits'[j][n].pc = "held"
        BY DEF ArmedHeld
      <3>1. CASE j = i
        BY <2>1, <2>3, <3>1
      <3>2. CASE j # i
        <4>1. n \in timers[j] /\ n \in Inputs
          BY <2>3, <3>2 DEF Inputs
        <4>2. emits'[j] = emits[j]
          BY <1>1, <1>8, <3>2 DEF Hold, Settled
        <4>. QED BY <4>1, <4>2 DEF QInv, ArmedHeld
      <3>. QED BY <3>1, <3>2
    <2>. QED BY <1>7, <1>8, <2>1, <2>2, <2>4
  <1>9. CASE /\ ~Ignored(i, m) /\ ~StopsBot(i, m)
             /\ emits' = [emits EXCEPT ![i][m].pc = "process", ![i][m].batch = <<m>>]
             /\ UNCHANGED <<sessions, timers>>
    <2>1. emits' = [emits EXCEPT ![i][m] = [emits[i][m] EXCEPT !.pc = "process", !.batch = <<m>>]]
      BY <1>1, <1>9 DEF Settled, Emits
    <2>2. Alone(i, m) /\ emits'[i][m].pc = "process"
          /\ emits'[i][m].session = emits[i][m].session
      BY <1>1, <2>1 DEF Alone, Settled, Emits
    <2>3. OthersHold(i, m) /\ ArmedHeld'
      BY <1>1, <1>2, <1>9, <2>2, StaysArmed DEF OthersHold, Alone, QInv
    <2>. QED BY <1>7, <1>9, <2>2, <2>3
  <1>. QED BY <1>5, <1>6, <1>8, <1>9 DEF Route

(* The timeout fires for an emit that waited for it.                        *)
LEMMA DebounceQuiet ==
  ASSUME IInv, IInv', QInv, NEW i \in Integrations, NEW m \in Inputs, DebounceEnds(i, m)
  PROVE  QInv'
PROOF
  <1>. DEFINE o == InstanceOf[m]
  <1>1. o \in Instances /\ Types /\ Types' /\ emits[i][m] \in Emits /\ emits \in Settled
    BY ChatbotAssumption DEF IInv, Inputs, Types, Emitted, Settled
  <1>2. /\ UNCHANGED <<settings, sessions, created, served, strays, quiet>>
        /\ emits[i][m].pc = "held"
    BY DEF DebounceEnds, QInv, ArmedHeld
  <1>3. emits' = [emits EXCEPT ![i][m] =
                    [emits[i][m] EXCEPT !.pc = "process", !.batch = buffer[i]]]
    BY <1>1 DEF DebounceEnds, Settled, Emits
  <1>4. Alone(i, m) /\ emits'[i][m].pc = "process"
        /\ emits'[i][m].session = emits[i][m].session
    BY <1>1, <1>3 DEF Alone, Settled, Emits
  <1>5. OthersHold(i, m) /\ WritesTo(o)
    BY <1>2, <1>4 DEF OthersHold, Alone, WritesTo
  <1>6. Exists(emits[i][m].session.row)' => sessions'[emits'[i][m].session.row].inst = o
    BY <1>2, <1>4 DEF QInv, RowsOwned, Exists
  <1>7. ArmedHeld'
    <2>. SUFFICES ASSUME NEW j \in Integrations, NEW n \in timers'[j]
                  PROVE  emits'[j][n].pc = "held"
      BY DEF ArmedHeld
    <2>1. timers \in [Integrations -> SUBSET Messages] /\ timers' = [timers EXCEPT ![i] = @ \ {m}]
      BY <1>1 DEF DebounceEnds, Types, Counted
    <2>2. n \in timers[j] /\ ~(j = i /\ n = m) /\ n \in Inputs
      BY <2>1 DEF Inputs
    <2>. QED BY <1>4, <2>2 DEF Alone, QInv, ArmedHeld
  <1>8. ASSUME Hushed(o) PROVE Hushed(o)'
    <2>1. RowsOf(o)' = RowsOf(o)
      BY <1>2 DEF RowsOf
    <2>2. Stops(i, emits[i][m], Latest(o))
      BY <1>2, <1>8 DEF Hushed, Muted, Unread, Over
    <2>3. Stops(i, emits'[i][m], Latest(o))
      BY <1>2, <1>4, <2>2 DEF Stops
    <2>4. \A j \in Integrations, n \in Inputs : InstanceOf[n] = o =>
            \/ emits'[j][n] = emits[j][n]
            \/ emits'[j][n].pc \in Unread
            \/ emits'[j][n].pc \in Reading /\ Stops(j, emits'[j][n], Latest(o))
      BY <1>4, <2>3 DEF Alone, Reading
    <2>. QED BY <1>1, <1>2, <1>8, <2>1, <2>4, StaysHushed
  <1>9. ServesNoQuiet
    BY <1>2 DEF ServesNoQuiet
  <1>. QED BY <1>1, <1>2, <1>5, <1>6, <1>7, <1>8, <1>9, EmitKeepsQuiet

(* What an emit of a hushed instance does with the text: nothing.           *)
LEMMA ProcessStops ==
  ASSUME Types, NEW i \in Integrations, NEW m \in Inputs, Process(i, m), Hushed(InstanceOf[m])
  PROVE  Go(i, m, "done") /\ UNCHANGED sessions
PROOF
  <1>. DEFINE s == emits[i][m].session
  <1>1. emits[i][m].pc = "process"
    BY DEF Process
  <1>2. Stops(i, emits[i][m], Latest(InstanceOf[m]))
    BY <1>1 DEF Hushed, Muted, Unread, Over
  <1>3. s.status = "paused" /\ i \in {s.by} \cup settings.fallback /\ ~Resumes(s)
    BY <1>1, <1>2 DEF Stops, Silenced
  <1>4. s.row # 0
    <2>1. InstanceOf[m] \in Instances
      BY ChatbotAssumption DEF Inputs
    <2>. QED BY <1>2, <2>1, SilencedIsThere DEF Stops, Hushed
  <1>5. i # "openai" /\ (i = "typebot" => ~settings.expires)
    BY <1>3 DEF Resumes, Resuming
  <1>6. CASE i = "typebot"
    BY <1>3, <1>4, <1>5, <1>6 DEF Process, TypebotProcess, Sessionless
  <1>7. CASE i # "typebot"
    BY <1>3, <1>4, <1>5, <1>7 DEF Process, BaseProcess, Sessionless
  <1>. QED BY <1>6, <1>7

(* The actions in which an emit goes on with its row.                       *)
LEMMA OwnStepQuiet ==
  ASSUME IInv, IInv', QInv, NEW i \in Integrations, NEW m \in Inputs, OwnStep(i, m)
  PROVE  QInv'
PROOF
  <1>. DEFINE o == InstanceOf[m]
  <1>1. o \in Instances /\ Types /\ Types' /\ emits[i][m] \in Emits /\ emits \in Settled
    BY ZenonT(40), ChatbotAssumption DEF IInv, Inputs, Types, Emitted, Settled
  <1>2. /\ UNCHANGED <<settings, created, timers, served, strays, quiet>>
        /\ emits[i][m].pc \notin {"off", "lookup", "route", "held"}
    BY DEF OwnStep, Process, Opening, Thread, FinishFresh, Touch, FinishTypebot, Flow, CallFails
  <1>3. Advanced(i, m)
    BY <1>1, OwnStepAdvances
  <1>4. Alone(i, m) /\ emits'[i][m].session = emits[i][m].session
    BY <1>3 DEF Advanced, Went
  <1>5. WritesTo(o)
    <2>1. {"opened", "paused", "closed"} \subseteq Statuses
          /\ {"create", "done", "send", "thread", "finish", "touch", "flow"} \subseteq PCs
      BY DEF Statuses, PCs, Over
    <2>2. \/ UNCHANGED sessions
          \/ \E status \in Statuses, pc \in PCs : Update(i, m, status, pc)
          \/ Delete({emits[i][m].session.row})
          \/ Delete(RowsOfBot(i, m))
      <3>1. CASE Process(i, m)
        BY <2>1, <3>1 DEF Process, TypebotProcess, OpenaiProcess, BaseProcess
      <3>2. CASE Opening(i, m) \/ Thread(i, m) \/ Touch(i, m)
        BY <2>1, <3>2 DEF Opening, Thread, Touch
      <3>3. CASE FinishFresh(i, m) \/ CallFails(i, m)
        BY <3>3 DEF FinishFresh, CallFails
      <3>4. CASE FinishTypebot(i, m) \/ Flow(i, m)
        BY <2>1, <3>4 DEF FinishTypebot, Flow
      <3>. QED BY <3>1, <3>2, <3>3, <3>4 DEF OwnStep
    <2>. QED BY <1>1, <2>2, WritesOwn DEF QInv
  <1>6. OthersHold(i, m) /\ ArmedHeld'
    BY <1>1, <1>2, <1>4, StaysArmed DEF OthersHold, Alone, QInv
  <1>7. Exists(emits[i][m].session.row)' => sessions'[emits'[i][m].session.row].inst = o
    <2>. DEFINE r == emits[i][m].session.row
    <2>. SUFFICES ASSUME r \in Rows, sessions'[r] # NoRow PROVE sessions'[r].inst = o
      BY <1>4 DEF Exists
    <2>1. sessions[r] # NoRow => sessions[r].inst = o
      BY DEF QInv, RowsOwned, Exists
    <2>2. ~(r > created) /\ created \in Nat
      BY <1>1, ChatbotAssumption DEF Types, Emitted, Rowed, Rows
    <2>. HIDE DEF r
    <2>3. sessions'[r].inst \in Instances /\ None \notin Instances
      BY <1>1, ChatbotAssumption DEF Types, Rowed, Table, Session
    <2>. QED BY <1>5, <2>1, <2>2, <2>3 DEF WritesTo
  <1>8. ASSUME Hushed(o) PROVE Hushed(o)'
    <2>1. emits[i][m].pc \in Unread \cup Reading
      BY <1>8, LiveNotHushed
    <2>2. Process(i, m)
      BY <1>2, <2>1 DEF OwnStep, Unread, Over, Reading, Opening, Thread, FinishFresh, Touch,
                        FinishTypebot, Flow, CallFails
    <2>3. Go(i, m, "done") /\ UNCHANGED sessions
      BY <1>1, <1>8, <2>2, ProcessStops
    <2>4. Went(i, m, "done")
      BY <1>1, <2>3, GoFacts DEF PCs, Over
    <2>5. RowsOf(o)' = RowsOf(o)
      BY <2>3 DEF RowsOf
    <2>6. \A j \in Integrations, n \in Inputs :
            emits'[j][n] = emits[j][n] \/ emits'[j][n].pc \in Unread
      BY <2>4 DEF Went, Alone, Unread, Over
    <2>. QED BY <1>1, <1>2, <1>8, <2>3, <2>5, <2>6, StaysHushed
  <1>9. ServesNoQuiet
    BY <1>2 DEF ServesNoQuiet
  <1>. QED BY <1>1, <1>2, <1>5, <1>6, <1>7, <1>8, <1>9, EmitKeepsQuiet

(* A session begins only where none was hushed.                             *)
LEMMA CreateQuiet ==
  ASSUME IInv, IInv', QInv, NEW i \in Integrations, NEW m \in Inputs, Create(i, m)
  PROVE  QInv'
PROOF
  <1>. DEFINE o == InstanceOf[m]
              read == [row |-> created', by |-> i, status |-> "opened"]
              next == IF i = "typebot" THEN "send" ELSE "opening"
              e == [emits[i][m] EXCEPT !.session = read, !.fresh = Sessionless(i, m), !.pc = next]
  <1>1. o \in Instances /\ Types /\ Types' /\ emits[i][m] \in Emits /\ emits \in Settled
    BY ChatbotAssumption DEF IInv, Inputs, Types, Emitted, Settled
  <1>2. /\ UNCHANGED <<settings, timers, served, strays, quiet>>
        /\ emits[i][m].pc = "create"
    BY DEF Create
  <1>3. created' = created + 1 /\ created' \in Rows /\ created \in Nat
    BY <1>1, ChatbotAssumption DEF Create, Types, Rowed, Rows
  <1>4. emits' = [emits EXCEPT ![i][m].session = read, ![i][m].fresh = Sessionless(i, m),
                               ![i][m].pc = next]
    BY DEF Create
  <1>5. /\ \A r \in Rows \ {created'} : sessions'[r] = sessions[r]
        /\ sessions'[created'].inst = o
    <2>1. sessions' = [sessions EXCEPT ![created'] = [inst |-> o, by |-> i, status |-> "opened"]]
      BY DEF Create
    <2>. QED BY <1>1, <1>3, <2>1 DEF Types, Rowed, Table
  <1>. HIDE DEF o, next
  <1>6. Alone(i, m) /\ emits'[i][m].session.row = created'
    <2>1. emits'[i][m].session = read
      BY <1>1, <1>4 DEF Settled, Emits
    <2>2. Alone(i, m)
      BY <1>1, <1>4 DEF Settled, Alone
    <2>. QED BY <2>1, <2>2
  <1>7. WritesTo(o) /\ OthersHold(i, m)
    BY <1>3, <1>5, <1>6 DEF WritesTo, OthersHold, Alone, Rows
  <1>8. ArmedHeld'
    BY <1>1, <1>2, <1>6, StaysArmed DEF QInv
  <1>9. ~Hushed(o)
    BY <1>2, LiveNotHushed DEF Unread, Over, Reading, o
  <1>10. ServesNoQuiet
    BY <1>2 DEF ServesNoQuiet
  <1>. QED BY <1>1, <1>2, <1>5, <1>6, <1>7, <1>8, <1>9, <1>10, EmitKeepsQuiet DEF o

(* A bot is handed messages of quiet only as strays.                        *)
LEMMA AnswerQuiet ==
  ASSUME IInv, IInv', QInv, NEW i \in Integrations, NEW m \in Inputs, Answer(i, m)
  PROVE  QInv'
PROOF
  <1>. DEFINE o == InstanceOf[m]
              b == emits[i][m].batch
              next == IF i = "typebot" THEN "flow"
                      ELSE IF TouchesAfter(i, emits[i][m].fresh) THEN "touch" ELSE "done"
  <1>t. o \in Instances /\ Types /\ Types' /\ emits[i][m] \in Emits /\ emits \in Settled
    BY ChatbotAssumption DEF IInv, Inputs, Types, Emitted, Settled
  <1>1. /\ o \in Instances /\ Types /\ Types' /\ emits[i][m] \in Emits /\ emits \in Settled
        /\ b \in Seq(Inputs)
    BY <1>t DEF Emits
  <1>2. /\ UNCHANGED <<settings, sessions, created, timers, quiet>>
        /\ emits[i][m].pc = "send" /\ Go(i, m, next)
    BY DEF Answer
  <1>3. Went(i, m, next)
    BY <1>1, <1>2, GoFacts DEF PCs, Over
  <1>. HIDE DEF next
  <1>4. WritesTo(o) /\ OthersHold(i, m) /\ ArmedHeld'
    BY <1>1, <1>2, <1>3, StaysArmed DEF Went, OthersHold, Alone, WritesTo, QInv
  <1>5. Exists(emits[i][m].session.row)' => sessions'[emits'[i][m].session.row].inst = o
    BY <1>2, <1>3 DEF Went, QInv, RowsOwned, Exists
  <1>6. ~Hushed(o)
    BY <1>2, LiveNotHushed DEF Unread, Over, Reading
  <1>7. ServesNoQuiet
    <2>. SUFFICES ASSUME NEW k \in quiet, k \notin strays'
                  PROVE  k \notin strays /\ \A j \in Integrations : served'[j][k] = served[j][k]
      BY DEF ServesNoQuiet
    <2>1. k \in Inputs /\ Hushed(InstanceOf[k])
      BY <1>1 DEF Types, Counted, Inputs, QInv, QuietHushed
    <2>2. /\ served' = [served EXCEPT ![i] = [n \in Inputs |-> served[i][n] + CountIn(b, n)]]
          /\ strays' = strays \cup {n \in MessagesIn(b) : InstanceOf[n] # o}
      BY DEF Answer, CountIn
    <2>3. k \notin strays /\ k \notin MessagesIn(b)
      BY <1>6, <2>1, <2>2
    <2>. HIDE DEF b
    <2>4. CountIn(b, k) = 0
      BY <1>1, <2>3, CountFacts
    <2>5. served \in [Integrations -> [Inputs -> Nat]]
      BY <1>1 DEF Types, Counted
    <2>6. ASSUME NEW j \in Integrations PROVE served'[j][k] = served[j][k]
      <3>1. served[j][k] \in Nat
        BY <2>1, <2>5
      <3>2. served'[j][k] = IF j = i THEN served[i][k] + CountIn(b, k) ELSE served[j][k]
        BY <2>1, <2>2, <2>5
      <3>. QED BY <2>4, <3>1, <3>2
    <2>. QED BY <2>3, <2>6
  <1>. QED BY <1>1, <1>2, <1>4, <1>5, <1>6, <1>7, EmitKeepsQuiet

-----------------------------------------------------------------------------
(* The other actions.                                                       *)

(* A message joins quiet only where its instance is hushed.                 *)
LEMMA ArriveQuiet ==
  ASSUME IInv, IInv', QInv, NEW m \in Messages, Arrive(m)
  PROVE  QInv'
PROOF
  <1>1. /\ Types /\ Types' /\ AllPlaced /\ emits \in Settled /\ m \in Inputs
        /\ InstanceOf[m] \in Instances
    BY ChatbotAssumption DEF IInv, Inputs, Types, Emitted, Settled
  <1>2. UNCHANGED <<settings, sessions, created, timers, served, strays>>
    BY DEF Arrive
  <1>3. \A j \in Integrations : emits[j][m].pc = "off"
    BY DEF Arrive
  <1>4. ASSUME NEW j \in Integrations, NEW n \in Inputs
        PROVE  \/ emits'[j][n] = emits[j][n]
               \/ /\ emits[j][n].pc = "off" /\ emits'[j][n].pc = "lookup"
                  /\ emits'[j][n].session = emits[j][n].session
    <2>1. emits[j][n] \in Emits
      BY <1>1 DEF Settled
    <2>2. \/ emits'[j][n] = emits[j][n]
          \/ emits[j][n].pc = "off" /\ emits'[j][n] = [emits[j][n] EXCEPT !.pc = "lookup"]
      BY <1>1, <1>3 DEF Arrive, Settled
    <2>. QED BY <2>1, <2>2 DEF Emits
  <1>5. RowsOwned'
    BY <1>2, <1>4 DEF QInv, RowsOwned, Exists
  <1>6. ArmedHeld'
    <2>. SUFFICES ASSUME NEW j \in Integrations, NEW n \in timers[j]
                  PROVE  emits'[j][n].pc = "held"
      BY <1>2 DEF ArmedHeld
    <2>1. n \in Inputs /\ emits[j][n].pc = "held"
      BY <1>1 DEF Types, Counted, Inputs, QInv, ArmedHeld
    <2>. QED BY <1>4, <2>1
  <1>7. ASSUME NEW o \in Instances, Hushed(o)
        PROVE  Hushed(o)'
    <2>1. RowsOf(o)' = RowsOf(o)
      BY <1>2 DEF RowsOf
    <2>2. \A j \in Integrations, n \in Inputs :
            emits'[j][n] = emits[j][n] \/ emits'[j][n].pc \in Unread
      BY <1>4 DEF Unread
    <2>. QED BY <1>2, <1>7, <2>1, <2>2, StaysHushed
  <1>8. ASSUME AtRest(InstanceOf[m]), Silenced(Latest(InstanceOf[m]))
        PROVE  Hushed(InstanceOf[m]) /\ \A j \in Integrations : served[j][m] = 0
    <2>1. Hushed(InstanceOf[m])
      BY <1>8 DEF AtRest, Hushed, Muted, Unread
    <2>2. \A j \in Integrations : served[j][m] = 0
      BY <1>1, <1>3 DEF AllPlaced, Placed, Ahead
    <2>. QED BY <2>1, <2>2
  <1>9. quiet' = quiet \/ (quiet' = quiet \cup {m} /\ AtRest(InstanceOf[m])
                           /\ Silenced(Latest(InstanceOf[m])))
    BY DEF Arrive
  <1>10. ASSUME NEW k \in quiet'
         PROVE  /\ Hushed(InstanceOf[k])'
                /\ k \in strays' \/ \A j \in Integrations : served'[j][k] = 0
    <2>1. InstanceOf[k] \in Instances
      BY <1>1, ChatbotAssumption DEF Types, Counted, Inputs
    <2>2. Hushed(InstanceOf[k]) /\ (k \in strays \/ \A j \in Integrations : served[j][k] = 0)
      BY <1>8, <1>9 DEF QInv, QuietHushed
    <2>. QED BY <1>2, <1>7, <2>1, <2>2
  <1>11. QuietHushed'
    BY <1>10 DEF QuietHushed
  <1>. QED BY <1>5, <1>6, <1>11 DEF QInv

(* With a command nothing has to stay quiet any longer.                     *)
LEMMA CommandQuiet ==
  ASSUME IInv, IInv', QInv,
         \/ \E o \in Instances, status \in Statuses \cup {"delete"} : ChangeStatus(o, status)
         \/ \E m \in Starts : StartBot(m)
  PROVE  QInv'
PROOF
  <1>1. Types /\ Types' /\ emits \in Settled /\ quiet' = {} /\ UNCHANGED timers
    BY DEF IInv, Types, Emitted, Settled, ChangeStatus, StartBot, Commanded
  <1>2. \A r \in Rows : sessions'[r] = NoRow \/ sessions'[r].inst = sessions[r].inst
    <2>1. ASSUME NEW o \in Instances, NEW status \in Statuses \cup {"delete"},
                 ChangeStatus(o, status), NEW r \in Rows
          PROVE  sessions'[r] = NoRow \/ sessions'[r].inst = sessions[r].inst
      <3>1. sessions[r] \in Session
        BY <1>1 DEF Types, Rowed, Table
      <3>2. \/ sessions'[r] = NoRow
            \/ sessions'[r] = sessions[r]
            \/ /\ sessions'[r] = [sessions[r] EXCEPT !.status = status]
        BY <2>1 DEF ChangeStatus, Delete, Exists
      <3>. QED BY <3>1, <3>2 DEF Session, NoRow
    <2>2. ASSUME NEW m \in Starts, StartBot(m), NEW r \in Rows
          PROVE  sessions'[r] = NoRow \/ sessions'[r].inst = sessions[r].inst
      BY <2>2 DEF StartBot, Delete
    <2>. QED BY <2>1, <2>2
  <1>3. \A j \in Integrations, n \in Inputs :
          /\ emits'[j][n].session = emits[j][n].session
          /\ emits[j][n].pc # "off" => emits'[j][n].pc = emits[j][n].pc
    <2>1. CASE \E o \in Instances, status \in Statuses \cup {"delete"} : ChangeStatus(o, status)
      BY <2>1 DEF ChangeStatus
    <2>2. ASSUME NEW m \in Starts, StartBot(m), NEW j \in Integrations, NEW n \in Inputs
          PROVE  /\ emits'[j][n].session = emits[j][n].session
                 /\ emits[j][n].pc # "off" => emits'[j][n].pc = emits[j][n].pc
      <3>1. "typebot" \in Integrations /\ m \in Inputs /\ emits[j][n] \in Emits
        BY <1>1, ChatbotAssumption DEF Inputs, Settled
      <3>2. /\ emits' = [emits EXCEPT !["typebot"][m].pc = "create", !["typebot"][m].batch = <<m>>]
            /\ emits["typebot"][m].pc = "off"
        BY <2>2 DEF StartBot
      <3>3. emits'[j][n] = IF j = "typebot" /\ n = m
                           THEN [emits[j][n] EXCEPT !.pc = "create", !.batch = <<m>>]
                           ELSE emits[j][n]
        BY <1>1, <3>1, <3>2 DEF Settled, Emits
      <3>4. CASE j = "typebot" /\ n = m
        <4>. DEFINE e == [emits[j][n] EXCEPT !.pc = "create", !.batch = <<m>>]
        <4>1. e.session = emits[j][n].session
          BY <3>1 DEF Emits
        <4>2. emits'[j][n] = e /\ emits[j][n].pc = "off"
          BY <3>2, <3>3, <3>4
        <4>. HIDE DEF e
        <4>. QED BY <4>1, <4>2
      <3>5. CASE ~(j = "typebot" /\ n = m)
        BY <3>3, <3>5
      <3>. QED BY <3>4, <3>5
    <2>. QED BY <2>1, <2>2
  <1>4. RowsOwned'
    <2>. SUFFICES ASSUME NEW j \in Integrations, NEW n \in Inputs,
                         emits[j][n].session.row \in Rows,
                         sessions'[emits[j][n].session.row] # NoRow
                  PROVE  sessions'[emits[j][n].session.row].inst = InstanceOf[n]
      BY <1>3 DEF RowsOwned, Exists
    <2>. DEFINE r == emits[j][n].session.row
    <2>. HIDE DEF r
    <2>0. r \in Rows /\ sessions'[r] # NoRow
      BY DEF r
    <2>1. sessions'[r].inst = sessions[r].inst /\ sessions'[r].inst \in Instances
      BY <1>1, <1>2, <2>0 DEF Types, Rowed, Table, Session
    <2>2. sessions[r] # NoRow
      BY <2>1, ChatbotAssumption DEF NoRow
    <2>3. sessions[r].inst = InstanceOf[n]
      BY <2>0, <2>2 DEF QInv, RowsOwned, Exists, r
    <2>. QED BY <2>1, <2>3 DEF r
  <1>5. ArmedHeld'
    <2>. SUFFICES ASSUME NEW j \in Integrations, NEW n \in timers[j]
                  PROVE  emits'[j][n].pc = "held"
      BY <1>1 DEF ArmedHeld
    <2>1. n \in Inputs /\ emits[j][n].pc = "held"
      BY <1>1 DEF Types, Counted, Inputs, QInv, ArmedHeld
    <2>. QED BY <1>3, <2>1
  <1>. QED BY <1>1, <1>4, <1>5 DEF QInv, QuietHushed

(* A restart ends every emit.                                               *)
LEMMA RestartQuiet ==
  ASSUME IInv, QInv, Restart
  PROVE  QInv'
PROOF
  <1>1. /\ UNCHANGED <<settings, sessions, created, served, strays, quiet>>
        /\ Types
    BY DEF Restart, IInv
  <1>2. \A j \in Integrations, n \in Inputs :
          emits'[j][n].pc \in Unread /\ emits'[j][n].session.row = 0
    <2>1. \A j \in Integrations, n \in Inputs :
            emits'[j][n] \in {Idle, [Idle EXCEPT !.pc = "done"]}
      BY DEF Restart
    <2>2. \A e \in {Idle, [Idle EXCEPT !.pc = "done"]} : e.pc \in Unread /\ e.session.row = 0
      BY DEF Idle, NoSession, Unread, Over
    <2>. QED BY <2>1, <2>2
  <1>3. RowsOwned' /\ ArmedHeld'
    BY <1>2 DEF RowsOwned, Exists, Rows, ArmedHeld, Restart
  <1>4. ASSUME NEW k \in quiet
        PROVE  Hushed(InstanceOf[k])'
    <2>1. InstanceOf[k] \in Instances /\ Hushed(InstanceOf[k])
      BY <1>1, ChatbotAssumption DEF Types, Counted, Inputs, QInv, QuietHushed
    <2>2. RowsOf(InstanceOf[k])' = RowsOf(InstanceOf[k])
      BY <1>1 DEF RowsOf
    <2>. QED BY <1>1, <1>2, <2>1, <2>2, StaysHushed
  <1>5. QuietHushed'
    BY <1>1, <1>4 DEF QInv, QuietHushed
  <1>. QED BY <1>3, <1>5 DEF QInv

(* No step breaks QInv.                                                     *)
LEMMA NextKeepsQuiet ==
  ASSUME IInv, QInv, [Next]_vars
  PROVE  QInv'
PROOF
  <1>1. IInv'
    BY NextKeeps
  <1>2. ASSUME NEW m \in Messages, Arrive(m) PROVE QInv'
    BY <1>1, <1>2, ArriveQuiet
  <1>3. ASSUME NEW i \in Integrations, NEW m \in Inputs, EmitStep(i, m) PROVE QInv'
    <2>1. CASE OwnStep(i, m)
      BY <1>1, <2>1, OwnStepQuiet
    <2>2. CASE Lookup(i, m)
      BY <1>1, <2>2, LookupQuiet
    <2>3. CASE Route(i, m)
      BY <1>1, <2>3, RouteQuiet
    <2>4. CASE DebounceEnds(i, m)
      BY <1>1, <2>4, DebounceQuiet
    <2>5. CASE Create(i, m)
      BY <1>1, <2>5, CreateQuiet
    <2>6. CASE Answer(i, m)
      BY <1>1, <2>6, AnswerQuiet
    <2>. QED BY <1>3, <2>1, <2>2, <2>3, <2>4, <2>5, <2>6 DEF EmitStep, OwnStep
  <1>4. CASE \/ \E o \in Instances, status \in Statuses \cup {"delete"} : ChangeStatus(o, status)
             \/ \E m \in Starts : StartBot(m)
    BY <1>1, <1>4, CommandQuiet
  <1>5. CASE Restart
    BY <1>5, RestartQuiet
  <1>6. CASE UNCHANGED vars
    <2>1. UNCHANGED <<settings, sessions, emits, timers, served, strays, quiet>>
      BY <1>6 DEF vars
    <2>2. RowsOwned' /\ ArmedHeld'
      BY <2>1 DEF QInv, RowsOwned, ArmedHeld, Exists
    <2>3. ASSUME NEW k \in quiet PROVE Hushed(InstanceOf[k])'
      <3>1. InstanceOf[k] \in Instances /\ Hushed(InstanceOf[k])
        BY ChatbotAssumption DEF IInv, Types, Counted, Inputs, QInv, QuietHushed
      <3>2. RowsOf(InstanceOf[k])' = RowsOf(InstanceOf[k])
        BY <2>1 DEF RowsOf
      <3>. QED BY <2>1, <3>1, <3>2, StaysHushed
    <2>. QED BY <2>1, <2>2, <2>3 DEF QInv, QuietHushed
  <1>. QED BY <1>2, <1>3, <1>4, <1>5, <1>6 DEF Next

(* What comes to a chat at rest whose session is silenced reaches no bot of *)
(* its instance, in any interleaving of emits, debounces, failures and      *)
(* restarts, until an operator acts.                                        *)
THEOREM RestIsKept == Spec => []QuietStaysQuiet
PROOF
  <1>1. Init => QInv
    <2>. SUFFICES ASSUME Init PROVE QInv
      OBVIOUS
    <2>1. \A i \in Integrations, m \in Inputs : emits[i][m].session.row = 0
      BY DEF Init, Idle, NoSession
    <2>. QED BY <2>1 DEF Init, QInv, RowsOwned, Exists, Rows, ArmedHeld, QuietHushed
  <1>2. IInv /\ QInv /\ [Next]_vars => QInv'
    BY NextKeepsQuiet
  <1>3. QInv => QuietStaysQuiet
    BY DEF QInv, QuietHushed, QuietStaysQuiet
  <1>. QED BY <1>1, <1>2, <1>3, ChatbotInvariant, PTL DEF Spec

=============================================================================
