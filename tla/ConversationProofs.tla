------------------------- MODULE ConversationProofs -------------------------
(***************************************************************************)
(* Theorems about BotConversation, for any number of customers, messages,  *)
(* deliveries, webhook calls and commands: a message is answered once and  *)
(* makes one order, and no message and no status of an order gets lost     *)
(* without a failure.  The argument turns on the UNIQUE message id: past   *)
(* the INSERT of the inbound message a handler has its message to itself.  *)
(***************************************************************************)
EXTENDS BotConversation, FiniteSetTheorems, TLAPS

HandlerRecords == [pc : HandlerPcs, msg : Messages \cup {None},
                   conv : Nat \cup {None}, tags : Tags]
AdminRecords == [pc : {"idle", "update", "notify"}, org : Orgs \cup {None},
                 order : OrderIds \cup {None}, status : NewStatuses \cup {None}]
OrderRows == [msg : Messages, customer : Customers, org : Orgs,
              status : {"pending"} \cup NewStatuses]

\* What a command in progress holds.
AdminHolds(a) ==
  admins[a].pc # "idle" => admins[a].order \in DOMAIN orders /\ admins[a].status \in NewStatuses

Typed ==
  /\ now \in 0..Horizon
  /\ DOMAIN convs \subseteq Nat /\ IsFiniteSet(DOMAIN convs)
  /\ DOMAIN inbound \subseteq Messages
  /\ DOMAIN orders \subseteq OrderIds
  /\ \A i \in DOMAIN orders : orders[i] \in OrderRows
  /\ handlers \in [Handlers -> HandlerRecords]
  /\ \A h \in Handlers : handlers[h].pc # "idle" => handlers[h].msg \in Messages
  /\ admins \in [Admins -> AdminRecords]
  /\ \A a \in Admins : AdminHolds(a)
  /\ delivered \in [Messages -> Nat]
  /\ sent \in [Messages -> Nat]
  /\ told \in [OrderIds -> SUBSET NewStatuses]
  /\ faults \in Nat

\* Past the INSERT of the inbound message, and before that of the order.
Late == {"settle", "ask", "save", "order", "book", "send"}
Unordered == {"settle", "ask", "save", "order"}

Busy(h, m) == handlers[h].pc # "idle" /\ handlers[h].msg = m
HasToItself(h, m) == handlers[h].pc \in Late /\ handlers[h].msg = m

(* A handler past the INSERT is alone with a message not yet answered.     *)
WorkedOnce ==
  \A h \in Handlers, m \in Messages :
    HasToItself(h, m) =>
      /\ m \in DOMAIN inbound /\ sent[m] = 0
      /\ \A g \in Handlers : HasToItself(g, m) => g = h

SentStored == \A m \in Messages : sent[m] <= 1 /\ (sent[m] = 1 => m \in DOMAIN inbound)

(* An order was made by the message it names, which makes no other.        *)
OrdersStored ==
  \A i \in DOMAIN orders :
    /\ orders[i].msg \in DOMAIN inbound
    /\ orders[i].customer = SenderOf[orders[i].msg]
    /\ \A h \in Handlers : handlers[h].pc \in Unordered => handlers[h].msg # orders[i].msg
    /\ \A j \in DOMAIN orders : orders[j].msg = orders[i].msg => j = i

(* What was delivered is in hand, answered or failed; what is stored does  *)
(* not need the handlers that have not stored it.                          *)
Served(m) == sent[m] = 1 \/ m \in failed
NothingDropped ==
  \A m \in Messages :
    /\ \A h \in Handlers : Busy(h, m) => delivered[m] > 0
    /\ delivered[m] > 0 => Served(m) \/ \E h \in Handlers : Busy(h, m)
    /\ m \in DOMAIN inbound =>
         delivered[m] > 0 /\ (Served(m) \/ \E h \in Handlers : HasToItself(h, m))

HInv == WorkedOnce /\ SentStored /\ OrdersStored /\ NothingDropped

-----------------------------------------------------------------------------
(* What a step can be, for the messages.                                   *)

Replaces(h, r) == handlers' = [handlers EXCEPT ![h] = r]

\* On within the same part of the handler.
Moves(h, r) ==
  /\ Replaces(h, r)
  /\ r \in HandlerRecords /\ r.msg = handlers[h].msg
  /\ r.pc # "idle" /\ handlers[h].pc # "idle"
  /\ r.pc \in Late <=> handlers[h].pc \in Late
  /\ r.pc \in Unordered => handlers[h].pc \in Unordered
  /\ UNCHANGED <<inbound, orders, delivered, sent, failed>>

Stores(h) ==
  /\ handlers[h].pc = "store" /\ handlers[h].msg \notin DOMAIN inbound
  /\ DOMAIN inbound' = DOMAIN inbound \cup {handlers[h].msg}
  /\ Replaces(h, [handlers[h] EXCEPT !.pc = "settle"])
  /\ UNCHANGED <<orders, delivered, sent, failed>>

\* Out, with a failure, or as a duplicate.
Ends(h) ==
  /\ handlers[h].pc # "idle"
  /\ Replaces(h, HandlerIdle)
  /\ \/ failed' = failed \cup {handlers[h].msg}
     \/ UNCHANGED failed /\ handlers[h].msg \in DOMAIN inbound /\ handlers[h].pc \notin Late
  /\ UNCHANGED <<inbound, orders, delivered, sent>>

OrdersOne(h) ==
  /\ handlers[h].pc = "order"
  /\ \E i \in OrderIds \ DOMAIN orders, o \in OrderRows :
       /\ orders' = Put(orders, i, o)
       /\ o.msg = handlers[h].msg /\ o.customer = SenderOf[o.msg] /\ o.status = "pending"
  /\ \E label \in {"book", "send"} : Replaces(h, [handlers[h] EXCEPT !.pc = label])
  /\ UNCHANGED <<inbound, delivered, sent, failed>>

Sends(h) ==
  /\ handlers[h].pc = "send"
  /\ sent' = [sent EXCEPT ![handlers[h].msg] = @ + 1]
  /\ Replaces(h, HandlerIdle)
  /\ UNCHANGED <<inbound, orders, delivered, failed>>

Begins(h, m) ==
  /\ handlers[h].pc = "idle"
  /\ delivered' = [delivered EXCEPT ![m] = @ + 1]
  /\ \/ m \in DOMAIN inbound /\ UNCHANGED handlers
     \/ Replaces(h, [HandlerIdle EXCEPT !.pc = "customer", !.msg = m])
  /\ UNCHANGED <<inbound, orders, sent, failed>>

\* Everything but the handlers' world: the orders keep who made them.
Elsewhere ==
  /\ DOMAIN orders' = DOMAIN orders
  /\ \A i \in DOMAIN orders : /\ orders'[i].msg = orders[i].msg
                              /\ orders'[i].customer = orders[i].customer
  /\ UNCHANGED <<inbound, handlers, delivered, sent, failed>>

StepKinds ==
  \/ \E h \in Handlers :
       \/ \E r : Moves(h, r)
       \/ Stores(h) \/ Ends(h) \/ OrdersOne(h) \/ Sends(h)
       \/ \E m \in Messages : Begins(h, m)
  \/ Elsewhere
  \/ Restart

USE DEF database, world

(* What a handler writes into its record keeps its type.                   *)
LEMMA GotoIs ==
  ASSUME Typed, NEW h \in Handlers, NEW label \in HandlerPcs \ {"idle"}, Goto(h, label)
  PROVE  LET r == [handlers[h] EXCEPT !.pc = label] IN
         /\ Replaces(h, r)
         /\ r \in HandlerRecords /\ r.msg = handlers[h].msg /\ r.pc = label
BY DEF Typed, Goto, Replaces, HandlerRecords

LEMMA FinishIs == ASSUME NEW h, Finish(h) PROVE Replaces(h, HandlerIdle)
BY DEF Finish, Replaces

LEMMA HandlerStepKinds ==
  ASSUME Typed, NEW h \in Handlers, HandlerStep(h)
  PROVE  StepKinds
<1> DEFINE Kinds == (\E r : Moves(h, r)) \/ Stores(h) \/ Ends(h) \/ OrdersOne(h) \/ Sends(h)
<1> SUFFICES Kinds
  BY DEF StepKinds
<1>t. /\ handlers[h] \in HandlerRecords
      /\ handlers[h].pc # "idle" => handlers[h].msg \in Messages
  BY DEF Typed
<1>m. ASSUME NEW label \in HandlerPcs \ {"idle"}, Goto(h, label), handlers[h].pc # "idle",
             label \in Late <=> handlers[h].pc \in Late,
             label \in Unordered => handlers[h].pc \in Unordered,
             UNCHANGED <<inbound, orders, delivered, sent, failed>>
      PROVE  Kinds
  <2> DEFINE r == [handlers[h] EXCEPT !.pc = label]
  <2>1. Replaces(h, r) /\ r \in HandlerRecords /\ r.msg = handlers[h].msg /\ r.pc = label
    BY <1>m, GotoIs
  <2> HIDE DEF r
  <2>2. Moves(h, r)
    BY <1>m, <2>1 DEF Moves
  <2> QED
    BY <2>2
<1>e. ASSUME Finish(h), handlers[h].pc # "idle", failed' = failed \cup {handlers[h].msg},
             UNCHANGED <<inbound, orders, delivered, sent>>
      PROVE  Kinds
  BY <1>e, FinishIs DEF Ends
<1> USE DEF Late, Unordered, HandlerPcs
<1> HIDE DEF Kinds
<1>1. CASE FindCustomer(h)
  BY <1>1, <1>m DEF FindCustomer
<1>2. CASE InsertCustomer(h)
  BY <1>2, <1>m, <1>e DEF InsertCustomer
<1>3. CASE FindConversation(h)
  <2>1. CASE Goto(h, "create")
    BY <1>3, <2>1, <1>m DEF FindConversation
  <2>2. ASSUME NEW k \in LatestActive(Sender(h)), NEW label \in {"close", "touch"},
               handlers' = [handlers EXCEPT ![h].conv = k, ![h].pc = label]
        PROVE  Kinds
    <3> DEFINE r == [handlers[h] EXCEPT !.conv = k, !.pc = label]
    <3>1. k \in Nat
      BY <2>2 DEF LatestActive, Active, Typed
    <3>2. r \in HandlerRecords /\ r.msg = handlers[h].msg /\ r.pc = label
      BY <1>t, <3>1 DEF HandlerRecords
    <3>3. Replaces(h, r)
      BY <2>2 DEF Replaces, Typed, HandlerRecords
    <3> HIDE DEF r
    <3>4. Moves(h, r)
      BY <1>3, <3>2, <3>3 DEF Moves, FindConversation
    <3> QED
      BY <3>4 DEF Kinds
  <2> QED
    BY <1>3, <2>1, <2>2 DEF FindConversation
<1>4. CASE CloseConversation(h)
  BY <1>4, <1>m DEF CloseConversation
<1>5. CASE TouchConversation(h)
  BY <1>5, <1>m DEF TouchConversation
<1>6. CASE CreateConversation(h)
  <2>c. Cardinality(DOMAIN convs) \in Nat
    BY FS_CardinalityType DEF Typed
  <2> DEFINE k == Cardinality(DOMAIN convs) + 1
  <2>1. k \in Nat /\ handlers' = [handlers EXCEPT ![h].conv = k, ![h].pc = "store"]
    BY <1>6, <2>c DEF CreateConversation
  <2> HIDE DEF k
  <2> DEFINE r == [handlers[h] EXCEPT !.conv = k, !.pc = "store"]
  <2>2. r \in HandlerRecords /\ r.msg = handlers[h].msg /\ r.pc = "store"
    BY <1>t, <2>1 DEF HandlerRecords
  <2>3. Replaces(h, r)
    BY <2>1 DEF Replaces, Typed, HandlerRecords
  <2> HIDE DEF r
  <2>4. Moves(h, r)
    BY <1>6, <2>2, <2>3 DEF Moves, CreateConversation
  <2> QED
    BY <2>4 DEF Kinds
<1>7. CASE StoreInbound(h)
  <2>1. CASE Stored(handlers[h].msg)
    <3>1. Replaces(h, HandlerIdle)
      BY <1>7, <2>1, FinishIs DEF StoreInbound
    <3>2. Ends(h)
      BY <1>7, <2>1, <3>1 DEF StoreInbound, Stored, Ends
    <3> QED
      BY <3>2 DEF Kinds
  <2>2. CASE ~Stored(handlers[h].msg)
    <3>1. Replaces(h, [handlers[h] EXCEPT !.pc = "settle"])
      BY <1>7, <2>2, GotoIs DEF StoreInbound
    <3>2. DOMAIN inbound' = DOMAIN inbound \cup {handlers[h].msg}
      BY <1>7, <2>2 DEF StoreInbound, Put
    <3> QED
      BY <1>7, <2>2, <3>1, <3>2 DEF StoreInbound, Stored, Stores, Kinds
  <2> QED
    BY <2>1, <2>2
<1>8. CASE SettleQuestion(h)
  BY <1>8, <1>m, <1>e DEF SettleQuestion
<1>9. CASE AskAssistant(h)
  <2>1. PICK tags \in Tags : handlers' = [handlers EXCEPT ![h].tags = tags, ![h].pc = "save"]
    BY <1>9 DEF AskAssistant
  <2> DEFINE r == [handlers[h] EXCEPT !.tags = tags, !.pc = "save"]
  <2>2. r \in HandlerRecords /\ r.msg = handlers[h].msg /\ r.pc = "save"
    BY <1>t DEF HandlerRecords
  <2>3. Replaces(h, r)
    BY <2>1 DEF Replaces, Typed, HandlerRecords
  <2> HIDE DEF r
  <2>4. Moves(h, r)
    BY <1>9, <2>2, <2>3 DEF Moves, AskAssistant
  <2> QED
    BY <2>4 DEF Kinds
<1>10. CASE SaveAnswer(h)
  <2>1. PICK label \in {"order", "book", "send"} : Goto(h, label)
    BY <1>10 DEF SaveAnswer, AfterOrder
  <2> QED
    BY <1>10, <2>1, <1>m DEF SaveAnswer
<1>11. CASE CreateServiceRequest(h)
  <2>1. PICK ms \in Millis :
          LET i == [at |-> now, ms |-> ms] IN
          IF i \in DOMAIN orders
          THEN Finish(h) /\ failed' = failed \cup {handlers[h].msg} /\ UNCHANGED orders
          ELSE /\ orders' = Put(orders, i, [msg |-> handlers[h].msg, customer |-> Sender(h),
                                            org |-> OrgOf[Sender(h)], status |-> "pending"])
               /\ Goto(h, AfterOrder(h))
               /\ UNCHANGED failed
    BY <1>11 DEF CreateServiceRequest
  <2> DEFINE i == [at |-> now, ms |-> ms]
             o == [msg |-> handlers[h].msg, customer |-> Sender(h),
                   org |-> OrgOf[Sender(h)], status |-> "pending"]
  <2>2. CASE i \in DOMAIN orders
    BY <1>11, <2>1, <2>2, <1>e DEF CreateServiceRequest
  <2>3. CASE i \notin DOMAIN orders
    <3>1. i \in OrderIds
      BY DEF Typed, OrderIds
    <3>2. o \in OrderRows /\ o.msg = handlers[h].msg /\ o.customer = SenderOf[o.msg]
          /\ o.status = "pending"
      BY <1>11, <1>t, ConversationAssumption DEF CreateServiceRequest, OrderRows, Sender
    <3>3. PICK label \in {"book", "send"} : Goto(h, label)
      BY <2>1, <2>3 DEF AfterOrder
    <3>4. Replaces(h, [handlers[h] EXCEPT !.pc = label])
      BY <3>3, GotoIs
    <3>5. orders' = Put(orders, i, o) /\ UNCHANGED failed
      BY <2>1, <2>3
    <3> HIDE DEF i, o
    <3> QED
      BY <1>11, <2>3, <3>1, <3>2, <3>4, <3>5 DEF CreateServiceRequest, OrdersOne, Kinds
  <2> QED
    BY <2>2, <2>3
<1>12. CASE BookAppointment(h)
  BY <1>12, <1>m, <1>e DEF BookAppointment
<1>13. CASE SendAnswer(h)
  BY <1>13, FinishIs DEF SendAnswer, Sends, Kinds
<1>14. CASE SendAnswerFails(h)
  BY <1>14, <1>e DEF SendAnswerFails
<1> QED
  BY <1>1, <1>2, <1>3, <1>4, <1>5, <1>6, <1>7, <1>8, <1>9, <1>10, <1>11, <1>12, <1>13, <1>14
     DEF HandlerStep

LEMMA NextKinds ==
  ASSUME Typed, [Next]_vars
  PROVE  StepKinds
<1>1. ASSUME NEW h \in Handlers, HandlerStep(h) PROVE StepKinds
  BY <1>1, HandlerStepKinds
<1>2. ASSUME NEW h \in Handlers, NEW m \in Messages, Deliver(h, m) PROVE StepKinds
  <2>1. Begins(h, m)
    BY <1>2 DEF Deliver, Begins, Stored, Replaces
  <2> QED
    BY <2>1 DEF StepKinds
<1>3. ASSUME NEW a \in Admins, UpdateServiceRequest(a) PROVE Elsewhere
  <2>1. orders' = [orders EXCEPT ![admins[a].order].status = admins[a].status]
    BY <1>3 DEF UpdateServiceRequest
  <2>2. \A i \in DOMAIN orders : orders[i] \in OrderRows
    BY DEF Typed
  <2>3. /\ DOMAIN orders' = DOMAIN orders
        /\ \A i \in DOMAIN orders : orders'[i].msg = orders[i].msg
                                  /\ orders'[i].customer = orders[i].customer
    BY <2>1, <2>2 DEF OrderRows
  <2> QED
    BY <1>3, <2>3 DEF UpdateServiceRequest, Elsewhere
<1>4. ASSUME UNCHANGED <<orders, inbound, handlers, delivered, sent, failed>> PROVE Elsewhere
  BY <1>4 DEF Elsewhere
<1>5. ASSUME NEW a \in Admins, NotifyCustomer(a) \/ NotifyFails(a) PROVE Elsewhere
  BY <1>4, <1>5 DEF NotifyCustomer, NotifyFails
<1>6. ASSUME NEW a \in Admins, NEW org, NEW key, NEW status, AdminCommand(a, org, key, status)
      PROVE  Elsewhere
  BY <1>4, <1>6 DEF AdminCommand
<1>7. CloseExpiredConversations \/ Advance \/ UNCHANGED vars => Elsewhere
  BY <1>4 DEF CloseExpiredConversations, Advance, vars
<1> QED
  BY <1>1, <1>2, <1>3, <1>5, <1>6, <1>7 DEF Next, AdminStep, StepKinds

-----------------------------------------------------------------------------
(* The types.                                                              *)
LEMMA InitTyped == Init => Typed
<1> SUFFICES ASSUME Init PROVE Typed
  OBVIOUS
<1>1. HandlerIdle \in HandlerRecords
  BY DEF HandlerIdle, HandlerRecords, HandlerPcs, Tags
<1>2. AdminIdle \in AdminRecords
  BY DEF AdminIdle, AdminRecords
<1>3. IsFiniteSet(DOMAIN convs)
  <2>1. DOMAIN convs = {}
    BY DEF Init
  <2> QED
    BY <2>1, FS_EmptySet
<1>4. 0 \in 0..Horizon
  BY ConversationAssumption
<1> QED
  BY <1>1, <1>2, <1>3, <1>4 DEF Init, Typed, HandlerIdle, AdminIdle, AdminHolds

(* The handlers, whichever step it is.                                     *)
LEMMA KindsKeepHandlers ==
  ASSUME Typed, StepKinds
  PROVE  /\ handlers' \in [Handlers -> HandlerRecords]
         /\ \A h \in Handlers : handlers'[h].pc # "idle" => handlers'[h].msg \in Messages
         /\ DOMAIN inbound' \subseteq Messages
         /\ delivered' \in [Messages -> Nat] /\ sent' \in [Messages -> Nat]
<1>i. HandlerIdle \in HandlerRecords /\ HandlerIdle.pc = "idle"
  BY DEF HandlerIdle, HandlerRecords, HandlerPcs, Tags
<1>t. /\ handlers \in [Handlers -> HandlerRecords]
      /\ \A h \in Handlers : handlers[h].pc # "idle" => handlers[h].msg \in Messages
      /\ DOMAIN inbound \subseteq Messages
      /\ delivered \in [Messages -> Nat] /\ sent \in [Messages -> Nat]
  BY DEF Typed
<1>r. ASSUME NEW h \in Handlers, NEW r \in HandlerRecords, Replaces(h, r),
             r.pc # "idle" => r.msg \in Messages
      PROVE  /\ handlers' \in [Handlers -> HandlerRecords]
             /\ \A g \in Handlers : handlers'[g].pc # "idle" => handlers'[g].msg \in Messages
  BY <1>t, <1>r DEF Replaces
<1>p. ASSUME NEW h \in Handlers, NEW label \in HandlerPcs
      PROVE  /\ [handlers[h] EXCEPT !.pc = label] \in HandlerRecords
             /\ [handlers[h] EXCEPT !.pc = label].msg = handlers[h].msg
  BY <1>t DEF HandlerRecords
<1> DEFINE Kept ==
      /\ handlers' \in [Handlers -> HandlerRecords]
      /\ \A h \in Handlers : handlers'[h].pc # "idle" => handlers'[h].msg \in Messages
      /\ DOMAIN inbound' \subseteq Messages
      /\ delivered' \in [Messages -> Nat] /\ sent' \in [Messages -> Nat]
<1>1. ASSUME NEW h \in Handlers, NEW r, Moves(h, r) PROVE Kept
  BY <1>1, <1>t, <1>r DEF Moves
<1>2. ASSUME NEW h \in Handlers, Stores(h) PROVE Kept
  BY <1>2, <1>t, <1>r, <1>p DEF Stores, HandlerPcs
<1>3. ASSUME NEW h \in Handlers, Ends(h) PROVE Kept
  BY <1>3, <1>t, <1>r, <1>i DEF Ends
<1>4. ASSUME NEW h \in Handlers, OrdersOne(h) PROVE Kept
  BY <1>4, <1>t, <1>r, <1>p DEF OrdersOne, HandlerPcs
<1>5. ASSUME NEW h \in Handlers, Sends(h) PROVE Kept
  BY <1>5, <1>t, <1>r, <1>i DEF Sends
<1>6. ASSUME NEW h \in Handlers, NEW m \in Messages, Begins(h, m) PROVE Kept
  <2> DEFINE r == [HandlerIdle EXCEPT !.pc = "customer", !.msg = m]
  <2>1. r \in HandlerRecords /\ r.msg = m
    BY DEF HandlerIdle, HandlerRecords, HandlerPcs, Tags
  <2>2. delivered' \in [Messages -> Nat]
    BY <1>6, <1>t DEF Begins
  <2> HIDE DEF r
  <2>3. Replaces(h, r) \/ UNCHANGED handlers
    BY <1>6 DEF Begins, r
  <2> QED
    BY <1>6, <1>t, <1>r, <2>1, <2>2, <2>3 DEF Begins
<1>7. CASE Elsewhere
  BY <1>7, <1>t DEF Elsewhere
<1>8. CASE Restart
  BY <1>8, <1>t, <1>i DEF Restart
<1> QED
  BY <1>1, <1>2, <1>3, <1>4, <1>5, <1>6, <1>7, <1>8 DEF StepKinds

(* No row of an order is ever deleted.                                     *)
LEMMA KindsKeepOrders == ASSUME StepKinds PROVE DOMAIN orders \subseteq DOMAIN orders'
<1>1. ASSUME NEW h \in Handlers, OrdersOne(h) PROVE DOMAIN orders \subseteq DOMAIN orders'
  BY <1>1 DEF OrdersOne, Put
<1> QED
  BY <1>1 DEF StepKinds, Moves, Stores, Ends, Sends, Begins, Elsewhere, Restart

LEMMA StepTyped == Typed /\ [Next]_vars => Typed'
<1> SUFFICES ASSUME Typed, [Next]_vars PROVE Typed'
  OBVIOUS
<1>1. /\ handlers' \in [Handlers -> HandlerRecords]
      /\ \A h \in Handlers : handlers'[h].pc # "idle" => handlers'[h].msg \in Messages
      /\ DOMAIN inbound' \subseteq Messages
      /\ delivered' \in [Messages -> Nat] /\ sent' \in [Messages -> Nat]
  BY NextKinds, KindsKeepHandlers
<1>2. now' \in 0..Horizon
  <2>1. now' = now \/ Advance
    BY ZenonT(40) DEF Next, vars, HandlerStep, FindCustomer, InsertCustomer, FindConversation,
           CloseConversation, TouchConversation, CreateConversation, StoreInbound,
           SettleQuestion, AskAssistant, SaveAnswer, CreateServiceRequest, BookAppointment,
           SendAnswer, SendAnswerFails, Deliver, AdminStep, UpdateServiceRequest,
           NotifyCustomer, NotifyFails, AdminCommand, CloseExpiredConversations, Restart
  <2> QED
    BY SMTT(40), <2>1, ConversationAssumption DEF Advance, Typed
<1>3. DOMAIN convs' \subseteq Nat /\ IsFiniteSet(DOMAIN convs')
  <2>1. DOMAIN convs' = DOMAIN convs \/ \E h \in Handlers : CreateConversation(h)
    BY ZenonT(40) DEF Next, vars, HandlerStep, FindCustomer, InsertCustomer, FindConversation,
           CloseConversation, TouchConversation, StoreInbound,
           SettleQuestion, AskAssistant, SaveAnswer, CreateServiceRequest, BookAppointment,
           SendAnswer, SendAnswerFails, Deliver, AdminStep, UpdateServiceRequest,
           NotifyCustomer, NotifyFails, AdminCommand, CloseExpiredConversations, Advance, Restart
  <2>2. ASSUME NEW h \in Handlers, CreateConversation(h)
        PROVE  DOMAIN convs' \subseteq Nat /\ IsFiniteSet(DOMAIN convs')
    <3>c. Cardinality(DOMAIN convs) \in Nat
      BY FS_CardinalityType DEF Typed
    <3> DEFINE k == Cardinality(DOMAIN convs) + 1
    <3>1. k \in Nat /\ DOMAIN convs' = DOMAIN convs \cup {k}
      BY <2>2, <3>c DEF CreateConversation, Put
    <3> HIDE DEF k
    <3> QED
      BY <3>1, FS_AddElement DEF Typed
  <2> QED
    BY <2>1, <2>2 DEF Typed
<1>4. DOMAIN orders' \subseteq OrderIds /\ \A i \in DOMAIN orders' : orders'[i] \in OrderRows
  <2>1. ASSUME NEW h \in Handlers, CreateServiceRequest(h)
        PROVE  UNCHANGED orders
                 \/ \E i \in OrderIds, o \in OrderRows : orders' = Put(orders, i, o)
    <3>1. PICK ms \in Millis :
            \/ UNCHANGED orders
            \/ orders' = Put(orders, [at |-> now, ms |-> ms],
                             [msg |-> handlers[h].msg, customer |-> Sender(h),
                              org |-> OrgOf[Sender(h)], status |-> "pending"])
      BY <2>1 DEF CreateServiceRequest
    <3>2. [at |-> now, ms |-> ms] \in OrderIds
      BY DEF Typed, OrderIds
    <3>3. [msg |-> handlers[h].msg, customer |-> Sender(h),
           org |-> OrgOf[Sender(h)], status |-> "pending"] \in OrderRows
      BY <2>1, ConversationAssumption DEF CreateServiceRequest, Typed, OrderRows, Sender
    <3> QED
      BY <3>1, <3>2, <3>3
  <2>2. ASSUME NEW i \in OrderIds, NEW o \in OrderRows, orders' = Put(orders, i, o)
        PROVE  DOMAIN orders' \subseteq OrderIds
               /\ \A j \in DOMAIN orders' : orders'[j] \in OrderRows
    BY <2>2 DEF Put, Typed
  <2>3. ASSUME NEW a \in Admins, UpdateServiceRequest(a)
        PROVE  DOMAIN orders' \subseteq OrderIds
               /\ \A j \in DOMAIN orders' : orders'[j] \in OrderRows
    <3>1. admins[a].status \in NewStatuses
      BY <2>3, SMTT(40) DEF UpdateServiceRequest, Typed, AdminHolds
    <3>2. orders' = [orders EXCEPT ![admins[a].order].status = admins[a].status]
      BY <2>3 DEF UpdateServiceRequest
    <3> QED
      BY <3>1, <3>2 DEF Typed, OrderRows
  <2>4. \/ UNCHANGED orders
        \/ \E h \in Handlers : CreateServiceRequest(h)
        \/ \E a \in Admins : UpdateServiceRequest(a)
    BY ZenonT(40) DEF Next, vars, HandlerStep, FindCustomer, InsertCustomer, FindConversation,
           CloseConversation, TouchConversation, CreateConversation, StoreInbound,
           SettleQuestion, AskAssistant, SaveAnswer, BookAppointment,
           SendAnswer, SendAnswerFails, Deliver, AdminStep,
           NotifyCustomer, NotifyFails, AdminCommand, CloseExpiredConversations, Advance, Restart
  <2> QED
    BY <2>1, <2>2, <2>3, <2>4 DEF Typed
<1>5. /\ admins' \in [Admins -> AdminRecords]
      /\ \A a \in Admins : AdminHolds(a)'
  <2>t. /\ admins \in [Admins -> AdminRecords]
        /\ \A a \in Admins : AdminHolds(a)
        /\ AdminIdle \in AdminRecords /\ AdminIdle.pc = "idle"
    BY DEF Typed, AdminRecords, AdminIdle
  <2>d. DOMAIN orders \subseteq DOMAIN orders'
    BY NextKinds, KindsKeepOrders
  <2> DEFINE Kept == admins' \in [Admins -> AdminRecords] /\ \A b \in Admins : AdminHolds(b)'
  <2>1. ASSUME NEW a \in Admins, NEW r \in AdminRecords, admins' = [admins EXCEPT ![a] = r],
               r.pc # "idle" => r.order \in DOMAIN orders /\ r.status \in NewStatuses
        PROVE  Kept
    BY <2>t, <2>d, <2>1 DEF AdminHolds
  <2>2. ASSUME NEW a \in Admins, UpdateServiceRequest(a) PROVE Kept
    <3> DEFINE r == [admins[a] EXCEPT !.pc = "notify"]
    <3>1. admins[a].order \in DOMAIN orders /\ admins[a].status \in NewStatuses
      BY <2>t, <2>2 DEF UpdateServiceRequest, AdminHolds
    <3>2. r \in AdminRecords /\ r.order \in DOMAIN orders /\ r.status \in NewStatuses
      BY <2>t, <3>1 DEF AdminRecords
    <3>3. admins' = [admins EXCEPT ![a] = r]
      BY <2>2 DEF UpdateServiceRequest
    <3> HIDE DEF r, Kept
    <3> QED
      BY <2>1, <3>2, <3>3
  <2>3. ASSUME NEW a \in Admins, NEW org \in Orgs, NEW key \in DOMAIN orders \cup Millis,
               NEW status \in NewStatuses, AdminCommand(a, org, key, status)
        PROVE  Kept
    <3>1. CASE Found(key) # {}
      <4> DEFINE i == CHOOSE j \in Found(key) : TRUE
                 r == [pc |-> "update", org |-> org, status |-> status, order |-> i]
      <4>1. i \in Found(key)
        BY <3>1
      <4>2. i \in DOMAIN orders /\ i \in OrderIds
        BY <4>1 DEF Found, Typed
      <4>3. admins' = [admins EXCEPT ![a] = r]
        BY <2>3, <3>1 DEF AdminCommand
      <4> HIDE DEF i
      <4>4. r \in AdminRecords /\ r.order \in DOMAIN orders /\ r.status \in NewStatuses
        BY <4>2 DEF AdminRecords
      <4> HIDE DEF r, Kept
      <4> QED
        BY <2>1, <4>3, <4>4
    <3>2. CASE Found(key) = {}
      BY <2>3, <2>t, <2>d, <3>2 DEF AdminCommand, AdminHolds
    <3> QED
      BY <3>1, <3>2
  <2>4. ASSUME NEW a \in Admins, NotifyCustomer(a) \/ NotifyFails(a) PROVE Kept
    <3>1. admins' = [admins EXCEPT ![a] = AdminIdle]
      BY <2>4 DEF NotifyCustomer, NotifyFails
    <3> HIDE DEF Kept
    <3> QED
      BY <2>t, <2>1, <3>1, Zenon
  <2>5. CASE Restart
    BY <2>t, <2>5 DEF Restart, AdminHolds
  <2>6. (\E h \in Handlers : HandlerStep(h) \/ \E m \in Messages : Deliver(h, m))
          \/ CloseExpiredConversations \/ Advance \/ UNCHANGED vars => UNCHANGED admins
    BY ZenonT(40) DEF vars, HandlerStep, FindCustomer, InsertCustomer, FindConversation,
           CloseConversation, TouchConversation, CreateConversation, StoreInbound,
           SettleQuestion, AskAssistant, SaveAnswer, CreateServiceRequest, BookAppointment,
           SendAnswer, SendAnswerFails, Deliver, CloseExpiredConversations, Advance
  <2>7. UNCHANGED admins => Kept
    BY <2>t, <2>d DEF AdminHolds
  <2> QED
    BY <2>2, <2>3, <2>4, <2>5, <2>6, <2>7 DEF Next, AdminStep
<1>6. told' \in [OrderIds -> SUBSET NewStatuses] /\ faults' \in Nat
  <2>1. faults' \in {faults, faults + 1} /\ (UNCHANGED told \/ \E a \in Admins : NotifyCustomer(a))
    BY ZenonT(40) DEF Next, vars, HandlerStep, FindCustomer, InsertCustomer, FindConversation,
           CloseConversation, TouchConversation, CreateConversation, StoreInbound,
           SettleQuestion, AskAssistant, SaveAnswer, CreateServiceRequest, BookAppointment,
           SendAnswer, SendAnswerFails, Deliver, AdminStep, UpdateServiceRequest,
           NotifyCustomer, NotifyFails, AdminCommand, CloseExpiredConversations, Advance, Restart
  <2>2. ASSUME NEW a \in Admins, NotifyCustomer(a) PROVE told' \in [OrderIds -> SUBSET NewStatuses]
    <3>1. admins[a].order \in OrderIds /\ admins[a].status \in NewStatuses
      BY <2>2 DEF NotifyCustomer, Typed, AdminHolds
    <3>2. told' = [told EXCEPT ![admins[a].order] = @ \cup {admins[a].status}]
      BY <2>2 DEF NotifyCustomer
    <3> QED
      BY <3>1, <3>2 DEF Typed
  <2> QED
    BY <2>1, <2>2 DEF Typed
<1> QED
  BY <1>1, <1>2, <1>3, <1>4, <1>5, <1>6 DEF Typed

-----------------------------------------------------------------------------
(* Statuses: what an order was given is told, or about to be.              *)

Telling(a, i) ==
  admins[a].pc = "notify" /\ admins[a].order = i /\ admins[a].status = orders[i].status

Known(i) ==
  \/ orders[i].status = "pending" \/ orders[i].status \in told[i] \/ faults > 0
  \/ \E a \in Admins : Telling(a, i)

StatusKnown == \A i \in DOMAIN orders : Known(i)

LEMMA StepStatusKnown == Typed /\ StatusKnown /\ [Next]_vars => StatusKnown'
<1> SUFFICES ASSUME Typed, StatusKnown, [Next]_vars PROVE StatusKnown'
  OBVIOUS
<1>f. faults \in Nat
  BY DEF Typed
<1>1. CASE UNCHANGED <<orders, told, faults, admins>>
  BY <1>1 DEF StatusKnown, Known, Telling
<1>2. ASSUME faults' = faults + 1 PROVE StatusKnown'
  BY <1>2, <1>f DEF StatusKnown, Known
<1>3. ASSUME NEW h \in Handlers, CreateServiceRequest(h) PROVE StatusKnown'
  <2>1. UNCHANGED <<told, faults, admins>>
    BY <1>3 DEF CreateServiceRequest
  <2>2. ASSUME NEW i \in DOMAIN orders'
        PROVE  orders'[i].status = "pending" \/ (i \in DOMAIN orders /\ orders'[i] = orders[i])
    BY <1>3 DEF CreateServiceRequest, Put
  <2> QED
    BY <2>1, <2>2 DEF StatusKnown, Known, Telling
<1>4. ASSUME NEW a \in Admins, UpdateServiceRequest(a) PROVE StatusKnown'
  <2> PICK n : n = admins[a].order
    OBVIOUS
  <2>1. /\ orders' = [orders EXCEPT ![n].status = admins[a].status]
        /\ admins' = [admins EXCEPT ![a].pc = "notify"]
        /\ admins[a].pc = "update" /\ UNCHANGED <<told, faults>>
    BY <1>4 DEF UpdateServiceRequest
  <2>t. admins \in [Admins -> AdminRecords] /\ \A i \in DOMAIN orders : orders[i] \in OrderRows
    BY DEF Typed
  <2>2. /\ admins'[a].pc = "notify" /\ admins'[a].order = n
        /\ admins'[a].status = admins[a].status
        /\ \A b \in Admins \ {a} : admins'[b] = admins[b]
    BY <2>1, <2>t DEF AdminRecords
  <2>3. /\ DOMAIN orders' = DOMAIN orders
        /\ \A i \in DOMAIN orders : i # n => orders'[i] = orders[i]
        /\ n \in DOMAIN orders => orders'[n].status = admins[a].status
    BY <2>1, <2>t DEF OrderRows
  <2>4. ASSUME NEW i \in DOMAIN orders PROVE Known(i)'
    <3>1. CASE i = n
      BY <2>2, <2>3, <3>1 DEF Known, Telling
    <3>2. CASE i # n
      <4>1. ASSUME NEW b \in Admins, Telling(b, i) PROVE Telling(b, i)'
        BY <2>1, <2>2, <2>3, <3>2, <4>1 DEF Telling
      <4> QED
        BY <2>1, <2>3, <3>2, <4>1 DEF StatusKnown, Known
    <3> QED
      BY <3>1, <3>2
  <2> QED
    BY <2>3, <2>4 DEF StatusKnown
<1>5. ASSUME NEW a \in Admins, NotifyCustomer(a) PROVE StatusKnown'
  <2>1. /\ told' = [told EXCEPT ![admins[a].order] = @ \cup {admins[a].status}]
        /\ admins' = [admins EXCEPT ![a] = AdminIdle]
        /\ UNCHANGED <<orders, faults>>
    BY <1>5 DEF NotifyCustomer
  <2>2. told \in [OrderIds -> SUBSET NewStatuses] /\ DOMAIN orders \subseteq OrderIds
        /\ admins \in [Admins -> AdminRecords]
    BY DEF Typed
  <2>3. ASSUME NEW i \in DOMAIN orders PROVE Known(i)'
    <3>1. told[i] \subseteq told'[i]
      BY <2>1, <2>2
    <3>2. CASE Telling(a, i)
      <4>1. orders[i].status \in told'[i]
        BY <2>1, <2>2, <3>2 DEF Telling
      <4> QED
        BY <2>1, <4>1 DEF Known
    <3>3. ASSUME NEW b \in Admins, b # a, Telling(b, i) PROVE Telling(b, i)'
      BY <2>1, <2>2, <3>3 DEF Telling
    <3>4. CASE orders[i].status = "pending" \/ orders[i].status \in told[i] \/ faults > 0
      BY <2>1, <3>1, <3>4 DEF Known
    <3>5. CASE \E b \in Admins : b # a /\ Telling(b, i)
      BY <3>3, <3>5 DEF Known
    <3> QED
      BY <3>2, <3>4, <3>5 DEF StatusKnown, Known
  <2> QED
    BY <2>1, <2>3 DEF StatusKnown
<1>6. ASSUME NEW a \in Admins, NEW org, NEW key, NEW status, AdminCommand(a, org, key, status)
      PROVE  StatusKnown'
  <2>1. UNCHANGED <<orders, told, faults>> /\ admins[a].pc = "idle"
        /\ \E r : admins' = [admins EXCEPT ![a] = r] \/ admins' = admins
    BY <1>6 DEF AdminCommand
  <2>2. ASSUME NEW b \in Admins, NEW i \in DOMAIN orders, Telling(b, i) PROVE Telling(b, i)'
    BY <2>1, <2>2 DEF Telling, Typed
  <2> QED
    BY <2>1, <2>2 DEF StatusKnown, Known
<1>7. \/ UNCHANGED <<orders, told, faults, admins>> \/ faults' = faults + 1
      \/ \E h \in Handlers : CreateServiceRequest(h)
      \/ \E a \in Admins :
           \/ UpdateServiceRequest(a) \/ NotifyCustomer(a)
           \/ \E org \in Orgs, key \in DOMAIN orders \cup Millis, status \in NewStatuses :
                AdminCommand(a, org, key, status)
  BY ZenonT(40) DEF Next, vars, HandlerStep, FindCustomer, InsertCustomer, FindConversation,
         CloseConversation, TouchConversation, CreateConversation, StoreInbound, SettleQuestion,
         AskAssistant, SaveAnswer, BookAppointment, SendAnswer, SendAnswerFails, Deliver,
         AdminStep, NotifyFails, CloseExpiredConversations, Advance, Restart
<1> QED
  BY <1>1, <1>2, <1>3, <1>4, <1>5, <1>6, <1>7

-----------------------------------------------------------------------------
(* Messages and orders.                                                    *)

LEMMA InitHInv == Init => HInv
BY DEF Init, HInv, WorkedOnce, SentStored, OrdersStored, NothingDropped, HasToItself, Busy,
       HandlerIdle, Late, Unordered

LEMMA MovesKeeps ==
  ASSUME Typed, HInv, NEW h \in Handlers, NEW r, Moves(h, r)
  PROVE  HInv'
<1>1. /\ \A g \in Handlers \ {h} : handlers'[g] = handlers[g]
      /\ handlers'[h] = r
  BY DEF Moves, Replaces, Typed
<1>2. \A g \in Handlers : \A m : /\ HasToItself(g, m)' <=> HasToItself(g, m)
                                 /\ Busy(g, m)' <=> Busy(g, m)
  BY <1>1 DEF Moves, HasToItself, Busy
<1>3. \A g \in Handlers : /\ handlers'[g].pc \in Unordered => handlers[g].pc \in Unordered
                          /\ handlers'[g].msg = handlers[g].msg
  BY <1>1 DEF Moves
<1>4. UNCHANGED <<inbound, orders, delivered, sent, failed>>
  BY DEF Moves
<1>5. WorkedOnce' /\ SentStored'
  <2>1. WorkedOnce'
    BY <1>2, <1>4 DEF HInv, WorkedOnce
  <2>2. SentStored'
    BY <1>4 DEF HInv, SentStored
  <2> QED
    BY <2>1, <2>2
<1>6. OrdersStored'
  BY <1>3, <1>4 DEF HInv, OrdersStored
<1>7. NothingDropped'
  BY <1>2, <1>4 DEF HInv, NothingDropped, Served, HasToItself, Busy
<1> QED
  BY <1>5, <1>6, <1>7 DEF HInv

LEMMA StoresKeeps ==
  ASSUME Typed, HInv, NEW h \in Handlers, Stores(h)
  PROVE  HInv'
<1> PICK n \in Messages : n = handlers[h].msg
  BY DEF Stores, Typed
<1>t. n \in Messages /\ handlers[h] \in HandlerRecords /\ sent[n] \in Nat /\ sent[n] # 1
  BY DEF Stores, Typed, HInv, SentStored
<1>1. /\ \A g \in Handlers \ {h} : handlers'[g] = handlers[g]
      /\ handlers'[h].pc = "settle" /\ handlers'[h].msg = n
  BY <1>t DEF Stores, Replaces, Typed, HandlerRecords
<1>2. UNCHANGED <<orders, delivered, sent, failed>> /\ DOMAIN inbound' = DOMAIN inbound \cup {n}
      /\ n \notin DOMAIN inbound /\ handlers[h].pc = "store"
  BY DEF Stores
<1>3. \A g \in Handlers : \A m : /\ HasToItself(g, m)' <=> HasToItself(g, m) \/ (g = h /\ m = n)
                                 /\ Busy(g, m)' <=> Busy(g, m)
  BY <1>1, <1>2 DEF HasToItself, Busy, Late
<1>4. \A g \in Handlers : ~HasToItself(g, n)
  BY <1>t, <1>2 DEF HInv, WorkedOnce
<1>5. sent[n] = 0
  BY <1>t DEF HInv, SentStored
<1>6. WorkedOnce'
  BY <1>2, <1>3, <1>4, <1>5 DEF HInv, WorkedOnce, HasToItself, Busy
<1>7. SentStored'
  BY <1>2 DEF HInv, SentStored
<1>8. OrdersStored'
  <2>1. \A i \in DOMAIN orders : orders[i].msg # n
    BY <1>2 DEF HInv, OrdersStored
  <2> QED
    BY <1>1, <1>2, <2>1 DEF HInv, OrdersStored
<1>9. NothingDropped'
  <2> SUFFICES ASSUME NEW m \in Messages
               PROVE  /\ \A g \in Handlers : Busy(g, m)' => delivered[m] > 0
                      /\ delivered[m] > 0 => Served(m)' \/ \E g \in Handlers : Busy(g, m)'
                      /\ m \in DOMAIN inbound \cup {n} =>
                           /\ delivered[m] > 0
                           /\ Served(m)' \/ \E g \in Handlers : HasToItself(g, m)'
    BY <1>2 DEF NothingDropped
  <2>1. Served(m)' <=> Served(m)
    BY <1>2 DEF Served
  <2>2. CASE m = n
    <3>1. Busy(h, n) /\ Busy(h, n)' /\ HasToItself(h, n)'
      BY <1>1, <1>2 DEF HasToItself, Busy, Late
    <3>2. delivered[n] > 0
      BY <1>t, <3>1 DEF HInv, NothingDropped
    <3> QED
      BY <2>2, <3>1, <3>2
  <2>3. CASE m # n
    <3>1. \A g \in Handlers : /\ HasToItself(g, m)' <=> HasToItself(g, m)
                              /\ Busy(g, m)' <=> Busy(g, m)
      BY <1>3, <2>3
    <3> QED
      BY <2>1, <2>3, <3>1 DEF HInv, NothingDropped, HasToItself, Busy, Served
  <2> QED
    BY <2>2, <2>3
<1> QED
  BY <1>6, <1>7, <1>8, <1>9 DEF HInv

LEMMA EndsKeeps ==
  ASSUME Typed, HInv, NEW h \in Handlers, Ends(h)
  PROVE  HInv'
<1> PICK n \in Messages : n = handlers[h].msg
  BY DEF Ends, Typed
<1>t. n \in Messages
  BY DEF Ends, Typed
<1>1. /\ \A g \in Handlers \ {h} : handlers'[g] = handlers[g]
      /\ handlers'[h] = HandlerIdle
  BY DEF Ends, Replaces, Typed
<1>2. /\ UNCHANGED <<inbound, orders, delivered, sent>>
      /\ \/ failed' = failed \cup {n}
         \/ UNCHANGED failed /\ n \in DOMAIN inbound /\ handlers[h].pc \notin Late
  BY DEF Ends
<1>3. \A g \in Handlers : \A m : /\ HasToItself(g, m)' <=> HasToItself(g, m) /\ g # h
                                 /\ Busy(g, m)' <=> Busy(g, m) /\ g # h
  BY <1>1 DEF HasToItself, Busy, Late, HandlerIdle
<1>4. \A m : HasToItself(h, m) \/ Busy(h, m) => m = n
  BY DEF HasToItself, Busy
<1>5. WorkedOnce' /\ SentStored'
  <2>1. WorkedOnce'
    BY <1>2, <1>3 DEF HInv, WorkedOnce
  <2>2. SentStored'
    BY <1>2 DEF HInv, SentStored
  <2> QED
    BY <2>1, <2>2
<1>6. OrdersStored'
  BY <1>1, <1>2 DEF HInv, OrdersStored, HandlerIdle, Unordered
<1>7. NothingDropped'
  <2>1. CASE failed' = failed \cup {n}
    BY <1>2, <1>3, <1>4, <2>1, SMTT(40) DEF HInv, NothingDropped, Served, HasToItself, Busy
  <2>2. CASE UNCHANGED failed /\ n \in DOMAIN inbound /\ handlers[h].pc \notin Late
    <3>1. \A g \in Handlers : \A m : HasToItself(g, m)' <=> HasToItself(g, m)
      BY <1>3, <2>2 DEF HasToItself, Busy
    <3>2. \A g \in Handlers : \A m : HasToItself(g, m) => Busy(g, m)
      BY DEF HasToItself, Busy, Late
    <3>3. Served(n) \/ \E g \in Handlers : Busy(g, n)'
      <4>1. Served(n) \/ \E g \in Handlers : HasToItself(g, n)
        BY <1>t, <2>2 DEF HInv, NothingDropped
      <4>2. ASSUME NEW g \in Handlers, HasToItself(g, n) PROVE Busy(g, n)'
        <5>1. g # h
          BY <2>2, <4>2 DEF HasToItself
        <5> QED
          BY <1>1, <4>2, <5>1 DEF HasToItself, Busy, Late
      <4> QED
        BY <4>1, <4>2
    <3> QED
      <4> SUFFICES ASSUME NEW m \in Messages
                   PROVE  /\ \A g \in Handlers : Busy(g, m)' => delivered[m] > 0
                          /\ delivered[m] > 0 => Served(m) \/ \E g \in Handlers : Busy(g, m)'
                          /\ m \in DOMAIN inbound =>
                               /\ delivered[m] > 0
                               /\ Served(m) \/ \E g \in Handlers : HasToItself(g, m)'
        BY <1>2, <2>2 DEF NothingDropped, Served
      <4>1. \A g \in Handlers : Busy(g, m)' => Busy(g, m)
        BY <1>3
      <4>2. delivered[m] > 0 => Served(m) \/ \E g \in Handlers : Busy(g, m)'
        <5>1. CASE m = n
          BY <3>3, <5>1
        <5>2. CASE m # n
          <6>1. \A g \in Handlers : Busy(g, m)' <=> Busy(g, m)
            BY <1>3, <1>4, <5>2
          <6> QED
            BY <6>1 DEF HInv, NothingDropped, Busy
        <5> QED
          BY <5>1, <5>2
      <4>3. m \in DOMAIN inbound => delivered[m] > 0
                /\ (Served(m) \/ \E g \in Handlers : HasToItself(g, m)')
        BY <3>1 DEF HInv, NothingDropped, HasToItself
      <4> QED
        BY <4>1, <4>2, <4>3 DEF HInv, NothingDropped, Busy
  <2> QED
    BY <1>2, <2>1, <2>2
<1> QED
  BY <1>5, <1>6, <1>7 DEF HInv

LEMMA OrdersKeeps ==
  ASSUME Typed, HInv, NEW h \in Handlers, OrdersOne(h)
  PROVE  HInv'
<1> PICK n \in Messages : n = handlers[h].msg
  BY DEF OrdersOne, Typed
<1>1. PICK i \in OrderIds \ DOMAIN orders, o \in OrderRows :
        orders' = Put(orders, i, o) /\ o.msg = n /\ o.customer = SenderOf[n]
  BY DEF OrdersOne
<1>t. n \in Messages /\ handlers[h] \in HandlerRecords
  BY DEF OrdersOne, Typed
<1>2. PICK label \in {"book", "send"} : Replaces(h, [handlers[h] EXCEPT !.pc = label])
  BY DEF OrdersOne
<1>3. /\ \A g \in Handlers \ {h} : handlers'[g] = handlers[g]
      /\ handlers'[h].pc = label /\ handlers'[h].msg = n
  BY <1>t, <1>2 DEF Replaces, Typed, HandlerRecords
<1>4. UNCHANGED <<inbound, delivered, sent, failed>> /\ handlers[h].pc = "order"
  BY DEF OrdersOne
<1>5. HasToItself(h, n)
  BY <1>4 DEF HasToItself, Late
<1>6. \A g \in Handlers : \A m : /\ HasToItself(g, m)' <=> HasToItself(g, m)
                                 /\ Busy(g, m)' <=> Busy(g, m)
  BY <1>3, <1>4 DEF HasToItself, Busy, Late
<1>7. WorkedOnce' /\ SentStored' /\ NothingDropped'
  <2>1. WorkedOnce'
    BY <1>4, <1>6 DEF HInv, WorkedOnce
  <2>2. SentStored'
    BY <1>4 DEF HInv, SentStored
  <2>3. NothingDropped'
    BY <1>4, <1>6 DEF HInv, NothingDropped, Served
  <2> QED
    BY <2>1, <2>2, <2>3
<1>8. OrdersStored'
  <2>1. /\ DOMAIN orders' = DOMAIN orders \cup {i}
        /\ orders'[i] = o /\ \A j \in DOMAIN orders : orders'[j] = orders[j]
    BY <1>1 DEF Put
  <2>2. n \in DOMAIN inbound /\ \A g \in Handlers : HasToItself(g, n) => g = h
    BY <1>t, <1>5 DEF HInv, WorkedOnce
  <2>3. \A j \in DOMAIN orders : orders[j].msg # n
    BY <1>4 DEF HInv, OrdersStored, Unordered
  <2>4. \A g \in Handlers : handlers'[g].pc \in Unordered =>
          g # h /\ handlers'[g] = handlers[g] /\ handlers[g].msg # n
    BY <1>3, <2>2 DEF Unordered, Late, HasToItself
  <2> QED
    BY <1>1, <1>4, <2>1, <2>2, <2>3, <2>4 DEF HInv, OrdersStored
<1> QED
  BY <1>7, <1>8 DEF HInv

LEMMA SendsKeeps ==
  ASSUME Typed, HInv, NEW h \in Handlers, Sends(h)
  PROVE  HInv'
<1> PICK n \in Messages : n = handlers[h].msg
  BY DEF Sends, Typed
<1>t. n \in Messages /\ sent \in [Messages -> Nat]
  BY DEF Sends, Typed
<1>1. /\ \A g \in Handlers \ {h} : handlers'[g] = handlers[g]
      /\ handlers'[h] = HandlerIdle
  BY DEF Sends, Replaces, Typed
<1>2. UNCHANGED <<inbound, orders, delivered, failed>> /\ handlers[h].pc = "send"
  BY DEF Sends
<1>3. HasToItself(h, n)
  BY <1>2 DEF HasToItself, Late
<1>4. n \in DOMAIN inbound /\ sent[n] = 0 /\ \A g \in Handlers : HasToItself(g, n) => g = h
  BY <1>t, <1>3 DEF HInv, WorkedOnce
<1>5. sent'[n] = 1 /\ \A m \in Messages \ {n} : sent'[m] = sent[m]
  BY <1>t, <1>4 DEF Sends
<1>6. \A g \in Handlers : \A m : /\ HasToItself(g, m)' <=> HasToItself(g, m) /\ g # h
                                 /\ Busy(g, m)' <=> Busy(g, m) /\ g # h
  BY <1>1 DEF HasToItself, Busy, Late, HandlerIdle
<1>7. \A m : HasToItself(h, m) \/ Busy(h, m) => m = n
  BY DEF HasToItself, Busy
<1>8. WorkedOnce'
  BY <1>2, <1>4, <1>5, <1>6 DEF HInv, WorkedOnce, HasToItself, Busy
<1>9. SentStored'
  BY <1>2, <1>4, <1>5 DEF HInv, SentStored
<1>10. OrdersStored'
  BY <1>1, <1>2 DEF HInv, OrdersStored, HandlerIdle, Unordered
<1>11. NothingDropped'
  <2> SUFFICES ASSUME NEW m \in Messages
               PROVE  /\ \A g \in Handlers : Busy(g, m)' => delivered[m] > 0
                      /\ delivered[m] > 0 => Served(m)' \/ \E g \in Handlers : Busy(g, m)'
                      /\ m \in DOMAIN inbound =>
                           /\ delivered[m] > 0
                           /\ Served(m)' \/ \E g \in Handlers : HasToItself(g, m)'
    BY <1>2 DEF NothingDropped
  <2>1. CASE m = n
    <3>1. Served(m)'
      BY <1>5, <2>1 DEF Served
    <3> QED
      BY <1>6, <2>1, <3>1 DEF HInv, NothingDropped
  <2>2. CASE m # n
    <3>1. Served(m) => Served(m)'
      BY <1>2, <1>5, <2>2 DEF Served
    <3>2. \A g \in Handlers : /\ HasToItself(g, m)' <=> HasToItself(g, m)
                              /\ Busy(g, m)' <=> Busy(g, m)
      BY <1>6, <1>7, <2>2
    <3> QED
      BY <3>1, <3>2 DEF HInv, NothingDropped, HasToItself, Busy, Served
  <2> QED
    BY <2>1, <2>2
<1> QED
  BY <1>8, <1>9, <1>10, <1>11 DEF HInv

LEMMA BeginsKeeps ==
  ASSUME Typed, HInv, NEW h \in Handlers, NEW n \in Messages, Begins(h, n)
  PROVE  HInv'
<1>1. /\ UNCHANGED <<inbound, orders, sent, failed>> /\ handlers[h].pc = "idle"
      /\ delivered'[n] > 0
      /\ \A m \in Messages : (delivered[m] > 0 => delivered'[m] > 0)
                            /\ (m # n => delivered'[m] = delivered[m])
  BY DEF Begins, Typed
<1>2. CASE n \in DOMAIN inbound /\ UNCHANGED handlers
  <2>1. \A g \in Handlers : \A m : /\ HasToItself(g, m)' <=> HasToItself(g, m)
                                   /\ Busy(g, m)' <=> Busy(g, m)
    BY <1>2 DEF HasToItself, Busy
  <2>2. \A g \in Handlers : \A m : HasToItself(g, m) => Busy(g, m)
    BY DEF HasToItself, Busy, Late
  <2>3. WorkedOnce' /\ SentStored'
    <3>1. WorkedOnce'
      BY <1>1, <2>1 DEF HInv, WorkedOnce
    <3>2. SentStored'
      BY <1>1 DEF HInv, SentStored
    <3> QED
      BY <3>1, <3>2
  <2>4. OrdersStored'
    BY <1>1, <1>2 DEF HInv, OrdersStored
  <2>5. NothingDropped'
    BY <1>1, <1>2, <2>1, <2>2 DEF HInv, NothingDropped, Served, HasToItself, Busy
  <2> QED
    BY <2>3, <2>4, <2>5 DEF HInv
<1>3. CASE Replaces(h, [HandlerIdle EXCEPT !.pc = "customer", !.msg = n])
  <2>1. /\ \A g \in Handlers \ {h} : handlers'[g] = handlers[g]
        /\ handlers'[h].pc = "customer" /\ handlers'[h].msg = n
    BY <1>3 DEF Replaces, Typed, HandlerIdle
  <2>2. \A g \in Handlers : \A m : /\ HasToItself(g, m)' <=> HasToItself(g, m)
                                   /\ Busy(g, m)' <=> Busy(g, m) \/ (g = h /\ m = n)
    BY <1>1, <2>1 DEF HasToItself, Busy, Late
  <2>3. WorkedOnce' /\ SentStored'
    BY <1>1, <2>2, SMTT(40) DEF HInv, WorkedOnce, SentStored, HasToItself, Busy
  <2>4. OrdersStored'
    BY <1>1, <2>1 DEF HInv, OrdersStored, Unordered
  <2>5. NothingDropped'
    <3> SUFFICES ASSUME NEW m \in Messages
                 PROVE  /\ \A g \in Handlers : Busy(g, m)' => delivered'[m] > 0
                        /\ delivered'[m] > 0 => Served(m)' \/ \E g \in Handlers : Busy(g, m)'
                        /\ m \in DOMAIN inbound =>
                             /\ delivered'[m] > 0
                             /\ Served(m)' \/ \E g \in Handlers : HasToItself(g, m)'
      BY <1>1 DEF NothingDropped
    <3>1. Served(m)' <=> Served(m)
      BY <1>1 DEF Served
    <3>2. CASE m = n
      <4>1. Busy(h, m)'
        BY <2>2, <3>2
      <4>2. m \in DOMAIN inbound => Served(m) \/ \E g \in Handlers : HasToItself(g, m)
        BY DEF HInv, NothingDropped
      <4> QED
        BY <1>1, <2>2, <3>1, <3>2, <4>1, <4>2
    <3>3. CASE m # n
      <4>1. \A g \in Handlers : /\ HasToItself(g, m)' <=> HasToItself(g, m)
                                /\ Busy(g, m)' <=> Busy(g, m)
        BY <2>2, <3>3
      <4>2. delivered'[m] = delivered[m]
        BY <1>1, <3>3
      <4> QED
        BY <3>1, <4>1, <4>2 DEF HInv, NothingDropped, HasToItself, Busy, Served
    <3> QED
      BY <3>2, <3>3
  <2> QED
    BY <2>3, <2>4, <2>5 DEF HInv
<1> QED
  BY <1>2, <1>3 DEF Begins

LEMMA ElsewhereKeeps ==
  ASSUME Typed, HInv, Elsewhere
  PROVE  HInv'
<1>1. \A g \in Handlers : \A m : /\ HasToItself(g, m)' <=> HasToItself(g, m)
                                 /\ Busy(g, m)' <=> Busy(g, m)
  BY DEF Elsewhere, HasToItself, Busy
<1>2. WorkedOnce' /\ SentStored' /\ NothingDropped'
  <2>1. WorkedOnce'
    BY <1>1 DEF Elsewhere, HInv, WorkedOnce
  <2>2. SentStored'
    BY DEF Elsewhere, HInv, SentStored
  <2>3. NothingDropped'
    BY <1>1 DEF Elsewhere, HInv, NothingDropped, Served
  <2> QED
    BY <2>1, <2>2, <2>3
<1>3. OrdersStored'
  BY DEF Elsewhere, HInv, OrdersStored
<1> QED
  BY <1>2, <1>3 DEF HInv

LEMMA RestartKeeps ==
  ASSUME Typed, HInv, Restart
  PROVE  HInv'
<1>1. \A g \in Handlers : \A m : ~HasToItself(g, m)' /\ ~Busy(g, m)'
  BY DEF Restart, HasToItself, Busy, HandlerIdle, Late
<1>2. UNCHANGED <<inbound, orders, delivered, sent>>
  BY DEF Restart
<1>3. \A m \in Messages : /\ Served(m) => Served(m)'
                          /\ \A g \in Handlers : Busy(g, m) => Served(m)'
  BY DEF Restart, Served, Busy
<1>4. \A g \in Handlers : \A m : HasToItself(g, m) => Busy(g, m)
  BY DEF HasToItself, Busy, Late
<1>5. WorkedOnce' /\ SentStored'
  BY <1>1, <1>2 DEF HInv, WorkedOnce, SentStored
<1>6. OrdersStored'
  BY <1>2 DEF Restart, HInv, OrdersStored, HandlerIdle, Unordered
<1>7. NothingDropped'
  BY <1>1, <1>2, <1>3, <1>4 DEF HInv, NothingDropped
<1> QED
  BY <1>5, <1>6, <1>7 DEF HInv

LEMMA StepKeepsHInv == Typed /\ HInv /\ [Next]_vars => HInv'
<1> SUFFICES ASSUME Typed, HInv, [Next]_vars PROVE HInv'
  OBVIOUS
<1> QED
  BY NextKinds, MovesKeeps, StoresKeeps, EndsKeeps, OrdersKeeps, SendsKeeps, BeginsKeeps,
     ElsewhereKeeps, RestartKeeps DEF StepKinds

-----------------------------------------------------------------------------
(* The inductive invariant: the types, who works on what, what is known.   *)
ConversationInv == Typed /\ HInv /\ StatusKnown

(* ConversationInv holds in every behaviour of the bot, restarts included. *)
THEOREM ConversationInvariant == Spec => []ConversationInv
<1>1. Init => ConversationInv
  <2>1. Init => StatusKnown
    BY DEF Init, StatusKnown
  <2> QED
    BY <2>1, InitTyped, InitHInv DEF ConversationInv
<1>2. ConversationInv /\ [Next]_vars => ConversationInv'
  BY StepTyped, StepKeepsHInv, StepStatusKnown DEF ConversationInv
<1> QED
  BY <1>1, <1>2, PTL DEF Spec

(* AnsweredOnce, for any number of deliveries and webhook calls: however    *)
(* often the webhook repeats a message, one answer and one order.           *)
THEOREM OneAnswerAndOrder == Spec => []AnsweredOnce
<1>1. ConversationInv => AnsweredOnce
  BY DEF ConversationInv, HInv, SentStored, OrdersStored, AnsweredOnce
<1> QED
  BY <1>1, ConversationInvariant, PTL

(* AnsweredUnlessFailed: a duplicate that is turned away never takes the   *)
(* answer with it, and no status is set without being told.                 *)
THEOREM NothingLostSilently == Spec => []AnsweredUnlessFailed
<1>1. ConversationInv => AnsweredUnlessFailed
  BY DEF ConversationInv, HInv, NothingDropped, Served, Busy, StatusKnown, Known, Telling,
         AnsweredUnlessFailed
<1> QED
  BY <1>1, ConversationInvariant, PTL
=============================================================================
