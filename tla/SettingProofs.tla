---------------------------- MODULE SettingProofs ----------------------------
(***************************************************************************)
(* Proofs about what an instance subscribes to at a sink, EventSettings,   *)
(* what it is set to, InstanceSettings, the accounts it has looked up,     *)
(* OnWhatsappCache, the chats, labels, contacts and groups it keeps,       *)
(* ChatDirectory, and what the other two channels exchange, CloudChannels, *)
(* as MCMessages puts them beside each other: for any events,              *)
(* applications, values, calls, numbers, labels, contacts, messages and    *)
(* bounds.                                                                 *)
(***************************************************************************)
EXTENDS MCMessages, TLAPS, FiniteSetTheorems, SequenceTheorems, WellFoundedInduction

(* The bounds are numbers.                                                  *)
Bounds == /\ MaxCalls \in Nat
          /\ MaxFaults \in Nat

(* What a call has come to: where it can be, and that a set at SQS has seen *)
(* to a queue of every event before it writes the row.                      *)
CallOK(k) ==
  \/ k = E!NoCall
  \/ /\ k.op = "set" /\ k.pc = "list" /\ sink = "sqs"
     /\ k.data.events \subseteq k.todo
  \/ /\ k.op = "set" /\ k.pc = "create" /\ sink = "sqs"
     /\ k.data.events \subseteq queues \cup unmade \cup k.todo
  \/ /\ k.op = "set" /\ k.pc = "upsert"
     /\ sink = "sqs" /\ k.data.enabled => k.data.events \subseteq queues \cup unmade
  \/ k.op = "set" /\ k.pc = "client" /\ sink = "pusher"
  \/ k.op = "emit" /\ k.pc \in {"get", "publish"}

(* What the type says of a call.                                            *)
CallRecords ==
  [op : {"none", "set", "emit"}, data : E!Rows, todo : SUBSET Events,
   pc : {"none", "list", "create", "upsert", "client", "get", "publish"},
   event : Events \cup {Nobody}]

CallsOK == \A c \in Calls : CallOK(requests[c])

(* The row subscribes to no event without a queue, unless it was not made.  *)
RowHasQueues ==
  sink = "sqs" /\ subscription # Nobody /\ subscription.enabled => subscription.events \subseteq queues \cup unmade

(* Nothing has overlapped: a set meets no emit, and at Pusher no set.       *)
Apart ==
  \A c, d \in Calls :
    c # d /\ requests[c].op = "set" => /\ requests[d].op # "emit"
                                       /\ sink = "pusher" => requests[d].op # "set"

(* A set that goes on to the client has written the row, which nobody has    *)
(* written since; the client at rest is for it; and an emit that publishes  *)
(* has seen it.                                                             *)
RowIsWritten ==
  \A c \in Calls : requests[c].pc = "client" => subscription = requests[c].data

ClientFollows ==
  (sink = "pusher" /\ \A c \in Calls : requests[c].pc # "client") =>
    (subscription # Nobody /\ subscription.enabled => client = subscription.app)

GotFromRow ==
  \A c \in Calls : requests[c].pc = "publish" =>
    subscription # Nobody /\ subscription.enabled /\ requests[c].event \in subscription.events

Orderly == ~overlapped => Apart /\ RowIsWritten /\ ClientFollows /\ GotFromRow

SubInv == E!TypeOK /\ CallsOK /\ RowHasQueues /\ Orderly

(* No call is a call.                                                       *)
LEMMA NoCallTyped ==
  /\ E!NoCall \in CallRecords
  /\ E!NoCall.op = "none" /\ E!NoCall.pc = "none" /\ E!NoCall.event = Nobody
BY DEF E!NoCall, E!NoRow, E!Rows, CallRecords

(* At the start there is neither a row nor a call.                          *)
LEMMA SubInit == ASSUME Bounds, E!Init PROVE SubInv
<1>1. E!TypeOK
  <2>1. requests \in [Calls -> CallRecords]
    BY NoCallTyped DEF E!Init
  <2>2. /\ sink \in E!Sinks /\ subscription \in E!Rows \cup {Nobody} /\ client \in Apps \cup {Nobody}
        /\ queues \subseteq Events /\ unmade \subseteq Events /\ overlapped \in BOOLEAN
    BY DEF E!Init
  <2>3. made \in 0..MaxCalls /\ faults \in 0..MaxFaults
    BY DEF E!Init, Bounds
  <2>. QED BY <2>1, <2>2, <2>3 DEF E!TypeOK, CallRecords
<1>2. \A c \in Calls : requests[c] = E!NoCall
  BY DEF E!Init
<1>. QED BY <1>1, <1>2, NoCallTyped DEF E!Init, SubInv, CallsOK, CallOK, RowHasQueues,
                Orderly, Apart,
       RowIsWritten, ClientFollows, GotFromRow

(* The invariant is of what the property asks.                              *)
LEMMA SubEntails == ASSUME SubInv PROVE E!SubscribedIsServed
<1>. USE DEF SubInv
<1>1. ASSUME subscription # Nobody, subscription.enabled
      PROVE  /\ sink = "sqs" => subscription.events \subseteq queues \cup unmade
             /\ sink = "pusher" /\ ~overlapped /\ (\A c \in Calls : ~E!At(c, "client")) =>
                  client = subscription.app
  BY <1>1 DEF RowHasQueues, Orderly, ClientFollows, E!At
<1>2. ASSUME ~overlapped, NEW c \in Calls, E!At(c, "publish")
      PROVE  \/ E!Arrives(requests[c].event)
             \/ requests[c].event \in unmade \cup Misnamed
             \/ sink = "pusher" /\ subscription.app = Nobody
  <2>1. subscription # Nobody /\ subscription.enabled /\ requests[c].event \in subscription.events
    BY <1>2 DEF Orderly, GotFromRow, E!At
  <2>2. requests[c].op = "emit"
    BY <1>2 DEF CallsOK, CallOK, E!At, E!NoCall
  <2>3. ASSUME NEW d \in Calls PROVE requests[d].pc # "client"
    <3>1. requests[d].pc = "client" => requests[d].op = "set"
      BY DEF CallsOK, CallOK, E!NoCall
    <3>2. requests[d].pc = "client" => d # c
      BY <1>2 DEF E!At
    <3>. QED BY <1>2, <2>2, <3>1, <3>2 DEF Orderly, Apart
  <2>4. sink = "pusher" => client = subscription.app
    BY <1>2, <2>1, <2>3 DEF Orderly, ClientFollows
  <2>5. sink = "sqs" => requests[c].event \in queues \cup unmade
    BY <2>1 DEF RowHasQueues
  <2>. QED BY <2>4, <2>5 DEF E!Arrives, E!TypeOK, E!Sinks
<1>. QED BY <1>1, <1>2 DEF E!SubscribedIsServed

(* Every step of the calls, and every failure, keeps it.                    *)
LEMMA SubStep == ASSUME Bounds, SubInv, [E!Next]_E!vars PROVE SubInv'
<1>. USE DEF SubInv, Bounds
<1>1. ASSUME NEW c \in Calls, NEW on \in BOOLEAN, NEW asked \in SUBSET Events,
             NEW app \in Apps \cup {Nobody}, E!Set(c, on, asked, app)
      PROVE  SubInv'
  <2>. DEFINE data == E!Subscription(on, asked, app)
  <2>. DEFINE k == [E!NoCall EXCEPT !.op = "set", !.data = data, !.todo = data.events,
                             !.pc = IF sink = "sqs" /\ on THEN "list" ELSE "upsert"]
  <2>1. data \in E!Rows /\ data.enabled = on
    BY DEF E!Rows, E!Subscription
  <2>2. /\ k.op = "set" /\ k.data = data /\ k.todo = data.events /\ k.event = Nobody
        /\ k.pc = IF sink = "sqs" /\ on THEN "list" ELSE "upsert"
    BY DEF E!NoCall
  <2>3. k \in CallRecords
    BY <2>1, <2>2 DEF CallRecords, E!NoCall, E!Rows
  <2>4. /\ requests' = [requests EXCEPT ![c] = k] /\ requests[c] = E!NoCall
        /\ made' \in 0..MaxCalls
        /\ UNCHANGED <<sink, subscription, queues, client, faults, unmade>>
    <3>1. requests' = [requests EXCEPT ![c] = k] /\ made < MaxCalls /\ made' = made + 1
       /\ requests[c] = E!NoCall /\ UNCHANGED <<sink, subscription, queues, client, faults, unmade>>
      BY <1>1 DEF E!Set, E!Begin
    <3>. QED BY <3>1 DEF E!TypeOK
  <2>5. overlapped' = (overlapped \/ E!Others(c, "emit") # {} \/ (sink = "pusher" /\ E!Others(c, "set") # {}))
    BY <1>1 DEF E!Set
  <2>6. CallOK(k)
    BY <2>1, <2>2 DEF CallOK
  <2>. HIDE DEF k, data
  <2>7. \A d \in Calls : requests'[d] = IF d = c THEN k ELSE requests[d]
    BY <2>4 DEF E!TypeOK
  <2>8. E!TypeOK'
    BY <2>3, <2>4, <2>5 DEF E!TypeOK, CallRecords
  <2>9. CallsOK'
    BY <2>4, <2>6, <2>7 DEF CallsOK, CallOK
  <2>10. RowHasQueues'
    BY <2>4 DEF RowHasQueues
  <2>11. ASSUME ~overlapped' PROVE Apart'
    <3>1. ASSUME NEW d \in Calls, d # c
          PROVE  requests[d].op # "emit" /\ (sink = "pusher" /\ TRUE => requests[d].op # "set")
      BY <2>5, <2>11, <3>1 DEF E!Others
    <3>2. Apart
      BY <2>5, <2>11 DEF Orderly
    <3>. QED BY <2>2, <2>4, <2>7, <3>1, <3>2 DEF Apart
  <2>12. ASSUME ~overlapped' PROVE RowIsWritten' /\ GotFromRow'
    BY ZenonT(40), <2>2, <2>4, <2>5, <2>7, <2>12 DEF Orderly, RowIsWritten, GotFromRow
  <2>13. ASSUME ~overlapped' PROVE ClientFollows'
    <3>1. requests[c].pc # "client"
      BY <2>4, NoCallTyped
    <3>2. (\A d \in Calls : requests'[d].pc # "client") => \A d \in Calls : requests[d].pc # "client"
      BY <2>7, <3>1
    <3>. QED BY <2>4, <2>5, <2>13, <3>2 DEF Orderly, ClientFollows
  <2>. QED BY <2>8, <2>9, <2>10, <2>11, <2>12, <2>13 DEF Orderly
<1>2. ASSUME NEW c \in Calls, NEW e \in Events, E!Emit(c, e)
      PROVE  SubInv'
  <2>. DEFINE k == [E!NoCall EXCEPT !.op = "emit", !.event = e, !.pc = "get"]
  <2>2. /\ k.op = "emit" /\ k.event = e /\ k.pc = "get"
    BY DEF E!NoCall
  <2>3. k \in CallRecords
    BY NoCallTyped, <2>2 DEF CallRecords
  <2>4. /\ requests' = [requests EXCEPT ![c] = k] /\ requests[c] = E!NoCall
        /\ made' \in 0..MaxCalls
        /\ UNCHANGED <<sink, subscription, queues, client, faults, unmade>>
    <3>1. requests' = [requests EXCEPT ![c] = k] /\ made < MaxCalls /\ made' = made + 1
       /\ requests[c] = E!NoCall /\ UNCHANGED <<sink, subscription, queues, client, faults, unmade>>
      BY <1>2 DEF E!Emit, E!Begin
    <3>. QED BY <3>1 DEF E!TypeOK
  <2>5. overlapped' = (overlapped \/ E!Others(c, "set") # {})
    BY <1>2 DEF E!Emit
  <2>. HIDE DEF k
  <2>7. \A d \in Calls : requests'[d] = IF d = c THEN k ELSE requests[d]
    BY <2>4 DEF E!TypeOK
  <2>8. E!TypeOK'
    BY <2>3, <2>4, <2>5 DEF E!TypeOK, CallRecords
  <2>9. CallsOK'
    BY <2>2, <2>4, <2>7 DEF CallsOK, CallOK
  <2>10. RowHasQueues'
    BY <2>4 DEF RowHasQueues
  <2>11. ASSUME ~overlapped' PROVE Apart'
    <3>1. ASSUME NEW d \in Calls, d # c
          PROVE  requests[d].op # "set" /\ (sink = "pusher" /\ FALSE => requests[d].op # "set")
      BY <2>5, <2>11, <3>1 DEF E!Others
    <3>2. Apart
      BY <2>5, <2>11 DEF Orderly
    <3>. QED BY <2>2, <2>4, <2>7, <3>1, <3>2 DEF Apart
  <2>12. ASSUME ~overlapped' PROVE RowIsWritten' /\ GotFromRow'
    BY <2>2, <2>4, <2>5, <2>7, <2>12 DEF Orderly, RowIsWritten, GotFromRow
  <2>13. ASSUME ~overlapped' PROVE ClientFollows'
    <3>1. requests[c].pc # "client"
      BY <2>4, NoCallTyped
    <3>2. (\A d \in Calls : requests'[d].pc # "client") => \A d \in Calls : requests[d].pc # "client"
      BY <2>7, <3>1
    <3>. QED BY <2>4, <2>5, <2>13, <3>2 DEF Orderly, ClientFollows
  <2>. QED BY <2>8, <2>9, <2>10, <2>11, <2>12, <2>13 DEF Orderly
<1>3. ASSUME NEW c \in Calls, E!ListQueues(c) PROVE SubInv'
  <2>1. requests[c].op = "set" /\ sink = "sqs" /\ requests[c].data.events \subseteq requests[c].todo
    BY <1>3 DEF E!ListQueues, E!At, CallsOK, CallOK, E!NoCall
  <2>2. /\ \A d \in Calls \ {c} : requests'[d] = requests[d]
        /\ requests'[c].op = "set" /\ requests'[c].data = requests[c].data
        /\ requests'[c].todo = requests[c].todo \ queues
        /\ requests'[c].pc = IF requests[c].todo \subseteq queues THEN "upsert" ELSE "create"
    BY <1>3, <2>1 DEF E!ListQueues, E!TypeOK
  <2>3. E!TypeOK'
    <3>1. requests' = [requests EXCEPT ![c] = [requests[c] EXCEPT !.todo = @ \ queues,
                      !.pc = IF requests[c].todo \subseteq queues THEN "upsert" ELSE "create"]]
      BY <1>3 DEF E!ListQueues, E!TypeOK
    <3>2. requests[c] \in CallRecords
      BY DEF E!TypeOK, CallRecords
    <3>. DEFINE k == [requests[c] EXCEPT !.todo = @ \ queues,
                      !.pc = IF requests[c].todo \subseteq queues THEN "upsert" ELSE "create"]
    <3>3. k \in CallRecords
      BY <3>2 DEF CallRecords
    <3>. HIDE DEF k
    <3>4. requests' \in [Calls -> CallRecords]
      BY <3>1, <3>3 DEF E!TypeOK, CallRecords, k
    <3>. QED BY <1>3, <3>4 DEF E!ListQueues, E!TypeOK, CallRecords
  <2>4. UNCHANGED <<sink, subscription, queues, client, unmade, overlapped>> /\ requests[c].pc = "list"
    BY <1>3 DEF E!ListQueues, E!At
  <2>5. CallsOK'
    <3>1. requests[c].data.events \subseteq queues \cup unmade \cup (requests[c].todo \ queues)
      BY <2>1
    <3>2. CallOK(requests[c])'
      BY <2>1, <2>2, <2>4, <3>1 DEF CallOK
    <3>3. ASSUME NEW d \in Calls, d # c PROVE CallOK(requests[d])'
      BY <2>2, <2>4, <3>3 DEF CallsOK, CallOK
    <3>. QED BY <3>2, <3>3 DEF CallsOK
  <2>. QED BY <2>1, <2>2, <2>3, <2>4, <2>5 DEF RowHasQueues, Orderly, Apart,
                  RowIsWritten, ClientFollows, GotFromRow
<1>4. ASSUME NEW c \in Calls, E!ListFails(c) \/ E!UpsertFails(c) PROVE SubInv'
  <2>1. /\ \A d \in Calls : requests'[d] = IF d = c THEN E!NoCall ELSE requests[d]
        /\ UNCHANGED <<sink, subscription, queues, client, made, unmade, overlapped>>
    BY <1>4 DEF E!ListFails, E!UpsertFails, E!Ends, E!TypeOK
  <2>2. requests[c].pc \in {"list", "upsert"}
    BY <1>4 DEF E!ListFails, E!UpsertFails, E!At
  <2>3. E!TypeOK'
    BY <1>4, NoCallTyped DEF E!ListFails, E!UpsertFails, E!Ends, E!Fault, E!TypeOK,
           CallRecords
  <2>4. CallsOK' /\ RowHasQueues'
    BY <2>1 DEF CallsOK, CallOK, RowHasQueues
  <2>5. ASSUME ~overlapped PROVE Apart' /\ RowIsWritten' /\ GotFromRow'
    BY <2>1, <2>5, NoCallTyped DEF Orderly, Apart, RowIsWritten, GotFromRow
  <2>6. ASSUME ~overlapped PROVE ClientFollows'
    <3>1. (\A d \in Calls : requests'[d].pc # "client") => \A d \in Calls : requests[d].pc # "client"
      BY <2>1, <2>2
    <3>. QED BY <2>1, <2>6, <3>1 DEF Orderly, ClientFollows
  <2>. QED BY <2>1, <2>3, <2>4, <2>5, <2>6 DEF Orderly
<1>5. ASSUME NEW c \in Calls, E!CreateQueue(c) \/ E!CreateFails(c) PROVE SubInv'
  <2>1. requests[c].op = "set" /\ sink = "sqs"
        /\ requests[c].data.events \subseteq queues \cup unmade \cup requests[c].todo
    BY <1>5 DEF E!CreateQueue, E!CreateFails, E!At, CallsOK, CallOK, E!NoCall
  <2>2. PICK e \in requests[c].todo : queues' \cup unmade' = queues \cup unmade \cup {e} /\ E!Tried(c, e)
    BY <1>5 DEF E!CreateQueue, E!CreateFails
  <2>3. /\ \A d \in Calls \ {c} : requests'[d] = requests[d]
        /\ requests'[c].op = "set" /\ requests'[c].data = requests[c].data
        /\ requests'[c].todo = requests[c].todo \ {e}
        /\ requests'[c].pc = IF requests[c].todo = {e} THEN "upsert" ELSE "create"
    BY <2>1, <2>2 DEF E!Tried, E!TypeOK
  <2>4. UNCHANGED <<sink, subscription, client, made, overlapped>>
    BY <1>5 DEF E!CreateQueue, E!CreateFails
  <2>5. E!TypeOK'
    <3>1. queues' \subseteq Events /\ unmade' \subseteq Events /\ faults' \in 0..MaxFaults
      BY <1>5 DEF E!CreateQueue, E!CreateFails, E!Fault, E!TypeOK
    <3>. DEFINE k == [requests[c] EXCEPT !.todo = @ \ {e},
                                      !.pc = IF requests[c].todo = {e} THEN "upsert" ELSE "create"]
    <3>2. requests' = [requests EXCEPT ![c] = k]
      BY <2>2 DEF E!Tried, E!TypeOK
    <3>3. k \in CallRecords
      <4>1. requests[c] \in CallRecords
        BY DEF E!TypeOK, CallRecords
      <4>. QED BY <4>1 DEF CallRecords
    <3>. HIDE DEF k
    <3>4. requests' \in [Calls -> CallRecords]
      BY <3>2, <3>3 DEF E!TypeOK, CallRecords
    <3>. QED BY <2>4, <3>1, <3>4 DEF E!TypeOK, CallRecords
  <2>6. CallsOK'
    BY <2>1, <2>2, <2>3, <2>4 DEF CallsOK, CallOK
  <2>7. RowHasQueues'
    BY <2>2, <2>4 DEF RowHasQueues
  <2>. QED BY <1>5, <2>1, <2>3, <2>4, <2>5, <2>6, <2>7 DEF Orderly, Apart, RowIsWritten,
                  ClientFollows, GotFromRow
<1>6. ASSUME NEW c \in Calls, E!Upsert(c) PROVE SubInv'
  <2>1. requests[c].op = "set" /\ requests[c].pc = "upsert"
        /\ (sink = "sqs" /\ requests[c].data.enabled => requests[c].data.events \subseteq queues \cup unmade)
    BY <1>6 DEF E!Upsert, E!At, CallsOK, CallOK, E!NoCall
  <2>2. subscription' = requests[c].data /\ UNCHANGED <<sink, queues, client, made, faults, unmade, overlapped>>
    BY <1>6 DEF E!Upsert
  <2>3. E!TypeOK'
    <3>1. requests' \in [Calls -> CallRecords]
      <4>1. requests' = [requests EXCEPT ![c].pc = "client"] \/ requests' = [requests EXCEPT ![c] = E!NoCall]
        BY <1>6 DEF E!Upsert, E!Goes, E!Ends
      <4>. QED BY <4>1, NoCallTyped DEF E!TypeOK, CallRecords
    <3>2. subscription' \in E!Rows
      BY <2>2 DEF E!TypeOK
    <3>. QED BY <2>2, <3>1, <3>2 DEF E!TypeOK, CallRecords
  <2>4. RowHasQueues'
    BY <2>1, <2>2 DEF RowHasQueues
  <2>5. CASE sink = "pusher"
    <3>1. /\ \A d \in Calls \ {c} : requests'[d] = requests[d]
          /\ requests'[c].op = "set" /\ requests'[c].data = requests[c].data
          /\ requests'[c].pc = "client"
      BY <1>6, <2>1, <2>5 DEF E!Upsert, E!Goes, E!TypeOK
    <3>2. CallsOK'
      BY <2>2, <2>5, <3>1 DEF CallsOK, CallOK
    <3>3. ASSUME ~overlapped
          PROVE  \A d \in Calls \ {c} : requests[d].pc \notin {"client", "publish"}
      BY <2>1, <2>5, <3>3 DEF Orderly, Apart, CallsOK, CallOK, E!NoCall
    <3>4. ASSUME ~overlapped
          PROVE Apart' /\ RowIsWritten' /\ ClientFollows' /\ GotFromRow'
      BY <2>1, <2>2, <3>1, <3>3, <3>4 DEF Orderly, Apart, RowIsWritten, ClientFollows,
             GotFromRow
    <3>. QED BY <2>2, <2>3, <2>4, <3>2, <3>4 DEF Orderly
  <2>6. CASE sink # "pusher"
    <3>1. \A d \in Calls : requests'[d] = IF d = c THEN E!NoCall ELSE requests[d]
      BY <1>6, <2>6 DEF E!Upsert, E!Ends, E!TypeOK
    <3>2. CallsOK'
      BY <2>2, <3>1 DEF CallsOK, CallOK
    <3>3. ASSUME ~overlapped
          PROVE  \A d \in Calls \ {c} : requests[d].pc \notin {"client", "publish"}
      BY <2>1, <2>6, <3>3 DEF Orderly, Apart, CallsOK, CallOK, E!NoCall
    <3>4. ASSUME ~overlapped
          PROVE Apart' /\ RowIsWritten' /\ ClientFollows' /\ GotFromRow'
      BY <2>1, <2>2, <2>6, <3>1, <3>3, <3>4 DEF Orderly, Apart, RowIsWritten,
             ClientFollows, GotFromRow, E!NoCall
    <3>. QED BY <2>2, <2>3, <2>4, <3>2, <3>4 DEF Orderly
  <2>. QED BY <2>5, <2>6
<1>7. ASSUME NEW c \in Calls, E!SetClient(c) PROVE SubInv'
  <2>1. requests[c].op = "set" /\ requests[c].pc = "client" /\ sink = "pusher"
    BY <1>7 DEF E!SetClient, E!At, CallsOK, CallOK, E!NoCall
  <2>2. /\ \A d \in Calls : requests'[d] = IF d = c THEN E!NoCall ELSE requests[d]
        /\ UNCHANGED <<sink, subscription, queues, made, faults, unmade, overlapped>>
        /\ client' = E!ClientOf(requests[c].data)
    BY <1>7 DEF E!SetClient, E!Ends, E!TypeOK
  <2>3. E!TypeOK'
    <3>1. client' \in Apps \cup {Nobody}
      BY <2>2 DEF E!TypeOK, E!ClientOf, E!Rows
    <3>2. requests' = [requests EXCEPT ![c] = E!NoCall]
      BY <1>7 DEF E!SetClient, E!Ends
    <3>. QED BY <2>2, <3>1, <3>2 DEF E!TypeOK, E!NoCall, E!NoRow, E!Rows
  <2>4. CallsOK'
    BY <2>2 DEF CallsOK, CallOK
  <2>5. ASSUME ~overlapped PROVE subscription = requests[c].data
    BY <2>1, <2>5 DEF Orderly, RowIsWritten
  <2>6. ASSUME ~overlapped PROVE Apart' /\ RowIsWritten' /\ ClientFollows' /\ GotFromRow'
    BY <2>1, <2>2, <2>5, <2>6 DEF Orderly, Apart, RowIsWritten, ClientFollows,
           GotFromRow, E!ClientOf, E!NoCall
  <2>. QED BY <2>2, <2>3, <2>4, <2>6 DEF RowHasQueues, Orderly
<1>8. ASSUME NEW c \in Calls, E!Get(c) PROVE SubInv'
  <2>1. requests[c].op = "emit" /\ requests[c].pc = "get"
    BY <1>8 DEF E!Get, E!At, CallsOK, CallOK, E!NoCall
  <2>2. UNCHANGED <<sink, subscription, queues, client, made, faults, unmade, overlapped>>
    BY <1>8 DEF E!Get
  <2>3. \/ requests' = [requests EXCEPT ![c] = E!NoCall]
        \/ /\ subscription # Nobody /\ subscription.enabled /\ requests[c].event \in subscription.events
           /\ requests' = [requests EXCEPT ![c].pc = "publish"]
    BY <1>8 DEF E!Get, E!Goes, E!Ends
  <2>4. /\ \A d \in Calls \ {c} : requests'[d] = requests[d]
        /\ \/ requests'[c] = E!NoCall
           \/ /\ subscription # Nobody /\ subscription.enabled /\ requests[c].event \in subscription.events
              /\ requests'[c].op = "emit" /\ requests'[c].pc = "publish" /\ requests'[c].event = requests[c].event
    BY <2>1, <2>3 DEF E!TypeOK
  <2>5. E!TypeOK'
    <3>1. requests' \in [Calls -> CallRecords]
      BY <2>3, NoCallTyped DEF E!TypeOK, CallRecords
    <3>. QED BY <2>2, <3>1 DEF E!TypeOK, CallRecords
  <2>6. CallsOK' /\ RowHasQueues'
    <3>1. RowHasQueues'
      BY <2>2 DEF RowHasQueues
    <3>2. ASSUME NEW d \in Calls PROVE CallOK(requests[d])'
      <4>1. CASE d # c
        BY <2>2, <2>4, <4>1 DEF CallsOK, CallOK
      <4>2. CASE d = c /\ requests'[c] = E!NoCall
        BY <4>2 DEF CallOK
      <4>3. CASE d = c /\ requests'[c].op = "emit" /\ requests'[c].pc = "publish"
        BY <4>3 DEF CallOK
      <4>. QED BY <2>4, <4>1, <4>2, <4>3
    <3>. QED BY <3>1, <3>2 DEF CallsOK
  <2>7. ASSUME ~overlapped PROVE Apart' /\ RowIsWritten'
    BY <2>1, <2>2, <2>4, <2>7 DEF Orderly, Apart, RowIsWritten, E!NoCall
  <2>8. ASSUME ~overlapped PROVE ClientFollows' /\ GotFromRow'
    BY <2>1, <2>2, <2>4, <2>8 DEF Orderly, ClientFollows, GotFromRow, E!NoCall
  <2>. QED BY <2>2, <2>5, <2>6, <2>7, <2>8 DEF Orderly
<1>9. ASSUME NEW c \in Calls, E!Publish(c) PROVE SubInv'
  <2>1. /\ \A d \in Calls : requests'[d] = IF d = c THEN E!NoCall ELSE requests[d]
        /\ UNCHANGED <<sink, subscription, queues, client, made, faults, unmade, overlapped>>
        /\ requests[c].pc = "publish"
    BY <1>9 DEF E!Publish, E!At, E!Ends, E!TypeOK
  <2>2. E!TypeOK'
    BY <1>9 DEF E!Publish, E!Ends, E!TypeOK, E!NoCall, E!NoRow, E!Rows
  <2>3. CallsOK' /\ RowHasQueues'
    BY ZenonT(40), <2>1 DEF CallsOK, CallOK, RowHasQueues, E!NoCall
  <2>5. ASSUME ~overlapped PROVE Apart' /\ RowIsWritten'
    BY <2>1, <2>5 DEF Orderly, Apart, RowIsWritten, E!NoCall
  <2>6. ASSUME ~overlapped PROVE ClientFollows' /\ GotFromRow'
    BY <2>1, <2>6 DEF Orderly, ClientFollows, GotFromRow, E!NoCall
  <2>. QED BY <2>1, <2>2, <2>3, <2>5, <2>6 DEF Orderly
<1>10. ASSUME E!Remove PROVE SubInv'
  BY <1>10 DEF E!Remove, E!TypeOK, CallsOK, CallOK, RowHasQueues, Orderly, Apart,
         RowIsWritten, ClientFollows, GotFromRow, E!NoCall
<1>11. ASSUME E!Restart PROVE SubInv'
  <2>1. /\ \A d \in Calls : requests'[d] = E!NoCall
        /\ UNCHANGED <<sink, subscription, queues, made, unmade, overlapped>>
        /\ client' = IF sink = "pusher" THEN E!ClientOf(subscription) ELSE Nobody
    BY <1>11 DEF E!Restart
  <2>2. E!TypeOK'
    <3>1. client' \in Apps \cup {Nobody}
      BY <2>1 DEF E!TypeOK, E!ClientOf, E!Rows
    <3>2. faults' \in 0..MaxFaults /\ requests' = [c \in Calls |-> E!NoCall]
      BY <1>11 DEF E!Restart, E!Fault, E!TypeOK
    <3>. QED BY <2>1, <3>1, <3>2 DEF E!TypeOK, E!NoCall, E!NoRow, E!Rows
  <2>3. CallsOK' /\ RowHasQueues'
    BY <2>1 DEF CallsOK, CallOK, RowHasQueues
  <2>4. Apart' /\ RowIsWritten' /\ GotFromRow'
    BY <2>1, NoCallTyped DEF Apart, RowIsWritten, GotFromRow
  <2>5. ClientFollows'
    BY <2>1 DEF ClientFollows, E!ClientOf
  <2>. QED BY <2>2, <2>3, <2>4, <2>5 DEF Orderly
<1>12. ASSUME UNCHANGED E!vars PROVE SubInv'
  BY <1>12 DEF E!vars, E!TypeOK, CallsOK, CallOK, RowHasQueues, Orderly, Apart,
         RowIsWritten, ClientFollows, GotFromRow
<1>. QED BY <1>1, <1>2, <1>3, <1>4, <1>5, <1>6, <1>7, <1>8, <1>9, <1>10, <1>11, <1>12
            DEF E!Next, E!CallStep

(* Whatever requests overlap and whatever fails, an event that is emitted   *)
(* and subscribed to finds the queue, or the client of the application, it  *)
(* goes to, save where the property excepts it: for any events and          *)
(* applications.                                                            *)
THEOREM SubscribersServed == MCSpec => []SubscribedIsServed
PROOF
  <1>0. Bounds
    BY MessagesAssumption DEF Bounds
  <1>1. MCInit => SubInv
    BY <1>0, SubInit DEF MCInit
  <1>2. SubInv /\ [MCNext]_<<scene, vars, cvars, svars, dvars, avars, evars>> => SubInv'
    <2>1. [MCNext]_<<scene, vars, cvars, svars, dvars, avars, evars>> => [E!Next]_E!vars
      BY DEF MCNext, evars, E!vars
    <2>. QED BY <1>0, <2>1, SubStep
  <1>3. SubInv => SubscribedIsServed
    BY SubEntails DEF SubscribedIsServed
  <1>. QED BY <1>1, <1>2, <1>3, PTL DEF MCSpec

-----------------------------------------------------------------------------
(* What is set is a record of three fields, and None is none of them; the   *)
(* bounds are numbers.                                                      *)
Setting == [on : BOOLEAN, id : Nat, opt : BOOLEAN]

SettingsGiven ==
  /\ MaxSets \in Nat /\ MaxSettingsDisturbances \in Nat
  /\ Values \subseteq Setting /\ Nobody \notin Setting

(* What the type says of a call.                                            *)
Tasks ==
  [op : {"none", "set", "load", "lookup"},
   pc : {"none", "look", "create", "write", "apply", "clear", "read",
         "assign", "has", "get", "find", "keep"},
   val : Setting \cup {Nobody},
   met : BOOLEAN]

(* Where a call can be, and when it has something in hand.                  *)
TaskOK(k) ==
  \/ k = S!NoCall
  \/ k.op = "set" /\ k.pc = "write" /\ k.val \in Setting
  \/ k.op = "set" /\ k.pc = "apply" /\ k.val \in Setting /\ kind # "webhook"
  \/ k.op = "set" /\ k.pc \in {"look", "create", "clear"} /\ k.val \in Setting /\ kind = "chatwoot"
  \/ k.op = "load" /\ k.pc = "read"
  \/ k.op = "load" /\ k.pc = "assign" /\ k.val \in Setting
  \/ k.op = "lookup" /\ k.pc \in {"has", "get", "find"} /\ kind = "chatwoot"
  \/ k.op = "lookup" /\ k.pc = "keep" /\ k.val \in Setting /\ kind = "chatwoot"

TasksOK == \A c \in Calls : TaskOK(setCall[c])

(* Two calls in progress have met.                                          *)
MetOrAlone == \A c, d \in Calls : c # d /\ setCall[c] # S!NoCall /\ setCall[d] # S!NoCall => setCall[c].met

(* A call that met no other holds what the row says, or has written it; and *)
(* the proxy it loads is still what it began with.                          *)
InHand(k) ==
  /\ k.pc = "apply" => setRow # Nobody /\ setRow.on = k.val.on /\ setRow.id = k.val.id
  /\ k.pc = "assign" => k.val = S!Loaded
  /\ k.pc = "keep" => k.val = setRow
  /\ kind = "proxy" /\ k.op = "load" => copy = S!Blank \/ "unlisted" \in smarks

HandsHold == \A c \in Calls : ~setCall[c].met => InHand(setCall[c])

(* Between the write of the row and that of the copy they differ, and while *)
(* a proxy is being loaded.                                                 *)
CopyMoves ==
  \E c \in Calls : setCall[c].pc = "apply" \/ (kind = "proxy" /\ setCall[c].op = "load")

CopyFollows ==
  (~CopyMoves /\ copy # Nobody /\ kind # "webhook" /\ smarks \cap {"met", "omitted", "unlisted"} = {}) =>
    copy \in {S!Loaded, setRow}

(* The provider is the row, unless a set that wrote it is about to clear it.*)
ProviderFollows ==
  /\ provider # Nobody => kind = "chatwoot"
  /\ (provider # Nobody /\ "kept" \notin smarks
      /\ \A c \in Calls : setCall[c].pc \notin {"apply", "clear"}) => provider = setRow

SettingsInv ==
  S!TypeOK /\ TasksOK /\ MetOrAlone /\ HandsHold /\ CopyFollows /\ ProviderFollows

(* No call is a call.                                                       *)
LEMMA NoneTyped ==
  /\ S!NoCall \in Tasks
  /\ S!NoCall.op = "none" /\ S!NoCall.pc = "none" /\ ~S!NoCall.met
BY DEF S!NoCall, Tasks

(* At the start nothing is set and nothing is under way.                    *)
LEMMA SetInit == ASSUME SettingsGiven, S!Init PROVE SettingsInv
<1>1. S!TypeOK
  <2>1. setCall \in [Calls -> Tasks]
    BY NoneTyped DEF S!Init
  <2>. QED BY <2>1 DEF S!Init, S!TypeOK, SettingsGiven, Tasks, Setting, S!Kinds
<1>2. \A c \in Calls : setCall[c] = S!NoCall
  BY DEF S!Init
<1>3. TasksOK /\ MetOrAlone
  BY <1>2 DEF TasksOK, TaskOK, MetOrAlone
<1>4. HandsHold
  BY <1>2, NoneTyped DEF HandsHold, InHand
<1>5. CopyFollows /\ ProviderFollows
  BY DEF S!Init, CopyFollows, ProviderFollows
<1>. QED BY <1>1, <1>3, <1>4, <1>5 DEF SettingsInv

(* The invariant says of a settled instance what the property asks.         *)
LEMMA SetEntails == ASSUME SettingsInv PROVE S!SettingsAgree
<1>1. ASSUME S!AtRest
      PROVE  ~CopyMoves /\ \A c \in Calls : setCall[c].pc \notin {"apply", "clear"}
  BY <1>1, NoneTyped DEF S!AtRest, CopyMoves
<1>. QED BY <1>1 DEF SettingsInv, S!SettingsAgree, CopyFollows, ProviderFollows

(* What is in hand is a setting, and so is what is loaded.                  *)
LEMMA LoadedTyped == ASSUME S!TypeOK PROVE S!Loaded \in Setting /\ S!Blank \in Setting
BY DEF S!TypeOK, S!Loaded, S!Blank, S!Off, S!EnvProxy, Setting

(* A step of one call leaves what is said of the others: they have met it.  *)
LEMMA OthersAsBefore ==
  ASSUME SettingsInv, UNCHANGED kind, NEW c \in Calls, setCall[c] # S!NoCall,
         \A d \in Calls \ {c} : setCall'[d] = setCall[d],
         TaskOK(setCall[c])', setCall'[c] = S!NoCall \/ setCall'[c].met = setCall[c].met,
         ~setCall'[c].met => InHand(setCall[c])'
  PROVE  TasksOK' /\ MetOrAlone' /\ HandsHold'
<1>1. TasksOK'
  <2>1. ASSUME NEW d \in Calls, d # c PROVE TaskOK(setCall[d])'
    <3>1. TaskOK(setCall[d]) /\ setCall'[d] = setCall[d]
      BY <2>1 DEF SettingsInv, TasksOK
    <3>. QED BY <3>1 DEF TaskOK
  <2>. QED BY <2>1 DEF TasksOK
<1>2. MetOrAlone'
  BY DEF SettingsInv, MetOrAlone
<1>3. HandsHold'
  <2>1. ASSUME NEW d \in Calls, d # c, ~setCall'[d].met PROVE InHand(setCall[d])'
    <3>1. setCall[d] = S!NoCall
      BY <2>1 DEF SettingsInv, MetOrAlone
    <3>. QED BY <2>1, <3>1, NoneTyped DEF InHand
  <2>. QED BY <2>1 DEF HandsHold
<1>. QED BY <1>1, <1>2, <1>3

(* A call that begins meets every other.                                    *)
LEMMA BeginKeeps ==
  ASSUME SettingsInv, UNCHANGED <<S!fixed, setRow, provider>>, NEW c \in Calls, NEW op, NEW pc, NEW v,
         S!Begin(c, op, pc, v),
         op \in {"set", "load", "lookup"},
         pc \in {"look", "write", "read", "has"}, v \in Setting \cup {Nobody},
         TaskOK([op |-> op, pc |-> pc, val |-> v, met |-> TRUE]),
         IF kind = "proxy" /\ op = "load"
         THEN copy' = S!Blank /\ smarks' = smarks \ {"unlisted"}
         ELSE UNCHANGED <<copy, smarks>>
  PROVE  /\ setCall' \in [Calls -> Tasks]
         /\ TasksOK' /\ MetOrAlone' /\ HandsHold' /\ CopyFollows' /\ ProviderFollows'
<1>. DEFINE others == {d \in Calls : setCall[d] # S!NoCall}
<1>1. /\ setCall[c] = S!NoCall
      /\ setCall'[c] = [op |-> op, pc |-> pc, val |-> v, met |-> others # {}]
      /\ \A d \in Calls \ {c} : setCall'[d] = IF d \in others THEN [setCall[d] EXCEPT !.met = TRUE] ELSE setCall[d]
  BY DEF S!Begin
<1>. DEFINE meets == others # {}
<1>2. /\ setCall'[c].op = op /\ setCall'[c].pc = pc /\ setCall'[c].val = v
      /\ meets => setCall'[c].met
      /\ ~meets => ~setCall'[c].met
      /\ setCall'[c] \in Tasks
  <2>1. meets \in BOOLEAN /\ setCall'[c] = [op |-> op, pc |-> pc, val |-> v, met |-> meets]
    BY <1>1
  <2>. HIDE DEF meets
  <2>. QED BY <2>1 DEF Tasks
<1>3. ASSUME NEW d \in Calls \ {c}
      PROVE  /\ setCall[d] = S!NoCall => setCall'[d] = S!NoCall
             /\ setCall[d] # S!NoCall => setCall'[d].met
             /\ setCall'[d].op = setCall[d].op /\ setCall'[d].pc = setCall[d].pc /\ setCall'[d].val = setCall[d].val
  <2>1. setCall[d] \in Tasks
    BY DEF SettingsInv, S!TypeOK, Tasks, Setting
  <2>. QED BY <1>1, <2>1 DEF Tasks
<1>4. setCall' \in [Calls -> Tasks]
  <2>1. ASSUME NEW d \in Calls PROVE setCall'[d] \in Tasks
    <3>1. setCall[d] \in Tasks
      BY DEF SettingsInv, S!TypeOK, Tasks, Setting
    <3>2. CASE d = c
      BY <1>2, <3>2
    <3>3. CASE d # c
      BY ZenonT(40), <1>1, <3>1, <3>3 DEF Tasks
    <3>. QED BY <3>2, <3>3
  <2>2. setCall' = [d \in Calls |-> setCall'[d]]
    BY DEF S!Begin
  <2>. QED BY <2>1, <2>2
<1>5. TasksOK'
  <2>1. TaskOK(setCall[c])'
    <3>1. [op |-> op, pc |-> pc, val |-> v, met |-> TRUE] # S!NoCall
      BY DEF S!NoCall
    <3>. QED BY <1>2, <3>1 DEF TaskOK, S!fixed
  <2>2. ASSUME NEW d \in Calls \ {c} PROVE TaskOK(setCall[d])'
    <3>1. TaskOK(setCall[d]) /\ kind' = kind
      BY DEF SettingsInv, TasksOK, S!fixed
    <3>. QED BY <1>3, <3>1 DEF TaskOK
  <2>. QED BY <2>1, <2>2 DEF TasksOK
<1>6. MetOrAlone'
  BY <1>1, <1>2, <1>3 DEF MetOrAlone
<1>7. HandsHold'
  <2>1. ASSUME NEW d \in Calls \ {c}, ~setCall'[d].met PROVE InHand(setCall[d])'
    <3>1. setCall'[d] = S!NoCall
      BY <1>3, <2>1
    <3>. QED BY <3>1, NoneTyped DEF InHand
  <2>2. InHand(setCall[c])'
    BY <1>2 DEF InHand, S!Blank, S!fixed
  <2>. QED BY <2>1, <2>2 DEF HandsHold
<1>8. CopyFollows'
  <2>1. CASE kind = "proxy" /\ op = "load"
    BY <1>2, <2>1 DEF CopyFollows, CopyMoves, S!fixed
  <2>2. CASE ~(kind = "proxy" /\ op = "load")
    <3>1. CopyMoves => CopyMoves'
      BY <1>1, <1>3, NoneTyped DEF CopyMoves, S!fixed
    <3>. QED BY <2>2, <3>1 DEF SettingsInv, CopyFollows, S!Loaded, S!Blank, S!fixed
  <2>. QED BY <2>1, <2>2
<1>9. ProviderFollows'
  <2>1. "kept" \notin smarks' => "kept" \notin smarks
    OBVIOUS
  <2>2. (\A d \in Calls : setCall'[d].pc \notin {"apply", "clear"}) =>
          \A d \in Calls : setCall[d].pc \notin {"apply", "clear"}
    BY <1>1, <1>3, NoneTyped
  <2>. QED BY <2>1, <2>2 DEF SettingsInv, ProviderFollows, S!fixed
<1>. QED BY <1>4, <1>5, <1>6, <1>7, <1>8, <1>9

(* What the three ways to go on do to the calls.                            *)
LEMMA GotoTyped ==
  ASSUME SettingsInv, NEW c \in Calls, NEW pc, S!Goto(c, pc),
         pc \in {"create", "write", "apply", "clear", "get", "find"}
  PROVE  /\ setCall' \in [Calls -> Tasks]
         /\ \A d \in Calls \ {c} : setCall'[d] = setCall[d]
         /\ setCall'[c].op = setCall[c].op /\ setCall'[c].pc = pc
         /\ setCall'[c].val = setCall[c].val /\ setCall'[c].met = setCall[c].met
<1>1. setCall \in [Calls -> Tasks]
  BY DEF SettingsInv, S!TypeOK, Tasks, Setting
<1>2. setCall' = [setCall EXCEPT ![c].pc = pc]
  BY DEF S!Goto
<1>. QED BY <1>1, <1>2 DEF Tasks

(* A call that goes on with a value holds it, and the others are unmoved.   *)
LEMMA WithTyped ==
  ASSUME SettingsInv, NEW c \in Calls, NEW pc, NEW v \in Setting, S!With(c, pc, v), pc \in {"assign", "keep"}
  PROVE  /\ setCall' \in [Calls -> Tasks]
         /\ \A d \in Calls \ {c} : setCall'[d] = setCall[d]
         /\ setCall'[c].op = setCall[c].op /\ setCall'[c].pc = pc
         /\ setCall'[c].val = v /\ setCall'[c].met = setCall[c].met
<1>1. setCall \in [Calls -> Tasks]
  BY DEF SettingsInv, S!TypeOK, Tasks, Setting
<1>2. setCall' = [setCall EXCEPT ![c].pc = pc, ![c].val = v]
  BY DEF S!With
<1>. QED BY <1>1, <1>2 DEF Tasks

(* A call that returns is none, and the others are unmoved.                 *)
LEMMA ReturnTyped ==
  ASSUME SettingsInv, NEW c \in Calls, S!Return(c)
  PROVE  /\ setCall' \in [Calls -> Tasks]
         /\ \A d \in Calls \ {c} : setCall'[d] = setCall[d]
         /\ setCall'[c] = S!NoCall
BY NoneTyped DEF SettingsInv, S!TypeOK, Tasks, Setting, S!Return

(* A step that writes nothing leaves copy and provider as good as they were.*)
LEMMA NothingWritten ==
  ASSUME SettingsInv, UNCHANGED <<S!fixed, setRow, copy, provider, smarks>>, NEW c \in Calls,
         \A d \in Calls \ {c} : setCall'[d] = setCall[d],
         setCall[c].pc \notin {"apply", "clear"},
         kind = "proxy" /\ setCall[c].op = "load" => setCall'[c].op = "load"
  PROVE  CopyFollows' /\ ProviderFollows'
<1>1. CopyMoves => CopyMoves'
  BY DEF CopyMoves, S!fixed
<1>2. (\A d \in Calls : setCall'[d].pc \notin {"apply", "clear"}) =>
        \A d \in Calls : setCall[d].pc \notin {"apply", "clear"}
  OBVIOUS
<1>3. CopyFollows'
  BY <1>1 DEF SettingsInv, CopyFollows, S!Loaded, S!Blank, S!fixed
<1>4. ProviderFollows'
  BY <1>2 DEF SettingsInv, ProviderFollows, S!fixed
<1>. QED BY <1>3, <1>4

(* A setting is its three fields.                                           *)
LEMMA SameSetting ==
  ASSUME NEW r \in Setting, NEW s \in Setting, r.on = s.on, r.id = s.id, r.opt = s.opt
  PROVE  r = s
BY DEF Setting

(* Every step of the calls, and every failure, keeps it.                    *)
LEMMA SetStep == ASSUME SettingsGiven, SettingsInv, [S!Next]_S!vars PROVE SettingsInv'
<1>1. ASSUME NEW c \in Calls, NEW v \in Values, S!Set(c, v) PROVE SettingsInv'
  <2>1. v \in Setting /\ TaskOK([op |-> "set", pc |-> IF kind = "chatwoot" THEN "look" ELSE "write",
                                 val |-> v, met |-> TRUE])
    BY DEF SettingsGiven, TaskOK
  <2>2. S!Begin(c, "set", IF kind = "chatwoot" THEN "look" ELSE "write", v)
        /\ UNCHANGED <<S!fixed, setRow, copy, provider, setDisturbances, smarks>>
        /\ sets' \in 0..MaxSets
    BY <1>1 DEF S!Set, SettingsInv, S!TypeOK, SettingsGiven
  <2>. DEFINE pc == IF kind = "chatwoot" THEN "look" ELSE "write"
  <2>3. pc \in {"look", "write", "read", "has"}
    OBVIOUS
  <2>. HIDE DEF pc
  <2>4. /\ setCall' \in [Calls -> Tasks]
        /\ TasksOK' /\ MetOrAlone' /\ HandsHold' /\ CopyFollows' /\ ProviderFollows'
    BY <2>1, <2>2, <2>3, BeginKeeps DEF pc
  <2>. QED BY <2>2, <2>4 DEF SettingsInv, S!TypeOK, S!fixed, Tasks, Setting
<1>2. ASSUME NEW c \in Calls, S!Connect(c) PROVE SettingsInv'
  <2>1. TaskOK([op |-> "load", pc |-> "read", val |-> Nobody, met |-> TRUE])
    BY DEF TaskOK
  <2>2. /\ S!Begin(c, "load", "read", Nobody)
        /\ IF kind = "proxy" THEN copy' = S!Blank /\ smarks' = smarks \ {"unlisted"} ELSE UNCHANGED <<copy, smarks>>
        /\ UNCHANGED <<S!fixed, setRow, provider, sets, setDisturbances>>
    BY <1>2 DEF S!Connect
  <2>3. /\ setCall' \in [Calls -> Tasks]
        /\ TasksOK' /\ MetOrAlone' /\ HandsHold' /\ CopyFollows' /\ ProviderFollows'
    BY <2>1, <2>2, BeginKeeps
  <2>4. copy' \in Setting \cup {Nobody} /\ smarks' \subseteq {"met", "omitted", "unlisted", "kept"}
    BY <2>2, LoadedTyped DEF SettingsInv, S!TypeOK, Setting
  <2>. QED BY <2>2, <2>3, <2>4 DEF SettingsInv, S!TypeOK, S!fixed, Tasks, Setting
<1>3. ASSUME NEW c \in Calls, S!Lookup(c) PROVE SettingsInv'
  <2>1. kind = "chatwoot" /\ TaskOK([op |-> "lookup", pc |-> "has", val |-> Nobody, met |-> TRUE])
    BY <1>3 DEF TaskOK, S!Lookup
  <2>2. S!Begin(c, "lookup", "has", Nobody)
        /\ UNCHANGED <<S!fixed, setRow, copy, provider, sets, setDisturbances, smarks>>
    BY <1>3 DEF S!Lookup
  <2>3. /\ setCall' \in [Calls -> Tasks]
        /\ TasksOK' /\ MetOrAlone' /\ HandsHold' /\ CopyFollows' /\ ProviderFollows'
    BY <2>1, <2>2, BeginKeeps
  <2>. QED BY <2>2, <2>3 DEF SettingsInv, S!TypeOK, S!fixed, Tasks, Setting
<1>4. ASSUME NEW c \in Calls, S!Look(c) PROVE SettingsInv'
  <2>1. setCall[c].op = "set" /\ setCall[c].pc = "look" /\ UNCHANGED <<S!fixed, setRow, copy, provider, sets, setDisturbances, smarks>>
    BY <1>4 DEF S!Look, S!At
  <2>2. setCall[c] # S!NoCall /\ setCall[c].val \in Setting /\ kind = "chatwoot"
    BY <2>1, NoneTyped DEF SettingsInv, TasksOK, TaskOK
  <2>3. PICK pc \in {"create", "write"} : S!Goto(c, pc)
    BY <1>4 DEF S!Look
  <2>4. /\ setCall' \in [Calls -> Tasks]
        /\ \A d \in Calls \ {c} : setCall'[d] = setCall[d]
        /\ setCall'[c].op = "set" /\ setCall'[c].pc \in {"create", "write"}
        /\ setCall'[c].val = setCall[c].val /\ setCall'[c].met = setCall[c].met
    BY <2>1, <2>3, GotoTyped
  <2>5. TaskOK(setCall[c])' /\ InHand(setCall[c])'
    BY <2>1, <2>2, <2>4 DEF TaskOK, InHand, S!fixed
  <2>6. TasksOK' /\ MetOrAlone' /\ HandsHold'
    BY <2>1, <2>2, <2>4, <2>5, OthersAsBefore DEF S!fixed
  <2>7. CopyFollows' /\ ProviderFollows'
    BY <2>1, <2>4, NothingWritten
  <2>. QED BY <2>1, <2>4, <2>6, <2>7 DEF SettingsInv, S!TypeOK, S!fixed, Tasks, Setting
<1>5. ASSUME NEW c \in Calls, S!Create(c), setRow # Nobody PROVE SettingsInv'
  <2>1. setCall[c].op = "set" /\ setCall[c].pc = "create" /\ UNCHANGED <<S!fixed, setRow, copy, provider, sets, setDisturbances, smarks>>
        /\ S!Return(c)
    BY <1>5 DEF S!Create, S!At
  <2>2. setCall[c] # S!NoCall
    BY <2>1, NoneTyped
  <2>3. /\ setCall' \in [Calls -> Tasks]
        /\ \A d \in Calls \ {c} : setCall'[d] = setCall[d]
        /\ setCall'[c] = S!NoCall
    BY <2>1, ReturnTyped
  <2>5. TaskOK(setCall[c])' /\ InHand(setCall[c])'
    BY <2>3, NoneTyped DEF TaskOK, InHand
  <2>6. TasksOK' /\ MetOrAlone' /\ HandsHold'
    BY <2>1, <2>2, <2>3, <2>5, OthersAsBefore DEF S!fixed
  <2>7. CopyFollows' /\ ProviderFollows'
    BY <2>1, <2>3, NothingWritten
  <2>. QED BY <2>1, <2>3, <2>6, <2>7 DEF SettingsInv, S!TypeOK, S!fixed, Tasks, Setting
<1>6. ASSUME NEW c \in Calls, S!Create(c), setRow = Nobody PROVE SettingsInv'
  <2>1. setCall[c].op = "set" /\ setCall[c].pc = "create" /\ UNCHANGED <<S!fixed, copy, provider, sets, setDisturbances, smarks>>
        /\ S!Goto(c, "apply") /\ setRow' = [setCall[c].val EXCEPT !.opt = FALSE]
    BY <1>6 DEF S!Create, S!At
  <2>2. setCall[c] # S!NoCall /\ setCall[c].val \in Setting /\ kind = "chatwoot"
    BY <2>1, NoneTyped DEF SettingsInv, TasksOK, TaskOK
  <2>3. setRow' \in Setting /\ setRow'.on = setCall[c].val.on /\ setRow'.id = setCall[c].val.id /\ setRow' # Nobody
    BY <2>1, <2>2 DEF Setting, SettingsGiven
  <2>4. /\ setCall' \in [Calls -> Tasks]
        /\ \A d \in Calls \ {c} : setCall'[d] = setCall[d]
        /\ setCall'[c].op = "set" /\ setCall'[c].pc = "apply"
        /\ setCall'[c].val = setCall[c].val /\ setCall'[c].met = setCall[c].met
    BY <2>1, GotoTyped
  <2>5. TaskOK(setCall[c])' /\ InHand(setCall[c])'
    BY <2>1, <2>2, <2>3, <2>4 DEF TaskOK, InHand, S!fixed
  <2>6. TasksOK' /\ MetOrAlone' /\ HandsHold'
    BY <2>1, <2>2, <2>4, <2>5, OthersAsBefore DEF S!fixed
  <2>7. CopyFollows' /\ ProviderFollows'
    BY <2>1, <2>2, <2>4 DEF CopyFollows, CopyMoves, SettingsInv, ProviderFollows,
           S!fixed
  <2>. QED BY <2>1, <2>3, <2>4, <2>6, <2>7 DEF SettingsInv, S!TypeOK, S!fixed, Tasks,
                  Setting
<1>7. ASSUME NEW c \in Calls, S!Write(c) PROVE SettingsInv'
  <2>1. setCall[c].op = "set" /\ setCall[c].pc = "write" /\ UNCHANGED <<S!fixed, copy, provider, sets, smarks>>
    BY <1>7 DEF S!Write, S!At
  <2>2. setCall[c] # S!NoCall /\ setCall[c].val \in Setting
    BY <2>1, NoneTyped DEF SettingsInv, TasksOK, TaskOK
  <2>3. CASE setRow' = setRow /\ S!Return(c) /\ S!Disturb
    <3>1. /\ setCall' \in [Calls -> Tasks]
          /\ \A d \in Calls \ {c} : setCall'[d] = setCall[d]
          /\ setCall'[c] = S!NoCall
      BY <2>3, ReturnTyped
    <3>2. TaskOK(setCall[c])' /\ InHand(setCall[c])'
      BY <3>1, NoneTyped DEF TaskOK, InHand
    <3>3. TasksOK' /\ MetOrAlone' /\ HandsHold'
      BY <2>1, <2>2, <3>1, <3>2, OthersAsBefore DEF S!fixed
    <3>4. CopyFollows' /\ ProviderFollows'
      BY <2>1, <2>3, <3>1, NothingWritten
    <3>5. setDisturbances' \in 0..MaxSettingsDisturbances
      BY <2>3 DEF S!Disturb, SettingsInv, S!TypeOK, SettingsGiven
    <3>. QED BY <2>1, <2>3, <3>1, <3>3, <3>4, <3>5 DEF SettingsInv, S!TypeOK, S!fixed,
                    Tasks, Setting
  <2>4. ASSUME setRow' = [setCall[c].val EXCEPT !.opt = @ \/ S!Stays], setDisturbances' = setDisturbances
        PROVE  setRow' \in Setting /\ setRow'.on = setCall[c].val.on /\ setRow'.id = setCall[c].val.id /\ setRow' # Nobody
    <3>1. (setCall[c].val.opt \/ S!Stays) \in BOOLEAN
      OBVIOUS
    <3>. DEFINE opt == setCall[c].val.opt \/ S!Stays
    <3>2. setRow' = [setCall[c].val EXCEPT !.opt = opt] /\ opt \in BOOLEAN
      BY <2>4
    <3>. HIDE DEF opt
    <3>. QED BY <2>2, <3>2 DEF Setting, SettingsGiven
  <2>5. CASE kind = "webhook" /\ S!Return(c) /\ setDisturbances' = setDisturbances
             /\ setRow' = [setCall[c].val EXCEPT !.opt = @ \/ S!Stays]
    <3>1. /\ setCall' \in [Calls -> Tasks]
          /\ \A d \in Calls \ {c} : setCall'[d] = setCall[d]
          /\ setCall'[c] = S!NoCall
      BY <2>5, ReturnTyped
    <3>2. TaskOK(setCall[c])' /\ InHand(setCall[c])'
      BY <3>1, NoneTyped DEF TaskOK, InHand
    <3>3. TasksOK' /\ MetOrAlone' /\ HandsHold'
      BY <2>1, <2>2, <3>1, <3>2, OthersAsBefore DEF S!fixed
    <3>4. CopyFollows' /\ ProviderFollows'
      BY <2>1, <2>5 DEF SettingsInv, CopyFollows, ProviderFollows, S!fixed
    <3>. QED BY <2>1, <2>4, <2>5, <3>1, <3>3, <3>4 DEF SettingsInv, S!TypeOK, S!fixed,
                    Tasks, Setting
  <2>6. CASE kind # "webhook" /\ S!Goto(c, "apply") /\ setDisturbances' = setDisturbances
             /\ setRow' = [setCall[c].val EXCEPT !.opt = @ \/ S!Stays]
    <3>1. /\ setCall' \in [Calls -> Tasks]
          /\ \A d \in Calls \ {c} : setCall'[d] = setCall[d]
          /\ setCall'[c].op = "set" /\ setCall'[c].pc = "apply"
          /\ setCall'[c].val = setCall[c].val /\ setCall'[c].met = setCall[c].met
      BY <2>1, <2>6, GotoTyped
    <3>2. TaskOK(setCall[c])' /\ InHand(setCall[c])'
      BY <2>1, <2>2, <2>4, <2>6, <3>1 DEF TaskOK, InHand, S!fixed
    <3>3. TasksOK' /\ MetOrAlone' /\ HandsHold'
      BY <2>1, <2>2, <3>1, <3>2, OthersAsBefore DEF S!fixed
    <3>4. CopyFollows' /\ ProviderFollows'
      BY <2>1, <3>1 DEF CopyFollows, CopyMoves, SettingsInv, ProviderFollows, S!fixed
    <3>. QED BY <2>1, <2>4, <2>6, <3>1, <3>3, <3>4 DEF SettingsInv, S!TypeOK, S!fixed,
                    Tasks, Setting
  <2>. QED BY <1>7, <2>3, <2>5, <2>6 DEF S!Write
<1>8. ASSUME NEW c \in Calls, S!Apply(c) PROVE SettingsInv'
  <2>1. /\ setCall[c].op = "set" /\ setCall[c].pc = "apply" /\ UNCHANGED <<S!fixed, setRow, provider, sets, setDisturbances>>
        /\ copy' = setCall[c].val
        /\ S!Copied(c, S!If(setRow # Nobody /\ setRow.opt # setCall[c].val.opt, {"omitted"})
                     \cup S!If(kind = "chatwoot" /\ ~setCall[c].val.on, {"kept"}))
    BY <1>8 DEF S!Apply, S!At
  <2>2. setCall[c] # S!NoCall /\ setCall[c].val \in Setting
    BY <2>1, NoneTyped DEF SettingsInv, TasksOK, TaskOK
  <2>3. /\ setCall[c].met => "met" \in smarks'
        /\ setRow # Nobody /\ setRow.opt # setCall[c].val.opt => "omitted" \in smarks'
        /\ kind = "chatwoot" /\ ~setCall[c].val.on => "kept" \in smarks'
        /\ "kept" \in smarks => "kept" \in smarks'
        /\ smarks' \subseteq {"met", "omitted", "unlisted", "kept"}
    BY <2>1 DEF S!Copied, S!If, SettingsInv, S!TypeOK
  <2>4. ASSUME smarks' \cap {"met", "omitted", "unlisted"} = {} PROVE copy' = setRow'
    <3>1. InHand(setCall[c])
      BY <2>3, <2>4 DEF SettingsInv, HandsHold
    <3>2. setRow # Nobody /\ setRow.on = setCall[c].val.on /\ setRow.id = setCall[c].val.id
      BY <2>1, <3>1 DEF InHand
    <3>3. setRow.opt = setCall[c].val.opt
      BY <2>3, <2>4, <3>2
    <3>4. setRow \in Setting
      BY <3>2 DEF SettingsInv, S!TypeOK, Setting
    <3>5. setRow = setCall[c].val
      BY <2>2, <3>2, <3>3, <3>4, SameSetting
    <3>. QED BY <2>1, <3>5 DEF S!fixed
  <2>5. CopyFollows'
    BY <2>4 DEF CopyFollows
  <2>6. CASE kind = "chatwoot" /\ setCall[c].val.on
    <3>1. S!Goto(c, "clear")
      BY <1>8, <2>6 DEF S!Apply
    <3>2. /\ setCall' \in [Calls -> Tasks]
          /\ \A d \in Calls \ {c} : setCall'[d] = setCall[d]
          /\ setCall'[c].op = "set" /\ setCall'[c].pc = "clear"
          /\ setCall'[c].val = setCall[c].val /\ setCall'[c].met = setCall[c].met
      BY <2>1, <3>1, GotoTyped
    <3>3. TaskOK(setCall[c])' /\ InHand(setCall[c])'
      BY <2>1, <2>2, <2>6, <3>2 DEF TaskOK, InHand, S!fixed
    <3>4. TasksOK' /\ MetOrAlone' /\ HandsHold'
      BY <2>1, <2>2, <3>2, <3>3, OthersAsBefore DEF S!fixed
    <3>5. ProviderFollows'
      BY <2>1, <2>6, <3>2 DEF ProviderFollows, S!fixed
    <3>. QED BY <2>1, <2>2, <2>3, <2>5, <3>2, <3>4, <3>5 DEF SettingsInv, S!TypeOK,
                    S!fixed, Tasks, Setting
  <2>7. CASE ~(kind = "chatwoot" /\ setCall[c].val.on)
    <3>1. S!Return(c)
      BY <1>8, <2>7 DEF S!Apply
    <3>2. /\ setCall' \in [Calls -> Tasks]
          /\ \A d \in Calls \ {c} : setCall'[d] = setCall[d]
          /\ setCall'[c] = S!NoCall
      BY <3>1, ReturnTyped
    <3>3. TaskOK(setCall[c])' /\ InHand(setCall[c])'
      BY <3>2, NoneTyped DEF TaskOK, InHand
    <3>4. TasksOK' /\ MetOrAlone' /\ HandsHold'
      BY <2>1, <2>2, <3>2, <3>3, OthersAsBefore DEF S!fixed
    <3>5. ProviderFollows'
      BY <2>1, <2>3, <2>7 DEF SettingsInv, ProviderFollows, S!fixed
    <3>. QED BY <2>1, <2>2, <2>3, <2>5, <3>2, <3>4, <3>5 DEF SettingsInv, S!TypeOK,
                    S!fixed, Tasks, Setting
  <2>. QED BY <2>6, <2>7
<1>9. ASSUME NEW c \in Calls, S!Clear(c) PROVE SettingsInv'
  <2>1. /\ setCall[c].op = "set" /\ setCall[c].pc = "clear" /\ UNCHANGED <<S!fixed, setRow, copy, sets, setDisturbances>>
        /\ provider' = Nobody /\ smarks' = smarks \ {"kept"} /\ S!Return(c)
    BY <1>9 DEF S!Clear, S!At
  <2>2. /\ setCall' \in [Calls -> Tasks]
        /\ \A d \in Calls \ {c} : setCall'[d] = setCall[d]
        /\ setCall'[c] = S!NoCall
    BY <2>1, ReturnTyped
  <2>3. TaskOK(setCall[c])' /\ InHand(setCall[c])'
    BY <2>2, NoneTyped DEF TaskOK, InHand
  <2>4. TasksOK' /\ MetOrAlone' /\ HandsHold'
    BY <2>1, <2>2, <2>3, NoneTyped, OthersAsBefore DEF S!fixed
  <2>5. CopyMoves => CopyMoves'
    BY <2>1, <2>2 DEF CopyMoves, S!fixed
  <2>6. smarks' \cap {"met", "omitted", "unlisted"} = smarks \cap {"met", "omitted", "unlisted"}
    BY <2>1
  <2>7. CopyFollows'
    BY <2>1, <2>5, <2>6 DEF SettingsInv, CopyFollows, S!Loaded, S!Blank, S!fixed
  <2>8. ProviderFollows'
    BY <2>1 DEF ProviderFollows
  <2>. QED BY <2>1, <2>2, <2>4, <2>7, <2>8 DEF SettingsInv, S!TypeOK, S!fixed, Tasks,
                  Setting
<1>10. ASSUME NEW c \in Calls, S!Read(c) PROVE SettingsInv'
  <2>1. setCall[c].op = "load" /\ setCall[c].pc = "read" /\ UNCHANGED <<S!fixed, setRow, copy, provider, sets, setDisturbances, smarks>>
        /\ S!With(c, "assign", S!Loaded)
    BY <1>10 DEF S!Read, S!At
  <2>2. S!Loaded \in Setting
    BY LoadedTyped DEF SettingsInv
  <2>3. /\ setCall' \in [Calls -> Tasks]
        /\ \A d \in Calls \ {c} : setCall'[d] = setCall[d]
        /\ setCall'[c].op = "load" /\ setCall'[c].pc = "assign"
        /\ setCall'[c].val = S!Loaded /\ setCall'[c].met = setCall[c].met
    BY <2>1, <2>2, WithTyped
  <2>4. TaskOK(setCall[c])'
    BY <2>2, <2>3 DEF TaskOK
  <2>5. ASSUME ~setCall'[c].met PROVE InHand(setCall[c])'
    <3>1. InHand(setCall[c])
      BY <2>3, <2>5 DEF SettingsInv, HandsHold
    <3>. QED BY <2>1, <2>3, <3>1 DEF InHand, S!Loaded, S!Blank, S!fixed
  <2>6. TasksOK' /\ MetOrAlone' /\ HandsHold'
    BY <2>1, <2>3, <2>4, <2>5, NoneTyped, OthersAsBefore DEF S!fixed
  <2>7. CopyFollows' /\ ProviderFollows'
    BY <2>1, <2>3, NothingWritten
  <2>. QED BY <2>1, <2>3, <2>6, <2>7 DEF SettingsInv, S!TypeOK, S!fixed, Tasks, Setting
<1>11. ASSUME NEW c \in Calls, S!Assign(c) PROVE SettingsInv'
  <2>1. /\ setCall[c].op = "load" /\ setCall[c].pc = "assign" /\ UNCHANGED <<S!fixed, setRow, provider, sets, setDisturbances>>
        /\ S!Return(c)
    BY <1>11 DEF S!Assign, S!At
  <2>2. /\ setCall' \in [Calls -> Tasks]
        /\ \A d \in Calls \ {c} : setCall'[d] = setCall[d]
        /\ setCall'[c] = S!NoCall
    BY <2>1, ReturnTyped
  <2>3. TaskOK(setCall[c])' /\ InHand(setCall[c])'
    BY <2>2, NoneTyped DEF TaskOK, InHand
  <2>4. TasksOK' /\ MetOrAlone' /\ HandsHold'
    BY <2>1, <2>2, <2>3, NoneTyped, OthersAsBefore DEF S!fixed
  <2>5. ASSUME ~setCall[c].met PROVE setCall[c].val = S!Loaded /\ (kind = "proxy" => copy = S!Blank \/ "unlisted" \in smarks)
    BY <2>1, <2>5 DEF SettingsInv, HandsHold, InHand
  <2>6. /\ copy' \in Setting \cup {Nobody} /\ smarks' \subseteq {"met", "omitted", "unlisted", "kept"}
        /\ "kept" \in smarks <=> "kept" \in smarks'
        /\ setCall[c].met => "met" \in smarks'
    <3>1. setCall[c].val \in Setting
      BY <2>1 DEF SettingsInv, TasksOK, TaskOK, S!NoCall
    <3>. QED BY ZenonT(40), <1>11, <3>1 DEF S!Assign, S!Copied, S!If, SettingsInv, S!TypeOK, Setting
  <2>7. CopyFollows'
    <3>1. ASSUME smarks' \cap {"met", "omitted", "unlisted"} = {} PROVE copy' = S!Loaded
      <4>1. ~setCall[c].met
        BY <2>6, <3>1
      <4>2. CASE kind = "proxy" /\ setCall[c].val = S!Blank
        BY <1>11, <2>5, <3>1, <4>1, <4>2 DEF S!Assign
      <4>3. CASE ~(kind = "proxy" /\ setCall[c].val = S!Blank)
        BY <1>11, <2>5, <4>1, <4>3 DEF S!Assign
      <4>. QED BY <4>2, <4>3
    <3>. QED BY <2>1, <3>1 DEF CopyFollows, S!Loaded, S!Blank, S!fixed
  <2>8. ProviderFollows'
    <3>1. (\A d \in Calls : setCall'[d].pc \notin {"apply", "clear"}) =>
            \A d \in Calls : setCall[d].pc \notin {"apply", "clear"}
      BY <2>1, <2>2
    <3>. QED BY <2>1, <2>6, <3>1 DEF SettingsInv, ProviderFollows, S!fixed
  <2>. QED BY <2>1, <2>2, <2>4, <2>6, <2>7, <2>8 DEF SettingsInv, S!TypeOK, S!fixed,
                  Tasks, Setting
<1>12. ASSUME NEW c \in Calls, S!Has(c) PROVE SettingsInv'
  <2>1. setCall[c].op = "lookup" /\ setCall[c].pc = "has" /\ UNCHANGED <<S!fixed, setRow, copy, provider, sets, setDisturbances, smarks>>
    BY <1>12 DEF S!Has, S!At
  <2>2. setCall[c] # S!NoCall /\ kind = "chatwoot"
    BY <2>1, NoneTyped DEF SettingsInv, TasksOK, TaskOK
  <2>3. PICK pc \in {"get", "find"} : S!Goto(c, pc)
    BY <1>12 DEF S!Has
  <2>4. /\ setCall' \in [Calls -> Tasks]
        /\ \A d \in Calls \ {c} : setCall'[d] = setCall[d]
        /\ setCall'[c].op = "lookup" /\ setCall'[c].pc \in {"get", "find"}
        /\ setCall'[c].val = setCall[c].val /\ setCall'[c].met = setCall[c].met
    BY <2>1, <2>3, GotoTyped
  <2>5. TaskOK(setCall[c])' /\ InHand(setCall[c])'
    BY <2>1, <2>2, <2>4 DEF TaskOK, InHand, S!fixed
  <2>6. TasksOK' /\ MetOrAlone' /\ HandsHold'
    BY <2>1, <2>2, <2>4, <2>5, OthersAsBefore DEF S!fixed
  <2>7. CopyFollows' /\ ProviderFollows'
    BY <2>1, <2>4, NothingWritten
  <2>. QED BY <2>1, <2>4, <2>6, <2>7 DEF SettingsInv, S!TypeOK, S!fixed, Tasks, Setting
<1>13. ASSUME NEW c \in Calls, S!Get(c) \/ (S!Find(c) /\ setRow = Nobody) PROVE SettingsInv'
  <2>1. /\ setCall[c].op = "lookup" /\ setCall[c].pc \in {"get", "find"}
        /\ UNCHANGED <<S!fixed, setRow, copy, provider, sets, setDisturbances, smarks>> /\ S!Return(c)
    BY <1>13 DEF S!Get, S!Find, S!At
  <2>2. /\ setCall' \in [Calls -> Tasks]
        /\ \A d \in Calls \ {c} : setCall'[d] = setCall[d]
        /\ setCall'[c] = S!NoCall
    BY <2>1, ReturnTyped
  <2>3. TaskOK(setCall[c])' /\ InHand(setCall[c])'
    BY <2>2, NoneTyped DEF TaskOK, InHand
  <2>4. TasksOK' /\ MetOrAlone' /\ HandsHold'
    BY <2>1, <2>2, <2>3, NoneTyped, OthersAsBefore DEF S!fixed
  <2>5. CopyFollows' /\ ProviderFollows'
    BY <2>1, <2>2, NothingWritten
  <2>. QED BY <2>1, <2>2, <2>4, <2>5 DEF SettingsInv, S!TypeOK, S!fixed, Tasks, Setting
<1>14. ASSUME NEW c \in Calls, S!Find(c), setRow # Nobody PROVE SettingsInv'
  <2>1. setCall[c].op = "lookup" /\ setCall[c].pc = "find" /\ UNCHANGED <<S!fixed, setRow, copy, provider, sets, setDisturbances, smarks>>
        /\ S!With(c, "keep", setRow)
    BY <1>14 DEF S!Find, S!At
  <2>2. setRow \in Setting /\ kind = "chatwoot"
    BY <1>14, <2>1 DEF SettingsInv, S!TypeOK, Setting, TasksOK, TaskOK, S!NoCall
  <2>3. /\ setCall' \in [Calls -> Tasks]
        /\ \A d \in Calls \ {c} : setCall'[d] = setCall[d]
        /\ setCall'[c].op = "lookup" /\ setCall'[c].pc = "keep"
        /\ setCall'[c].val = setRow /\ setCall'[c].met = setCall[c].met
    BY <2>1, <2>2, WithTyped
  <2>4. TaskOK(setCall[c])' /\ InHand(setCall[c])'
    BY <2>1, <2>2, <2>3 DEF TaskOK, InHand, S!fixed
  <2>6. TasksOK' /\ MetOrAlone' /\ HandsHold'
    BY <2>1, <2>3, <2>4, NoneTyped, OthersAsBefore DEF S!fixed
  <2>7. CopyFollows' /\ ProviderFollows'
    BY <2>1, <2>3, NothingWritten
  <2>. QED BY <2>1, <2>3, <2>6, <2>7 DEF SettingsInv, S!TypeOK, S!fixed, Tasks, Setting
<1>15. ASSUME NEW c \in Calls, S!Keep(c) PROVE SettingsInv'
  <2>1. /\ setCall[c].op = "lookup" /\ setCall[c].pc = "keep" /\ UNCHANGED <<S!fixed, setRow, copy, sets, setDisturbances>>
        /\ provider' = setCall[c].val /\ smarks' = smarks \cup S!If(setCall[c].met, {"kept"}) /\ S!Return(c)
    BY <1>15 DEF S!Keep, S!At
  <2>2. /\ setCall' \in [Calls -> Tasks]
        /\ \A d \in Calls \ {c} : setCall'[d] = setCall[d]
        /\ setCall'[c] = S!NoCall
    BY <2>1, ReturnTyped
  <2>3. TaskOK(setCall[c])' /\ InHand(setCall[c])'
    BY <2>2, NoneTyped DEF TaskOK, InHand
  <2>4. TasksOK' /\ MetOrAlone' /\ HandsHold'
    BY <2>1, <2>2, <2>3, NoneTyped, OthersAsBefore DEF S!fixed
  <2>5. CopyMoves => CopyMoves'
    BY <2>1, <2>2 DEF CopyMoves, S!fixed
  <2>6. smarks' \cap {"met", "omitted", "unlisted"} = smarks \cap {"met", "omitted", "unlisted"}
    BY <2>1 DEF S!If
  <2>7. CopyFollows'
    BY <2>1, <2>5, <2>6 DEF SettingsInv, CopyFollows, S!Loaded, S!Blank, S!fixed
  <2>8. setCall[c].val \in Setting /\ kind = "chatwoot"
    BY <2>1 DEF SettingsInv, TasksOK, TaskOK, S!NoCall
  <2>9. "kept" \notin smarks' => setCall[c].val = setRow
    BY <2>1 DEF S!If, SettingsInv, HandsHold, InHand
  <2>10. ProviderFollows'
    BY <2>1, <2>8, <2>9 DEF ProviderFollows, S!fixed
  <2>11. smarks' \subseteq {"met", "omitted", "unlisted", "kept"}
    BY <2>1 DEF S!If, SettingsInv, S!TypeOK
  <2>. QED BY <2>1, <2>2, <2>4, <2>7, <2>8, <2>10, <2>11 DEF SettingsInv, S!TypeOK,
                  S!fixed, Tasks, Setting
<1>16. ASSUME S!ListFails PROVE SettingsInv'
  <2>1. /\ kind = "proxy" /\ copy # Nobody /\ copy' = [copy EXCEPT !.on = FALSE] /\ smarks' = smarks \cup {"unlisted"}
        /\ setDisturbances' \in 0..MaxSettingsDisturbances /\ UNCHANGED <<S!fixed, setRow, provider, setCall, sets>>
    BY <1>16 DEF S!ListFails, S!Disturb, SettingsInv, S!TypeOK, SettingsGiven
  <2>2. copy' \in Setting
    BY <2>1 DEF SettingsInv, S!TypeOK, Setting
  <2>3. S!TypeOK'
    BY <2>1, <2>2 DEF SettingsInv, S!TypeOK, S!fixed, Setting
  <2>4. TasksOK' /\ MetOrAlone'
    BY <2>1 DEF SettingsInv, TasksOK, TaskOK, MetOrAlone, S!fixed
  <2>5. HandsHold'
    BY <2>1 DEF SettingsInv, HandsHold, InHand, S!Loaded, S!Blank, S!fixed
  <2>6. CopyFollows' /\ ProviderFollows'
    BY <2>1 DEF SettingsInv, CopyFollows, ProviderFollows, S!fixed
  <2>. QED BY <2>3, <2>4, <2>5, <2>6 DEF SettingsInv
<1>17. ASSUME S!Expire PROVE SettingsInv'
  <2>1. /\ provider' = Nobody /\ setDisturbances' \in 0..MaxSettingsDisturbances
        /\ UNCHANGED <<S!fixed, setRow, copy, setCall, sets, smarks>>
    BY <1>17 DEF S!Expire, S!Disturb, SettingsInv, S!TypeOK, SettingsGiven
  <2>2. S!TypeOK'
    BY <2>1 DEF SettingsInv, S!TypeOK, S!fixed
  <2>3. TasksOK' /\ MetOrAlone' /\ HandsHold'
    BY <2>1 DEF SettingsInv, TasksOK, TaskOK, MetOrAlone, HandsHold, InHand, S!Loaded,
           S!Blank, S!fixed
  <2>4. CopyFollows' /\ ProviderFollows'
    BY <2>1 DEF SettingsInv, CopyFollows, CopyMoves, ProviderFollows, S!Loaded, S!Blank,
           S!fixed
  <2>. QED BY <2>2, <2>3, <2>4 DEF SettingsInv
<1>18. ASSUME S!Restart PROVE SettingsInv'
  <2>1. /\ copy' = Nobody /\ provider' \in {provider, Nobody} /\ setDisturbances' \in 0..MaxSettingsDisturbances
        /\ setCall' = [c \in Calls |-> S!NoCall] /\ UNCHANGED <<S!fixed, setRow, sets>>
        /\ smarks' = smarks \cup S!If(\E c \in Calls : setCall[c].pc \in {"apply", "clear"}, {"kept"})
    BY <1>18 DEF S!Restart, S!Disturb, SettingsInv, S!TypeOK, SettingsGiven
  <2>2. S!TypeOK'
    <3>1. setCall' \in [Calls -> Tasks]
      BY <2>1, NoneTyped
    <3>2. smarks' \subseteq {"met", "omitted", "unlisted", "kept"}
      BY <2>1 DEF S!If, SettingsInv, S!TypeOK
    <3>. QED BY <2>1, <3>1, <3>2 DEF SettingsInv, S!TypeOK, S!fixed, Tasks, Setting
  <2>3. TasksOK' /\ MetOrAlone' /\ HandsHold'
    BY <2>1, NoneTyped DEF TasksOK, TaskOK, MetOrAlone, HandsHold, InHand
  <2>4. CopyFollows'
    BY <2>1 DEF CopyFollows
  <2>5. ProviderFollows'
    <3>1. "kept" \notin smarks' => "kept" \notin smarks /\ \A c \in Calls : setCall[c].pc \notin {"apply", "clear"}
      BY <2>1 DEF S!If
    <3>. QED BY <2>1, <3>1 DEF SettingsInv, ProviderFollows, S!fixed
  <2>. QED BY <2>2, <2>3, <2>4, <2>5 DEF SettingsInv
<1>19. ASSUME UNCHANGED S!vars PROVE SettingsInv'
  BY <1>19 DEF S!vars, S!fixed, SettingsInv, S!TypeOK, TasksOK, TaskOK, MetOrAlone,
         HandsHold, InHand,
         CopyFollows, CopyMoves, ProviderFollows, S!Loaded, S!Blank
<1>. QED BY <1>1, <1>2, <1>3, <1>4, <1>5, <1>6, <1>7, <1>8, <1>9, <1>10, <1>11, <1>12,
            <1>13,
            <1>14, <1>15, <1>16, <1>17, <1>18, <1>19 DEF S!Next

(* Whatever requests, connections and lookups overlap and whatever fails,   *)
(* the copy and the provider an instance works with agree with its row when *)
(* nothing is under way, save where the property excepts it: for any values *)
(* and calls, in each of the four kinds of settings.                        *)
THEOREM CopiesFollowRows == MCSpec => []SettingsAgree
PROOF
  <1>0. SettingsGiven
    BY MessagesAssumption DEF SettingsGiven, Setting
  <1>1. MCInit => SettingsInv
    BY <1>0, SetInit DEF MCInit
  <1>2. SettingsInv /\ [MCNext]_<<scene, vars, cvars, svars, dvars, avars, evars>> => SettingsInv'
    <2>1. [MCNext]_<<scene, vars, cvars, svars, dvars, avars, evars>> => [S!Next]_S!vars
      BY DEF MCNext, svars, S!vars, S!fixed
    <2>. QED BY <1>0, <2>1, SetStep
  <1>3. SettingsInv => SettingsAgree
    BY SetEntails DEF SettingsAgree
  <1>. QED BY <1>1, <1>2, <1>3, PTL DEF MCSpec

-----------------------------------------------------------------------------
(* None is no address, and the bound is a number.                           *)
AccountsGiven == /\ MaxRows \in Nat
                 /\ Nobody \notin A!Jids

(* What the type says of rows and calls.                                    *)
AccountRows == [jid : A!Jids \cup {Nobody}, options : SUBSET A!Jids, lid : BOOLEAN, fresh : BOOLEAN]
Lookups ==
  [pc : {"none", "find", "write", "look", "verify", "answered"},
   jid : A!Jids \cup {Nobody}, alt : A!Jids \cup {Nobody}, lid : BOOLEAN,
   found : 0..MaxRows, options : SUBSET A!Jids, same : BOOLEAN,
   asked : A!Jids \cup {Nobody}, answer : A!Jids \cup {Nobody}, met : BOOLEAN]

(* An address of the account of its number: a LID, or a phone in the form   *)
(* that is registered.                                                      *)
OnAccount(j) == j \in A!Jids /\ j \in {A!Phone(j.number), A!Lid(j.number)}

AllOf(options, n) == \A o \in options : o.number = n

(* A row is of one number, whose address is among its options.              *)
RowOfOne(r) ==
  \/ r = A!NoRow
  \/ OnAccount(r.jid) /\ r.jid \in r.options /\ AllOf(r.options, r.jid.number)

(* A save is of one number, with a LID only beside the registered phone; a  *)
(* lookup has an answer only of the number it is asked for.                 *)
CallOfOne(k) ==
  /\ k.pc \in {"find", "write"} =>
       /\ OnAccount(k.jid)
       /\ A!LidAlt(k) # {} => A!LidAlt(k) = {A!Lid(k.jid.number)} /\ k.jid = A!Phone(k.jid.number)
  /\ k.pc = "write" => A!Addresses(k) \subseteq k.options /\ AllOf(k.options, k.jid.number)
  /\ k.pc \in {"look", "verify"} => k.asked \in A!Jids /\ A!LidAlt(k) = {}
  /\ k.answer # Nobody => k.answer \in {A!Phone(k.asked.number), A!Lid(k.asked.number)}

(* What a save has found is a row of its number; and if it met no other, it *)
(* is still as it was found.                                                *)
FoundStill(k) ==
  /\ k.found # 0 => \E o \in accounts[k.found].options : o.number = k.jid.number
  /\ ~k.met => /\ k.found = 0 => \A i \in A!Ids : accounts[i].jid # k.jid
               /\ k.found # 0 => accounts[k.found].options \subseteq k.options
               /\ k.same => k.found # 0 /\ A!Addresses(k) \subseteq accounts[k.found].options

OneRow(n) == \E i \in A!Ids : {A!Phone(n), A!Lid(n)} \subseteq accounts[i].options

AccountTypes ==
  /\ registered \in [Numbers -> A!Forms \cup {Nobody}]
  /\ accounts \in [A!Ids -> AccountRows]
  /\ lookups \in [Calls -> Lookups]
  /\ linked \subseteq Numbers
  /\ amarks \in [Numbers -> SUBSET {"met", "split"}]

RowsOfOne == \A i \in A!Ids : RowOfOne(accounts[i])
CallsOfOne == \A c \in Calls : CallOfOne(lookups[c])
WritesFound == \A c \in Calls : lookups[c].pc = "write" => FoundStill(lookups[c])
Alone == \A c, d \in Calls : c # d /\ lookups[c] # A!NoCall /\ ~lookups[c].met => lookups[d] = A!NoCall
LinkedInOne == \A n \in linked : amarks[n] = {} => OneRow(n)

AccountsSound ==
  AccountTypes /\ RowsOfOne /\ CallsOfOne /\ WritesFound /\ Alone /\ LinkedInOne

AccountInv == within = {} => AccountsSound

(* No call and no row are what the type says.                               *)
LEMMA NobodyTyped ==
  ASSUME AccountsGiven
  PROVE  /\ A!NoRow \in AccountRows /\ A!NoRow.options = {} /\ A!NoRow.jid = Nobody
         /\ A!NoCall \in Lookups /\ A!NoCall.pc = "none" /\ A!NoCall.answer = Nobody
         /\ CallOfOne(A!NoCall)
<1>1. A!NoRow \in AccountRows /\ A!NoRow.options = {} /\ A!NoRow.jid = Nobody
  BY DEF A!NoRow, AccountRows
<1>2. A!NoCall \in Lookups
  BY DEF A!NoCall, Lookups, AccountsGiven
<1>3. A!NoCall.pc = "none" /\ A!NoCall.answer = Nobody
  BY DEF A!NoCall
<1>. QED BY <1>1, <1>2, <1>3 DEF CallOfOne

(* The forms of an address are addresses of its number, itself among them.  *)
LEMMA Expanded ==
  ASSUME NEW j \in A!Jids
  PROVE  j \in A!Expand(j) /\ A!Expand(j) \subseteq A!Jids /\ AllOf(A!Expand(j), j.number)
<1>1. j = A!Jid(j.number, j.form) /\ j.number \in Numbers /\ j.form \in A!Forms \cup {"lid"}
  BY DEF A!Jids, A!Jid
<1>2. \A f \in A!Forms : A!Jid(j.number, f) \in A!Jids /\ A!Jid(j.number, f).number = j.number
  BY <1>1 DEF A!Jids, A!Jid
<1>. QED BY <1>1, <1>2 DEF A!Expand, AllOf

(* The addresses a save is about.                                           *)
LEMMA OfTheSave ==
  ASSUME NEW k, OnAccount(k.jid), A!LidAlt(k) \subseteq {A!Lid(k.jid.number)}
  PROVE  /\ k.jid \in A!Addresses(k) /\ A!LidAlt(k) \subseteq A!Addresses(k)
         /\ A!Addresses(k) \subseteq A!Jids /\ AllOf(A!Addresses(k), k.jid.number)
<1>. DEFINE n == k.jid.number
<1>1. k.jid \in A!Jids /\ n \in Numbers
  BY DEF OnAccount, A!Jids
<1>2. A!Lid(n) \in A!Jids /\ A!Lid(n).number = n
  BY <1>1 DEF A!Lid, A!Jid, A!Jids
<1>3. \A j \in {k.jid} \cup A!LidAlt(k) : j \in A!Jids /\ j.number = n
  BY <1>1, <1>2
<1>4. \A j \in {k.jid} \cup A!LidAlt(k) :
        j \in A!Expand(j) /\ A!Expand(j) \subseteq A!Jids /\ AllOf(A!Expand(j), n)
  BY <1>3, Expanded
<1>. HIDE DEF n
<1>. QED BY <1>4 DEF A!Addresses, AllOf, n

(* At the start nothing is saved.                                           *)
LEMMA AccountInit == ASSUME AccountsGiven, A!Init PROVE AccountInv
<1>1. AccountTypes
  BY NobodyTyped DEF A!Init, AccountTypes
<1>2. \A i \in A!Ids : accounts[i] = A!NoRow
  BY DEF A!Init
<1>3. \A c \in Calls : lookups[c] = A!NoCall
  BY DEF A!Init
<1>4. linked = {}
  BY DEF A!Init
<1>. QED BY <1>1, <1>2, <1>3, <1>4, NobodyTyped
  DEF AccountInv, AccountsSound, RowsOfOne, RowOfOne, CallsOfOne, WritesFound, Alone,
  LinkedInOne

(* The invariant is of what the property asks.                              *)
LEMMA AccountEntails == ASSUME AccountInv PROVE A!OneAccount
BY DEF AccountInv, AccountsSound, CallsOfOne, CallOfOne, LinkedInOne, OneRow,
       A!OneAccount

(* What is unchanged when only the calls move.                              *)
LEMMA RowsRest ==
  ASSUME AccountsSound, UNCHANGED <<registered, accounts, linked, amarks>>, lookups' \in [Calls -> Lookups]
  PROVE  AccountTypes' /\ RowsOfOne' /\ LinkedInOne'
<1>1. AccountTypes'
  BY DEF AccountsSound, AccountTypes
<1>2. RowsOfOne'
  BY DEF AccountsSound, RowsOfOne, RowOfOne, OnAccount, A!Phone, A!Lid, A!Jid
<1>3. LinkedInOne'
  BY DEF AccountsSound, LinkedInOne, OneRow, A!Phone, A!Lid, A!Jid
<1>. QED BY <1>1, <1>2, <1>3

(* A call that is begun meets the others.                                   *)
LEMMA LookupBegins ==
  ASSUME AccountsGiven, AccountsSound, UNCHANGED <<registered, accounts, linked, amarks>>,
         NEW c \in Calls, NEW k \in Lookups, A!Begin(c, k), CallOfOne(k), k.pc \in {"find", "look"}
  PROVE  AccountsSound'
<1>. DEFINE others == {d \in Calls : lookups[d] # A!NoCall}
<1>. DEFINE new == [k EXCEPT !.met = others # {}]
<1>. DEFINE Seen(d) == [lookups[d] EXCEPT !.met = TRUE]
<1>1. lookups' = [d \in Calls |-> IF d = c THEN new ELSE IF d \in others THEN Seen(d) ELSE lookups[d]]
  BY DEF A!Begin
<1>2. lookups[c] = A!NoCall
  BY DEF A!Begin
<1>3. /\ new \in Lookups /\ new.pc = k.pc /\ new.jid = k.jid /\ new.alt = k.alt
      /\ new.options = k.options /\ new.asked = k.asked /\ new.answer = k.answer
      /\ new.met = (others # {})
  BY DEF Lookups
<1>4. ASSUME NEW d \in Calls
      PROVE  /\ Seen(d) \in Lookups /\ Seen(d).pc = lookups[d].pc /\ Seen(d).jid = lookups[d].jid
             /\ Seen(d).alt = lookups[d].alt /\ Seen(d).options = lookups[d].options
             /\ Seen(d).asked = lookups[d].asked /\ Seen(d).answer = lookups[d].answer
             /\ Seen(d).met = TRUE /\ Seen(d).found = lookups[d].found
  <2>1. lookups[d] \in Lookups
    BY DEF AccountsSound, AccountTypes
  <2>. QED BY <2>1 DEF Lookups
<1>5. CallOfOne(new)
  BY <1>3 DEF CallOfOne, A!LidAlt, A!Addresses
<1>6. \A d \in Calls : CallOfOne(lookups[d])
  BY DEF AccountsSound, CallsOfOne
<1>7. \A d \in Calls : CallOfOne(Seen(d))
  BY <1>4, <1>6 DEF CallOfOne, A!LidAlt, A!Addresses
<1>. HIDE DEF new, Seen
<1>8. lookups' \in [Calls -> Lookups]
  BY <1>1, <1>3, <1>4 DEF AccountsSound, AccountTypes
<1>9. AccountTypes' /\ RowsOfOne' /\ LinkedInOne'
  BY <1>8, RowsRest
<1>10. CallsOfOne'
  <2>1. ASSUME NEW d \in Calls PROVE CallOfOne(lookups'[d])
    BY <1>1, <1>5, <1>6, <1>7
  <2>. QED BY <2>1 DEF CallsOfOne, CallOfOne, OnAccount, A!Phone, A!Lid, A!Jid, A!LidAlt,
                  A!Addresses
<1>11. WritesFound'
  <2>. SUFFICES ASSUME NEW d \in Calls, lookups'[d].pc = "write" PROVE FoundStill(lookups[d])'
    BY DEF WritesFound
  <2>1. d # c
    BY <1>1, <1>3
  <2>2. d \in others
    BY <1>1, <2>1, NobodyTyped
  <2>3. lookups'[d] = Seen(d)
    BY <1>1, <2>1, <2>2
  <2>4. FoundStill(lookups[d])
    BY ZenonT(40), <1>4, <2>3 DEF AccountsSound, WritesFound
  <2>. QED BY ZenonT(40), <1>4, <2>3, <2>4 DEF FoundStill
<1>12. Alone'
  <2>. SUFFICES ASSUME NEW x \in Calls, NEW y \in Calls, x # y, lookups'[x] # A!NoCall, ~lookups'[x].met
                PROVE  lookups'[y] = A!NoCall
    BY DEF Alone, A!NoCall
  <2>1. x \notin others \/ x = c
    BY <1>1, <1>4
  <2>2. x = c
    BY <1>1, <2>1
  <2>3. others = {}
    BY <1>1, <1>3, <2>2
  <2>. QED BY <1>1, <2>2, <2>3
<1>. QED BY <1>9, <1>10, <1>11, <1>12 DEF AccountsSound

(* A call that goes on, or ends, while the rows rest.                       *)
LEMMA LookupProceeds ==
  ASSUME AccountsGiven, AccountsSound, UNCHANGED <<registered, accounts, linked, amarks>>,
         NEW c \in Calls, NEW k \in Lookups, lookups' = [lookups EXCEPT ![c] = k], lookups[c] # A!NoCall,
         k = A!NoCall \/ k.met = lookups[c].met, CallOfOne(k), k.pc = "write" => FoundStill(k)
  PROVE  AccountsSound'
<1>0. lookups \in [Calls -> Lookups]
  BY DEF AccountsSound, AccountTypes
<1>1. \A d \in Calls : lookups'[d] = IF d = c THEN k ELSE lookups[d]
  BY <1>0
<1>2. lookups' \in [Calls -> Lookups]
  BY <1>0
<1>3. AccountTypes' /\ RowsOfOne' /\ LinkedInOne'
  BY <1>2, RowsRest
<1>4. CallsOfOne'
  <2>1. ASSUME NEW d \in Calls PROVE CallOfOne(lookups'[d])
    <3>1. CallOfOne(lookups[d])
      BY DEF AccountsSound, CallsOfOne
    <3>2. lookups'[d] = k \/ lookups'[d] = lookups[d]
      BY <1>1
    <3>. QED BY <3>1, <3>2
  <2>2. ASSUME NEW d \in Calls PROVE CallOfOne(lookups[d])'
    BY <2>1 DEF CallOfOne, OnAccount, A!Phone, A!Lid, A!Jid, A!LidAlt, A!Addresses
  <2>. QED BY <2>2 DEF CallsOfOne
<1>5. WritesFound'
  <2>1. ASSUME NEW d \in Calls, lookups'[d].pc = "write" PROVE FoundStill(lookups'[d])
    BY <1>1, <2>1 DEF AccountsSound, WritesFound
  <2>2. ASSUME NEW d \in Calls, lookups'[d].pc = "write" PROVE FoundStill(lookups[d])'
    BY <2>1, <2>2 DEF FoundStill
  <2>. QED BY <2>2 DEF WritesFound
<1>6. Alone'
  <2>. SUFFICES ASSUME NEW x \in Calls, NEW y \in Calls, x # y, lookups'[x] # A!NoCall, ~lookups'[x].met
                PROVE  lookups'[y] = A!NoCall
    BY DEF Alone, A!NoCall
  <2>. QED BY <1>1 DEF AccountsSound, Alone
<1>. QED BY <1>3, <1>4, <1>5, <1>6 DEF AccountsSound

(* A row a save matches is of its number.                                   *)
LEMMA MatchesItsOwn ==
  ASSUME AccountsSound, within = {}, NEW i \in A!Ids, NEW k, A!Matches(i, k),
         OnAccount(k.jid), AllOf(A!Addresses(k), k.jid.number)
  PROVE  \E o \in accounts[i].options : o.number = k.jid.number
<1>1. RowOfOne(accounts[i]) /\ accounts[i] # A!NoRow
  BY DEF AccountsSound, RowsOfOne, A!Matches, A!Row
<1>2. CASE accounts[i].jid = k.jid
  BY <1>1, <1>2 DEF RowOfOne
<1>3. CASE \E j \in A!Addresses(k) : A!Contains(accounts[i].options, j)
  BY <1>3 DEF A!Contains, AllOf
<1>. QED BY <1>2, <1>3 DEF A!Matches

(* A save finds a row of its number, or none.                               *)
LEMMA FindKeeps ==
  ASSUME AccountsGiven, AccountsSound, within = {}, NEW c \in Calls, A!Find(c)
  PROVE  AccountsSound'
<1>. DEFINE lookup == lookups[c]
<1>. DEFINE matching == {id \in A!Ids : A!Matches(id, lookup)}
<1>1. lookup \in Lookups /\ lookup.pc = "find" /\ CallOfOne(lookup)
  BY DEF AccountsSound, AccountTypes, CallsOfOne, A!Find
<1>2. PICK id \in (IF matching = {} THEN {0} ELSE matching) :
        lookups' = [lookups EXCEPT ![c].pc = "write", ![c].found = id,
                    ![c].options = A!Addresses(lookup) \cup (IF id = 0 THEN {} ELSE accounts[id].options),
                    ![c].same = /\ id # 0
                                /\ accounts[id].jid = lookup.jid /\ accounts[id].lid = lookup.lid
                                /\ A!Addresses(lookup) \subseteq accounts[id].options]
  BY DEF A!Find
<1>. DEFINE options == A!Addresses(lookup) \cup (IF id = 0 THEN {} ELSE accounts[id].options)
<1>. DEFINE same == /\ id # 0
                    /\ accounts[id].jid = lookup.jid /\ accounts[id].lid = lookup.lid
                    /\ A!Addresses(lookup) \subseteq accounts[id].options
<1>. DEFINE k == [lookup EXCEPT !.pc = "write", !.found = id, !.options = options, !.same = same]
<1>3. lookups' = [lookups EXCEPT ![c] = k]
  BY <1>2
<1>4. id \in 0..MaxRows /\ (id = 0 => matching = {}) /\ (id # 0 => id \in A!Ids /\ A!Matches(id, lookup))
  BY DEF AccountsGiven, A!Ids
<1>5. OnAccount(lookup.jid)
      /\ (A!LidAlt(lookup) # {} => A!LidAlt(lookup) = {A!Lid(lookup.jid.number)} /\ lookup.jid = A!Phone(lookup.jid.number))
  BY <1>1 DEF CallOfOne
<1>6. /\ lookup.jid \in A!Addresses(lookup) /\ A!Addresses(lookup) \subseteq A!Jids
      /\ AllOf(A!Addresses(lookup), lookup.jid.number)
  <2>1. A!LidAlt(lookup) \subseteq {A!Lid(lookup.jid.number)}
    BY <1>5
  <2>. HIDE DEF lookup
  <2>. QED BY <1>5, <2>1, OfTheSave
<1>7. id # 0 => \E o \in accounts[id].options : o.number = lookup.jid.number
  <2>. HIDE DEF lookup
  <2>. QED BY <1>4, <1>5, <1>6, MatchesItsOwn
<1>8. id # 0 => accounts[id].options \subseteq A!Jids /\ AllOf(accounts[id].options, lookup.jid.number)
  <2>. SUFFICES ASSUME id # 0 PROVE accounts[id].options \subseteq A!Jids /\ AllOf(accounts[id].options, lookup.jid.number)
    OBVIOUS
  <2>1. accounts[id] \in AccountRows /\ RowOfOne(accounts[id])
    BY <1>4 DEF AccountsSound, AccountTypes, RowsOfOne
  <2>2. accounts[id].options \subseteq A!Jids
    BY <2>1 DEF AccountRows
  <2>3. accounts[id] # A!NoRow
    BY <1>7 DEF A!NoRow
  <2>. QED BY <1>7, <2>1, <2>2, <2>3 DEF RowOfOne, AllOf
<1>9. options \subseteq A!Jids /\ AllOf(options, lookup.jid.number) /\ A!Addresses(lookup) \subseteq options
  BY <1>6, <1>8 DEF AllOf
<1>10. same \in BOOLEAN
  OBVIOUS
<1>. HIDE DEF options, same, matching, lookup
<1>11. /\ k \in Lookups /\ k.pc = "write" /\ k.found = id /\ k.options = options /\ k.same = same
       /\ k.jid = lookup.jid /\ k.alt = lookup.alt /\ k.met = lookup.met /\ k.asked = lookup.asked
       /\ k.answer = lookup.answer
  BY <1>1, <1>4, <1>9, <1>10 DEF Lookups
<1>. HIDE DEF k
<1>12. A!LidAlt(k) = A!LidAlt(lookup) /\ A!Addresses(k) = A!Addresses(lookup)
  BY <1>11 DEF A!LidAlt, A!Addresses
<1>13. CallOfOne(k)
  BY <1>1, <1>9, <1>11, <1>12 DEF CallOfOne
<1>14. FoundStill(k)
  <2>1. ASSUME id = 0, NEW i \in A!Ids PROVE accounts[i].jid # lookup.jid
    <3>1. ~A!Matches(i, lookup)
      BY <1>4, <2>1 DEF matching
    <3>2. accounts[i] = A!NoRow => accounts[i].jid # lookup.jid
      BY <1>5, NobodyTyped DEF AccountsGiven, OnAccount
    <3>. QED BY <3>1, <3>2 DEF A!Matches, A!Row
  <2>2. id # 0 => accounts[id].options \subseteq options
    BY DEF options
  <2>3. same => id # 0 /\ A!Addresses(lookup) \subseteq accounts[id].options
    BY DEF same
  <2>. QED BY <1>7, <1>11, <1>12, <2>1, <2>2, <2>3 DEF FoundStill
<1>15. UNCHANGED <<registered, accounts, linked, amarks>> /\ lookups[c] # A!NoCall
  BY <1>1, NobodyTyped DEF A!Find, lookup
<1>16. k.met = lookups[c].met
  BY <1>11 DEF lookup
<1>. QED BY <1>3, <1>11, <1>13, <1>14, <1>15, <1>16, LookupProceeds

(* A lookup is answered from a row of the number, or goes on.               *)
LEMMA LookKeeps ==
  ASSUME AccountsGiven, AccountsSound, within = {}, NEW c \in Calls, A!Look(c)
  PROVE  AccountsSound'
<1>. DEFINE lookup == lookups[c]
<1>. DEFINE j == lookup.asked
<1>. DEFINE hits == {id \in A!Cached(j) : j \in accounts[id].options}
<1>1. lookup \in Lookups /\ lookup.pc = "look" /\ CallOfOne(lookup) /\ j \in A!Jids
  BY DEF AccountsSound, AccountTypes, CallsOfOne, CallOfOne, A!Look
<1>2. UNCHANGED <<registered, accounts, linked, amarks>> /\ lookups[c] # A!NoCall
  BY <1>1, NobodyTyped DEF A!Look
<1>3. ASSUME NEW id \in hits,
             lookups' = [lookups EXCEPT ![c].pc = "answered", ![c].answer = accounts[id].jid]
      PROVE  AccountsSound'
  <2>. DEFINE k == [lookup EXCEPT !.pc = "answered", !.answer = accounts[id].jid]
  <2>1. lookups' = [lookups EXCEPT ![c] = k]
    BY <1>3
  <2>2. id \in A!Ids /\ accounts[id] # A!NoRow /\ j \in accounts[id].options
    BY DEF A!Cached, A!Row
  <2>3. accounts[id] \in AccountRows /\ RowOfOne(accounts[id])
    BY <2>2 DEF AccountsSound, AccountTypes, RowsOfOne
  <2>4. OnAccount(accounts[id].jid) /\ accounts[id].jid.number = j.number
    BY <2>2, <2>3 DEF RowOfOne, AllOf
  <2>5. /\ k \in Lookups /\ k.pc = "answered" /\ k.answer = accounts[id].jid /\ k.asked = j
        /\ k.met = lookup.met
    BY <1>1, <2>4 DEF Lookups, OnAccount
  <2>6. CallOfOne(k)
    BY <2>4, <2>5 DEF CallOfOne, OnAccount
  <2>. HIDE DEF k
  <2>. QED BY <1>2, <2>1, <2>5, <2>6, LookupProceeds
<1>4. ASSUME j.form = "lid",
             lookups' = [lookups EXCEPT ![c].pc = "find", ![c].answer = j, ![c].jid = j, ![c].lid = TRUE]
      PROVE  AccountsSound'
  <2>. DEFINE k == [lookup EXCEPT !.pc = "find", !.answer = j, !.jid = j, !.lid = TRUE]
  <2>1. lookups' = [lookups EXCEPT ![c] = k]
    BY <1>4
  <2>2. j = A!Lid(j.number)
    BY <1>1, <1>4 DEF A!Jids, A!Lid, A!Jid
  <2>3. /\ k \in Lookups /\ k.pc = "find" /\ k.answer = j /\ k.jid = j /\ k.asked = j
        /\ k.met = lookup.met /\ k.alt = lookup.alt
    BY <1>1 DEF Lookups
  <2>4. A!LidAlt(lookup) = {}
    BY <1>1 DEF CallOfOne
  <2>5. A!LidAlt(k) = {}
    BY <2>3, <2>4 DEF A!LidAlt
  <2>. HIDE DEF k, j
  <2>6. CallOfOne(k)
    BY <1>1, <2>2, <2>3, <2>5 DEF CallOfOne, OnAccount
  <2>. QED BY <1>2, <2>1, <2>3, <2>6, LookupProceeds
<1>5. ASSUME lookups' = [lookups EXCEPT ![c].pc = "verify"] PROVE AccountsSound'
  <2>. DEFINE k == [lookup EXCEPT !.pc = "verify"]
  <2>1. lookups' = [lookups EXCEPT ![c] = k]
    BY <1>5
  <2>2. /\ k \in Lookups /\ k.pc = "verify" /\ k.answer = lookup.answer /\ k.asked = j
        /\ k.met = lookup.met /\ k.alt = lookup.alt
    BY <1>1 DEF Lookups
  <2>3. CallOfOne(k)
    BY <1>1, <2>2 DEF CallOfOne, A!LidAlt
  <2>. HIDE DEF k
  <2>. QED BY <1>2, <2>1, <2>2, <2>3, LookupProceeds
<1>. QED BY <1>3, <1>4, <1>5 DEF A!Look

(* WhatsApp answers with the registered phone, or with nobody.              *)
LEMMA VerifyKeeps ==
  ASSUME AccountsGiven, AccountsSound, NEW c \in Calls, A!Verify(c)
  PROVE  AccountsSound'
<1>. DEFINE lookup == lookups[c]
<1>. DEFINE n == lookup.asked.number
<1>1. lookup \in Lookups /\ lookup.pc = "verify" /\ CallOfOne(lookup) /\ lookup.asked \in A!Jids
  BY DEF AccountsSound, AccountTypes, CallsOfOne, CallOfOne, A!Verify
<1>2. UNCHANGED <<registered, accounts, linked, amarks>> /\ lookups[c] # A!NoCall
  BY <1>1, NobodyTyped DEF A!Verify
<1>3. n \in Numbers
  BY <1>1 DEF A!Jids
<1>4. CASE registered[n] = Nobody
  <2>. DEFINE k == [lookup EXCEPT !.pc = "answered"]
  <2>1. lookups' = [lookups EXCEPT ![c] = k]
    BY <1>4 DEF A!Verify
  <2>2. /\ k \in Lookups /\ k.pc = "answered" /\ k.answer = lookup.answer /\ k.asked = lookup.asked
        /\ k.met = lookup.met
    BY <1>1 DEF Lookups
  <2>3. CallOfOne(k)
    BY <1>1, <2>2 DEF CallOfOne
  <2>. HIDE DEF k
  <2>. QED BY <1>2, <2>1, <2>2, <2>3, LookupProceeds
<1>5. CASE registered[n] # Nobody
  <2>. DEFINE k == [lookup EXCEPT !.pc = "find", !.answer = A!Phone(n), !.jid = A!Phone(n)]
  <2>1. lookups' = [lookups EXCEPT ![c] = k]
    BY <1>5 DEF A!Verify
  <2>2. A!Phone(n) \in A!Jids /\ A!Phone(n).number = n
    BY <1>3, <1>5 DEF AccountsSound, AccountTypes, A!Phone, A!Jid, A!Jids
  <2>3. /\ k \in Lookups /\ k.pc = "find" /\ k.answer = A!Phone(n) /\ k.jid = A!Phone(n)
        /\ k.asked = lookup.asked /\ k.met = lookup.met /\ k.alt = lookup.alt
    BY <1>1, <2>2 DEF Lookups
  <2>4. A!LidAlt(k) = {}
    BY <1>1, <2>3 DEF CallOfOne, A!LidAlt
  <2>. HIDE DEF k
  <2>5. CallOfOne(k)
    BY <2>2, <2>3, <2>4 DEF CallOfOne, OnAccount
  <2>. QED BY <1>2, <2>1, <2>3, <2>5, LookupProceeds
<1>. QED BY <1>4, <1>5

(* A lookup that is answered is over.                                       *)
LEMMA ReturnKeeps ==
  ASSUME AccountsGiven, AccountsSound, NEW c \in Calls, A!Return(c)
  PROVE  AccountsSound'
<1>1. UNCHANGED <<registered, accounts, linked, amarks>> /\ lookups[c] # A!NoCall
  BY NobodyTyped DEF A!Return
<1>2. lookups' = [lookups EXCEPT ![c] = A!NoCall]
  BY DEF A!Return
<1>. QED BY <1>1, <1>2, NobodyTyped, LookupProceeds

(* What grows old keeps its addresses.                                      *)
LEMMA AgeKeeps == ASSUME AccountsGiven, AccountsSound, A!Age PROVE AccountsSound'
<1>. DEFINE Old(i) == [accounts[i] EXCEPT !.fresh = FALSE]
<1>0. /\ accounts' = [i \in A!Ids |-> Old(i)]
      /\ UNCHANGED <<registered, lookups, linked, amarks>>
  BY DEF A!Age
<1>1. ASSUME NEW i \in A!Ids
      PROVE  /\ Old(i) \in AccountRows /\ Old(i).jid = accounts[i].jid
             /\ Old(i).options = accounts[i].options /\ (accounts[i] = A!NoRow => Old(i) = A!NoRow)
  <2>1. accounts[i] \in AccountRows
    BY DEF AccountsSound, AccountTypes
  <2>2. /\ Old(i) \in AccountRows /\ Old(i).jid = accounts[i].jid
        /\ Old(i).options = accounts[i].options
    BY <2>1 DEF AccountRows
  <2>3. accounts[i] = A!NoRow => Old(i) = A!NoRow
    <3>1. \A r \in AccountRows : r.fresh = FALSE => [r EXCEPT !.fresh = FALSE] = r
      BY DEF AccountRows
    <3>2. A!NoRow.fresh = FALSE
      BY DEF A!NoRow
    <3>. QED BY <3>1, <3>2, NobodyTyped
  <2>. QED BY <2>2, <2>3
<1>. HIDE DEF Old
<1>2. \A i \in A!Ids : accounts'[i] = Old(i)
  BY <1>0
<1>3. AccountTypes'
  BY <1>0, <1>1 DEF AccountsSound, AccountTypes
<1>4. RowsOfOne'
  <2>1. ASSUME NEW i \in A!Ids PROVE RowOfOne(accounts'[i])
    BY <1>1, <1>2 DEF AccountsSound, RowsOfOne, RowOfOne
  <2>. QED BY <1>0, <2>1 DEF RowsOfOne, RowOfOne, OnAccount, A!Phone, A!Lid, A!Jid
<1>5. CallsOfOne'
  BY <1>0 DEF AccountsSound, CallsOfOne, CallOfOne, OnAccount, A!Phone, A!Lid, A!Jid,
         A!LidAlt, A!Addresses
<1>6. WritesFound'
  <2>. SUFFICES ASSUME NEW d \in Calls, lookups[d].pc = "write" PROVE FoundStill(lookups[d])'
    BY <1>0 DEF WritesFound
  <2>1. FoundStill(lookups[d])
    BY DEF AccountsSound, WritesFound
  <2>2. lookups[d].found \in 0..MaxRows
    BY DEF AccountsSound, AccountTypes, Lookups
  <2>3. lookups[d].found # 0 => lookups[d].found \in A!Ids
    BY <2>2 DEF A!Ids, AccountsGiven
  <2>. QED BY <1>0, <1>1, <1>2, <2>1, <2>3 DEF FoundStill, A!Addresses, A!LidAlt
<1>7. Alone'
  BY <1>0 DEF AccountsSound, Alone, A!NoCall
<1>8. LinkedInOne'
  <2>1. ASSUME NEW n \in Numbers, OneRow(n) PROVE OneRow(n)'
    BY <1>0, <1>1, <1>2, <2>1 DEF OneRow, A!Phone, A!Lid, A!Jid
  <2>2. linked \subseteq Numbers
    BY DEF AccountsSound, AccountTypes
  <2>. QED BY <1>0, <2>1, <2>2 DEF AccountsSound, LinkedInOne
<1>. QED BY <1>3, <1>4, <1>5, <1>6, <1>7, <1>8 DEF AccountsSound

(* Where a row is free there is a first that is.                            *)
LEMMA FirstFree ==
  ASSUME AccountsGiven, \E i \in A!Ids : ~A!Row(i)
  PROVE  \E i \in A!Ids : ~A!Row(i) /\ \A k \in A!Ids : k < i => A!Row(k)
<1>. DEFINE T == {i \in A!Ids : ~A!Row(i)}
<1>1. PICK x \in T : \A y \in T : ~(<<y, x>> \in OpToRel(<, Nat))
  <2>1. T \subseteq Nat /\ \E y : y \in T
    BY DEF A!Ids
  <2>. HIDE DEF T
  <2>. QED BY <2>1, WFMin, NatLessThanWellFounded
<1>2. x \in A!Ids /\ ~A!Row(x)
  OBVIOUS
<1>3. ASSUME NEW k \in A!Ids, k < x PROVE A!Row(k)
  <2>1. k \in Nat /\ x \in Nat
    BY <1>2 DEF A!Ids
  <2>2. <<k, x>> \in OpToRel(<, Nat)
    BY <1>3, <2>1 DEF OpToRel
  <2>. QED BY <1>1, <2>2
<1>. QED BY <1>2, <1>3

(* Two rows of a number are more than one.                                  *)
LEMMA TwoOf ==
  ASSUME NEW n, NEW i \in A!Of(n), NEW j \in A!Of(n), i # j, AccountsGiven
  PROVE  Cardinality(A!Of(n)) > 1
<1>1. IsFiniteSet(A!Ids)
  BY FS_Interval DEF A!Ids, AccountsGiven
<1>2. IsFiniteSet(A!Of(n))
  <2>1. A!Of(n) \in SUBSET A!Ids
    BY DEF A!Of
  <2>. HIDE DEF A!Of
  <2>. QED BY <1>1, <2>1, FS_Subset
<1>3. IsFiniteSet({i}) /\ Cardinality({i}) = 1
  BY FS_Singleton
<1>4. Cardinality({i}) <= Cardinality(A!Of(n)) /\ (Cardinality(A!Of(n)) = Cardinality({i}) => A!Of(n) = {i})
  <2>1. {i} \in SUBSET A!Of(n)
    OBVIOUS
  <2>. HIDE DEF A!Of
  <2>. QED BY <1>2, <2>1, FS_Subset
<1>5. Cardinality(A!Of(n)) \in Nat
  BY <1>2, FS_CardinalityType
<1>6. A!Of(n) # {i}
  OBVIOUS
<1>. HIDE DEF A!Of
<1>. QED BY <1>3, <1>4, <1>5, <1>6

(* The component counts as this module does.                                *)
LEMMA CacheSize == \A s : A!Cardinality(s) = Cardinality(s)
BY Zenon DEF A!Cardinality, Cardinality

(* A write leaves every row of the number it was of, and joins what it      *)
(* links, unless the number has two rows.                                   *)
LEMMA WriteKeeps ==
  ASSUME AccountsGiven, AccountsSound, within = {}, NEW c \in Calls, A!Write(c)
  PROVE  AccountsSound'
<1>. DEFINE lookup == lookups[c]
<1>. DEFINE n == lookup.jid.number
<1>. DEFINE free == CHOOSE i \in A!Ids : ~A!Row(i) /\ \A k \in A!Ids : k < i => A!Row(k)
<1>. DEFINE id == IF lookup.found # 0 THEN lookup.found ELSE free
<1>. DEFINE taken == \E k \in A!Ids \ {lookup.found} : accounts[k].jid = lookup.jid
<1>. DEFINE record == [jid |-> lookup.jid, options |-> lookup.options, lid |-> lookup.lid, fresh |-> TRUE]
<1>1. /\ lookup \in Lookups /\ lookup.pc = "write" /\ CallOfOne(lookup) /\ FoundStill(lookup)
      /\ lookup # A!NoCall
  BY NobodyTyped DEF AccountsSound, AccountTypes, CallsOfOne, WritesFound, A!Write
<1>2. /\ lookup.found = 0 => \E i \in A!Ids : ~A!Row(i)
      /\ IF lookup.same \/ taken THEN UNCHANGED accounts ELSE accounts' = [accounts EXCEPT ![id] = record]
      /\ linked' = IF A!LidAlt(lookup) # {} THEN linked \cup {n} ELSE linked
      /\ amarks' = [amarks EXCEPT ![n] = @ \cup (IF lookup.met THEN {"met"} ELSE {})
                                      \cup (IF Cardinality(A!Of(n)) > 1 THEN {"split"} ELSE {})]
      /\ lookups' = [lookups EXCEPT ![c] = A!NoCall]
      /\ UNCHANGED <<registered, within>>
  BY CacheSize DEF A!Write
<1>3. /\ OnAccount(lookup.jid) /\ A!Addresses(lookup) \subseteq lookup.options /\ AllOf(lookup.options, n)
      /\ (A!LidAlt(lookup) # {} => A!LidAlt(lookup) = {A!Lid(n)} /\ lookup.jid = A!Phone(n))
      /\ lookup.found \in 0..MaxRows
      /\ lookup.options \subseteq A!Jids
  BY <1>1 DEF CallOfOne, Lookups
<1>4. /\ lookup.jid \in A!Addresses(lookup) /\ A!LidAlt(lookup) \subseteq A!Addresses(lookup)
      /\ n \in Numbers /\ lookup.jid # Nobody
  <2>1. A!LidAlt(lookup) \subseteq {A!Lid(lookup.jid.number)}
    BY <1>3
  <2>2. lookup.jid \in A!Addresses(lookup) /\ A!LidAlt(lookup) \subseteq A!Addresses(lookup)
    <3>. HIDE DEF lookup
    <3>. QED BY <1>3, <2>1, OfTheSave
  <2>. QED BY <1>3, <2>2 DEF OnAccount, A!Jids, AccountsGiven
<1>5. id \in A!Ids /\ (lookup.found # 0 => id = lookup.found) /\ (lookup.found = 0 => ~A!Row(id))
  <2>1. CASE lookup.found # 0
    BY <1>3, <2>1 DEF A!Ids, AccountsGiven
  <2>2. CASE lookup.found = 0
    <3>1. \E i \in A!Ids : ~A!Row(i) /\ \A k \in A!Ids : k < i => A!Row(k)
      BY <1>2, <2>2, FirstFree
    <3>. QED BY <2>2, <3>1
  <2>. QED BY <2>1, <2>2
<1>6. record \in AccountRows /\ record.jid = lookup.jid /\ record.options = lookup.options
  BY <1>1 DEF Lookups, AccountRows
<1>7. RowOfOne(record)
  BY <1>3, <1>4, <1>6 DEF RowOfOne
<1>. HIDE DEF record, id, taken, lookup, free
<1>8. \A i \in A!Ids : \/ accounts'[i] = accounts[i]
                       \/ i = id /\ accounts'[i] = record /\ ~lookup.same /\ ~taken
  BY <1>2, <1>5 DEF AccountsSound, AccountTypes
<1>9. ~(lookup.same \/ taken) => accounts'[id] = record
  BY <1>2, <1>5 DEF AccountsSound, AccountTypes
<1>10. accounts' \in [A!Ids -> AccountRows]
  BY <1>2, <1>6 DEF AccountsSound, AccountTypes
<1>11. \A i \in A!Ids : RowOfOne(accounts[i]) /\ (accounts[i].options # {} => A!Row(i))
  BY NobodyTyped DEF AccountsSound, RowsOfOne, A!Row
<1>12. \A i \in A!Ids, m \in Numbers : (\E o \in accounts[i].options : o.number = m) => AllOf(accounts[i].options, m)
  BY <1>11 DEF RowOfOne, AllOf, A!NoRow
<1>13. lookup.found # 0 => \E o \in accounts[id].options : o.number = n
  BY <1>1, <1>5 DEF FoundStill
<1>14. ASSUME NEW i \in A!Ids, NEW m, \E o \in accounts[i].options : o.number = m
       PROVE  \E o \in accounts'[i].options : o.number = m
  <2>1. CASE accounts'[i] = accounts[i]
    BY <1>14, <2>1
  <2>2. CASE i = id /\ accounts'[i] = record
    <3>1. A!Row(i)
      BY <1>11, <1>14
    <3>2. lookup.found # 0
      BY <1>5, <2>2, <3>1
    <3>3. AllOf(accounts[id].options, n)
      BY <1>4, <1>5, <1>12, <1>13, <3>2
    <3>4. m = n
      BY <1>14, <2>2, <3>3 DEF AllOf
    <3>. QED BY <1>3, <1>4, <1>6, <2>2, <3>4
  <2>. QED BY <1>8, <2>1, <2>2
<1>15. /\ amarks' \in [Numbers -> SUBSET {"met", "split"}]
       /\ \A m \in Numbers : amarks'[m] = {} => amarks[m] = {}
       /\ amarks'[n] = {} => ~lookup.met /\ ~(Cardinality(A!Of(n)) > 1)
  BY <1>2, <1>4 DEF AccountsSound, AccountTypes
<1>16. \A d \in Calls : lookups'[d] = IF d = c THEN A!NoCall ELSE lookups[d]
  BY <1>2 DEF AccountsSound, AccountTypes
<1>17. AccountTypes'
  <2>1. lookups' \in [Calls -> Lookups]
    BY <1>2, NobodyTyped DEF AccountsSound, AccountTypes
  <2>2. linked' \subseteq Numbers /\ registered' \in [Numbers -> A!Forms \cup {Nobody}]
    BY <1>2, <1>4 DEF AccountsSound, AccountTypes
  <2>. QED BY <1>10, <1>15, <2>1, <2>2 DEF AccountTypes
<1>18. RowsOfOne'
  <2>1. ASSUME NEW i \in A!Ids PROVE RowOfOne(accounts'[i])
    BY <1>7, <1>8, <1>11
  <2>. QED BY <1>2, <2>1 DEF RowsOfOne, RowOfOne, OnAccount, A!Phone, A!Lid, A!Jid
<1>19. CallsOfOne'
  <2>1. ASSUME NEW d \in Calls PROVE CallOfOne(lookups'[d])
    BY <1>16, NobodyTyped DEF AccountsSound, CallsOfOne
  <2>. QED BY ZenonT(40), <1>2, <2>1 DEF CallsOfOne, CallOfOne, OnAccount, A!Phone, A!Lid, A!Jid,
                  A!LidAlt, A!Addresses
<1>20. \A d \in Calls : d # c /\ lookups[d] # A!NoCall => lookups[d].met
  BY <1>1 DEF AccountsSound, Alone, lookup
<1>21. WritesFound'
  <2>. SUFFICES ASSUME NEW d \in Calls, lookups'[d].pc = "write" PROVE FoundStill(lookups[d])'
    BY DEF WritesFound
  <2>1. d # c /\ lookups'[d] = lookups[d]
    BY <1>16, NobodyTyped
  <2>2. lookups[d].met
    BY <1>20, <2>1, NobodyTyped
  <2>3. FoundStill(lookups[d]) /\ lookups[d].found \in 0..MaxRows
    BY <2>1 DEF AccountsSound, AccountTypes, Lookups, WritesFound
  <2>4. lookups[d].found # 0 => lookups[d].found \in A!Ids
    BY <2>3 DEF A!Ids, AccountsGiven
  <2>5. lookups[d].found # 0 =>
          \E o \in accounts'[lookups[d].found].options : o.number = lookups[d].jid.number
    BY <1>14, <2>3, <2>4 DEF FoundStill
  <2>. QED BY <2>1, <2>2, <2>5 DEF FoundStill
<1>22. Alone'
  <2>1. \A d \in Calls : lookups'[d] # A!NoCall => lookups'[d].met
    BY <1>16, <1>20
  <2>. QED BY <2>1 DEF Alone, A!NoCall
<1>23. ASSUME NEW m \in Numbers, m \in linked', amarks'[m] = {}
       PROVE  \E i \in A!Ids : {A!Phone(m), A!Lid(m)} \subseteq accounts'[i].options
  <2>1. CASE m \in linked
    <3>1. PICK i \in A!Ids : {A!Phone(m), A!Lid(m)} \subseteq accounts[i].options
      BY <1>15, <1>23, <2>1 DEF AccountsSound, LinkedInOne, OneRow
    <3>2. CASE accounts'[i] = accounts[i]
      BY <3>1, <3>2
    <3>3. CASE i = id /\ accounts'[i] = record
      <4>1. A!Row(i)
        BY <1>11, <3>1
      <4>2. lookup.found # 0
        BY <1>5, <3>3, <4>1
      <4>3. AllOf(accounts[id].options, n)
        BY <1>4, <1>5, <1>12, <1>13, <4>2
      <4>4. A!Lid(m).number = m
        BY DEF A!Lid, A!Jid
      <4>5. m = n
        BY <3>1, <3>3, <4>3, <4>4 DEF AllOf
      <4>6. ~lookup.met
        BY <1>15, <1>23, <4>5
      <4>7. accounts[id].options \subseteq lookup.options
        BY <1>1, <1>5, <4>2, <4>6 DEF FoundStill
      <4>. QED BY <1>6, <3>1, <3>3, <4>7
    <3>. QED BY <1>8, <3>2, <3>3
  <2>2. CASE m \notin linked
    <3>1. m = n /\ A!LidAlt(lookup) # {}
      BY <1>2, <1>23, <2>2
    <3>2. ~lookup.met /\ ~(Cardinality(A!Of(n)) > 1)
      BY <1>15, <1>23, <3>1
    <3>3. {A!Phone(n), A!Lid(n)} \subseteq A!Addresses(lookup)
      BY <1>3, <1>4, <3>1
    <3>4. CASE lookup.same
      <4>1. lookup.found # 0 /\ A!Addresses(lookup) \subseteq accounts[id].options
        BY <1>1, <1>5, <3>2, <3>4 DEF FoundStill
      <4>2. accounts' = accounts
        BY <1>2, <3>4
      <4>. QED BY <1>5, <3>1, <3>3, <4>1, <4>2
    <3>5. CASE ~lookup.same /\ ~taken
      BY <1>3, <1>5, <1>6, <1>9, <3>1, <3>3, <3>5
    <3>6. ~taken
      <4>. SUFFICES ASSUME NEW k \in A!Ids, k # lookup.found, accounts[k].jid = lookup.jid PROVE FALSE
        BY DEF taken
      <4>1. lookup.found # 0
        BY <1>1, <3>2 DEF FoundStill
      <4>2. accounts[k] # A!NoRow
        BY <1>4, NobodyTyped
      <4>3. k \in A!Of(n)
        BY <1>11, <4>2 DEF A!Of, A!Row, RowOfOne
      <4>4. id \in A!Of(n)
        BY <1>5, <1>11, <1>13, <4>1 DEF A!Of
      <4>5. Cardinality(A!Of(n)) > 1
        BY <1>5, <4>1, <4>3, <4>4, TwoOf
      <4>. QED BY <3>2, <4>5
    <3>. QED BY <3>4, <3>5, <3>6
  <2>. QED BY <2>1, <2>2
<1>24. LinkedInOne'
  <2>1. linked' \subseteq Numbers /\ registered' = registered
    BY <1>2, <1>17 DEF AccountTypes
  <2>2. ASSUME NEW m \in Numbers PROVE A!Phone(m)' = A!Phone(m) /\ A!Lid(m)' = A!Lid(m)
    BY <2>1 DEF A!Phone, A!Lid, A!Jid
  <2>3. ASSUME NEW m \in Numbers, m \in linked', amarks'[m] = {} PROVE OneRow(m)'
    BY <1>23, <2>2, <2>3 DEF OneRow
  <2>. QED BY <2>1, <2>3 DEF LinkedInOne
<1>. QED BY <1>17, <1>18, <1>19, <1>21, <1>22, <1>24 DEF AccountsSound

(* Every step of the saves and the lookups keeps it.                        *)
LEMMA AccountStep == ASSUME AccountsGiven, AccountInv, [A!Next]_A!vars PROVE AccountInv'
<1>1. within' = within
  BY DEF A!Next, A!vars, A!SaveContact, A!SaveMessage, A!Find, A!Write, A!Ask, A!Look,
         A!Verify, A!Return, A!Age
<1>. SUFFICES ASSUME within = {} PROVE AccountsSound'
  BY <1>1 DEF AccountInv
<1>2. AccountsSound
  BY DEF AccountInv
<1>3. ASSUME NEW c \in Calls, NEW n \in Numbers, NEW k, k.pc = "find", k \in Lookups, k.jid = A!Phone(n),
             k.alt \in {Nobody, A!Phone(n), A!Lid(n)}, k.answer = Nobody, registered[n] # Nobody, A!Begin(c, k),
             UNCHANGED <<registered, accounts, linked, amarks>>
      PROVE  AccountsSound'
  <2>1. registered[n] \in A!Forms
    BY <1>2, <1>3 DEF AccountsSound, AccountTypes
  <2>2. /\ A!Phone(n) \in A!Jids /\ A!Phone(n).number = n
        /\ A!Phone(n).form # "lid" /\ A!Lid(n).form = "lid"
    BY <2>1 DEF A!Phone, A!Lid, A!Jid, A!Jids, A!Forms
  <2>3. A!LidAlt(k) \subseteq {A!Lid(n)}
    BY <1>3, <2>2 DEF A!LidAlt
  <2>4. CallOfOne(k)
    BY <1>3, <2>2, <2>3 DEF CallOfOne, OnAccount
  <2>. QED BY <1>2, <1>3, <2>4, LookupBegins
<1>4. ASSUME NEW n \in Numbers, registered[n] # Nobody
      PROVE  A!Phone(n) \in A!Jids /\ A!Lid(n) \in A!Jids
  BY <1>2, <1>4 DEF AccountsSound, AccountTypes, A!Phone, A!Lid, A!Jid, A!Jids
<1>5. ASSUME NEW j \in A!Jids, NEW alt \in A!Jids \cup {Nobody}, NEW lid \in BOOLEAN
      PROVE  /\ A!Saving(j, alt, lid) \in Lookups /\ A!Saving(j, alt, lid).pc = "find"
             /\ A!Saving(j, alt, lid).jid = j /\ A!Saving(j, alt, lid).alt = alt
             /\ A!Saving(j, alt, lid).answer = Nobody
  BY NobodyTyped DEF A!Saving, A!NoCall, Lookups
<1>6. ASSUME NEW c \in Calls, NEW n \in Numbers, A!SaveContact(c, n) PROVE AccountsSound'
  <2>1. /\ registered[n] # Nobody /\ A!Begin(c, A!Saving(A!Phone(n), Nobody, FALSE))
        /\ UNCHANGED <<registered, accounts, linked, amarks>>
    BY <1>6 DEF A!SaveContact
  <2>. DEFINE k == A!Saving(A!Phone(n), Nobody, FALSE)
  <2>2. /\ k \in Lookups /\ k.pc = "find" /\ k.jid = A!Phone(n) /\ k.alt = Nobody /\ k.answer = Nobody
    <3>1. A!Phone(n) \in A!Jids /\ Nobody \in A!Jids \cup {Nobody} /\ FALSE \in BOOLEAN
      BY <1>4, <2>1
    <3>. HIDE DEF k
    <3>2. \A alt \in A!Jids \cup {Nobody}, lid \in BOOLEAN : A!Saving(A!Phone(n), alt, lid) \in Lookups
      BY <1>5, <3>1
    <3>. QED BY <1>5, <3>1 DEF k
  <2>. HIDE DEF k
  <2>3. A!Begin(c, k)
    BY <2>1 DEF k
  <2>. QED BY <1>3, <2>1, <2>2, <2>3
<1>7. ASSUME NEW c \in Calls, NEW n \in Numbers, NEW addressed \in {"pn", "lid"},
             A!SaveMessage(c, n, addressed)
      PROVE  AccountsSound'
  <2>. DEFINE k == IF addressed = "lid" THEN A!Saving(A!Phone(n), A!Phone(n), TRUE)
                   ELSE A!Saving(A!Phone(n), A!Lid(n), FALSE)
  <2>1. /\ registered[n] # Nobody /\ A!Begin(c, k) /\ UNCHANGED <<registered, accounts, linked, amarks>>
    BY <1>7 DEF A!SaveMessage
  <2>2. /\ k \in Lookups /\ k.pc = "find" /\ k.jid = A!Phone(n) /\ k.alt \in {A!Phone(n), A!Lid(n)}
        /\ k.answer = Nobody
    <3>. DEFINE Good(r, alt) ==
           /\ r \in Lookups /\ r.pc = "find" /\ r.jid = A!Phone(n) /\ r.alt = alt
           /\ r.answer = Nobody
    <3>1. /\ A!Phone(n) \in A!Jids /\ A!Phone(n) \in A!Jids \cup {Nobody} /\ A!Lid(n) \in A!Jids \cup {Nobody}
          /\ TRUE \in BOOLEAN /\ FALSE \in BOOLEAN
      BY <1>4, <2>1
    <3>2. ASSUME NEW alt \in A!Jids \cup {Nobody}, NEW lid \in BOOLEAN
          PROVE  Good(A!Saving(A!Phone(n), alt, lid), alt)
      BY <1>5, <3>1
    <3>. HIDE DEF Good
    <3>3. Good(A!Saving(A!Phone(n), A!Phone(n), TRUE), A!Phone(n)) /\ Good(A!Saving(A!Phone(n), A!Lid(n), FALSE), A!Lid(n))
      BY <3>1, <3>2
    <3>4. Good(k, A!Phone(n)) \/ Good(k, A!Lid(n))
      BY <3>3 DEF k
    <3>. QED BY <3>4 DEF Good
  <2>. HIDE DEF k
  <2>. QED BY <1>3, <2>1, <2>2
<1>8. ASSUME NEW c \in Calls, NEW j \in A!Jids, A!Ask(c, j) PROVE AccountsSound'
  <2>. DEFINE k == [A!NoCall EXCEPT !.pc = "look", !.asked = j]
  <2>1. A!Begin(c, k) /\ UNCHANGED <<registered, accounts, linked, amarks>>
    BY <1>8 DEF A!Ask
  <2>2. /\ k \in Lookups /\ k.pc = "look" /\ k.asked = j /\ k.alt = Nobody /\ k.answer = Nobody
    BY NobodyTyped DEF A!NoCall, Lookups
  <2>. HIDE DEF k
  <2>3. CallOfOne(k)
    BY <2>2 DEF CallOfOne, A!LidAlt
  <2>. QED BY <1>2, <2>1, <2>2, <2>3, LookupBegins
<1>9. ASSUME UNCHANGED A!vars PROVE AccountsSound'
  <2>1. UNCHANGED <<registered, accounts, lookups, linked, amarks>>
    BY <1>9 DEF A!vars
  <2>2. AccountTypes' /\ RowsOfOne' /\ LinkedInOne'
    BY <1>2, <2>1, RowsRest DEF AccountsSound, AccountTypes
  <2>3. CallsOfOne'
    BY <1>2, <2>1 DEF AccountsSound, CallsOfOne, CallOfOne, OnAccount, A!Phone, A!Lid,
           A!Jid, A!LidAlt, A!Addresses
  <2>4. WritesFound'
    BY <1>2, <2>1 DEF AccountsSound, WritesFound, FoundStill, A!Addresses, A!LidAlt
  <2>5. Alone'
    BY <1>2, <2>1 DEF AccountsSound, Alone, A!NoCall
  <2>. QED BY <2>2, <2>3, <2>4, <2>5 DEF AccountsSound
<1>. QED BY <1>2, <1>6, <1>7, <1>8, <1>9, FindKeeps, WriteKeeps, LookKeeps, VerifyKeeps,
            ReturnKeeps,
            AgeKeeps DEF A!Next

(* Where no number is part of another, a lookup is answered with an address *)
(* of the number it asked for, and a number whose addresses were linked has *)
(* one row with both, save where the property excepts it: for any numbers,  *)
(* calls and rows, however lookups, saves and returns interleave.           *)
THEOREM OneAccountEach == MCSpec => []OneAccount
PROOF
  <1>0. AccountsGiven
    BY MessagesAssumption DEF AccountsGiven, A!Jids, A!Forms
  <1>1. MCInit => AccountInv
    BY <1>0, AccountInit DEF MCInit
  <1>2. AccountInv /\ [MCNext]_<<scene, vars, cvars, svars, dvars, avars, evars>> => AccountInv'
    <2>1. [MCNext]_<<scene, vars, cvars, svars, dvars, avars, evars>> => [A!Next]_A!vars
      BY DEF MCNext, avars, A!vars
    <2>. QED BY <1>0, <2>1, AccountStep
  <1>3. AccountInv => OneAccount
    BY <1>0, AccountEntails DEF OneAccount
  <1>. QED BY <1>1, <1>2, <1>3, PTL DEF MCSpec

-----------------------------------------------------------------------------
(* None is neither a version nor a part.                                    *)
DirectoryGiven == Nobody \notin Nat \cup D!Parts

(* The kinds of changes, by what they are about.                            *)
KindsOf == [chat |-> {"chats.upsert", "chats.update", "chats.delete"} \cup D!Associations,
            label |-> {"labels.edit"},
            contact |-> {"contacts.upsert", "contacts.update"},
            group |-> D!GroupEvents \cup {"send"}]
Changes ==
  {e \in [n : Nat, kind : {"presence.update"} \cup UNION {KindsOf[p] : p \in D!Parts},
          part : D!Parts \cup {Nobody}, val : Nat \cup Labels \cup {Nobody}] :
     /\ \A p \in D!Parts : e.part = p <=> e.kind \in KindsOf[p]
     /\ e.kind = "labels.edit" => e.val \in Nat \cup {Nobody}
     /\ e.kind = "contacts.upsert" => e.val \in Nat
     /\ e.kind = "contacts.update" => e.val \in Nat \cup {Nobody}
     /\ e.kind \in D!Associations => e.val \in Labels}
Handlings ==
  [event : {e \in Changes : e.part \in D!Parts},
   pc : {"find", "create", "picture", "participants", "fetch", "write"}, val : Nat \cup {Nobody}]

(* What the types say.                                                      *)
Phones == [chat : BOOLEAN, on : SUBSET Labels, label : Nat \cup {Nobody},
           name : Nat, picture : Nat, group : Nat]
Kepts == [chat : BOOLEAN, on : SUBSET Labels, label : Nat \cup {Nobody},
          name : Nat \cup {Nobody}, picture : Nat \cup {Nobody}, group : Nat \cup {Nobody},
          old : BOOLEAN, contact : BOOLEAN]
DirectoryTypes ==
  /\ account \in Phones
  /\ directory \in Kepts
  /\ inbox \in Seq(SUBSET Changes)
  /\ started \subseteq Handlings
  /\ events \in Nat
  /\ dmarks \in [D!Parts -> SUBSET {"met", "dropped", "failed", "known", "revived"}]
  /\ \A i \in DOMAIN inbox : IsFiniteSet(inbox[i])

(* Without a chat there are no labels on it, and without a contact no name. *)
Bare == (account.on # {} => account.chat) /\ (directory.on # {} => directory.chat) /\ (~directory.contact => directory.name = Nobody)

Reported == UNION {inbox[i] : i \in DOMAIN inbox}
Unhandled == Reported \cup {c.event : c \in started}

(* What waits came in its order, after what is handled; a send does not     *)
(* wait.                                                                    *)
InTheirOrder ==
  /\ \A i, j \in DOMAIN inbox : i < j => \A e \in inbox[i], f \in inbox[j] : e.n < f.n
  /\ \A c \in started, e \in Reported : c.event.part # "group" => c.event.n < e.n
  /\ \A e \in Reported : e.n <= events /\ e.kind # "send"
  /\ \A c \in started : c.event.n <= events

(* Handlers of a part that have not met are one.                            *)
OneOfPart ==
  \A c, d \in started : c.event.part = d.event.part /\ "met" \notin dmarks[c.event.part] => c = d

(* What a change sets: the chat, a label on it, the label, a name; and to   *)
(* what.                                                                    *)
Aspects == {"chat", "on", "label", "name"}
PartOf(a) == CASE a \in {"chat", "on"} -> "chat" [] a = "label" -> "label" [] a = "name" -> "contact"
Sets(e, a, l) ==
  \/ a = "chat" /\ e.kind \in {"chats.upsert", "chats.delete"} \cup D!Associations
  \/ a = "on" /\ (e.kind = "chats.delete" \/ (e.kind \in D!Associations /\ e.val = l))
  \/ a = "label" /\ e.kind = "labels.edit"
  \/ a = "name" /\ e.kind \in {"contacts.upsert", "contacts.update"} /\ e.val # Nobody
Holds(p) == IF p THEN "yes" ELSE "no"
Gives(e, a) ==
  CASE a = "chat" -> Holds(e.kind # "chats.delete")
    [] a = "on" -> Holds(e.kind = "labels.add")
    [] OTHER -> e.val
Held(a, l) ==
  CASE a = "chat" -> Holds(account.chat)
    [] a = "on" -> Holds(l \in account.on)
    [] a = "label" -> account.label
    [] a = "name" -> account.name
Kept(a, l, v) ==
  CASE a = "chat" -> Holds(directory.chat) = v
    [] a = "on" -> Holds(l \in directory.on) = v
    [] a = "label" -> "revived" \notin dmarks["label"] => directory.label = v
    [] a = "name" -> "known" \notin dmarks["contact"] /\ directory.contact => directory.name \in {v, Nobody}

Clean(p) == dmarks[p] \cap {"met", "dropped", "failed"} = {}

(* The last change that is pending says what the phone holds; where none is *)
(* pending the rows do.                                                     *)
LastWord(a, l) ==
  \A e \in Unhandled :
    Sets(e, a, l) /\ (\A f \in Unhandled : Sets(f, a, l) => f.n <= e.n) => Gives(e, a) = Held(a, l)
RestWord(a, l) == (\A e \in Unhandled : ~Sets(e, a, l)) => Kept(a, l, Held(a, l))
Said == \A a \in Aspects, l \in Labels \cup {Nobody} : Clean(PartOf(a)) => LastWord(a, l) /\ RestWord(a, l)

(* A contact that was there keeps its name; a new one has that of its event.*)
NameIsSet ==
  Clean("contact") =>
    \A c \in started : c.event.kind = "contacts.upsert" /\ c.pc \in {"picture", "write"} =>
      directory.contact /\ ("known" \in dmarks["contact"] \/ directory.name = c.event.val)

(* The picture that was fetched last is that of the phone, unless another   *)
(* change of the contact waits.                                             *)
PictureIsLast ==
  Clean("contact") =>
    /\ \A c \in started : /\ c.event.part = "contact" /\ c.pc = "write"
                          /\ \A e \in Reported : e.part # "contact"
                          => c.val = account.picture
    /\ (\A e \in Unhandled : e.part # "contact") /\ directory.contact => directory.picture = account.picture

(* And so is what was fetched of the group.                                 *)
GroupIsLast ==
  dmarks["group"] = {} /\ (\A e \in Reported : e.part # "group") =>
    /\ \A c \in started : c.event.part = "group" /\ c.pc = "write" => c.val = account.group
    /\ (\A c \in started : c.event.part # "group") => directory.group \in {account.group, Nobody}

DirectoryInv ==
  /\ DirectoryTypes /\ Bare /\ InTheirOrder /\ OneOfPart
  /\ Said /\ NameIsSet /\ PictureIsLast /\ GroupIsLast

(* What a change sets is of its part.                                       *)
LEMMA SetsItsPart ==
  ASSUME NEW e \in Changes, NEW a \in Aspects, NEW l, Sets(e, a, l)
  PROVE  e.part = PartOf(a) /\ PartOf(a) \in {"chat", "label", "contact"}
<1>1. \A p \in D!Parts : e.kind \in KindsOf[p] => e.part = p
  BY DEF Changes
<1>2. CASE a \in {"chat", "on"}
  BY <1>1, <1>2 DEF Sets, PartOf, KindsOf, D!Parts, D!Associations
<1>3. CASE a = "label"
  BY <1>1, <1>3 DEF Sets, PartOf, KindsOf, D!Parts
<1>4. CASE a = "name"
  BY <1>1, <1>4 DEF Sets, PartOf, KindsOf, D!Parts
<1>. QED BY <1>2, <1>3, <1>4 DEF Aspects

(* A change that is reported waits last.                                    *)
LEMMA WaitsLast ==
  ASSUME DirectoryInv, NEW sort, NEW part, NEW val, D!Report(sort, part, val), sort # "send",
         NEW e \in Changes, e = [n |-> events + 1, kind |-> sort, part |-> part, val |-> val]
  PROVE  /\ inbox' \in Seq(SUBSET Changes) /\ \A i \in DOMAIN inbox' : IsFiniteSet(inbox'[i])
         /\ events' = events + 1 /\ UNCHANGED <<groupsIgnore, started, directory, dirDisturbances, dmarks>>
         /\ Reported' = Reported \cup {e}
         /\ InTheirOrder'
<1>0. inbox \in Seq(SUBSET Changes) /\ events \in Nat /\ \A i \in DOMAIN inbox : IsFiniteSet(inbox[i])
  BY DEF DirectoryInv, DirectoryTypes
<1>1. events' = events + 1 /\ UNCHANGED <<groupsIgnore, started, directory, dirDisturbances, dmarks>>
  BY DEF D!Report
<1>2. InTheirOrder /\ e.n = events + 1 /\ e.kind # "send"
  BY DEF DirectoryInv
<1>3. \A f \in Reported : f.n <= events /\ f.n \in Nat
  BY <1>0, <1>2 DEF InTheirOrder, Reported, Changes
<1>4. \A c \in started : c.event.n <= events /\ c.event.n \in Nat
  BY <1>2 DEF InTheirOrder, DirectoryInv, DirectoryTypes, Handlings, Changes
<1>5. CASE inbox' = Append(inbox, {e})
  <2>1. /\ inbox' \in Seq(SUBSET Changes) /\ Len(inbox') = Len(inbox) + 1
        /\ DOMAIN inbox = 1..Len(inbox) /\ DOMAIN inbox' = 1..Len(inbox) + 1 /\ Len(inbox) \in Nat
        /\ \A i \in 1..Len(inbox) : inbox'[i] = inbox[i]
        /\ inbox'[Len(inbox) + 1] = {e}
    BY <1>0, <1>5
  <2>2. \A i \in DOMAIN inbox' : IsFiniteSet(inbox'[i])
    <3>1. IsFiniteSet({e})
      BY FS_Singleton
    <3>2. \A i \in DOMAIN inbox' : i \in DOMAIN inbox \/ i = Len(inbox) + 1
      BY <2>1
    <3>. QED BY <1>0, <2>1, <3>1, <3>2
  <2>3. Reported' = Reported \cup {e}
    BY <2>1 DEF Reported
  <2>4. \A i \in DOMAIN inbox : inbox[i] \subseteq Reported
    BY DEF Reported
  <2>5. \A i, j \in DOMAIN inbox' : i < j => \A f \in inbox'[i], g \in inbox'[j] : f.n < g.n
    <3>. SUFFICES ASSUME NEW i \in DOMAIN inbox', NEW j \in DOMAIN inbox', i < j,
                         NEW f \in inbox'[i], NEW g \in inbox'[j]
                  PROVE  f.n < g.n
      OBVIOUS
    <3>1. i \in DOMAIN inbox /\ inbox'[i] = inbox[i]
      BY <2>1
    <3>2. CASE j \in DOMAIN inbox
      BY <1>2, <2>1, <3>1, <3>2 DEF InTheirOrder
    <3>3. CASE j = Len(inbox) + 1
      BY <1>0, <1>2, <1>3, <2>1, <2>4, <3>1, <3>3
    <3>. QED BY <2>1, <3>2, <3>3
  <2>. QED BY <1>0, <1>1, <1>2, <1>3, <1>4, <2>1, <2>2, <2>3, <2>5 DEF InTheirOrder
<1>6. CASE inbox # <<>> /\ inbox' = [inbox EXCEPT ![Len(inbox)] = @ \cup {e}]
  <2>0. Len(inbox) \in DOMAIN inbox /\ DOMAIN inbox = 1..Len(inbox) /\ Len(inbox) \in Nat
    BY <1>0, <1>6
  <2>1. /\ inbox' \in Seq(SUBSET Changes) /\ DOMAIN inbox' = DOMAIN inbox
        /\ \A i \in DOMAIN inbox : inbox'[i] = IF i = Len(inbox) THEN inbox[i] \cup {e} ELSE inbox[i]
    <3>. DEFINE b == inbox[Len(inbox)] \cup {e}
    <3>1. b \in SUBSET Changes
      BY <1>0, <2>0
    <3>2. inbox' = [inbox EXCEPT ![Len(inbox)] = b]
      BY <1>6
    <3>. HIDE DEF b
    <3>3. inbox' \in Seq(SUBSET Changes) /\ DOMAIN inbox' = DOMAIN inbox
      BY <1>0, <2>0, <3>1, <3>2
    <3>4. \A i \in DOMAIN inbox : inbox'[i] = IF i = Len(inbox) THEN b ELSE inbox[i]
      BY <1>0, <2>0, <3>2
    <3>. QED BY <3>3, <3>4 DEF b
  <2>2. \A i \in DOMAIN inbox' : IsFiniteSet(inbox'[i])
    <3>1. IsFiniteSet(inbox[Len(inbox)] \cup {e})
      BY <1>0, <2>0, FS_AddElement
    <3>. QED BY <1>0, <2>1, <3>1
  <2>3. Reported' = Reported \cup {e}
    BY <2>0, <2>1 DEF Reported
  <2>4. \A i \in DOMAIN inbox : inbox[i] \subseteq Reported
    BY DEF Reported
  <2>5. \A i, j \in DOMAIN inbox' : i < j => \A f \in inbox'[i], g \in inbox'[j] : f.n < g.n
    <3>. SUFFICES ASSUME NEW i \in DOMAIN inbox, NEW j \in DOMAIN inbox, i < j,
                         NEW f \in inbox'[i], NEW g \in inbox'[j]
                  PROVE  f.n < g.n
      BY <2>1
    <3>1. f \in inbox[i]
      BY <2>0, <2>1
    <3>2. CASE g \in inbox[j]
      BY <1>2, <3>1, <3>2 DEF InTheirOrder
    <3>3. CASE g = e
      BY <1>0, <1>2, <1>3, <2>4, <3>1, <3>3
    <3>. QED BY <2>1, <3>2, <3>3
  <2>. QED BY <1>0, <1>1, <1>2, <1>3, <1>4, <2>1, <2>2, <2>3, <2>5 DEF InTheirOrder
<1>. QED BY <1>5, <1>6 DEF D!Report

(* What the phone does keeps the invariant, if the change says it.          *)
LEMMA PhoneMoves ==
  ASSUME DirectoryGiven, DirectoryInv, NEW sort, NEW part, NEW val, D!Report(sort, part, val),
         sort # "send", NEW e \in Changes, e = [n |-> events + 1, kind |-> sort, part |-> part, val |-> val],
         account' \in Phones, account'.on # {} => account'.chat,
         \A a \in Aspects, l \in Labels \cup {Nobody} :
           IF Sets(e, a, l) THEN Gives(e, a) = Held(a, l)' ELSE Held(a, l)' = Held(a, l),
         account'.picture # account.picture => part = "contact",
         account'.group # account.group => part = "group"
  PROVE  DirectoryInv'
<1>1. /\ inbox' \in Seq(SUBSET Changes) /\ \A i \in DOMAIN inbox' : IsFiniteSet(inbox'[i])
      /\ events' = events + 1 /\ UNCHANGED <<groupsIgnore, started, directory, dirDisturbances, dmarks>>
      /\ Reported' = Reported \cup {e}
      /\ InTheirOrder'
  BY WaitsLast
<1>2. Unhandled' = Unhandled \cup {e}
  BY <1>1 DEF Unhandled
<1>3. \A f \in Unhandled : f.n \in Nat /\ f.n < e.n
  BY DEF Unhandled, DirectoryInv, InTheirOrder, DirectoryTypes, Reported, Changes,
         Handlings
<1>4. e.part = part
  OBVIOUS
<1>5. DirectoryTypes'
  BY <1>1 DEF DirectoryInv, DirectoryTypes
<1>6. Bare' /\ OneOfPart' /\ NameIsSet'
  BY <1>1 DEF DirectoryInv, Bare, OneOfPart, NameIsSet, Clean
<1>7. Said'
  <2>. SUFFICES ASSUME NEW a \in Aspects, NEW l \in Labels \cup {Nobody}, Clean(PartOf(a))'
                PROVE  LastWord(a, l)' /\ RestWord(a, l)'
    BY DEF Said
  <2>1. LastWord(a, l) /\ RestWord(a, l)
    BY <1>1 DEF DirectoryInv, Said, Clean, PartOf
  <2>2. CASE Sets(e, a, l)
    <3>1. Gives(e, a) = Held(a, l)'
      BY <2>2
    <3>2. \A f \in Unhandled' : (\A g \in Unhandled' : Sets(g, a, l) => g.n <= f.n) => f = e
      BY <1>2, <1>3, <2>2 DEF Changes
    <3>3. LastWord(a, l)'
      BY <3>1, <3>2 DEF LastWord, Sets, Gives
    <3>4. RestWord(a, l)'
      BY <1>2, <2>2 DEF RestWord, Sets
    <3>. QED BY <3>3, <3>4
  <2>3. CASE ~Sets(e, a, l)
    <3>1. Held(a, l)' = Held(a, l)
      BY <2>3
    <3>2. \A f \in Unhandled' : Sets(f, a, l) => f \in Unhandled
      BY <1>2, <2>3
    <3>3. Unhandled \subseteq Unhandled'
      BY <1>2
    <3>4. LastWord(a, l)'
      BY <2>1, <3>1, <3>2, <3>3 DEF LastWord
    <3>5. Kept(a, l, Held(a, l))' <=> Kept(a, l, Held(a, l))
      BY <1>1, <3>1 DEF Kept
    <3>6. RestWord(a, l)'
      BY <2>1, <3>2, <3>3, <3>5 DEF RestWord
    <3>. QED BY <3>4, <3>6
  <2>. QED BY <2>2, <2>3
<1>8. PictureIsLast'
  BY <1>1, <1>2, <1>4 DEF DirectoryInv, PictureIsLast, Clean
<1>9. GroupIsLast'
  BY <1>1, <1>4 DEF DirectoryInv, GroupIsLast
<1>. QED BY <1>1, <1>5, <1>6, <1>7, <1>8, <1>9 DEF DirectoryInv

(* At the start there is nothing.                                           *)
LEMMA DirectoryInit == ASSUME DirectoryGiven, D!Init PROVE DirectoryInv
<1>1. /\ inbox = <<>> /\ started = {} /\ events = 0 /\ dmarks = [p \in D!Parts |-> {}]
      /\ account = [chat |-> FALSE, on |-> {}, label |-> Nobody, name |-> 0, picture |-> 0, group |-> 0]
      /\ directory = [chat |-> FALSE, on |-> {}, label |-> Nobody, name |-> Nobody, picture |-> Nobody,
                 group |-> Nobody, old |-> FALSE, contact |-> FALSE]
  BY DEF D!Init
<1>2. DirectoryTypes
  BY <1>1 DEF DirectoryTypes, Phones, Kepts
<1>3. Unhandled = {} /\ Reported = {}
  BY <1>1 DEF Unhandled, Reported
<1>4. Bare /\ InTheirOrder /\ OneOfPart /\ NameIsSet
  BY <1>1, <1>3 DEF Bare, InTheirOrder, OneOfPart, NameIsSet
<1>5. Said
  <2>1. \A a \in Aspects, l \in Labels \cup {Nobody} : LastWord(a, l)
    BY <1>3 DEF LastWord
  <2>2. \A a \in Aspects, l \in Labels \cup {Nobody} : Kept(a, l, Held(a, l))
    BY <1>1 DEF Kept, Held, Aspects, Holds
  <2>. QED BY <2>1, <2>2 DEF Said, RestWord
<1>6. PictureIsLast /\ GroupIsLast
  BY <1>1, <1>3 DEF PictureIsLast, GroupIsLast
<1>. QED BY <1>2, <1>4, <1>5, <1>6 DEF DirectoryInv

(* When nothing is under way the last words are said.                       *)
LEMMA DirectoryEntails == ASSUME DirectoryGiven, DirectoryInv PROVE D!DirectoryAgrees
<1>. SUFFICES ASSUME inbox = <<>>, started = {} PROVE D!DirectoryAgrees
  BY DEF D!DirectoryAgrees
<1>1. Unhandled = {} /\ Reported = {}
  BY DEF Unhandled, Reported
<1>2. \A a \in Aspects, l \in Labels \cup {Nobody} : Clean(PartOf(a)) => Kept(a, l, Held(a, l))
  BY <1>1 DEF DirectoryInv, Said, RestWord
<1>3. account \in Phones /\ directory \in Kepts
  BY DEF DirectoryInv, DirectoryTypes
<1>4. ASSUME dmarks["chat"] = {} PROVE directory.chat = account.chat /\ directory.on = account.on
  <2>1. Clean(PartOf("chat")) /\ Clean(PartOf("on"))
    BY <1>4 DEF Clean, PartOf
  <2>2. Kept("chat", Nobody, Held("chat", Nobody)) /\ \A l \in Labels : Kept("on", l, Held("on", l))
    BY <1>2, <2>1 DEF Aspects
  <2>3. Holds(directory.chat) = Holds(account.chat)
    BY <2>2 DEF Kept, Held
  <2>4. \A l \in Labels : Holds(l \in directory.on) = Holds(l \in account.on)
    BY <2>2 DEF Kept, Held
  <2>5. directory.on \subseteq Labels /\ account.on \subseteq Labels /\ directory.chat \in BOOLEAN /\ account.chat \in BOOLEAN
    BY <1>3 DEF Phones, Kepts
  <2>6. directory.chat = account.chat
    BY <2>3, <2>5 DEF Holds
  <2>7. directory.on = account.on
    BY <2>4, <2>5 DEF Holds
  <2>. QED BY <2>6, <2>7
<1>5. ASSUME dmarks["label"] = {} PROVE directory.label = account.label
  <2>1. Clean(PartOf("label"))
    BY <1>5 DEF Clean, PartOf
  <2>2. Kept("label", Nobody, Held("label", Nobody))
    BY <1>2, <2>1 DEF Aspects
  <2>. QED BY <1>5, <2>2 DEF Kept, Held
<1>6. ASSUME dmarks["contact"] = {}, directory.contact
      PROVE  directory.name \in {account.name, Nobody} /\ directory.picture = account.picture
  <2>1. Clean(PartOf("name")) /\ Clean("contact")
    BY <1>6 DEF Clean, PartOf
  <2>2. Kept("name", Nobody, Held("name", Nobody))
    BY <1>2, <2>1 DEF Aspects
  <2>3. directory.name \in {account.name, Nobody}
    BY <1>6, <2>2 DEF Kept, Held
  <2>. QED BY <1>1, <1>6, <2>1, <2>3 DEF DirectoryInv, PictureIsLast
<1>7. dmarks["group"] = {} => directory.group \in {account.group, Nobody}
  BY <1>1 DEF DirectoryInv, GroupIsLast
<1>. QED BY <1>4, <1>5, <1>6, <1>7 DEF D!DirectoryAgrees

(* The phone.                                                               *)
LEMMA PhoneKeeps ==
  ASSUME DirectoryGiven, DirectoryInv,
         \/ D!ChatBegins \/ D!ChatChanges \/ D!ChatDeleted
         \/ \E l \in Labels : D!LabelOn(l) \/ D!LabelOff(l)
         \/ D!LabelEdited \/ D!LabelDeleted \/ D!ContactNamed \/ D!PictureChanged
         \/ D!GroupChanged \/ D!Presence
  PROVE  DirectoryInv'
<1>. DEFINE new(sort, part, val) == [n |-> events + 1, kind |-> sort, part |-> part, val |-> val]
<1>. DEFINE Says(e) == \A a \in Aspects, l \in Labels \cup {Nobody} :
                         IF Sets(e, a, l) THEN Gives(e, a) = Held(a, l)' ELSE Held(a, l)' = Held(a, l)
<1>0. /\ account \in Phones /\ events \in Nat /\ Nobody \notin Nat
      /\ (account.on # {} => account.chat) /\ account.on \subseteq Labels
  BY DEF DirectoryInv, DirectoryTypes, Bare, DirectoryGiven, Phones
<1>1. ASSUME NEW sort, NEW part, NEW val, D!Report(sort, part, val), sort # "send", new(sort, part, val) \in Changes,
             account' \in Phones, account'.on # {} => account'.chat, Says(new(sort, part, val)),
             account'.picture # account.picture => part = "contact",
             account'.group # account.group => part = "group"
      PROVE  DirectoryInv'
  <2>. DEFINE e == new(sort, part, val)
  <2>1. e \in Changes /\ e = [n |-> events + 1, kind |-> sort, part |-> part, val |-> val] /\ Says(e)
    BY <1>1
  <2>. HIDE DEF e
  <2>. QED BY <1>1, <2>1, PhoneMoves
<1>2. ASSUME NEW sort, NEW part \in D!Parts, sort \in KindsOf[part], NEW val \in Nat \cup Labels \cup {Nobody},
             sort = "labels.edit" => val \in Nat \cup {Nobody}, sort = "contacts.upsert" => val \in Nat,
             sort = "contacts.update" => val \in Nat \cup {Nobody}, sort \in D!Associations => val \in Labels
      PROVE  new(sort, part, val) \in Changes
  <2>1. \A p \in D!Parts : part = p <=> sort \in KindsOf[p]
    BY <1>2 DEF KindsOf, D!Parts, D!Associations, D!GroupEvents
  <2>2. new(sort, part, val).n = events + 1 /\ new(sort, part, val).kind = sort
        /\ new(sort, part, val).part = part /\ new(sort, part, val).val = val
    OBVIOUS
  <2>3. new(sort, part, val) \in [n : Nat, kind : {"presence.update"} \cup UNION {KindsOf[p] : p \in D!Parts},
                                  part : D!Parts \cup {Nobody}, val : Nat \cup Labels \cup {Nobody}]
    BY <1>0, <1>2
  <2>. QED BY <1>2, <2>1, <2>2, <2>3 DEF Changes
<1>4. ASSUME D!ChatBegins PROVE DirectoryInv'
  <2>0. D!Report("chats.upsert", "chat", Nobody)
    BY <1>4 DEF D!ChatBegins
  <2>1. account' = [account EXCEPT !.chat = TRUE] /\ ~account.chat
    BY <1>0, <1>4 DEF D!ChatBegins
  <2>2. /\ account' \in Phones /\ account'.chat = TRUE /\ account'.on = account.on
        /\ account'.label = account.label /\ account'.name = account.name /\ account'.picture = account.picture
        /\ account'.group = account.group
    BY <1>0, <2>1 DEF Phones
  <2>3. new("chats.upsert", "chat", Nobody) \in Changes
    <3>1. "chat" \in D!Parts /\ "chats.upsert" \in KindsOf["chat"]
      BY DEF D!Parts, KindsOf
    <3>2. Nobody \in Nat \cup Labels \cup {Nobody}
      BY <1>0
    <3>. QED BY <1>2, <3>1, <3>2 DEF D!Associations
  <2>4. Says(new("chats.upsert", "chat", Nobody))
    BY <1>0, <2>1, <2>2 DEF Sets, Gives, Held, Aspects, Holds, D!Associations
  <2>5. /\ account'.on # {} => account'.chat
        /\ account'.picture # account.picture => "chat" = "contact"
        /\ account'.group # account.group => "chat" = "group"
    BY <1>0, <2>1, <2>2
  <2>. HIDE DEF new, Says
  <2>. QED BY <1>1, <2>0, <2>2, <2>3, <2>4, <2>5
<1>5. ASSUME D!ChatChanges PROVE DirectoryInv'
  <2>0. D!Report("chats.update", "chat", Nobody)
    BY <1>5 DEF D!ChatChanges
  <2>1. account' = account /\ account.chat
    BY <1>0, <1>5 DEF D!ChatChanges
  <2>2. /\ account' \in Phones /\ account'.chat = account.chat /\ account'.on = account.on
        /\ account'.label = account.label /\ account'.name = account.name /\ account'.picture = account.picture
        /\ account'.group = account.group
    BY <1>0, <2>1 DEF Phones
  <2>3. new("chats.update", "chat", Nobody) \in Changes
    <3>1. "chat" \in D!Parts /\ "chats.update" \in KindsOf["chat"]
      BY DEF D!Parts, KindsOf
    <3>2. Nobody \in Nat \cup Labels \cup {Nobody}
      BY <1>0
    <3>. QED BY <1>2, <3>1, <3>2 DEF D!Associations
  <2>4. Says(new("chats.update", "chat", Nobody))
    BY <1>0, <2>1, <2>2 DEF Sets, Gives, Held, Aspects, Holds, D!Associations
  <2>5. /\ account'.on # {} => account'.chat
        /\ account'.picture # account.picture => "chat" = "contact"
        /\ account'.group # account.group => "chat" = "group"
    BY <1>0, <2>1, <2>2
  <2>. HIDE DEF new, Says
  <2>. QED BY <1>1, <2>0, <2>2, <2>3, <2>4, <2>5
<1>6. ASSUME D!ChatDeleted PROVE DirectoryInv'
  <2>0. D!Report("chats.delete", "chat", Nobody)
    BY <1>6 DEF D!ChatDeleted
  <2>1. account' = [account EXCEPT !.chat = FALSE, !.on = {}] /\ account.chat
    BY <1>0, <1>6 DEF D!ChatDeleted
  <2>2. /\ account' \in Phones /\ account'.chat = FALSE /\ account'.on = {}
        /\ account'.label = account.label /\ account'.name = account.name /\ account'.picture = account.picture
        /\ account'.group = account.group
    BY <1>0, <2>1 DEF Phones
  <2>3. new("chats.delete", "chat", Nobody) \in Changes
    <3>1. "chat" \in D!Parts /\ "chats.delete" \in KindsOf["chat"]
      BY DEF D!Parts, KindsOf
    <3>2. Nobody \in Nat \cup Labels \cup {Nobody}
      BY <1>0
    <3>. QED BY <1>2, <3>1, <3>2 DEF D!Associations
  <2>4. Says(new("chats.delete", "chat", Nobody))
    BY <1>0, <2>1, <2>2 DEF Sets, Gives, Held, Aspects, Holds, D!Associations
  <2>5. /\ account'.on # {} => account'.chat
        /\ account'.picture # account.picture => "chat" = "contact"
        /\ account'.group # account.group => "chat" = "group"
    BY <1>0, <2>1, <2>2
  <2>. HIDE DEF new, Says
  <2>. QED BY <1>1, <2>0, <2>2, <2>3, <2>4, <2>5
<1>7. ASSUME NEW l \in Labels, D!LabelOn(l) PROVE DirectoryInv'
  <2>0. D!Report("labels.add", "chat", l)
    BY <1>7 DEF D!LabelOn
  <2>1. account' = [account EXCEPT !.on = @ \cup {l}] /\ account.chat
    BY <1>0, <1>7 DEF D!LabelOn
  <2>2. /\ account' \in Phones /\ account'.chat = account.chat /\ account'.on = account.on \cup {l}
        /\ account'.label = account.label /\ account'.name = account.name /\ account'.picture = account.picture
        /\ account'.group = account.group
    BY <1>0, <2>1 DEF Phones
  <2>3. new("labels.add", "chat", l) \in Changes
    <3>1. "chat" \in D!Parts /\ "labels.add" \in KindsOf["chat"]
      BY DEF D!Parts, KindsOf, D!Associations
    <3>2. l \in Nat \cup Labels \cup {Nobody} /\ l \in Labels
      BY <1>0
    <3>. QED BY <1>2, <3>1, <3>2 DEF D!Associations
  <2>4. Says(new("labels.add", "chat", l))
    BY <1>0, <2>1, <2>2 DEF Sets, Gives, Held, Aspects, Holds, D!Associations
  <2>5. /\ account'.on # {} => account'.chat
        /\ account'.picture # account.picture => "chat" = "contact"
        /\ account'.group # account.group => "chat" = "group"
    BY <1>0, <2>1, <2>2
  <2>. HIDE DEF new, Says
  <2>. QED BY <1>1, <2>0, <2>2, <2>3, <2>4, <2>5
<1>8. ASSUME NEW l \in Labels, D!LabelOff(l) PROVE DirectoryInv'
  <2>0. D!Report("labels.remove", "chat", l)
    BY <1>8 DEF D!LabelOff
  <2>1. account' = [account EXCEPT !.on = @ \ {l}] /\ l \in account.on /\ account.chat
    BY <1>0, <1>8 DEF D!LabelOff
  <2>2. /\ account' \in Phones /\ account'.chat = account.chat /\ account'.on = account.on \ {l}
        /\ account'.label = account.label /\ account'.name = account.name /\ account'.picture = account.picture
        /\ account'.group = account.group
    BY <1>0, <2>1 DEF Phones
  <2>3. new("labels.remove", "chat", l) \in Changes
    <3>1. "chat" \in D!Parts /\ "labels.remove" \in KindsOf["chat"]
      BY DEF D!Parts, KindsOf, D!Associations
    <3>2. l \in Nat \cup Labels \cup {Nobody} /\ l \in Labels
      BY <1>0
    <3>. QED BY <1>2, <3>1, <3>2 DEF D!Associations
  <2>4. Says(new("labels.remove", "chat", l))
    BY <1>0, <2>1, <2>2 DEF Sets, Gives, Held, Aspects, Holds, D!Associations
  <2>5. /\ account'.on # {} => account'.chat
        /\ account'.picture # account.picture => "chat" = "contact"
        /\ account'.group # account.group => "chat" = "group"
    BY <1>0, <2>1, <2>2
  <2>. HIDE DEF new, Says
  <2>. QED BY <1>1, <2>0, <2>2, <2>3, <2>4, <2>5
<1>9. ASSUME D!LabelEdited PROVE DirectoryInv'
  <2>0. D!Report("labels.edit", "label", events + 1)
    BY <1>9 DEF D!LabelEdited
  <2>1. account' = [account EXCEPT !.label = events + 1]
    BY <1>9 DEF D!LabelEdited
  <2>2. /\ account' \in Phones /\ account'.chat = account.chat /\ account'.on = account.on
        /\ account'.label = events + 1 /\ account'.name = account.name /\ account'.picture = account.picture
        /\ account'.group = account.group
    BY <1>0, <2>1 DEF Phones
  <2>3. new("labels.edit", "label", events + 1) \in Changes
    <3>1. "label" \in D!Parts /\ "labels.edit" \in KindsOf["label"]
      BY DEF D!Parts, KindsOf
    <3>2. events + 1 \in Nat \cup Labels \cup {Nobody} /\ events + 1 \in Nat
      BY <1>0
    <3>. QED BY <1>2, <3>1, <3>2 DEF D!Associations
  <2>4. Says(new("labels.edit", "label", events + 1))
    BY <1>0, <2>2 DEF Sets, Gives, Held, Aspects, Holds, D!Associations
  <2>5. /\ account'.on # {} => account'.chat
        /\ account'.picture # account.picture => "label" = "contact"
        /\ account'.group # account.group => "label" = "group"
    BY <1>0, <2>2
  <2>. HIDE DEF new, Says
  <2>. QED BY <1>1, <2>0, <2>2, <2>3, <2>4, <2>5
<1>10. ASSUME D!LabelDeleted PROVE DirectoryInv'
  <2>0. D!Report("labels.edit", "label", Nobody)
    BY <1>10 DEF D!LabelDeleted
  <2>1. account' = [account EXCEPT !.label = Nobody]
    BY <1>10 DEF D!LabelDeleted
  <2>2. /\ account' \in Phones /\ account'.chat = account.chat /\ account'.on = account.on
        /\ account'.label = Nobody /\ account'.name = account.name /\ account'.picture = account.picture
        /\ account'.group = account.group
    BY <1>0, <2>1 DEF Phones
  <2>3. new("labels.edit", "label", Nobody) \in Changes
    <3>1. "label" \in D!Parts /\ "labels.edit" \in KindsOf["label"]
      BY DEF D!Parts, KindsOf
    <3>2. Nobody \in Nat \cup Labels \cup {Nobody} /\ Nobody \in Nat \cup {Nobody}
      BY <1>0
    <3>. QED BY <1>2, <3>1, <3>2 DEF D!Associations
  <2>4. Says(new("labels.edit", "label", Nobody))
    BY <1>0, <2>2 DEF Sets, Gives, Held, Aspects, Holds, D!Associations
  <2>5. /\ account'.on # {} => account'.chat
        /\ account'.picture # account.picture => "label" = "contact"
        /\ account'.group # account.group => "label" = "group"
    BY <1>0, <2>2
  <2>. HIDE DEF new, Says
  <2>. QED BY <1>1, <2>0, <2>2, <2>3, <2>4, <2>5
<1>11. ASSUME D!ContactNamed PROVE DirectoryInv'
  <2>0. PICK sort \in {"contacts.upsert", "contacts.update"} : D!Report(sort, "contact", events + 1)
    BY <1>11 DEF D!ContactNamed
  <2>1. account' = [account EXCEPT !.name = events + 1]
    BY <1>11 DEF D!ContactNamed
  <2>2. /\ account' \in Phones /\ account'.chat = account.chat /\ account'.on = account.on
        /\ account'.label = account.label /\ account'.name = events + 1 /\ account'.picture = account.picture
        /\ account'.group = account.group
    BY <1>0, <2>1 DEF Phones
  <2>3. new(sort, "contact", events + 1) \in Changes
    <3>1. "contact" \in D!Parts /\ sort \in KindsOf["contact"]
      BY <2>0 DEF D!Parts, KindsOf
    <3>2. events + 1 \in Nat \cup Labels \cup {Nobody} /\ events + 1 \in Nat
      BY <1>0
    <3>. QED BY <1>2, <3>1, <3>2 DEF D!Associations
  <2>4. Says(new(sort, "contact", events + 1))
    BY <1>0, <2>0, <2>2 DEF Sets, Gives, Held, Aspects, Holds, D!Associations
  <2>5. /\ account'.on # {} => account'.chat
        /\ account'.picture # account.picture => "contact" = "contact"
        /\ account'.group # account.group => "contact" = "group"
    BY <1>0, <2>2
  <2>. HIDE DEF new, Says
  <2>. QED BY <1>1, <2>0, <2>2, <2>3, <2>4, <2>5
<1>12. ASSUME D!PictureChanged PROVE DirectoryInv'
  <2>0. D!Report("contacts.update", "contact", Nobody)
    BY <1>12 DEF D!PictureChanged
  <2>1. account' = [account EXCEPT !.picture = events + 1]
    BY <1>12 DEF D!PictureChanged
  <2>2. /\ account' \in Phones /\ account'.chat = account.chat /\ account'.on = account.on
        /\ account'.label = account.label /\ account'.name = account.name /\ account'.picture = events + 1
        /\ account'.group = account.group
    BY <1>0, <2>1 DEF Phones
  <2>3. new("contacts.update", "contact", Nobody) \in Changes
    <3>1. "contact" \in D!Parts /\ "contacts.update" \in KindsOf["contact"]
      BY DEF D!Parts, KindsOf
    <3>2. Nobody \in Nat \cup Labels \cup {Nobody}
      BY <1>0
    <3>. QED BY <1>2, <3>1, <3>2 DEF D!Associations
  <2>4. Says(new("contacts.update", "contact", Nobody))
    BY <1>0, <2>2 DEF Sets, Gives, Held, Aspects, Holds, D!Associations
  <2>5. /\ account'.on # {} => account'.chat
        /\ account'.picture # account.picture => "contact" = "contact"
        /\ account'.group # account.group => "contact" = "group"
    BY <1>0, <2>2
  <2>. HIDE DEF new, Says
  <2>. QED BY <1>1, <2>0, <2>2, <2>3, <2>4, <2>5
<1>13. ASSUME D!GroupChanged PROVE DirectoryInv'
  <2>0. PICK sort \in {"groups.update", "group-participants.update"} : D!Report(sort, "group", Nobody)
    BY <1>13 DEF D!GroupChanged
  <2>1. account' = [account EXCEPT !.group = events + 1]
    BY <1>13 DEF D!GroupChanged
  <2>2. /\ account' \in Phones /\ account'.chat = account.chat /\ account'.on = account.on
        /\ account'.label = account.label /\ account'.name = account.name /\ account'.picture = account.picture
        /\ account'.group = events + 1
    BY <1>0, <2>1 DEF Phones
  <2>3. new(sort, "group", Nobody) \in Changes
    <3>1. "group" \in D!Parts /\ sort \in KindsOf["group"]
      BY <2>0 DEF D!Parts, KindsOf, D!GroupEvents
    <3>2. Nobody \in Nat \cup Labels \cup {Nobody}
      BY <1>0
    <3>. QED BY <1>2, <3>1, <3>2 DEF D!Associations
  <2>4. Says(new(sort, "group", Nobody))
    BY <1>0, <2>0, <2>2 DEF Sets, Gives, Held, Aspects, Holds, D!Associations
  <2>5. /\ account'.on # {} => account'.chat
        /\ account'.picture # account.picture => "group" = "contact"
        /\ account'.group # account.group => "group" = "group"
    BY <1>0, <2>2
  <2>. HIDE DEF new, Says
  <2>. QED BY <1>1, <2>0, <2>2, <2>3, <2>4, <2>5
<1>14. ASSUME D!Presence PROVE DirectoryInv'
  <2>0. D!Report("presence.update", Nobody, Nobody)
    BY <1>14 DEF D!Presence
  <2>1. account' = account
    BY <1>14 DEF D!Presence
  <2>2. /\ account' \in Phones /\ account'.chat = account.chat /\ account'.on = account.on
        /\ account'.label = account.label /\ account'.name = account.name /\ account'.picture = account.picture
        /\ account'.group = account.group
    BY <1>0, <2>1 DEF Phones
  <2>3. new("presence.update", Nobody, Nobody) \in Changes
    <3>1. \A p \in D!Parts : Nobody # p /\ "presence.update" \notin KindsOf[p]
      BY DEF D!Parts, KindsOf, D!Associations, D!GroupEvents, DirectoryGiven
    <3>. QED BY <1>0, <3>1 DEF Changes, D!Associations
  <2>4. Says(new("presence.update", Nobody, Nobody))
    BY <1>0, <2>2 DEF Sets, Gives, Held, Aspects, Holds, D!Associations
  <2>5. /\ account'.on # {} => account'.chat
        /\ account'.picture # account.picture => Nobody = "contact"
        /\ account'.group # account.group => Nobody = "group"
    BY <1>0, <2>2
  <2>. HIDE DEF new, Says
  <2>. QED BY <1>1, <2>0, <2>2, <2>3, <2>4, <2>5
<1>. QED BY <1>4, <1>5, <1>6, <1>7, <1>8, <1>9, <1>10, <1>11, <1>12, <1>13, <1>14

(* What a handler begins with.                                              *)
LEMMA Handled1 ==
  ASSUME NEW batch \in SUBSET Changes, \A f \in batch : f.kind # "send", NEW e \in D!Handled(batch)
  PROVE  /\ e \in batch /\ D!Handler(e) \in Handlings /\ D!Handler(e).event = e
         /\ e.kind = "contacts.upsert" => D!Handler(e).pc = "create"
         /\ e.part \in {"contact", "group"} => D!Handler(e).pc # "write"
<1>1. e \in batch /\ e.kind # "presence.update" /\ e.kind # "send" /\ e \in Changes
  BY DEF D!Handled
<1>2. PICK p \in D!Parts : e.kind \in KindsOf[p]
  BY <1>1 DEF Changes
<1>3. e.part = p
  BY <1>1, <1>2 DEF Changes
<1>4. D!FirstStep(e.kind) \in {"find", "create", "picture", "participants", "fetch", "write"}
  BY DEF D!FirstStep
<1>5. D!Handler(e).event = e /\ D!Handler(e).pc = D!FirstStep(e.kind) /\ D!Handler(e) \in Handlings
  BY <1>1, <1>3, <1>4 DEF D!Handler, Handlings
<1>6. e.kind = "contacts.upsert" => D!FirstStep(e.kind) = "create"
  BY DEF D!FirstStep
<1>7. CASE p = "contact"
  BY <1>1, <1>2, <1>3, <1>5, <1>6, <1>7 DEF D!FirstStep, KindsOf, D!Parts
<1>8. CASE p = "group"
  <2>1. e.kind \in {"groups.update", "group-participants.update", "send"}
    BY <1>2, <1>8 DEF KindsOf, D!Parts, D!GroupEvents
  <2>2. e.kind # "send" => D!FirstStep(e.kind) # "write"
    BY <2>1 DEF D!FirstStep
  <2>. QED BY <1>1, <1>3, <1>5, <1>6, <1>8, <2>1, <2>2
<1>. QED BY <1>1, <1>3, <1>5, <1>6, <1>7, <1>8 DEF D!Parts

(* The component counts as this module does.                                *)
LEMMA DirectorySize == \A s : D!Cardinality(s) = Cardinality(s)
BY Zenon DEF D!Cardinality, Cardinality

(* The handlers that a batch starts.                                        *)
LEMMA DispatchKeeps == ASSUME DirectoryGiven, DirectoryInv, D!Dispatch PROVE DirectoryInv'
<1>. DEFINE batch == Head(inbox)
<1>. DEFINE taken == D!Handled(batch)
<1>0. /\ inbox \in Seq(SUBSET Changes) /\ started \subseteq Handlings /\ inbox # <<>>
      /\ dmarks \in [D!Parts -> SUBSET {"met", "dropped", "failed", "known", "revived"}]
      /\ InTheirOrder
  BY DEF DirectoryInv, DirectoryTypes, D!Dispatch
<1>1. /\ started' = started \cup {D!Handler(e) : e \in taken}
      /\ dmarks' = D!Started(batch)
      /\ inbox' = Tail(inbox)
      /\ UNCHANGED <<groupsIgnore, account, directory, events, dirDisturbances>>
  BY DEF D!Dispatch
<1>2. /\ DOMAIN inbox = 1..Len(inbox) /\ Len(inbox) \in Nat /\ Len(inbox) >= 1 /\ batch = inbox[1]
      /\ inbox' \in Seq(SUBSET Changes) /\ DOMAIN inbox' = 1..(Len(inbox) - 1)
      /\ \A i \in DOMAIN inbox' : inbox'[i] = inbox[i + 1]
  BY <1>0, <1>1
<1>3. batch \subseteq Reported /\ batch \subseteq Changes /\ IsFiniteSet(batch)
      /\ \A f \in batch : f.kind # "send"
  <2>1. 1 \in DOMAIN inbox
    BY <1>2
  <2>2. batch \subseteq Reported /\ batch \subseteq Changes
    BY <1>0, <1>2, <2>1 DEF Reported
  <2>3. IsFiniteSet(batch)
    BY <1>2, <2>1 DEF DirectoryInv, DirectoryTypes
  <2>. QED BY <1>0, <2>2, <2>3 DEF InTheirOrder
<1>4. Reported = batch \cup Reported'
  <2>1. ASSUME NEW i \in DOMAIN inbox PROVE i = 1 \/ (i - 1 \in DOMAIN inbox' /\ inbox'[i - 1] = inbox[i])
    BY <1>2
  <2>2. \A i \in DOMAIN inbox' : i + 1 \in DOMAIN inbox
    BY <1>2
  <2>3. ASSUME NEW e \in Reported PROVE e \in batch \cup Reported'
    <3>1. PICK i \in DOMAIN inbox : e \in inbox[i]
      BY DEF Reported
    <3>2. CASE i = 1
      BY <1>2, <3>1, <3>2
    <3>3. CASE i # 1
      <4>1. i - 1 \in DOMAIN inbox' /\ e \in inbox'[i - 1]
        BY <2>1, <3>1, <3>3
      <4>. QED BY <4>1 DEF Reported
    <3>. QED BY <3>2, <3>3
  <2>4. ASSUME NEW e \in Reported' PROVE e \in Reported
    <3>1. PICK i \in DOMAIN inbox' : e \in inbox'[i]
      BY DEF Reported
    <3>. QED BY <1>2, <2>2, <3>1 DEF Reported
  <2>. QED BY <1>3, <2>3, <2>4
<1>5. \A e \in batch, f \in Reported' : e.n < f.n
  <2>. SUFFICES ASSUME NEW e \in batch, NEW f \in Reported' PROVE e.n < f.n
    OBVIOUS
  <2>1. PICK i \in DOMAIN inbox' : f \in inbox'[i]
    BY DEF Reported
  <2>2. 1 \in DOMAIN inbox /\ i + 1 \in DOMAIN inbox /\ 1 < i + 1 /\ f \in inbox[i + 1]
    BY <1>2, <2>1
  <2>. QED BY <1>0, <1>2, <2>2 DEF InTheirOrder
<1>6. \A e \in taken :
        /\ e \in batch /\ D!Handler(e) \in Handlings /\ D!Handler(e).event = e
        /\ e.kind = "contacts.upsert" => D!Handler(e).pc = "create"
        /\ e.part \in {"contact", "group"} => D!Handler(e).pc # "write"
  <2>. HIDE DEF batch
  <2>. QED BY <1>3, Handled1
<1>7. \A c \in started' : c \in started \/ (c.event \in taken /\ c = D!Handler(c.event))
  BY <1>1, <1>6
<1>. HIDE DEF batch, taken
<1>8. ASSUME NEW p \in D!Parts
      PROVE  /\ dmarks[p] \subseteq dmarks'[p] /\ dmarks'[p] \subseteq dmarks[p] \cup {"met", "dropped"}
             /\ "met" \notin dmarks'[p] =>
                  /\ \A e \in taken, c \in started : e.part # p \/ c.event.part # p
                  /\ \A e, f \in taken : e.part = p /\ f.part = p => e = f
             /\ "dropped" \notin dmarks'[p] => \A e \in batch : e.part = p => e \in taken
  <2>. DEFINE mine == {e \in taken : e.part = p}
  <2>. DEFINE met == \/ \E e \in taken, c \in started : e.part = p /\ c.event.part = p
                     \/ Cardinality(mine) > 1
  <2>. DEFINE dropped == p \in {e.part : e \in batch} \ {Nobody} /\ \E e \in batch \ taken : e.part = p
  <2>1. dmarks'[p] = dmarks[p] \cup (IF met THEN {"met"} ELSE {}) \cup (IF dropped THEN {"dropped"} ELSE {})
    BY <1>1, DirectorySize DEF D!Started, taken
  <2>2. IsFiniteSet(mine)
    <3>1. mine \in SUBSET batch
      BY <1>6
    <3>. HIDE DEF mine
    <3>. QED BY <1>3, <3>1, FS_Subset
  <2>3. ASSUME NEW e \in mine, NEW f \in mine, e # f PROVE Cardinality(mine) > 1
    <3>. HIDE DEF mine
    <3>1. IsFiniteSet({e}) /\ Cardinality({e}) = 1
      BY FS_Singleton
    <3>2. {e} \in SUBSET mine
      OBVIOUS
    <3>3. Cardinality({e}) <= Cardinality(mine) /\ (Cardinality(mine) = Cardinality({e}) => mine = {e})
      BY <2>2, <3>2, FS_Subset
    <3>4. Cardinality(mine) \in Nat /\ mine # {e}
      BY <2>2, <2>3, FS_CardinalityType
    <3>. QED BY <3>1, <3>3, <3>4
  <2>4. p # Nobody
    BY DEF DirectoryGiven
  <2>5. "met" \notin dmarks'[p] => ~met
    BY <2>1
  <2>6. "dropped" \notin dmarks'[p] => ~dropped
    BY <2>1
  <2>7. ~met => /\ \A e \in taken, c \in started : e.part # p \/ c.event.part # p
                /\ \A e, f \in taken : e.part = p /\ f.part = p => e = f
    BY <2>3
  <2>8. ~dropped => \A e \in batch : e.part = p => e \in taken
    BY <2>4
  <2>. HIDE DEF met, dropped
  <2>9. dmarks[p] \subseteq dmarks'[p] /\ dmarks'[p] \subseteq dmarks[p] \cup {"met", "dropped"}
    BY <2>1
  <2>. QED BY <2>5, <2>6, <2>7, <2>8, <2>9
<1>9. DirectoryTypes'
  <2>1. started' \subseteq Handlings
    BY <1>0, <1>6, <1>7
  <2>2. dmarks' \in [D!Parts -> SUBSET {"met", "dropped", "failed", "known", "revived"}]
    <3>1. DOMAIN dmarks' = D!Parts /\ dmarks' = [p \in D!Parts |-> dmarks'[p]]
      BY <1>1 DEF D!Started
    <3>2. \A p \in D!Parts : dmarks'[p] \in SUBSET {"met", "dropped", "failed", "known", "revived"}
      BY <1>0, <1>8
    <3>. QED BY <3>1, <3>2
  <2>3. \A i \in DOMAIN inbox' : IsFiniteSet(inbox'[i])
    <3>1. \A i \in DOMAIN inbox' : i + 1 \in DOMAIN inbox
      BY <1>2
    <3>. QED BY <1>2, <3>1 DEF DirectoryInv, DirectoryTypes
  <2>. QED BY <1>1, <1>2, <2>1, <2>2, <2>3 DEF DirectoryInv, DirectoryTypes
<1>10. InTheirOrder'
  <2>1. \A i, j \in DOMAIN inbox' : i < j => \A e \in inbox'[i], f \in inbox'[j] : e.n < f.n
    <3>1. \A i \in DOMAIN inbox' : i + 1 \in DOMAIN inbox
      BY <1>2
    <3>2. \A i, j \in DOMAIN inbox' : i < j => i + 1 < j + 1
      BY <1>2
    <3>. QED BY <1>0, <1>2, <3>1, <3>2 DEF InTheirOrder
  <2>2. ASSUME NEW c \in started', NEW e \in Reported', c.event.part # "group" PROVE c.event.n < e.n
    <3>1. CASE c \in started
      BY <1>0, <1>4, <2>2, <3>1 DEF InTheirOrder
    <3>2. CASE c.event \in taken
      BY <1>5, <1>6, <3>2
    <3>. QED BY <1>7, <3>1, <3>2
  <2>3. \A e \in Reported' : e.n <= events /\ e.kind # "send"
    BY <1>0, <1>4 DEF InTheirOrder
  <2>4. \A c \in started' : c.event.n <= events
    BY <1>0, <1>3, <1>6, <1>7 DEF InTheirOrder
  <2>. QED BY <1>1, <2>1, <2>2, <2>3, <2>4 DEF InTheirOrder
<1>11. OneOfPart'
  <2>. SUFFICES ASSUME NEW c \in started', NEW d \in started', c.event.part = d.event.part,
                       "met" \notin dmarks'[c.event.part]
                PROVE  c = d
    BY DEF OneOfPart
  <2>1. c.event.part \in D!Parts
    BY <1>9 DEF DirectoryTypes, Handlings
  <2>2. "met" \notin dmarks[c.event.part]
    BY <1>8, <2>1
  <2>3. CASE c \in started /\ d \in started
    BY <2>2, <2>3 DEF DirectoryInv, OneOfPart
  <2>4. CASE c.event \in taken /\ c = D!Handler(c.event) /\ d.event \in taken /\ d = D!Handler(d.event)
    BY <1>8, <2>1, <2>4
  <2>5. CASE c.event \in taken /\ d \in started
    BY <1>8, <2>1, <2>5
  <2>6. CASE d.event \in taken /\ c \in started
    BY <1>8, <2>1, <2>6
  <2>. QED BY <1>7, <2>3, <2>4, <2>5, <2>6
<1>12. Unhandled' \subseteq Unhandled /\ Unhandled \subseteq Unhandled' \cup (batch \ taken)
  <2>1. \A c \in started' : c.event \in Unhandled
    BY <1>3, <1>6, <1>7 DEF Unhandled
  <2>2. \A c \in started : c \in started'
    BY <1>1
  <2>3. \A e \in taken : D!Handler(e) \in started' /\ D!Handler(e).event = e
    BY <1>1, <1>6
  <2>4. \A e \in taken : e \in Unhandled'
    BY <2>3 DEF Unhandled
  <2>5. \A c \in started : c.event \in Unhandled'
    BY <2>2 DEF Unhandled
  <2>. QED BY <1>4, <2>1, <2>4, <2>5 DEF Unhandled
<1>13. Said'
  <2>. SUFFICES ASSUME NEW a \in Aspects, NEW l \in Labels \cup {Nobody}, Clean(PartOf(a))'
                PROVE  LastWord(a, l)' /\ RestWord(a, l)'
    BY DEF Said
  <2>0. PartOf(a) \in D!Parts
    BY DEF PartOf, D!Parts, Aspects
  <2>1. Clean(PartOf(a)) /\ "dropped" \notin dmarks'[PartOf(a)]
    BY <1>8, <2>0 DEF Clean
  <2>2. LastWord(a, l) /\ RestWord(a, l)
    BY <2>1 DEF DirectoryInv, Said
  <2>3. \A e \in batch \ taken : ~Sets(e, a, l)
    BY <1>3, <1>8, <2>0, <2>1, SetsItsPart
  <2>4. \A e : Sets(e, a, l) => (e \in Unhandled' <=> e \in Unhandled)
    BY <1>12, <2>3
  <2>5. Held(a, l)' = Held(a, l)
    BY <1>1 DEF Held
  <2>6. LastWord(a, l)'
    BY <2>2, <2>4, <2>5 DEF LastWord
  <2>7. Kept(a, l, Held(a, l)) => Kept(a, l, Held(a, l))'
    BY <1>1, <1>8, <2>5 DEF Kept, D!Parts
  <2>8. RestWord(a, l)'
    BY <2>2, <2>4, <2>7 DEF RestWord
  <2>. QED BY <2>6, <2>8
<1>14. NameIsSet'
  <2>. SUFFICES ASSUME Clean("contact")', NEW c \in started', c.event.kind = "contacts.upsert",
                       c.pc \in {"picture", "write"}
                PROVE  directory.contact /\ ("known" \in dmarks'["contact"] \/ directory.name = c.event.val)
    BY <1>1 DEF NameIsSet
  <2>1. Clean("contact") /\ dmarks["contact"] \subseteq dmarks'["contact"]
    BY <1>8 DEF Clean, D!Parts
  <2>2. c \in started
    BY <1>6, <1>7
  <2>. QED BY <2>1, <2>2 DEF DirectoryInv, NameIsSet
<1>15. PictureIsLast'
  <2>. SUFFICES ASSUME Clean("contact")' PROVE PictureIsLast'
    BY DEF PictureIsLast
  <2>1. Clean("contact") /\ "met" \notin dmarks'["contact"] /\ "dropped" \notin dmarks'["contact"]
    BY <1>8 DEF Clean, D!Parts
  <2>2. ASSUME NEW c \in started', c.event.part = "contact", c.pc = "write",
               \A e \in Reported' : e.part # "contact"
        PROVE  c.val = account.picture
    <3>1. c \in started
      BY <1>6, <1>7, <2>2
    <3>2. \A e \in batch : e.part # "contact"
      BY <1>8, <2>1, <2>2, <3>1 DEF D!Parts
    <3>. QED BY <1>4, <2>1, <2>2, <3>1, <3>2 DEF DirectoryInv, PictureIsLast
  <2>3. ASSUME \A e \in Unhandled' : e.part # "contact" PROVE \A e \in Unhandled : e.part # "contact"
    BY <1>8, <1>12, <2>1, <2>3 DEF D!Parts
  <2>. QED BY <1>1, <2>1, <2>2, <2>3 DEF DirectoryInv, PictureIsLast
<1>16. GroupIsLast'
  <2>. SUFFICES ASSUME dmarks'["group"] = {}, \A e \in Reported' : e.part # "group" PROVE GroupIsLast'
    BY DEF GroupIsLast
  <2>1. dmarks["group"] = {} /\ "met" \notin dmarks'["group"] /\ "dropped" \notin dmarks'["group"]
    BY <1>8 DEF D!Parts
  <2>2. \A e \in batch : e.part = "group" => e \in taken
    BY <1>8, <2>1 DEF D!Parts
  <2>3. ASSUME NEW c \in started', c.event.part = "group", c.pc = "write" PROVE c.val = account.group
    <3>1. c \in started
      BY <1>6, <1>7, <2>3
    <3>2. \A e \in batch : e.part # "group"
      BY <1>8, <2>1, <2>2, <2>3, <3>1 DEF D!Parts
    <3>. QED BY <1>4, <2>1, <2>3, <3>1, <3>2 DEF DirectoryInv, GroupIsLast
  <2>4. ASSUME \A c \in started' : c.event.part # "group" PROVE directory.group \in {account.group, Nobody}
    <3>1. \A c \in started : c.event.part # "group"
      BY <1>1, <2>4
    <3>2. \A e \in taken : D!Handler(e) \in started' /\ D!Handler(e).event = e
      BY <1>1, <1>6
    <3>3. \A e \in batch : e.part # "group"
      BY <2>2, <2>4, <3>2
    <3>. QED BY <1>4, <2>1, <3>1, <3>3 DEF DirectoryInv, GroupIsLast
  <2>. QED BY <1>1, <2>3, <2>4 DEF GroupIsLast
<1>. QED BY <1>1, <1>9, <1>10, <1>11, <1>13, <1>14, <1>15, <1>16 DEF DirectoryInv, Bare

(* A handler that goes on, as what Left holds, or ends where Left is empty, keeps *)
(* what was said if it leaves what its change sets.                         *)
LEMMA Moves ==
  ASSUME DirectoryGiven, DirectoryInv, NEW c \in started, NEW Left \in SUBSET Handlings,
         \A d \in Left : d.event = c.event, \A d, e \in Left : d = e,
         started' = (started \ {c}) \cup Left, UNCHANGED <<inbox, account, events>>,
         directory' \in Kepts, directory'.on # {} => directory'.chat, ~directory'.contact => directory'.name = Nobody,
         dmarks' \in [D!Parts -> SUBSET {"met", "dropped", "failed", "known", "revived"}],
         \A p \in D!Parts : "met" \in dmarks[p] => "met" \in dmarks'[p],
         \A p \in {"chat", "label", "contact"} : Clean(p)' => Clean(p),
         \A a \in Aspects, l \in Labels \cup {Nobody} :
           Clean(PartOf(a))' =>
             /\ Left = {} /\ Sets(c.event, a, l) => Kept(a, l, Gives(c.event, a))'
             /\ ~Sets(c.event, a, l) /\ Kept(a, l, Held(a, l)) => Kept(a, l, Held(a, l))'
  PROVE  DirectoryTypes' /\ Bare' /\ InTheirOrder' /\ OneOfPart' /\ Said'
<1>0. started \subseteq Handlings /\ \A i \in DOMAIN inbox : inbox[i] \subseteq Changes
  BY DEF DirectoryInv, DirectoryTypes
<1>1. DirectoryTypes' /\ Bare'
  BY DEF DirectoryInv, DirectoryTypes, Bare
<1>2. Reported' = Reported /\ Reported \subseteq Changes
  BY <1>0 DEF Reported
<1>3. \A d \in started' : (d \in started /\ d # c) \/ (d \in Left /\ d.event = c.event)
  OBVIOUS
<1>4. InTheirOrder'
  <2>1. \A d \in started' : \E b \in started : d.event = b.event
    BY <1>3
  <2>2. InTheirOrder
    BY DEF DirectoryInv
  <2>3. \A d \in started', e \in Reported : d.event.part # "group" => d.event.n < e.n
    BY <2>1, <2>2 DEF InTheirOrder
  <2>4. \A d \in started' : d.event.n <= events
    BY <2>1, <2>2 DEF InTheirOrder
  <2>. QED BY <1>2, <2>2, <2>3, <2>4 DEF InTheirOrder
<1>5. OneOfPart'
  <2>. SUFFICES ASSUME NEW x \in started', NEW y \in started', x.event.part = y.event.part,
                       "met" \notin dmarks'[x.event.part]
                PROVE  x = y
    BY DEF OneOfPart
  <2>1. x.event.part \in D!Parts
    BY <1>1 DEF DirectoryTypes, Handlings
  <2>2. "met" \notin dmarks[x.event.part]
    BY <2>1
  <2>3. \A b, d \in started : b.event.part = d.event.part /\ "met" \notin dmarks[b.event.part] => b = d
    BY DEF DirectoryInv, OneOfPart
  <2>. QED BY <1>3, <2>2, <2>3
<1>6. Unhandled' \subseteq Unhandled /\ Unhandled \subseteq Unhandled' \cup {c.event} /\ c.event \in Unhandled
  BY <1>2, <1>3 DEF Unhandled
<1>7. Left # {} => Unhandled' = Unhandled
  <2>. SUFFICES ASSUME Left # {} PROVE c.event \in Unhandled'
    BY <1>6
  <2>1. PICK d \in Left : TRUE
    OBVIOUS
  <2>. QED BY <2>1 DEF Unhandled
<1>8. Said'
  <2>. SUFFICES ASSUME NEW a \in Aspects, NEW l \in Labels \cup {Nobody}, Clean(PartOf(a))'
                PROVE  LastWord(a, l)' /\ RestWord(a, l)'
    BY DEF Said
  <2>0. PartOf(a) \in {"chat", "label", "contact"}
    BY DEF PartOf, Aspects
  <2>1. Clean(PartOf(a))
    BY <2>0
  <2>2. LastWord(a, l) /\ RestWord(a, l)
    BY <2>1 DEF DirectoryInv, Said
  <2>3. Held(a, l)' = Held(a, l)
    BY DEF Held
  <2>4. CASE ~Sets(c.event, a, l)
    <3>1. \A e : Sets(e, a, l) => (e \in Unhandled' <=> e \in Unhandled)
      BY <1>6, <2>4
    <3>2. LastWord(a, l)'
      BY <2>2, <2>3, <3>1 DEF LastWord
    <3>3. RestWord(a, l)'
      BY <2>2, <2>4, <3>1 DEF RestWord
    <3>. QED BY <3>2, <3>3
  <2>5. CASE Sets(c.event, a, l) /\ Left # {}
    <3>1. LastWord(a, l)'
      BY <1>7, <2>2, <2>3, <2>5 DEF LastWord
    <3>2. RestWord(a, l)'
      BY <1>6, <1>7, <2>5 DEF RestWord
    <3>. QED BY <3>1, <3>2
  <2>6. CASE Sets(c.event, a, l) /\ Left = {}
    <3>1. c.event \in Changes /\ c.event.part = PartOf(a)
      BY <1>0, <2>6, SetsItsPart DEF Handlings
    <3>2. ASSUME NEW e \in Unhandled', Sets(e, a, l) PROVE e \in Reported /\ c.event.n < e.n /\ c.event.n \in Nat
                                                        /\ e.n \in Nat
      <4>1. e \in Changes
        BY <1>0, <1>2, <3>2 DEF Unhandled, Reported, Handlings, DirectoryInv,
               DirectoryTypes
      <4>2. e.part = PartOf(a)
        BY <3>2, <4>1, SetsItsPart
      <4>3. "met" \notin dmarks[PartOf(a)]
        BY <2>1 DEF Clean
      <4>4. \A d \in started : d.event = e => d = c
        BY <3>1, <4>2, <4>3 DEF DirectoryInv, OneOfPart
      <4>5. e \in Reported
        BY <1>2, <1>3, <2>6, <4>4 DEF Unhandled
      <4>6. c.event.part # "group"
        BY <2>0, <3>1
      <4>. QED BY <3>1, <4>1, <4>5, <4>6 DEF DirectoryInv, InTheirOrder, Changes
    <3>3. \A e \in Unhandled : Sets(e, a, l) => e \in Unhandled' \/ e = c.event
      BY <1>6
    <3>4. LastWord(a, l)'
      <4>. SUFFICES ASSUME NEW e \in Unhandled', Sets(e, a, l),
                           \A f \in Unhandled' : Sets(f, a, l) => f.n <= e.n
                    PROVE  Gives(e, a) = Held(a, l)
        BY <2>3 DEF LastWord
      <4>1. \A f \in Unhandled : Sets(f, a, l) => f.n <= e.n
        BY <3>2, <3>3
      <4>. QED BY <1>6, <2>2, <4>1 DEF LastWord
    <3>5. RestWord(a, l)'
      <4>. SUFFICES ASSUME \A e \in Unhandled' : ~Sets(e, a, l) PROVE Kept(a, l, Held(a, l))'
        BY DEF RestWord
      <4>1. \A f \in Unhandled : Sets(f, a, l) => f.n <= c.event.n
        BY <3>1, <3>3 DEF Changes
      <4>2. Gives(c.event, a) = Held(a, l)
        BY <1>6, <2>2, <2>6, <4>1 DEF LastWord
      <4>3. PICK v : v = Held(a, l)
        OBVIOUS
      <4>4. Kept(a, l, v)'
        BY <2>6, <4>2, <4>3 DEF Kept
      <4>. QED BY <2>3, <4>3, <4>4 DEF Kept
    <3>. QED BY <3>4, <3>5
  <2>. QED BY <2>4, <2>5, <2>6
<1>. QED BY <1>1, <1>4, <1>5, <1>8

(* The contact rests while a handler of another part goes on.               *)
LEMMA ContactRests ==
  ASSUME DirectoryInv, NEW c \in started, NEW Left, \A d \in Left : d.event = c.event,
         started' = (started \ {c}) \cup Left, UNCHANGED <<inbox, account, events>>,
         c.event.part # "contact", c.event \in Changes, dmarks'["contact"] = dmarks["contact"],
         directory'.contact = directory.contact, directory'.name = directory.name, directory'.picture = directory.picture
  PROVE  NameIsSet' /\ PictureIsLast'
<1>1. Reported' = Reported
  BY DEF Reported
<1>2. \A d \in started' : (d \in started /\ d # c) \/ d.event = c.event
  OBVIOUS
<1>3. c.event.kind # "contacts.upsert"
  BY DEF Changes, KindsOf, D!Parts
<1>4. NameIsSet'
  BY <1>2, <1>3 DEF DirectoryInv, NameIsSet, Clean
<1>5. (\A e \in Unhandled' : e.part # "contact") => (\A e \in Unhandled : e.part # "contact")
  <2>1. Unhandled \subseteq Unhandled' \cup {c.event}
    BY <1>1 DEF Unhandled
  <2>. QED BY <2>1
<1>6. PictureIsLast'
  BY <1>1, <1>2, <1>5 DEF DirectoryInv, PictureIsLast, Clean
<1>. QED BY <1>4, <1>6

(* So does the group.                                                       *)
LEMMA GroupRests ==
  ASSUME DirectoryInv, NEW c \in started, NEW Left, \A d \in Left : d.event = c.event,
         started' = (started \ {c}) \cup Left, UNCHANGED <<inbox, account, events>>,
         c.event.part # "group", dmarks'["group"] = dmarks["group"],
         directory'.group = directory.group
  PROVE  GroupIsLast'
<1>1. Reported' = Reported
  BY DEF Reported
<1>2. \A d \in started' : (d \in started /\ d # c) \/ d.event = c.event
  OBVIOUS
<1>3. (\A d \in started' : d.event.part # "group") => (\A d \in started : d.event.part # "group")
  OBVIOUS
<1>. QED BY <1>1, <1>2, <1>3 DEF DirectoryInv, GroupIsLast

(* A handler that goes on before it writes, or has nothing to write.        *)
LEMMA MovesOn ==
  ASSUME DirectoryGiven, DirectoryInv, NEW c \in started, NEW Left \in SUBSET Handlings,
         \A d \in Left : d.event = c.event, \A d, e \in Left : d = e,
         started' = (started \ {c}) \cup Left, UNCHANGED <<inbox, account, events, directory, dmarks>>,
         \A a \in Aspects, l \in Labels \cup {Nobody} :
           Clean(PartOf(a)) /\ Left = {} /\ Sets(c.event, a, l) => Kept(a, l, Gives(c.event, a))
  PROVE  DirectoryTypes' /\ Bare' /\ InTheirOrder' /\ OneOfPart' /\ Said'
<1>1. /\ directory' \in Kepts
      /\ dmarks' \in [D!Parts -> SUBSET {"met", "dropped", "failed", "known", "revived"}]
  BY DEF DirectoryInv, DirectoryTypes, Bare
<1>2. /\ directory'.on # {} => directory'.chat
      /\ ~directory'.contact => directory'.name = Nobody
  BY DEF DirectoryInv, Bare
<1>3. \A p \in {"chat", "label", "contact"} : Clean(p)' => Clean(p)
  BY DEF Clean
<1>4. ASSUME NEW a \in Aspects, NEW l \in Labels \cup {Nobody}, Clean(PartOf(a))'
      PROVE  /\ Left = {} /\ Sets(c.event, a, l) => Kept(a, l, Gives(c.event, a))'
             /\ ~Sets(c.event, a, l) /\ Kept(a, l, Held(a, l)) => Kept(a, l, Held(a, l))'
  <2>1. Clean(PartOf(a))
    BY <1>4 DEF Clean
  <2>2. Left = {} /\ Sets(c.event, a, l) => Kept(a, l, Gives(c.event, a))
    BY <2>1
  <2>3. Left = {} /\ Sets(c.event, a, l) => Kept(a, l, Gives(c.event, a))'
    BY <2>2 DEF Kept
  <2>4. Kept(a, l, Held(a, l)) => Kept(a, l, Held(a, l))'
    BY DEF Kept, Held
  <2>. QED BY <2>3, <2>4
<1>5. \A p \in D!Parts : "met" \in dmarks[p] => "met" \in dmarks'[p]
  OBVIOUS
<1>. QED BY <1>1, <1>2, <1>3, <1>4, <1>5, Moves

(* The handlers of a chat.                                                  *)
LEMMA ChatKeeps ==
  ASSUME DirectoryGiven, DirectoryInv, NEW c \in started,
         D!UpsertChat(c) \/ D!UpdateChat(c) \/ D!DeleteChat(c) \/ D!Associate(c)
  PROVE  DirectoryInv'
<1>0. /\ c \in Handlings /\ c.event \in Changes /\ directory \in Kepts
      /\ (directory.on # {} => directory.chat) /\ (~directory.contact => directory.name = Nobody)
      /\ dmarks \in [D!Parts -> SUBSET {"met", "dropped", "failed", "known", "revived"}]
  BY DEF DirectoryInv, DirectoryTypes, Handlings, Bare
<1>1. c.event.kind \in KindsOf["chat"] /\ UNCHANGED <<inbox, account, events, dmarks>>
  BY DEF D!UpsertChat, D!UpdateChat, D!DeleteChat, D!Associate, D!At, KindsOf, D!Keep
<1>2. c.event.part = "chat"
  BY <1>0, <1>1 DEF Changes, D!Parts
<1>3. ASSUME NEW Left \in SUBSET Handlings, \A d \in Left : d.event = c.event, \A d, e \in Left : d = e,
             started' = (started \ {c}) \cup Left, UNCHANGED directory,
             \A a \in Aspects, l \in Labels \cup {Nobody} :
               Clean(PartOf(a)) /\ Left = {} /\ Sets(c.event, a, l) => Kept(a, l, Gives(c.event, a))
      PROVE  DirectoryInv'
  <2>1. DirectoryTypes' /\ Bare' /\ InTheirOrder' /\ OneOfPart' /\ Said'
    BY <1>1, <1>3, MovesOn
  <2>2. NameIsSet' /\ PictureIsLast'
    BY <1>0, <1>1, <1>2, <1>3, ContactRests
  <2>3. GroupIsLast'
    BY <1>0, <1>1, <1>2, <1>3, GroupRests
  <2>. QED BY <2>1, <2>2, <2>3 DEF DirectoryInv
<1>4. ASSUME started' = started \ {c}, directory' \in Kepts, directory'.on # {} => directory'.chat,
             directory'.label = directory.label, directory'.contact = directory.contact,
             directory'.name = directory.name, directory'.picture = directory.picture, directory'.group = directory.group,
             \A l \in Labels \cup {Nobody} :
               /\ IF Sets(c.event, "chat", l) THEN Holds(directory'.chat) = Gives(c.event, "chat")
                  ELSE directory'.chat = directory.chat
               /\ IF Sets(c.event, "on", l) THEN Holds(l \in directory'.on) = Gives(c.event, "on")
                  ELSE (l \in directory'.on <=> l \in directory.on)
      PROVE  DirectoryInv'
  <2>0. PICK Left \in SUBSET Handlings : Left = {}
    OBVIOUS
  <2>7. started' = (started \ {c}) \cup Left /\ \A d \in Left : d.event = c.event
    BY <1>4, <2>0
  <2>1. ASSUME NEW a \in Aspects, NEW l \in Labels \cup {Nobody}
        PROVE  /\ Sets(c.event, a, l) => Kept(a, l, Gives(c.event, a))'
               /\ ~Sets(c.event, a, l) /\ Kept(a, l, Held(a, l)) => Kept(a, l, Held(a, l))'
    <3>1. CASE a \in {"label", "name"}
      <4>1. ~Sets(c.event, a, l)
        BY <1>1, <3>1 DEF Sets, KindsOf, D!Associations
      <4>. QED BY <1>1, <1>4, <3>1, <4>1 DEF Kept, Held
    <3>2. CASE a = "chat"
      <4>1. Kept(a, l, Gives(c.event, a))' <=> Holds(directory'.chat) = Gives(c.event, "chat")
        BY <3>2 DEF Kept
      <4>2. directory'.chat = directory.chat => (Kept(a, l, Held(a, l)) => Kept(a, l, Held(a, l))')
        BY <1>1, <3>2 DEF Kept, Held
      <4>. QED BY <1>4, <3>2, <4>1, <4>2
    <3>3. CASE a = "on"
      <4>1. Kept(a, l, Gives(c.event, a))' <=> Holds(l \in directory'.on) = Gives(c.event, "on")
        BY <3>3 DEF Kept
      <4>2. (l \in directory'.on <=> l \in directory.on) => (Kept(a, l, Held(a, l)) => Kept(a, l, Held(a, l))')
        BY <1>1, <3>3 DEF Kept, Held, Holds
      <4>. QED BY <1>4, <3>3, <4>1, <4>2
    <3>. QED BY <3>1, <3>2, <3>3 DEF Aspects
  <2>2. \A p \in {"chat", "label", "contact"} : Clean(p)' => Clean(p)
    BY <1>1 DEF Clean
  <2>3. DirectoryTypes' /\ Bare' /\ InTheirOrder' /\ OneOfPart' /\ Said'
    <3>1. ~directory'.contact => directory'.name = Nobody
      BY <1>0, <1>4
    <3>2. /\ dmarks' \in [D!Parts -> SUBSET {"met", "dropped", "failed", "known", "revived"}]
          /\ \A p \in D!Parts : "met" \in dmarks[p] => "met" \in dmarks'[p]
      BY <1>0, <1>1
    <3>3. \A a \in Aspects, l \in Labels \cup {Nobody} :
            Clean(PartOf(a))' =>
             /\ Left = {} /\ Sets(c.event, a, l) => Kept(a, l, Gives(c.event, a))'
             /\ ~Sets(c.event, a, l) /\ Kept(a, l, Held(a, l)) => Kept(a, l, Held(a, l))'
      BY <2>1
    <3>4. \A d, e \in Left : d = e
      BY <2>0
    <3>. QED BY <1>1, <1>4, <2>2, <2>7, <3>1, <3>2, <3>3, <3>4, Moves
  <2>4. /\ UNCHANGED <<inbox, account, events>> /\ c.event \in Changes
        /\ dmarks'["contact"] = dmarks["contact"] /\ dmarks'["group"] = dmarks["group"]
        /\ c.event.part # "contact" /\ c.event.part # "group"
        /\ directory'.contact = directory.contact /\ directory'.name = directory.name /\ directory'.picture = directory.picture
        /\ directory'.group = directory.group
    BY <1>0, <1>1, <1>2, <1>4
  <2>5. NameIsSet' /\ PictureIsLast'
    BY <2>4, <2>7, ContactRests
  <2>6. GroupIsLast'
    BY <2>4, <2>7, GroupRests
  <2>. QED BY <2>3, <2>5, <2>6 DEF DirectoryInv
<1>5. CASE D!UpsertChat(c)
  <2>1. c.event.kind = "chats.upsert"
    BY <1>5 DEF D!UpsertChat, D!At
  <2>2. CASE directory.chat /\ D!Return(c) /\ UNCHANGED directory
    <3>1. started' = (started \ {c}) \cup {}
      BY <2>2 DEF D!Return
    <3>2. ASSUME NEW a \in Aspects, NEW l \in Labels \cup {Nobody}, Sets(c.event, a, l)
          PROVE  Kept(a, l, Gives(c.event, a))
      BY <2>1, <2>2, <3>2 DEF Sets, Kept, Gives, Holds, D!Associations
    <3>3. {} \in SUBSET Handlings /\ (\A d \in {} : d.event = c.event) /\ \A d, e \in {} : d = e
      OBVIOUS
    <3>. QED BY <1>3, <2>2, <3>1, <3>2, <3>3
  <2>3. CASE D!Goto(c, "write", Nobody) /\ UNCHANGED directory
    <3>. DEFINE d == [c EXCEPT !.pc = "write", !.val = Nobody]
    <3>1. started' = (started \ {c}) \cup {d}
      BY <2>3 DEF D!Goto
    <3>2. d \in Handlings /\ d.event = c.event
      <4>1. "write" \in {"find", "create", "picture", "participants", "fetch", "write"}
            /\ Nobody \in Nat \cup {Nobody}
        OBVIOUS
      <4>2. c \in Handlings
        BY <1>0
      <4>3. /\ [c EXCEPT !.pc = "write", !.val = Nobody] \in Handlings
            /\ [c EXCEPT !.pc = "write", !.val = Nobody].event = c.event
        BY <4>1, <4>2 DEF Handlings
      <4>. QED BY <4>3
    <3>. HIDE DEF d
    <3>3. {d} \in SUBSET Handlings /\ {d} # {} /\ (\A e \in {d} : e.event = c.event)
          /\ \A e, f \in {d} : e = f
      BY <3>2
    <3>. QED BY <1>3, <2>3, <3>1, <3>3
  <2>4. CASE directory' = [directory EXCEPT !.chat = TRUE] /\ D!Return(c)
    <3>1. /\ directory' \in Kepts /\ directory'.chat = TRUE /\ directory'.on = directory.on /\ directory'.label = directory.label
          /\ directory'.contact = directory.contact /\ directory'.name = directory.name /\ directory'.picture = directory.picture
          /\ directory'.group = directory.group
      BY <1>0, <2>4 DEF Kepts
    <3>2. ASSUME NEW l \in Labels \cup {Nobody}
          PROVE  /\ Sets(c.event, "chat", l) /\ ~Sets(c.event, "on", l)
                 /\ Gives(c.event, "chat") = Holds(TRUE)
      BY <2>1 DEF Sets, Gives, D!Associations, Holds
    <3>. QED BY <1>4, <2>4, <3>1, <3>2 DEF D!Return
  <2>. QED BY <1>5, <2>2, <2>3, <2>4 DEF D!UpsertChat
<1>6. CASE D!UpdateChat(c)
  <2>1. c.event.kind = "chats.update" /\ started' = (started \ {c}) \cup {} /\ UNCHANGED directory
    BY <1>6 DEF D!UpdateChat, D!At, D!Return
  <2>2. \A a \in Aspects, l \in Labels \cup {Nobody} : ~Sets(c.event, a, l)
    BY <2>1 DEF Sets, D!Associations
  <2>3. {} \in SUBSET Handlings /\ (\A d \in {} : d.event = c.event) /\ \A d, e \in {} : d = e
    OBVIOUS
  <2>. QED BY <1>3, <2>1, <2>2, <2>3
<1>7. CASE D!DeleteChat(c)
  <2>1. c.event.kind = "chats.delete" /\ directory' = [directory EXCEPT !.chat = FALSE, !.on = {}] /\ D!Return(c)
    BY <1>7 DEF D!DeleteChat, D!At
  <2>2. /\ directory' \in Kepts /\ directory'.chat = FALSE /\ directory'.on = {} /\ directory'.label = directory.label
        /\ directory'.contact = directory.contact /\ directory'.name = directory.name /\ directory'.picture = directory.picture
        /\ directory'.group = directory.group
    BY <1>0, <2>1 DEF Kepts
  <2>3. ASSUME NEW l \in Labels \cup {Nobody}
        PROVE  /\ Sets(c.event, "chat", l) /\ Sets(c.event, "on", l)
               /\ Gives(c.event, "chat") = Holds(FALSE) /\ Gives(c.event, "on") = Holds(l \in directory'.on)
    BY <2>1, <2>2 DEF Sets, Gives, Holds
  <2>. QED BY <1>4, <2>1, <2>2, <2>3 DEF D!Return
<1>8. CASE D!Associate(c)
  <2>. DEFINE on == IF c.event.kind = "labels.add" THEN directory.on \cup {c.event.val}
                    ELSE directory.on \ {c.event.val}
  <2>1. c.event.kind \in D!Associations /\ directory' = [directory EXCEPT !.chat = TRUE, !.on = on] /\ D!Return(c)
    BY <1>8 DEF D!Associate, D!At
  <2>2. on \in SUBSET Labels
    BY <1>0, <2>1 DEF Changes, Kepts
  <2>3. /\ directory' \in Kepts /\ directory'.chat = TRUE /\ directory'.on = on /\ directory'.label = directory.label
        /\ directory'.contact = directory.contact /\ directory'.name = directory.name /\ directory'.picture = directory.picture
        /\ directory'.group = directory.group
    BY <1>0, <2>1, <2>2 DEF Kepts
  <2>4. ASSUME NEW l \in Labels \cup {Nobody}
        PROVE  /\ Sets(c.event, "chat", l) /\ Gives(c.event, "chat") = Holds(TRUE)
               /\ Sets(c.event, "on", l) <=> c.event.val = l
               /\ c.event.val = l => Gives(c.event, "on") = Holds(l \in on)
               /\ c.event.val # l => (l \in on <=> l \in directory.on)
    BY <2>1 DEF Sets, Gives, Holds, D!Associations
  <2>. HIDE DEF on
  <2>. QED BY <1>4, <2>1, <2>3, <2>4 DEF D!Return
<1>. QED BY <1>5, <1>6, <1>7, <1>8

(* What has not met is alone.                                               *)
LEMMA AloneOfPart ==
  ASSUME DirectoryInv, NEW c \in started, "met" \notin dmarks[c.event.part]
  PROVE  \A x \in started : x.event.part = c.event.part => x = c
BY DEF DirectoryInv, OneOfPart

(* The handler of a label.                                                  *)
LEMMA LabelKeeps ==
  ASSUME DirectoryGiven, DirectoryInv, NEW c \in started, D!EditLabel(c)
  PROVE  DirectoryInv'
<1>0. /\ c \in Handlings /\ c.event \in Changes /\ directory \in Kepts
      /\ (directory.on # {} => directory.chat) /\ (~directory.contact => directory.name = Nobody)
      /\ dmarks \in [D!Parts -> SUBSET {"met", "dropped", "failed", "known", "revived"}]
  BY DEF DirectoryInv, DirectoryTypes, Handlings, Bare
<1>1. c.event.kind = "labels.edit" /\ UNCHANGED <<inbox, account, events>>
  BY DEF D!EditLabel, D!At, D!Keep
<1>2. c.event.part = "label" /\ c.event.val \in Nat \cup {Nobody} /\ c.event.n \in Nat
  BY <1>0, <1>1 DEF Changes, D!Parts, KindsOf
<1>3. \A a \in Aspects, l \in Labels \cup {Nobody} : Sets(c.event, a, l) <=> a = "label"
  BY <1>1 DEF Sets, Aspects, D!Associations
<1>4. ASSUME NEW Left \in SUBSET Handlings, \A d \in Left : d.event = c.event,
             started' = (started \ {c}) \cup Left,
             dmarks'["contact"] = dmarks["contact"], dmarks'["group"] = dmarks["group"],
             directory'.contact = directory.contact, directory'.name = directory.name, directory'.picture = directory.picture,
             directory'.group = directory.group
      PROVE  NameIsSet' /\ PictureIsLast' /\ GroupIsLast'
  <2>1. NameIsSet' /\ PictureIsLast'
    BY <1>0, <1>1, <1>2, <1>4, ContactRests
  <2>2. GroupIsLast'
    BY <1>1, <1>2, <1>4, GroupRests
  <2>. QED BY <2>1, <2>2
<1>5. CASE UNCHANGED <<directory, dmarks>> /\ D!Return(c) /\ directory.label = c.event.val
  <2>1. PICK Left \in SUBSET Handlings : Left = {}
    OBVIOUS
  <2>2. started' = (started \ {c}) \cup Left /\ (\A d \in Left : d.event = c.event) /\ \A d, e \in Left : d = e
    BY <1>5, <2>1 DEF D!Return
  <2>3. ASSUME NEW a \in Aspects, NEW l \in Labels \cup {Nobody}, Sets(c.event, a, l)
        PROVE  Kept(a, l, Gives(c.event, a))
    BY <1>3, <1>5, <2>3 DEF Kept, Gives
  <2>4. DirectoryTypes' /\ Bare' /\ InTheirOrder' /\ OneOfPart' /\ Said'
    BY <1>1, <1>5, <2>2, <2>3, MovesOn
  <2>. QED BY <1>4, <1>5, <2>2, <2>4 DEF DirectoryInv
<1>6. CASE UNCHANGED <<directory, dmarks>> /\ D!Goto(c, "write", directory.label)
  <2>. DEFINE d == [c EXCEPT !.pc = "write", !.val = directory.label]
  <2>1. d \in Handlings /\ d.event = c.event
    <3>1. directory.label \in Nat \cup {Nobody}
      BY <1>0 DEF Kepts
    <3>2. "write" \in {"find", "create", "picture", "participants", "fetch", "write"}
      OBVIOUS
    <3>. QED BY <1>0, <3>1, <3>2 DEF Handlings
  <2>2. started' = (started \ {c}) \cup {d}
    BY <1>6 DEF D!Goto
  <2>. HIDE DEF d
  <2>3. /\ {d} \in SUBSET Handlings /\ {d} # {} /\ (\A e \in {d} : e.event = c.event)
        /\ \A e, f \in {d} : e = f
    BY <2>1
  <2>4. DirectoryTypes' /\ Bare' /\ InTheirOrder' /\ OneOfPart' /\ Said'
    BY <1>1, <1>6, <2>2, <2>3, MovesOn
  <2>. QED BY <1>4, <1>6, <2>2, <2>3, <2>4 DEF DirectoryInv
<1>7. CASE /\ directory' = [directory EXCEPT !.label = IF c.event.val # Nobody THEN c.event.val
                                             ELSE IF c.val # Nobody THEN Nobody ELSE c.event.n]
           /\ dmarks' = [dmarks EXCEPT !["label"] = (@ \ {"revived"}) \cup
                          IF c.event.val = Nobody /\ c.val = Nobody THEN {"revived"} ELSE {}]
           /\ D!Return(c)
  <2>. DEFINE v == IF c.event.val # Nobody THEN c.event.val
                   ELSE IF c.val # Nobody THEN Nobody ELSE c.event.n
  <2>. DEFINE m == (dmarks["label"] \ {"revived"}) \cup
                   IF c.event.val = Nobody /\ c.val = Nobody THEN {"revived"} ELSE {}
  <2>1. v \in Nat \cup {Nobody}
    BY <1>2
  <2>2. m \in SUBSET {"met", "dropped", "failed", "known", "revived"} /\ "label" \in D!Parts
    BY <1>0 DEF D!Parts
  <2>3. directory' = [directory EXCEPT !.label = v] /\ dmarks' = [dmarks EXCEPT !["label"] = m]
    BY <1>7
  <2>4. "revived" \notin m => v = c.event.val
    OBVIOUS
  <2>5. m \cap {"met", "dropped", "failed"} = dmarks["label"] \cap {"met", "dropped", "failed"}
    OBVIOUS
  <2>. HIDE DEF v, m
  <2>6. /\ directory' \in Kepts /\ directory'.chat = directory.chat /\ directory'.on = directory.on /\ directory'.label = v
        /\ directory'.contact = directory.contact /\ directory'.name = directory.name /\ directory'.picture = directory.picture
        /\ directory'.group = directory.group
    BY <1>0, <2>1, <2>3 DEF Kepts
  <2>7. /\ dmarks' \in [D!Parts -> SUBSET {"met", "dropped", "failed", "known", "revived"}]
        /\ \A p \in D!Parts : p # "label" => dmarks'[p] = dmarks[p]
        /\ dmarks'["label"] = m
    BY <1>0, <2>2, <2>3
  <2>8. \A p \in D!Parts : "met" \in dmarks[p] => "met" \in dmarks'[p]
    BY <2>5, <2>7
  <2>9. \A p \in {"chat", "label", "contact"} : Clean(p)' => Clean(p)
    BY <2>5, <2>7 DEF Clean, D!Parts
  <2>10. PICK Left \in SUBSET Handlings : Left = {}
    OBVIOUS
  <2>11. started' = (started \ {c}) \cup Left /\ (\A d \in Left : d.event = c.event) /\ \A d, e \in Left : d = e
    BY <1>7, <2>10 DEF D!Return
  <2>12. dmarks'["contact"] = dmarks["contact"] /\ dmarks'["group"] = dmarks["group"]
    BY <2>7 DEF D!Parts
  <2>13. ASSUME NEW a \in Aspects, NEW l \in Labels \cup {Nobody}
         PROVE  /\ Sets(c.event, a, l) => Kept(a, l, Gives(c.event, a))'
                /\ ~Sets(c.event, a, l) /\ Kept(a, l, Held(a, l)) => Kept(a, l, Held(a, l))'
    <3>1. CASE a = "label"
      BY <1>3, <2>4, <2>6, <2>7, <3>1 DEF Kept, Gives
    <3>2. CASE a # "label"
      <4>1. ~Sets(c.event, a, l)
        BY <1>3, <3>2
      <4>2. Kept(a, l, Held(a, l)) => Kept(a, l, Held(a, l))'
        BY <1>1, <2>6, <2>12, <3>2 DEF Kept, Held, Aspects
      <4>. QED BY <4>1, <4>2
    <3>. QED BY <3>1, <3>2
  <2>14. DirectoryTypes' /\ Bare' /\ InTheirOrder' /\ OneOfPart' /\ Said'
    <3>1. (directory'.on # {} => directory'.chat) /\ (~directory'.contact => directory'.name = Nobody)
      BY <1>0, <2>6
    <3>2. \A a \in Aspects, l \in Labels \cup {Nobody} :
            Clean(PartOf(a))' =>
             /\ Left = {} /\ Sets(c.event, a, l) => Kept(a, l, Gives(c.event, a))'
             /\ ~Sets(c.event, a, l) /\ Kept(a, l, Held(a, l)) => Kept(a, l, Held(a, l))'
      BY <2>13
    <3>. QED BY <1>1, <2>6, <2>7, <2>8, <2>9, <2>11, <3>1, <3>2, Moves
  <2>. QED BY <1>4, <2>6, <2>11, <2>12, <2>14 DEF DirectoryInv
<1>. QED BY <1>5, <1>6, <1>7 DEF D!EditLabel

(* The handlers of a contact.                                               *)
LEMMA ContactKeeps ==
  ASSUME DirectoryGiven, DirectoryInv, NEW c \in started,
         D!UpsertContact(c) \/ D!FetchPicture(c) \/ D!UpdateContact(c)
  PROVE  DirectoryInv'
<1>0. /\ c \in Handlings /\ c.event \in Changes /\ directory \in Kepts
      /\ (directory.on # {} => directory.chat) /\ (~directory.contact => directory.name = Nobody)
      /\ dmarks \in [D!Parts -> SUBSET {"met", "dropped", "failed", "known", "revived"}]
      /\ account \in Phones /\ Nobody \notin Nat
  BY DEF DirectoryInv, DirectoryTypes, Handlings, Bare, DirectoryGiven
<1>1. c.event.kind \in {"contacts.upsert", "contacts.update"} /\ UNCHANGED <<inbox, account, events>>
  BY DEF D!UpsertContact, D!FetchPicture, D!UpdateContact, D!At, D!Keep
<1>2. /\ c.event.part = "contact" /\ c.event.val \in Nat \cup {Nobody}
      /\ c.event.kind = "contacts.upsert" => c.event.val \in Nat
  BY <1>0, <1>1 DEF Changes, D!Parts, KindsOf
<1>3. \A a \in Aspects, l \in Labels \cup {Nobody} : Sets(c.event, a, l) <=> a = "name" /\ c.event.val # Nobody
  BY <1>1 DEF Sets, Aspects, D!Associations
<1>4. Clean("contact") => \A x \in started : x.event.part = "contact" => x = c
  BY <1>2, AloneOfPart DEF Clean
<1>5. Reported' = Reported
  BY <1>1 DEF Reported
<1>6. \A x \in started : x.event.kind = "contacts.upsert" => x.event.part = "contact"
  BY DEF DirectoryInv, DirectoryTypes, Handlings, Changes, D!Parts, KindsOf
<1>7. ASSUME NEW Left \in SUBSET Handlings, \A d \in Left : d.event = c.event, \A d, e \in Left : d = e,
             started' = (started \ {c}) \cup Left,
             directory' \in Kepts, directory'.chat = directory.chat, directory'.on = directory.on, directory'.label = directory.label,
             directory'.group = directory.group, ~directory'.contact => directory'.name = Nobody,
             dmarks' \in [D!Parts -> SUBSET {"met", "dropped", "failed", "known", "revived"}],
             \A p \in D!Parts : p # "contact" => dmarks'[p] = dmarks[p],
             "met" \in dmarks["contact"] => "met" \in dmarks'["contact"], Clean("contact")' => Clean("contact"),
             Clean("contact")' =>
               /\ Left = {} /\ c.event.val # Nobody => Kept("name", Nobody, c.event.val)'
               /\ c.event.val = Nobody /\ Kept("name", Nobody, account.name) => Kept("name", Nobody, account.name)'
      PROVE  DirectoryTypes' /\ Bare' /\ InTheirOrder' /\ OneOfPart' /\ Said' /\ GroupIsLast'
  <2>1. dmarks'["group"] = dmarks["group"] /\ dmarks'["label"] = dmarks["label"] /\ dmarks'["chat"] = dmarks["chat"]
    BY <1>7 DEF D!Parts
  <2>2. GroupIsLast'
    BY <1>1, <1>2, <1>7, <2>1, GroupRests
  <2>3. ASSUME NEW a \in Aspects, NEW l \in Labels \cup {Nobody}, Clean(PartOf(a))'
        PROVE  /\ Left = {} /\ Sets(c.event, a, l) => Kept(a, l, Gives(c.event, a))'
               /\ ~Sets(c.event, a, l) /\ Kept(a, l, Held(a, l)) => Kept(a, l, Held(a, l))'
    <3>1. CASE a = "name"
      <4>1. Clean("contact")'
        BY <2>3, <3>1 DEF PartOf
      <4>2. /\ Left = {} /\ c.event.val # Nobody => Kept("name", Nobody, c.event.val)'
            /\ c.event.val = Nobody /\ Kept("name", Nobody, account.name) => Kept("name", Nobody, account.name)'
        BY <1>7, <4>1
      <4>3. Gives(c.event, a) = c.event.val
        BY <3>1 DEF Gives
      <4>4. PICK v : v = c.event.val
        OBVIOUS
      <4>5. Kept(a, l, v)' <=> Kept("name", Nobody, v)'
        BY <3>1 DEF Kept
      <4>6. PICK w : w = account.name
        OBVIOUS
      <4>7. Held(a, l) = w /\ Held(a, l)' = w
        BY <1>1, <3>1, <4>6 DEF Held
      <4>8. (Kept(a, l, w)' <=> Kept("name", Nobody, w)') /\ (Kept(a, l, w) <=> Kept("name", Nobody, w))
        BY <3>1 DEF Kept
      <4>9. Sets(c.event, a, l) <=> c.event.val # Nobody
        BY <1>3, <3>1
      <4>10. Left = {} /\ c.event.val # Nobody => Kept("name", Nobody, v)'
        BY <4>2, <4>4 DEF Kept
      <4>11. c.event.val = Nobody /\ Kept("name", Nobody, w) => Kept("name", Nobody, w)'
        BY <1>1, <4>2, <4>6 DEF Kept
      <4>12. Kept(a, l, v)' <=> Kept(a, l, Gives(c.event, a))'
        BY <4>3, <4>4 DEF Kept
      <4>13. (Kept(a, l, w)' <=> Kept(a, l, Held(a, l))') /\ (Kept(a, l, w) <=> Kept(a, l, Held(a, l)))
        BY <4>7 DEF Kept
      <4>. QED BY <4>5, <4>8, <4>9, <4>10, <4>11, <4>12, <4>13
    <3>2. CASE a # "name"
      <4>1. ~Sets(c.event, a, l)
        BY <1>3, <3>2
      <4>2. Kept(a, l, Held(a, l)) => Kept(a, l, Held(a, l))'
        BY <1>1, <1>7, <2>1, <3>2 DEF Kept, Held, Aspects
      <4>. QED BY <4>1, <4>2
    <3>. QED BY <3>1, <3>2
  <2>4. \A p \in D!Parts : "met" \in dmarks[p] => "met" \in dmarks'[p]
    BY <1>7
  <2>5. \A p \in {"chat", "label", "contact"} : Clean(p)' => Clean(p)
    BY <1>7, <2>1 DEF Clean
  <2>6. directory'.on # {} => directory'.chat
    BY <1>0, <1>7
  <2>7. DirectoryTypes' /\ Bare' /\ InTheirOrder' /\ OneOfPart' /\ Said'
    BY <1>1, <1>7, <2>3, <2>4, <2>5, <2>6, Moves
  <2>. QED BY <2>2, <2>7
<1>8. CASE D!UpsertContact(c)
  <2>. DEFINE d == [c EXCEPT !.pc = "picture", !.val = Nobody]
  <2>1. /\ c.event.kind = "contacts.upsert" /\ started' = (started \ {c}) \cup {d}
        /\ directory' = (IF directory.contact THEN directory ELSE [directory EXCEPT !.contact = TRUE, !.name = c.event.val])
        /\ dmarks' = (IF directory.contact THEN [dmarks EXCEPT !["contact"] = @ \cup {"known"}] ELSE dmarks)
    BY <1>8 DEF D!UpsertContact, D!At, D!Goto
  <2>2. d \in Handlings /\ d.event = c.event /\ d.pc = "picture"
    <3>1. Nobody \in Nat \cup {Nobody}
      OBVIOUS
    <3>2. "picture" \in {"find", "create", "picture", "participants", "fetch", "write"}
      OBVIOUS
    <3>. QED BY <1>0, <3>1, <3>2 DEF Handlings
  <2>. HIDE DEF d
  <2>3. c.event.val \in Nat /\ c.event.val # Nobody
    BY <1>0, <1>2, <2>1
  <2>4. /\ directory' \in Kepts /\ directory'.chat = directory.chat /\ directory'.on = directory.on /\ directory'.label = directory.label
        /\ directory'.group = directory.group /\ directory'.contact = TRUE
        /\ ~directory.contact => directory'.name = c.event.val
    BY <1>0, <2>1, <2>3 DEF Kepts
  <2>5. /\ dmarks' \in [D!Parts -> SUBSET {"met", "dropped", "failed", "known", "revived"}]
        /\ \A p \in D!Parts : p # "contact" => dmarks'[p] = dmarks[p]
        /\ dmarks["contact"] \subseteq dmarks'["contact"]
        /\ directory.contact => "known" \in dmarks'["contact"]
    BY <1>0, <2>1 DEF D!Parts
  <2>6. Clean("contact")' => Clean("contact")
    BY <2>5 DEF Clean
  <2>7. /\ {d} \in SUBSET Handlings /\ {d} # {} /\ (\A e \in {d} : e.event = c.event)
        /\ \A e, f \in {d} : e = f
    BY <2>2
  <2>8. DirectoryTypes' /\ Bare' /\ InTheirOrder' /\ OneOfPart' /\ Said' /\ GroupIsLast'
    BY <1>7, <2>1, <2>3, <2>4, <2>5, <2>6, <2>7
  <2>9. Clean("contact")' => \A x \in started' : x.event.part = "contact" => x = d
    BY <1>4, <2>1, <2>6
  <2>10. \A x \in started' : x.event.kind = "contacts.upsert" => x.event.part = "contact"
    BY <1>2, <1>6, <2>1, <2>2
  <2>11. NameIsSet'
    BY <2>2, <2>4, <2>5, <2>9, <2>10 DEF NameIsSet
  <2>12. d.event \in Unhandled' /\ d.event.part = "contact"
    BY <1>2, <2>1, <2>2 DEF Unhandled
  <2>13. PictureIsLast'
    BY <2>2, <2>9, <2>12 DEF PictureIsLast
  <2>. QED BY <2>8, <2>11, <2>13 DEF DirectoryInv
<1>9. CASE D!FetchPicture(c)
  <2>0. c.pc = "picture" /\ UNCHANGED directory
    BY <1>9 DEF D!FetchPicture, D!At
  <2>1. CASE D!Goto(c, "write", account.picture) /\ UNCHANGED dmarks
    <3>. DEFINE d == [c EXCEPT !.pc = "write", !.val = account.picture]
    <3>1. started' = (started \ {c}) \cup {d}
      BY <2>1 DEF D!Goto
    <3>2. d \in Handlings /\ d.event = c.event /\ d.pc = "write" /\ d.val = account.picture
      <4>1. account.picture \in Nat \cup {Nobody}
        BY <1>0 DEF Phones
      <4>2. "write" \in {"find", "create", "picture", "participants", "fetch", "write"}
        OBVIOUS
      <4>. QED BY <1>0, <4>1, <4>2 DEF Handlings
    <3>. HIDE DEF d
    <3>3. /\ {d} \in SUBSET Handlings /\ {d} # {} /\ (\A e \in {d} : e.event = c.event)
          /\ \A e, f \in {d} : e = f
      BY <3>2
    <3>4. Kept("name", Nobody, account.name) => Kept("name", Nobody, account.name)'
      BY <1>1, <2>0, <2>1 DEF Kept
    <3>5. DirectoryTypes' /\ Bare' /\ InTheirOrder' /\ OneOfPart' /\ Said'
          /\ GroupIsLast'
      <4>1. Clean("contact")' => Clean("contact")
        BY <2>1 DEF Clean
      <4>. QED BY <1>0, <1>7, <2>0, <2>1, <3>1, <3>3, <3>4, <4>1
    <3>6. Clean("contact")' => \A x \in started' : x.event.part = "contact" => x = d
      BY <1>4, <2>1, <3>1 DEF Clean
    <3>7. NameIsSet'
      <4>1. \A x \in started' : x.event.kind = "contacts.upsert" => x.event.part = "contact"
        BY <1>2, <1>6, <3>1, <3>2
      <4>2. Clean("contact")' /\ c.event.kind = "contacts.upsert" =>
              directory.contact /\ ("known" \in dmarks["contact"] \/ directory.name = c.event.val)
        BY <2>0, <2>1 DEF DirectoryInv, NameIsSet, Clean
      <4>. QED BY <2>0, <2>1, <3>2, <3>6, <4>1, <4>2 DEF NameIsSet
    <3>8. d.event \in Unhandled' /\ d.event.part = "contact"
      BY <1>2, <3>1, <3>2 DEF Unhandled
    <3>9. PictureIsLast'
      BY <1>1, <3>2, <3>6, <3>8 DEF PictureIsLast
    <3>. QED BY <3>5, <3>7, <3>9 DEF DirectoryInv
  <2>2. CASE D!Goto(c, "write", Nobody) /\ dmarks' = [dmarks EXCEPT !["contact"] = @ \cup {"failed"}]
    <3>. DEFINE d == [c EXCEPT !.pc = "write", !.val = Nobody]
    <3>1. started' = (started \ {c}) \cup {d}
      BY <2>2 DEF D!Goto
    <3>2. d \in Handlings /\ d.event = c.event
      <4>1. Nobody \in Nat \cup {Nobody}
        OBVIOUS
      <4>2. "write" \in {"find", "create", "picture", "participants", "fetch", "write"}
        OBVIOUS
      <4>. QED BY <1>0, <4>1, <4>2 DEF Handlings
    <3>. HIDE DEF d
    <3>3. /\ {d} \in SUBSET Handlings /\ {d} # {} /\ (\A e \in {d} : e.event = c.event)
          /\ \A e, f \in {d} : e = f
      BY <3>2
    <3>4. /\ dmarks' \in [D!Parts -> SUBSET {"met", "dropped", "failed", "known", "revived"}]
          /\ \A p \in D!Parts : p # "contact" => dmarks'[p] = dmarks[p]
          /\ dmarks["contact"] \subseteq dmarks'["contact"] /\ "failed" \in dmarks'["contact"]
      BY <1>0, <2>2 DEF D!Parts
    <3>5. ~Clean("contact")'
      BY <3>4 DEF Clean
    <3>6. DirectoryTypes' /\ Bare' /\ InTheirOrder' /\ OneOfPart' /\ Said'
          /\ GroupIsLast'
      BY <1>0, <1>7, <2>0, <3>1, <3>3, <3>4, <3>5
    <3>7. NameIsSet' /\ PictureIsLast'
      BY <3>5 DEF NameIsSet, PictureIsLast
    <3>. QED BY <3>6, <3>7 DEF DirectoryInv
  <2>. QED BY <1>9, <2>1, <2>2 DEF D!FetchPicture
<1>10. CASE D!UpdateContact(c)
  <2>0. c.pc = "write" /\ started' = started \ {c}
    BY <1>10 DEF D!UpdateContact, D!At, D!Return
  <2>1. PICK Left \in SUBSET Handlings : Left = {}
    OBVIOUS
  <2>2. started' = (started \ {c}) \cup Left /\ (\A d \in Left : d.event = c.event) /\ \A d, e \in Left : d = e
    BY <2>0, <2>1
  <2>3. c.val \in Nat \cup {Nobody}
    BY <1>0 DEF Handlings
  <2>4. Clean("contact") =>
          /\ \A x \in started' : x.event.part # "contact"
          /\ (\A e \in Unhandled' : e.part # "contact") => c.val = account.picture
          /\ c.event.kind = "contacts.upsert" =>
               directory.contact /\ ("known" \in dmarks["contact"] \/ directory.name = c.event.val)
    <3>. SUFFICES ASSUME Clean("contact")
                  PROVE  /\ \A x \in started' : x.event.part # "contact"
                         /\ (\A e \in Unhandled' : e.part # "contact") => c.val = account.picture
                         /\ c.event.kind = "contacts.upsert" =>
                              directory.contact /\ ("known" \in dmarks["contact"] \/ directory.name = c.event.val)
      OBVIOUS
    <3>1. \A x \in started' : x.event.part # "contact"
      BY <1>4, <2>0
    <3>2. Reported' \subseteq Unhandled'
      BY DEF Unhandled
    <3>3. (\A e \in Reported : e.part # "contact") => c.val = account.picture
      BY <1>2, <2>0 DEF DirectoryInv, PictureIsLast
    <3>4. c.event.kind = "contacts.upsert" =>
            directory.contact /\ ("known" \in dmarks["contact"] \/ directory.name = c.event.val)
      BY <2>0 DEF DirectoryInv, NameIsSet
    <3>. QED BY <1>5, <3>1, <3>2, <3>3, <3>4
  <2>5. ASSUME Clean("contact")' => Clean("contact"),
               Clean("contact")' /\ directory'.contact /\ c.val = account.picture => directory'.picture = account.picture
        PROVE  NameIsSet' /\ PictureIsLast'
    <3>1. Clean("contact")' => \A x \in started' : x.event.part # "contact"
      BY <2>4, <2>5
    <3>2. \A x \in started' : x.event.kind = "contacts.upsert" => x.event.part = "contact"
      BY <1>6, <2>0
    <3>3. NameIsSet'
      BY <3>1, <3>2 DEF NameIsSet
    <3>4. Clean("contact")' /\ (\A e \in Unhandled' : e.part # "contact") => c.val = account.picture
      BY <2>4, <2>5
    <3>5. PictureIsLast'
      BY <1>1, <2>5, <3>1, <3>4 DEF PictureIsLast
    <3>. QED BY <3>3, <3>5
  <2>6. CASE /\ c.event.kind = "contacts.upsert" /\ UNCHANGED dmarks
             /\ directory' = [directory EXCEPT !.picture = IF directory.contact THEN c.val ELSE @]
    <3>1. /\ directory' \in Kepts /\ directory'.chat = directory.chat /\ directory'.on = directory.on /\ directory'.label = directory.label
          /\ directory'.group = directory.group /\ directory'.contact = directory.contact /\ directory'.name = directory.name
          /\ directory.contact => directory'.picture = c.val
      BY <1>0, <2>3, <2>6 DEF Kepts
    <3>2. Clean("contact")' => Clean("contact")
      BY <2>6 DEF Clean
    <3>3. Clean("contact")' => Kept("name", Nobody, c.event.val)'
      BY <2>4, <2>6, <3>1, <3>2 DEF Kept
    <3>4. c.event.val # Nobody
      BY <1>0, <1>2, <2>6
    <3>5. DirectoryTypes' /\ Bare' /\ InTheirOrder' /\ OneOfPart' /\ Said'
          /\ GroupIsLast'
      BY <1>0, <1>7, <2>2, <2>6, <3>1, <3>2, <3>3, <3>4
    <3>6. NameIsSet' /\ PictureIsLast'
      BY <2>5, <3>1, <3>2
    <3>. QED BY <3>5, <3>6 DEF DirectoryInv
  <2>7. CASE /\ c.event.kind # "contacts.upsert"
             /\ directory' = [directory EXCEPT !.contact = TRUE, !.picture = c.val,
                                     !.name = IF c.event.val # Nobody THEN c.event.val ELSE @]
             /\ dmarks' = [dmarks EXCEPT !["contact"] = IF c.event.val # Nobody THEN @ \ {"known"} ELSE @]
    <3>1. /\ directory' \in Kepts /\ directory'.chat = directory.chat /\ directory'.on = directory.on /\ directory'.label = directory.label
          /\ directory'.group = directory.group /\ directory'.contact = TRUE /\ directory'.picture = c.val
          /\ directory'.name = IF c.event.val # Nobody THEN c.event.val ELSE directory.name
      BY <1>0, <1>2, <2>3, <2>7 DEF Kepts
    <3>2. /\ dmarks' \in [D!Parts -> SUBSET {"met", "dropped", "failed", "known", "revived"}]
          /\ \A p \in D!Parts : p # "contact" => dmarks'[p] = dmarks[p]
          /\ dmarks'["contact"] = IF c.event.val # Nobody THEN dmarks["contact"] \ {"known"} ELSE dmarks["contact"]
      BY <1>0, <2>7 DEF D!Parts
    <3>3. (Clean("contact")' => Clean("contact")) /\ ("met" \in dmarks["contact"] => "met" \in dmarks'["contact"])
      BY <3>2 DEF Clean
    <3>4. c.event.val # Nobody => Kept("name", Nobody, c.event.val)'
      BY <3>1 DEF Kept
    <3>5. c.event.val = Nobody /\ Kept("name", Nobody, account.name) => Kept("name", Nobody, account.name)'
      BY <1>0, <1>1, <3>1, <3>2 DEF Kept
    <3>6. DirectoryTypes' /\ Bare' /\ InTheirOrder' /\ OneOfPart' /\ Said'
          /\ GroupIsLast'
      BY <1>7, <2>2, <3>1, <3>2, <3>3, <3>4, <3>5
    <3>7. NameIsSet' /\ PictureIsLast'
      BY <2>5, <3>1, <3>3
    <3>. QED BY <3>6, <3>7 DEF DirectoryInv
  <2>. QED BY <1>10, <2>6, <2>7 DEF D!UpdateContact
<1>. QED BY <1>8, <1>9, <1>10

(* The handlers of a group.                                                 *)
LEMMA GroupKeeps ==
  ASSUME DirectoryGiven, DirectoryInv, NEW c \in started, c.event.part = "group",
         D!FindParticipants(c) \/ D!FetchGroup(c) \/ D!CacheGroup(c)
  PROVE  DirectoryInv'
<1>0. /\ c \in Handlings /\ c.event \in Changes /\ directory \in Kepts
      /\ (directory.on # {} => directory.chat) /\ (~directory.contact => directory.name = Nobody)
      /\ dmarks \in [D!Parts -> SUBSET {"met", "dropped", "failed", "known", "revived"}]
      /\ account \in Phones
  BY DEF DirectoryInv, DirectoryTypes, Handlings, Bare
<1>1. UNCHANGED <<inbox, account, events>>
  BY DEF D!FindParticipants, D!FetchGroup, D!CacheGroup, D!Keep
<1>2. \A a \in Aspects, l \in Labels \cup {Nobody} : ~Sets(c.event, a, l)
  BY <1>0, SetsItsPart
<1>3. "met" \notin dmarks["group"] => \A x \in started : x.event.part = "group" => x = c
  BY AloneOfPart
<1>4. Reported' = Reported
  BY <1>1 DEF Reported
<1>5. ASSUME NEW Left \in SUBSET Handlings, \A d \in Left : d.event = c.event, \A d, e \in Left : d = e,
             started' = (started \ {c}) \cup Left, directory' \in Kepts,
             directory'.chat = directory.chat, directory'.on = directory.on, directory'.label = directory.label,
             directory'.contact = directory.contact, directory'.name = directory.name, directory'.picture = directory.picture,
             dmarks' \in [D!Parts -> SUBSET {"met", "dropped", "failed", "known", "revived"}],
             \A p \in D!Parts : p # "group" => dmarks'[p] = dmarks[p],
             "met" \in dmarks["group"] => "met" \in dmarks'["group"]
      PROVE  DirectoryTypes' /\ Bare' /\ InTheirOrder' /\ OneOfPart' /\ Said' /\ NameIsSet' /\ PictureIsLast'
  <2>1. dmarks'["contact"] = dmarks["contact"] /\ dmarks'["label"] = dmarks["label"] /\ dmarks'["chat"] = dmarks["chat"]
    BY <1>5 DEF D!Parts
  <2>2. c.event.part # "contact"
    OBVIOUS
  <2>3. NameIsSet' /\ PictureIsLast'
    BY <1>0, <1>1, <1>5, <2>1, <2>2, ContactRests
  <2>4. ASSUME NEW a \in Aspects, NEW l \in Labels \cup {Nobody}, Kept(a, l, Held(a, l))
        PROVE  Kept(a, l, Held(a, l))'
    <3>1. account' = account
      BY <1>1
    <3>2. /\ directory'.chat = directory.chat /\ directory'.on = directory.on /\ directory'.label = directory.label
          /\ directory'.contact = directory.contact /\ directory'.name = directory.name
      BY <1>5
    <3>. QED BY <2>1, <2>4, <3>1, <3>2 DEF Kept, Held, Aspects
  <2>5. \A a \in Aspects, l \in Labels \cup {Nobody} :
          Clean(PartOf(a))' =>
            /\ Left = {} /\ Sets(c.event, a, l) => Kept(a, l, Gives(c.event, a))'
            /\ ~Sets(c.event, a, l) /\ Kept(a, l, Held(a, l)) => Kept(a, l, Held(a, l))'
    BY <1>2, <2>4
  <2>6. \A p \in D!Parts : "met" \in dmarks[p] => "met" \in dmarks'[p]
    BY <1>5
  <2>7. \A p \in {"chat", "label", "contact"} : Clean(p)' => Clean(p)
    BY <2>1 DEF Clean
  <2>8. (directory'.on # {} => directory'.chat) /\ (~directory'.contact => directory'.name = Nobody)
    BY <1>0, <1>5
  <2>9. DirectoryTypes' /\ Bare' /\ InTheirOrder' /\ OneOfPart' /\ Said'
    BY <1>1, <1>5, <2>5, <2>6, <2>7, <2>8, Moves
  <2>. QED BY <2>3, <2>9
<1>6. CASE D!FindParticipants(c)
  <2>. DEFINE d == [c EXCEPT !.pc = "fetch", !.val = Nobody]
  <2>1. started' = (started \ {c}) \cup {d} /\ UNCHANGED <<directory, dmarks>>
    BY <1>6 DEF D!FindParticipants, D!Goto
  <2>2. d \in Handlings /\ d.event = c.event /\ d.pc = "fetch"
    <3>1. "fetch" \in {"find", "create", "picture", "participants", "fetch", "write"} /\ Nobody \in Nat \cup {Nobody}
      OBVIOUS
    <3>. QED BY <1>0, <3>1 DEF Handlings
  <2>. HIDE DEF d
  <2>3. {d} \in SUBSET Handlings /\ (\A e \in {d} : e.event = c.event) /\ \A e, f \in {d} : e = f
    BY <2>2
  <2>4. DirectoryTypes' /\ Bare' /\ InTheirOrder' /\ OneOfPart' /\ Said' /\ NameIsSet'
        /\ PictureIsLast'
    BY <1>0, <1>5, <2>1, <2>3
  <2>5. GroupIsLast'
    BY <1>3, <2>1, <2>2 DEF GroupIsLast
  <2>. QED BY <2>4, <2>5 DEF DirectoryInv
<1>7. CASE D!FetchGroup(c)
  <2>0. UNCHANGED directory
    BY <1>7 DEF D!FetchGroup
  <2>1. CASE D!Goto(c, "write", account.group) /\ dmarks' = [dmarks EXCEPT !["group"] = @ \cap {"met"}]
    <3>. DEFINE d == [c EXCEPT !.pc = "write", !.val = account.group]
    <3>1. started' = (started \ {c}) \cup {d}
      BY <2>1 DEF D!Goto
    <3>2. d \in Handlings /\ d.event = c.event /\ d.val = account.group
      <4>1. account.group \in Nat \cup {Nobody}
        BY <1>0 DEF Phones
      <4>2. "write" \in {"find", "create", "picture", "participants", "fetch", "write"}
        OBVIOUS
      <4>. QED BY <1>0, <4>1, <4>2 DEF Handlings
    <3>. HIDE DEF d
    <3>3. {d} \in SUBSET Handlings /\ (\A e \in {d} : e.event = c.event) /\ \A e, f \in {d} : e = f
      BY <3>2
    <3>4. /\ dmarks' \in [D!Parts -> SUBSET {"met", "dropped", "failed", "known", "revived"}]
          /\ \A p \in D!Parts : p # "group" => dmarks'[p] = dmarks[p]
          /\ "met" \in dmarks["group"] => "met" \in dmarks'["group"]
      BY <1>0, <2>1 DEF D!Parts
    <3>5. DirectoryTypes' /\ Bare' /\ InTheirOrder' /\ OneOfPart' /\ Said' /\ NameIsSet'
          /\ PictureIsLast'
      BY <1>0, <1>5, <2>0, <3>1, <3>3, <3>4
    <3>6. dmarks'["group"] = {} => \A x \in started' : x.event.part = "group" => x = d
      BY <1>3, <3>1, <3>4
    <3>7. GroupIsLast'
      BY <1>1, <3>1, <3>2, <3>6 DEF GroupIsLast
    <3>. QED BY <3>5, <3>7 DEF DirectoryInv
  <2>2. CASE D!Return(c) /\ dmarks' = [dmarks EXCEPT !["group"] = @ \cup {"failed"}]
    <3>0. PICK Left \in SUBSET Handlings : Left = {}
      OBVIOUS
    <3>1. started' = (started \ {c}) \cup Left /\ (\A d \in Left : d.event = c.event) /\ \A d, e \in Left : d = e
      BY <2>2, <3>0 DEF D!Return
    <3>2. /\ dmarks' \in [D!Parts -> SUBSET {"met", "dropped", "failed", "known", "revived"}]
          /\ \A p \in D!Parts : p # "group" => dmarks'[p] = dmarks[p]
          /\ "met" \in dmarks["group"] => "met" \in dmarks'["group"]
          /\ dmarks'["group"] # {}
      BY <1>0, <2>2 DEF D!Parts
    <3>3. DirectoryTypes' /\ Bare' /\ InTheirOrder' /\ OneOfPart' /\ Said' /\ NameIsSet'
          /\ PictureIsLast'
      BY <1>0, <1>5, <2>0, <3>1, <3>2
    <3>. QED BY <3>2, <3>3 DEF DirectoryInv, GroupIsLast
  <2>. QED BY <1>7, <2>1, <2>2 DEF D!FetchGroup
<1>8. CASE D!CacheGroup(c)
  <2>0. PICK Left \in SUBSET Handlings : Left = {}
    OBVIOUS
  <2>1. /\ c.pc = "write" /\ started' = started \ {c} /\ UNCHANGED dmarks
        /\ directory' = [directory EXCEPT !.group = c.val, !.old = FALSE]
    BY <1>8 DEF D!CacheGroup, D!At, D!Return
  <2>2. started' = (started \ {c}) \cup Left /\ (\A d \in Left : d.event = c.event) /\ \A d, e \in Left : d = e
    BY <2>0, <2>1
  <2>3. c.val \in Nat \cup {Nobody}
    BY <1>0 DEF Handlings
  <2>4. /\ directory' \in Kepts /\ directory'.chat = directory.chat /\ directory'.on = directory.on /\ directory'.label = directory.label
        /\ directory'.contact = directory.contact /\ directory'.name = directory.name /\ directory'.picture = directory.picture
        /\ directory'.group = c.val
    BY <1>0, <2>1, <2>3 DEF Kepts
  <2>5. DirectoryTypes' /\ Bare' /\ InTheirOrder' /\ OneOfPart' /\ Said' /\ NameIsSet'
        /\ PictureIsLast'
    BY <1>0, <1>5, <2>1, <2>2, <2>4
  <2>6. dmarks["group"] = {} /\ (\A e \in Reported : e.part # "group") => c.val = account.group
    BY <2>1 DEF DirectoryInv, GroupIsLast
  <2>7. GroupIsLast'
    BY <1>1, <1>3, <1>4, <2>1, <2>4, <2>6 DEF GroupIsLast
  <2>. QED BY <2>5, <2>7 DEF DirectoryInv
<1>. QED BY <1>6, <1>7, <1>8

(* A handler that fails.                                                    *)
LEMMA FailureKeeps ==
  ASSUME DirectoryGiven, DirectoryInv, NEW c \in started, D!Fails(c)
  PROVE  DirectoryInv'
<1>0. /\ c \in Handlings /\ c.event \in Changes /\ c.event.part \in D!Parts /\ directory \in Kepts
      /\ (directory.on # {} => directory.chat) /\ (~directory.contact => directory.name = Nobody)
      /\ dmarks \in [D!Parts -> SUBSET {"met", "dropped", "failed", "known", "revived"}]
  BY DEF DirectoryInv, DirectoryTypes, Handlings, Bare
<1>1. PICK Left \in SUBSET Handlings : Left = {}
  OBVIOUS
<1>2. UNCHANGED <<inbox, account, events, directory>>
  BY DEF D!Fails
<1>3. started' = (started \ {c}) \cup Left /\ (\A d \in Left : d.event = c.event) /\ \A d, e \in Left : d = e
  BY <1>1 DEF D!Fails, D!Return
<1>4. dmarks' = [dmarks EXCEPT ![c.event.part] = @ \cup {"failed"}]
  BY DEF D!Fails
<1>5. PICK q \in D!Parts : q = c.event.part
  BY <1>0
<1>6. /\ dmarks' \in [D!Parts -> SUBSET {"met", "dropped", "failed", "known", "revived"}]
      /\ \A p \in D!Parts : p # q => dmarks'[p] = dmarks[p]
      /\ \A p \in D!Parts : dmarks[p] \subseteq dmarks'[p]
      /\ "failed" \in dmarks'[q]
  BY <1>0, <1>4, <1>5
<1>7. ~Clean(q)'
  BY <1>6 DEF Clean
<1>8. \A p \in {"chat", "label", "contact"} : p \in D!Parts /\ (Clean(p)' => Clean(p))
  BY <1>6 DEF Clean, D!Parts
<1>9. ASSUME NEW a \in Aspects, NEW l \in Labels \cup {Nobody}, Clean(PartOf(a))'
      PROVE  /\ Left = {} /\ Sets(c.event, a, l) => Kept(a, l, Gives(c.event, a))'
             /\ ~Sets(c.event, a, l) /\ Kept(a, l, Held(a, l)) => Kept(a, l, Held(a, l))'
  <2>1. PartOf(a) # q
    BY <1>7, <1>9
  <2>2. ~Sets(c.event, a, l)
    BY <1>0, <1>5, <2>1, SetsItsPart
  <2>3. (a = "label" => dmarks'["label"] = dmarks["label"]) /\ (a = "name" => dmarks'["contact"] = dmarks["contact"])
    BY <1>6, <2>1 DEF PartOf, D!Parts
  <2>4. Kept(a, l, Held(a, l)) => Kept(a, l, Held(a, l))'
    BY <1>2, <2>3 DEF Kept, Held, Aspects
  <2>. QED BY <2>2, <2>4
<1>10. DirectoryTypes' /\ Bare' /\ InTheirOrder' /\ OneOfPart' /\ Said'
  <2>1. directory' \in Kepts /\ (directory'.on # {} => directory'.chat) /\ (~directory'.contact => directory'.name = Nobody)
    BY <1>0, <1>2
  <2>2. \A p \in D!Parts : "met" \in dmarks[p] => "met" \in dmarks'[p]
    BY <1>6
  <2>3. \A p \in {"chat", "label", "contact"} : Clean(p)' => Clean(p)
    BY <1>8
  <2>4. \A a \in Aspects, l \in Labels \cup {Nobody} : Clean(PartOf(a))' =>
             /\ Left = {} /\ Sets(c.event, a, l) => Kept(a, l, Gives(c.event, a))'
             /\ ~Sets(c.event, a, l) /\ Kept(a, l, Held(a, l)) => Kept(a, l, Held(a, l))'
    BY <1>9
  <2>. QED BY <1>2, <1>3, <1>6, <2>1, <2>2, <2>3, <2>4, Moves
<1>11. NameIsSet' /\ PictureIsLast'
  <2>1. CASE q = "contact"
    BY <1>7, <2>1 DEF NameIsSet, PictureIsLast
  <2>2. CASE q # "contact"
    <3>1. dmarks'["contact"] = dmarks["contact"] /\ c.event.part # "contact"
      BY <1>5, <1>6, <2>2 DEF D!Parts
    <3>. QED BY <1>0, <1>2, <1>3, <3>1, ContactRests
  <2>. QED BY <2>1, <2>2
<1>12. GroupIsLast'
  <2>1. CASE q = "group"
    <3>1. dmarks'["group"] # {}
      BY <1>6, <2>1
    <3>. QED BY <3>1 DEF GroupIsLast
  <2>2. CASE q # "group"
    <3>1. dmarks'["group"] = dmarks["group"] /\ c.event.part # "group"
      BY <1>5, <1>6, <2>2 DEF D!Parts
    <3>. QED BY <1>2, <1>3, <3>1, GroupRests
  <2>. QED BY <2>1, <2>2
<1>. QED BY <1>10, <1>11, <1>12 DEF DirectoryInv

(* A message to the group, which may fetch what it is.                      *)
LEMMA SendKeeps ==
  ASSUME DirectoryGiven, DirectoryInv, D!Send
  PROVE  DirectoryInv'
<1>0. /\ started \subseteq Handlings /\ events \in Nat /\ \A i \in DOMAIN inbox : inbox[i] \subseteq Changes
      /\ dmarks \in [D!Parts -> SUBSET {"met", "dropped", "failed", "known", "revived"}]
      /\ InTheirOrder
  BY DEF DirectoryInv, DirectoryTypes
<1>1. UNCHANGED <<inbox, account, directory>> /\ events' = events + 1
  BY DEF D!Send
<1>2. Reported' = Reported /\ \A e \in Reported : e \in Changes /\ e.n \in Nat
  BY <1>0, <1>1 DEF Reported, Changes
<1>3. \A x \in started : x.event.n \in Nat /\ x.event \in Changes
  BY <1>0 DEF Handlings, Changes
<1>4. CASE UNCHANGED <<started, dmarks>>
  <2>1. DirectoryTypes' /\ Bare' /\ OneOfPart' /\ NameIsSet'
    BY <1>0, <1>1, <1>4 DEF DirectoryInv, DirectoryTypes, Bare, OneOfPart, NameIsSet,
           Clean
  <2>2. \A e \in Reported : e.n <= events + 1
    BY <1>0, <1>2 DEF InTheirOrder
  <2>3. \A x \in started : x.event.n <= events + 1
    BY <1>0, <1>3 DEF InTheirOrder
  <2>4. InTheirOrder'
    BY <1>0, <1>1, <1>2, <1>4, <2>2, <2>3 DEF InTheirOrder
  <2>5. Unhandled' = Unhandled
    BY <1>2, <1>4 DEF Unhandled
  <2>6. Said'
    <3>. SUFFICES ASSUME NEW a \in Aspects, NEW l \in Labels \cup {Nobody}, Clean(PartOf(a))'
                  PROVE  LastWord(a, l)' /\ RestWord(a, l)'
      BY DEF Said
    <3>1. LastWord(a, l) /\ RestWord(a, l)
      BY <1>4 DEF DirectoryInv, Said, Clean, PartOf
    <3>2. LastWord(a, l)'
      BY <1>1, <2>5, <3>1 DEF LastWord, Held
    <3>3. RestWord(a, l)'
      BY <1>1, <1>4, <2>5, <3>1 DEF RestWord, Kept, Held
    <3>. QED BY <3>2, <3>3
  <2>7. PictureIsLast' /\ GroupIsLast'
    BY <1>1, <1>2, <1>4, <2>5 DEF DirectoryInv, PictureIsLast, GroupIsLast, Clean
  <2>. QED BY <2>1, <2>4, <2>6, <2>7 DEF DirectoryInv
<1>5. CASE /\ started' = started \cup {[event |-> [n |-> events + 1, kind |-> "send", part |-> "group", val |-> Nobody],
                                   pc |-> "fetch", val |-> Nobody]}
           /\ dmarks' = IF \E c \in started : c.event.part = "group"
                       THEN [dmarks EXCEPT !["group"] = @ \cup {"met"}] ELSE dmarks
  <2>0. PICK e : e = [n |-> events + 1, kind |-> "send", part |-> "group", val |-> Nobody]
    OBVIOUS
  <2>1. PICK d : d = [event |-> e, pc |-> "fetch", val |-> Nobody]
    OBVIOUS
  <2>2. e \in Changes
    <3>1. e \in [n : Nat, kind : {"presence.update"} \cup UNION {KindsOf[p] : p \in D!Parts},
                 part : D!Parts \cup {Nobody}, val : Nat \cup Labels \cup {Nobody}]
      <4>1. "send" \in KindsOf["group"] /\ "group" \in D!Parts
        BY DEF KindsOf, D!Parts
      <4>2. "send" \in {"presence.update"} \cup UNION {KindsOf[p] : p \in D!Parts}
        BY <4>1
      <4>. QED BY <1>0, <2>0, <4>1, <4>2
    <3>2. e.kind = "send" /\ e.part = "group"
      BY <2>0
    <3>3. \A p \in D!Parts : e.part = p <=> e.kind \in KindsOf[p]
      BY <3>2 DEF KindsOf, D!Parts, D!Associations, D!GroupEvents
    <3>. QED BY <3>1, <3>2, <3>3 DEF Changes, D!Associations
  <2>3. e.kind = "send" /\ e.part = "group" /\ e.n = events + 1
    BY <2>0
  <2>4. d.event = e /\ d.pc = "fetch" /\ d \in Handlings
    <3>1. "fetch" \in {"find", "create", "picture", "participants", "fetch", "write"} /\ Nobody \in Nat \cup {Nobody}
      OBVIOUS
    <3>2. e \in {x \in Changes : x.part \in D!Parts}
      BY <2>2, <2>3 DEF D!Parts
    <3>. QED BY <2>1, <3>1, <3>2 DEF Handlings
  <2>5. started' = started \cup {d}
    BY <1>5, <2>0, <2>1
  <2>6. /\ dmarks' \in [D!Parts -> SUBSET {"met", "dropped", "failed", "known", "revived"}]
        /\ \A p \in D!Parts : p # "group" => dmarks'[p] = dmarks[p]
        /\ dmarks["group"] \subseteq dmarks'["group"]
        /\ "met" \notin dmarks'["group"] =>
             dmarks'["group"] = dmarks["group"] /\ \A x \in started : x.event.part # "group"
    BY <1>0, <1>5 DEF D!Parts
  <2>7. dmarks'["contact"] = dmarks["contact"] /\ dmarks'["label"] = dmarks["label"] /\ dmarks'["chat"] = dmarks["chat"]
    BY <2>6 DEF D!Parts
  <2>8. DirectoryTypes' /\ Bare'
    BY <1>0, <1>1, <2>4, <2>5, <2>6 DEF DirectoryInv, DirectoryTypes, Bare
  <2>9. InTheirOrder'
    <3>1. \A f \in Reported : f.n <= events + 1 /\ f.kind # "send"
      BY <1>0, <1>2 DEF InTheirOrder
    <3>2. \A x \in started' : x.event.n <= events + 1
      BY <1>0, <1>3, <2>3, <2>4, <2>5 DEF InTheirOrder
    <3>3. \A x \in started', f \in Reported : x.event.part # "group" => x.event.n < f.n
      BY <1>0, <2>3, <2>4, <2>5 DEF InTheirOrder
    <3>4. \A i, j \in DOMAIN inbox : i < j => \A f \in inbox[i], g \in inbox[j] : f.n < g.n
      BY <1>0 DEF InTheirOrder
    <3>. QED BY <1>1, <1>2, <3>1, <3>2, <3>3, <3>4 DEF InTheirOrder
  <2>10. OneOfPart'
    <3>. SUFFICES ASSUME NEW x \in started', NEW y \in started', x.event.part = y.event.part,
                         "met" \notin dmarks'[x.event.part]
                  PROVE  x = y
      BY DEF OneOfPart
    <3>1. x.event.part \in D!Parts
      BY <2>8 DEF DirectoryTypes, Handlings
    <3>2. CASE x.event.part = "group"
      BY <2>3, <2>4, <2>5, <2>6, <3>2
    <3>3. CASE x.event.part # "group"
      <4>1. x \in started /\ y \in started
        BY <2>3, <2>4, <2>5, <3>3
      <4>2. "met" \notin dmarks[x.event.part]
        BY <2>6, <3>1, <3>3
      <4>. QED BY <4>1, <4>2 DEF DirectoryInv, OneOfPart
    <3>. QED BY <3>2, <3>3
  <2>11. Unhandled' = Unhandled \cup {e}
    BY <1>2, <2>4, <2>5 DEF Unhandled
  <2>12. \A a \in Aspects, l \in Labels \cup {Nobody} : ~Sets(e, a, l)
    BY <2>2, <2>3, SetsItsPart
  <2>13. Said'
    <3>. SUFFICES ASSUME NEW a \in Aspects, NEW l \in Labels \cup {Nobody}, Clean(PartOf(a))'
                  PROVE  LastWord(a, l)' /\ RestWord(a, l)'
      BY DEF Said
    <3>1. Clean(PartOf(a))' <=> Clean(PartOf(a))
      BY <2>7 DEF Clean, PartOf, Aspects
    <3>2. LastWord(a, l) /\ RestWord(a, l)
      BY <3>1 DEF DirectoryInv, Said
    <3>3. \A f : Sets(f, a, l) => (f \in Unhandled' <=> f \in Unhandled)
      BY <2>11, <2>12
    <3>4. Held(a, l)' = Held(a, l)
      BY <1>1 DEF Held
    <3>5. LastWord(a, l)'
      BY <3>2, <3>3, <3>4 DEF LastWord
    <3>6. Kept(a, l, Held(a, l)) => Kept(a, l, Held(a, l))'
      BY <1>1, <2>7 DEF Kept, Held, Aspects
    <3>7. RestWord(a, l)'
      BY <3>2, <3>3, <3>6 DEF RestWord
    <3>. QED BY <3>5, <3>7
  <2>14. NameIsSet'
    BY <1>1, <2>3, <2>4, <2>5, <2>7 DEF DirectoryInv, NameIsSet, Clean
  <2>15. PictureIsLast'
    BY <1>1, <1>2, <2>3, <2>4, <2>5, <2>7, <2>11 DEF DirectoryInv, PictureIsLast, Clean
  <2>16. GroupIsLast'
    BY <2>3, <2>4, <2>5, <2>6 DEF GroupIsLast
  <2>. QED BY <2>8, <2>9, <2>10, <2>13, <2>14, <2>15, <2>16 DEF DirectoryInv
<1>. QED BY <1>4, <1>5 DEF D!Send

(* An hour that passes, and nothing at all.                                 *)
LEMMA HourKeeps ==
  ASSUME DirectoryGiven, DirectoryInv, UNCHANGED <<inbox, started, account, events, dmarks>>,
         directory' \in Kepts, directory'.chat = directory.chat, directory'.on = directory.on, directory'.label = directory.label,
         directory'.contact = directory.contact, directory'.name = directory.name, directory'.picture = directory.picture,
         directory'.group = directory.group
  PROVE  DirectoryInv'
<1>1. Reported' = Reported /\ Unhandled' = Unhandled
  BY DEF Reported, Unhandled
<1>2. DirectoryTypes' /\ Bare'
  BY DEF DirectoryInv, DirectoryTypes, Bare
<1>3. InTheirOrder' /\ OneOfPart' /\ NameIsSet'
  BY <1>1 DEF DirectoryInv, InTheirOrder, OneOfPart, NameIsSet, Clean
<1>4. Said'
  <2>. SUFFICES ASSUME NEW a \in Aspects, NEW l \in Labels \cup {Nobody}, Clean(PartOf(a))'
                PROVE  LastWord(a, l)' /\ RestWord(a, l)'
    BY DEF Said
  <2>1. LastWord(a, l) /\ RestWord(a, l)
    BY DEF DirectoryInv, Said, Clean, PartOf
  <2>2. LastWord(a, l)'
    BY <1>1, <2>1 DEF LastWord, Held
  <2>3. Kept(a, l, Held(a, l)) => Kept(a, l, Held(a, l))'
    BY DEF Kept, Held
  <2>4. RestWord(a, l)'
    BY <1>1, <2>1, <2>3 DEF RestWord
  <2>. QED BY <2>2, <2>4
<1>5. PictureIsLast' /\ GroupIsLast'
  BY <1>1 DEF DirectoryInv, PictureIsLast, GroupIsLast, Clean
<1>. QED BY <1>2, <1>3, <1>4, <1>5 DEF DirectoryInv

(* Every step keeps the invariant.                                          *)
LEMMA DirectoryStep ==
  ASSUME DirectoryGiven, DirectoryInv, [D!Next]_D!vars
  PROVE  DirectoryInv'
<1>1. CASE UNCHANGED D!vars
  <2>1. UNCHANGED <<inbox, started, account, events, dmarks>> /\ directory' = directory
    BY <1>1 DEF D!vars
  <2>2. directory \in Kepts
    BY DEF DirectoryInv, DirectoryTypes
  <2>. QED BY <2>1, <2>2, HourKeeps
<1>2. CASE D!HourPasses
  <2>1. UNCHANGED <<inbox, started, account, events, dmarks>> /\ directory' = [directory EXCEPT !.old = TRUE]
    BY <1>2 DEF D!HourPasses, D!Keep
  <2>2. directory \in Kepts
    BY DEF DirectoryInv, DirectoryTypes
  <2>3. /\ directory' \in Kepts /\ directory'.chat = directory.chat /\ directory'.on = directory.on /\ directory'.label = directory.label
        /\ directory'.contact = directory.contact /\ directory'.name = directory.name /\ directory'.picture = directory.picture
        /\ directory'.group = directory.group
    BY <2>1, <2>2 DEF Kepts
  <2>. QED BY <2>1, <2>3, HourKeeps
<1>3. CASE D!Send
  BY <1>3, SendKeeps
<1>4. CASE D!Dispatch
  BY <1>4, DispatchKeeps
<1>5. CASE \/ D!ChatBegins \/ D!ChatChanges \/ D!ChatDeleted
           \/ \E l \in Labels : D!LabelOn(l) \/ D!LabelOff(l)
           \/ D!LabelEdited \/ D!LabelDeleted \/ D!ContactNamed \/ D!PictureChanged
           \/ D!GroupChanged \/ D!Presence
  BY <1>5, PhoneKeeps
<1>6. ASSUME NEW c \in started,
             \/ D!UpsertChat(c) \/ D!UpdateChat(c) \/ D!DeleteChat(c) \/ D!Associate(c) \/ D!EditLabel(c)
             \/ D!UpsertContact(c) \/ D!FetchPicture(c) \/ D!UpdateContact(c)
             \/ D!FindParticipants(c) \/ D!FetchGroup(c) \/ D!CacheGroup(c) \/ D!Fails(c)
      PROVE  DirectoryInv'
  <2>1. CASE D!UpsertChat(c) \/ D!UpdateChat(c) \/ D!DeleteChat(c) \/ D!Associate(c)
    BY <2>1, ChatKeeps
  <2>2. CASE D!EditLabel(c)
    BY <2>2, LabelKeeps
  <2>3. CASE D!UpsertContact(c) \/ D!FetchPicture(c) \/ D!UpdateContact(c)
    BY <2>3, ContactKeeps
  <2>4. CASE D!FindParticipants(c) \/ D!FetchGroup(c) \/ D!CacheGroup(c)
    <3>1. c.event \in Changes
      BY DEF DirectoryInv, DirectoryTypes, Handlings
    <3>2. c.event.kind \in KindsOf["group"]
      BY <2>4 DEF D!FindParticipants, D!FetchGroup, D!CacheGroup, D!At, KindsOf,
             D!GroupEvents
    <3>3. c.event.part = "group"
      BY <3>1, <3>2 DEF Changes, D!Parts
    <3>. QED BY <2>4, <3>3, GroupKeeps
  <2>5. CASE D!Fails(c)
    BY <2>5, FailureKeeps
  <2>. QED BY <1>6, <2>1, <2>2, <2>3, <2>4, <2>5
<1>. QED BY <1>1, <1>2, <1>3, <1>4, <1>5, <1>6 DEF D!Next

(* Whatever order the handlers of the phone's changes run in and whatever   *)
(* fails, what an instance keeps of a chat, its labels, a label, a contact  *)
(* and a group is what the phone holds when nothing is under way, save      *)
(* where the property excepts it: for any labels, changes and failures.     *)
THEOREM DirectoryFollows == MCSpec => []DirectoryAgrees
PROOF
  <1>0. DirectoryGiven
    BY MessagesAssumption DEF DirectoryGiven, D!Parts
  <1>1. MCInit => DirectoryInv
    BY <1>0, DirectoryInit DEF MCInit
  <1>2. DirectoryInv /\ [MCNext]_<<scene, vars, cvars, svars, dvars, avars, evars>> => DirectoryInv'
    <2>1. [MCNext]_<<scene, vars, cvars, svars, dvars, avars, evars>> => [D!Next]_D!vars
      BY DEF MCNext, dvars, D!vars
    <2>. QED BY <1>0, <2>1, DirectoryStep
  <1>3. DirectoryInv => DirectoryAgrees
    BY <1>0, DirectoryEntails DEF DirectoryAgrees
  <1>. QED BY <1>1, <1>2, <1>3, PTL DEF MCSpec

-----------------------------------------------------------------------------
(* None is no contact and no message.                                       *)
CloudGiven == Nobody \notin Contacts /\ Nobody \notin Messages

(* What the type says of messages and handlers.                             *)
Exchanged == [with : Contacts \cup {Nobody}, own : BOOLEAN, kind : {"text", "media", "other"}]
Works == [pc : C!Pcs, msg : Messages \cup {Nobody}, items : Seq(Messages), jid : Contacts \cup {Nobody}]

CloudTypes ==
  /\ channel \in {"meta", "evolution"} /\ s3 \in BOOLEAN
  /\ sent \in [Messages -> Exchanged]
  /\ phoneNumber \in Contacts \cup {Nobody}
  /\ handlers \in [Handlers -> Works]
  /\ rows \in [Messages -> Nat] /\ ctold \in [Messages -> Nat]
  /\ filed \in [Messages -> SUBSET (Contacts \cup {Nobody})]
  /\ statuses \in [Messages -> [reported : 0..1, recorded : 0..1]]
  /\ cmarks \in [Messages -> SUBSET C!Marks]

(* What a handler works on was exchanged, and which steps it takes depends  *)
(* on the channel and on whether it works on a message or on statuses.      *)
WorkOK(k) ==
  /\ k.pc = "idle" => k = C!Idle
  /\ k.msg = Nobody => k.pc \in {"idle", "connect", "settings", "status"}
  /\ k.pc = "status" => k.msg = Nobody
  /\ k.msg # Nobody => k.items = <<>> /\ sent[k.msg].with # Nobody
  /\ k.pc \in {"upload", "send", "save"} => sent[k.msg].own
  /\ k.pc = "chat" => k.jid \in contact
  /\ k.pc \in {"connect", "settings"} /\ k.msg = Nobody => k.items # <<>>
  /\ ~C!Meta => k.items = <<>> /\ k.pc \notin {"settings", "media", "status"}
  /\ C!Meta => k.pc \notin {"contact", "create_contact", "chat", "upload"}
  /\ \A n \in DOMAIN k.items : sent[k.items[n]].with # Nobody /\ statuses[k.items[n]].reported = 1

(* Nothing is said of what was not exchanged.                               *)
NothingOf(m) == sent[m].with = Nobody =>
  sent[m] = C!Unsent /\ rows[m] = 0 /\ ctold[m] = 0 /\ filed[m] = {}
NothingSaid == \A m \in Messages : NothingOf(m)

Unmixed(m) == cmarks[m] \cap {"overtaken", "mixed"} = {}

(* A handler that files knows the contact; one that is to read phoneNumber  *)
(* finds it there; and statuses that come together are of one contact.      *)
KnowsContact(k) ==
  /\ k.pc \notin {"idle", "connect", "settings", "status"} =>
       k.jid = sent[k.msg].with \/ (C!Meta /\ ~Unmixed(k.msg))
  /\ k.pc = "settings" /\ k.msg # Nobody /\ Unmixed(k.msg) => phoneNumber = sent[k.msg].with
  /\ \A n \in DOMAIN k.items :
       Unmixed(k.items[n]) => IF k.pc = "connect" THEN sent[k.items[n]].with = sent[k.items[1]].with
                              ELSE phoneNumber = sent[k.items[n]].with

FiledOf(m) == Unmixed(m) => filed[m] \subseteq {sent[m].with}
FiledRight == \A m \in Messages : FiledOf(m)

(* How often a message was told and stored, at each step of its handler and *)
(* when it is over.                                                         *)
InS3(m) == IF C!Meta /\ C!Media(m) /\ s3 THEN 1 ELSE 0
Stage(k, m) ==
  CASE k.pc \in {"connect", "settings"} -> ctold[m] = 0 /\ rows[m] = 0 /\ ~sent[m].own
    [] k.pc = "media" -> ctold[m] = 0 /\ rows[m] = 0 /\ ~sent[m].own /\ C!Media(m) /\ s3
    [] k.pc = "tell" -> ctold[m] = 0 /\ rows[m] = InS3(m) /\ ~sent[m].own /\ (C!Meta => C!Recognised(m))
    [] k.pc = "bots" -> ctold[m] = 1 /\ rows[m] = InS3(m) /\ ~sent[m].own /\ (C!Meta => C!Recognised(m))
    [] k.pc \in {"contact", "create_contact", "chat"} -> ctold[m] = 1 /\ rows[m] = 1
    [] k.pc \in {"upload", "send"} -> ctold[m] = 0 /\ rows[m] = 0 /\ sent[m].own /\ C!Recognised(m)
    [] k.pc = "save" -> ctold[m] = 1 /\ rows[m] = 0 /\ sent[m].own /\ C!Recognised(m)
    [] OTHER -> FALSE
Over(m) ==
  IF C!Meta /\ ~C!Recognised(m) THEN ctold[m] = 0 /\ rows[m] = 0
  ELSE ctold[m] = 1 /\ rows[m] = IF C!Meta /\ C!Media(m) /\ ~sent[m].own /\ ~s3 THEN 0 ELSE 1
Plain(m) == sent[m].with # Nobody /\ cmarks[m] \cap {"behind", "twice", "cut"} = {}
CountOf(m) == Plain(m) =>
  /\ \A h, g \in Handlers : C!Msg(h) = m /\ C!Msg(g) = m => h = g
  /\ \A h \in Handlers : C!Msg(h) = m => Stage(handlers[h], m)
  /\ (\A h \in Handlers : C!Msg(h) # m) => Over(m)
Counts == \A m \in Messages : CountOf(m)

(* A status is recorded, or in a batch, or was excepted.                    *)
RecordedOf(m) ==
  \/ statuses[m].recorded = statuses[m].reported
  \/ cmarks[m] \cap {"early", "cut"} # {}
  \/ \E h \in Handlers : \E n \in DOMAIN handlers[h].items : handlers[h].items[n] = m
Recorded == \A m \in Messages : RecordedOf(m)

(* Who has written has a contact, or will; and a contact has a chat, or     *)
(* will.                                                                    *)
ContactDue == ~C!Meta => \A m \in Messages :
  sent[m].with # Nobody /\ ~sent[m].own =>
    \/ \E h \in Handlers : C!Msg(h) = m
    \/ "cut" \in cmarks[m]
    \/ sent[m].with \in contact
ChatDue == ~C!Meta => \A c \in contact \ chat :
  \/ \E h \in Handlers : C!At(h, "chat") /\ handlers[h].jid = c
  \/ \E n \in Messages : "cut" \in cmarks[n]

CloudInv ==
  /\ CloudTypes /\ NothingSaid
  /\ \A h \in Handlers : WorkOK(handlers[h]) /\ KnowsContact(handlers[h])
  /\ FiledRight /\ Counts /\ Recorded /\ ContactDue /\ ChatDue

(* What the invariant says is what is promised of the channel.              *)
LEMMA CloudEntails == ASSUME CloudGiven, CloudInv PROVE C!FiledUnderContact /\ C!OnceAndStored
<1>1. ASSUME NEW m \in Messages, C!AtRest(m)
      PROVE  (\A h \in Handlers : C!Msg(h) # m) /\ \A h \in Handlers : \A n \in DOMAIN handlers[h].items : handlers[h].items[n] # m
  BY <1>1 DEF C!AtRest, C!Items
<1>2. C!FiledUnderContact
  <2>1. ASSUME NEW m \in Messages, Unmixed(m) PROVE filed[m] \subseteq {sent[m].with}
    BY <2>1 DEF CloudInv, FiledRight, FiledOf
  <2>2. ASSUME NEW m \in Messages, ~C!Meta, sent[m].with # Nobody, ~sent[m].own,
               \A n \in Messages : C!AtRest(n) /\ "cut" \notin cmarks[n]
        PROVE  sent[m].with \in contact \cap chat
    <3>1. sent[m].with \in contact
      BY <1>1, <2>2 DEF CloudInv, ContactDue
    <3>2. \A h \in Handlers : ~C!At(h, "chat")
      <4>. SUFFICES ASSUME NEW h \in Handlers, C!At(h, "chat") PROVE FALSE
        OBVIOUS
      <4>1. C!Msg(h) # Nobody
        BY DEF CloudInv, WorkOK, C!At, C!Msg
      <4>2. C!Msg(h) \in Messages
        BY <4>1 DEF CloudInv, CloudTypes, Works, C!Msg
      <4>. QED BY <1>1, <2>2, <4>2
    <3>. QED BY <2>2, <3>1, <3>2 DEF CloudInv, ChatDue
  <2>. QED BY <2>1, <2>2 DEF C!FiledUnderContact, Unmixed
<1>3. C!OnceAndStored
  <2>1. ASSUME NEW m \in Messages, C!AtRest(m), cmarks[m] \cap {"early", "cut"} = {}
        PROVE  statuses[m].recorded = statuses[m].reported
    BY <1>1, <2>1 DEF CloudInv, Recorded, RecordedOf
  <2>2. ASSUME NEW m \in Messages, sent[m].with # Nobody, C!AtRest(m), cmarks[m] \cap {"behind", "twice", "cut"} = {}
        PROVE  Over(m)
    BY <1>1, <2>2 DEF CloudInv, Counts, CountOf, Plain
  <2>. QED BY <2>1, <2>2 DEF C!OnceAndStored, Over
<1>. QED BY <1>2, <1>3

(* Nothing has been exchanged at first.                                     *)
LEMMA CloudInit == ASSUME CloudGiven, C!Init PROVE CloudInv
<1>1. C!Idle \in Works
  BY DEF C!Idle, Works, C!Pcs
<1>2. CloudTypes
  BY <1>1 DEF C!Init, CloudTypes, Exchanged, C!Unsent, C!Marks
<1>3. \A m \in Messages : sent[m] = C!Unsent /\ sent[m].with = Nobody
  BY DEF C!Init, C!Unsent
<1>4. NothingSaid
  BY <1>3 DEF NothingSaid, NothingOf, C!Init
<1>5. ASSUME NEW h \in Handlers PROVE WorkOK(handlers[h]) /\ KnowsContact(handlers[h])
  <2>1. handlers[h] = C!Idle
    BY DEF C!Init
  <2>2. WorkOK(C!Idle) /\ KnowsContact(C!Idle)
    BY DEF WorkOK, KnowsContact, C!Idle
  <2>. QED BY <2>1, <2>2
<1>6. FiledRight
  BY DEF FiledRight, FiledOf, C!Init
<1>7. Counts
  BY <1>3 DEF Counts, CountOf, Plain
<1>8. Recorded
  BY DEF Recorded, RecordedOf, C!Init
<1>9. ContactDue /\ ChatDue
  BY <1>3 DEF ContactDue, ChatDue, C!Init
<1>. QED BY <1>2, <1>4, <1>5, <1>6, <1>7, <1>8, <1>9 DEF CloudInv

-----------------------------------------------------------------------------
(* What a step leaves of a handler's work and of a message.                 *)
Settled == channel' = channel /\ s3' = s3
MarksGrow == \A n \in Messages : cmarks[n] \subseteq cmarks'[n]
SentGrow == \A n \in Messages : sent[n].with # Nobody => sent'[n] = sent[n]

(* What a handler works on stays right while others file and store.         *)
LEMMA WorkStays ==
  ASSUME CloudInv, NEW k \in Works, WorkOK(k), KnowsContact(k), Settled, MarksGrow, SentGrow,
         phoneNumber' = phoneNumber, contact \subseteq contact',
         \A n \in Messages : statuses[n].reported = 1 => statuses'[n].reported = 1
  PROVE  WorkOK(k)' /\ KnowsContact(k)'
<1>1. \A n \in DOMAIN k.items : k.items[n] \in Messages
  BY DEF Works
<1>2. k.msg \in Messages \cup {Nobody} /\ (k.msg = Nobody \/ k.msg \in Messages)
  BY DEF Works
<1>3. C!Meta' <=> C!Meta
  BY DEF Settled, C!Meta
<1>4. \A n \in DOMAIN k.items : sent'[k.items[n]] = sent[k.items[n]] /\ sent[k.items[n]].with # Nobody
  BY <1>1 DEF WorkOK, SentGrow
<1>5. k.msg # Nobody => sent'[k.msg] = sent[k.msg] /\ sent[k.msg].with # Nobody
  BY <1>2 DEF WorkOK, SentGrow
<1>6. \A n \in Messages : Unmixed(n)' => Unmixed(n)
  BY DEF Unmixed, MarksGrow
<1>7. WorkOK(k)'
  <2>1. k.pc \in {"upload", "send", "save"} => k.msg # Nobody
    BY DEF WorkOK
  <2>. QED BY <1>1, <1>3, <1>4, <1>5, <2>1 DEF WorkOK
<1>8. k.pc \notin {"idle", "connect", "settings", "status"} => k.msg # Nobody
  BY DEF WorkOK
<1>9. k.pc \notin {"idle", "connect", "settings", "status"} =>
        k.jid = sent'[k.msg].with \/ (C!Meta' /\ ~Unmixed(k.msg)')
  BY <1>2, <1>3, <1>5, <1>6, <1>8 DEF KnowsContact
<1>10. k.pc = "settings" /\ k.msg # Nobody /\ Unmixed(k.msg)' => phoneNumber' = sent'[k.msg].with
  BY <1>2, <1>5, <1>6 DEF KnowsContact
<1>11. ASSUME NEW n \in DOMAIN k.items, Unmixed(k.items[n])'
       PROVE  IF k.pc = "connect" THEN sent'[k.items[n]].with = sent'[k.items[1]].with
              ELSE phoneNumber' = sent'[k.items[n]].with
  <2>1. 1 \in DOMAIN k.items
    BY DEF Works
  <2>2. Unmixed(k.items[n])
    BY <1>1, <1>6, <1>11
  <2>. QED BY <1>4, <2>1, <2>2 DEF KnowsContact
<1>. QED BY <1>7, <1>9, <1>10, <1>11 DEF KnowsContact

(* A message no step is about is told and stored as often as before.        *)
LEMMA CountStays ==
  ASSUME CloudInv, NEW m \in Messages, Settled, MarksGrow,
         sent'[m] = sent[m], rows'[m] = rows[m], ctold'[m] = ctold[m],
         \A g \in Handlers : handlers'[g] = handlers[g]
                            \/ (handlers'[g].msg # m /\ handlers[g].msg # m)
  PROVE  CountOf(m)'
<1>1. Plain(m)' => Plain(m)
  BY DEF Plain, MarksGrow
<1>2. C!Meta' <=> C!Meta
  BY DEF Settled, C!Meta
<1>3. Over(m)' <=> Over(m)
  BY <1>2 DEF Over, C!Recognised, C!Media, Settled
<1>4. ASSUME NEW g \in Handlers, handlers'[g] = handlers[g], Stage(handlers[g], m)
      PROVE  Stage(handlers[g], m)'
  BY <1>2, <1>4 DEF Stage, InS3, C!Recognised, C!Media, Settled
<1>5. \A g \in Handlers : C!Msg(g)' = m <=> C!Msg(g) = m
  BY DEF C!Msg
<1>6. \A g \in Handlers : C!Msg(g)' = m => handlers'[g] = handlers[g]
  BY DEF C!Msg
<1>. QED BY <1>1, <1>3, <1>4, <1>5, <1>6 DEF CloudInv, Counts, CountOf

(* The statuses no step is about stay recorded, or in their batch.          *)
LEMMA RecordedStays ==
  ASSUME CloudInv, NEW m \in Messages, MarksGrow, statuses'[m] = statuses[m],
         \A g \in Handlers : handlers'[g].items = handlers[g].items
                            \/ handlers[g].items = <<>>
  PROVE  RecordedOf(m)'
<1>1. ASSUME NEW g \in Handlers, NEW n \in DOMAIN handlers[g].items
      PROVE  handlers'[g].items = handlers[g].items
  BY <1>1
<1>. QED BY <1>1 DEF CloudInv, Recorded, RecordedOf, MarksGrow

-----------------------------------------------------------------------------
(* The records of handlers that are past their reading of phoneNumber.      *)
WorksOn(k, m) == k.msg = m /\ k.items = <<>> /\ k.pc \notin {"idle", "connect", "settings", "status"}
                 /\ (C!Meta => k.pc \notin {"contact", "create_contact", "chat", "upload"})
                 /\ (~C!Meta => k.pc # "media")
Only(f, g, m) == \A n \in Messages \ {m} : f[n] = g[n]

(* A handler takes a step with its message m and becomes k.                 *)
LEMMA Goes ==
  ASSUME CloudGiven, CloudInv, NEW h \in Handlers, NEW m \in Messages, NEW k \in Works,
         handlers[h].msg = m, handlers' = [handlers EXCEPT ![h] = k],
         k = C!Idle \/ WorksOn(k, m),
         Settled, sent' = sent, phoneNumber' = phoneNumber, statuses' = statuses,
         rows' \in [Messages -> Nat], ctold' \in [Messages -> Nat],
         filed' \in [Messages -> SUBSET (Contacts \cup {Nobody})],
         cmarks' \in [Messages -> SUBSET C!Marks],
         Only(rows', rows, m), Only(ctold', ctold, m), Only(filed', filed, m), MarksGrow,
         Unmixed(m) => filed'[m] \subseteq {sent[m].with},
         k # C!Idle => k.jid = sent[m].with \/ (C!Meta /\ ~Unmixed(m)),
         k.pc \in {"upload", "send", "save"} => sent[m].own,
         k.pc = "chat" => k.jid \in contact',
         k # C!Idle /\ Plain(m)' /\ Stage(handlers[h], m) => Stage(k, m)',
         k = C!Idle /\ Plain(m)' /\ Stage(handlers[h], m) => Over(m)',
         contact \subseteq contact',
         k = C!Idle /\ ~C!Meta /\ ~sent[m].own => "cut" \in cmarks'[m] \/ sent[m].with \in contact',
         ~C!Meta => \A c \in contact' \ chat' :
           (k.pc = "chat" /\ k.jid = c) \/ "cut" \in cmarks'[m]
             \/ (c \in contact \ chat /\ ~(C!At(h, "chat") /\ handlers[h].jid = c))
  PROVE  CloudInv'
<1>1. handlers'[h] = k /\ \A g \in Handlers \ {h} : handlers'[g] = handlers[g]
  BY DEF CloudInv, CloudTypes
<1>2. handlers[h] \in Works /\ WorkOK(handlers[h])
  BY DEF CloudInv, CloudTypes
<1>3. m # Nobody /\ sent[m].with # Nobody /\ handlers[h].items = <<>>
  BY <1>2 DEF CloudGiven, WorkOK
<1>4. CloudTypes'
  <2>1. handlers' \in [Handlers -> Works]
    BY DEF CloudInv, CloudTypes
  <2>2. channel' \in {"meta", "evolution"} /\ s3' \in BOOLEAN /\ sent' \in [Messages -> Exchanged]
        /\ phoneNumber' \in Contacts \cup {Nobody}
        /\ statuses' \in [Messages -> [reported : 0..1, recorded : 0..1]]
    BY DEF CloudInv, CloudTypes, Settled
  <2>. QED BY <2>1, <2>2 DEF CloudTypes
<1>5. NothingSaid'
  <2>. SUFFICES ASSUME NEW n \in Messages, sent[n].with = Nobody
                PROVE  sent[n] = C!Unsent /\ rows'[n] = 0 /\ ctold'[n] = 0 /\ filed'[n] = {}
    BY DEF NothingSaid, NothingOf
  <2>1. n \in Messages \ {m}
    BY <1>3
  <2>. QED BY <2>1 DEF CloudInv, NothingSaid, NothingOf, Only
<1>6. SentGrow /\ \A n \in Messages : statuses[n].reported = 1 => statuses'[n].reported = 1
  BY DEF SentGrow
<1>7. C!Meta' <=> C!Meta
  BY DEF C!Meta, Settled
<1>8. ASSUME NEW g \in Handlers PROVE (WorkOK(handlers[g]) /\ KnowsContact(handlers[g]))'
  <2>1. CASE g # h
    <3>. PICK e \in Works : e = handlers[g]
      BY DEF CloudInv, CloudTypes
    <3>1. WorkOK(e) /\ KnowsContact(e)
      BY DEF CloudInv
    <3>2. WorkOK(e)' /\ KnowsContact(e)'
      BY <1>6, <3>1, WorkStays
    <3>3. handlers'[g] = e
      BY <1>1, <2>1
    <3>. QED BY <3>2, <3>3
  <2>2. CASE g = h /\ k = C!Idle
    <3>1. WorkOK(k)' /\ KnowsContact(k)'
      BY <2>2 DEF WorkOK, KnowsContact, C!Idle
    <3>. QED BY <1>1, <2>2, <3>1
  <2>3. CASE g = h /\ k # C!Idle
    <3>1. WorksOn(k, m)
      BY <2>3
    <3>2. WorkOK(k)'
      BY <1>3, <1>7, <3>1 DEF WorkOK, WorksOn
    <3>3. Unmixed(m)' => Unmixed(m)
      BY DEF Unmixed, MarksGrow
    <3>4. k.jid = sent'[m].with \/ (C!Meta' /\ ~Unmixed(m)')
      BY <1>7, <2>3, <3>3
    <3>5. KnowsContact(k)'
      BY <3>1, <3>4 DEF KnowsContact, WorksOn
    <3>. QED BY <1>1, <2>3, <3>2, <3>5
  <2>. QED BY <2>1, <2>2, <2>3
<1>9. FiledRight'
  <2>. SUFFICES ASSUME NEW n \in Messages, Unmixed(n)' PROVE filed'[n] \subseteq {sent[n].with}
    BY DEF FiledRight, FiledOf
  <2>1. Unmixed(n)
    BY DEF Unmixed, MarksGrow
  <2>2. CASE n = m
    BY <2>1, <2>2
  <2>3. CASE n # m
    BY <2>1, <2>3 DEF CloudInv, FiledRight, FiledOf, Only
  <2>. QED BY <2>2, <2>3
<1>10. Counts'
  <2>. SUFFICES ASSUME NEW n \in Messages PROVE CountOf(n)'
    BY DEF Counts
  <2>1. CASE n # m
    <3>1. rows'[n] = rows[n] /\ ctold'[n] = ctold[n] /\ sent'[n] = sent[n]
      BY <2>1 DEF Only
    <3>2. k.msg # n
      BY <2>1 DEF C!Idle, WorksOn, CloudGiven
    <3>3. \A g \in Handlers : handlers'[g] = handlers[g] \/ (handlers'[g].msg # n /\ handlers[g].msg # n)
      BY <1>1, <2>1, <3>2
    <3>. QED BY <3>1, <3>3, CountStays
  <2>2. CASE n = m
    <3>. SUFFICES ASSUME Plain(m)'
                  PROVE  /\ \A f, g \in Handlers : C!Msg(f)' = m /\ C!Msg(g)' = m => f = g
                         /\ \A g \in Handlers : C!Msg(g)' = m => Stage(handlers[g], m)'
                         /\ (\A g \in Handlers : C!Msg(g)' # m) => Over(m)'
      BY <2>2 DEF CountOf
    <3>1. Plain(m)
      BY DEF Plain, MarksGrow
    <3>2. Stage(handlers[h], m) /\ \A g \in Handlers \ {h} : handlers[g].msg # m
      BY <3>1 DEF CloudInv, Counts, CountOf, C!Msg
    <3>3. \A g \in Handlers \ {h} : handlers'[g].msg # m
      BY <1>1, <3>2
    <3>4. CASE k = C!Idle
      <4>1. Over(m)'
        BY <3>2, <3>4
      <4>2. k.msg # m
        BY <1>3, <3>4 DEF C!Idle
      <4>. QED BY <1>1, <3>3, <4>1, <4>2 DEF C!Msg
    <3>5. CASE k # C!Idle
      <4>1. Stage(k, m)' /\ k.msg = m
        BY <3>2, <3>5 DEF WorksOn
      <4>2. Stage(handlers[h], m)'
        BY <1>1, <4>1
      <4>. QED BY <1>1, <3>3, <4>1, <4>2 DEF C!Msg
    <3>. QED BY <3>4, <3>5
  <2>. QED BY <2>1, <2>2
<1>11. Recorded'
  <2>. SUFFICES ASSUME NEW n \in Messages PROVE RecordedOf(n)'
    BY DEF Recorded
  <2>1. \A g \in Handlers : handlers'[g].items = handlers[g].items \/ handlers[g].items = <<>>
    BY <1>1, <1>3
  <2>. QED BY <2>1, RecordedStays
<1>12. ContactDue'
  <2>. SUFFICES ASSUME ~C!Meta, NEW n \in Messages, sent[n].with # Nobody, ~sent[n].own
                PROVE  \/ \E g \in Handlers : C!Msg(g)' = n
                       \/ "cut" \in cmarks'[n]
                       \/ sent[n].with \in contact'
    BY <1>7 DEF ContactDue
  <2>1. CASE \E g \in Handlers : C!Msg(g) = n
    <3>. PICK g \in Handlers : C!Msg(g) = n
      BY <2>1
    <3>1. CASE g # h
      BY <1>1, <3>1 DEF C!Msg
    <3>2. CASE g = h
      BY <1>1, <3>2 DEF C!Msg, WorksOn
    <3>. QED BY <3>1, <3>2
  <2>2. CASE "cut" \in cmarks[n] \/ sent[n].with \in contact
    BY <2>2 DEF MarksGrow
  <2>. QED BY <2>1, <2>2 DEF CloudInv, ContactDue
<1>13. ChatDue'
  <2>. SUFFICES ASSUME ~C!Meta, NEW c \in contact' \ chat'
                PROVE  \/ \E g \in Handlers : C!At(g, "chat")' /\ handlers'[g].jid = c
                       \/ \E n \in Messages : "cut" \in cmarks'[n]
    BY <1>7 DEF ChatDue
  <2>1. CASE (k.pc = "chat" /\ k.jid = c) \/ "cut" \in cmarks'[m]
    BY <1>1, <2>1 DEF C!At
  <2>2. CASE c \in contact \ chat /\ ~(C!At(h, "chat") /\ handlers[h].jid = c)
    <3>1. \/ \E g \in Handlers \ {h} : C!At(g, "chat") /\ handlers[g].jid = c
          \/ \E n \in Messages : "cut" \in cmarks[n]
      BY <2>2 DEF CloudInv, ChatDue
    <3>. QED BY <1>1, <3>1 DEF C!At, MarksGrow
  <2>. QED BY <2>1, <2>2
<1>. QED BY <1>4, <1>5, <1>8, <1>9, <1>10, <1>11, <1>12, <1>13 DEF CloudInv

(* What a handler that only moves on becomes.                               *)
LEMMA Advances ==
  ASSUME CloudInv, NEW h \in Handlers, NEW label \in C!Pcs, C!Goto(h, label)
  PROVE  \E k \in Works : /\ k.pc = label /\ k.msg = handlers[h].msg
                          /\ k.items = handlers[h].items /\ k.jid = handlers[h].jid
                          /\ handlers' = [handlers EXCEPT ![h] = k]
<1>1. handlers \in [Handlers -> Works]
  BY DEF CloudInv, CloudTypes
<1>2. [handlers[h] EXCEPT !.pc = label] \in Works
  BY <1>1 DEF Works
<1>. QED BY <1>1, <1>2 DEF C!Goto, Works

Move(h, c, label) == handlers' = [handlers EXCEPT ![h].jid = c, ![h].pc = label]

(* What a handler that moves on with a contact becomes.                     *)
LEMMA MovesTo ==
  ASSUME CloudInv, NEW h \in Handlers, NEW label \in C!Pcs, NEW c \in Contacts \cup {Nobody},
         Move(h, c, label)
  PROVE  \E k \in Works : /\ k.pc = label /\ k.msg = handlers[h].msg
                          /\ k.items = handlers[h].items /\ k.jid = c
                          /\ handlers' = [handlers EXCEPT ![h] = k]
<1>1. handlers \in [Handlers -> Works]
  BY DEF CloudInv, CloudTypes
<1>2. [handlers[h] EXCEPT !.jid = c, !.pc = label] \in Works
  BY <1>1 DEF Works
<1>. QED BY <1>1, <1>2 DEF Move, Works

(* What is known of a handler with a message.                               *)
LEMMA AtWork ==
  ASSUME CloudGiven, CloudInv, NEW h \in Handlers,
         handlers[h].pc \notin {"idle", "connect", "settings", "status"} \/ handlers[h].msg # Nobody
  PROVE  /\ handlers[h] \in Works /\ C!Msg(h) \in Messages /\ C!Msg(h) # Nobody /\ handlers[h].items = <<>>
         /\ sent[C!Msg(h)] \in Exchanged /\ sent[C!Msg(h)].with # Nobody
         /\ WorkOK(handlers[h]) /\ KnowsContact(handlers[h]) /\ FiledOf(C!Msg(h))
         /\ C!Idle \in Works
<1>1. handlers[h] \in Works /\ WorkOK(handlers[h]) /\ KnowsContact(handlers[h])
  BY DEF CloudInv, CloudTypes
<1>2. C!Msg(h) # Nobody
  BY <1>1 DEF WorkOK, C!Msg
<1>3. C!Msg(h) \in Messages
  BY <1>1, <1>2 DEF Works, C!Msg
<1>4. C!Idle \in Works
  BY DEF C!Idle, Works, C!Pcs
<1>5. sent[C!Msg(h)] \in Exchanged /\ FiledOf(C!Msg(h))
  BY <1>3 DEF CloudInv, CloudTypes, FiledRight
<1>. QED BY <1>1, <1>2, <1>3, <1>4, <1>5 DEF WorkOK, C!Msg

(* What is counted and filed keeps its type.                                *)
LEMMA Tallying ==
  ASSUME CloudInv, NEW m \in Messages
  PROVE  /\ [rows EXCEPT ![m] = @ + 1] \in [Messages -> Nat]
         /\ [ctold EXCEPT ![m] = @ + 1] \in [Messages -> Nat]
         /\ \A c \in Contacts \cup {Nobody} :
              [filed EXCEPT ![m] = @ \cup {c}] \in [Messages -> SUBSET (Contacts \cup {Nobody})]
<1>1. rows \in [Messages -> Nat] /\ ctold \in [Messages -> Nat]
      /\ filed \in [Messages -> SUBSET (Contacts \cup {Nobody})]
  BY DEF CloudInv, CloudTypes
<1>. QED BY <1>1

(* What a mark leaves of the marks.                                         *)
LEMMA Marking ==
  ASSUME CloudInv, NEW ms, NEW mark \in C!Marks, C!Mark(ms, mark)
  PROVE  MarksGrow /\ cmarks' \in [Messages -> SUBSET C!Marks]
         /\ (\A n \in Messages : n \in ms => mark \in cmarks'[n])
         /\ (\A n \in Messages : mark \notin {"overtaken", "mixed"} => (Unmixed(n)' <=> Unmixed(n)))
<1>1. cmarks \in [Messages -> SUBSET C!Marks]
  BY DEF CloudInv, CloudTypes
<1>2. \A n \in Messages : cmarks'[n] = IF n \in ms THEN cmarks[n] \cup {mark} ELSE cmarks[n]
  BY DEF C!Mark
<1>. QED BY <1>1, <1>2 DEF C!Mark, MarksGrow, Unmixed

(* Telling the subscribers keeps the invariant.                             *)
LEMMA TellGoes == ASSUME CloudGiven, CloudInv, NEW h \in Handlers, C!Tell(h) PROVE CloudInv'
<1>. PICK m \in Messages : m = C!Msg(h)
  BY AtWork DEF C!Tell, C!At
<1>1. handlers[h] \in Works /\ m # Nobody /\ handlers[h].items = <<>> /\ handlers[h].pc = "tell"
      /\ WorkOK(handlers[h]) /\ KnowsContact(handlers[h]) /\ FiledOf(m) /\ handlers[h].msg = m
  BY AtWork DEF C!Tell, C!At, C!Msg
<1>2. "bots" \in C!Pcs
  BY DEF C!Pcs
<1>. PICK k \in Works : /\ k.pc = "bots" /\ k.msg = m /\ k.items = <<>> /\ k.jid = handlers[h].jid
                        /\ handlers' = [handlers EXCEPT ![h] = k]
  BY <1>1, <1>2, Advances DEF C!Tell, C!Msg
<1>3. WorksOn(k, m) /\ k # C!Idle
  BY DEF WorksOn, C!Idle
<1>4. ctold' = [ctold EXCEPT ![m] = @ + 1] /\ filed' = [filed EXCEPT ![m] = @ \cup {handlers[h].jid}]
      /\ rows' = rows /\ cmarks' = cmarks /\ contact' = contact /\ chat' = chat /\ sent' = sent
      /\ phoneNumber' = phoneNumber /\ statuses' = statuses /\ Settled
  BY DEF C!Tell, C!File, C!Msg, Settled, C!fixed
<1>5. rows' \in [Messages -> Nat] /\ ctold' \in [Messages -> Nat]
      /\ filed' \in [Messages -> SUBSET (Contacts \cup {Nobody})] /\ cmarks' \in [Messages -> SUBSET C!Marks]
  <2>1. handlers[h].jid \in Contacts \cup {Nobody}
    BY <1>1 DEF Works
  <2>2. ctold' \in [Messages -> Nat] /\ filed' \in [Messages -> SUBSET (Contacts \cup {Nobody})]
    BY <1>4, <2>1, Tallying
  <2>. QED BY <1>4, <2>2 DEF CloudInv, CloudTypes
<1>6. Only(rows', rows, m) /\ Only(ctold', ctold, m) /\ Only(filed', filed, m) /\ MarksGrow
  BY <1>4 DEF Only, MarksGrow, CloudInv, CloudTypes
<1>7. handlers[h].jid = sent[m].with \/ (C!Meta /\ ~Unmixed(m))
  BY <1>1 DEF KnowsContact
<1>8. Unmixed(m) => filed'[m] \subseteq {sent[m].with}
  BY <1>1, <1>4, <1>7 DEF CloudInv, CloudTypes, FiledOf
<1>9. Stage(handlers[h], m) => Stage(k, m)'
  <2>1. ctold'[m] = ctold[m] + 1 /\ ctold[m] \in Nat /\ rows'[m] = rows[m] /\ sent'[m] = sent[m]
    BY <1>4 DEF CloudInv, CloudTypes
  <2>2. C!Meta' <=> C!Meta
    BY <1>4 DEF Settled, C!Meta
  <2>3. InS3(m)' = InS3(m) /\ (C!Recognised(m)' <=> C!Recognised(m))
    BY <1>4, <2>1, <2>2 DEF InS3, C!Recognised, C!Media, Settled
  <2>. QED BY <1>1, <2>1, <2>2, <2>3 DEF Stage
<1>10. ~C!At(h, "chat")
  BY <1>1 DEF C!At
<1>. QED BY <1>1, <1>3, <1>4, <1>5, <1>6, <1>7, <1>8, <1>9, <1>10, Goes

(* Looking the contact up keeps the invariant.                              *)
LEMMA FindContactGoes == ASSUME CloudGiven, CloudInv, NEW h \in Handlers, C!FindContact(h) PROVE CloudInv'
<1>. PICK m \in Messages : m = C!Msg(h)
  BY AtWork DEF C!FindContact, C!At
<1>1. handlers[h] \in Works /\ m # Nobody /\ handlers[h].items = <<>> /\ handlers[h].pc = "contact"
      /\ WorkOK(handlers[h]) /\ KnowsContact(handlers[h]) /\ FiledOf(m) /\ handlers[h].msg = m
      /\ sent[m] \in Exchanged /\ sent[m].with # Nobody /\ C!Idle \in Works
  BY AtWork DEF C!FindContact, C!At, C!Msg
<1>2. rows \in [Messages -> Nat] /\ ctold \in [Messages -> Nat] /\ handlers[h].jid \in Contacts \cup {Nobody}
      /\ filed \in [Messages -> SUBSET (Contacts \cup {Nobody})] /\ cmarks \in [Messages -> SUBSET C!Marks]
  BY <1>1 DEF CloudInv, CloudTypes, Works
<1>3. handlers[h].jid = sent[m].with \/ (C!Meta /\ ~Unmixed(m))
  BY <1>1 DEF KnowsContact
<1>4. ~C!Meta
  BY <1>1 DEF WorkOK
<1>. PICK k \in Works : /\ k.pc \in {"chat", "create_contact"} /\ k.msg = m /\ k.items = <<>> /\ k.jid = handlers[h].jid
                        /\ k.pc = "chat" => k.jid \in contact
                        /\ handlers' = [handlers EXCEPT ![h] = k]
  <2>1. {"chat", "create_contact"} \subseteq C!Pcs
    BY DEF C!Pcs
  <2>2. CASE handlers[h].jid \in contact
    BY <1>1, <2>1, <2>2, Advances DEF C!FindContact
  <2>3. CASE handlers[h].jid \notin contact
    BY <1>1, <2>1, <2>3, Advances DEF C!FindContact
  <2>. QED BY <2>2, <2>3
<1>5. WorksOn(k, m) /\ k # C!Idle
  BY <1>4 DEF WorksOn, C!Idle
<1>6. ctold' = ctold /\ filed' = filed /\ rows' = rows /\ cmarks' = cmarks /\ contact' = contact /\ chat' = chat
      /\ sent' = sent /\ phoneNumber' = phoneNumber /\ statuses' = statuses /\ Settled
  BY DEF C!FindContact, Settled, C!fixed, C!store
<1>7. Only(rows', rows, m) /\ Only(ctold', ctold, m) /\ Only(filed', filed, m) /\ MarksGrow
  BY <1>6 DEF Only, MarksGrow
<1>8. Unmixed(m) => filed'[m] \subseteq {sent[m].with}
  BY <1>1, <1>6 DEF FiledOf
<1>9. Stage(handlers[h], m) => Stage(k, m)'
  BY <1>1, <1>6 DEF Stage
<1>10. ~C!At(h, "chat")
  BY <1>1 DEF C!At
<1>. QED BY <1>1, <1>2, <1>3, <1>5, <1>6, <1>7, <1>8, <1>9, <1>10, Goes

(* Uploading media that is sent keeps the invariant.                        *)
LEMMA UploadGoes == ASSUME CloudGiven, CloudInv, NEW h \in Handlers, C!Upload(h) PROVE CloudInv'
<1>. PICK m \in Messages : m = C!Msg(h)
  BY AtWork DEF C!Upload, C!At
<1>1. handlers[h] \in Works /\ m # Nobody /\ handlers[h].items = <<>> /\ handlers[h].pc = "upload"
      /\ WorkOK(handlers[h]) /\ KnowsContact(handlers[h]) /\ FiledOf(m) /\ handlers[h].msg = m
      /\ sent[m] \in Exchanged /\ sent[m].with # Nobody /\ C!Idle \in Works
  BY AtWork DEF C!Upload, C!At, C!Msg
<1>2. rows \in [Messages -> Nat] /\ ctold \in [Messages -> Nat] /\ handlers[h].jid \in Contacts \cup {Nobody}
      /\ filed \in [Messages -> SUBSET (Contacts \cup {Nobody})] /\ cmarks \in [Messages -> SUBSET C!Marks]
  BY <1>1 DEF CloudInv, CloudTypes, Works
<1>3. handlers[h].jid = sent[m].with \/ (C!Meta /\ ~Unmixed(m))
  BY <1>1 DEF KnowsContact
<1>. PICK k \in Works : /\ k.pc = "send" /\ k.msg = m /\ k.items = <<>> /\ k.jid = handlers[h].jid
                        /\ handlers' = [handlers EXCEPT ![h] = k]
  <2>1. "send" \in C!Pcs
    BY DEF C!Pcs
  <2>. QED BY <1>1, <2>1, Advances DEF C!Upload
<1>4. sent[m].own
  BY <1>1 DEF WorkOK
<1>5. WorksOn(k, m) /\ k # C!Idle
  BY DEF WorksOn, C!Idle
<1>6. ctold' = ctold /\ filed' = filed /\ rows' = rows /\ cmarks' = cmarks /\ contact' = contact /\ chat' = chat
      /\ sent' = sent /\ phoneNumber' = phoneNumber /\ statuses' = statuses /\ Settled
  BY DEF C!Upload, Settled, C!fixed, C!store
<1>7. Only(rows', rows, m) /\ Only(ctold', ctold, m) /\ Only(filed', filed, m) /\ MarksGrow
  BY <1>6 DEF Only, MarksGrow
<1>8. Unmixed(m) => filed'[m] \subseteq {sent[m].with}
  BY <1>1, <1>6 DEF FiledOf
<1>9. Stage(handlers[h], m) => Stage(k, m)'
  BY <1>1, <1>6 DEF Stage, C!Recognised
<1>10. ~C!At(h, "chat")
  BY <1>1 DEF C!At
<1>. QED BY <1>1, <1>2, <1>3, <1>4, <1>5, <1>6, <1>7, <1>8, <1>9, <1>10, Goes

(* Telling of what was sent keeps the invariant.                            *)
LEMMA TellSentGoes == ASSUME CloudGiven, CloudInv, NEW h \in Handlers, C!TellSent(h) PROVE CloudInv'
<1>. PICK m \in Messages : m = C!Msg(h)
  BY AtWork DEF C!TellSent, C!At
<1>1. handlers[h] \in Works /\ m # Nobody /\ handlers[h].items = <<>> /\ handlers[h].pc = "send"
      /\ WorkOK(handlers[h]) /\ KnowsContact(handlers[h]) /\ FiledOf(m) /\ handlers[h].msg = m
      /\ sent[m] \in Exchanged /\ sent[m].with # Nobody /\ C!Idle \in Works
  BY AtWork DEF C!TellSent, C!At, C!Msg
<1>2. rows \in [Messages -> Nat] /\ ctold \in [Messages -> Nat] /\ handlers[h].jid \in Contacts \cup {Nobody}
      /\ filed \in [Messages -> SUBSET (Contacts \cup {Nobody})] /\ cmarks \in [Messages -> SUBSET C!Marks]
  BY <1>1 DEF CloudInv, CloudTypes, Works
<1>3. handlers[h].jid = sent[m].with \/ (C!Meta /\ ~Unmixed(m))
  BY <1>1 DEF KnowsContact
<1>. PICK k \in Works : /\ k.pc = "save" /\ k.msg = m /\ k.items = <<>> /\ k.jid = handlers[h].jid
                        /\ handlers' = [handlers EXCEPT ![h] = k]
  <2>1. "save" \in C!Pcs
    BY DEF C!Pcs
  <2>. QED BY <1>1, <2>1, Advances DEF C!TellSent
<1>4. sent[m].own
  BY <1>1 DEF WorkOK
<1>5. WorksOn(k, m) /\ k # C!Idle
  BY DEF WorksOn, C!Idle
<1>6. ctold' = [ctold EXCEPT ![m] = @ + 1] /\ filed' = filed /\ rows' = rows /\ cmarks' = cmarks /\ contact' = contact
      /\ chat' = chat /\ sent' = sent /\ phoneNumber' = phoneNumber /\ statuses' = statuses /\ Settled
  BY DEF C!TellSent, Settled, C!fixed, C!Msg
<1>7. Only(rows', rows, m) /\ Only(ctold', ctold, m) /\ Only(filed', filed, m) /\ MarksGrow
      /\ ctold' \in [Messages -> Nat]
  BY <1>2, <1>6, Tallying DEF Only, MarksGrow
<1>8. Unmixed(m) => filed'[m] \subseteq {sent[m].with}
  BY <1>1, <1>6 DEF FiledOf
<1>9. Stage(handlers[h], m) => Stage(k, m)'
  <2>1. ctold'[m] = ctold[m] + 1
    BY <1>2, <1>6
  <2>. QED BY <1>1, <1>2, <1>6, <2>1 DEF Stage, C!Recognised
<1>10. ~C!At(h, "chat")
  BY <1>1 DEF C!At
<1>. QED BY <1>1, <1>2, <1>3, <1>4, <1>5, <1>6, <1>7, <1>8, <1>9, <1>10, Goes

(* Storing media keeps the invariant.                                       *)
LEMMA StoreMediaGoes == ASSUME CloudGiven, CloudInv, NEW h \in Handlers, C!StoreMedia(h) PROVE CloudInv'
<1>. PICK m \in Messages : m = C!Msg(h)
  BY AtWork DEF C!StoreMedia, C!At
<1>1. handlers[h] \in Works /\ m # Nobody /\ handlers[h].items = <<>> /\ handlers[h].pc = "media"
      /\ WorkOK(handlers[h]) /\ KnowsContact(handlers[h]) /\ FiledOf(m) /\ handlers[h].msg = m
      /\ sent[m] \in Exchanged /\ sent[m].with # Nobody /\ C!Idle \in Works
  BY AtWork DEF C!StoreMedia, C!At, C!Msg
<1>2. rows \in [Messages -> Nat] /\ ctold \in [Messages -> Nat] /\ handlers[h].jid \in Contacts \cup {Nobody}
      /\ filed \in [Messages -> SUBSET (Contacts \cup {Nobody})] /\ cmarks \in [Messages -> SUBSET C!Marks]
  BY <1>1 DEF CloudInv, CloudTypes, Works
<1>3. handlers[h].jid = sent[m].with \/ (C!Meta /\ ~Unmixed(m))
  BY <1>1 DEF KnowsContact
<1>4. C!Meta
  BY <1>1 DEF WorkOK
<1>. PICK k \in Works : /\ k.pc = "tell" /\ k.msg = m /\ k.items = <<>> /\ k.jid = handlers[h].jid
                        /\ handlers' = [handlers EXCEPT ![h] = k]
  <2>1. "tell" \in C!Pcs
    BY DEF C!Pcs
  <2>. QED BY <1>1, <2>1, Advances DEF C!StoreMedia
<1>5. WorksOn(k, m) /\ k # C!Idle
  BY DEF WorksOn, C!Idle
<1>6. ctold' = ctold /\ contact' = contact /\ chat' = chat
      /\ sent' = sent /\ phoneNumber' = phoneNumber /\ statuses' = statuses /\ Settled
  BY DEF C!StoreMedia, Settled, C!fixed
<1>7. CASE rows' = [rows EXCEPT ![m] = @ + 1] /\ filed' = [filed EXCEPT ![m] = @ \cup {handlers[h].jid}] /\ cmarks' = cmarks
  <2>1. Only(rows', rows, m) /\ Only(ctold', ctold, m) /\ Only(filed', filed, m) /\ MarksGrow
        /\ rows' \in [Messages -> Nat] /\ filed' \in [Messages -> SUBSET (Contacts \cup {Nobody})]
    BY <1>2, <1>6, <1>7, Tallying DEF Only, MarksGrow
  <2>2. Unmixed(m) => filed'[m] \subseteq {sent[m].with}
    BY <1>1, <1>2, <1>3, <1>7 DEF FiledOf
  <2>3. Stage(handlers[h], m) => Stage(k, m)'
    <3>1. rows'[m] = rows[m] + 1
      BY <1>2, <1>7
    <3>2. C!Meta'
      BY <1>4, <1>6 DEF Settled, C!Meta
    <3>. QED BY <1>1, <1>2, <1>4, <1>6, <3>1, <3>2 DEF Stage, C!Recognised, InS3,
                    C!Media, Settled
  <2>. QED BY <1>1, <1>2, <1>3, <1>4, <1>5, <1>6, <1>7, <2>1, <2>2, <2>3, Goes
<1>8. CASE rows' = rows /\ filed' = filed /\ C!Mark({m}, "cut")
  <2>1. "cut" \in C!Marks
    BY DEF C!Marks
  <2>2. MarksGrow /\ cmarks' \in [Messages -> SUBSET C!Marks] /\ "cut" \in cmarks'[m]
    BY <1>8, <2>1, Marking
  <2>3. Only(rows', rows, m) /\ Only(ctold', ctold, m) /\ Only(filed', filed, m)
    BY <1>6, <1>8 DEF Only
  <2>4. ~Plain(m)'
    BY <2>2 DEF Plain
  <2>5. Unmixed(m) => filed'[m] \subseteq {sent[m].with}
    BY <1>1, <1>8 DEF FiledOf
  <2>. QED BY <1>1, <1>2, <1>3, <1>4, <1>5, <1>6, <1>8, <2>2, <2>3, <2>4, <2>5, Goes
<1>. QED BY <1>7, <1>8 DEF C!StoreMedia, C!File, C!Msg

(* Storing what was sent keeps the invariant.                               *)
LEMMA StoreSentGoes == ASSUME CloudGiven, CloudInv, NEW h \in Handlers, C!StoreSent(h) PROVE CloudInv'
<1>. PICK m \in Messages : m = C!Msg(h)
  BY AtWork DEF C!StoreSent, C!At
<1>1. handlers[h] \in Works /\ m # Nobody /\ handlers[h].items = <<>> /\ handlers[h].pc = "save"
      /\ WorkOK(handlers[h]) /\ KnowsContact(handlers[h]) /\ FiledOf(m) /\ handlers[h].msg = m
      /\ sent[m] \in Exchanged /\ sent[m].with # Nobody /\ C!Idle \in Works
  BY AtWork DEF C!StoreSent, C!At, C!Msg
<1>2. rows \in [Messages -> Nat] /\ ctold \in [Messages -> Nat] /\ handlers[h].jid \in Contacts \cup {Nobody}
      /\ filed \in [Messages -> SUBSET (Contacts \cup {Nobody})] /\ cmarks \in [Messages -> SUBSET C!Marks]
  BY <1>1 DEF CloudInv, CloudTypes, Works
<1>3. handlers[h].jid = sent[m].with \/ (C!Meta /\ ~Unmixed(m))
  BY <1>1 DEF KnowsContact
<1>4. handlers' = [handlers EXCEPT ![h] = C!Idle]
  BY DEF C!StoreSent, C!Return
<1>6. ctold' = ctold /\ contact' = contact /\ chat' = chat
      /\ sent' = sent /\ phoneNumber' = phoneNumber /\ statuses' = statuses /\ Settled
  BY DEF C!StoreSent, Settled, C!fixed
<1>9. ~C!At(h, "chat") /\ C!Idle.pc # "chat"
  BY <1>1 DEF C!At, C!Idle
<1>10. sent[m].own
  BY <1>1 DEF WorkOK
<1>7. CASE rows' = [rows EXCEPT ![m] = @ + 1] /\ filed' = [filed EXCEPT ![m] = @ \cup {handlers[h].jid}] /\ cmarks' = cmarks
  <2>1. Only(rows', rows, m) /\ Only(ctold', ctold, m) /\ Only(filed', filed, m) /\ MarksGrow
        /\ rows' \in [Messages -> Nat] /\ filed' \in [Messages -> SUBSET (Contacts \cup {Nobody})]
    BY <1>2, <1>6, <1>7, Tallying DEF Only, MarksGrow
  <2>2. Unmixed(m) => filed'[m] \subseteq {sent[m].with}
    BY <1>1, <1>2, <1>3, <1>7 DEF FiledOf
  <2>3. Stage(handlers[h], m) /\ Plain(m)' => Over(m)'
    <3>1. rows'[m] = rows[m] + 1
      BY <1>2, <1>7
    <3>. QED BY <1>1, <1>2, <1>6, <3>1 DEF Stage, Over, C!Recognised, C!Media
  <2>. QED BY <1>1, <1>2, <1>3, <1>4, <1>6, <1>7, <1>9, <2>1, <2>2, <2>3, <1>10, Goes
<1>8. CASE rows' = rows /\ filed' = filed /\ C!Mark({m}, "cut")
  <2>1. "cut" \in C!Marks
    BY DEF C!Marks
  <2>2. MarksGrow /\ cmarks' \in [Messages -> SUBSET C!Marks] /\ "cut" \in cmarks'[m]
    BY <1>8, <2>1, Marking
  <2>3. Only(rows', rows, m) /\ Only(ctold', ctold, m) /\ Only(filed', filed, m)
    BY <1>6, <1>8 DEF Only
  <2>4. ~Plain(m)'
    BY <2>2 DEF Plain
  <2>5. Unmixed(m) => filed'[m] \subseteq {sent[m].with}
    BY <1>1, <1>8 DEF FiledOf
  <2>. QED BY <1>1, <1>2, <1>3, <1>4, <1>6, <1>8, <1>9, <1>10, <2>2, <2>3, <2>4, <2>5,
              Goes
<1>. QED BY <1>7, <1>8 DEF C!StoreSent, C!File, C!Msg

(* Storing a message keeps the invariant.                                   *)
LEMMA StoreMessageGoes == ASSUME CloudGiven, CloudInv, NEW h \in Handlers, C!StoreMessage(h) PROVE CloudInv'
<1>. PICK m \in Messages : m = C!Msg(h)
  BY AtWork DEF C!StoreMessage, C!At
<1>1. handlers[h] \in Works /\ m # Nobody /\ handlers[h].items = <<>> /\ handlers[h].pc = "bots"
      /\ WorkOK(handlers[h]) /\ KnowsContact(handlers[h]) /\ FiledOf(m) /\ handlers[h].msg = m
      /\ sent[m] \in Exchanged /\ sent[m].with # Nobody /\ C!Idle \in Works
  BY AtWork DEF C!StoreMessage, C!At, C!Msg
<1>2. rows \in [Messages -> Nat] /\ ctold \in [Messages -> Nat] /\ handlers[h].jid \in Contacts \cup {Nobody}
      /\ filed \in [Messages -> SUBSET (Contacts \cup {Nobody})] /\ cmarks \in [Messages -> SUBSET C!Marks]
  BY <1>1 DEF CloudInv, CloudTypes, Works
<1>3. handlers[h].jid = sent[m].with \/ (C!Meta /\ ~Unmixed(m))
  BY <1>1 DEF KnowsContact
<1>4. ~C!At(h, "chat") /\ C!Idle.pc \notin {"chat", "upload", "send", "save"} /\ C!Idle \in Works
  BY <1>1 DEF C!At, C!Idle
<1>5. ctold' = ctold /\ filed' = filed /\ contact' = contact /\ chat' = chat
      /\ sent' = sent /\ phoneNumber' = phoneNumber /\ statuses' = statuses /\ Settled
  BY DEF C!StoreMessage, Settled, C!fixed
<1>6. Unmixed(m) => filed'[m] \subseteq {sent[m].with}
  BY <1>1, <1>5 DEF FiledOf
<1>7. CASE /\ rows' = IF C!Meta /\ C!Media(m) THEN rows ELSE [rows EXCEPT ![m] = @ + 1]
           /\ IF C!Meta THEN C!Return(h) ELSE C!Goto(h, "contact")
           /\ cmarks' = cmarks
  <2>1. Only(rows', rows, m) /\ Only(ctold', ctold, m) /\ Only(filed', filed, m) /\ MarksGrow
        /\ rows' \in [Messages -> Nat]
    BY <1>2, <1>5, <1>7, Tallying DEF Only, MarksGrow
  <2>2. rows'[m] = IF C!Meta /\ C!Media(m) THEN rows[m] ELSE rows[m] + 1
    BY <1>2, <1>7
  <2>3. CASE C!Meta
    <3>1. handlers' = [handlers EXCEPT ![h] = C!Idle]
      BY <1>7, <2>3 DEF C!Return
    <3>2. C!Meta' /\ (C!Recognised(m)' <=> C!Recognised(m)) /\ (C!Media(m)' <=> C!Media(m)) /\ s3' = s3
      BY <1>5, <2>3 DEF C!Meta, Settled, C!Recognised, C!Media
    <3>3. rows[m] \in Nat /\ ctold[m] \in Nat
      BY <1>2
    <3>4. Stage(handlers[h], m) => Over(m)'
      <4>. SUFFICES ASSUME Stage(handlers[h], m) PROVE Over(m)'
        OBVIOUS
      <4>1. ctold[m] = 1 /\ rows[m] = InS3(m) /\ ~sent[m].own /\ C!Recognised(m)
        BY <1>1, <2>3 DEF Stage
      <4>2. ctold'[m] = 1 /\ ~sent'[m].own
        BY <1>5, <4>1
      <4>3. rows'[m] = IF C!Media(m) /\ ~s3 THEN 0 ELSE 1
        BY <2>2, <2>3, <3>3, <4>1 DEF InS3
      <4>. QED BY <3>2, <4>1, <4>2, <4>3 DEF Over
    <3>. QED BY <1>1, <1>2, <1>4, <1>5, <1>6, <1>7, <2>1, <2>3, <3>1, <3>4, Goes
  <2>4. CASE ~C!Meta
    <3>. PICK k \in Works : /\ k.pc = "contact" /\ k.msg = m /\ k.items = <<>> /\ k.jid = handlers[h].jid
                           /\ handlers' = [handlers EXCEPT ![h] = k]
      <4>1. "contact" \in C!Pcs
        BY DEF C!Pcs
      <4>. QED BY <1>1, <1>7, <2>4, <4>1, Advances
    <3>1. WorksOn(k, m) /\ k # C!Idle
      BY <2>4 DEF WorksOn, C!Idle
    <3>2. Stage(handlers[h], m) => Stage(k, m)'
      <4>1. InS3(m) = 0 /\ rows'[m] = rows[m] + 1
        BY <2>2, <2>4 DEF InS3
      <4>. QED BY <1>1, <1>2, <1>5, <4>1 DEF Stage
    <3>. QED BY <1>1, <1>2, <1>3, <1>4, <1>5, <1>6, <1>7, <2>1, <2>4, <3>1, <3>2, Goes
  <2>. QED BY <2>3, <2>4
<1>8. CASE rows' = rows /\ C!Mark({m}, "cut") /\ C!Return(h)
  <2>1. "cut" \in C!Marks
    BY DEF C!Marks
  <2>2. MarksGrow /\ cmarks' \in [Messages -> SUBSET C!Marks] /\ "cut" \in cmarks'[m]
    BY <1>8, <2>1, Marking
  <2>3. Only(rows', rows, m) /\ Only(ctold', ctold, m) /\ Only(filed', filed, m)
    BY <1>5, <1>8 DEF Only
  <2>4. ~Plain(m)'
    BY <2>2 DEF Plain
  <2>5. handlers' = [handlers EXCEPT ![h] = C!Idle]
    BY <1>8 DEF C!Return
  <2>. QED BY <1>1, <1>2, <1>4, <1>5, <1>6, <1>8, <2>2, <2>3, <2>4, <2>5, Goes
<1>. QED BY <1>7, <1>8 DEF C!StoreMessage, C!Msg

(* Creating a contact keeps the invariant.                                  *)
LEMMA CreateContactGoes == ASSUME CloudGiven, CloudInv, NEW h \in Handlers, C!CreateContact(h) PROVE CloudInv'
<1>. PICK m \in Messages : m = C!Msg(h)
  BY AtWork DEF C!CreateContact, C!At
<1>1. handlers[h] \in Works /\ m # Nobody /\ handlers[h].items = <<>> /\ handlers[h].pc = "create_contact"
      /\ WorkOK(handlers[h]) /\ KnowsContact(handlers[h]) /\ FiledOf(m) /\ handlers[h].msg = m
      /\ sent[m] \in Exchanged /\ sent[m].with # Nobody /\ C!Idle \in Works
  BY AtWork DEF C!CreateContact, C!At, C!Msg
<1>2. rows \in [Messages -> Nat] /\ ctold \in [Messages -> Nat] /\ handlers[h].jid \in Contacts \cup {Nobody}
      /\ filed \in [Messages -> SUBSET (Contacts \cup {Nobody})] /\ cmarks \in [Messages -> SUBSET C!Marks]
  BY <1>1 DEF CloudInv, CloudTypes, Works
<1>3. handlers[h].jid = sent[m].with \/ (C!Meta /\ ~Unmixed(m))
  BY <1>1 DEF KnowsContact
<1>4. ~C!Meta /\ handlers[h].jid = sent[m].with
  BY <1>1, <1>3 DEF WorkOK
<1>5. ctold' = ctold /\ filed' = filed /\ rows' = rows /\ cmarks' = cmarks /\ contact' = contact \cup {handlers[h].jid}
      /\ chat' = chat /\ sent' = sent /\ phoneNumber' = phoneNumber /\ statuses' = statuses /\ Settled
  BY DEF C!CreateContact, Settled, C!fixed
<1>6. Only(rows', rows, m) /\ Only(ctold', ctold, m) /\ Only(filed', filed, m) /\ MarksGrow
  BY <1>5 DEF Only, MarksGrow
<1>7. Unmixed(m) => filed'[m] \subseteq {sent[m].with}
  BY <1>1, <1>5 DEF FiledOf
<1>8. ~C!At(h, "chat") /\ contact \subseteq contact'
  BY <1>1, <1>5 DEF C!At
<1>9. CASE handlers[h].jid \in contact
  <2>1. handlers' = [handlers EXCEPT ![h] = C!Idle]
    BY <1>9 DEF C!CreateContact, C!Return
  <2>2. Stage(handlers[h], m) => Over(m)'
    <3>1. ~C!Meta'
      BY <1>4, <1>5 DEF C!Meta, Settled
    <3>. QED BY <1>1, <1>5, <3>1 DEF Stage, Over
  <2>3. C!Idle.pc \notin {"chat", "upload", "send", "save"} /\ contact' = contact
    BY <1>5, <1>9 DEF C!Idle
  <2>. QED BY <1>1, <1>2, <1>4, <1>5, <1>6, <1>7, <1>8, <1>9, <2>1, <2>2, <2>3, Goes
<1>10. CASE handlers[h].jid \notin contact
  <2>. PICK k \in Works : /\ k.pc = "chat" /\ k.msg = m /\ k.items = <<>> /\ k.jid = handlers[h].jid
                         /\ handlers' = [handlers EXCEPT ![h] = k]
    <3>1. "chat" \in C!Pcs
      BY DEF C!Pcs
    <3>. QED BY <1>1, <1>10, <3>1, Advances DEF C!CreateContact
  <2>1. WorksOn(k, m) /\ k # C!Idle
    BY <1>4 DEF WorksOn, C!Idle
  <2>2. Stage(handlers[h], m) => Stage(k, m)'
    BY <1>1, <1>5 DEF Stage
  <2>3. \A c \in contact' \ chat' : (k.pc = "chat" /\ k.jid = c) \/ (c \in contact \ chat /\ ~C!At(h, "chat"))
    BY <1>5, <1>8
  <2>. QED BY <1>1, <1>2, <1>4, <1>5, <1>6, <1>7, <1>8, <2>1, <2>2, <2>3, Goes
<1>. QED BY <1>9, <1>10

(* Creating a chat keeps the invariant.                                     *)
LEMMA CreateChatGoes == ASSUME CloudGiven, CloudInv, NEW h \in Handlers, C!CreateChat(h) PROVE CloudInv'
<1>. PICK m \in Messages : m = C!Msg(h)
  BY AtWork DEF C!CreateChat, C!At
<1>1. handlers[h] \in Works /\ m # Nobody /\ handlers[h].items = <<>> /\ handlers[h].pc = "chat"
      /\ WorkOK(handlers[h]) /\ KnowsContact(handlers[h]) /\ FiledOf(m) /\ handlers[h].msg = m
      /\ sent[m] \in Exchanged /\ sent[m].with # Nobody /\ C!Idle \in Works
  BY AtWork DEF C!CreateChat, C!At, C!Msg
<1>2. rows \in [Messages -> Nat] /\ ctold \in [Messages -> Nat] /\ handlers[h].jid \in Contacts \cup {Nobody}
      /\ filed \in [Messages -> SUBSET (Contacts \cup {Nobody})] /\ cmarks \in [Messages -> SUBSET C!Marks]
  BY <1>1 DEF CloudInv, CloudTypes, Works
<1>3. handlers[h].jid = sent[m].with \/ (C!Meta /\ ~Unmixed(m))
  BY <1>1 DEF KnowsContact
<1>4. ~C!Meta /\ handlers[h].jid = sent[m].with /\ handlers[h].jid \in contact
  BY <1>1, <1>3 DEF WorkOK
<1>5. ctold' = ctold /\ filed' = filed /\ rows' = rows /\ contact' = contact
      /\ sent' = sent /\ phoneNumber' = phoneNumber /\ statuses' = statuses /\ Settled
      /\ handlers' = [handlers EXCEPT ![h] = C!Idle]
  BY DEF C!CreateChat, Settled, C!fixed, C!Return
<1>6. Only(rows', rows, m) /\ Only(ctold', ctold, m) /\ Only(filed', filed, m)
  BY <1>5 DEF Only
<1>7. Unmixed(m) => filed'[m] \subseteq {sent[m].with}
  BY <1>1, <1>5 DEF FiledOf
<1>8. Stage(handlers[h], m) => Over(m)'
  <2>1. ~C!Meta'
    BY <1>4, <1>5 DEF C!Meta, Settled
  <2>. QED BY <1>1, <1>5, <2>1 DEF Stage, Over
<1>9. C!Idle.pc \notin {"chat", "upload", "send", "save"}
  BY DEF C!Idle
<1>10. CASE chat' = chat \cup {handlers[h].jid} /\ cmarks' = cmarks
  <2>1. MarksGrow
    BY <1>10 DEF MarksGrow
  <2>2. \A c \in contact' \ chat' : c \in contact \ chat /\ ~(C!At(h, "chat") /\ handlers[h].jid = c)
    BY <1>5, <1>10
  <2>. QED BY <1>1, <1>2, <1>4, <1>5, <1>6, <1>7, <1>8, <1>9, <1>10, <2>1, <2>2, Goes
<1>11. CASE C!Mark({m}, "cut")
  <2>1. "cut" \in C!Marks
    BY DEF C!Marks
  <2>2. MarksGrow /\ cmarks' \in [Messages -> SUBSET C!Marks] /\ "cut" \in cmarks'[m]
    BY <1>11, <2>1, Marking
  <2>. QED BY <1>1, <1>2, <1>4, <1>5, <1>6, <1>7, <1>8, <1>9, <2>2, Goes
<1>. QED BY <1>10, <1>11 DEF C!CreateChat, C!Msg

(* A webhook of the Evolution channel keeps the invariant.                  *)
LEMMA EvolutionHandlerGoes == ASSUME CloudGiven, CloudInv, NEW h \in Handlers, C!EvolutionHandler(h) PROVE CloudInv'
<1>0. handlers[h].msg # Nobody
  BY DEF CloudInv, WorkOK, C!EvolutionHandler, C!At
<1>. PICK m \in Messages : m = C!Msg(h)
  BY <1>0, AtWork DEF C!Msg
<1>1. handlers[h] \in Works /\ m # Nobody /\ handlers[h].items = <<>> /\ handlers[h].pc = "connect"
      /\ WorkOK(handlers[h]) /\ KnowsContact(handlers[h]) /\ FiledOf(m) /\ handlers[h].msg = m
      /\ sent[m] \in Exchanged /\ sent[m].with # Nobody /\ C!Idle \in Works
  BY <1>0, AtWork DEF C!EvolutionHandler, C!At, C!Msg
<1>2. rows \in [Messages -> Nat] /\ ctold \in [Messages -> Nat] /\ phoneNumber \in Contacts \cup {Nobody}
      /\ filed \in [Messages -> SUBSET (Contacts \cup {Nobody})] /\ cmarks \in [Messages -> SUBSET C!Marks]
  BY DEF CloudInv, CloudTypes
<1>3. ctold' = ctold /\ filed' = filed /\ rows' = rows /\ cmarks' = cmarks /\ contact' = contact /\ chat' = chat
      /\ sent' = sent /\ phoneNumber' = phoneNumber /\ statuses' = statuses /\ Settled
  BY DEF C!EvolutionHandler, Settled, C!fixed, C!store
<1>4. Only(rows', rows, m) /\ Only(ctold', ctold, m) /\ Only(filed', filed, m) /\ MarksGrow
  BY <1>3 DEF Only, MarksGrow
<1>5. Unmixed(m) => filed'[m] \subseteq {sent[m].with}
  BY <1>1, <1>3 DEF FiledOf
<1>6. ~C!At(h, "chat")
  BY <1>1 DEF C!At
<1>7. ~C!Meta /\ "tell" \in C!Pcs /\ sent[m].with \in Contacts \cup {Nobody}
  BY <1>1 DEF C!EvolutionHandler, C!Pcs, Exchanged
<1>. PICK k \in Works : /\ k.pc = "tell" /\ k.msg = m /\ k.items = <<>> /\ k.jid = sent[m].with
                        /\ handlers' = [handlers EXCEPT ![h] = k]
  <2>. PICK c \in Contacts \cup {Nobody}, label \in C!Pcs : c = sent[m].with /\ label = "tell"
    BY <1>7
  <2>1. Move(h, c, label)
    BY <1>1 DEF C!EvolutionHandler, Move, C!Msg
  <2>2. \E k \in Works : /\ k.pc = label /\ k.msg = handlers[h].msg /\ k.items = handlers[h].items /\ k.jid = c
                         /\ handlers' = [handlers EXCEPT ![h] = k]
    BY <2>1, MovesTo
  <2>. QED BY <1>1, <2>2
<1>8. WorksOn(k, m) /\ k # C!Idle
  BY <1>7 DEF WorksOn, C!Idle
<1>9. Stage(handlers[h], m) => Stage(k, m)'
  <2>1. ~C!Meta' /\ InS3(m)' = 0
    BY <1>3, <1>7 DEF C!Meta, Settled, InS3
  <2>. QED BY <1>1, <1>3, <2>1 DEF Stage
<1>. QED BY <1>1, <1>2, <1>3, <1>4, <1>5, <1>6, <1>7, <1>8, <1>9, Goes

(* Beginning with a message keeps the invariant.                            *)
LEMMA MessageHandleGoes ==
  ASSUME CloudGiven, CloudInv, NEW h \in Handlers, C!MessageHandle(h), handlers[h].msg # Nobody
  PROVE  CloudInv'
<1>0. handlers[h].msg # Nobody
  OBVIOUS
<1>. PICK m \in Messages : m = C!Msg(h)
  BY <1>0, AtWork DEF C!Msg
<1>1. handlers[h] \in Works /\ m # Nobody /\ handlers[h].items = <<>> /\ handlers[h].pc = "settings"
      /\ WorkOK(handlers[h]) /\ KnowsContact(handlers[h]) /\ FiledOf(m) /\ handlers[h].msg = m
      /\ sent[m] \in Exchanged /\ sent[m].with # Nobody /\ C!Idle \in Works
  BY <1>0, AtWork DEF C!MessageHandle, C!At, C!Msg
<1>2. rows \in [Messages -> Nat] /\ ctold \in [Messages -> Nat] /\ phoneNumber \in Contacts \cup {Nobody}
      /\ filed \in [Messages -> SUBSET (Contacts \cup {Nobody})] /\ cmarks \in [Messages -> SUBSET C!Marks]
  BY DEF CloudInv, CloudTypes
<1>3. ctold' = ctold /\ filed' = filed /\ rows' = rows /\ cmarks' = cmarks /\ contact' = contact /\ chat' = chat
      /\ sent' = sent /\ phoneNumber' = phoneNumber /\ statuses' = statuses /\ Settled
  BY DEF C!MessageHandle, Settled, C!fixed, C!store
<1>4. Only(rows', rows, m) /\ Only(ctold', ctold, m) /\ Only(filed', filed, m) /\ MarksGrow
  BY <1>3 DEF Only, MarksGrow
<1>5. Unmixed(m) => filed'[m] \subseteq {sent[m].with}
  BY <1>1, <1>3 DEF FiledOf
<1>6. ~C!At(h, "chat")
  BY <1>1 DEF C!At
<1>7. C!Meta /\ (phoneNumber = sent[m].with \/ ~Unmixed(m))
  BY <1>1 DEF C!MessageHandle, KnowsContact
<1>8. C!Meta' /\ InS3(m)' = InS3(m) /\ (C!Recognised(m)' <=> C!Recognised(m)) /\ (C!Media(m)' <=> C!Media(m)) /\ s3' = s3
  BY <1>3, <1>7 DEF C!Meta, Settled, InS3, C!Recognised, C!Media
<1>9. CASE C!Recognised(m)
  <2>. PICK k \in Works : /\ k.pc = IF C!Media(m) /\ s3 THEN "media" ELSE "tell"
                         /\ k.msg = m /\ k.items = <<>> /\ k.jid = phoneNumber
                         /\ handlers' = [handlers EXCEPT ![h] = k]
    <3>1. handlers' = [handlers EXCEPT ![h].jid = phoneNumber, ![h].pc = IF C!Media(m) /\ s3 THEN "media" ELSE "tell"]
      BY <1>1, <1>9 DEF C!MessageHandle, C!Msg
    <3>2. (IF C!Media(m) /\ s3 THEN "media" ELSE "tell") \in C!Pcs
      BY DEF C!Pcs
    <3>. PICK c \in Contacts \cup {Nobody}, label \in C!Pcs :
           c = phoneNumber /\ label = IF C!Media(m) /\ s3 THEN "media" ELSE "tell"
      BY <1>2, <3>2
    <3>3. Move(h, c, label)
      BY <3>1 DEF Move
    <3>4. \E k \in Works : /\ k.pc = label /\ k.msg = handlers[h].msg /\ k.items = handlers[h].items /\ k.jid = c
                           /\ handlers' = [handlers EXCEPT ![h] = k]
      BY <3>3, MovesTo
    <3>. QED BY <1>1, <3>4
  <2>1. WorksOn(k, m) /\ k # C!Idle /\ k.pc \in {"media", "tell"}
    BY <1>7 DEF WorksOn, C!Idle
  <2>2. Stage(handlers[h], m) => Stage(k, m)'
    <3>1. CASE C!Media(m) /\ s3
      BY <1>1, <1>3, <1>8, <3>1 DEF Stage
    <3>2. CASE ~(C!Media(m) /\ s3)
      <4>1. InS3(m) = 0
        BY <3>2 DEF InS3
      <4>. QED BY <1>1, <1>3, <1>8, <1>9, <3>2, <4>1 DEF Stage
    <3>. QED BY <3>1, <3>2
  <2>. QED BY <1>1, <1>2, <1>3, <1>4, <1>5, <1>6, <1>7, <2>1, <2>2, Goes
<1>10. CASE ~C!Recognised(m)
  <2>1. handlers' = [handlers EXCEPT ![h] = C!Idle]
    BY <1>1, <1>10 DEF C!MessageHandle, C!Return, C!Msg
  <2>2. Stage(handlers[h], m) => Over(m)'
    BY <1>1, <1>3, <1>8, <1>10 DEF Stage, Over
  <2>3. C!Idle.pc \notin {"chat", "upload", "send", "save"}
    BY DEF C!Idle
  <2>. QED BY <1>1, <1>2, <1>3, <1>4, <1>5, <1>6, <1>7, <2>1, <2>2, <2>3, Goes
<1>. QED BY <1>9, <1>10

-----------------------------------------------------------------------------
(* A handler goes on with what it works on, and nothing is stored.          *)
LEMMA Turns ==
  ASSUME CloudGiven, CloudInv, NEW h \in Handlers, NEW k \in Works,
         handlers' = [handlers EXCEPT ![h] = k], k.msg = handlers[h].msg, k.items = handlers[h].items,
         Settled, sent' = sent, rows' = rows, ctold' = ctold, filed' = filed, statuses' = statuses,
         contact' = contact, chat' = chat, ~C!At(h, "chat"),
         phoneNumber' \in Contacts \cup {Nobody}, cmarks' \in [Messages -> SUBSET C!Marks], MarksGrow,
         \A g \in Handlers : WorkOK(handlers[g])' /\ KnowsContact(handlers[g])',
         \A m \in Messages : handlers[h].msg = m /\ Stage(handlers[h], m) => Stage(k, m)
  PROVE  CloudInv'
<1>1. handlers'[h] = k /\ \A g \in Handlers \ {h} : handlers'[g] = handlers[g]
  BY DEF CloudInv, CloudTypes
<1>2. \A g \in Handlers : handlers'[g].msg = handlers[g].msg /\ handlers'[g].items = handlers[g].items
  BY <1>1
<1>3. C!Meta' <=> C!Meta
  BY DEF C!Meta, Settled
<1>4. CloudTypes'
  <2>1. handlers' \in [Handlers -> Works]
    BY DEF CloudInv, CloudTypes
  <2>. QED BY <2>1 DEF CloudInv, CloudTypes, Settled
<1>5. NothingSaid'
  BY DEF CloudInv, NothingSaid, NothingOf
<1>6. FiledRight'
  BY DEF CloudInv, FiledRight, FiledOf, Unmixed, MarksGrow
<1>7. Counts'
  <2>. SUFFICES ASSUME NEW m \in Messages PROVE CountOf(m)'
    BY DEF Counts
  <2>1. CASE handlers[h].msg # m
    <3>1. \A g \in Handlers : handlers'[g] = handlers[g] \/ (handlers'[g].msg # m /\ handlers[g].msg # m)
      BY <1>1, <2>1
    <3>. QED BY <3>1, CountStays
  <2>2. CASE handlers[h].msg = m
    <3>. SUFFICES ASSUME Plain(m)'
                  PROVE  /\ \A f, g \in Handlers : C!Msg(f)' = m /\ C!Msg(g)' = m => f = g
                         /\ \A g \in Handlers : C!Msg(g)' = m => Stage(handlers[g], m)'
                         /\ (\A g \in Handlers : C!Msg(g)' # m) => Over(m)'
      BY DEF CountOf
    <3>1. Plain(m)
      BY DEF Plain, MarksGrow
    <3>2. Stage(handlers[h], m) /\ \A g \in Handlers \ {h} : handlers[g].msg # m
      BY <2>2, <3>1 DEF CloudInv, Counts, CountOf, C!Msg
    <3>3. Stage(k, m)
      BY <2>2, <3>2
    <3>4. Stage(k, m)'
      BY <1>3, <3>3 DEF Stage, InS3, C!Recognised, C!Media, Settled
    <3>5. Stage(handlers[h], m)'
      BY <1>1, <3>4
    <3>6. \A g \in Handlers : C!Msg(g)' = m => g = h
      BY <1>2, <3>2 DEF C!Msg
    <3>7. C!Msg(h)' = m
      BY <1>2, <2>2 DEF C!Msg
    <3>. QED BY <3>5, <3>6, <3>7
  <2>. QED BY <2>1, <2>2
<1>8. Recorded'
  <2>. SUFFICES ASSUME NEW n \in Messages PROVE RecordedOf(n)'
    BY DEF Recorded
  <2>. QED BY <1>2, RecordedStays
<1>9. ContactDue'
  BY <1>2, <1>3 DEF CloudInv, ContactDue, C!Msg, MarksGrow
<1>10. ChatDue'
  <2>. SUFFICES ASSUME ~C!Meta, NEW c \in contact \ chat
                PROVE  \/ \E g \in Handlers : C!At(g, "chat")' /\ handlers'[g].jid = c
                       \/ \E n \in Messages : "cut" \in cmarks'[n]
    BY <1>3 DEF ChatDue
  <2>1. \/ \E g \in Handlers \ {h} : C!At(g, "chat") /\ handlers[g].jid = c
        \/ \E n \in Messages : "cut" \in cmarks[n]
    BY DEF CloudInv, ChatDue
  <2>. QED BY <1>1, <2>1 DEF C!At, MarksGrow
<1>. QED BY <1>4, <1>5, <1>6, <1>7, <1>8, <1>9, <1>10 DEF CloudInv

(* Setting phoneNumber keeps the invariant.                                 *)
LEMMA ConnectGoes == ASSUME CloudGiven, CloudInv, NEW h \in Handlers, C!Connect(h) PROVE CloudInv'
<1>. DEFINE Hit == UNION {C!Reading(g) : g \in Handlers \ {h}}
<1>1. "settings" \in C!Pcs /\ "overtaken" \in C!Marks
  BY DEF C!Pcs, C!Marks
<1>. PICK k \in Works : /\ k.pc = "settings" /\ k.msg = handlers[h].msg
                        /\ k.items = handlers[h].items /\ k.jid = handlers[h].jid
                        /\ handlers' = [handlers EXCEPT ![h] = k]
  BY <1>1, Advances DEF C!Connect
<1>2. handlers'[h] = k /\ \A g \in Handlers \ {h} : handlers'[g] = handlers[g]
  BY DEF CloudInv, CloudTypes
<1>3. Settled /\ sent' = sent /\ rows' = rows /\ ctold' = ctold /\ filed' = filed /\ statuses' = statuses
      /\ contact' = contact /\ chat' = chat /\ C!Meta /\ handlers[h].pc = "connect"
      /\ phoneNumber' = sent[C!Subject(h)].with
  BY DEF C!Connect, Settled, C!fixed, C!store, C!At
<1>. PICK e \in Works : e = handlers[h]
  BY DEF CloudInv, CloudTypes
<1>4. WorkOK(e) /\ KnowsContact(e) /\ e.pc = "connect"
  BY <1>3 DEF CloudInv
<1>5. (e.msg = Nobody => 1 \in DOMAIN e.items /\ e.items[1] \in Messages)
      /\ (e.msg # Nobody => e.msg \in Messages /\ e.items = <<>>)
      /\ \A n \in DOMAIN e.items : e.items[n] \in Messages
  BY <1>4 DEF WorkOK, Works
<1>6. C!Subject(h) = (IF e.msg # Nobody THEN e.msg ELSE e.items[1]) /\ C!Subject(h) \in Messages
  BY <1>5 DEF C!Subject, C!Msg
<1>7. MarksGrow /\ cmarks' \in [Messages -> SUBSET C!Marks]
      /\ \A n \in Messages : n \in Hit => "overtaken" \in cmarks'[n]
  BY <1>1, Marking DEF C!Connect
<1>8. phoneNumber' \in Contacts \cup {Nobody}
  BY <1>3, <1>6 DEF CloudInv, CloudTypes, Exchanged
<1>9. C!Meta' /\ \A n \in Messages : Unmixed(n)' => Unmixed(n)
  BY <1>3, <1>7 DEF C!Meta, Settled, Unmixed, MarksGrow
<1>10. WorkOK(k)'
  BY <1>3, <1>4, <1>9 DEF WorkOK
<1>11. KnowsContact(k)'
  <2>1. \A n \in DOMAIN k.items : Unmixed(k.items[n])' => phoneNumber' = sent'[k.items[n]].with
    <3>. SUFFICES ASSUME NEW n \in DOMAIN e.items, Unmixed(e.items[n])'
                  PROVE  phoneNumber' = sent[e.items[n]].with
      BY <1>3
    <3>1. e.msg = Nobody
      BY <1>5
    <3>2. Unmixed(e.items[n])
      BY <1>5, <1>9
    <3>. QED BY <1>3, <1>4, <1>6, <3>1, <3>2 DEF KnowsContact
  <2>2. k.msg # Nobody => phoneNumber' = sent'[k.msg].with
    BY <1>3, <1>6
  <2>. QED BY <2>1, <2>2 DEF KnowsContact
<1>12. ASSUME NEW g \in Handlers PROVE WorkOK(handlers[g])' /\ KnowsContact(handlers[g])'
  <2>1. CASE g = h
    BY <1>2, <1>10, <1>11, <2>1
  <2>2. CASE g # h
    <3>. PICK f \in Works : f = handlers[g]
      BY DEF CloudInv, CloudTypes
    <3>1. WorkOK(f) /\ KnowsContact(f)
      BY DEF CloudInv
    <3>2. WorkOK(f)'
      BY <1>3, <1>9, <3>1 DEF WorkOK
    <3>3. \A n \in DOMAIN f.items : f.items[n] \in Messages
      BY DEF Works
    <3>4. f.msg # Nobody => f.msg \in Messages
      BY DEF Works
    <3>5. ASSUME f.pc \in {"settings", "status"}
          PROVE  (f.msg # Nobody => ~Unmixed(f.msg)') /\ \A n \in DOMAIN f.items : ~Unmixed(f.items[n])'
      <4>1. C!Reading(g) = {f.msg} \cup {f.items[n] : n \in DOMAIN f.items}
        BY <3>5 DEF C!Reading, C!At, C!Items, C!Msg
      <4>2. C!Reading(g) \subseteq Hit
        BY <2>2
      <4>. QED BY <1>7, <3>3, <3>4, <4>1, <4>2 DEF Unmixed
    <3>6. f.pc \notin {"idle", "connect", "settings", "status"} => f.msg # Nobody
      BY <3>1 DEF WorkOK
    <3>7. f.pc \notin {"idle", "connect", "settings", "status"} =>
            f.jid = sent'[f.msg].with \/ (C!Meta' /\ ~Unmixed(f.msg)')
      BY <1>3, <1>9, <3>1, <3>4, <3>6 DEF KnowsContact
    <3>8. f.pc = "settings" /\ f.msg # Nobody => ~Unmixed(f.msg)'
      BY <3>5
    <3>9. ASSUME NEW n \in DOMAIN f.items, Unmixed(f.items[n])'
          PROVE  f.pc = "connect" /\ sent'[f.items[n]].with = sent'[f.items[1]].with
      <4>1. f.items # <<>>
        OBVIOUS
      <4>2. f.msg = Nobody /\ f.pc \in {"idle", "connect", "settings", "status"} /\ f.pc # "idle"
        BY <3>1, <4>1 DEF WorkOK, C!Idle
      <4>3. f.pc = "connect"
        BY <3>5, <3>9, <4>2
      <4>4. Unmixed(f.items[n])
        BY <1>9, <3>3, <3>9
      <4>. QED BY <1>3, <3>1, <4>3, <4>4 DEF KnowsContact
    <3>10. KnowsContact(f)'
      BY <3>7, <3>8, <3>9 DEF KnowsContact
    <3>. QED BY <1>2, <2>2, <3>2, <3>10
  <2>. QED BY <2>1, <2>2
<1>13. \A m \in Messages : handlers[h].msg = m /\ Stage(handlers[h], m) => Stage(k, m)
  BY <1>3 DEF Stage
<1>14. ~C!At(h, "chat")
  BY <1>3 DEF C!At
<1>. QED BY <1>3, <1>7, <1>8, <1>12, <1>13, <1>14, Turns

(* Beginning with statuses keeps the invariant.                             *)
LEMMA StatusesGoes ==
  ASSUME CloudGiven, CloudInv, NEW h \in Handlers, C!MessageHandle(h), handlers[h].msg = Nobody PROVE CloudInv'
<1>1. "status" \in C!Pcs /\ phoneNumber \in Contacts \cup {Nobody}
  BY DEF C!Pcs, CloudInv, CloudTypes
<1>. PICK c \in Contacts \cup {Nobody}, label \in C!Pcs : c = phoneNumber /\ label = "status"
  BY <1>1
<1>2. Move(h, c, label)
  BY DEF C!MessageHandle, C!Recognised, C!Msg, Move
<1>3. \E k \in Works : /\ k.pc = label /\ k.msg = handlers[h].msg /\ k.items = handlers[h].items /\ k.jid = c
                       /\ handlers' = [handlers EXCEPT ![h] = k]
  BY <1>2, MovesTo
<1>. PICK k \in Works : /\ k.pc = "status" /\ k.msg = Nobody /\ k.items = handlers[h].items
                        /\ handlers' = [handlers EXCEPT ![h] = k]
  BY <1>3
<1>4. handlers'[h] = k /\ \A g \in Handlers \ {h} : handlers'[g] = handlers[g]
  BY DEF CloudInv, CloudTypes
<1>5. Settled /\ sent' = sent /\ rows' = rows /\ ctold' = ctold /\ filed' = filed /\ statuses' = statuses
      /\ contact' = contact /\ chat' = chat /\ C!Meta /\ handlers[h].pc = "settings"
      /\ phoneNumber' = phoneNumber /\ cmarks' = cmarks
  BY DEF C!MessageHandle, Settled, C!fixed, C!store, C!At
<1>6. MarksGrow /\ SentGrow /\ cmarks' \in [Messages -> SUBSET C!Marks] /\ phoneNumber' \in Contacts \cup {Nobody}
  BY <1>1, <1>5 DEF MarksGrow, SentGrow, CloudInv, CloudTypes
<1>7. \A g \in Handlers : handlers[g] \in Works /\ WorkOK(handlers[g]) /\ KnowsContact(handlers[g])
  BY DEF CloudInv, CloudTypes
<1>8. ASSUME NEW g \in Handlers PROVE WorkOK(handlers[g])' /\ KnowsContact(handlers[g])'
  <2>. PICK f \in Works : f = IF g = h THEN k ELSE handlers[g]
    BY <1>7
  <2>1. WorkOK(f) /\ KnowsContact(f)
    <3>1. CASE g = h
      <4>. PICK e \in Works : e = handlers[h]
        BY <1>7
      <4>1. WorkOK(e) /\ KnowsContact(e) /\ e.pc = "settings" /\ e.items = k.items
        BY <1>5, <1>7
      <4>2. WorkOK(k)
        BY <1>5, <4>1 DEF WorkOK
      <4>3. KnowsContact(k)
        BY <4>1 DEF KnowsContact
      <4>. QED BY <3>1, <4>2, <4>3
    <3>2. CASE g # h
      BY <1>7, <3>2
    <3>. QED BY <3>1, <3>2
  <2>2. WorkOK(f)' /\ KnowsContact(f)'
    BY <1>5, <1>6, <2>1, WorkStays
  <2>3. handlers'[g] = f
    BY <1>4
  <2>. QED BY <2>2, <2>3
<1>9. ~C!At(h, "chat") /\ \A m \in Messages : handlers[h].msg # m
  BY <1>5 DEF C!At, CloudGiven
<1>. QED BY <1>5, <1>6, <1>8, <1>9, Turns

-----------------------------------------------------------------------------
(* Idle handlers start: with a message that is new or is repeated, or with  *)
(* statuses.                                                                *)
Starts(g) == handlers'[g] # handlers[g]

(* Handlers that start keep the invariant.                                  *)
LEMMA Started ==
  ASSUME CloudGiven, CloudInv, handlers' \in [Handlers -> Works],
         Settled, phoneNumber' = phoneNumber, rows' = rows, ctold' = ctold, filed' = filed,
         contact' = contact, chat' = chat,
         sent' \in [Messages -> Exchanged], SentGrow,
         statuses' \in [Messages -> [reported : 0..1, recorded : 0..1]],
         \A n \in Messages : statuses[n].reported = 1 => statuses'[n].reported = 1,
         cmarks' \in [Messages -> SUBSET C!Marks], MarksGrow,
         \A g \in Handlers : Starts(g) =>
           handlers[g] = C!Idle /\ WorkOK(handlers[g])' /\ KnowsContact(handlers[g])',
         \A m \in Messages : sent'[m] = sent[m]
           \/ (sent[m].with = Nobody /\ sent'[m].with # Nobody
                 /\ ((\E g \in Handlers : Starts(g) /\ handlers'[g].msg = m) \/ (C!Meta /\ ~Plain(m)'))),
         \A m \in Messages, g \in Handlers : Starts(g) /\ handlers'[g].msg = m /\ Plain(m)' =>
           /\ sent[m].with = Nobody /\ Stage(handlers[g], m)'
           /\ \A f \in Handlers : Starts(f) /\ handlers'[f].msg = m => f = g,
         \A m \in Messages : statuses'[m] = statuses[m]
           \/ \E g \in Handlers : \E n \in DOMAIN handlers'[g].items : handlers'[g].items[n] = m
  PROVE  CloudInv'
<1>1. \A g \in Handlers : handlers[g] \in Works /\ WorkOK(handlers[g]) /\ KnowsContact(handlers[g])
  BY DEF CloudInv, CloudTypes
<1>2. C!Meta' <=> C!Meta
  BY DEF C!Meta, Settled
<1>3. CloudTypes'
  BY DEF CloudInv, CloudTypes, Settled
<1>4. ASSUME NEW g \in Handlers PROVE WorkOK(handlers[g])' /\ KnowsContact(handlers[g])'
  <2>1. CASE ~Starts(g)
    <3>. PICK f \in Works : f = handlers[g]
      BY <1>1
    <3>1. WorkOK(f)' /\ KnowsContact(f)'
      BY <1>1, WorkStays
    <3>. QED BY <2>1, <3>1 DEF Starts
  <2>. QED BY <2>1
<1>5. \A m \in Messages : sent'[m] = sent[m] \/ (sent[m].with = Nobody /\ sent'[m].with # Nobody)
  OBVIOUS
<1>6. NothingSaid'
  <2>. SUFFICES ASSUME NEW m \in Messages, sent'[m].with = Nobody
                PROVE  sent'[m] = C!Unsent /\ rows[m] = 0 /\ ctold[m] = 0 /\ filed[m] = {}
    BY DEF NothingSaid, NothingOf
  <2>1. sent'[m] = sent[m]
    BY <1>5
  <2>. QED BY <2>1 DEF CloudInv, NothingSaid, NothingOf
<1>7. FiledRight'
  <2>. SUFFICES ASSUME NEW m \in Messages, Unmixed(m)' PROVE filed[m] \subseteq {sent'[m].with}
    BY DEF FiledRight, FiledOf
  <2>1. Unmixed(m)
    BY DEF Unmixed, MarksGrow
  <2>. QED BY <1>5, <2>1 DEF CloudInv, FiledRight, FiledOf, NothingSaid, NothingOf
<1>8. Counts'
  <2>. SUFFICES ASSUME NEW m \in Messages PROVE CountOf(m)'
    BY DEF Counts
  <2>1. CASE \A g \in Handlers : Starts(g) => handlers'[g].msg # m
    <3>1. sent'[m] = sent[m] \/ ~Plain(m)'
      BY <2>1
    <3>2. C!Idle.msg # m
      BY DEF C!Idle, CloudGiven
    <3>3. \A g \in Handlers : handlers'[g] = handlers[g] \/ (handlers'[g].msg # m /\ handlers[g].msg # m)
      BY <2>1, <3>2 DEF Starts
    <3>4. CASE sent'[m] = sent[m]
      BY <3>3, <3>4, CountStays
    <3>. QED BY <3>1, <3>4 DEF CountOf
  <2>2. ASSUME NEW h \in Handlers, Starts(h), handlers'[h].msg = m
        PROVE  CountOf(m)'
    <3>. SUFFICES ASSUME Plain(m)'
                  PROVE  /\ \A f, g \in Handlers : C!Msg(f)' = m /\ C!Msg(g)' = m => f = g
                         /\ \A g \in Handlers : C!Msg(g)' = m => Stage(handlers[g], m)'
                         /\ (\A g \in Handlers : C!Msg(g)' # m) => Over(m)'
      BY DEF CountOf
    <3>1. sent[m].with = Nobody /\ Stage(handlers[h], m)'
          /\ \A f \in Handlers : Starts(f) /\ handlers'[f].msg = m => f = h
      BY <2>2
    <3>2. \A g \in Handlers : handlers[g].msg # m
      BY <1>1, <3>1 DEF WorkOK, CloudGiven
    <3>3. \A g \in Handlers : handlers'[g].msg = m => g = h
      BY <3>1, <3>2 DEF Starts
    <3>. QED BY <2>2, <3>1, <3>3 DEF C!Msg
  <2>. QED BY <2>1, <2>2
<1>9. \A g \in Handlers : handlers'[g].items = handlers[g].items \/ handlers[g].items = <<>>
  BY DEF Starts, C!Idle
<1>10. Recorded'
  <2>. SUFFICES ASSUME NEW m \in Messages PROVE RecordedOf(m)'
    BY DEF Recorded
  <2>1. CASE statuses'[m] = statuses[m]
    BY <1>9, <2>1, RecordedStays
  <2>2. CASE \E g \in Handlers : \E n \in DOMAIN handlers'[g].items : handlers'[g].items[n] = m
    BY <2>2 DEF RecordedOf
  <2>. QED BY <2>1, <2>2
<1>11. ContactDue'
  <2>. SUFFICES ASSUME ~C!Meta, NEW m \in Messages, sent'[m].with # Nobody, ~sent'[m].own
                PROVE  \/ \E g \in Handlers : C!Msg(g)' = m
                       \/ "cut" \in cmarks'[m]
                       \/ sent'[m].with \in contact
    BY <1>2 DEF ContactDue
  <2>1. CASE \A g \in Handlers : Starts(g) => handlers'[g].msg # m
    <3>1. sent'[m] = sent[m]
      BY <2>1
    <3>2. CASE \E g \in Handlers : C!Msg(g) = m
      <4>. PICK g \in Handlers : C!Msg(g) = m
        BY <3>2
      <4>1. C!Idle.msg # m
        BY DEF C!Idle, CloudGiven
      <4>. QED BY <4>1 DEF C!Msg, Starts
    <3>3. CASE "cut" \in cmarks[m] \/ sent[m].with \in contact
      BY <3>1, <3>3 DEF MarksGrow
    <3>. QED BY <3>1, <3>2, <3>3 DEF CloudInv, ContactDue
  <2>2. CASE \E g \in Handlers : Starts(g) /\ handlers'[g].msg = m
    BY <2>2 DEF C!Msg
  <2>. QED BY <2>1, <2>2
<1>12. ChatDue'
  <2>. SUFFICES ASSUME ~C!Meta, NEW c \in contact \ chat
                PROVE  \/ \E g \in Handlers : C!At(g, "chat")' /\ handlers'[g].jid = c
                       \/ \E n \in Messages : "cut" \in cmarks'[n]
    BY <1>2 DEF ChatDue
  <2>1. CASE \E g \in Handlers : C!At(g, "chat") /\ handlers[g].jid = c
    <3>. PICK g \in Handlers : C!At(g, "chat") /\ handlers[g].jid = c
      BY <2>1
    <3>1. handlers'[g] = handlers[g]
      BY DEF C!At, C!Idle, Starts
    <3>. QED BY <3>1 DEF C!At
  <2>2. CASE \E n \in Messages : "cut" \in cmarks[n]
    BY <2>2 DEF MarksGrow
  <2>. QED BY <2>1, <2>2 DEF CloudInv, ChatDue
<1>. QED BY <1>3, <1>4, <1>6, <1>7, <1>8, <1>10, <1>11, <1>12 DEF CloudInv

(* What a handler that enters is given.                                     *)
LEMMA Entering ==
  ASSUME CloudInv, NEW h \in Handlers, NEW m \in Messages \cup {Nobody}, NEW items \in Seq(Messages),
         C!Enters(h, m, items)
  PROVE  \E k \in Works : /\ k.pc = "connect" /\ k.msg = m /\ k.items = items
                         /\ handlers' = [handlers EXCEPT ![h] = k] /\ handlers[h] = C!Idle
                         /\ handlers' \in [Handlers -> Works] /\ handlers'[h] = k
                         /\ \A g \in Handlers : Starts(g) => g = h
<1>1. [C!Idle EXCEPT !.pc = "connect", !.msg = m, !.items = items] \in Works
  BY DEF C!Idle, Works, C!Pcs
<1>2. handlers \in [Handlers -> Works]
  BY DEF CloudInv, CloudTypes
<1>. QED BY <1>1, <1>2 DEF C!Enters, Starts, C!Idle

(* A message that comes keeps the invariant.                                *)
LEMMA ReceiveStarts ==
  ASSUME CloudGiven, CloudInv, NEW h \in Handlers, NEW m \in Messages, C!Receive(h, m) PROVE CloudInv'
<1>1. sent[m] = C!Unsent /\ Settled /\ phoneNumber' = phoneNumber /\ rows' = rows /\ ctold' = ctold /\ filed' = filed
      /\ contact' = contact /\ chat' = chat /\ statuses' = statuses /\ cmarks' = cmarks
  BY DEF C!Receive, Settled, C!fixed, C!store
<1>. PICK e \in Exchanged : /\ e.with \in Contacts /\ ~e.own /\ sent' = [sent EXCEPT ![m] = e]
  <2>. PICK c \in Contacts, k \in {"text", "media", "other"} :
          sent' = [sent EXCEPT ![m] = [with |-> c, own |-> FALSE, kind |-> k]]
    BY DEF C!Receive
  <2>1. [with |-> c, own |-> FALSE, kind |-> k] \in Exchanged
    BY DEF Exchanged
  <2>. QED BY <2>1
<1>2. sent \in [Messages -> Exchanged] /\ m # Nobody /\ <<>> \in Seq(Messages)
  BY DEF CloudInv, CloudTypes, CloudGiven
<1>. PICK k \in Works : /\ k.pc = "connect" /\ k.msg = m /\ k.items = <<>> /\ handlers[h] = C!Idle
                        /\ handlers' \in [Handlers -> Works] /\ handlers'[h] = k
                        /\ \A g \in Handlers : Starts(g) => g = h
  <2>0. PICK s \in Seq(Messages), n \in Messages \cup {Nobody} : s = <<>> /\ n = m
    BY <1>2
  <2>1. C!Enters(h, n, s)
    BY <2>0 DEF C!Receive
  <2>2. \E k \in Works : /\ k.pc = "connect" /\ k.msg = n /\ k.items = s
                         /\ handlers' = [handlers EXCEPT ![h] = k] /\ handlers[h] = C!Idle
                         /\ handlers' \in [Handlers -> Works] /\ handlers'[h] = k
                         /\ \A g \in Handlers : Starts(g) => g = h
    BY <2>1, Entering
  <2>. QED BY <2>0, <2>2
<1>3. sent'[m] = e /\ e.with # Nobody /\ (\A n \in Messages \ {m} : sent'[n] = sent[n]) /\ sent[m].with = Nobody
  BY <1>1, <1>2 DEF CloudGiven, C!Unsent
<1>4. sent' \in [Messages -> Exchanged] /\ SentGrow /\ MarksGrow
  BY <1>1, <1>2, <1>3 DEF SentGrow, MarksGrow
<1>5. WorkOK(k)' /\ KnowsContact(k)'
  BY <1>2, <1>3 DEF WorkOK, KnowsContact
<1>6. Stage(k, m)'
  BY <1>1, <1>2, <1>3 DEF Stage, CloudInv, NothingSaid, NothingOf
<1>7. \A g \in Handlers : Starts(g) => handlers[g] = C!Idle /\ WorkOK(handlers[g])' /\ KnowsContact(handlers[g])'
  BY <1>5
<1>8. \A n \in Messages, g \in Handlers : Starts(g) /\ handlers'[g].msg = n /\ Plain(n)' =>
         /\ sent[n].with = Nobody /\ Stage(handlers[g], n)'
         /\ \A f \in Handlers : Starts(f) /\ handlers'[f].msg = n => f = g
  BY <1>3, <1>6
<1>9. \A n \in Messages : sent'[n] = sent[n]
        \/ (sent[n].with = Nobody /\ sent'[n].with # Nobody /\ \E g \in Handlers : Starts(g) /\ handlers'[g].msg = n)
  <2>1. Starts(h)
    BY <1>2 DEF Starts, C!Idle
  <2>. QED BY <1>3, <2>1
<1>10. cmarks' \in [Messages -> SUBSET C!Marks]
       /\ statuses' \in [Messages -> [reported : 0..1, recorded : 0..1]]
  BY <1>1 DEF CloudInv, CloudTypes
<1>. QED BY <1>1, <1>4, <1>7, <1>8, <1>9, <1>10, Started

(* A webhook that is repeated keeps the invariant.                          *)
LEMMA ReceiveAgainStarts ==
  ASSUME CloudGiven, CloudInv, NEW h \in Handlers, NEW m \in Messages, C!ReceiveAgain(h, m) PROVE CloudInv'
<1>1. sent[m].with # Nobody /\ ~sent[m].own /\ Settled /\ phoneNumber' = phoneNumber /\ rows' = rows
      /\ ctold' = ctold /\ filed' = filed /\ contact' = contact /\ chat' = chat /\ statuses' = statuses /\ sent' = sent
  BY DEF C!ReceiveAgain, Settled, C!fixed, C!store
<1>2. m # Nobody /\ <<>> \in Seq(Messages) /\ "twice" \in C!Marks
  BY DEF CloudGiven, C!Marks
<1>. PICK k \in Works : /\ k.pc = "connect" /\ k.msg = m /\ k.items = <<>> /\ handlers[h] = C!Idle
                        /\ handlers' \in [Handlers -> Works] /\ handlers'[h] = k
                        /\ \A g \in Handlers : Starts(g) => g = h
  <2>0. PICK s \in Seq(Messages), n \in Messages \cup {Nobody} : s = <<>> /\ n = m
    BY <1>2
  <2>1. C!Enters(h, n, s)
    BY <2>0 DEF C!ReceiveAgain
  <2>2. \E k \in Works : /\ k.pc = "connect" /\ k.msg = n /\ k.items = s
                         /\ handlers' = [handlers EXCEPT ![h] = k] /\ handlers[h] = C!Idle
                         /\ handlers' \in [Handlers -> Works] /\ handlers'[h] = k
                         /\ \A g \in Handlers : Starts(g) => g = h
    BY <2>1, Entering
  <2>. QED BY <2>0, <2>2
<1>3. MarksGrow /\ cmarks' \in [Messages -> SUBSET C!Marks] /\ "twice" \in cmarks'[m]
  BY <1>2, Marking DEF C!ReceiveAgain
<1>4. sent' \in [Messages -> Exchanged] /\ SentGrow
      /\ statuses' \in [Messages -> [reported : 0..1, recorded : 0..1]]
  BY <1>1 DEF SentGrow, CloudInv, CloudTypes
<1>5. WorkOK(k)' /\ KnowsContact(k)'
  BY <1>1, <1>2 DEF WorkOK, KnowsContact
<1>6. ~Plain(m)'
  BY <1>3 DEF Plain
<1>7. \A g \in Handlers : Starts(g) => handlers[g] = C!Idle /\ WorkOK(handlers[g])' /\ KnowsContact(handlers[g])'
  BY <1>5
<1>8. \A n \in Messages, g \in Handlers : ~(Starts(g) /\ handlers'[g].msg = n /\ Plain(n)')
  BY <1>6
<1>. QED BY <1>1, <1>3, <1>4, <1>7, <1>8, Started

(* A webhook with two entries keeps the invariant.                          *)
LEMMA ReceiveTwoStarts ==
  ASSUME CloudGiven, CloudInv, NEW h \in Handlers, NEW g \in Handlers,
         NEW m \in Messages, NEW n \in Messages, C!ReceiveTwo(h, g, m, n)
  PROVE  CloudInv'
<1>1. sent[m] = C!Unsent /\ sent[n] = C!Unsent /\ m # n /\ Settled /\ phoneNumber' = phoneNumber /\ rows' = rows
      /\ ctold' = ctold /\ filed' = filed /\ contact' = contact /\ chat' = chat /\ statuses' = statuses
      /\ handlers[h] = C!Idle /\ handlers[g] = C!Idle /\ m # Nobody /\ n # Nobody
  BY DEF C!ReceiveTwo, Settled, C!fixed, C!store, CloudGiven
<1>. PICK c \in Contacts, d \in Contacts : sent' = [sent EXCEPT ![m].with = c, ![n].with = d]
  BY DEF C!ReceiveTwo
<1>2. sent \in [Messages -> Exchanged] /\ cmarks \in [Messages -> SUBSET C!Marks]
  BY DEF CloudInv, CloudTypes
<1>3. /\ sent' \in [Messages -> Exchanged] /\ \A e \in Messages \ {m, n} : sent'[e] = sent[e]
      /\ sent'[m].with = c /\ sent'[n].with = d
  <2>1. [sent[m] EXCEPT !.with = c] \in Exchanged /\ [sent[n] EXCEPT !.with = d] \in Exchanged
    BY <1>2 DEF Exchanged
  <2>2. sent' = [sent EXCEPT ![m] = [sent[m] EXCEPT !.with = c], ![n] = [sent[n] EXCEPT !.with = d]]
    BY <1>1
  <2>3. [sent[m] EXCEPT !.with = c].with = c /\ [sent[n] EXCEPT !.with = d].with = d
    BY <1>2 DEF Exchanged
  <2>. QED BY <1>1, <1>2, <2>1, <2>2, <2>3
<1>4. c # Nobody /\ d # Nobody /\ sent[m].with = Nobody /\ sent[n].with = Nobody
  BY <1>1 DEF CloudGiven, C!Unsent
<1>5. SentGrow
  BY <1>3, <1>4 DEF SentGrow
<1>6. MarksGrow /\ cmarks' \in [Messages -> SUBSET C!Marks] /\ "twice" \in cmarks'[m] /\ "behind" \in cmarks'[n]
  BY <1>1, <1>2 DEF MarksGrow, C!ReceiveTwo, C!Marks
<1>. PICK k \in Works : /\ k = [C!Idle EXCEPT !.pc = "connect", !.msg = m]
                        /\ k.pc = "connect" /\ k.msg = m /\ k.items = <<>>
  <2>3. "connect" \in C!Pcs /\ m \in Messages \cup {Nobody} /\ Nobody \in Contacts \cup {Nobody} /\ <<>> \in Seq(Messages)
    BY DEF C!Pcs
  <2>1. [C!Idle EXCEPT !.pc = "connect", !.msg = m] \in Works
    BY <2>3 DEF Works, C!Idle
  <2>2. LET k == [C!Idle EXCEPT !.pc = "connect", !.msg = m]
        IN  k.pc = "connect" /\ k.msg = m /\ k.items = <<>>
    BY DEF C!Idle
  <2>. QED BY <2>1, <2>2
<1>7. /\ handlers' \in [Handlers -> Works] /\ handlers'[h] = k /\ handlers'[g] = k
      /\ \A f \in Handlers \ {h, g} : handlers'[f] = handlers[f]
  <2>2. handlers' = [f \in Handlers |-> IF f \in {h, g} THEN k ELSE handlers[f]]
    BY DEF C!ReceiveTwo
  <2>. QED BY <2>2 DEF CloudInv, CloudTypes
<1>8. \A f \in Handlers : Starts(f) => f \in {h, g}
  BY <1>7 DEF Starts
<1>9. WorkOK(k)' /\ KnowsContact(k)'
  BY <1>1, <1>3, <1>4 DEF WorkOK, KnowsContact
<1>10. \A f \in Handlers : Starts(f) => handlers[f] = C!Idle /\ WorkOK(handlers[f])' /\ KnowsContact(handlers[f])'
  BY <1>1, <1>7, <1>8, <1>9
<1>11. ~Plain(m)' /\ ~Plain(n)' /\ C!Meta
  BY <1>6 DEF Plain, C!ReceiveTwo
<1>12. \A e \in Messages, f \in Handlers : ~(Starts(f) /\ handlers'[f].msg = e /\ Plain(e)')
  BY <1>7, <1>8, <1>11
<1>13. \A e \in Messages : sent'[e] = sent[e]
         \/ (sent[e].with = Nobody /\ sent'[e].with # Nobody /\ C!Meta /\ ~Plain(e)')
  BY <1>3, <1>4, <1>11
<1>14. statuses' \in [Messages -> [reported : 0..1, recorded : 0..1]]
  BY <1>1 DEF CloudInv, CloudTypes
<1>. QED BY <1>1, <1>3, <1>5, <1>6, <1>7, <1>10, <1>12, <1>13, <1>14, Started

(* Statuses that come keep the invariant.                                   *)
LEMMA ReceiveStatusesStarts ==
  ASSUME CloudGiven, CloudInv, NEW h \in Handlers, NEW items \in C!Batches, C!ReceiveStatuses(h, items)
  PROVE  CloudInv'
<1>1. items \in Seq(Messages) /\ items # <<>>
  <2>1. CASE items \in {<<m>> : m \in Messages}
    <3>. PICK m \in Messages : items = <<m>>
      BY <2>1
    <3>1. <<m>> \in Seq(Messages) /\ Len(<<m>>) = 1
      OBVIOUS
    <3>. QED BY <3>1
  <2>2. CASE items \in Messages \X Messages
    <3>. PICK m \in Messages, n \in Messages : items = <<m, n>>
      BY <2>2
    <3>1. <<m, n>> \in Seq(Messages) /\ Len(<<m, n>>) = 2
      OBVIOUS
    <3>. QED BY <3>1
  <2>. QED BY <2>1, <2>2 DEF C!Batches
<1>. DEFINE Hit == {m \in Messages : \E n \in DOMAIN items : items[n] = m /\ sent[m].with # sent[items[1]].with}
<1>2. C!Meta /\ Settled /\ phoneNumber' = phoneNumber /\ rows' = rows /\ sent' = sent
      /\ ctold' = ctold /\ filed' = filed /\ contact' = contact /\ chat' = chat
  BY DEF C!ReceiveStatuses, Settled, C!fixed
<1>. PICK k \in Works : /\ k.pc = "connect" /\ k.msg = Nobody /\ k.items = items /\ handlers[h] = C!Idle
                        /\ handlers' \in [Handlers -> Works] /\ handlers'[h] = k
                        /\ \A g \in Handlers : Starts(g) => g = h
  <2>0. PICK n \in Messages \cup {Nobody} : n = Nobody
    OBVIOUS
  <2>1. C!Enters(h, n, items)
    BY <2>0 DEF C!ReceiveStatuses
  <2>2. \E k \in Works : /\ k.pc = "connect" /\ k.msg = n /\ k.items = items
                         /\ handlers' = [handlers EXCEPT ![h] = k] /\ handlers[h] = C!Idle
                         /\ handlers' \in [Handlers -> Works] /\ handlers'[h] = k
                         /\ \A g \in Handlers : Starts(g) => g = h
    BY ONLY CloudInv, h \in Handlers, n \in Messages \cup {Nobody}, <1>1, <2>1, Entering
  <2>. QED BY <2>0, <2>2
<1>3. "mixed" \in C!Marks
  BY DEF C!Marks
<1>4. MarksGrow /\ cmarks' \in [Messages -> SUBSET C!Marks] /\ \A n \in Messages : n \in Hit => "mixed" \in cmarks'[n]
  BY <1>3, Marking DEF C!ReceiveStatuses
<1>5. \A n \in DOMAIN items : items[n] \in Messages /\ sent[items[n]].own
  BY <1>1 DEF C!ReceiveStatuses
<1>6. \A n \in DOMAIN items : sent[items[n]].with # Nobody
  BY <1>5 DEF CloudInv, NothingSaid, NothingOf, C!Unsent
<1>7. statuses \in [Messages -> [reported : 0..1, recorded : 0..1]] /\ sent' \in [Messages -> Exchanged] /\ SentGrow
  BY <1>2 DEF CloudInv, CloudTypes, SentGrow
<1>8. statuses' = [m \in Messages |-> IF \E n \in DOMAIN items : items[n] = m
                     THEN [statuses[m] EXCEPT !.reported = 1] ELSE statuses[m]]
  BY DEF C!ReceiveStatuses
<1>9. \A m \in Messages : [statuses[m] EXCEPT !.reported = 1] \in [reported : 0..1, recorded : 0..1]
                          /\ [statuses[m] EXCEPT !.reported = 1].reported = 1
  BY <1>7
<1>10. /\ statuses' \in [Messages -> [reported : 0..1, recorded : 0..1]]
       /\ \A m \in Messages : statuses[m].reported = 1 => statuses'[m].reported = 1
       /\ \A n \in DOMAIN items : statuses'[items[n]].reported = 1
       /\ \A m \in Messages : statuses'[m] = statuses[m] \/ \E n \in DOMAIN items : items[n] = m
  BY <1>5, <1>7, <1>8, <1>9
<1>11. WorkOK(k)'
  <2>1. C!Meta'
    BY <1>2 DEF C!Meta, Settled
  <2>. QED BY <1>1, <1>2, <1>6, <1>10, <2>1 DEF WorkOK
<1>12. KnowsContact(k)'
  <2>. SUFFICES ASSUME NEW n \in DOMAIN items, Unmixed(items[n])' PROVE sent[items[n]].with = sent[items[1]].with
    BY <1>2 DEF KnowsContact
  <2>1. items[n] \notin Hit
    BY <1>4, <1>5 DEF Unmixed
  <2>. QED BY <1>5, <2>1
<1>13. \A g \in Handlers : Starts(g) => handlers[g] = C!Idle /\ WorkOK(handlers[g])' /\ KnowsContact(handlers[g])'
  BY <1>11, <1>12
<1>14. \A n \in Messages, g \in Handlers : ~(Starts(g) /\ handlers'[g].msg = n /\ Plain(n)')
  BY DEF CloudGiven
<1>15. \A m \in Messages : statuses'[m] = statuses[m]
         \/ \E g \in Handlers : \E n \in DOMAIN handlers'[g].items : handlers'[g].items[n] = m
  BY <1>10
<1>. QED BY <1>2, <1>4, <1>7, <1>10, <1>13, <1>14, <1>15, Started

(* A message that is sent keeps the invariant.                              *)
LEMMA SendsStarts ==
  ASSUME CloudGiven, CloudInv, NEW h \in Handlers, NEW m \in Messages, NEW label,
         C!Sends(h, m, label), (C!Meta /\ label = "send") \/ (~C!Meta /\ label = "upload")
  PROVE  CloudInv'
<1>1. sent[m] = C!Unsent /\ Settled /\ phoneNumber' = phoneNumber /\ rows' = rows /\ ctold' = ctold /\ filed' = filed
      /\ contact' = contact /\ chat' = chat /\ statuses' = statuses /\ cmarks' = cmarks /\ handlers[h] = C!Idle
  BY DEF C!Sends, Settled, C!fixed, C!store
<1>2. sent \in [Messages -> Exchanged] /\ handlers \in [Handlers -> Works] /\ m # Nobody
  BY DEF CloudInv, CloudTypes, CloudGiven
<1>. PICK e \in Exchanged, k \in Works :
       /\ e.with \in Contacts /\ e.own /\ e.kind # "other" /\ sent' = [sent EXCEPT ![m] = e]
       /\ k.pc = label /\ k.msg = m /\ k.items = <<>> /\ k.jid = e.with
       /\ handlers' = [handlers EXCEPT ![h] = k]
  <2>. PICK c \in Contacts, sort \in {"text", "media"} :
          /\ sent' = [sent EXCEPT ![m] = [with |-> c, own |-> TRUE, kind |-> sort]]
          /\ handlers' = [handlers EXCEPT ![h] = [C!Idle EXCEPT !.pc = label, !.msg = m, !.jid = c]]
    BY DEF C!Sends
  <2>1. [with |-> c, own |-> TRUE, kind |-> sort] \in Exchanged
    BY DEF Exchanged
  <2>4. label \in C!Pcs /\ m \in Messages \cup {Nobody} /\ c \in Contacts \cup {Nobody} /\ <<>> \in Seq(Messages)
    BY DEF C!Pcs
  <2>2. [C!Idle EXCEPT !.pc = label, !.msg = m, !.jid = c] \in Works
    BY <2>4 DEF Works, C!Idle
  <2>3. LET k == [C!Idle EXCEPT !.pc = label, !.msg = m, !.jid = c]
        IN  k.pc = label /\ k.msg = m /\ k.items = <<>> /\ k.jid = c
    BY DEF C!Idle
  <2>. QED BY <2>1, <2>2, <2>3
<1>3. sent'[m] = e /\ e.with # Nobody /\ (\A n \in Messages \ {m} : sent'[n] = sent[n]) /\ sent[m].with = Nobody
  BY <1>1, <1>2 DEF CloudGiven, C!Unsent
<1>4. sent' \in [Messages -> Exchanged] /\ SentGrow /\ MarksGrow
  BY <1>1, <1>2, <1>3 DEF SentGrow, MarksGrow
<1>5. handlers' \in [Handlers -> Works] /\ handlers'[h] = k /\ \A g \in Handlers : Starts(g) => g = h
  BY <1>2 DEF Starts
<1>6. C!Meta' <=> C!Meta
  BY <1>1 DEF C!Meta, Settled
<1>7. WorkOK(k)' /\ KnowsContact(k)'
  BY <1>2, <1>3, <1>6 DEF WorkOK, KnowsContact
<1>8. Stage(k, m)'
  BY <1>1, <1>2, <1>3 DEF Stage, C!Recognised, CloudInv, NothingSaid, NothingOf
<1>9. \A g \in Handlers : Starts(g) => handlers[g] = C!Idle /\ WorkOK(handlers[g])' /\ KnowsContact(handlers[g])'
  BY <1>1, <1>5, <1>7
<1>10. \A n \in Messages, g \in Handlers : Starts(g) /\ handlers'[g].msg = n /\ Plain(n)' =>
         /\ sent[n].with = Nobody /\ Stage(handlers[g], n)'
         /\ \A f \in Handlers : Starts(f) /\ handlers'[f].msg = n => f = g
  BY <1>3, <1>5, <1>8
<1>11. \A n \in Messages : sent'[n] = sent[n]
         \/ (sent[n].with = Nobody /\ sent'[n].with # Nobody /\ \E g \in Handlers : Starts(g) /\ handlers'[g].msg = n)
  <2>1. Starts(h)
    BY <1>1, <1>2, <1>5 DEF Starts, C!Idle
  <2>. QED BY <1>3, <1>5, <2>1
<1>12. cmarks' \in [Messages -> SUBSET C!Marks]
       /\ statuses' \in [Messages -> [reported : 0..1, recorded : 0..1]]
  BY <1>1 DEF CloudInv, CloudTypes
<1>. QED BY <1>1, <1>4, <1>5, <1>9, <1>10, <1>11, <1>12, Started

-----------------------------------------------------------------------------
(* A batch of statuses goes on, or ends.                                    *)
LEMMA Batched ==
  ASSUME CloudGiven, CloudInv, NEW h \in Handlers, NEW k \in Works, handlers[h].pc = "status",
         handlers' = [handlers EXCEPT ![h] = k], k.msg = Nobody, k.pc \in {"idle", "status"},
         Settled, sent' = sent, rows' = rows, ctold' = ctold, contact' = contact, chat' = chat,
         phoneNumber' = phoneNumber,
         filed' \in [Messages -> SUBSET (Contacts \cup {Nobody})],
         \A m \in Messages : Unmixed(m) => filed'[m] \subseteq filed[m] \cup {sent[m].with},
         \A m \in Messages : sent[m].with = Nobody => filed'[m] = filed[m],
         statuses' \in [Messages -> [reported : 0..1, recorded : 0..1]],
         \A m \in Messages : statuses'[m].reported = statuses[m].reported,
         \A m \in Messages : statuses[m].recorded = statuses[m].reported => statuses'[m].recorded = statuses[m].reported,
         cmarks' \in [Messages -> SUBSET C!Marks], MarksGrow,
         WorkOK(k), KnowsContact(k),
         \A m \in Messages : (\E n \in DOMAIN handlers[h].items : handlers[h].items[n] = m) => RecordedOf(m)'
  PROVE  CloudInv'
<1>1. handlers'[h] = k /\ \A g \in Handlers \ {h} : handlers'[g] = handlers[g]
  BY DEF CloudInv, CloudTypes
<1>2. C!Meta' <=> C!Meta
  BY DEF C!Meta, Settled
<1>3. handlers[h].msg = Nobody
  BY DEF CloudInv, WorkOK
<1>4. CloudTypes'
  <2>1. handlers' \in [Handlers -> Works]
    BY DEF CloudInv, CloudTypes
  <2>. QED BY <2>1 DEF CloudInv, CloudTypes, Settled
<1>5. SentGrow /\ \A n \in Messages : statuses[n].reported = 1 => statuses'[n].reported = 1
  BY DEF SentGrow
<1>6. ASSUME NEW g \in Handlers PROVE WorkOK(handlers[g])' /\ KnowsContact(handlers[g])'
  <2>. PICK f \in Works : f = IF g = h THEN k ELSE handlers[g]
    BY DEF CloudInv, CloudTypes
  <2>1. WorkOK(f) /\ KnowsContact(f)
    BY DEF CloudInv
  <2>2. WorkOK(f)' /\ KnowsContact(f)'
    BY <1>5, <2>1, WorkStays
  <2>3. handlers'[g] = f
    BY <1>1
  <2>. QED BY <2>2, <2>3
<1>7. NothingSaid'
  BY DEF CloudInv, NothingSaid, NothingOf
<1>8. FiledRight'
  <2>. SUFFICES ASSUME NEW m \in Messages, Unmixed(m)' PROVE filed'[m] \subseteq {sent[m].with}
    BY DEF FiledRight, FiledOf
  <2>1. Unmixed(m)
    BY DEF Unmixed, MarksGrow
  <2>. QED BY <2>1 DEF CloudInv, FiledRight, FiledOf
<1>9. Counts'
  <2>. SUFFICES ASSUME NEW m \in Messages PROVE CountOf(m)'
    BY DEF Counts
  <2>1. \A g \in Handlers : handlers'[g] = handlers[g] \/ (handlers'[g].msg # m /\ handlers[g].msg # m)
    BY <1>1, <1>3 DEF CloudGiven
  <2>. QED BY <2>1, CountStays
<1>10. Recorded'
  <2>. SUFFICES ASSUME NEW m \in Messages PROVE RecordedOf(m)'
    BY DEF Recorded
  <2>1. CASE \E n \in DOMAIN handlers[h].items : handlers[h].items[n] = m
    BY <2>1
  <2>2. CASE \E g \in Handlers \ {h} : \E n \in DOMAIN handlers[g].items : handlers[g].items[n] = m
    BY <1>1, <2>2 DEF RecordedOf
  <2>3. CASE statuses[m].recorded = statuses[m].reported \/ cmarks[m] \cap {"early", "cut"} # {}
    BY <2>3 DEF RecordedOf, MarksGrow
  <2>. QED BY <2>1, <2>2, <2>3 DEF CloudInv, Recorded, RecordedOf
<1>11. ContactDue'
  <2>. SUFFICES ASSUME ~C!Meta, NEW m \in Messages, sent[m].with # Nobody, ~sent[m].own
                PROVE  \/ \E g \in Handlers : C!Msg(g)' = m
                       \/ "cut" \in cmarks'[m]
                       \/ sent[m].with \in contact
    BY <1>2 DEF ContactDue
  <2>1. \/ \E g \in Handlers \ {h} : C!Msg(g) = m
        \/ "cut" \in cmarks[m]
        \/ sent[m].with \in contact
    BY <1>3 DEF CloudInv, ContactDue, CloudGiven, C!Msg
  <2>. QED BY <1>1, <2>1 DEF C!Msg, MarksGrow
<1>12. ChatDue'
  <2>. SUFFICES ASSUME ~C!Meta, NEW c \in contact \ chat
                PROVE  \/ \E g \in Handlers : C!At(g, "chat")' /\ handlers'[g].jid = c
                       \/ \E n \in Messages : "cut" \in cmarks'[n]
    BY <1>2 DEF ChatDue
  <2>1. \/ \E g \in Handlers \ {h} : C!At(g, "chat") /\ handlers[g].jid = c
        \/ \E n \in Messages : "cut" \in cmarks[n]
    BY DEF CloudInv, ChatDue, C!At
  <2>. QED BY <1>1, <2>1 DEF C!At, MarksGrow
<1>. QED BY <1>4, <1>6, <1>7, <1>8, <1>9, <1>10, <1>11, <1>12 DEF CloudInv

(* Recording a status keeps the invariant.                                  *)
LEMMA StatusGoes == ASSUME CloudGiven, CloudInv, NEW h \in Handlers, C!Status(h) PROVE CloudInv'
<1>1. handlers[h].pc = "status" /\ Settled /\ sent' = sent /\ rows' = rows /\ ctold' = ctold /\ contact' = contact
      /\ chat' = chat /\ phoneNumber' = phoneNumber
  BY DEF C!Status, Settled, C!fixed, C!At
<1>. PICK e \in Works : e = handlers[h]
  BY DEF CloudInv, CloudTypes
<1>2. WorkOK(e) /\ KnowsContact(e) /\ e.pc = "status" /\ e.items \in Seq(Messages)
  BY <1>1 DEF CloudInv, Works
<1>3. e.msg = Nobody /\ C!Meta
  BY <1>2 DEF WorkOK
<1>4. statuses \in [Messages -> [reported : 0..1, recorded : 0..1]] /\ cmarks \in [Messages -> SUBSET C!Marks]
      /\ filed \in [Messages -> SUBSET (Contacts \cup {Nobody})] /\ phoneNumber \in Contacts \cup {Nobody}
  BY DEF CloudInv, CloudTypes
<1>5. C!Idle \in Works /\ WorkOK(C!Idle) /\ KnowsContact(C!Idle) /\ C!Idle.msg = Nobody /\ C!Idle.pc = "idle"
  BY DEF C!Idle, Works, C!Pcs, WorkOK, KnowsContact
<1>6. C!Items(h) = {e.items[n] : n \in DOMAIN e.items} /\ \A n \in DOMAIN e.items : e.items[n] \in Messages
  BY <1>2 DEF C!Items
<1>7. CASE e.items = <<>>
  <2>1. handlers' = [handlers EXCEPT ![h] = C!Idle] /\ filed' = filed /\ statuses' = statuses /\ cmarks' = cmarks
    BY <1>1, <1>7 DEF C!Status, C!Return
  <2>2. MarksGrow
    BY <2>1 DEF MarksGrow
  <2>3. ~\E n \in DOMAIN handlers[h].items : TRUE
    BY <1>7
  <2>. QED BY <1>1, <1>4, <1>5, <2>1, <2>2, <2>3, Batched
<1>8. CASE e.items # <<>>
  <2>. PICK m \in Messages : m = e.items[1]
    BY <1>2, <1>8
  <2>1. C!Item(h) = m /\ 1 \in DOMAIN e.items
    BY <1>2, <1>8 DEF C!Item
  <2>2. "early" \in C!Marks /\ "cut" \in C!Marks
    BY DEF C!Marks
  <2>3. CASE rows[m] = 0
    <3>1. handlers' = [handlers EXCEPT ![h] = C!Idle] /\ filed' = filed /\ statuses' = statuses /\ C!Mark(C!Items(h), "early")
      BY <1>8, <2>1, <2>3 DEF C!Status, C!Return
    <3>2. MarksGrow /\ cmarks' \in [Messages -> SUBSET C!Marks] /\ \A n \in Messages : n \in C!Items(h) => "early" \in cmarks'[n]
      BY <2>2, <3>1, Marking
    <3>3. \A n \in Messages : (\E i \in DOMAIN handlers[h].items : handlers[h].items[i] = n) => RecordedOf(n)'
      BY <1>6, <3>2 DEF RecordedOf
    <3>. QED BY <1>1, <1>4, <1>5, <3>1, <3>2, <3>3, Batched
  <2>4. CASE rows[m] # 0
    <3>1. statuses' = [statuses EXCEPT ![m].recorded = 1] /\ filed' = [filed EXCEPT ![m] = @ \cup {phoneNumber}]
      BY <1>8, <2>1, <2>4 DEF C!Status, C!File
    <3>2. [statuses[m] EXCEPT !.recorded = 1] \in [reported : 0..1, recorded : 0..1]
          /\ [statuses[m] EXCEPT !.recorded = 1].recorded = 1
          /\ [statuses[m] EXCEPT !.recorded = 1].reported = statuses[m].reported
      BY <1>4
    <3>3. statuses[m].reported = 1 /\ sent[m].with # Nobody
      BY <1>2, <2>1 DEF WorkOK
    <3>4. /\ statuses' \in [Messages -> [reported : 0..1, recorded : 0..1]]
          /\ \A n \in Messages : statuses'[n].reported = statuses[n].reported
          /\ \A n \in Messages : statuses[n].recorded = statuses[n].reported => statuses'[n].recorded = statuses[n].reported
          /\ statuses'[m].recorded = statuses'[m].reported
      BY <1>4, <3>1, <3>2, <3>3
    <3>5. Unmixed(m) => phoneNumber = sent[m].with
      BY <1>2, <2>1 DEF KnowsContact
    <3>6. /\ filed' \in [Messages -> SUBSET (Contacts \cup {Nobody})]
          /\ \A n \in Messages : Unmixed(n) => filed'[n] \subseteq filed[n] \cup {sent[n].with}
          /\ \A n \in Messages : sent[n].with = Nobody => filed'[n] = filed[n]
      BY <1>4, <3>1, <3>3, <3>5
    <3>7. RecordedOf(m)'
      BY <3>4 DEF RecordedOf
    <3>8. CASE handlers' = [handlers EXCEPT ![h].items = Tail(@)] /\ cmarks' = cmarks
      <4>1. MarksGrow /\ cmarks' \in [Messages -> SUBSET C!Marks]
        BY <1>4, <3>8 DEF MarksGrow
      <4>2. /\ Tail(e.items) \in Seq(Messages) /\ Len(Tail(e.items)) = Len(e.items) - 1
            /\ DOMAIN Tail(e.items) = 1..(Len(e.items) - 1) /\ DOMAIN e.items = 1..Len(e.items)
            /\ \A n \in DOMAIN Tail(e.items) : n + 1 \in DOMAIN e.items /\ Tail(e.items)[n] = e.items[n + 1]
        BY <1>2, <1>8
      <4>. PICK k \in Works : /\ k.pc = "status" /\ k.msg = Nobody /\ k.items = Tail(e.items)
                              /\ handlers' = [handlers EXCEPT ![h] = k]
        <5>1. [e EXCEPT !.items = Tail(e.items)] \in Works
          BY <4>2 DEF Works
        <5>2. handlers' = [handlers EXCEPT ![h] = [e EXCEPT !.items = Tail(e.items)]]
          BY <3>8
        <5>3. LET k == [e EXCEPT !.items = Tail(e.items)]
              IN  k.pc = "status" /\ k.msg = Nobody /\ k.items = Tail(e.items)
          BY <1>2, <1>3 DEF Works
        <5>. QED BY <5>1, <5>2, <5>3
      <4>3. WorkOK(k)
        BY <1>2, <1>3, <4>2 DEF WorkOK
      <4>4. KnowsContact(k)
        BY <1>2, <4>2 DEF KnowsContact
      <4>5. handlers'[h] = k
        BY DEF CloudInv, CloudTypes
      <4>6. ASSUME NEW p \in Messages, NEW n \in DOMAIN e.items, e.items[n] = p PROVE RecordedOf(p)'
        <5>1. CASE n = 1
          BY <3>7, <4>6, <5>1
        <5>2. CASE n # 1
          <6>. PICK q \in 1..(Len(e.items) - 1) : q + 1 = n
            <7>1. n \in 1..Len(e.items) /\ Len(e.items) \in Nat
              BY <1>2, <4>2
            <7>2. n - 1 \in 1..(Len(e.items) - 1) /\ (n - 1) + 1 = n
              BY <5>2, <7>1
            <7>. QED BY <7>2
          <6>1. q \in DOMAIN k.items /\ k.items[q] = e.items[n]
            BY <4>2
          <6>. QED BY <4>5, <4>6, <6>1 DEF RecordedOf
        <5>. QED BY <5>1, <5>2
      <4>. QED BY <1>1, <3>4, <3>6, <4>1, <4>3, <4>4, <4>6, Batched
    <3>9. CASE handlers' = [handlers EXCEPT ![h] = C!Idle] /\ C!Mark(C!Items(h), "cut")
      <4>1. MarksGrow /\ cmarks' \in [Messages -> SUBSET C!Marks] /\ \A n \in Messages : n \in C!Items(h) => "cut" \in cmarks'[n]
        BY <2>2, <3>9, Marking
      <4>2. \A n \in Messages : (\E i \in DOMAIN handlers[h].items : handlers[h].items[i] = n) => RecordedOf(n)'
        BY <1>6, <4>1 DEF RecordedOf
      <4>. QED BY <1>1, <1>5, <3>4, <3>6, <3>9, <4>1, <4>2, Batched
    <3>. QED BY <1>8, <2>1, <2>4, <3>8, <3>9 DEF C!Status, C!Return
  <2>. QED BY <2>3, <2>4
<1>. QED BY <1>7, <1>8

(* A restart keeps the invariant.                                           *)
LEMMA RestartStops == ASSUME CloudGiven, CloudInv, C!Restart PROVE CloudInv'
<1>. DEFINE Hit == UNION {{C!Msg(h)} \cup C!Items(h) : h \in Handlers}
<1>1. Settled /\ sent' = sent /\ rows' = rows /\ ctold' = ctold /\ filed' = filed /\ statuses' = statuses
      /\ contact' = contact /\ chat' = chat /\ phoneNumber' = Nobody
      /\ handlers' = [h \in Handlers |-> C!Idle]
  BY DEF C!Restart, Settled, C!fixed, C!store
<1>2. "cut" \in C!Marks /\ C!Idle \in Works
  BY DEF C!Marks, C!Idle, Works, C!Pcs
<1>3. MarksGrow /\ cmarks' \in [Messages -> SUBSET C!Marks] /\ \A n \in Messages : n \in Hit => "cut" \in cmarks'[n]
  BY <1>2, Marking DEF C!Restart
<1>4. \A h \in Handlers : C!Msg(h) \in Hit /\ C!Items(h) \subseteq Hit
  OBVIOUS
<1>5. C!Meta' <=> C!Meta
  BY <1>1 DEF C!Meta, Settled
<1>6. CloudTypes'
  BY <1>1, <1>2, <1>3 DEF CloudInv, CloudTypes, Settled
<1>7. NothingSaid' /\ FiledRight'
  BY <1>1, <1>3 DEF CloudInv, NothingSaid, NothingOf, FiledRight, FiledOf, Unmixed,
         MarksGrow
<1>8. ASSUME NEW h \in Handlers PROVE WorkOK(handlers[h])' /\ KnowsContact(handlers[h])'
  <2>1. WorkOK(C!Idle)' /\ KnowsContact(C!Idle)'
    BY DEF WorkOK, KnowsContact, C!Idle
  <2>. QED BY <1>1, <2>1
<1>9. Counts'
  <2>. SUFFICES ASSUME NEW m \in Messages, Plain(m)' PROVE Over(m)' /\ \A h \in Handlers : C!Msg(h)' # m
    BY DEF Counts, CountOf
  <2>1. Plain(m) /\ m \notin Hit
    BY <1>1, <1>3 DEF Plain, MarksGrow
  <2>2. \A h \in Handlers : C!Msg(h) # m
    BY <1>4, <2>1
  <2>3. Over(m)
    BY <2>1, <2>2 DEF CloudInv, Counts, CountOf
  <2>4. Over(m)'
    BY <1>1, <1>5, <2>3 DEF Over, C!Recognised, C!Media, Settled
  <2>. QED BY <1>1, <2>4 DEF C!Msg, C!Idle, CloudGiven
<1>10. Recorded'
  <2>. SUFFICES ASSUME NEW m \in Messages PROVE RecordedOf(m)'
    BY DEF Recorded
  <2>1. CASE \E h \in Handlers : \E n \in DOMAIN handlers[h].items : handlers[h].items[n] = m
    <3>1. m \in Hit
      BY <1>4, <2>1 DEF C!Items
    <3>. QED BY <1>3, <3>1 DEF RecordedOf
  <2>2. CASE statuses[m].recorded = statuses[m].reported \/ cmarks[m] \cap {"early", "cut"} # {}
    BY <1>1, <1>3, <2>2 DEF RecordedOf, MarksGrow
  <2>. QED BY <2>1, <2>2 DEF CloudInv, Recorded, RecordedOf
<1>11. ContactDue'
  <2>. SUFFICES ASSUME ~C!Meta, NEW m \in Messages, sent[m].with # Nobody, ~sent[m].own
                PROVE  "cut" \in cmarks'[m] \/ sent[m].with \in contact
    BY <1>1, <1>5 DEF ContactDue
  <2>1. \/ \E h \in Handlers : C!Msg(h) = m
        \/ "cut" \in cmarks[m]
        \/ sent[m].with \in contact
    BY DEF CloudInv, ContactDue
  <2>. QED BY <1>3, <1>4, <2>1 DEF MarksGrow
<1>12. ChatDue'
  <2>. SUFFICES ASSUME ~C!Meta, NEW c \in contact \ chat PROVE \E n \in Messages : "cut" \in cmarks'[n]
    BY <1>1, <1>5 DEF ChatDue
  <2>1. CASE \E h \in Handlers : C!At(h, "chat") /\ handlers[h].jid = c
    <3>. PICK h \in Handlers : C!At(h, "chat")
      BY <2>1
    <3>1. C!Msg(h) \in Messages
      BY AtWork DEF C!At
    <3>. QED BY <1>3, <1>4, <3>1
  <2>2. CASE \E n \in Messages : "cut" \in cmarks[n]
    BY <1>3, <2>2 DEF MarksGrow
  <2>. QED BY <2>1, <2>2 DEF CloudInv, ChatDue
<1>. QED BY <1>6, <1>7, <1>8, <1>9, <1>10, <1>11, <1>12 DEF CloudInv

(* So does a step of something else.                                        *)
LEMMA CloudStays == ASSUME CloudInv, UNCHANGED C!vars PROVE CloudInv'
<1>. USE DEF C!vars, C!fixed, C!store
<1>1. CloudTypes' /\ NothingSaid' /\ FiledRight'
  BY DEF CloudInv, CloudTypes, NothingSaid, NothingOf, FiledRight, FiledOf, Unmixed
<1>2. MarksGrow /\ SentGrow /\ Settled
  BY DEF MarksGrow, SentGrow, Settled
<1>3. ASSUME NEW h \in Handlers PROVE WorkOK(handlers[h])' /\ KnowsContact(handlers[h])'
  <2>. PICK f \in Works : f = handlers[h]
    BY DEF CloudInv, CloudTypes
  <2>1. WorkOK(f) /\ KnowsContact(f)
    BY DEF CloudInv
  <2>2. WorkOK(f)' /\ KnowsContact(f)'
    BY <1>2, <2>1, WorkStays
  <2>. QED BY <2>2
<1>4. Counts'
  BY <1>2, CountStays DEF Counts
<1>5. Recorded'
  BY <1>2, RecordedStays DEF Recorded
<1>6. ContactDue' /\ ChatDue'
  BY DEF CloudInv, ContactDue, ChatDue, C!Meta, C!Msg, C!At
<1>. QED BY <1>1, <1>3, <1>4, <1>5, <1>6 DEF CloudInv

(* Every step of the channel keeps the invariant.                           *)
LEMMA CloudStep == ASSUME CloudGiven, CloudInv, [C!Next]_C!vars PROVE CloudInv'
<1>1. ASSUME NEW h \in Handlers,
             C!Connect(h) \/ C!MessageHandle(h) \/ C!StoreMedia(h) \/ C!Tell(h) \/ C!EvolutionHandler(h) \/ C!StoreMessage(h)
      PROVE  CloudInv'
  BY <1>1, ConnectGoes, MessageHandleGoes, StatusesGoes, StoreMediaGoes, TellGoes,
     EvolutionHandlerGoes,
     StoreMessageGoes
<1>2. ASSUME NEW h \in Handlers,
             C!FindContact(h) \/ C!CreateContact(h) \/ C!CreateChat(h) \/ C!Status(h)
               \/ C!Upload(h) \/ C!TellSent(h) \/ C!StoreSent(h)
      PROVE  CloudInv'
  BY <1>2, FindContactGoes, CreateContactGoes, CreateChatGoes, StatusGoes, UploadGoes,
     TellSentGoes, StoreSentGoes
<1>3. ASSUME NEW h \in Handlers, NEW m \in Messages,
             C!Receive(h, m) \/ C!ReceiveAgain(h, m) \/ C!GraphSend(h, m) \/ C!EvolutionSend(h, m)
      PROVE  CloudInv'
  <2>1. CASE C!Receive(h, m) \/ C!ReceiveAgain(h, m)
    BY <2>1, ReceiveStarts, ReceiveAgainStarts
  <2>2. CASE C!GraphSend(h, m) \/ C!EvolutionSend(h, m)
    <3>. PICK label : C!Sends(h, m, label) /\ ((C!Meta /\ label = "send") \/ (~C!Meta /\ label = "upload"))
      BY <2>2 DEF C!GraphSend, C!EvolutionSend
    <3>. QED BY SendsStarts
  <2>. QED BY <1>3, <2>1, <2>2
<1>4. ASSUME NEW h \in Handlers, NEW g \in Handlers, NEW m \in Messages, NEW n \in Messages, C!ReceiveTwo(h, g, m, n)
      PROVE  CloudInv'
  BY <1>4, ReceiveTwoStarts
<1>5. ASSUME NEW h \in Handlers, NEW items \in C!Batches, C!ReceiveStatuses(h, items)
      PROVE  CloudInv'
  BY <1>5, ReceiveStatusesStarts
<1>6. CASE C!Restart
  BY <1>6, RestartStops
<1>7. CASE UNCHANGED C!vars
  BY <1>7, CloudStays
<1>. QED BY <1>1, <1>2, <1>3, <1>4, <1>5, <1>6, <1>7 DEF C!Next

(* Whatever webhooks and requests overlap, what is stored or told of a      *)
(* message names the contact it was exchanged with, and a contact of the    *)
(* Evolution channel that has written has its row and its chat, save where  *)
(* the property excepts it: for any contacts, messages and handlers.        *)
THEOREM FiledRightly == MCSpec => []FiledUnderContact
PROOF
  <1>0. CloudGiven
    BY MessagesAssumption DEF CloudGiven
  <1>1. MCInit => CloudInv
    BY <1>0, CloudInit DEF MCInit
  <1>2. CloudInv /\ [MCNext]_<<scene, vars, cvars, svars, dvars, avars, evars>> => CloudInv'
    <2>1. [MCNext]_<<scene, vars, cvars, svars, dvars, avars, evars>> => [C!Next]_C!vars
      BY DEF MCNext, cvars, C!vars, C!fixed, C!store
    <2>. QED BY <1>0, <2>1, CloudStep
  <1>3. CloudInv => FiledUnderContact
    BY <1>0, CloudEntails DEF FiledUnderContact
  <1>. QED BY <1>1, <1>2, <1>3, PTL DEF MCSpec

(* When nothing is under way, a message of the two other channels was told  *)
(* once and has one row, and its statuses are recorded, save where the      *)
(* property excepts it: for any contacts, messages and handlers.            *)
THEOREM ToldAndStoredOnce == MCSpec => []OnceAndStored
PROOF
  <1>0. CloudGiven
    BY MessagesAssumption DEF CloudGiven
  <1>1. MCInit => CloudInv
    BY <1>0, CloudInit DEF MCInit
  <1>2. CloudInv /\ [MCNext]_<<scene, vars, cvars, svars, dvars, avars, evars>> => CloudInv'
    <2>1. [MCNext]_<<scene, vars, cvars, svars, dvars, avars, evars>> => [C!Next]_C!vars
      BY DEF MCNext, cvars, C!vars, C!fixed, C!store
    <2>. QED BY <1>0, <2>1, CloudStep
  <1>3. CloudInv => OnceAndStored
    BY <1>0, CloudEntails DEF OnceAndStored
  <1>. QED BY <1>1, <1>2, <1>3, PTL DEF MCSpec

=============================================================================
