----------------------------- MODULE AgendaProofs -----------------------------
(***************************************************************************)
(* Theorems about Trinity for every set of car washes, phones, services,   *)
(* requests, handlers and passes, and about the booking page, SiteWizard,  *)
(* for any washes, days and times.  The inductive invariant of Trinity is  *)
(* IInv: the types, the absence of overlap, and what the program counters  *)
(* say of the values the processes carry from one statement to the next.   *)
(***************************************************************************)
EXTENDS Trinity, SiteWizard, TLAPS

-----------------------------------------------------------------------------
(* What a process holds between two statements refers to rows that exist.  *)
RequestsHoldBodies ==
  \A r \in Requests :
    requests[r].pc # "idle" =>
      requests[r].body \in Bodies /\ Catalogue[requests[r].body.org] # <<>>

PassesHoldRows ==
  \A p \in Passes :
    /\ passes[p].todo \subseteq DOMAIN appts
    /\ passes[p].pc = "mark" => passes[p].apt \in DOMAIN appts

HandlersHoldRows ==
  \A h \in Handlers :
    /\ handlers[h].pc # "idle" => handlers[h].msg \in Messages
    /\ handlers[h].pc \in {"cancel", "confirm"} => handlers[h].apt \in DOMAIN appts

IInv == TypeOK /\ NoOverlap /\ RequestsHoldBodies /\ PassesHoldRows /\ HandlersHoldRows

USE DEF storeVars, confirmationVars

-----------------------------------------------------------------------------
(* Lemmas about the statements on appointments.                            *)

(* INSERT adds one well-formed row and leaves the others as they are.      *)
LEMMA InsertRow ==
  ASSUME StoreTypeOK, NEW id \in AptIds, NEW a \in Appointments,
         InsertAppointment(id, a)
  PROVE  /\ DOMAIN appts' = DOMAIN appts \cup {id}
         /\ DOMAIN appts' \subseteq AptIds
         /\ \A i \in DOMAIN appts' : appts'[i] \in Appointments
BY DEF StoreTypeOK, InsertAppointment

(* An INSERT the constraint accepts creates no overlap.                    *)
LEMMA InsertNoOverlap ==
  ASSUME NoOverlap, NEW id, NEW a,
         InsertOutcome(id, a) = "ok", InsertAppointment(id, a)
  PROVE  NoOverlap'
<1>1. id \notin DOMAIN appts /\ FitsAgenda(id, a)
  BY DEF InsertOutcome
<1>2. DOMAIN appts' = DOMAIN appts \cup {id}
  BY DEF InsertAppointment
<1>3. appts'[id] = a /\ \A i \in DOMAIN appts : appts'[i] = appts[i]
  BY <1>1 DEF InsertAppointment
<1>4. ASSUME Occupying(a), NEW i \in DOMAIN appts, Occupying(appts[i])
      PROVE  ~Overlaps(a, appts[i]) /\ ~Overlaps(appts[i], a)
  BY <1>1, <1>4 DEF FitsAgenda, Overlaps
<1> QED
  BY <1>1, <1>2, <1>3, <1>4 DEF NoOverlap

(* An UPDATE that neither moves a row nor puts it where it does not fit    *)
(* creates no overlap.                                                     *)
LEMMA UpdateNoOverlap ==
  ASSUME NoOverlap, NEW i \in DOMAIN appts, NEW a,
         appts' = [appts EXCEPT ![i] = a],
         FitsAgenda(i, a)
  PROVE  NoOverlap'
<1>1. DOMAIN appts' = DOMAIN appts
  OBVIOUS
<1>2. appts'[i] = a /\ \A j \in DOMAIN appts \ {i} : appts'[j] = appts[j]
  OBVIOUS
<1>3. ASSUME Occupying(a), NEW j \in DOMAIN appts \ {i}, Occupying(appts[j])
      PROVE  ~Overlaps(a, appts[j]) /\ ~Overlaps(appts[j], a)
  BY <1>3 DEF FitsAgenda, Overlaps
<1> QED
  BY <1>1, <1>2, <1>3 DEF NoOverlap

(* A row that already occupies the agenda, or will not, fits unmoved.      *)
LEMMA UnmovedFits ==
  ASSUME NoOverlap, NEW i \in DOMAIN appts, NEW a,
         Occupying(a) => Occupying(appts[i]),
         a.org = appts[i].org, a.start = appts[i].start, a.finish = appts[i].finish
  PROVE  FitsAgenda(i, a)
BY DEF NoOverlap, FitsAgenda, Overlaps

(* The row a booking writes is well formed.                                *)
LEMMA NewRow ==
  ASSUME NEW c \in CustomerRows, NEW o \in Orgs, NEW s \in Services,
         NEW v \in CustomerRows \cup {NoVehicle},
         NEW start \in Nat, NEW finish \in Nat
  PROVE  NewAppointment(c, o, s, v, start, finish) \in Appointments
BY DEF NewAppointment, Appointments, Statuses

LEMMA CustomerRowType ==
  ASSUME NEW p \in Phones, NEW o \in Orgs
  PROVE  /\ CustomerRow(BarePhone(p), o) \in CustomerRows
         /\ CustomerRow(WhatsAppJid(p), o) \in CustomerRows
BY DEF CustomerRow, BarePhone, WhatsAppJid, CustomerRows, Jids

-----------------------------------------------------------------------------
LEMMA InitIInv == Init => IInv
<1> SUFFICES ASSUME Init PROVE IInv
  OBVIOUS
<1> USE DEF Init, StoreInit, SiteInit, ConfirmationInit, HandlerInit
<1>1. StoreTypeOK
  BY StoreAssumption DEF StoreTypeOK
<1>2. SiteTypeOK
  BY DEF SiteTypeOK, RequestStates, Replies
<1>3. ConfirmationTypeOK
  BY ConfirmationAssumption DEF ConfirmationTypeOK, PassStates, Idle
<1>4. HandlerTypeOK
  BY DEF HandlerTypeOK, HandlerStates, Quiet
<1>5. NoOverlap
  BY DEF NoOverlap
<1>6. RequestsHoldBodies
  BY DEF RequestsHoldBodies
<1>7. PassesHoldRows
  BY DEF PassesHoldRows, Idle
<1>8. HandlersHoldRows
  BY DEF HandlersHoldRows, Quiet
<1> QED
  BY <1>1, <1>2, <1>3, <1>4, <1>5, <1>6, <1>7, <1>8 DEF IInv, TypeOK

-----------------------------------------------------------------------------
(* The steps of the booking endpoint.                                      *)

LEMMA SiteRowType ==
  ASSUME NEW b \in Bodies, Catalogue[b.org] # <<>>
  PROVE  /\ SiteCustomer(b) \in CustomerRows
         /\ SiteAppointment(b) \in Appointments
<1>1. SiteCustomer(b) \in CustomerRows
  BY CustomerRowType DEF SiteCustomer, Bodies
<1>2. EffectiveService(b) \in Services
  <2>1. CASE InCatalogue(b.org, b.service)
    BY <2>1 DEF EffectiveService, Bodies
  <2>2. CASE ~InCatalogue(b.org, b.service)
    <3>1. Catalogue[b.org] \in Seq(Services)
      BY StoreAssumption DEF Bodies
    <3>2. Catalogue[b.org][1] \in Services
      BY <3>1
    <3> QED
      BY <2>2, <3>2 DEF EffectiveService
  <2> QED
    BY <2>1, <2>2
<1>3. Duration[EffectiveService(b)] \in Nat
  BY <1>2, StoreAssumption
<1>4. b.start \in Nat
  BY StoreAssumption DEF Bodies
<1>5. SiteEnd(b) \in Nat
  BY <1>3, <1>4 DEF SiteEnd
<1> QED
  BY <1>1, <1>2, <1>4, <1>5, NewRow DEF SiteAppointment, Bodies

(* The other processes' facts survive a step that leaves them alone and    *)
(* deletes no row.                                                         *)
LEMMA OthersKeep ==
  ASSUME IInv, DOMAIN appts \subseteq DOMAIN appts'
  PROVE  /\ UNCHANGED requests => SiteTypeOK' /\ RequestsHoldBodies'
         /\ UNCHANGED passes => PassesHoldRows'
         /\ UNCHANGED confirmationVars => ConfirmationTypeOK' /\ PassesHoldRows'
         /\ UNCHANGED handlers => HandlerTypeOK' /\ HandlersHoldRows'
<1>1. UNCHANGED requests => SiteTypeOK' /\ RequestsHoldBodies'
  BY DEF IInv, TypeOK, SiteTypeOK, RequestsHoldBodies
<1>2. UNCHANGED passes => PassesHoldRows'
  BY DEF IInv, PassesHoldRows
<1>3. UNCHANGED confirmationVars => ConfirmationTypeOK'
  BY DEF IInv, TypeOK, ConfirmationTypeOK
<1>4. UNCHANGED handlers => HandlerTypeOK' /\ HandlersHoldRows'
  BY DEF IInv, TypeOK, HandlerTypeOK, HandlersHoldRows
<1> QED
  BY <1>1, <1>2, <1>3, <1>4

(* A request that only moves on, or answers, keeps its own facts.          *)
LEMMA RequestMoves ==
  ASSUME IInv, NEW r \in Requests
  PROVE  /\ \A code \in Replies : Respond(r, code) => SiteTypeOK' /\ RequestsHoldBodies'
         /\ \A label \in RequestStates :
              requests[r].pc # "idle" /\ Goto(r, label) => SiteTypeOK' /\ RequestsHoldBodies'
<1>1. ASSUME NEW code \in Replies, Respond(r, code)
      PROVE  SiteTypeOK' /\ RequestsHoldBodies'
  BY <1>1 DEF IInv, TypeOK, SiteTypeOK, RequestsHoldBodies, Respond, RequestStates
<1>2. ASSUME NEW label \in RequestStates, requests[r].pc # "idle", Goto(r, label)
      PROVE  SiteTypeOK' /\ RequestsHoldBodies'
  BY <1>2 DEF IInv, TypeOK, SiteTypeOK, RequestsHoldBodies, Goto
<1> QED
  BY <1>1, <1>2

(* Statements that leave the appointments alone keep NoOverlap.            *)
LEMMA StoreKeeps ==
  ASSUME IInv, UNCHANGED appts
  PROVE  NoOverlap' /\ DOMAIN appts \subseteq DOMAIN appts'
BY DEF IInv, NoOverlap

LEMMA SiteStepIInv ==
  ASSUME IInv, NEW r \in Requests, SiteStep(r), UNCHANGED <<confirmationVars, handlers>>
  PROVE  IInv'
<1> USE DEF RequestStates, Replies
<1>1. CASE PostBooking(r)
  <2>1. UNCHANGED appts /\ StoreTypeOK'
    BY <1>1 DEF PostBooking, IInv, TypeOK, StoreTypeOK
  <2>2. PICK b \in Bodies :
          IF Catalogue[b.org] = <<>>
          THEN Respond(r, "500")
          ELSE requests' = [requests EXCEPT ![r] =
                 [pc |-> IF SiteLookup(b) THEN "find_vehicle" ELSE "insert_customer",
                  body |-> b, reply |-> "none"]]
    BY <1>1 DEF PostBooking
  <2>3. CASE Catalogue[b.org] = <<>>
    BY <2>1, <2>2, <2>3, RequestMoves, StoreKeeps, OthersKeep DEF IInv, TypeOK
  <2>4. CASE Catalogue[b.org] # <<>>
    <3>1. SiteTypeOK' /\ RequestsHoldBodies'
      BY <2>2, <2>4 DEF IInv, TypeOK, SiteTypeOK, RequestsHoldBodies
    <3> QED
      BY <2>1, <3>1, StoreKeeps, OthersKeep DEF IInv, TypeOK
  <2> QED
    BY <2>3, <2>4
<1> DEFINE b == requests[r].body
<1>b. ASSUME requests[r].pc # "idle"
      PROVE  b \in Bodies /\ SiteCustomer(b) \in CustomerRows /\ SiteAppointment(b) \in Appointments
  BY <1>b, SiteRowType DEF IInv, RequestsHoldBodies
<1>2. CASE SiteInsertCustomer(r)
  <2>1. UNCHANGED appts /\ StoreTypeOK'
    BY <1>2, <1>b DEF SiteInsertCustomer, InsertCustomer, IInv, TypeOK, StoreTypeOK
  <2>2. requests[r].pc # "idle" /\ (Goto(r, "find_vehicle") \/ Respond(r, "500"))
    BY <1>2 DEF SiteInsertCustomer
  <2> QED
    BY <2>1, <2>2, RequestMoves, StoreKeeps, OthersKeep DEF IInv, TypeOK
<1>3. CASE SiteFindVehicle(r)
  <2>1. UNCHANGED appts /\ StoreTypeOK'
    BY <1>3 DEF SiteFindVehicle, IInv, TypeOK, StoreTypeOK
  <2>2. requests[r].pc # "idle" /\ (Goto(r, "insert_appointment") \/ Goto(r, "insert_vehicle"))
    BY <1>3 DEF SiteFindVehicle
  <2> QED
    BY <2>1, <2>2, RequestMoves, StoreKeeps, OthersKeep DEF IInv, TypeOK
<1>4. CASE SiteInsertVehicle(r)
  <2>1. UNCHANGED appts /\ StoreTypeOK'
    BY <1>4, <1>b DEF SiteInsertVehicle, IInv, TypeOK, StoreTypeOK
  <2>2. requests[r].pc # "idle" /\ Goto(r, "insert_appointment")
    BY <1>4 DEF SiteInsertVehicle
  <2> QED
    BY <2>1, <2>2, RequestMoves, StoreKeeps, OthersKeep DEF IInv, TypeOK
<1>5. CASE SiteInsertAppointment(r)
  <2> DEFINE a == SiteAppointment(b)
             Id(ms) == [at |-> now, ms |-> ms]
  <2>1. PICK ms \in Millis :
          \/ InsertOutcome(Id(ms), a) = "ok" /\ InsertAppointment(Id(ms), a) /\ Respond(r, "201")
          \/ UNCHANGED appts /\ (Respond(r, "409") \/ Respond(r, "500"))
    BY <1>5 DEF SiteInsertAppointment
  <2>2. UNCHANGED <<now, customers, vehicles>> /\ requests[r].pc # "idle"
    BY <1>5 DEF SiteInsertAppointment
  <2>3. a \in Appointments
    BY <1>b, <2>2
  <2>4. Id(ms) \in AptIds
    BY DEF IInv, TypeOK, StoreTypeOK, AptIds
  <2>5. CASE InsertOutcome(Id(ms), a) = "ok" /\ InsertAppointment(Id(ms), a) /\ Respond(r, "201")
    <3> HIDE DEF a, Id
    <3>1. DOMAIN appts \subseteq DOMAIN appts' /\ StoreTypeOK'
      BY <2>2, <2>3, <2>4, <2>5, InsertRow DEF IInv, TypeOK, StoreTypeOK
    <3>2. NoOverlap'
      BY <2>5, InsertNoOverlap DEF IInv
    <3> QED
      BY <2>5, <3>1, <3>2, RequestMoves, OthersKeep DEF IInv, TypeOK
  <2>6. CASE UNCHANGED appts /\ (Respond(r, "409") \/ Respond(r, "500"))
    <3>1. StoreTypeOK'
      BY <2>2, <2>6 DEF IInv, TypeOK, StoreTypeOK
    <3> QED
      BY <2>6, <3>1, RequestMoves, StoreKeeps, OthersKeep DEF IInv, TypeOK
  <2> QED
    BY <2>1, <2>5, <2>6
<1> QED
  BY <1>1, <1>2, <1>3, <1>4, <1>5 DEF SiteStep

-----------------------------------------------------------------------------
(* The steps of the confirmation job.                                      *)

(* Going on with a set of existing rows keeps the facts of the passes.     *)
LEMMA PassMoves ==
  ASSUME IInv, NEW p \in Passes, NEW todo \in SUBSET DOMAIN appts, NextApt(p, todo),
         DOMAIN appts' = DOMAIN appts
  PROVE  /\ passes' \in [Passes -> [pc : PassStates, todo : SUBSET AptIds,
                                    apt : AptIds \cup {NoApt}]]
         /\ PassesHoldRows'
<1>1. todo \subseteq AptIds
  BY DEF IInv, TypeOK, StoreTypeOK
<1>2. passes \in [Passes -> [pc : PassStates, todo : SUBSET AptIds,
                             apt : AptIds \cup {NoApt}]]
  BY DEF IInv, TypeOK, ConfirmationTypeOK
<1>3. PICK q \in [pc : PassStates, todo : SUBSET AptIds, apt : AptIds \cup {NoApt}] :
        /\ passes' = [passes EXCEPT ![p] = q]
        /\ q.todo \subseteq DOMAIN appts
        /\ q.pc # "mark"
  <2> DEFINE q == IF todo = {} THEN Idle ELSE [pc |-> "send", todo |-> todo, apt |-> NoApt]
  <2>1. q \in [pc : PassStates, todo : SUBSET AptIds, apt : AptIds \cup {NoApt}]
    BY <1>1 DEF Idle, PassStates
  <2>2. q.todo \subseteq DOMAIN appts /\ q.pc # "mark"
    BY DEF Idle
  <2>3. passes' = [passes EXCEPT ![p] = q]
    BY DEF NextApt
  <2> QED
    BY <2>1, <2>2, <2>3
<1> QED
  BY <1>2, <1>3 DEF PassesHoldRows, IInv

(* Marking a row changes neither its place in the agenda nor its status.   *)
LEMMA MarkRow ==
  ASSUME IInv, NEW i \in DOMAIN appts,
         appts' = [appts EXCEPT ![i].confirmationSentAt = now],
         UNCHANGED <<now, customers, vehicles>>
  PROVE  StoreTypeOK' /\ NoOverlap' /\ DOMAIN appts' = DOMAIN appts
<1> DEFINE a == [appts[i] EXCEPT !.confirmationSentAt = now]
<1>1. appts' = [appts EXCEPT ![i] = a]
  OBVIOUS
<1>2. appts[i] \in Appointments /\ now \in Nat
  BY StoreAssumption DEF IInv, TypeOK, StoreTypeOK
<1>3. /\ a \in Appointments
      /\ a.org = appts[i].org /\ a.start = appts[i].start
      /\ a.finish = appts[i].finish /\ a.status = appts[i].status
  BY <1>2 DEF Appointments
<1> HIDE DEF a
<1>4. FitsAgenda(i, a)
  BY <1>3, UnmovedFits DEF IInv, Occupying
<1>5. NoOverlap'
  BY <1>1, <1>4, UpdateNoOverlap DEF IInv
<1>6. StoreTypeOK'
  BY <1>1, <1>3 DEF IInv, TypeOK, StoreTypeOK
<1> QED
  BY <1>1, <1>5, <1>6

LEMMA ConfirmationStepIInv ==
  ASSUME IInv, NEW p \in Passes, ConfirmationStep(p), UNCHANGED <<requests, handlers>>
  PROVE  IInv'
<1>t. /\ passes \in [Passes -> [pc : PassStates, todo : SUBSET AptIds,
                                apt : AptIds \cup {NoApt}]]
      /\ nextTick \in Nat /\ asked \in [AptIds -> Nat] /\ faults \in 0..MaxFaults
      /\ now \in Nat /\ DOMAIN appts \subseteq AptIds
      /\ passes[p].todo \subseteq DOMAIN appts
  BY StoreAssumption DEF IInv, TypeOK, StoreTypeOK, ConfirmationTypeOK, PassesHoldRows
<1>k. ASSUME UNCHANGED storeVars, ConfirmationTypeOK', PassesHoldRows'
      PROVE  IInv'
  <2>1. StoreTypeOK'
    BY <1>k DEF IInv, TypeOK, StoreTypeOK
  <2>2. NoOverlap' /\ DOMAIN appts \subseteq DOMAIN appts'
    BY <1>k, StoreKeeps
  <2> QED
    BY <1>k, <2>1, <2>2, OthersKeep DEF IInv, TypeOK
<1>1. CASE CheckAndSendConfirmations(p)
  <2>1. NextApt(p, DueForConfirmation) /\ DueForConfirmation \in SUBSET DOMAIN appts
    BY <1>1 DEF CheckAndSendConfirmations, DueForConfirmation
  <2>2. UNCHANGED storeVars /\ UNCHANGED <<asked, faults>> /\ nextTick' \in Nat
    BY <1>1, <1>t, ConfirmationAssumption DEF CheckAndSendConfirmations
  <2>3. ConfirmationTypeOK' /\ PassesHoldRows'
    BY <1>t, <2>1, <2>2, PassMoves DEF ConfirmationTypeOK
  <2> QED
    BY <1>k, <2>2, <2>3
<1>2. CASE SendConfirmation(p)
  <2>1. PICK i \in passes[p].todo :
          /\ asked' = [asked EXCEPT ![i] = @ + 1]
          /\ passes' = [passes EXCEPT ![p] =
                          [pc |-> "mark", todo |-> passes[p].todo \ {i}, apt |-> i]]
    BY <1>2, <1>t DEF SendConfirmation
  <2>2. UNCHANGED storeVars /\ UNCHANGED <<nextTick, faults>>
    BY <1>2 DEF SendConfirmation
  <2>3. asked' \in [AptIds -> Nat]
    BY <1>t, <2>1
  <2>4. ConfirmationTypeOK'
    BY <1>t, <2>1, <2>2, <2>3 DEF ConfirmationTypeOK, PassStates
  <2>5. PassesHoldRows'
    BY <1>t, <2>1, <2>2 DEF PassesHoldRows, IInv
  <2> QED
    BY <1>k, <2>2, <2>4, <2>5
<1>3. CASE SendFails(p)
  <2>1. PICK i \in passes[p].todo : NextApt(p, passes[p].todo \ {i})
    BY <1>3 DEF SendFails
  <2>2. UNCHANGED storeVars /\ UNCHANGED <<nextTick, asked>> /\ faults' \in 0..MaxFaults
    BY <1>3, <1>t, ConfirmationAssumption DEF SendFails
  <2>3. ConfirmationTypeOK' /\ PassesHoldRows'
    BY <1>t, <2>1, <2>2, PassMoves DEF ConfirmationTypeOK
  <2> QED
    BY <1>k, <2>2, <2>3
<1>4. CASE MarkConfirmationSent(p)
  <2>1. passes[p].apt \in DOMAIN appts
    BY <1>4 DEF MarkConfirmationSent, IInv, PassesHoldRows
  <2>2. StoreTypeOK' /\ NoOverlap' /\ DOMAIN appts' = DOMAIN appts
    BY <1>4, <2>1, MarkRow DEF MarkConfirmationSent
  <2>3. NextApt(p, passes[p].todo) /\ UNCHANGED <<nextTick, asked, faults>>
    BY <1>4 DEF MarkConfirmationSent
  <2>4. ConfirmationTypeOK' /\ PassesHoldRows'
    BY <1>t, <2>2, <2>3, PassMoves DEF ConfirmationTypeOK
  <2> QED
    BY <2>2, <2>4, OthersKeep DEF IInv, TypeOK
<1>5. CASE MarkFails(p)
  <2>1. NextApt(p, passes[p].todo)
    BY <1>5 DEF MarkFails
  <2>2. UNCHANGED storeVars /\ UNCHANGED <<nextTick, asked>> /\ faults' \in 0..MaxFaults
    BY <1>5, <1>t, ConfirmationAssumption DEF MarkFails
  <2>3. ConfirmationTypeOK' /\ PassesHoldRows'
    BY <1>t, <2>1, <2>2, PassMoves DEF ConfirmationTypeOK
  <2> QED
    BY <1>k, <2>2, <2>3
<1> QED
  BY <1>1, <1>2, <1>3, <1>4, <1>5 DEF ConfirmationStep

-----------------------------------------------------------------------------
(* The steps of the webhook handlers.                                      *)

(* Moving on within a message, or finishing it, keeps the handlers' facts. *)
LEMMA HandlerMoves ==
  ASSUME IInv, NEW h \in Handlers, DOMAIN appts \subseteq DOMAIN appts'
  PROVE  /\ Finish(h) => HandlerTypeOK' /\ HandlersHoldRows'
         /\ \A label \in {"pending", "ask"} :
              handlers[h].pc # "idle" /\ Step(h, label) => HandlerTypeOK' /\ HandlersHoldRows'
<1>1. ASSUME Finish(h) PROVE HandlerTypeOK' /\ HandlersHoldRows'
  BY <1>1 DEF IInv, TypeOK, HandlerTypeOK, HandlersHoldRows, Finish, Quiet, HandlerStates
<1>2. ASSUME NEW label \in {"pending", "ask"}, handlers[h].pc # "idle", Step(h, label)
      PROVE  HandlerTypeOK' /\ HandlersHoldRows'
  BY <1>2 DEF IInv, TypeOK, HandlerTypeOK, HandlersHoldRows, Step, HandlerStates
<1> QED
  BY <1>1, <1>2

(* A status a handler writes leaves a well-formed table without overlap.   *)
LEMMA SettleRow ==
  ASSUME IInv, NEW i \in DOMAIN appts, NEW a \in {Confirmed(appts[i]), Cancelled(appts[i])},
         a = Cancelled(appts[i]) \/ FitsAgenda(i, a),
         appts' = [appts EXCEPT ![i] = a],
         UNCHANGED <<now, customers, vehicles>>
  PROVE  StoreTypeOK' /\ NoOverlap' /\ DOMAIN appts' = DOMAIN appts
<1>1. appts[i] \in Appointments /\ now \in Nat
  BY StoreAssumption DEF IInv, TypeOK, StoreTypeOK
<1>2. a \in Appointments
  BY <1>1 DEF Appointments, Confirmed, Cancelled, Statuses
<1>3. ASSUME a = Cancelled(appts[i])
      PROVE  FitsAgenda(i, a)
  <2>1. Cancelled(appts[i]).status = "cancelado"
    BY <1>1 DEF Cancelled, Appointments
  <2> QED
    BY <1>3, <2>1 DEF FitsAgenda, Occupying
<1>4. NoOverlap'
  BY <1>3, UpdateNoOverlap DEF IInv
<1>5. StoreTypeOK'
  BY <1>2 DEF IInv, TypeOK, StoreTypeOK
<1> QED
  BY <1>4, <1>5

LEMMA HandlerStepIInv ==
  ASSUME IInv, NEW h \in Handlers, HandlerStep(h), UNCHANGED <<requests, confirmationVars>>
  PROVE  IInv'
<1>k. ASSUME StoreTypeOK', NoOverlap', DOMAIN appts \subseteq DOMAIN appts',
             HandlerTypeOK', HandlersHoldRows'
      PROVE  IInv'
  BY <1>k, OthersKeep DEF IInv, TypeOK
<1>s. ASSUME UNCHANGED storeVars
      PROVE  StoreTypeOK' /\ NoOverlap' /\ DOMAIN appts \subseteq DOMAIN appts'
  <2>1. StoreTypeOK'
    BY <1>s DEF IInv, TypeOK, StoreTypeOK
  <2> QED
    BY <1>s, <2>1, StoreKeeps
<1>m. ASSUME handlers[h].pc # "idle"
      PROVE  /\ handlers[h].msg \in Messages
             /\ Sender(h) \in CustomerRows
  BY <1>m, CustomerRowType DEF IInv, HandlersHoldRows, Messages, Sender
<1>1. CASE HandleMessage(h)
  <2>1. UNCHANGED storeVars
    BY <1>1 DEF HandleMessage
  <2>2. HandlerTypeOK' /\ HandlersHoldRows'
    <3>1. PICK m \in Messages, label \in {"pending", "insert_customer"} :
            handlers' = [handlers EXCEPT ![h] = [pc |-> label, msg |-> m, apt |-> NoRow]]
      BY <1>1 DEF HandleMessage, Quiet
    <3> QED
      BY <2>1, <3>1 DEF IInv, TypeOK, HandlerTypeOK, HandlersHoldRows, HandlerStates
  <2> QED
    BY <1>k, <1>s, <2>1, <2>2
<1>2. CASE WaInsertCustomer(h)
  <2>1. handlers[h].pc # "idle" /\ UNCHANGED appts /\ (Step(h, "pending") \/ Finish(h))
    BY <1>2 DEF WaInsertCustomer
  <2>2. StoreTypeOK'
    BY <1>2, <1>m DEF WaInsertCustomer, InsertCustomer, IInv, TypeOK, StoreTypeOK
  <2> QED
    BY <1>k, <2>1, <2>2, StoreKeeps, HandlerMoves
<1>3. CASE ReadPending(h)
  <2>1. UNCHANGED storeVars /\ handlers[h].pc # "idle"
    BY <1>3 DEF ReadPending
  <2>2. CASE Step(h, "ask")
    BY <1>k, <1>s, <2>1, <2>2, HandlerMoves
  <2>3. CASE ~Step(h, "ask")
    <3> DEFINE tone == handlers[h].msg.tone
    <3>1. PICK i \in FirstPending(Sender(h)) :
            handlers' = [handlers EXCEPT ![h] =
              [pc |-> Verdict(tone), msg |-> handlers[h].msg,
               apt |-> IF tone = {} THEN NoRow ELSE i]]
      BY <1>3, <2>1, <2>3 DEF ReadPending, IInv, TypeOK, HandlerTypeOK
    <3>2. i \in DOMAIN appts /\ i \in AptIds
      BY DEF FirstPending, PendingApts, IInv, TypeOK, StoreTypeOK
    <3>3. tone \in Tones
      BY <1>m, <2>1 DEF Messages
    <3>4. PICK label \in {"cancel", "confirm", "ask"}, apt \in AptIds \cup {NoRow} :
            /\ handlers' = [handlers EXCEPT ![h] = [pc |-> label, msg |-> handlers[h].msg, apt |-> apt]]
            /\ label # "ask" => apt = i
      BY <3>1, <3>2, <3>3 DEF Verdict, Tones
    <3>5. HandlerTypeOK' /\ HandlersHoldRows'
      BY <1>m, <2>1, <3>2, <3>4 DEF IInv, TypeOK, HandlerTypeOK, HandlersHoldRows, HandlerStates
    <3> QED
      BY <1>k, <1>s, <2>1, <3>5
  <2> QED
    BY <2>2, <2>3
<1>4. CASE CancelAppointment(h)
  <2> DEFINE i == handlers[h].apt
  <2>1. i \in DOMAIN appts /\ UNCHANGED <<now, customers, vehicles>> /\ Finish(h)
    BY <1>4 DEF CancelAppointment, IInv, HandlersHoldRows
  <2>2. CASE UNCHANGED appts
    BY <1>k, <1>s, <2>1, <2>2, HandlerMoves
  <2>3. CASE ~UNCHANGED appts
    <3>1. appts' = [appts EXCEPT ![i] = Cancelled(appts[i])]
      BY <1>4, <2>1, <2>3 DEF CancelAppointment
    <3>2. StoreTypeOK' /\ NoOverlap' /\ DOMAIN appts' = DOMAIN appts
      BY <2>1, <3>1, SettleRow
    <3> QED
      BY <1>k, <2>1, <3>2, HandlerMoves
  <2> QED
    BY <2>2, <2>3
<1>5. CASE ConfirmAppointment(h)
  <2> DEFINE i == handlers[h].apt
  <2>1. i \in DOMAIN appts /\ UNCHANGED <<now, customers, vehicles>> /\ Finish(h)
    BY <1>5 DEF ConfirmAppointment, IInv, HandlersHoldRows
  <2>2. CASE UNCHANGED appts
    BY <1>k, <1>s, <2>1, <2>2, HandlerMoves
  <2>3. CASE ~UNCHANGED appts
    <3>1. /\ appts' = [appts EXCEPT ![i] = Confirmed(appts[i])]
          /\ FitsAgenda(i, Confirmed(appts[i]))
      BY <1>5, <2>1, <2>3 DEF ConfirmAppointment
    <3>2. StoreTypeOK' /\ NoOverlap' /\ DOMAIN appts' = DOMAIN appts
      BY <2>1, <3>1, SettleRow
    <3> QED
      BY <1>k, <2>1, <3>2, HandlerMoves
  <2> QED
    BY <2>2, <2>3
<1>6. CASE AnswerOnly(h)
  BY <1>6, <1>k, <1>s, HandlerMoves DEF AnswerOnly
<1>7. CASE BookAppointment(h)
  <2>1. PICK sv \in Services, start \in Starts, ms \in Millis :
          LET o == handlers[h].msg.org
              id == [at |-> now, ms |-> ms]
              a == NewAppointment(Sender(h), o, sv, NoVehicle,
                                  start, start + Duration[sv] + Buffer[sv])
          IN IF InsertOutcome(id, a) = "ok" THEN InsertAppointment(id, a)
                                            ELSE UNCHANGED appts
    BY <1>7 DEF BookAppointment
  <2>2. UNCHANGED <<now, customers, vehicles>> /\ Finish(h) /\ handlers[h].pc # "idle"
    BY <1>7 DEF BookAppointment
  <2> DEFINE a == NewAppointment(Sender(h), handlers[h].msg.org, sv, NoVehicle,
                                 start, start + Duration[sv] + Buffer[sv])
             id == [at |-> now, ms |-> ms]
  <2>3. a \in Appointments
    <3>1. start \in Nat /\ Duration[sv] \in Nat /\ Buffer[sv] \in Nat
      BY StoreAssumption
    <3>2. start + Duration[sv] + Buffer[sv] \in Nat
      BY <3>1
    <3> QED
      BY <1>m, <2>2, <3>1, <3>2, NewRow DEF Messages
  <2>4. id \in AptIds
    BY DEF IInv, TypeOK, StoreTypeOK, AptIds
  <2>5. (InsertOutcome(id, a) = "ok" /\ InsertAppointment(id, a)) \/ UNCHANGED appts
    BY <2>1
  <2> HIDE DEF a, id
  <2>6. CASE UNCHANGED appts
    BY <1>k, <1>s, <2>2, <2>6, HandlerMoves
  <2>7. CASE InsertOutcome(id, a) = "ok" /\ InsertAppointment(id, a)
    <3>1. DOMAIN appts \subseteq DOMAIN appts' /\ StoreTypeOK'
      BY <2>2, <2>3, <2>4, <2>7, InsertRow DEF IInv, TypeOK, StoreTypeOK
    <3>2. NoOverlap'
      BY <2>7, InsertNoOverlap DEF IInv
    <3> QED
      BY <1>k, <2>2, <3>1, <3>2, HandlerMoves
  <2> QED
    BY <2>5, <2>6, <2>7
<1> QED
  BY <1>1, <1>2, <1>3, <1>4, <1>5, <1>6, <1>7 DEF HandlerStep

-----------------------------------------------------------------------------
(* Every step keeps the inductive invariant.                               *)
LEMMA NextIInv == IInv /\ [Next]_vars => IInv'
<1> SUFFICES ASSUME IInv, [Next]_vars PROVE IInv'
  OBVIOUS
<1>s. ASSUME UNCHANGED <<customers, vehicles, appts>>, now' \in 0..Horizon
      PROVE  StoreTypeOK' /\ NoOverlap' /\ DOMAIN appts \subseteq DOMAIN appts'
  <2>1. StoreTypeOK'
    BY <1>s DEF IInv, TypeOK, StoreTypeOK
  <2> QED
    BY <1>s, <2>1, StoreKeeps
<1>1. ASSUME NEW r \in Requests, Site(r) PROVE IInv'
  <2>1. CASE SiteStep(r) /\ UNCHANGED <<confirmationVars, handlers>>
    BY <2>1, SiteStepIInv
  <2>2. CASE SiteFails(r) /\ UNCHANGED handlers
    <3>1. UNCHANGED storeVars /\ Respond(r, "500") /\ UNCHANGED <<passes, nextTick, asked>>
      BY <2>2 DEF SiteFails, SiteFailure
    <3>2. faults' \in 0..MaxFaults
      BY <2>2, ConfirmationAssumption DEF SiteFails, IInv, TypeOK, ConfirmationTypeOK
    <3>3. ConfirmationTypeOK'
      BY <3>1, <3>2 DEF IInv, TypeOK, ConfirmationTypeOK
    <3>4. StoreTypeOK' /\ NoOverlap' /\ DOMAIN appts \subseteq DOMAIN appts'
      BY <1>s, <3>1 DEF IInv, TypeOK, StoreTypeOK
    <3>5. "500" \in Replies
      BY DEF Replies
    <3> QED
      BY <2>2, <3>1, <3>3, <3>4, <3>5, RequestMoves, OthersKeep DEF IInv, TypeOK
  <2> QED
    BY <1>1, <2>1, <2>2 DEF Site
<1>2. ASSUME NEW p \in Passes, Confirmation(p) PROVE IInv'
  BY <1>2, ConfirmationStepIInv DEF Confirmation
<1>3. ASSUME NEW h \in Handlers, Handler(h) PROVE IInv'
  BY <1>3, HandlerStepIInv DEF Handler
<1>4. CASE Advance
  <2>1. now' \in 0..Horizon
    BY <1>4, StoreAssumption DEF Advance, IInv, TypeOK, StoreTypeOK
  <2> QED
    BY <1>4, <1>s, <2>1, OthersKeep DEF Advance, IInv, TypeOK
<1>5. CASE Restart
  <2>1. StoreTypeOK' /\ NoOverlap'
    BY <1>5, <1>s DEF Restart, IInv, TypeOK, StoreTypeOK
  <2>2. SiteTypeOK' /\ RequestsHoldBodies'
    BY <1>5 DEF Restart, SiteTypeOK, RequestsHoldBodies, RequestStates, Replies
  <2>3. ConfirmationTypeOK'
    <3>1. now \in Nat /\ asked \in [AptIds -> Nat] /\ faults \in 0..MaxFaults
      BY StoreAssumption DEF IInv, TypeOK, StoreTypeOK, ConfirmationTypeOK
    <3>2. nextTick' \in Nat /\ faults' \in 0..MaxFaults
      BY <1>5, <3>1, ConfirmationAssumption DEF Restart
    <3> QED
      BY <1>5, <3>1, <3>2 DEF Restart, ConfirmationTypeOK, Idle, PassStates
  <2>4. PassesHoldRows'
    BY <1>5 DEF Restart, PassesHoldRows, Idle
  <2>5. HandlerTypeOK' /\ HandlersHoldRows'
    BY <1>5 DEF Restart, HandlerTypeOK, HandlersHoldRows, Quiet, HandlerStates
  <2> QED
    BY <2>1, <2>2, <2>3, <2>4, <2>5 DEF IInv, TypeOK
<1>6. CASE UNCHANGED vars
  BY <1>6, <1>s, OthersKeep DEF vars, IInv, TypeOK, StoreTypeOK
<1> QED
  BY <1>1, <1>2, <1>3, <1>4, <1>5, <1>6 DEF Next

THEOREM InductiveInvariant == Spec => []IInv
<1>1. Init => IInv
  BY InitIInv
<1>2. IInv /\ [Next]_vars => IInv'
  BY NextIInv
<1> QED
  BY <1>1, <1>2, PTL DEF Spec

(* Type correctness of the tables and of every process, for every instance. *)
THEOREM TypeCorrect == Spec => []TypeOK
<1>1. IInv => TypeOK
  BY DEF IInv
<1> QED
  BY <1>1, InductiveInvariant, PTL

(* No car wash is ever booked twice for the same time, however many site    *)
(* requests, handlers and late confirmations interleave, and whether or not *)
(* cancelling works on the deployed schema.                                 *)
THEOREM NeverDoubleBooked == Spec => []NoOverlap
<1>1. IInv => NoOverlap
  BY DEF IInv
<1> QED
  BY <1>1, InductiveInvariant, PTL

-----------------------------------------------------------------------------
(* A step changes at most one appointment: it inserts one that fits, marks, *)
(* confirms or cancels one.                                                 *)

Marked(a) == [a EXCEPT !.confirmationSentAt = now]

Inserts(id, a) ==
  /\ InsertOutcome(id, a) = "ok"
  /\ InsertAppointment(id, a)
  /\ a.status = "agendado" /\ a.confirmationSentAt = NoTime /\ a.confirmedAt = NoTime

Settles(i, a) ==
  /\ appts' = [appts EXCEPT ![i] = a]
  /\ \/ a = Marked(appts[i])
     \/ a = Confirmed(appts[i]) /\ FitsAgenda(i, a)
     \/ a = Cancelled(appts[i])

LEMMA AppointmentSteps ==
  ASSUME IInv, [Next]_vars
  PROVE  \/ UNCHANGED appts
         \/ \E id \in AptIds, a \in Appointments : Inserts(id, a)
         \/ \E i \in DOMAIN appts : \E a : Settles(i, a)
<1> DEFINE Goal == \/ UNCHANGED appts
                   \/ \E id \in AptIds, a \in Appointments : Inserts(id, a)
                   \/ \E i \in DOMAIN appts : \E a : Settles(i, a)
<1>n. \A ms \in Millis : [at |-> now, ms |-> ms] \in AptIds
  BY DEF IInv, TypeOK, StoreTypeOK, AptIds
<1>1. ASSUME NEW r \in Requests, SiteInsertAppointment(r) PROVE Goal
  <2> DEFINE a == SiteAppointment(requests[r].body)
  <2>1. PICK ms \in Millis :
          \/ InsertOutcome([at |-> now, ms |-> ms], a) = "ok"
             /\ InsertAppointment([at |-> now, ms |-> ms], a)
          \/ UNCHANGED appts
    BY <1>1 DEF SiteInsertAppointment
  <2>2. a \in Appointments
    BY <1>1, SiteRowType DEF SiteInsertAppointment, IInv, RequestsHoldBodies
  <2>3. a.status = "agendado" /\ a.confirmationSentAt = NoTime /\ a.confirmedAt = NoTime
    BY DEF SiteAppointment, NewAppointment
  <2> HIDE DEF a
  <2> QED
    BY <1>n, <2>1, <2>2, <2>3 DEF Inserts
<1>2. ASSUME NEW h \in Handlers, BookAppointment(h) PROVE Goal
  <2>1. PICK sv \in Services, start \in Starts, ms \in Millis :
          LET o == handlers[h].msg.org
              id == [at |-> now, ms |-> ms]
              a == NewAppointment(Sender(h), o, sv, NoVehicle,
                                  start, start + Duration[sv] + Buffer[sv])
          IN IF InsertOutcome(id, a) = "ok" THEN InsertAppointment(id, a)
                                            ELSE UNCHANGED appts
    BY <1>2 DEF BookAppointment
  <2>2. handlers[h].msg \in Messages /\ Sender(h) \in CustomerRows
    BY <1>2, CustomerRowType
       DEF BookAppointment, IInv, HandlersHoldRows, Messages, Sender
  <2> DEFINE a == NewAppointment(Sender(h), handlers[h].msg.org, sv, NoVehicle,
                                 start, start + Duration[sv] + Buffer[sv])
  <2>3. start \in Nat /\ Duration[sv] \in Nat /\ Buffer[sv] \in Nat
    BY StoreAssumption
  <2>4. start + Duration[sv] + Buffer[sv] \in Nat
    BY <2>3
  <2>5. a \in Appointments
    BY <2>2, <2>3, <2>4, NewRow DEF Messages
  <2>6. a.status = "agendado" /\ a.confirmationSentAt = NoTime /\ a.confirmedAt = NoTime
    BY DEF NewAppointment
  <2>7. \/ InsertOutcome([at |-> now, ms |-> ms], a) = "ok"
           /\ InsertAppointment([at |-> now, ms |-> ms], a)
        \/ UNCHANGED appts
    BY <2>1
  <2> HIDE DEF a
  <2> QED
    BY <1>n, <2>5, <2>6, <2>7 DEF Inserts
<1>3. ASSUME NEW p \in Passes, MarkConfirmationSent(p) PROVE Goal
  <2> DEFINE i == passes[p].apt
  <2>1. i \in DOMAIN appts /\ appts' = [appts EXCEPT ![i] = Marked(appts[i])]
    BY <1>3 DEF MarkConfirmationSent, Marked, IInv, PassesHoldRows
  <2> QED
    BY <2>1 DEF Settles
<1>4. ASSUME NEW h \in Handlers, CancelAppointment(h) PROVE Goal
  <2> DEFINE i == handlers[h].apt
  <2>1. i \in DOMAIN appts
    BY <1>4 DEF CancelAppointment, IInv, HandlersHoldRows
  <2>2. UNCHANGED appts \/ appts' = [appts EXCEPT ![i] = Cancelled(appts[i])]
    BY <1>4, <2>1 DEF CancelAppointment
  <2> QED
    BY <2>1, <2>2 DEF Settles
<1>5. ASSUME NEW h \in Handlers, ConfirmAppointment(h) PROVE Goal
  <2> DEFINE i == handlers[h].apt
  <2>1. i \in DOMAIN appts
    BY <1>5 DEF ConfirmAppointment, IInv, HandlersHoldRows
  <2>2. \/ UNCHANGED appts
        \/ /\ appts' = [appts EXCEPT ![i] = Confirmed(appts[i])]
           /\ FitsAgenda(i, Confirmed(appts[i]))
    BY <1>5, <2>1 DEF ConfirmAppointment
  <2> QED
    BY <2>1, <2>2 DEF Settles
<1>6. ASSUME NEW r \in Requests, Site(r), ~SiteInsertAppointment(r) PROVE UNCHANGED appts
  BY <1>6 DEF Site, SiteStep, SiteFails, SiteFailure, PostBooking, SiteInsertCustomer,
              SiteFindVehicle, SiteInsertVehicle
<1>7. ASSUME NEW p \in Passes, Confirmation(p), ~MarkConfirmationSent(p) PROVE UNCHANGED appts
  BY <1>7 DEF Confirmation, ConfirmationStep, CheckAndSendConfirmations,
              SendConfirmation, SendFails, MarkFails
<1>8. ASSUME NEW h \in Handlers, Handler(h), ~BookAppointment(h),
             ~CancelAppointment(h), ~ConfirmAppointment(h)
      PROVE  UNCHANGED appts
  BY <1>8 DEF Handler, HandlerStep, HandleMessage, WaInsertCustomer, ReadPending, AnswerOnly
<1>9. (Advance \/ Restart \/ UNCHANGED vars) => UNCHANGED appts
  BY DEF Advance, Restart, vars
<1> HIDE DEF Goal
<1>10. Goal
  <2>g. UNCHANGED appts => Goal
    BY DEF Goal
  <2>1. ASSUME NEW r \in Requests, Site(r) PROVE Goal
    BY <2>1, <2>g, <1>1, <1>6
  <2>2. ASSUME NEW p \in Passes, Confirmation(p) PROVE Goal
    BY <2>2, <2>g, <1>3, <1>7
  <2>3. ASSUME NEW h \in Handlers, Handler(h) PROVE Goal
    BY <2>3, <2>g, <1>2, <1>4, <1>5, <1>8
  <2> QED
    BY <2>1, <2>2, <2>3, <2>g, <1>9 DEF Next
<1> QED
  BY <1>10 DEF Goal

-----------------------------------------------------------------------------
(* The bot's agenda implements the abstract one.                           *)

LEMMA ReservationType ==
  ASSUME NEW i \in AptIds, NEW a \in Appointments, NEW firm \in BOOLEAN
  PROVE  [id |-> i, org |-> a.org, customer |-> a.customer,
          start |-> a.start, finish |-> a.finish, firm |-> firm] \in A!Reservations
BY DEF A!Reservations, Appointments

(* Two rows that do not overlap are disjoint reservations.                 *)
LEMMA DisjointRows ==
  ASSUME NEW a \in Appointments, NEW c \in Appointments, ~Overlaps(a, c),
         NEW r, NEW s,
         r.org = a.org, r.start = a.start, r.finish = a.finish,
         s.org = c.org, s.start = c.start, s.finish = c.finish
  PROVE  A!Disjoint(r, s)
<1>1. a.start \in Nat /\ a.finish \in Nat /\ c.start \in Nat /\ c.finish \in Nat
  BY DEF Appointments
<1> QED
  BY <1>1 DEF A!Disjoint, Overlaps

(* A row that enters the occupying rows is a reservation that enters.      *)
LEMMA EnteringReserves ==
  ASSUME IInv, NEW i \in AptIds, NEW a \in Appointments, NEW firm \in BOOLEAN,
         i \in DOMAIN appts => ~Occupying(appts[i]),
         Occupying(a), FitsAgenda(i, a), firm = (a.status = "confirmado"),
         appts' = [j \in DOMAIN appts \cup {i} |-> IF j = i THEN a ELSE appts[j]]
  PROVE  A!AgendaNext
<1> DEFINE r == [id |-> i, org |-> a.org, customer |-> a.customer,
                 start |-> a.start, finish |-> a.finish, firm |-> firm]
<1>1. r \in A!Reservations
  BY ReservationType
<1>2. Held' = Held \cup {r}
  BY DEF Held, Reservation
<1>3. ASSUME NEW s \in Held PROVE s.id # i /\ A!Disjoint(r, s)
  <2>1. PICK j \in DOMAIN appts : Occupying(appts[j]) /\ s = Reservation(j)
    BY DEF Held
  <2>2. j # i /\ s.id = j
    BY <2>1 DEF Reservation
  <2>3. ~Overlaps(a, appts[j])
    BY <2>1, <2>2 DEF FitsAgenda
  <2>4. appts[j] \in Appointments
    BY DEF IInv, TypeOK, StoreTypeOK
  <2>5. s.org = appts[j].org /\ s.start = appts[j].start /\ s.finish = appts[j].finish
    BY <2>1 DEF Reservation
  <2> QED
    BY <2>2, <2>3, <2>4, <2>5, DisjointRows
<1>4. A!Reserve(r)
  BY <1>2, <1>3 DEF A!Reserve
<1> QED
  BY <1>1, <1>2, <1>4 DEF A!AgendaNext

LEMMA StepImplements ==
  ASSUME IInv, [Next]_vars
  PROVE  A!AgendaNext \/ UNCHANGED Held
<1>1. CASE UNCHANGED appts
  BY <1>1 DEF Held, Reservation
<1>2. ASSUME NEW id \in AptIds, NEW a \in Appointments, Inserts(id, a)
      PROVE  A!AgendaNext
  <2>1. id \notin DOMAIN appts /\ FitsAgenda(id, a)
    BY <1>2 DEF Inserts, InsertOutcome
  <2>2. Occupying(a) /\ FALSE = (a.status = "confirmado")
    BY <1>2 DEF Inserts, Occupying
  <2> QED
    BY <1>2, <2>1, <2>2, EnteringReserves DEF Inserts, InsertAppointment
<1>3. ASSUME NEW i \in DOMAIN appts, NEW a, Settles(i, a)
      PROVE  A!AgendaNext \/ UNCHANGED Held
  <2>t. appts[i] \in Appointments /\ i \in AptIds /\ now \in Nat
    BY StoreAssumption DEF IInv, TypeOK, StoreTypeOK
  <2>u. appts' = [appts EXCEPT ![i] = a]
    BY <1>3 DEF Settles
  <2>k. ASSUME a.org = appts[i].org, a.customer = appts[i].customer,
               a.start = appts[i].start, a.finish = appts[i].finish,
               a.status = appts[i].status
        PROVE  UNCHANGED Held
    BY <2>k, <2>u DEF Held, Reservation, Occupying
  <2>1. CASE a = Marked(appts[i])
    BY <2>1, <2>t, <2>k DEF Marked, Appointments
  <2>2. CASE a = Cancelled(appts[i])
    <3>1. a.status = "cancelado" /\ ~Occupying(a)
      BY <2>2, <2>t DEF Cancelled, Appointments, Occupying
    <3>2. CASE Occupying(appts[i])
      <4>1. Held' = Held \ {Reservation(i)} /\ Reservation(i) \in Held
        BY <2>u, <3>1, <3>2 DEF Held, Reservation
      <4> QED
        BY <4>1 DEF A!AgendaNext, A!Release
    <3>3. CASE ~Occupying(appts[i])
      BY <2>u, <3>1, <3>3 DEF Held, Reservation
    <3> QED
      BY <3>2, <3>3
  <2>3. CASE a = Confirmed(appts[i]) /\ FitsAgenda(i, a)
    <3>1. /\ a \in Appointments /\ a.status = "confirmado" /\ Occupying(a)
          /\ a.org = appts[i].org /\ a.customer = appts[i].customer
          /\ a.start = appts[i].start /\ a.finish = appts[i].finish
      BY <2>3, <2>t DEF Confirmed, Appointments, Occupying, Statuses
    <3>2. CASE ~Occupying(appts[i])
      <4>1. appts' = [j \in DOMAIN appts \cup {i} |-> IF j = i THEN a ELSE appts[j]]
        BY <2>u
      <4>2. TRUE = (a.status = "confirmado")
        BY <3>1
      <4> QED
        BY <2>3, <2>t, <3>1, <3>2, <4>1, <4>2, EnteringReserves
    <3>3. CASE appts[i].status = "confirmado"
      BY <2>k, <3>1, <3>3
    <3>4. CASE appts[i].status = "agendado"
      <4> DEFINE r == Reservation(i)
                 f == A!Firm(r)
      <4>1. r \in Held /\ ~r.firm
        BY <3>4 DEF Held, Reservation, Occupying
      <4>2. f = [id |-> i, org |-> a.org, customer |-> a.customer,
                 start |-> a.start, finish |-> a.finish, firm |-> TRUE]
        BY <3>1 DEF Reservation, A!Firm
      <4>3. Held' = (Held \ {r}) \cup {f}
        <5>1. \A j \in DOMAIN appts \ {i} : Reservation(j)' = Reservation(j)
          BY <2>u DEF Reservation
        <5>2. Reservation(i)' = f
          BY <2>u, <3>1, <4>2 DEF Reservation
        <5>3. \A j \in DOMAIN appts \ {i} : Reservation(j) # r
          BY DEF Reservation
        <5>4. DOMAIN appts' = DOMAIN appts /\ appts'[i] = a
              /\ \A j \in DOMAIN appts \ {i} : appts'[j] = appts[j]
          BY <2>u
        <5>5. Occupying(a) /\ Occupying(appts[i])
          BY <3>1, <3>4 DEF Occupying
        <5> HIDE DEF f, r
        <5>6. Held' = {Reservation(j)' : j \in {k \in DOMAIN appts : k = i \/ Occupying(appts[k])}}
          BY <5>4, <5>5 DEF Held, Occupying
        <5>7. Held = {Reservation(j) : j \in {k \in DOMAIN appts : k = i \/ Occupying(appts[k])}}
          BY <5>5 DEF Held
        <5>8. r = Reservation(i)
          BY DEF r
        <5> QED
          BY <5>1, <5>2, <5>3, <5>6, <5>7, <5>8
      <4>4. A!MakeFirm(r)
        BY <4>1, <4>3 DEF A!MakeFirm
      <4> QED
        BY <4>1, <4>4 DEF A!AgendaNext
    <3> QED
      BY <3>2, <3>3, <3>4 DEF Occupying
  <2> QED
    BY <1>3, <2>1, <2>2, <2>3 DEF Settles
<1> QED
  BY <1>1, <1>2, <1>3, AppointmentSteps

(* The bot implements the abstract agenda, for every instance.             *)
THEOREM BotImplementsAgenda == Spec => ImplementsAgenda
<1>1. Init => A!AgendaInit
  BY DEF Init, StoreInit, A!AgendaInit, Held
<1>2. IInv /\ [Next]_vars => [A!AgendaNext]_Held
  BY StepImplements
<1> QED
  BY <1>1, <1>2, InductiveInvariant, PTL DEF Spec, A!AgendaSpec, ImplementsAgenda

-----------------------------------------------------------------------------
(***************************************************************************)
(* Who decides about an appointment, and what was asked before.  The       *)
(* strengthening is DInv: a row belongs to a customer of its car wash, a   *)
(* handler that is about to settle a row holds one of its sender's that    *)
(* has been marked, and a pass that is about to mark a row has delivered   *)
(* its question.                                                           *)
(***************************************************************************)
USE DEF storeVars, confirmationVars

RowsOwned == \A i \in DOMAIN appts : appts[i].customer.org = appts[i].org

HandlersHoldOwnRows ==
  \A h \in Handlers :
    handlers[h].pc \in {"cancel", "confirm"} =>
      /\ appts[handlers[h].apt].customer = Sender(h)
      /\ appts[handlers[h].apt].confirmationSentAt # NoTime

PassesHoldAsked ==
  \A p \in Passes : passes[p].pc = "mark" => asked[passes[p].apt] >= 1

DInv == RowsOwned /\ HandlersHoldOwnRows /\ PassesHoldAsked /\ ConfirmedWasAsked

LEMMA InitDInv == Init => DInv
BY DEF Init, StoreInit, ConfirmationInit, HandlerInit, Idle, Quiet, DInv, RowsOwned,
       HandlersHoldOwnRows, PassesHoldAsked, ConfirmedWasAsked

-----------------------------------------------------------------------------
(* The table, row by row.                                                  *)

(* A row stays its customer's, and once marked it stays marked.            *)
LEMMA RowsKeep ==
  ASSUME IInv, [Next]_vars, NEW i \in DOMAIN appts
  PROVE  /\ i \in DOMAIN appts'
         /\ appts'[i].customer = appts[i].customer
         /\ appts'[i].org = appts[i].org
         /\ appts[i].confirmationSentAt # NoTime => appts'[i].confirmationSentAt # NoTime
<1>1. CASE UNCHANGED appts
  BY <1>1
<1>2. ASSUME NEW id \in AptIds, NEW a \in Appointments, Inserts(id, a)
      PROVE  i \in DOMAIN appts' /\ appts'[i] = appts[i]
  BY <1>2 DEF Inserts, InsertAppointment, InsertOutcome
<1>3. ASSUME NEW j \in DOMAIN appts, NEW a, Settles(j, a)
      PROVE  /\ i \in DOMAIN appts'
             /\ appts'[i].customer = appts[i].customer
             /\ appts'[i].org = appts[i].org
             /\ appts[i].confirmationSentAt # NoTime => appts'[i].confirmationSentAt # NoTime
  <2>1. appts[j] \in Appointments /\ now # NoTime
    BY StoreAssumption DEF IInv, TypeOK, StoreTypeOK
  <2>2. /\ a.customer = appts[j].customer /\ a.org = appts[j].org
        /\ appts[j].confirmationSentAt # NoTime => a.confirmationSentAt # NoTime
    BY <1>3, <2>1 DEF Settles, Marked, Confirmed, Cancelled, Appointments
  <2> QED
    BY <1>3, <2>2 DEF Settles
<1> QED
  BY <1>1, <1>2, <1>3, AppointmentSteps

(* The two ways to book.                                                   *)
Books(id, a) ==
  /\ InsertAppointment(id, a)
  /\ a.customer.org = a.org
  /\ a.status = "agendado" /\ a.confirmationSentAt = NoTime /\ a.confirmedAt = NoTime

LEMMA SiteInserts ==
  ASSUME IInv, NEW r \in Requests, SiteInsertAppointment(r)
  PROVE  \/ UNCHANGED appts
         \/ \E id, a : Books(id, a)
<1> DEFINE a == SiteAppointment(requests[r].body)
<1>1. PICK id : InsertAppointment(id, a) \/ UNCHANGED appts
  BY DEF SiteInsertAppointment
<1>2. /\ a.customer.org = a.org
      /\ a.status = "agendado" /\ a.confirmationSentAt = NoTime /\ a.confirmedAt = NoTime
  BY DEF SiteAppointment, NewAppointment, SiteCustomer, CustomerRow
<1> HIDE DEF a
<1> QED
  BY <1>1, <1>2 DEF Books

LEMMA HandlerInserts ==
  ASSUME IInv, NEW h \in Handlers, BookAppointment(h)
  PROVE  \/ UNCHANGED appts
         \/ \E id, a : Books(id, a)
<1>1. PICK sv \in Services, start \in Starts, ms \in Millis :
        LET o == handlers[h].msg.org
            id == [at |-> now, ms |-> ms]
            a == NewAppointment(Sender(h), o, sv, NoVehicle,
                                start, start + Duration[sv] + Buffer[sv])
        IN InsertAppointment(id, a) \/ UNCHANGED appts
  BY DEF BookAppointment
<1> DEFINE a == NewAppointment(Sender(h), handlers[h].msg.org, sv, NoVehicle,
                               start, start + Duration[sv] + Buffer[sv])
<1>2. /\ a.customer.org = a.org
      /\ a.status = "agendado" /\ a.confirmationSentAt = NoTime /\ a.confirmedAt = NoTime
  BY DEF NewAppointment, Sender, CustomerRow
<1>3. InsertAppointment([at |-> now, ms |-> ms], a) \/ UNCHANGED appts
  BY <1>1
<1> HIDE DEF a
<1> QED
  BY <1>2, <1>3 DEF Books

LEMMA RowsStayOwned ==
  ASSUME IInv, RowsOwned, [Next]_vars
  PROVE  RowsOwned'
<1>1. ASSUME NEW id, NEW a, Books(id, a) PROVE RowsOwned'
  BY <1>1 DEF RowsOwned, Books, InsertAppointment
<1>2. CASE DOMAIN appts' \subseteq DOMAIN appts
  BY <1>2, RowsKeep DEF RowsOwned
<1>3. ASSUME NEW r \in Requests, Site(r) PROVE RowsOwned'
  <2>1. CASE SiteInsertAppointment(r)
    BY <2>1, <1>1, <1>2, SiteInserts
  <2>2. CASE ~SiteInsertAppointment(r)
    <3>1. UNCHANGED appts
      BY <1>3, <2>2 DEF Site, SiteStep, SiteFails, SiteFailure, PostBooking,
                        SiteInsertCustomer, SiteFindVehicle, SiteInsertVehicle
    <3> QED
      BY <3>1, <1>2
  <2> QED
    BY <2>1, <2>2
<1>4. ASSUME NEW p \in Passes, Confirmation(p) PROVE RowsOwned'
  <2>1. DOMAIN appts' \subseteq DOMAIN appts
    BY <1>4 DEF Confirmation, ConfirmationStep, CheckAndSendConfirmations, SendConfirmation,
                SendFails, MarkFails, MarkConfirmationSent
  <2> QED
    BY <2>1, <1>2
<1>5. ASSUME NEW h \in Handlers, Handler(h) PROVE RowsOwned'
  <2>1. CASE BookAppointment(h)
    BY <2>1, <1>1, <1>2, HandlerInserts
  <2>2. CASE ~BookAppointment(h)
    <3>1. DOMAIN appts' \subseteq DOMAIN appts
      BY <1>5, <2>2 DEF Handler, HandlerStep, HandleMessage, WaInsertCustomer, ReadPending,
                        AnswerOnly, CancelAppointment, ConfirmAppointment
    <3> QED
      BY <3>1, <1>2
  <2> QED
    BY <2>1, <2>2
<1>6. (Advance \/ Restart \/ UNCHANGED vars) => UNCHANGED appts
  BY DEF Advance, Restart, vars
<1> QED
  BY <1>2, <1>3, <1>4, <1>5, <1>6 DEF Next

-----------------------------------------------------------------------------
(* What the handlers and the passes hold.                                  *)

LEMMA HandlersStayHonest ==
  ASSUME IInv, HandlersHoldOwnRows, [Next]_vars
  PROVE  HandlersHoldOwnRows'
<1> SUFFICES ASSUME NEW h \in Handlers, handlers'[h].pc \in {"cancel", "confirm"}
             PROVE  /\ appts'[handlers'[h].apt].customer = Sender(h)'
                    /\ appts'[handlers'[h].apt].confirmationSentAt # NoTime
  BY DEF HandlersHoldOwnRows
<1>t. handlers \in [Handlers -> [pc : HandlerStates, msg : Messages \cup {NoMessage},
                                 apt : AptIds \cup {NoRow}]]
  BY DEF IInv, TypeOK, HandlerTypeOK
<1>1. CASE handlers'[h] = handlers[h]
  <2>1. /\ handlers[h].apt \in DOMAIN appts
        /\ appts[handlers[h].apt].customer = Sender(h)
        /\ appts[handlers[h].apt].confirmationSentAt # NoTime
    BY <1>1 DEF HandlersHoldOwnRows, IInv, HandlersHoldRows
  <2>2. Sender(h)' = Sender(h)
    BY <1>1 DEF Sender
  <2> QED
    BY <1>1, <2>1, <2>2, RowsKeep
<1>2. CASE handlers'[h] # handlers[h]
  <2>1. PICK g \in Handlers : Handler(g)
    <3>1. ~Restart
      BY DEF Restart, Quiet
    <3>2. \A r \in Requests : Site(r) => UNCHANGED handlers
      BY DEF Site, SiteFails
    <3>3. \A p \in Passes : Confirmation(p) => UNCHANGED handlers
      BY DEF Confirmation
    <3>4. Advance \/ UNCHANGED vars => UNCHANGED handlers
      BY DEF Advance, vars
    <3> QED
      BY <1>2, <3>1, <3>2, <3>3, <3>4 DEF Next
  <2>2. ReadPending(h)
    <3>1. g = h
      BY <1>t, <1>2, <2>1 DEF Handler, HandlerStep, HandleMessage, WaInsertCustomer, ReadPending,
               CancelAppointment, ConfirmAppointment, AnswerOnly, BookAppointment, Step, Finish
    <3>2. ~Finish(h) /\ ~Step(h, "pending") /\ ~HandleMessage(h)
      BY <1>t DEF Finish, Step, Quiet, HandleMessage
    <3> QED
      BY <2>1, <3>1, <3>2 DEF Handler, HandlerStep, WaInsertCustomer, CancelAppointment,
               ConfirmAppointment, AnswerOnly, BookAppointment
  <2>3. PICK i \in FirstPending(Sender(h)) :
          handlers' = [handlers EXCEPT ![h] =
            [pc |-> Verdict(@.msg.tone), msg |-> @.msg,
             apt |-> IF @.msg.tone = {} THEN NoRow ELSE i]]
    <3>1. ~Step(h, "ask")
      BY <1>t DEF Step
    <3> QED
      BY <2>2, <3>1 DEF ReadPending
  <2>4. handlers[h].msg.tone # {}
    BY <1>t, <2>3 DEF Verdict
  <2>5. handlers'[h].apt = i /\ handlers'[h].msg = handlers[h].msg
    BY <1>t, <2>3, <2>4
  <2>6. /\ i \in DOMAIN appts /\ appts[i].customer = Sender(h)
        /\ appts[i].confirmationSentAt # NoTime
    BY DEF FirstPending, PendingApts
  <2>7. Sender(h)' = Sender(h)
    BY <2>5 DEF Sender
  <2> QED
    BY <2>2, <2>5, <2>6, <2>7 DEF ReadPending
<1> QED
  BY <1>1, <1>2

(* A question that has been delivered stays delivered.                     *)
LEMMA AskedGrows ==
  ASSUME IInv, [Next]_vars, NEW i \in AptIds, asked[i] >= 1
  PROVE  asked'[i] >= 1
<1>t. asked \in [AptIds -> Nat]
  BY DEF IInv, TypeOK, ConfirmationTypeOK
<1>1. ASSUME NEW p \in Passes, SendConfirmation(p) PROVE asked'[i] >= 1
  <2>1. PICK j \in passes[p].todo : asked' = [asked EXCEPT ![j] = @ + 1]
    BY <1>1 DEF SendConfirmation
  <2> QED
    BY <1>t, <2>1
<1>2. ASSUME ~\E p \in Passes : SendConfirmation(p) PROVE UNCHANGED asked
  BY <1>2 DEF Next, vars, Site, SiteStep, SiteFails, Confirmation, ConfirmationStep,
              CheckAndSendConfirmations, SendFails, MarkFails, MarkConfirmationSent,
              Handler, Advance, Restart
<1> QED
  BY <1>1, <1>2

LEMMA PassesStayHonest ==
  ASSUME IInv, PassesHoldAsked, [Next]_vars
  PROVE  PassesHoldAsked'
<1> SUFFICES ASSUME NEW p \in Passes, passes'[p].pc = "mark"
             PROVE  asked'[passes'[p].apt] >= 1
  BY DEF PassesHoldAsked
<1>t. /\ passes \in [Passes -> [pc : PassStates, todo : SUBSET AptIds, apt : AptIds \cup {NoApt}]]
      /\ asked \in [AptIds -> Nat]
  BY DEF IInv, TypeOK, ConfirmationTypeOK
<1>1. CASE passes'[p] = passes[p]
  <2>1. passes[p].apt \in AptIds /\ asked[passes[p].apt] >= 1
    BY <1>1 DEF PassesHoldAsked, IInv, TypeOK, StoreTypeOK, PassesHoldRows
  <2> QED
    BY <1>1, <2>1, AskedGrows
<1>2. CASE passes'[p] # passes[p]
  <2>1. PICK q \in Passes : ConfirmationStep(q)
    <3>1. ~Restart
      BY DEF Restart, Idle
    <3>2. \A r \in Requests : Site(r) => UNCHANGED passes
      BY DEF Site, SiteFails
    <3>3. \A h \in Handlers : Handler(h) => UNCHANGED passes
      BY DEF Handler
    <3>4. Advance \/ UNCHANGED vars => UNCHANGED passes
      BY DEF Advance, vars
    <3> QED
      BY <1>2, <3>1, <3>2, <3>3, <3>4 DEF Next, Confirmation
  <2>2. \A todo : ~NextApt(q, todo)
    <3> SUFFICES ASSUME NEW todo, NextApt(q, todo) PROVE FALSE
      OBVIOUS
    <3>1. CASE q = p
      BY <1>t, <3>1 DEF NextApt, Idle
    <3>2. CASE q # p
      BY <1>t, <1>2, <3>2 DEF NextApt
    <3> QED
      BY <3>1, <3>2
  <2>3. SendConfirmation(q)
    BY <2>1, <2>2 DEF ConfirmationStep, CheckAndSendConfirmations, SendFails, MarkFails,
                      MarkConfirmationSent
  <2>4. PICK i \in passes[q].todo :
          /\ asked' = [asked EXCEPT ![i] = @ + 1]
          /\ passes' = [passes EXCEPT ![q] = [pc |-> "mark", todo |-> @.todo \ {i}, apt |-> i]]
    BY <2>3 DEF SendConfirmation
  <2>5. q = p
    BY <1>t, <1>2, <2>4
  <2>6. passes'[p].apt = i /\ i \in AptIds
    BY <1>t, <2>4, <2>5
  <2> QED
    BY <1>t, <2>4, <2>6
<1> QED
  BY <1>1, <1>2
-----------------------------------------------------------------------------
(* One settled row.                                                        *)
LEMMA SettledRow ==
  ASSUME ConfirmedWasAsked, UNCHANGED asked, NEW i \in DOMAIN appts, NEW a,
         appts' = [appts EXCEPT ![i] = a],
         a.status = "confirmado" => a.confirmedAt # NoTime,
         a.confirmedAt # NoTime => a.confirmationSentAt # NoTime,
         a.confirmationSentAt # NoTime => asked[i] >= 1
  PROVE  ConfirmedWasAsked'
BY DEF ConfirmedWasAsked

(* A new row is not confirmed.                                             *)
LEMMA BookedRow ==
  ASSUME ConfirmedWasAsked, UNCHANGED asked, NEW id, NEW a, Books(id, a)
  PROVE  ConfirmedWasAsked'
BY DEF ConfirmedWasAsked, Books, InsertAppointment

LEMMA ConfirmedStaysAsked ==
  ASSUME IInv, DInv, [Next]_vars
  PROVE  ConfirmedWasAsked'
<1> USE DEF DInv
<1>t. /\ \A i \in DOMAIN appts : i \in AptIds /\ appts[i] \in Appointments
      /\ now # NoTime
  BY StoreAssumption DEF IInv, TypeOK, StoreTypeOK
<1>1. CASE UNCHANGED appts
  BY <1>1, <1>t, AskedGrows DEF ConfirmedWasAsked
<1>2. ASSUME NEW p \in Passes, MarkConfirmationSent(p) PROVE ConfirmedWasAsked'
  <2> DEFINE i == passes[p].apt
             a == [appts[i] EXCEPT !.confirmationSentAt = now]
  <2>1. i \in DOMAIN appts /\ asked[i] >= 1
    BY <1>2 DEF MarkConfirmationSent, IInv, PassesHoldRows, PassesHoldAsked
  <2>2. appts' = [appts EXCEPT ![i] = a] /\ UNCHANGED asked
    BY <1>2 DEF MarkConfirmationSent
  <2>3. /\ a.status = appts[i].status /\ a.confirmedAt = appts[i].confirmedAt
        /\ a.confirmationSentAt = now
    BY <1>t, <2>1 DEF Appointments
  <2> QED
    BY <1>t, <2>1, <2>2, <2>3, SettledRow DEF ConfirmedWasAsked
<1>3. ASSUME NEW h \in Handlers, CancelAppointment(h), UNCHANGED asked PROVE ConfirmedWasAsked'
  <2> DEFINE i == handlers[h].apt
             a == Cancelled(appts[i])
  <2>1. i \in DOMAIN appts
    BY <1>3 DEF CancelAppointment, IInv, HandlersHoldRows
  <2>2. UNCHANGED appts \/ appts' = [appts EXCEPT ![i] = a]
    BY <1>3 DEF CancelAppointment
  <2>3. /\ a.status = "cancelado" /\ a.confirmedAt = appts[i].confirmedAt
        /\ a.confirmationSentAt = appts[i].confirmationSentAt
    BY <1>t, <2>1 DEF Appointments, Cancelled
  <2> HIDE DEF a
  <2> QED
    BY <1>1, <1>3, <2>1, <2>2, <2>3, SettledRow DEF ConfirmedWasAsked
<1>4. ASSUME NEW h \in Handlers, ConfirmAppointment(h), UNCHANGED asked PROVE ConfirmedWasAsked'
  <2> DEFINE i == handlers[h].apt
             a == Confirmed(appts[i])
  <2>1. i \in DOMAIN appts /\ appts[i].confirmationSentAt # NoTime
    BY <1>4 DEF ConfirmAppointment, IInv, HandlersHoldRows, HandlersHoldOwnRows
  <2>2. UNCHANGED appts \/ appts' = [appts EXCEPT ![i] = a]
    BY <1>4 DEF ConfirmAppointment
  <2>3. /\ a.confirmedAt = now
        /\ a.confirmationSentAt = appts[i].confirmationSentAt
    BY <1>t, <2>1 DEF Appointments, Confirmed
  <2> HIDE DEF a
  <2> QED
    BY <1>1, <1>4, <1>t, <2>1, <2>2, <2>3, SettledRow DEF ConfirmedWasAsked
<1>5. ASSUME NEW r \in Requests, Site(r) PROVE ConfirmedWasAsked'
  <2>1. UNCHANGED asked
    BY <1>5 DEF Site, SiteFails
  <2>2. CASE SiteInsertAppointment(r)
    BY <2>1, <2>2, <1>1, SiteInserts, BookedRow
  <2>3. CASE ~SiteInsertAppointment(r)
    <3>1. UNCHANGED appts
      BY <1>5, <2>3 DEF Site, SiteStep, SiteFails, SiteFailure, PostBooking,
                        SiteInsertCustomer, SiteFindVehicle, SiteInsertVehicle
    <3> QED
      BY <3>1, <1>1
  <2> QED
    BY <2>2, <2>3
<1>6. ASSUME NEW p \in Passes, Confirmation(p) PROVE ConfirmedWasAsked'
  <2>1. CASE MarkConfirmationSent(p)
    BY <2>1, <1>2
  <2>2. CASE ~MarkConfirmationSent(p)
    <3>1. UNCHANGED appts
      BY <1>6, <2>2 DEF Confirmation, ConfirmationStep, CheckAndSendConfirmations,
                        SendConfirmation, SendFails, MarkFails
    <3> QED
      BY <3>1, <1>1
  <2> QED
    BY <2>1, <2>2
<1>7. ASSUME NEW h \in Handlers, Handler(h) PROVE ConfirmedWasAsked'
  <2>1. UNCHANGED asked
    BY <1>7 DEF Handler
  <2>2. CASE BookAppointment(h)
    BY <2>1, <2>2, <1>1, HandlerInserts, BookedRow
  <2>3. CASE HandleMessage(h) \/ WaInsertCustomer(h) \/ ReadPending(h) \/ AnswerOnly(h)
    <3>1. UNCHANGED appts
      BY <2>3 DEF HandleMessage, WaInsertCustomer, ReadPending, AnswerOnly
    <3> QED
      BY <3>1, <1>1
  <2> QED
    BY <1>7, <1>3, <1>4, <2>1, <2>2, <2>3 DEF Handler, HandlerStep
<1>8. Advance \/ Restart \/ UNCHANGED vars => UNCHANGED appts
  BY DEF Advance, Restart, vars
<1> QED
  BY <1>1, <1>5, <1>6, <1>7, <1>8 DEF Next

-----------------------------------------------------------------------------
(* DInv, strengthened by IInv, is an invariant of the agenda.              *)
THEOREM DecisionInvariant == Spec => []DInv
<1>1. Init => DInv
  BY InitDInv
<1>2. IInv /\ DInv /\ [Next]_vars => DInv'
  BY RowsStayOwned, HandlersStayHonest, PassesStayHonest, ConfirmedStaysAsked DEF DInv
<1> QED
  BY <1>1, <1>2, InductiveInvariant, PTL DEF Spec

(* No appointment is confirmed, or marked as asked about, without a        *)
(* question that was delivered, whatever sends and UPDATEs fail and however *)
(* often the process is restarted between them.                            *)
THEOREM NeverConfirmedUnasked == Spec => []ConfirmedWasAsked
<1>1. DInv => ConfirmedWasAsked
  BY DEF DInv
<1> QED
  BY <1>1, DecisionInvariant, PTL

(* A step that changes a status is one of a handler of its owner's message. *)
LEMMA StepDecides ==
  ASSUME IInv, DInv, [Next]_vars, NEW i \in DOMAIN appts, appts'[i].status # appts[i].status
  PROVE  /\ appts'[i].status # "agendado"
         /\ \E h \in Handlers :
              /\ handlers[h].apt = i
              /\ handlers'[h] # handlers[h]
              /\ Sender(h) = appts[i].customer
              /\ handlers[h].msg.org = appts[i].org
<1>t. /\ appts[i] \in Appointments
      /\ handlers \in [Handlers -> [pc : HandlerStates, msg : Messages \cup {NoMessage},
                                    apt : AptIds \cup {NoRow}]]
  BY DEF IInv, TypeOK, StoreTypeOK, HandlerTypeOK
<1>2. ~\E r \in Requests : Site(r)
  <2> SUFFICES ASSUME NEW r \in Requests, Site(r) PROVE UNCHANGED appts \/ appts'[i] = appts[i]
    OBVIOUS
  <2> QED
    BY DEF Site, SiteStep, SiteFails, SiteFailure, PostBooking, SiteInsertCustomer,
           SiteFindVehicle, SiteInsertVehicle, SiteInsertAppointment, InsertAppointment,
           InsertOutcome
<1>3. ~\E p \in Passes : Confirmation(p)
  <2> SUFFICES ASSUME NEW p \in Passes, Confirmation(p) PROVE appts'[i].status = appts[i].status
    OBVIOUS
  <2>1. CASE MarkConfirmationSent(p)
    BY <2>1, <1>t DEF MarkConfirmationSent, Appointments
  <2>2. CASE ~MarkConfirmationSent(p)
    BY <2>2 DEF Confirmation, ConfirmationStep, CheckAndSendConfirmations,
                SendConfirmation, SendFails, MarkFails
  <2> QED
    BY <2>1, <2>2
<1>4. ~(Advance \/ Restart \/ UNCHANGED vars)
  BY DEF Advance, Restart, vars
<1>5. PICK h \in Handlers : HandlerStep(h)
  BY <1>2, <1>3, <1>4 DEF Next, Handler
<1>6. ~BookAppointment(h)
  BY DEF BookAppointment, InsertAppointment, InsertOutcome
<1>7. CancelAppointment(h) \/ ConfirmAppointment(h)
  BY <1>5, <1>6 DEF HandlerStep, HandleMessage, WaInsertCustomer, ReadPending, AnswerOnly
<1>8. handlers[h].apt = i /\ appts'[i] \in {Cancelled(appts[i]), Confirmed(appts[i])}
  BY <1>7 DEF CancelAppointment, ConfirmAppointment
<1>9. appts'[i].status # "agendado"
  BY <1>8, <1>t DEF Cancelled, Confirmed, Appointments
<1>10. handlers'[h] # handlers[h] /\ handlers[h].pc \in {"cancel", "confirm"}
  BY <1>7, <1>t DEF CancelAppointment, ConfirmAppointment, Finish, Quiet
<1>11. Sender(h) = appts[i].customer
  BY <1>8, <1>10 DEF DInv, HandlersHoldOwnRows
<1>12. Sender(h).org = handlers[h].msg.org
  BY DEF Sender, CustomerRow
<1>13. handlers[h].msg.org = appts[i].org
  BY <1>11, <1>12 DEF DInv, RowsOwned
<1> QED
  BY <1>8, <1>9, <1>10, <1>11, <1>13

(* The statuses of an appointment change only in a handler of a message of *)
(* its own customer to its own car wash, and never back to agendado.       *)
THEOREM DecidedByOwner == Spec => OnlyOwnerDecides
<1> DEFINE Decided ==
      \A i \in DOMAIN appts :
        appts'[i].status # appts[i].status =>
          /\ appts'[i].status # "agendado"
          /\ \E h \in Handlers :
               /\ handlers[h].apt = i
               /\ handlers'[h] # handlers[h]
               /\ Sender(h) = appts[i].customer
               /\ handlers[h].msg.org = appts[i].org
<1>1. IInv /\ DInv /\ [Next]_vars => [Decided]_vars
  BY StepDecides
<1>2. OnlyOwnerDecides <=> [][Decided]_vars
  BY DEF OnlyOwnerDecides
<1> HIDE DEF Decided
<1> QED
  BY <1>1, <1>2, InductiveInvariant, DecisionInvariant, PTL DEF Spec
-----------------------------------------------------------------------------
(***************************************************************************)
(* Whom the job forgets.  The window has to hold a firing of the timer     *)
(* (WindowSpansTick: 15 minutes against the 30 of the window), and the     *)
(* strengthening is FInv: the timer is never late, a pass between two rows *)
(* holds none, and a row that still has to be asked is in a pass or will   *)
(* see the timer fire before its window shuts.                             *)
(***************************************************************************)
WindowSpansTick == TickPeriod <= WindowHi - WindowLo + 1

TimerPunctual == now <= nextTick /\ nextTick <= now + TickPeriod

PassesHoldOne ==
  \A p \in Passes :
    /\ passes[p].pc = "idle" => passes[p].todo = {} /\ passes[p].apt = NoApt
    /\ passes[p].pc = "send" => passes[p].apt = NoApt

\* Row i was booked before its window and still has to be asked about.
Waits(i) ==
  /\ i.at < appts[i].start - WindowHi
  /\ appts[i].status = "agendado"
  /\ appts[i].confirmationSentAt = NoTime

InHand(i) == \E p \in Passes : i \in passes[p].todo \cup {passes[p].apt}

AskedInTime ==
  faults = 0 =>
    \A i \in DOMAIN appts :
      Waits(i) => InHand(i) \/ nextTick <= appts[i].start - WindowLo

FInv == TimerPunctual /\ PassesHoldOne /\ AskedInTime

(* A row keeps its start, and one that waits has been waiting; a new row    *)
(* has the time of the step in its key, and leaves the timer where it was.  *)
LEMMA RowsWait ==
  ASSUME IInv, [Next]_vars, NEW i \in DOMAIN appts'
  PROVE  \/ /\ i \in DOMAIN appts
            /\ appts'[i].start = appts[i].start
            /\ appts'[i].status = "agendado" => appts[i].status = "agendado"
         \/ /\ i.at = now /\ now' = now
            /\ appts'[i].start \in Nat
            /\ UNCHANGED nextTick
<1> DEFINE Goal == \/ /\ i \in DOMAIN appts
                      /\ appts'[i].start = appts[i].start
                      /\ appts'[i].status = "agendado" => appts[i].status = "agendado"
                   \/ /\ i.at = now /\ now' = now
                      /\ appts'[i].start \in Nat
                      /\ UNCHANGED nextTick
<1>t. IInv' /\ \A k \in DOMAIN appts : appts[k] \in Appointments
  BY NextIInv DEF IInv, TypeOK, StoreTypeOK
<1>u. appts'[i].start \in Nat
  BY <1>t DEF IInv, TypeOK, StoreTypeOK, Appointments
<1>1. CASE UNCHANGED appts
  BY <1>1
<1>2. ASSUME NEW id, NEW a, InsertAppointment(id, a), id.at = now, now' = now, UNCHANGED nextTick
      PROVE  Goal
  BY <1>2, <1>u DEF InsertAppointment
<1>3. ASSUME NEW k \in DOMAIN appts, NEW a,
             appts' = [appts EXCEPT ![k] = a],
             a \in {Marked(appts[k]), Confirmed(appts[k]), Cancelled(appts[k])}
      PROVE  Goal
  <2>1. a.start = appts[k].start /\ (a.status = "agendado" => appts[k].status = "agendado")
    BY <1>3, <1>t DEF Marked, Confirmed, Cancelled, Appointments
  <2> QED
    BY <1>3, <2>1
<1>4. ASSUME NEW r \in Requests, Site(r) PROVE Goal
  <2>1. CASE SiteInsertAppointment(r)
    <3>1. now' = now /\ UNCHANGED nextTick
      BY <1>4, <2>1 DEF Site, SiteInsertAppointment, SiteFails, SiteFailure
    <3>2. \/ UNCHANGED appts
          \/ \E ms \in Millis : \E a : InsertAppointment([at |-> now, ms |-> ms], a)
      BY <2>1 DEF SiteInsertAppointment
    <3> QED
      BY <3>1, <3>2, <1>1, <1>2
  <2>2. CASE ~SiteInsertAppointment(r)
    BY <1>4, <2>2, <1>1 DEF Site, SiteStep, SiteFails, SiteFailure, PostBooking,
                            SiteInsertCustomer, SiteFindVehicle, SiteInsertVehicle
  <2> QED
    BY <2>1, <2>2
<1>5. ASSUME NEW p \in Passes, Confirmation(p) PROVE Goal
  <2>1. CASE MarkConfirmationSent(p)
    <3>1. passes[p].apt \in DOMAIN appts
      BY <2>1 DEF MarkConfirmationSent, IInv, PassesHoldRows
    <3>2. appts' = [appts EXCEPT ![passes[p].apt] = Marked(appts[passes[p].apt])]
      BY <2>1 DEF MarkConfirmationSent, Marked
    <3> QED
      BY <3>1, <3>2, <1>3
  <2>2. CASE ~MarkConfirmationSent(p)
    BY <1>5, <2>2, <1>1 DEF Confirmation, ConfirmationStep, CheckAndSendConfirmations,
                            SendConfirmation, SendFails, MarkFails
  <2> QED
    BY <2>1, <2>2
<1>6. ASSUME NEW h \in Handlers, Handler(h) PROVE Goal
  <2>1. CASE BookAppointment(h)
    <3>1. now' = now /\ UNCHANGED nextTick
      BY <1>6, <2>1 DEF Handler, BookAppointment
    <3>2. \/ UNCHANGED appts
          \/ \E ms \in Millis : \E a : InsertAppointment([at |-> now, ms |-> ms], a)
      BY <2>1 DEF BookAppointment
    <3> QED
      BY <3>1, <3>2, <1>1, <1>2
  <2>2. CASE CancelAppointment(h) \/ ConfirmAppointment(h)
    <3>1. handlers[h].apt \in DOMAIN appts
      BY <2>2 DEF CancelAppointment, ConfirmAppointment, IInv, HandlersHoldRows
    <3>2. \/ UNCHANGED appts
          \/ \E a : /\ appts' = [appts EXCEPT ![handlers[h].apt] = a]
                    /\ a \in {Confirmed(appts[handlers[h].apt]), Cancelled(appts[handlers[h].apt])}
      BY <2>2 DEF CancelAppointment, ConfirmAppointment
    <3> QED
      BY <3>1, <3>2, <1>1, <1>3
  <2>3. CASE ~(BookAppointment(h) \/ CancelAppointment(h) \/ ConfirmAppointment(h))
    BY <1>6, <2>3, <1>1 DEF Handler, HandlerStep, HandleMessage, WaInsertCustomer,
                            ReadPending, AnswerOnly
  <2> QED
    BY <2>1, <2>2, <2>3
<1>7. CASE Advance \/ Restart \/ UNCHANGED vars
  BY <1>7, <1>1 DEF Advance, Restart, vars
<1> QED
  BY <1>4, <1>5, <1>6, <1>7 DEF Next

(* A row that waits after a step and was there before it waited before it.  *)
LEMMA WaitedBefore ==
  ASSUME IInv, [Next]_vars, NEW i \in DOMAIN appts', Waits(i)',
         ~(i.at = now /\ now' = now /\ UNCHANGED nextTick)
  PROVE  i \in DOMAIN appts /\ Waits(i) /\ appts'[i].start = appts[i].start
<1>1. /\ i \in DOMAIN appts /\ appts'[i].start = appts[i].start
      /\ appts'[i].status = "agendado" => appts[i].status = "agendado"
  BY RowsWait
<1>2. appts'[i].confirmationSentAt = NoTime => appts[i].confirmationSentAt = NoTime
  BY <1>1, RowsKeep
<1> QED
  BY <1>1, <1>2 DEF Waits

(* The timer: it is set a period ahead, and time does not pass it.          *)
LEMMA TimerStays ==
  ASSUME IInv, TimerPunctual, [Next]_vars
  PROVE  TimerPunctual'
<1>t. now \in Nat /\ nextTick \in Nat /\ TickPeriod \in Nat
  BY ConfirmationAssumption, StoreAssumption DEF IInv, TypeOK, StoreTypeOK, ConfirmationTypeOK
<1>1. CASE UNCHANGED <<now, nextTick>>
  BY <1>1 DEF TimerPunctual
<1>2. ASSUME NEW r \in Requests, Site(r) PROVE UNCHANGED <<now, nextTick>>
  BY <1>2 DEF Site, SiteStep, SiteFails, SiteFailure, PostBooking, SiteInsertCustomer,
              SiteFindVehicle, SiteInsertVehicle, SiteInsertAppointment
<1>3. ASSUME NEW h \in Handlers, Handler(h) PROVE UNCHANGED <<now, nextTick>>
  BY <1>3 DEF Handler, HandlerStep, HandleMessage, WaInsertCustomer, ReadPending,
              CancelAppointment, ConfirmAppointment, AnswerOnly, BookAppointment
<1>4. ASSUME NEW p \in Passes, Confirmation(p) PROVE TimerPunctual'
  <2>1. CASE CheckAndSendConfirmations(p)
    BY <2>1, <1>t DEF CheckAndSendConfirmations, TimerPunctual
  <2>2. CASE ~CheckAndSendConfirmations(p)
    BY <1>4, <2>2, <1>1 DEF Confirmation, ConfirmationStep, SendConfirmation, SendFails,
                            MarkConfirmationSent, MarkFails
  <2> QED
    BY <2>1, <2>2
<1>5. CASE Advance
  BY <1>5, <1>t DEF Advance, TimerPunctual
<1>6. CASE Restart
  BY <1>6, <1>t DEF Restart, TimerPunctual
<1>7. CASE UNCHANGED vars
  BY <1>7, <1>1 DEF vars
<1> QED
  BY <1>1, <1>2, <1>3, <1>4, <1>5, <1>6, <1>7 DEF Next

(* A pass holds a row only while it marks it, and rows only while it runs.  *)
LEMMA PassesStayOne ==
  ASSUME IInv, PassesHoldOne, [Next]_vars
  PROVE  PassesHoldOne'
<1>1. CASE UNCHANGED passes
  BY <1>1 DEF PassesHoldOne
<1>2. ASSUME NEW p \in Passes, NEW todo, NextApt(p, todo) PROVE PassesHoldOne'
  BY <1>2 DEF NextApt, Idle, PassesHoldOne, IInv, TypeOK, ConfirmationTypeOK
<1>3. ASSUME NEW r \in Requests, Site(r) PROVE UNCHANGED passes
  BY <1>3 DEF Site, SiteStep, SiteFails, SiteFailure
<1>4. ASSUME NEW h \in Handlers, Handler(h) PROVE UNCHANGED passes
  BY <1>4 DEF Handler
<1>5. ASSUME NEW p \in Passes, Confirmation(p) PROVE PassesHoldOne'
  <2>1. CASE SendConfirmation(p)
    BY <2>1 DEF SendConfirmation, PassesHoldOne, IInv, TypeOK, ConfirmationTypeOK
  <2>2. CASE ~SendConfirmation(p)
    BY <1>5, <2>2, <1>2 DEF Confirmation, ConfirmationStep, CheckAndSendConfirmations,
                            SendFails, MarkConfirmationSent, MarkFails
  <2> QED
    BY <2>1, <2>2
<1>6. CASE Advance \/ UNCHANGED vars
  BY <1>6, <1>1 DEF Advance, vars
<1>7. CASE Restart
  BY <1>7 DEF Restart, PassesHoldOne, Idle
<1> QED
  BY <1>1, <1>3, <1>4, <1>5, <1>6, <1>7 DEF Next

(* A row just booked before its window opens sees the timer fire in it.     *)
LEMMA BookedInTime ==
  ASSUME IInv, TimerPunctual, WindowSpansTick, [Next]_vars,
         NEW i \in DOMAIN appts', Waits(i)',
         i.at = now, now' = now, UNCHANGED nextTick
  PROVE  nextTick' <= appts'[i].start - WindowLo
<1>1. IInv' /\ TickPeriod \in Nat /\ WindowLo \in Nat /\ WindowHi \in Nat
  BY NextIInv, ConfirmationAssumption
<1>2. now \in Nat /\ nextTick \in Nat /\ appts'[i].start \in Nat
  BY <1>1, StoreAssumption DEF IInv, TypeOK, StoreTypeOK, ConfirmationTypeOK, Appointments
<1>3. now < appts'[i].start - WindowHi
  BY DEF Waits
<1> QED
  BY <1>1, <1>2, <1>3 DEF TimerPunctual, WindowSpansTick

(* When the timer fires, a row that waits is selected, or its window opens  *)
(* later and the timer fires again in it.                                   *)
LEMMA FiredInTime ==
  ASSUME IInv, FInv, WindowSpansTick, NEW p \in Passes, CheckAndSendConfirmations(p),
         NEW i \in DOMAIN appts, Waits(i), ~InHand(i), nextTick <= appts[i].start - WindowLo
  PROVE  InHand(i)' \/ nextTick' <= appts[i].start - WindowLo
<1>1. /\ now \in Nat /\ nextTick \in Nat /\ appts[i].start \in Nat
      /\ TickPeriod \in Nat /\ WindowLo \in Nat /\ WindowHi \in Nat
  BY ConfirmationAssumption, StoreAssumption
  DEF IInv, TypeOK, StoreTypeOK, ConfirmationTypeOK, Appointments
<1>2. now = nextTick /\ nextTick' = now + TickPeriod
  BY <1>1 DEF CheckAndSendConfirmations, FInv, TimerPunctual
<1>3. CASE appts[i].start <= now + WindowHi
  <2>1. i \in DueForConfirmation
    BY <1>1, <1>2, <1>3 DEF DueForConfirmation, Waits
  <2>2. i \in passes'[p].todo
    BY <2>1 DEF CheckAndSendConfirmations, NextApt, IInv, TypeOK, ConfirmationTypeOK
  <2> QED
    BY <2>2 DEF InHand
<1>4. CASE ~(appts[i].start <= now + WindowHi)
  BY <1>1, <1>2, <1>4 DEF WindowSpansTick
<1> QED
  BY <1>3, <1>4

(* A pass lets go of a row only after marking it, or with a failure.        *)
LEMMA PassesKeepHold ==
  ASSUME IInv, FInv, NEW p \in Passes, Confirmation(p), faults' = 0,
         NEW i \in DOMAIN appts, InHand(i), appts'[i].confirmationSentAt = NoTime
  PROVE  InHand(i)'
<1>1. PICK q \in Passes : i \in passes[q].todo \cup {passes[q].apt}
  BY DEF InHand
<1>t. passes \in [Passes -> [pc : PassStates, todo : SUBSET AptIds, apt : AptIds \cup {NoApt}]]
  BY DEF IInv, TypeOK, ConfirmationTypeOK
<1>n. i # NoApt
  BY ConfirmationAssumption DEF IInv, TypeOK, StoreTypeOK
<1>f. faults \in Nat
  BY ConfirmationAssumption DEF IInv, TypeOK, ConfirmationTypeOK
<1>2. CASE q # p
  <2>1. passes'[q] = passes[q]
    BY <1>2, <1>t DEF Confirmation, ConfirmationStep, CheckAndSendConfirmations, NextApt,
                      SendConfirmation, SendFails, MarkConfirmationSent, MarkFails
  <2> QED
    BY <1>1, <2>1 DEF InHand
<1>3. CASE q = p
  <2>1. ~CheckAndSendConfirmations(p)
    BY <1>1, <1>3, <1>n DEF CheckAndSendConfirmations, FInv, PassesHoldOne
  <2>2. ~SendFails(p) /\ ~MarkFails(p)
    BY <1>f DEF SendFails, MarkFails
  <2>3. CASE SendConfirmation(p)
    <3>1. i \in passes[p].todo
      BY <1>1, <1>3, <1>n, <2>3 DEF SendConfirmation, FInv, PassesHoldOne
    <3>2. i \in passes'[p].todo \cup {passes'[p].apt}
      BY <3>1, <2>3, <1>t DEF SendConfirmation
    <3> QED
      BY <3>2 DEF InHand
  <2>4. CASE MarkConfirmationSent(p)
    <3>1. now # NoTime /\ appts[i] \in Appointments
      BY StoreAssumption DEF IInv, TypeOK, StoreTypeOK
    <3>2. i # passes[p].apt
      BY <2>4, <3>1 DEF MarkConfirmationSent, Appointments
    <3>3. i \in passes[p].todo
      BY <1>1, <1>3, <3>2
    <3>4. i \in passes'[p].todo
      BY <3>3, <2>4, <1>t DEF MarkConfirmationSent, NextApt
    <3> QED
      BY <3>4 DEF InHand
  <2> QED
    BY <2>1, <2>2, <2>3, <2>4 DEF Confirmation, ConfirmationStep
<1> QED
  BY <1>2, <1>3

(* Every step leaves each row that waits in a pass, or in time for one.     *)
LEMMA StaysInTime ==
  ASSUME IInv, FInv, WindowSpansTick, [Next]_vars
  PROVE  AskedInTime'
<1> SUFFICES ASSUME faults' = 0, NEW i \in DOMAIN appts', Waits(i)'
             PROVE  InHand(i)' \/ nextTick' <= appts'[i].start - WindowLo
  BY DEF AskedInTime
<1>f. faults \in Nat /\ ~(faults' = faults + 1)
  BY ConfirmationAssumption DEF IInv, TypeOK, ConfirmationTypeOK
<1>1. CASE i.at = now /\ now' = now /\ UNCHANGED nextTick
  BY <1>1, BookedInTime DEF FInv
<1>2. CASE ~(i.at = now /\ now' = now /\ UNCHANGED nextTick)
  <2>1. i \in DOMAIN appts /\ Waits(i) /\ appts'[i].start = appts[i].start
    BY <1>2, WaitedBefore
  <2>2. CASE UNCHANGED <<passes, nextTick, faults>>
    <3>1. InHand(i) \/ nextTick <= appts[i].start - WindowLo
      BY <2>1, <2>2 DEF FInv, AskedInTime
    <3>2. InHand(i) => InHand(i)'
      BY <2>2 DEF InHand
    <3> QED
      BY <2>1, <2>2, <3>1, <3>2
  <2>3. ASSUME NEW r \in Requests, Site(r) PROVE UNCHANGED <<passes, nextTick, faults>>
    BY <2>3, <1>f DEF Site, SiteFails
  <2>4. ASSUME NEW h \in Handlers, Handler(h) PROVE UNCHANGED <<passes, nextTick, faults>>
    BY <2>4 DEF Handler
  <2>5. CASE Advance \/ UNCHANGED vars
    BY <2>2, <2>5 DEF Advance, vars
  <2>6. ~Restart
    BY <1>f DEF Restart
  <2>7. ASSUME NEW p \in Passes, Confirmation(p)
        PROVE  InHand(i)' \/ nextTick' <= appts'[i].start - WindowLo
    <3>1. faults = 0
      BY <2>7, <1>f DEF Confirmation, ConfirmationStep, CheckAndSendConfirmations,
                        SendConfirmation, SendFails, MarkConfirmationSent, MarkFails
    <3>2. InHand(i) \/ nextTick <= appts[i].start - WindowLo
      BY <3>1, <2>1 DEF FInv, AskedInTime
    <3>3. appts'[i].confirmationSentAt = NoTime
      BY DEF Waits
    <3>4. CASE InHand(i)
      BY <2>7, <2>1, <3>3, <3>4, PassesKeepHold
    <3>5. CASE ~InHand(i) /\ CheckAndSendConfirmations(p)
      BY <2>1, <3>2, <3>5, FiredInTime
    <3>6. CASE ~InHand(i) /\ ~CheckAndSendConfirmations(p)
      <4>1. UNCHANGED nextTick
        BY <2>7, <3>6 DEF Confirmation, ConfirmationStep, SendConfirmation, SendFails,
                          MarkConfirmationSent, MarkFails
      <4> QED
        BY <4>1, <3>2, <3>6, <2>1
    <3> QED
      BY <3>4, <3>5, <3>6
  <2> QED
    BY <2>2, <2>3, <2>4, <2>5, <2>6, <2>7 DEF Next
<1> QED
  BY <1>1, <1>2

(* While nothing has failed, the job forgets no appointment that was booked *)
(* before its window opened: for every period that fits into the window.    *)
THEOREM NobodyIsForgotten == WindowSpansTick => (Spec => []NobodyForgotten)
<1> SUFFICES ASSUME WindowSpansTick PROVE Spec => []NobodyForgotten
  OBVIOUS
<1>1. Init => FInv
  BY ConfirmationAssumption
  DEF Init, StoreInit, ConfirmationInit, Idle, FInv, TimerPunctual, PassesHoldOne, AskedInTime
<1>2. IInv /\ FInv /\ [Next]_vars => FInv'
  BY TimerStays, PassesStayOne, StaysInTime DEF FInv
<1>3. IInv /\ FInv => NobodyForgotten
  <2> SUFFICES ASSUME IInv, FInv, NEW i \in DOMAIN appts, faults = 0, Waits(i),
                      now > appts[i].start - WindowLo
               PROVE  InHand(i)
    BY DEF NobodyForgotten, Waits, InHand
  <2>1. now \in Nat /\ nextTick \in Nat /\ appts[i].start \in Nat /\ WindowLo \in Nat
    BY ConfirmationAssumption, StoreAssumption
    DEF IInv, TypeOK, StoreTypeOK, ConfirmationTypeOK, Appointments
  <2> QED
    BY <2>1 DEF FInv, TimerPunctual, AskedInTime
<1> QED
  BY <1>1, <1>2, <1>3, InductiveInvariant, PTL DEF Spec

-----------------------------------------------------------------------------
(* The booking page.                                                       *)

(* What the proofs assume of the constants: Nothing is no service, day, time   *)
(* and no reply.  How long a service takes does not matter to the page.        *)
Sound ==
  /\ MaxFetches \in Nat
  /\ Nothing \notin Washes \cup Days \cup Times
  /\ Nothing \notin {"201", "409", "failed"}
  /\ Nothing \notin [order : Orders, reply : {Nothing, "201", "409", "failed"}]

-----------------------------------------------------------------------------
(* The strengthening.  With searches answered one at a time, the search     *)
(* that is on its way is the one for what is chosen, and times that are     *)
(* shown without a spinner were offered for it; nothing of this is said by  *)
(* BookedAsShown before a time is chosen.                                   *)
Counted == begun \in Nat

AnswersOffered ==
  \A f \in fetches : f.answer # Nothing =>
    \A t \in f.answer : [wash |-> f.wash, day |-> f.day, time |-> t] \in offered

InOrder ==
  /\ step >= 1 => service # Nothing
  /\ day # Nothing => service # Nothing
  /\ step >= 3 => day # Nothing /\ time # Nothing
  /\ day = Nothing => fetches = {}

SearchedForDraft ==
  "crossed" \notin met => \A f \in fetches : f.wash = service /\ f.day = day

ShownOffered ==
  met \cap {"crossed", "unanswered"} = {} /\ day # Nothing /\ ~loadingSlots =>
    \A t \in slots : [wash |-> service, day |-> day, time |-> t] \in offered

ChosenOffered ==
  step >= 3 /\ met \cap {"crossed", "unanswered"} = {} => Draft \in offered

(* A booking on its way is the draft, and its reply says what was done.     *)
BookingTrue ==
  /\ confirmed => booking = Nothing
  /\ booking # Nothing /\ "went_back" \notin met => step = 5 /\ booking.order = Draft
  /\ booking # Nothing /\ booking.reply = "201" =>
       [wash |-> booking.order.wash, day |-> booking.order.day,
        time |-> booking.order.time, mine |-> TRUE] \in agenda
  /\ booking # Nothing /\ booking.reply = "failed" => "lost" \in met

(* Nothing in the agenda is the customer's before the page may say so.      *)
NotYetMine ==
  "lost" \notin met /\ ~confirmed /\ (booking = Nothing \/ booking.reply # "201") =>
    \A a \in agenda : ~a.mine

ConfirmedInAgenda ==
  confirmed /\ "went_back" \notin met =>
    [wash |-> service, day |-> day, time |-> time, mine |-> TRUE] \in agenda

PageInv ==
  /\ PageTypeOK /\ Counted
  /\ AnswersOffered /\ InOrder /\ SearchedForDraft /\ ShownOffered /\ ChosenOffered
  /\ BookingTrue /\ NotYetMine /\ ConfirmedInAgenda
-----------------------------------------------------------------------------
(* What the rows of the server's agenda are, for the lemmas on types.       *)
AgendaRows == [wash : Washes, day : Days, time : Times, mine : BOOLEAN]

(* Search keeps the types of what it writes.                                *)
LEMMA SearchTypes ==
  ASSUME Sound, PageTypeOK, Counted,
         NEW w \in Washes \cup {Nothing}, NEW d \in Days \cup {Nothing}, Search(w, d)
  PROVE  /\ begun' \in Nat /\ loadingSlots' \in BOOLEAN
         /\ \A f \in fetches' : f \in [id : 1..MaxFetches, wash : Washes, day : Days,
                                       answer : {Nothing} \cup SUBSET Times]
         /\ met' \subseteq {"crossed", "unanswered", "lost", "went_back"}
PROOF
  <1>1. CASE w = Nothing \/ d = Nothing
    BY <1>1 DEF Search, PageTypeOK, Counted
  <1>2. CASE ~(w = Nothing \/ d = Nothing)
    <2>1. /\ begun' = begun + 1 /\ begun < MaxFetches
          /\ loadingSlots' = TRUE
          /\ fetches' = fetches \cup {[id |-> begun', wash |-> w, day |-> d, answer |-> Nothing]}
          /\ met' = met \cup (IF fetches = {} THEN {} ELSE {"crossed"})
      BY <1>2 DEF Search
    <2>2. begun' \in 1..MaxFetches
      BY <2>1 DEF Sound, Counted
    <2>3. [id |-> begun', wash |-> w, day |-> d, answer |-> Nothing]
            \in [id : 1..MaxFetches, wash : Washes, day : Days, answer : {Nothing} \cup SUBSET Times]
      BY <2>2, <1>2
    <2>. QED BY <2>1, <2>2, <2>3 DEF PageTypeOK
  <1>. QED BY <1>1, <1>2

(* Every step keeps the types; those of Search are above.                   *)
LEMMA TypesKept ==
  ASSUME Sound, PageInv, [PageNext]_pageVars
  PROVE  PageTypeOK' /\ Counted'
PROOF
  <1>. USE DEF Sound, PageInv, PageTypeOK, Counted, InOrder, Orders, Draft, draft, bounds
  <1>1. ASSUME NEW w \in Washes, ChooseWash(w) PROVE PageTypeOK' /\ Counted'
    <2>1. CASE w = service
      <3>1. /\ service' = w /\ step' = 1
            /\ UNCHANGED <<day, time, slots, booking, confirmed, agenda, offered>>
            /\ UNCHANGED <<loadingSlots, fetches, begun, met>>
        BY <1>1, <2>1 DEF ChooseWash
      <3>. QED BY <3>1
    <2>2. CASE w # service
      <3>1. Search(w, day)
        BY <1>1, <2>2 DEF ChooseWash
      <3>2. day \in Days \cup {Nothing} /\ PageTypeOK /\ Counted
        OBVIOUS
      <3>. QED BY <1>1, <3>1, <3>2, SearchTypes DEF ChooseWash
    <2>. QED BY <2>1, <2>2
  <1>2. CASE ChooseVehicle
    BY <1>2 DEF ChooseVehicle
  <1>3. ASSUME NEW d \in Days, ChooseDay(d) PROVE PageTypeOK' /\ Counted'
    <2>1. Search(service, d) /\ service \in Washes \cup {Nothing} /\ PageTypeOK /\ Counted
      BY <1>3 DEF ChooseDay
    <2>. QED BY <1>3, <2>1, SearchTypes DEF ChooseDay
  <1>4. ASSUME NEW t \in Times, ChooseTime(t) PROVE PageTypeOK' /\ Counted'
    BY <1>4 DEF ChooseTime
  <1>5. CASE TypeDetails
    BY <1>5 DEF TypeDetails
  <1>6. CASE GoBack
    BY <1>6 DEF GoBack
  <1>7. CASE Confirm
    BY <1>7 DEF Confirm
  <1>8. CASE ShowReply
    BY <1>8 DEF ShowReply
  <1>9. CASE Leave
    <2>1. \A a \in agenda : [a EXCEPT !.mine = FALSE] \in AgendaRows
      BY ZenonT(40) DEF AgendaRows
    <2>2. \A o \in StillMade :
            [wash |-> o.wash, day |-> o.day, time |-> o.time, mine |-> FALSE] \in AgendaRows
      BY DEF AgendaRows, StillMade
    <2>3. agenda' \subseteq AgendaRows
      BY ONLY <1>9, <2>1, <2>2 DEF Leave
    <2>4. /\ step' = 0 /\ service' = Nothing /\ day' = Nothing /\ time' = Nothing
          /\ slots' = {} /\ loadingSlots' = FALSE /\ fetches' = {}
          /\ booking' = Nothing /\ confirmed' = FALSE
          /\ UNCHANGED <<offered, bounds, met>>
      BY <1>9 DEF Leave
    <2>5. UNCHANGED <<offered, begun, met>>
      BY <2>4
    <2>6. loadingSlots' \in BOOLEAN /\ confirmed' \in BOOLEAN
      BY ONLY <2>4, Zenon
    <2>7. step' \in 0..5 /\ begun' \in Nat
      BY <2>4, <2>5
    <2>8. /\ service' \in Washes \cup {Nothing} /\ day' \in Days \cup {Nothing}
          /\ time' \in Times \cup {Nothing}
      BY ONLY <2>4, Zenon
    <2>9. slots' \subseteq Times /\ \A f \in fetches' : FALSE
      BY ONLY <2>4, Zenon
    <2>10. offered' \subseteq Orders /\ met' \subseteq {"crossed", "unanswered", "lost", "went_back"}
      BY <2>5, Zenon
    <2>. QED BY <2>3, <2>4, <2>6, <2>8, <2>9, <2>10, <2>7 DEF AgendaRows
  <1>10. ASSUME NEW f \in fetches, AnswerSlots(f) PROVE PageTypeOK' /\ Counted'
    BY <1>10 DEF AnswerSlots
  <1>11. ASSUME NEW f \in fetches, ShowSlots(f) PROVE PageTypeOK' /\ Counted'
    BY <1>11 DEF ShowSlots
  <1>12. ASSUME NEW f \in fetches, NoSlots(f) PROVE PageTypeOK' /\ Counted'
    BY <1>12 DEF NoSlots
  <1>13. CASE AnswerBooking
    <2>1. booking \in [order : Orders, reply : {Nothing, "201", "409", "failed"}]
      BY <1>13 DEF AnswerBooking
    <2>2. [wash |-> booking.order.wash, day |-> booking.order.day,
           time |-> booking.order.time, mine |-> TRUE] \in AgendaRows
      BY <2>1 DEF AgendaRows
    <2>3. agenda' \subseteq AgendaRows
      <3>. DEFINE made == [wash |-> booking.order.wash, day |-> booking.order.day,
                           time |-> booking.order.time, mine |-> TRUE]
      <3>1. agenda' = agenda \cup {made} \/ agenda' = agenda
        BY <1>13 DEF AnswerBooking
      <3>2. made \in AgendaRows /\ agenda \subseteq AgendaRows
        BY <2>2 DEF AgendaRows
      <3>. HIDE DEF made
      <3>. QED BY <3>1, <3>2
    <2>4. /\ booking' \in [order : Orders, reply : {Nothing, "201", "409", "failed"}]
          /\ met' \subseteq {"crossed", "unanswered", "lost", "went_back"}
      BY <1>13, <2>1 DEF AnswerBooking
    <2>. QED BY <1>13, <2>3, <2>4 DEF AnswerBooking, AgendaRows
  <1>14. CASE OtherBooks
    <2>1. PICK w \in Washes, d \in Days, t \in Times :
            agenda' = agenda \cup {[wash |-> w, day |-> d, time |-> t, mine |-> FALSE]}
      BY <1>14 DEF OtherBooks
    <2>2. [wash |-> w, day |-> d, time |-> t, mine |-> FALSE] \in AgendaRows
          /\ agenda \subseteq AgendaRows
      BY DEF AgendaRows
    <2>3. agenda' \subseteq AgendaRows
      BY <2>1, <2>2
    <2>. QED BY <1>14, <2>3 DEF OtherBooks, AgendaRows
  <1>15. CASE UNCHANGED pageVars
    BY <1>15 DEF pageVars
  <1>. QED BY <1>1, <1>2, <1>3, <1>4, <1>5, <1>6, <1>7, <1>8, <1>9, <1>10, <1>11, <1>12, <1>13, <1>14, <1>15 DEF PageNext

(* What searches are on their way stays known: their answers are offers,    *)
(* and, until two cross, they are for what is chosen.                       *)
LEMMA SearchKept ==
  ASSUME Sound, PageInv, [PageNext]_pageVars
  PROVE  AnswersOffered' /\ InOrder' /\ SearchedForDraft'
PROOF
  <1>. USE DEF Sound, PageInv, PageTypeOK, AnswersOffered, InOrder, SearchedForDraft, draft, bounds
  <1>1. ASSUME NEW w \in Washes, ChooseWash(w) PROVE AnswersOffered' /\ InOrder' /\ SearchedForDraft'
    BY <1>1 DEF ChooseWash, Search
  <1>2. CASE ChooseVehicle
    BY <1>2 DEF ChooseVehicle
  <1>3. ASSUME NEW d \in Days, ChooseDay(d) PROVE AnswersOffered' /\ InOrder' /\ SearchedForDraft'
    BY <1>3 DEF ChooseDay, Search
  <1>4. ASSUME NEW t \in Times, ChooseTime(t) PROVE AnswersOffered' /\ InOrder' /\ SearchedForDraft'
    BY <1>4 DEF ChooseTime
  <1>5. CASE TypeDetails
    BY <1>5 DEF TypeDetails
  <1>6. CASE GoBack
    BY <1>6 DEF GoBack
  <1>7. CASE Confirm
    BY <1>7 DEF Confirm
  <1>8. CASE ShowReply
    BY <1>8 DEF ShowReply
  <1>9. CASE Leave
    BY <1>9 DEF Leave
  <1>10. ASSUME NEW f \in fetches, AnswerSlots(f) PROVE AnswersOffered' /\ InOrder' /\ SearchedForDraft'
    BY <1>10 DEF AnswerSlots
  <1>11. ASSUME NEW f \in fetches, ShowSlots(f) PROVE AnswersOffered' /\ InOrder' /\ SearchedForDraft'
    BY <1>11 DEF ShowSlots
  <1>12. ASSUME NEW f \in fetches, NoSlots(f) PROVE AnswersOffered' /\ InOrder' /\ SearchedForDraft'
    BY <1>12 DEF NoSlots
  <1>13. CASE AnswerBooking
    BY <1>13 DEF AnswerBooking
  <1>14. CASE OtherBooks
    BY <1>14 DEF OtherBooks
  <1>15. CASE UNCHANGED pageVars
    BY <1>15 DEF pageVars
  <1>. QED BY <1>1, <1>2, <1>3, <1>4, <1>5, <1>6, <1>7, <1>8, <1>9, <1>10, <1>11, <1>12, <1>13, <1>14, <1>15 DEF PageNext

(* The times that are shown stay the ones offered for what is chosen, and   *)
(* so does what is chosen: an answer that comes alone is the latest.        *)
LEMMA ShownKept ==
  ASSUME Sound, PageInv, [PageNext]_pageVars
  PROVE  ShownOffered' /\ ChosenOffered'
PROOF
  <1>. USE DEF Sound, PageInv, PageTypeOK, AnswersOffered, InOrder, SearchedForDraft, ShownOffered, ChosenOffered, Draft, draft, bounds
  <1>1. ASSUME NEW w \in Washes, ChooseWash(w) PROVE ShownOffered' /\ ChosenOffered'
    BY <1>1 DEF ChooseWash, Search
  <1>2. CASE ChooseVehicle
    BY <1>2 DEF ChooseVehicle
  <1>3. ASSUME NEW d \in Days, ChooseDay(d) PROVE ShownOffered' /\ ChosenOffered'
    BY <1>3 DEF ChooseDay, Search
  <1>4. ASSUME NEW t \in Times, ChooseTime(t) PROVE ShownOffered' /\ ChosenOffered'
    BY <1>4 DEF ChooseTime
  <1>5. CASE TypeDetails
    BY <1>5 DEF TypeDetails
  <1>6. CASE GoBack
    BY <1>6 DEF GoBack
  <1>7. CASE Confirm
    BY <1>7 DEF Confirm
  <1>8. CASE ShowReply
    BY <1>8 DEF ShowReply
  <1>9. CASE Leave
    BY <1>9 DEF Leave
  <1>10. ASSUME NEW f \in fetches, AnswerSlots(f) PROVE ShownOffered' /\ ChosenOffered'
    BY <1>10 DEF AnswerSlots
  <1>11. ASSUME NEW f \in fetches, ShowSlots(f) PROVE ShownOffered' /\ ChosenOffered'
    BY <1>11 DEF ShowSlots
  <1>12. ASSUME NEW f \in fetches, NoSlots(f) PROVE ShownOffered' /\ ChosenOffered'
    BY <1>12 DEF NoSlots
  <1>13. CASE AnswerBooking
    BY <1>13 DEF AnswerBooking
  <1>14. CASE OtherBooks
    BY <1>14 DEF OtherBooks
  <1>15. CASE UNCHANGED pageVars
    BY <1>15 DEF pageVars
  <1>. QED BY <1>1, <1>2, <1>3, <1>4, <1>5, <1>6, <1>7, <1>8, <1>9, <1>10, <1>11, <1>12, <1>13, <1>14, <1>15 DEF PageNext

(* The booking stays told as it is: only a reply "201" or a lost one leaves *)
(* the customer with something in the agenda.                               *)
LEMMA BookingKept ==
  ASSUME Sound, PageInv, [PageNext]_pageVars
  PROVE  BookingTrue' /\ NotYetMine' /\ ConfirmedInAgenda'
PROOF
  <1>. USE DEF Sound, PageInv, PageTypeOK, Orders, BookingTrue, NotYetMine, ConfirmedInAgenda, Draft, draft, bounds
  <1>1. ASSUME NEW w \in Washes, ChooseWash(w) PROVE BookingTrue' /\ NotYetMine' /\ ConfirmedInAgenda'
    BY <1>1 DEF ChooseWash, Search
  <1>2. CASE ChooseVehicle
    BY <1>2 DEF ChooseVehicle
  <1>3. ASSUME NEW d \in Days, ChooseDay(d) PROVE BookingTrue' /\ NotYetMine' /\ ConfirmedInAgenda'
    BY <1>3 DEF ChooseDay, Search
  <1>4. ASSUME NEW t \in Times, ChooseTime(t) PROVE BookingTrue' /\ NotYetMine' /\ ConfirmedInAgenda'
    BY <1>4 DEF ChooseTime
  <1>5. CASE TypeDetails
    BY <1>5 DEF TypeDetails
  <1>6. CASE GoBack
    BY <1>6 DEF GoBack
  <1>7. CASE Confirm
    BY <1>7 DEF Confirm
  <1>8. CASE ShowReply
    <2>1. booking' = Nothing /\ confirmed' = (booking.reply = "201")
          /\ UNCHANGED <<step, service, day, time, agenda, met>> /\ booking # Nothing
      BY <1>8 DEF ShowReply
    <2>2. BookingTrue'
      BY <2>1
    <2>3. NotYetMine'
      BY <2>1
    <2>4. ConfirmedInAgenda'
      <3>. SUFFICES ASSUME booking.reply = "201", "went_back" \notin met
                    PROVE  [wash |-> service, day |-> day, time |-> time, mine |-> TRUE] \in agenda
        BY <2>1
      <3>1. booking.order = Draft
        BY <2>1
      <3>2. booking.order.wash = service /\ booking.order.day = day /\ booking.order.time = time
        BY <3>1
      <3>. QED BY <2>1, <3>2
    <2>. QED BY <2>2, <2>3, <2>4
  <1>9. CASE Leave
    BY <1>9 DEF Leave
  <1>10. ASSUME NEW f \in fetches, AnswerSlots(f) PROVE BookingTrue' /\ NotYetMine' /\ ConfirmedInAgenda'
    BY <1>10 DEF AnswerSlots
  <1>11. ASSUME NEW f \in fetches, ShowSlots(f) PROVE BookingTrue' /\ NotYetMine' /\ ConfirmedInAgenda'
    BY <1>11 DEF ShowSlots
  <1>12. ASSUME NEW f \in fetches, NoSlots(f) PROVE BookingTrue' /\ NotYetMine' /\ ConfirmedInAgenda'
    BY <1>12 DEF NoSlots
  <1>13. CASE AnswerBooking
    <2>. DEFINE mine == [wash |-> booking.order.wash, day |-> booking.order.day,
                         time |-> booking.order.time, mine |-> TRUE]
    <2>1. /\ booking # Nothing /\ booking.reply = Nothing /\ ~confirmed
          /\ booking \in [order : Orders, reply : {Nothing, "201", "409", "failed"}]
          /\ UNCHANGED <<step, service, day, time, confirmed>>
      BY <1>13 DEF AnswerBooking
    <2>2. agenda' = agenda \cup {mine} \/ agenda' = agenda
      BY <1>13 DEF AnswerBooking
    <2>3. CASE booking' = [booking EXCEPT !.reply = "201"] /\ agenda' # agenda /\ met' = met
      <3>a. agenda' = agenda \cup {mine}
        BY ONLY <2>2, <2>3, Zenon
      <3>b. booking'.order = booking.order /\ booking'.reply = "201"
        BY ONLY <2>1, <2>3
      <3>1. agenda' = agenda \cup {mine} /\ booking'.order = booking.order
            /\ booking'.reply = "201"
        BY <3>a, <3>b, Zenon
      <3>2. BookingTrue'
        BY <2>1, <2>3, <3>1
      <3>3. booking' # Nothing
        BY <2>1, <2>3
      <3>4. NotYetMine' /\ ConfirmedInAgenda'
        BY <2>1, <3>1, <3>3
      <3>. QED BY <3>2, <3>4
    <2>4. CASE booking' = [booking EXCEPT !.reply = "409"] /\ agenda' = agenda /\ met' = met
      BY <2>1, <2>4
    <2>5. CASE booking' = [booking EXCEPT !.reply = "failed"] /\ met' = met \cup {"lost"}
      BY <2>1, <2>5
    <2>. QED BY <1>13, <2>3, <2>4, <2>5 DEF AnswerBooking
  <1>14. CASE OtherBooks
    BY <1>14 DEF OtherBooks
  <1>15. CASE UNCHANGED pageVars
    BY <1>15 DEF pageVars
  <1>. QED BY <1>1, <1>2, <1>3, <1>4, <1>5, <1>6, <1>7, <1>8, <1>9, <1>10, <1>11, <1>12, <1>13, <1>14, <1>15 DEF PageNext

-----------------------------------------------------------------------------
(* Nothing is chosen, offered, on its way or booked when the page opens.    *)
LEMMA InitPageInv == Sound /\ PageInit => PageInv
PROOF
  <1>. SUFFICES ASSUME Sound, PageInit PROVE PageInv
    OBVIOUS
  <1>1. PageTypeOK /\ Counted
    <2>1. /\ step \in 0..5 /\ begun \in Nat
          /\ service \in Washes \cup {Nothing} /\ day \in Days \cup {Nothing}
          /\ time \in Times \cup {Nothing}
      BY DEF PageInit
    <2>2. loadingSlots \in BOOLEAN /\ confirmed \in BOOLEAN
      BY Zenon DEF PageInit
    <2>3. slots \subseteq Times /\ offered \subseteq Orders /\ booking = Nothing
          /\ met \subseteq {"crossed", "unanswered", "lost", "went_back"} /\ agenda = {} /\ fetches = {}
      BY Zenon DEF PageInit
    <2>. QED BY <2>1, <2>2, <2>3, Zenon DEF PageTypeOK, Counted
  <1>2. AnswersOffered /\ SearchedForDraft /\ InOrder
    BY DEF PageInit, AnswersOffered, SearchedForDraft, InOrder
  <1>3. ShownOffered /\ ChosenOffered
    BY DEF PageInit, ShownOffered, ChosenOffered
  <1>4. BookingTrue /\ NotYetMine /\ ConfirmedInAgenda
    BY DEF PageInit, BookingTrue, NotYetMine, ConfirmedInAgenda
  <1>. QED BY <1>1, <1>2, <1>3, <1>4 DEF PageInv

(* The strengthening is an invariant of the page, whatever the constants.   *)
THEOREM PageInvariant == Sound => (PageSpec => []PageInv)
PROOF
  <1>. SUFFICES ASSUME Sound PROVE PageSpec => []PageInv
    OBVIOUS
  <1>1. PageInit => PageInv
    BY InitPageInv
  <1>2. PageInv /\ [PageNext]_pageVars => PageInv'
    BY TypesKept, SearchKept, ShownKept, BookingKept DEF PageInv
  <1>. QED BY <1>1, <1>2, PTL DEF PageSpec

(* What the page keeps has its type: the step it shows, what is chosen, the *)
(* searches and the booking on their way, and what the server has.          *)
THEOREM PageTypes == Sound => (PageSpec => []PageTypeOK)
PROOF
  <1>1. PageInv => PageTypeOK
    BY DEF PageInv
  <1>. QED BY <1>1, PageInvariant, PTL

(* BookedAsShown: what is chosen was offered, what is shown as booked is    *)
(* booked, and who is told that a time is taken has not taken it, save for  *)
(* the crossings the property names; whatever the customer clicks and in    *)
(* whatever order answers come.                                             *)
THEOREM WhatIsShownIsBooked == Sound => (PageSpec => []BookedAsShown)
PROOF
  <1>1. PageInv => BookedAsShown
    <2>. SUFFICES ASSUME PageInv PROVE BookedAsShown
      OBVIOUS
    <2>1. booking # Nothing /\ booking.reply = "409" /\ "lost" \notin met =>
            \A a \in agenda : ~a.mine
      BY DEF PageInv, BookingTrue, NotYetMine
    <2>. QED BY <2>1 DEF PageInv, ChosenOffered, ConfirmedInAgenda, BookedAsShown
  <1>. QED BY <1>1, PageInvariant, PTL
=============================================================================
