------------------------------- MODULE Trinity -------------------------------
(***************************************************************************)
(* The agenda of the Trinity bot as one process runs it (src-bot/index.js) *)
(* : the booking endpoint of the site, the webhook handlers and the timer  *)
(* of the confirmation job, interleaved at their awaits on one database.   *)
(***************************************************************************)
EXTENDS SiteBooking, Confirmations, WhatsAppAgenda, FiniteSets

vars == <<storeVars, requests, confirmationVars, handlers>>

Init ==
  /\ StoreInit
  /\ SiteInit
  /\ ConfirmationInit
  /\ HandlerInit

-----------------------------------------------------------------------------
\* Time passes.  The timer is punctual: it fires before the next unit.
Advance ==
  /\ now < Horizon
  /\ now < nextTick
  /\ now' = now + 1
  /\ UNCHANGED <<customers, vehicles, appts, requests, confirmationVars, handlers>>

\* The process dies and is started again: everything between two awaits is
\* lost, the tables stay, the interval starts from zero.
Restart ==
  /\ faults < MaxFaults
  /\ faults' = faults + 1
  /\ nextTick' = now + TickPeriod
  /\ requests' = [r \in Requests |-> [pc |-> "idle", body |-> NoRequest, reply |-> "none"]]
  /\ passes' = [p \in Passes |-> Idle]
  /\ handlers' = [h \in Handlers |-> Quiet]
  /\ UNCHANGED asked
  /\ UNCHANGED storeVars

SiteFails(r) ==
  /\ faults < MaxFaults
  /\ faults' = faults + 1
  /\ SiteFailure(r)
  /\ UNCHANGED <<passes, nextTick, asked>>

Site(r) ==
  \/ SiteStep(r) /\ UNCHANGED <<confirmationVars, handlers>>
  \/ SiteFails(r) /\ UNCHANGED handlers

Confirmation(p) == ConfirmationStep(p) /\ UNCHANGED <<requests, handlers>>

Handler(h) == HandlerStep(h) /\ UNCHANGED <<requests, confirmationVars>>

Next ==
  \/ \E r \in Requests : Site(r)
  \/ \E p \in Passes : Confirmation(p)
  \/ \E h \in Handlers : Handler(h)
  \/ Advance
  \/ Restart

Spec == Init /\ [][Next]_vars

-----------------------------------------------------------------------------
(* Type invariant of the tables, the requests, the job and the handlers.   *)
TypeOK == StoreTypeOK /\ SiteTypeOK /\ ConfirmationTypeOK /\ HandlerTypeOK

(* No two appointments of one car wash that are booked or confirmed share  *)
(* a minute: whatever the order in which site requests, assistants and     *)
(* late confirmations reach the table.                                     *)
NoOverlap ==
  \A i, j \in DOMAIN appts :
    i # j /\ Occupying(appts[i]) /\ Occupying(appts[j])
      => ~Overlaps(appts[i], appts[j])

(* The rows that occupy the agenda, seen as reservations.                  *)
Reservation(i) ==
  [id |-> i, org |-> appts[i].org, customer |-> appts[i].customer,
   start |-> appts[i].start, finish |-> appts[i].finish,
   firm |-> appts[i].status = "confirmado"]

Held == {Reservation(i) : i \in {j \in DOMAIN appts : Occupying(appts[j])}}

A == INSTANCE Agenda WITH
       Ids <- AptIds, Customers <- CustomerRows, held <- Held

(* The bot implements the abstract agenda: every step of every caller      *)
(* reserves, makes firm or releases one reservation, or none.              *)
ImplementsAgenda == A!AgendaSpec

(* Nobody is confirmed without having been asked: a row with confirmed_at  *)
(* was marked by the job, after the question had been delivered.           *)
ConfirmedWasAsked ==
  \A i \in DOMAIN appts :
    /\ appts[i].status = "confirmado" => appts[i].confirmedAt # NoTime
    /\ appts[i].confirmedAt # NoTime => appts[i].confirmationSentAt # NoTime
    /\ appts[i].confirmationSentAt # NoTime => asked[i] >= 1

(* Only the customer of an appointment settles it: a status changes in a   *)
(* step of a handler of a message from that customer to that car wash, and *)
(* never back to agendado.                                                 *)
OnlyOwnerDecides ==
  [][\A i \in DOMAIN appts :
       appts'[i].status # appts[i].status =>
         /\ appts'[i].status # "agendado"
         /\ \E h \in Handlers :
              /\ handlers[h].apt = i
              /\ handlers'[h] # handlers[h]
              /\ Sender(h) = appts[i].customer
              /\ handlers[h].msg.org = appts[i].org]_vars

(* The window is wide enough for the timer: with no failure, an appointment *)
(* booked before its window opened and still agendado when it has shut has  *)
(* been marked, or a pass has it in hand.                                   *)
NobodyForgotten ==
  \A i \in DOMAIN appts :
    /\ faults = 0
    /\ i.at < appts[i].start - WindowHi
    /\ now > appts[i].start - WindowLo
    /\ appts[i].status = "agendado"
    /\ appts[i].confirmationSentAt = NoTime
    => \E p \in Passes : i \in passes[p].todo \cup {passes[p].apt}

-----------------------------------------------------------------------------
(* A site booking is refused only for a reason the customer can act on: it  *)
(* is created, or the slot is taken.                                        *)
SiteBookingSucceeds == \A r \in Requests : requests[r].reply # "500"

(* A start that the slot grid offers is free: none of the hours it would    *)
(* take belongs to an appointment that occupies the agenda.                 *)
OfferedSlotsAreFree ==
  \A o \in Orgs, s \in Services :
    \A t \in AvailableSlots(o, s), i \in DOMAIN appts :
      Occupying(appts[i]) /\ appts[i].org = o =>
        ~(t < appts[i].finish /\ appts[i].start < t + Duration[s] + Buffer[s])
=============================================================================
