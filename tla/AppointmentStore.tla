-------------------------- MODULE AppointmentStore --------------------------
(***************************************************************************)
(* The tables of the Trinity bot that hold the car wash's agenda, and the  *)
(* SQL statements of src-bot/database/Database.js that read and write      *)
(* them.  One operator per statement: a statement is atomic, what lies     *)
(* between two statements of a caller is not.  The schema is schema-pg.sql *)
(* with the migration that adds vehicles.                                  *)
(*                                                                         *)
(* Time is counted in units of the slot grid.  An appointment is keyed by  *)
(* `APT-${Date.now()}`: the unit in which it was inserted and the          *)
(* millisecond within it.                                                  *)
(***************************************************************************)
EXTENDS Integers, Sequences

CONSTANTS
  Orgs,              \* tenants (rows of organizations)
  Phones,            \* telephone numbers, without the WhatsApp suffix
  Services,          \* identifiers of services
  Catalogue,         \* Catalogue[o]: the active services of o, ordered by name
  Duration,          \* Duration[s]: duration_minutes
  Buffer,            \* Buffer[s]: buffer_minutes
  Open, Close,       \* business hours
  Starts,            \* start times a booking may ask for
  Millis,            \* milliseconds told apart within one unit of time
  Horizon,           \* bound: the last instant of a behaviour
  HasUpdatedAt,      \* does appointments have the column updated_at?
  NoTime,            \* SQL NULL of a timestamp column
  NoVehicle          \* SQL NULL of vehicle_id

ASSUME StoreAssumption ==
  /\ Catalogue \in [Orgs -> Seq(Services)]
  /\ Duration \in [Services -> Nat \ {0}]
  /\ Buffer \in [Services -> Nat]
  /\ Open \in Nat /\ Close \in Nat
  /\ Starts \subseteq Nat
  /\ Horizon \in Nat
  /\ HasUpdatedAt \in BOOLEAN
  /\ NoTime \notin Nat

VARIABLES
  now,               \* Date.now() and NOW()
  customers,         \* rows of customers, by their UNIQUE key
  vehicles,          \* customers that own a vehicle row
  appts              \* rows of appointments: a function from their ids

storeVars == <<now, customers, vehicles, appts>>

-----------------------------------------------------------------------------
(* A remote_jid either carries a domain ("5511...@s.whatsapp.net") or is a *)
(* bare telephone, the form in which the site sends it.                    *)
Jids == [phone : Phones, domain : BOOLEAN]
WhatsAppJid(p) == [phone |-> p, domain |-> TRUE]
BarePhone(p) == [phone |-> p, domain |-> FALSE]

CustomerRows == [jid : Jids, org : Orgs]
AptIds == [at : 0..Horizon, ms : Millis]
Statuses == {"agendado", "confirmado", "cancelado"}

Appointments ==
  [customer : CustomerRows, org : Orgs, service : Services,
   vehicle : CustomerRows \cup {NoVehicle},
   start : Nat, finish : Nat, status : Statuses,
   confirmationSentAt : Nat \cup {NoTime}, confirmedAt : Nat \cup {NoTime}]

-----------------------------------------------------------------------------
(* Customers and vehicles: findOrCreate is a SELECT and then an INSERT.    *)

\* SELECT * FROM customers WHERE remote_jid = $1 AND organization_id = $2
CustomerFound(jid, o) == [jid |-> jid, org |-> o] \in customers

\* The row the INSERT writes: finalJid always carries a domain.
CustomerRow(jid, o) == [jid |-> [jid EXCEPT !.domain = TRUE], org |-> o]

\* UNIQUE(remote_jid, organization_id) refuses a second row.
InsertCustomer(row) == row \notin customers /\ customers' = customers \cup {row}

VehicleFound(c) == c \in vehicles

-----------------------------------------------------------------------------
(* Services and appointments.                                              *)

\* getServicesByOrganization(o).find(s => s.id === ...)
InCatalogue(o, s) == \E k \in DOMAIN Catalogue[o] : Catalogue[o][k] = s

\* The rows the exclusion constraint no_overlap looks at.
Occupying(a) == a.status \in {"agendado", "confirmado"}

\* organization_id WITH =, tstzrange(start_time, end_time) WITH &&
Overlaps(a, b) == a.org = b.org /\ a.start < b.finish /\ b.start < a.finish

\* Mutant: the constraint covers 'agendado' only, as before its migration.
FitsAgendaAgendadoOnly(id, a) ==
  a.status = "agendado" => \A other \in DOMAIN appts \ {id} :
                             appts[other].status = "agendado" => ~Overlaps(a, appts[other])

\* Would row id with contents a satisfy no_overlap?
FitsAgenda(id, a) ==
  Occupying(a) => \A other \in DOMAIN appts \ {id} :
                     Occupying(appts[other]) => ~Overlaps(a, appts[other])

\* Mutant: a table created without the exclusion constraint.
InsertWithoutConstraint(id, a) == IF id \in DOMAIN appts THEN "duplicate" ELSE "ok"

\* createAppointment: "ok", CONFLITO_AGENDA, or the primary key is taken.
InsertOutcome(id, a) ==
  IF id \in DOMAIN appts THEN "duplicate"
  ELSE IF FitsAgenda(id, a) THEN "ok" ELSE "CONFLITO_AGENDA"

InsertAppointment(id, a) ==
  appts' = [i \in DOMAIN appts \cup {id} |-> IF i = id THEN a ELSE appts[i]]

NewAppointment(c, o, s, v, start, finish) ==
  [customer |-> c, org |-> o, service |-> s, vehicle |-> v,
   start |-> start, finish |-> finish, status |-> "agendado",
   confirmationSentAt |-> NoTime, confirmedAt |-> NoTime]

\* The row after UPDATE ... SET status = 'confirmado', confirmed_at = NOW().
Confirmed(a) == [a EXCEPT !.status = "confirmado", !.confirmedAt = now]

\* The row after updateAppointmentStatus(id, org, 'cancelado').
Cancelled(a) == [a EXCEPT !.status = "cancelado"]

\* updateAppointmentStatus throws unless the column updated_at exists.
CanUpdateStatus == HasUpdatedAt

-----------------------------------------------------------------------------
(* getAvailableSlots: the grid of free starts of a service on the day.     *)

\* getAppointmentsByRange: what the slot grid counts as occupied.
AppointmentsByRange(o) ==
  {appts[i] : i \in {j \in DOMAIN appts :
                       appts[j].org = o /\ appts[j].status = "agendado"}}

AvailableSlots(o, s) ==
  LET total == Duration[s] + Buffer[s] IN
  {t \in Open..(Close - 1) :
     /\ t >= now
     /\ t + total <= Close
     /\ \A a \in AppointmentsByRange(o) : ~(t < a.finish /\ a.start < t + total)}

-----------------------------------------------------------------------------
StoreTypeOK ==
  /\ now \in 0..Horizon
  /\ customers \subseteq CustomerRows
  /\ vehicles \subseteq CustomerRows
  /\ DOMAIN appts \subseteq AptIds
  /\ \A i \in DOMAIN appts : appts[i] \in Appointments

StoreInit ==
  /\ now = 0
  /\ customers = {}
  /\ vehicles = {}
  /\ appts = [i \in {} |-> {}]
=============================================================================
