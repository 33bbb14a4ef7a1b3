----------------------------- MODULE SiteBooking -----------------------------
(***************************************************************************)
(* POST /api/public/bookings (src-bot/booking.routes.js) and the cascade   *)
(* db.saveFullBooking it runs: customer, vehicle, appointment, each with   *)
(* statements of its own and no database transaction around them.  A       *)
(* request that fails half way leaves the rows it has written.             *)
(***************************************************************************)
EXTENDS AppointmentStore

CONSTANTS
  Requests,          \* HTTP requests that may be in progress at once
  NoRequest          \* the contents of an idle request

VARIABLE
  requests           \* requests[r]: progress of request r and its last reply

Bodies == [org : Orgs, phone : Phones, service : Services, start : Starts]

RequestStates ==
  {"idle", "insert_customer", "find_vehicle", "insert_vehicle",
   "insert_appointment"}

Replies == {"none", "201", "409", "500"}

SiteTypeOK ==
  requests \in [Requests -> [pc : RequestStates,
                             body : Bodies \cup {NoRequest},
                             reply : Replies]]

SiteInit ==
  requests = [r \in Requests |-> [pc |-> "idle", body |-> NoRequest, reply |-> "none"]]

-----------------------------------------------------------------------------
\* const effectiveService = service || services[0]
EffectiveService(b) ==
  IF InCatalogue(b.org, b.service) THEN b.service ELSE Catalogue[b.org][1]

\* end = start + duration: the buffer of the service is not added.
SiteEnd(b) == b.start + Duration[EffectiveService(b)]

\* findOrCreateCustomer looks the bare phone up and stores the full JID.
SiteLookup(b) == CustomerFound(BarePhone(b.phone), b.org)
SiteCustomer(b) == CustomerRow(BarePhone(b.phone), b.org)

SiteAppointment(b) ==
  NewAppointment(SiteCustomer(b), b.org, EffectiveService(b),
                 SiteCustomer(b), b.start, SiteEnd(b))

Goto(r, label) == requests' = [requests EXCEPT ![r].pc = label]

Respond(r, code) ==
  requests' = [requests EXCEPT ![r] = [pc |-> "idle", body |-> NoRequest, reply |-> code]]

-----------------------------------------------------------------------------
\* The body arrives, its organization and catalogue are read, and the
\* cascade looks the customer up.  With an empty catalogue effectiveService
\* is undefined and reading its id throws.
PostBooking(r) ==
  /\ requests[r].pc = "idle"
  /\ \E b \in Bodies :
       IF Catalogue[b.org] = <<>>
       THEN Respond(r, "500")
       ELSE requests' = [requests EXCEPT ![r] =
              [pc |-> IF SiteLookup(b) THEN "find_vehicle" ELSE "insert_customer",
               body |-> b, reply |-> "none"]]
  /\ UNCHANGED storeVars

SiteInsertCustomer(r) ==
  /\ requests[r].pc = "insert_customer"
  /\ \/ /\ InsertCustomer(SiteCustomer(requests[r].body))
        /\ Goto(r, "find_vehicle")
     \/ /\ SiteCustomer(requests[r].body) \in customers
        /\ Respond(r, "500")
        /\ UNCHANGED customers
  /\ UNCHANGED <<now, vehicles, appts>>

SiteFindVehicle(r) ==
  /\ requests[r].pc = "find_vehicle"
  /\ Goto(r, IF VehicleFound(SiteCustomer(requests[r].body))
             THEN "insert_appointment" ELSE "insert_vehicle")
  /\ UNCHANGED storeVars

SiteInsertVehicle(r) ==
  /\ requests[r].pc = "insert_vehicle"
  /\ vehicles' = vehicles \cup {SiteCustomer(requests[r].body)}
  /\ Goto(r, "insert_appointment")
  /\ UNCHANGED <<now, customers, appts>>

SiteInsertAppointment(r) ==
  /\ requests[r].pc = "insert_appointment"
  /\ LET a == SiteAppointment(requests[r].body) IN
     \E ms \in Millis :
       LET id == [at |-> now, ms |-> ms] IN
       IF InsertOutcome(id, a) = "ok"
       THEN InsertAppointment(id, a) /\ Respond(r, "201")
       ELSE /\ Respond(r, IF InsertOutcome(id, a) = "CONFLITO_AGENDA" THEN "409" ELSE "500")
            /\ UNCHANGED appts
  /\ UNCHANGED <<now, customers, vehicles>>

\* A statement rejects (the connection is lost, a CHECK of vehicles fails).
SiteFailure(r) ==
  /\ requests[r].pc # "idle"
  /\ Respond(r, "500")
  /\ UNCHANGED storeVars

SiteStep(r) ==
  \/ PostBooking(r) \/ SiteInsertCustomer(r)
  \/ SiteFindVehicle(r) \/ SiteInsertVehicle(r)
  \/ SiteInsertAppointment(r)
=============================================================================
