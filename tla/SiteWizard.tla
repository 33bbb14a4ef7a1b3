------------------------------ MODULE SiteWizard ------------------------------
(***************************************************************************)
(* The page on which a customer books a wash (pages/Booking.tsx, with      *)
(* hooks/useBooking.ts and lib/api.ts): six steps, a search for free times *)
(* whenever the day or the service changes, and the booking itself.  Each  *)
(* action is an event of the page: a click, or an answer of the server.    *)
(* The customer goes on clicking while requests are on their way, and      *)
(* answers come in any order.  The server is reduced to what the page sees *)
(* of it; SiteBooking has its insides.                                     *)
(***************************************************************************)
EXTENDS Integers, FiniteSets

CONSTANTS
  Washes, Days, Times,
  Length,            \* Length[w]: consecutive times a wash takes
  MaxFetches,        \* bound: searches for free times, ever
  MaxConfirms,       \* bound
  MaxOthers,         \* bound: bookings of other customers, and failures
  Nothing

VARIABLES
  step, service, day, time,    \* useBooking; the details typed are not told apart
  slots, loadingSlots,         \* availableSlots
  fetches,                     \* searches on their way, with their answers
  booking,                     \* createBooking on its way, with its reply
  confirmed,
  agenda,                      \* the server's; mine, from this visit of the page
  offered,                     \* what the server has offered to this page
  begun, tries, others,        \* for the bounds
  met                          \* what has happened that a property speaks of

draft == <<step, service, day, time>>
bounds == <<begun, tries, others>>
pageVars ==
  <<draft, slots, loadingSlots, fetches, booking, confirmed, agenda, offered, bounds, met>>

-----------------------------------------------------------------------------
Draft == [wash |-> service, day |-> day, time |-> time]
Orders == [wash : Washes, day : Days, time : Times]

PageTypeOK ==
  /\ step \in 0..5
  /\ service \in Washes \cup {Nothing} /\ day \in Days \cup {Nothing} /\ time \in Times \cup {Nothing}
  /\ slots \subseteq Times /\ loadingSlots \in BOOLEAN
  /\ \A f \in fetches : f \in [id : 1..MaxFetches, wash : Washes, day : Days,
                               answer : {Nothing} \cup SUBSET Times]
  /\ booking = Nothing
       \/ booking \in [order : Orders, reply : {Nothing, "201", "409", "failed"}]
  /\ confirmed \in BOOLEAN
  /\ agenda \subseteq [wash : Washes, day : Days, time : Times, mine : BOOLEAN]
  /\ offered \subseteq Orders
  /\ met \subseteq {"crossed", "unanswered", "lost", "went_back"}

PageInit ==
  /\ step = 0 /\ service = Nothing /\ day = Nothing /\ time = Nothing
  /\ slots = {} /\ loadingSlots = FALSE /\ fetches = {}
  /\ booking = Nothing /\ confirmed = FALSE
  /\ agenda = {} /\ offered = {}
  /\ begun = 0 /\ tries = 0 /\ others = 0
  /\ met = {}

-----------------------------------------------------------------------------
(* The server.                                                             *)

Span(w, t) == t..(t + Length[w] - 1)
Fits(w, d, t) ==
  /\ Span(w, t) \subseteq Times
  /\ \A a \in agenda : a.day = d => Span(w, t) \cap Span(a.wash, a.time) = {}

OtherBooks ==
  /\ others < MaxOthers /\ others' = others + 1
  /\ \E w \in Washes, d \in Days, t \in Times :
       Fits(w, d, t) /\ agenda' = agenda \cup {[wash |-> w, day |-> d, time |-> t, mine |-> FALSE]}
  /\ UNCHANGED <<draft, slots, loadingSlots, fetches, booking, confirmed, offered, begun, tries, met>>

AnswerSlots(f) ==
  /\ f.answer = Nothing
  /\ LET free == {t \in Times : Fits(f.wash, f.day, t)} IN
     /\ fetches' = (fetches \ {f}) \cup {[f EXCEPT !.answer = free]}
     /\ offered' = offered \cup {[wash |-> f.wash, day |-> f.day, time |-> t] : t \in free}
  /\ UNCHANGED <<draft, slots, loadingSlots, booking, confirmed, agenda, bounds, met>>

\* 409 when the time is taken; the reply may also be lost.
AnswerBooking ==
  LET o == booking.order IN
  /\ booking # Nothing /\ booking.reply = Nothing
  /\ IF Fits(o.wash, o.day, o.time)
     THEN agenda' = agenda \cup {[wash |-> o.wash, day |-> o.day, time |-> o.time, mine |-> TRUE]}
     ELSE UNCHANGED agenda
  /\ \/ /\ booking' = [booking EXCEPT !.reply = IF agenda' # agenda THEN "201" ELSE "409"]
        /\ UNCHANGED <<others, met>>
     \/ /\ others < MaxOthers /\ others' = others + 1
        /\ booking' = [booking EXCEPT !.reply = "failed"]
        /\ met' = met \cup {"lost"}
  /\ UNCHANGED <<draft, slots, loadingSlots, fetches, confirmed, offered, begun, tries>>

-----------------------------------------------------------------------------
(* The page.                                                               *)

\* useEffect on [booking.date, booking.service].
Search(w, d) ==
  IF w = Nothing \/ d = Nothing
  THEN UNCHANGED <<loadingSlots, fetches, begun, met>>
  ELSE /\ begun < MaxFetches /\ begun' = begun + 1
       /\ loadingSlots' = TRUE
       /\ fetches' = fetches \cup {[id |-> begun', wash |-> w, day |-> d, answer |-> Nothing]}
       /\ met' = met \cup (IF fetches = {} THEN {} ELSE {"crossed"})

\* Mutant: an effect on [booking.date] alone.
ChooseWashWithoutSearch(w) ==
  /\ step = 0 /\ ~confirmed
  /\ service' = w /\ step' = 1
  /\ UNCHANGED <<day, time, slots, loadingSlots, fetches, booking, confirmed, agenda, offered, bounds, met>>

ChooseWash(w) ==
  /\ step = 0 /\ ~confirmed
  /\ service' = w /\ step' = 1
  /\ IF w = service THEN UNCHANGED <<loadingSlots, fetches, begun, met>> ELSE Search(w, day)
  /\ UNCHANGED <<day, time, slots, booking, confirmed, agenda, offered, tries, others>>

ChooseVehicle ==
  /\ step = 1 /\ ~confirmed
  /\ step' = 2
  /\ UNCHANGED <<service, day, time, slots, loadingSlots, fetches, booking, confirmed, agenda, offered, bounds, met>>

\* A click on the day that is chosen does nothing.
ChooseDay(d) ==
  /\ step = 2 /\ ~confirmed /\ d # day
  /\ day' = d
  /\ Search(service, d)
  /\ UNCHANGED <<step, service, time, slots, booking, confirmed, agenda, offered, tries, others>>

\* While loadingSlots a spinner covers the times.
ChooseTime(t) ==
  /\ step = 2 /\ ~confirmed
  /\ day # Nothing /\ ~loadingSlots /\ t \in slots
  /\ time' = t /\ step' = 3
  /\ UNCHANGED <<service, day, slots, loadingSlots, fetches, booking, confirmed, agenda, offered, bounds, met>>

\* The details of the car, and then the customer's.
TypeDetails ==
  /\ step \in {3, 4} /\ ~confirmed
  /\ step' = step + 1
  /\ UNCHANGED <<service, day, time, slots, loadingSlots, fetches, booking, confirmed, agenda, offered, bounds, met>>

\* Also while a booking is on its way.
GoBack ==
  /\ step > 0 /\ ~confirmed
  /\ step' = step - 1
  /\ met' = met \cup (IF booking = Nothing THEN {} ELSE {"went_back"})
  /\ UNCHANGED <<service, day, time, slots, loadingSlots, fetches, booking, confirmed, agenda, offered, bounds>>

\* setAvailableSlots with whatever answer comes in, also a late one.
ShowSlots(f) ==
  /\ f.answer # Nothing
  /\ fetches' = fetches \ {f}
  /\ slots' = f.answer /\ loadingSlots' = FALSE
  /\ UNCHANGED <<draft, booking, confirmed, agenda, offered, bounds, met>>

\* The search fails: the times shown stay as they are.
NoSlots(f) ==
  /\ others < MaxOthers /\ others' = others + 1
  /\ fetches' = fetches \ {f}
  /\ loadingSlots' = FALSE
  /\ met' = met \cup {"unanswered"}
  /\ UNCHANGED <<draft, slots, booking, confirmed, agenda, offered, begun, tries>>

\* handleConfirm, disabled while loading.
Confirm ==
  /\ step = 5 /\ ~confirmed /\ booking = Nothing
  /\ tries < MaxConfirms /\ tries' = tries + 1
  /\ booking' = [order |-> Draft, reply |-> Nothing]
  /\ UNCHANGED <<draft, slots, loadingSlots, fetches, confirmed, agenda, offered, begun, others, met>>

\* The page shows the draft as booked; or says why not, and the customer may
\* try again.
ShowReply ==
  /\ booking # Nothing /\ booking.reply # Nothing
  /\ confirmed' = (booking.reply = "201")
  /\ booking' = Nothing
  /\ UNCHANGED <<draft, slots, loadingSlots, fetches, agenda, offered, bounds, met>>

StillMade ==
  {o \in Orders : /\ booking = [order |-> o, reply |-> Nothing]
                  /\ Fits(o.wash, o.day, o.time)}

\* Home, from the confirmation or the first step: the page is unmounted.  A
\* booking that is still on its way is made, or refused, and nobody is told.
Leave ==
  /\ confirmed \/ step = 0
  /\ step' = 0 /\ service' = Nothing /\ day' = Nothing /\ time' = Nothing
  /\ slots' = {} /\ loadingSlots' = FALSE /\ fetches' = {}
  /\ booking' = Nothing /\ confirmed' = FALSE
  /\ agenda' = {[a EXCEPT !.mine = FALSE] : a \in agenda}
                  \cup {[wash |-> o.wash, day |-> o.day, time |-> o.time, mine |-> FALSE] :
                          o \in StillMade}
  /\ UNCHANGED <<offered, bounds, met>>

PageNext ==
  \/ \E w \in Washes : ChooseWash(w)
  \/ \E d \in Days : ChooseDay(d)
  \/ \E t \in Times : ChooseTime(t)
  \/ ChooseVehicle \/ TypeDetails \/ GoBack \/ Confirm \/ ShowReply \/ Leave
  \/ \E f \in fetches : AnswerSlots(f) \/ ShowSlots(f) \/ NoSlots(f)
  \/ AnswerBooking \/ OtherBooks

PageSpec == PageInit /\ [][PageNext]_pageVars

-----------------------------------------------------------------------------
(* What the customer has chosen is a time the server offered for that wash *)
(* on that day, unless two searches were on their way at once or one was   *)
(* not answered; what the page shows as booked is in the agenda, unless    *)
(* the customer went back while the booking was on its way; and a customer *)
(* told that a time is taken has not taken it, unless a reply was lost.    *)
BookedAsShown ==
  /\ step >= 3 /\ met \cap {"crossed", "unanswered"} = {} => Draft \in offered
  /\ confirmed /\ "went_back" \notin met =>
       [wash |-> service, day |-> day, time |-> time, mine |-> TRUE] \in agenda
  /\ booking # Nothing /\ booking.reply = "409" /\ "lost" \notin met =>
       \A a \in agenda : a.mine => [wash |-> a.wash, day |-> a.day, time |-> a.time] # booking.order
===============================================================================
