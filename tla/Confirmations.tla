---------------------------- MODULE Confirmations ----------------------------
(***************************************************************************)
(* ConfirmationService.checkAndSendConfirmations, which index.js runs from *)
(* a 15 minute setInterval.  A pass selects the appointments that start in *)
(* about four hours, then for each of them sends the question over         *)
(* WhatsApp and afterwards marks the row.  Nothing keeps a pass from       *)
(* starting while an earlier one is still sending.                         *)
(***************************************************************************)
EXTENDS AppointmentStore

CONSTANTS
  Passes,            \* passes of the job that may be in progress at once
  TickPeriod,        \* the setInterval period
  WindowLo,          \* the window opens WindowHi before the start of an
  WindowHi,          \* appointment and shuts WindowLo before it
  MaxFaults,         \* bound: failed calls and restarts in a behaviour
  NoApt              \* no appointment

ASSUME ConfirmationAssumption ==
  /\ TickPeriod \in Nat \ {0}
  /\ WindowLo \in Nat /\ WindowHi \in Nat
  /\ WindowLo <= WindowHi
  /\ MaxFaults \in Nat
  /\ NoApt \notin AptIds

VARIABLES
  passes,            \* passes[p]: rows still to be asked, and the one in hand
  nextTick,          \* when the timer fires next
  asked,             \* asked[i]: questions delivered about appointment i
  faults             \* calls that have failed and restarts so far

confirmationVars == <<passes, nextTick, asked, faults>>

PassStates == {"idle", "send", "mark"}

ConfirmationTypeOK ==
  /\ passes \in [Passes -> [pc : PassStates, todo : SUBSET AptIds,
                            apt : AptIds \cup {NoApt}]]
  /\ nextTick \in Nat
  /\ asked \in [AptIds -> Nat]
  /\ faults \in 0..MaxFaults

Idle == [pc |-> "idle", todo |-> {}, apt |-> NoApt]

ConfirmationInit ==
  /\ passes = [p \in Passes |-> Idle]
  /\ nextTick = TickPeriod
  /\ asked = [i \in AptIds |-> 0]
  /\ faults = 0

-----------------------------------------------------------------------------
\* Mutant: the SELECT joins vehicles, which assistant bookings lack.
DueWithVehicle ==
  {i \in DOMAIN appts :
     /\ appts[i].start \in (now + WindowLo)..(now + WindowHi)
     /\ appts[i].vehicle # NoVehicle
     /\ appts[i].status = "agendado"
     /\ appts[i].confirmationSentAt = NoTime}

\* start_time BETWEEN $1 AND $2 AND status = 'agendado'
\* AND confirmation_sent_at IS NULL
DueForConfirmation ==
  {i \in DOMAIN appts :
     /\ appts[i].start \in (now + WindowLo)..(now + WindowHi)
     /\ appts[i].status = "agendado"
     /\ appts[i].confirmationSentAt = NoTime}

\* The end of one iteration of the for loop.
NextApt(p, todo) ==
  passes' = [passes EXCEPT ![p] =
    IF todo = {} THEN Idle ELSE [pc |-> "send", todo |-> todo, apt |-> NoApt]]

-----------------------------------------------------------------------------
\* The timer fires and the pass takes its SELECT.
CheckAndSendConfirmations(p) ==
  /\ passes[p].pc = "idle"
  /\ now >= nextTick
  /\ nextTick' = now + TickPeriod
  /\ NextApt(p, DueForConfirmation)
  /\ UNCHANGED <<asked, faults>>
  /\ UNCHANGED storeVars

\* axios.post delivers the question: the row is not read again before it.
SendConfirmation(p) ==
  /\ passes[p].pc = "send"
  /\ \E i \in passes[p].todo :
       /\ asked' = [asked EXCEPT ![i] = @ + 1]
       /\ passes' = [passes EXCEPT ![p] =
                       [pc |-> "mark", todo |-> @.todo \ {i}, apt |-> i]]
  /\ UNCHANGED <<nextTick, faults>>
  /\ UNCHANGED storeVars

\* axios.post rejects: caught, logged, on to the next row.
SendFails(p) ==
  /\ passes[p].pc = "send"
  /\ faults < MaxFaults
  /\ faults' = faults + 1
  /\ \E i \in passes[p].todo : NextApt(p, passes[p].todo \ {i})
  /\ UNCHANGED <<nextTick, asked>>
  /\ UNCHANGED storeVars

\* UPDATE appointments SET confirmation_sent_at = NOW() WHERE id = $1
MarkConfirmationSent(p) ==
  /\ passes[p].pc = "mark"
  /\ appts' = [appts EXCEPT ![passes[p].apt].confirmationSentAt = now]
  /\ NextApt(p, passes[p].todo)
  /\ UNCHANGED <<nextTick, asked, faults>>
  /\ UNCHANGED <<now, customers, vehicles>>

\* The UPDATE rejects: caught like a failed send, but the question is out.
MarkFails(p) ==
  /\ passes[p].pc = "mark"
  /\ faults < MaxFaults
  /\ faults' = faults + 1
  /\ NextApt(p, passes[p].todo)
  /\ UNCHANGED <<nextTick, asked>>
  /\ UNCHANGED storeVars

ConfirmationStep(p) ==
  \/ CheckAndSendConfirmations(p)
  \/ SendConfirmation(p) \/ SendFails(p)
  \/ MarkConfirmationSent(p) \/ MarkFails(p)
=============================================================================
