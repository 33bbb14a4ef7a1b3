------------------------------- MODULE Agenda -------------------------------
(***************************************************************************)
(* What the agenda of the car washes promises, whoever books: a set of     *)
(* reservations such that no two of one organization ever overlap, and     *)
(* none of which is ever moved, handed to another customer or turned into  *)
(* another service.  A reservation enters, may become firm, and may leave. *)
(***************************************************************************)
EXTENDS Integers

CONSTANTS
  Ids,               \* names of reservations
  Orgs,              \* car washes
  Customers          \* who may hold a reservation

VARIABLE held        \* held: the reservations that occupy the agenda

Reservations ==
  [id : Ids, org : Orgs, customer : Customers, start : Nat, finish : Nat,
   firm : BOOLEAN]

Disjoint(r, s) == r.org = s.org => r.finish <= s.start \/ s.finish <= r.start

AgendaInit == held = {}

Reserve(r) ==
  /\ \A s \in held : s.id # r.id /\ Disjoint(r, s)
  /\ held' = held \cup {r}

\* The same reservation, confirmed.
Firm(r) ==
  [id |-> r.id, org |-> r.org, customer |-> r.customer,
   start |-> r.start, finish |-> r.finish, firm |-> TRUE]

MakeFirm(r) ==
  /\ ~r.firm
  /\ held' = (held \ {r}) \cup {Firm(r)}

Release(r) == held' = held \ {r}

\* The reservation that enters is one of those held afterwards.
AgendaNext ==
  \/ \E r \in held' : r \in Reservations /\ Reserve(r)
  \/ \E r \in held : MakeFirm(r) \/ Release(r)

AgendaSpec == AgendaInit /\ [][AgendaNext]_held
=============================================================================
