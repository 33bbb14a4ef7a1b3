------------------------------ MODULE MCTrinity ------------------------------
(***************************************************************************)
(* Small instances of Trinity: one service of one unit and a buffer of one *)
(* unit, a window of two units that opens two units before the start.      *)
(***************************************************************************)
EXTENDS Trinity, TLC

CONSTANTS o1, o2, wash, polish, WashBuffer

MCCatalogue == [o \in Orgs |-> IF o = o1 THEN <<wash>> ELSE <<>>]
MCDuration == [s \in Services |-> 1]
MCBuffer == [s \in Services |-> IF s = wash THEN WashBuffer ELSE 0]

\* Requests, handlers, passes and phones are interchangeable.
Symmetric ==
  Permutations(Requests) \cup Permutations(Handlers)
    \cup Permutations(Passes) \cup Permutations(Phones)
=============================================================================
