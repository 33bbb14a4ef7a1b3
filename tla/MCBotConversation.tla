-------------------------- MODULE MCBotConversation --------------------------
(***************************************************************************)
(* Small instances of BotConversation: customer c1 sends the first         *)
(* messages, c2 of another organization the last one.  A behaviour plays   *)
(* one scene: "chat", c1 alone, deliveries racing; "group", one handler at *)
(* a time and two commands racing; "all", whatever the bounds allow.       *)
(***************************************************************************)
EXTENDS BotConversation, TLC

CONSTANTS c1, c2, o1, o2, m1, m2, m3, Scenes

VARIABLE scene

MCOrgOf == [c \in Customers |-> IF c = c2 /\ o2 \in Orgs THEN o2 ELSE o1]
MCSenderOf == [m \in Messages |-> IF m = m3 THEN c2 ELSE c1]

\* The messages of c1, the handlers and the commands are interchangeable.
Symmetric ==
  Permutations(Messages \ {m3}) \cup Permutations(Handlers) \cup Permutations(Admins)

Played ==
  CASE scene = "chat" -> commands = 0 /\ delivered[m3] = 0
    [] scene = "group" ->
         /\ \A m \in Messages : delivered[m] <= 1
         /\ \E m \in Messages \ {m3} : \A n \in Messages \ {m, m3} : delivered[n] = 0
         /\ \A g, h \in Handlers : handlers[g].pc # "idle" /\ handlers[h].pc # "idle" => g = h
    [] OTHER -> TRUE

MCInit == Init /\ scene \in Scenes
MCNext == Next /\ UNCHANGED scene /\ Played'
MCSpec == MCInit /\ [][MCNext]_<<vars, scene>>
=============================================================================
