-------------------------- MODULE MCChatbotSession --------------------------
(* Values of ChatbotSession's constants for TLC. *)
EXTENDS ChatbotSession
CONSTANTS A, B, m1, m2, s1

\* m1 is a plain message; m2 is plain, the keyword, or of the owner.
Contents == {<<{}, {}>>, <<{m2}, {}>>, <<{}, {m2}>>}

\* One integration i, with the given settings.
Alone(i, contents, debounce, keepOpen) ==
  [enabled |-> {i}, debounced |-> IF debounce THEN {i} ELSE {},
   fallback |-> IF keepOpen THEN {} ELSE {i},
   triggers |-> [j \in Integrations |-> IF keepOpen THEN Messages ELSE {}],
   fromMe |-> contents[1], finishes |-> contents[2], starts |-> {},
   keepOpen |-> keepOpen, stopBotFromMe |-> keepOpen, listeningFromMe |-> debounce,
   expires |-> ~keepOpen, assistant |-> debounce]

MCAlone == {Alone(i, c, d, k) : i \in Integrations \ {"evoai"}, c \in Contents,
                                d \in BOOLEAN, k \in BOOLEAN}

\* n8n has the bots, and a second integration i falls back to one of its own.
Beside(i, contents) ==
  [Alone("n8n", contents, FALSE, TRUE) EXCEPT
     !.enabled = {"n8n", i}, !.fallback = {i}, !.triggers[i] = {},
     !.stopBotFromMe = FALSE]

Started == [Alone("typebot", <<{m2}, {}>>, FALSE, TRUE) EXCEPT !.starts = {s1}]

\* The owner's message pauses a closed session, which then expires.
Reopened == [Alone("typebot", <<{m2}, {}>>, FALSE, TRUE) EXCEPT !.expires = TRUE]

MCAll == MCAlone \cup {Beside("evoai", <<{m2}, {}>>), Started, Reopened}

\* Two plain messages of one contact to two instances.
MCDebounced == {Alone(i, <<{}, {}>>, TRUE, TRUE) : i \in Integrations}

MCInstanceOf == [m \in Inputs |-> A]
MCTwoInstances == [m \in Inputs |-> IF m = m2 THEN B ELSE A]
=============================================================================
