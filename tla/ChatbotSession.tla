---------------------------- MODULE ChatbotSession ----------------------------
(***************************************************************************)
(* The chatbots of the Evolution API (src/api/integrations/chatbot).       *)
(* Every message of a contact is offered to all integrations at once.  An  *)
(* integration reads the newest session of the chat, finds the bot that    *)
(* owns it or that the message triggers, may hold the text back for more   *)
(* of it (debounce), and lets its bot answer; the session row is read once *)
(* and written several awaits later.  Meanwhile other messages are         *)
(* handled, and operators pause, open, close and delete sessions.          *)
(*                                                                         *)
(* One contact, who may write to several instances.  What the bots say is  *)
(* left out; that one is served a message is all that is kept of it.       *)
(***************************************************************************)
EXTENDS Integers, Sequences, FiniteSets

CONSTANTS
  Instances,
  Integrations,
  Messages,
  Starts,              \* calls of typebot's startBot that ask for a session
  InstanceOf,          \* InstanceOf[m]: the instance m is sent to
  Configurations,      \* settings and contents of messages
  MaxSessions,         \* bound: rows of the session table
  MaxCommands,         \* bound: commands of operators
  MaxFaults,           \* bound: failed calls and restarts
  None

\* enabled: integrations that are; debounced: those with a debounceTime;
\* fallback: those whose settings have a fallback bot; triggers[i]: messages
\* that trigger a bot of i; fromMe: messages the owner of the number wrote;
\* finishes: messages that equal keywordFinish; starts: calls of startBot that
\* are made; assistant: openai bots of that type; expires: sessions get older
\* than expire allows.
Settings ==
  [enabled : SUBSET Integrations, debounced : SUBSET Integrations,
   fallback : SUBSET Integrations, triggers : [Integrations -> SUBSET Messages],
   fromMe : SUBSET Messages, finishes : SUBSET Messages, starts : SUBSET Starts,
   keepOpen : BOOLEAN, stopBotFromMe : BOOLEAN, listeningFromMe : BOOLEAN,
   expires : BOOLEAN, assistant : BOOLEAN]

ASSUME ChatbotAssumption ==
  /\ Integrations \subseteq
       {"evolutionBot", "typebot", "openai", "dify", "n8n", "evoai", "flowise"}
  /\ InstanceOf \in [Messages \cup Starts -> Instances]
  /\ Configurations \subseteq Settings
  /\ MaxSessions \in Nat \ {0}
  /\ {MaxCommands, MaxFaults} \subseteq Nat
  /\ Messages \cap Starts = {}
  /\ Starts # {} => "typebot" \in Integrations
  /\ None \notin Instances \cup Integrations

VARIABLES
  settings,            \* of all integrations; nobody changes them here
  sessions,            \* IntegrationSession; the row id is the order of creation
  created,             \* rows created so far
  emits,               \* emits[i][m]: the emit of m in integration i
  buffer,              \* userMessageDebounce[remoteJid] of each integration
  timers,              \* timers[i]: emits whose timeout is armed
  served,              \* served[i][m]: how often a bot of i was handed m
  strays,              \* messages handed to a bot of another instance
  quiet,               \* messages that met a chat at rest no bot should answer
  commands, faults

vars == <<settings, sessions, created, emits, buffer, timers, served, strays, quiet,
          commands, faults>>

-----------------------------------------------------------------------------
Inputs == Messages \cup Starts
Rows == 1..MaxSessions
Statuses == {"opened", "paused", "closed"}
NoRow == [inst |-> None, by |-> None, status |-> "none"]

\* What an emit has read: the row and what was in it then; row 0 is null.
NoSession == [row |-> 0, by |-> None, status |-> "none"]
Idle == [pc |-> "off", session |-> NoSession, fresh |-> FALSE, batch |-> <<>>]

Over == {"off", "done", "hung"}
PCs == Over \cup {"lookup", "route", "held", "process", "create", "opening",
                  "thread", "send", "touch", "finish", "flow"}

TypeOK ==
  /\ settings \in Configurations
  /\ \A r \in Rows :
       sessions[r] \in [inst : Instances, by : Integrations, status : Statuses] \cup {NoRow}
  /\ created \in 0..MaxSessions
  /\ \A i \in Integrations, m \in Inputs :
       /\ emits[i][m].pc \in PCs
       /\ emits[i][m].session.row \in 0..created
       /\ \A n \in DOMAIN emits[i][m].batch : emits[i][m].batch[n] \in Inputs
  /\ \A i \in Integrations : timers[i] \subseteq Messages
  /\ strays \cup quiet \subseteq Messages
  /\ commands \in 0..MaxCommands /\ faults \in 0..MaxFaults

\* The contact may have a session from before.
Init ==
  /\ settings \in Configurations
  /\ \/ sessions = [r \in Rows |-> NoRow] /\ created = 0
     \/ /\ created = 1
        /\ \E row \in [inst : Instances, by : settings.enabled, status : Statuses] :
             sessions = [r \in Rows |-> IF r = 1 THEN row ELSE NoRow]
  /\ emits = [i \in Integrations |-> [m \in Inputs |-> Idle]]
  /\ buffer = [i \in Integrations |-> <<>>]
  /\ timers = [i \in Integrations |-> {}]
  /\ served = [i \in Integrations |-> [m \in Inputs |-> 0]]
  /\ strays = {} /\ quiet = {}
  /\ commands = 0 /\ faults = 0

-----------------------------------------------------------------------------
(* Reading and writing sessions.                                           *)

Exists(r) == r \in Rows /\ sessions[r] # NoRow
RowsOf(o) == {r \in Rows : sessions[r].inst = o}

\* getSession: the newest row of the chat.
Latest(o) ==
  IF RowsOf(o) = {} THEN NoSession
  ELSE LET r == CHOOSE r \in RowsOf(o) : \A q \in RowsOf(o) : q <= r
       IN  [row |-> r, by |-> sessions[r].by, status |-> sessions[r].status]

Go(i, m, pc) == emits' = [emits EXCEPT ![i][m].pc = pc]
Fault == faults < MaxFaults /\ faults' = faults + 1

\* update: throws if the row is gone, and then the emit has ended.
Update(i, m, status, next) ==
  LET r == emits[i][m].session.row IN
  IF Exists(r)
  THEN sessions' = [sessions EXCEPT ![r].status = status] /\ Go(i, m, next)
  ELSE UNCHANGED sessions /\ Go(i, m, "done")

Delete(rows) == sessions' = [r \in Rows |-> IF r \in rows THEN NoRow ELSE sessions[r]]

\* The rows deleteMany takes for this emit's bot.
RowsOfBot(i, m) == {r \in RowsOf(InstanceOf[m]) : sessions[r].by = i}

IsFinish(batch) == Len(batch) = 1 /\ batch[1] \in settings.finishes
MessagesIn(batch) == {batch[n] : n \in DOMAIN batch}

-----------------------------------------------------------------------------
(* A message arrives, and each integration's emit.                         *)

AtRest(o) == \A i \in Integrations, m \in Inputs :
               InstanceOf[m] = o => emits[i][m].pc \in Over

\* openai's next message opens a paused session, and typebot restarts one that
\* has expired; with stopBotFromMe the owner's next message pauses even a
\* closed one, which such a bot then opens.
Resuming == {"openai"} \cup IF settings.expires THEN {"typebot"} ELSE {}
Resumes(s) == ({s.by} \cup settings.fallback) \cap Resuming # {}
Silenced(s) ==
  /\ s.status \in {"closed", "paused"}
  /\ Resumes(s) => s.status = "closed" /\ ~settings.stopBotFromMe

Arrive(m) ==
  /\ m \in Messages
  /\ \A i \in Integrations : emits[i][m].pc = "off"
  /\ emits' = [i \in Integrations |->
       IF i \in settings.enabled THEN [emits[i] EXCEPT ![m].pc = "lookup"] ELSE emits[i]]
  /\ quiet' = IF AtRest(InstanceOf[m]) /\ Silenced(Latest(InstanceOf[m]))
              THEN quiet \cup {m} ELSE quiet
  /\ UNCHANGED <<settings, sessions, created, buffer, timers, served, strays, commands, faults>>

Lookup(i, m) ==
  /\ emits[i][m].pc = "lookup"
  /\ emits' = [emits EXCEPT ![i][m].pc = "route",
                            ![i][m].session = Latest(InstanceOf[m])]
  /\ UNCHANGED <<settings, sessions, created, buffer, timers, served, strays, quiet, commands, faults>>

\* findBotTrigger, or else the fallback.
FindsBot(i, m) ==
  LET s == emits[i][m].session IN
  \/ IF s.row = 0 THEN m \in settings.triggers[i] ELSE s.by = i
  \/ i \in settings.fallback

Ignored(i, m) ==
  \/ ~FindsBot(i, m)
  \/ m \in settings.fromMe /\ ~settings.listeningFromMe /\ ~(settings.stopBotFromMe /\ emits[i][m].session.row # 0)
  \/ emits[i][m].session.status = "closed" /\ ~(settings.stopBotFromMe /\ m \in settings.fromMe)

StopsBot(i, m) ==
  FindsBot(i, m) /\ settings.stopBotFromMe /\ m \in settings.fromMe /\ emits[i][m].session.row # 0

\* Mutant: clearTimeout is forgotten.
HoldUncleared(i, m) ==
  /\ buffer' = [buffer EXCEPT ![i] = Append(@, m)]
  /\ timers' = [timers EXCEPT ![i] = @ \cup {m}]
  /\ Go(i, m, "held")

\* Mutant: a timeout is only armed with the first text.
HoldArmedOnce(i, m) ==
  /\ buffer' = [buffer EXCEPT ![i] = Append(@, m)]
  /\ timers' = [timers EXCEPT ![i] = IF buffer[i] = <<>> THEN {m} ELSE {}]
  /\ Go(i, m, "held")

\* processDebounce: the text joins the one held back, the timeout starts
\* again, and its callback is the one of this emit.
Hold(i, m) ==
  /\ buffer' = [buffer EXCEPT ![i] = Append(@, m)]
  /\ timers' = [timers EXCEPT ![i] = {m}]
  /\ emits' = [emits EXCEPT ![i] = [n \in Inputs |->
       IF n = m THEN [@[n] EXCEPT !.pc = "held"]
       ELSE IF n \in timers[i] THEN [@[n] EXCEPT !.pc = "done"] ELSE @[n]]]

\* The rest of emit, as far as the next await.
Route(i, m) ==
  /\ emits[i][m].pc = "route"
  /\ \/ Ignored(i, m) /\ Go(i, m, "done") /\ UNCHANGED <<sessions, buffer, timers>>
     \/ /\ StopsBot(i, m)
        /\ Update(i, m, "paused", "done")
        /\ UNCHANGED <<buffer, timers>>
     \/ /\ ~Ignored(i, m) /\ ~StopsBot(i, m)
        /\ IF i \in settings.debounced THEN Hold(i, m)
           ELSE /\ emits' = [emits EXCEPT ![i][m].pc = "process", ![i][m].batch = <<m>>]
                /\ UNCHANGED <<buffer, timers>>
        /\ UNCHANGED sessions
  /\ UNCHANGED <<settings, created, served, strays, quiet, commands, faults>>

\* Mutant: what was held back is not deleted.
DebounceKeeps(i, m) ==
  /\ m \in timers[i]
  /\ timers' = [timers EXCEPT ![i] = @ \ {m}]
  /\ emits' = [emits EXCEPT ![i][m].pc = "process", ![i][m].batch = buffer[i]]
  /\ UNCHANGED <<settings, sessions, created, buffer, served, strays, quiet, commands, faults>>

DebounceEnds(i, m) ==
  /\ m \in timers[i]
  /\ timers' = [timers EXCEPT ![i] = @ \ {m}]
  /\ buffer' = [buffer EXCEPT ![i] = <<>>]
  /\ emits' = [emits EXCEPT ![i][m].pc = "process", ![i][m].batch = buffer[i]]
  /\ UNCHANGED <<settings, sessions, created, served, strays, quiet, commands, faults>>

-----------------------------------------------------------------------------
(* process: what an integration does with the text.                        *)

Sessionless(i, m) == emits[i][m].session.row = 0

\* Mutant: the pause is not looked at.
BaseProcessPaused(i, m) ==
  IF Sessionless(i, m) THEN Go(i, m, "create") /\ UNCHANGED sessions
  ELSE IF IsFinish(emits[i][m].batch) THEN Update(i, m, "closed", "done")
  ELSE Go(i, m, "send") /\ UNCHANGED sessions

\* Mutant: the keyword writes a status of its own.
BaseProcessFinished(i, m) ==
  IF ~Sessionless(i, m) /\ emits[i][m].session.status # "paused" /\ IsFinish(emits[i][m].batch)
  THEN Update(i, m, "finished", "done")
  ELSE Go(i, m, "done") /\ UNCHANGED sessions

\* BaseChatbotService.process: the keyword closes the session for good.
BaseProcess(i, m) ==
  LET e == emits[i][m] IN
  IF Sessionless(i, m) THEN Go(i, m, "create") /\ UNCHANGED sessions
  ELSE IF e.session.status = "paused" THEN Go(i, m, "done") /\ UNCHANGED sessions
  ELSE IF IsFinish(e.batch) THEN Update(i, m, "closed", "done")
  ELSE Go(i, m, "send") /\ UNCHANGED sessions

\* OpenaiService.process: the keyword comes first (and throws without a
\* session), and a paused session is opened and the text dropped.
OpenaiProcess(i, m) ==
  LET e == emits[i][m] IN
  IF IsFinish(e.batch)
  THEN IF settings.keepOpen THEN Update(i, m, "closed", "done")
       ELSE Delete({e.session.row}) /\ Go(i, m, "done")
  ELSE IF Sessionless(i, m) THEN Go(i, m, "create") /\ UNCHANGED sessions
  ELSE IF e.session.status = "paused" THEN Update(i, m, "opened", "done")
  ELSE Go(i, m, IF settings.assistant THEN "thread" ELSE "send") /\ UNCHANGED sessions

\* processTypebot: first the session may have expired, whatever its status.
TypebotProcess(i, m) ==
  LET e == emits[i][m] IN
  \/ /\ settings.expires /\ ~Sessionless(i, m)
     /\ IF settings.keepOpen THEN Update(i, m, "closed", "create")
        ELSE Delete(RowsOfBot(i, m)) /\ Go(i, m, "create")
  \/ IF Sessionless(i, m) THEN Go(i, m, "create") /\ UNCHANGED sessions
     ELSE IF e.session.status # "opened" THEN Go(i, m, "done") /\ UNCHANGED sessions
     ELSE Update(i, m, "opened", IF IsFinish(e.batch) THEN "finish" ELSE "send")

Process(i, m) ==
  /\ emits[i][m].pc = "process"
  /\ CASE i = "typebot" -> TypebotProcess(i, m)
       [] i = "openai" -> OpenaiProcess(i, m)
       [] OTHER -> BaseProcess(i, m)
  /\ UNCHANGED <<settings, created, buffer, timers, served, strays, quiet, commands, faults>>

\* createNewSession; typebot has asked its server before. fresh: the contact had
\* no session, which typebot's may have had, and it expired.
Create(i, m) ==
  /\ emits[i][m].pc = "create"
  /\ created < MaxSessions
  /\ created' = created + 1
  /\ sessions' = [sessions EXCEPT ![created'] =
                    [inst |-> InstanceOf[m], by |-> i, status |-> "opened"]]
  /\ emits' = [emits EXCEPT
       ![i][m].session = [row |-> created', by |-> i, status |-> "opened"],
       ![i][m].fresh = Sessionless(i, m),
       ![i][m].pc = IF i = "typebot" THEN "send" ELSE "opening"]
  /\ UNCHANGED <<settings, buffer, timers, served, strays, quiet, commands, faults>>

\* initNewSession: the new row is written once more.
Opening(i, m) ==
  /\ emits[i][m].pc = "opening"
  /\ Update(i, m, "opened", IF i = "openai" /\ settings.assistant THEN "thread" ELSE "send")
  /\ UNCHANGED <<settings, created, buffer, timers, served, strays, quiet, commands, faults>>

\* processAssistantMessage writes the thread, and opens, before the answer.
Thread(i, m) ==
  /\ emits[i][m].pc = "thread"
  /\ Update(i, m, "opened", "send")
  /\ UNCHANGED <<settings, created, buffer, timers, served, strays, quiet, commands, faults>>

\* Which services open the session again after an answer or a failure.
TouchesAfter(i, fresh) == ~fresh \/ i \in {"n8n", "dify", "openai"}
TouchesFailed(i, fresh) == ~fresh /\ i \notin {"flowise", "openai", "typebot"}

\* The bot is handed the text and its answer is sent.
Answer(i, m) ==
  LET e == emits[i][m] IN
  /\ e.pc = "send"
  /\ served' = [served EXCEPT ![i] = [n \in Inputs |->
                  @[n] + Cardinality({k \in DOMAIN e.batch : e.batch[k] = n})]]
  /\ strays' = strays \cup {n \in MessagesIn(e.batch) : InstanceOf[n] # InstanceOf[m]}
  /\ Go(i, m, IF i = "typebot" THEN "flow"
              ELSE IF TouchesAfter(i, e.fresh) THEN "touch" ELSE "done")
  /\ UNCHANGED <<settings, sessions, created, buffer, timers, quiet, commands, faults>>

\* A typebot flow without a first message looks at the keyword after all, but
\* not after an expired session: the text is then looked for in msg.message.
FinishFresh(i, m) ==
  LET e == emits[i][m] IN
  /\ e.pc = "send" /\ i = "typebot" /\ e.fresh /\ IsFinish(e.batch)
  /\ Go(i, m, "finish")
  /\ UNCHANGED <<settings, sessions, created, buffer, timers, served, strays, quiet, commands, faults>>

Touch(i, m) ==
  /\ emits[i][m].pc = "touch"
  /\ Update(i, m, "opened", "done")
  /\ UNCHANGED <<settings, created, buffer, timers, served, strays, quiet, commands, faults>>

\* Typebot's end: by the keyword, or because the flow asks for nothing more.
FinishTypebot(i, m) ==
  /\ emits[i][m].pc = "finish"
  /\ IF settings.keepOpen THEN Update(i, m, "closed", "done")
     ELSE Delete(RowsOfBot(i, m)) /\ Go(i, m, "done")
  /\ UNCHANGED <<settings, created, buffer, timers, served, strays, quiet, commands, faults>>

Flow(i, m) ==
  /\ emits[i][m].pc = "flow"
  /\ \/ Go(i, m, "done") /\ UNCHANGED sessions
     \/ /\ settings.keepOpen /\ Update(i, m, "closed", "done")
     \/ /\ ~settings.keepOpen /\ Delete({emits[i][m].session.row}) /\ Go(i, m, "done")
  /\ UNCHANGED <<settings, created, buffer, timers, served, strays, quiet, commands, faults>>

\* A call fails, or WhatsApp refuses the answer inside the timeout of
\* sendSingleMessage, whose promise then never settles.
CallFails(i, m) ==
  LET e == emits[i][m] IN
  /\ Fault
  /\ \/ /\ e.pc = "create"
        /\ Go(i, m, IF i = "typebot" /\ Sessionless(i, m) /\ IsFinish(e.batch)
                    THEN "finish" ELSE "done")
     \/ e.pc = "send" /\ Go(i, m, IF TouchesFailed(i, e.fresh) THEN "touch" ELSE "done")
     \/ e.pc = "send" /\ Go(i, m, "hung")
  /\ UNCHANGED <<settings, sessions, created, buffer, timers, served, strays, quiet, commands>>

-----------------------------------------------------------------------------
(* Operators, startBot, and a restart of the process.                      *)

Commanded == commands < MaxCommands /\ commands' = commands + 1 /\ quiet' = {}

\* changeStatus: deleting and closing take the contact's rows of all instances.
ChangeStatus(o, status) ==
  /\ Commanded
  /\ \/ /\ status = "delete" \/ (status = "closed" /\ ~settings.keepOpen)
        /\ Delete(Rows)
     \/ /\ status = "closed" /\ settings.keepOpen
        /\ sessions' = [r \in Rows |-> IF Exists(r) THEN [sessions[r] EXCEPT !.status = status]
                                       ELSE NoRow]
     \/ /\ status \in {"opened", "paused"}
        /\ sessions' = [r \in Rows |-> IF r \in RowsOf(o) THEN [sessions[r] EXCEPT !.status = status]
                                       ELSE sessions[r]]
  /\ UNCHANGED <<settings, created, emits, buffer, timers, served, strays, faults>>

\* startBot: the chat's sessions go and typebot begins a new one.
StartBot(m) ==
  /\ m \in settings.starts
  /\ "typebot" \in settings.enabled
  /\ emits["typebot"][m].pc = "off"
  /\ Commanded
  /\ Delete(RowsOf(InstanceOf[m]))
  /\ emits' = [emits EXCEPT !["typebot"][m].pc = "create", !["typebot"][m].batch = <<m>>]
  /\ UNCHANGED <<settings, created, buffer, timers, served, strays, faults>>

Restart ==
  /\ Fault
  /\ emits' = [i \in Integrations |-> [m \in Inputs |->
       IF emits[i][m].pc = "off" THEN Idle ELSE [Idle EXCEPT !.pc = "done"]]]
  /\ buffer' = [i \in Integrations |-> <<>>]
  /\ timers' = [i \in Integrations |-> {}]
  /\ UNCHANGED <<settings, sessions, created, served, strays, quiet, commands>>

EmitStep(i, m) ==
  \/ Lookup(i, m) \/ Route(i, m) \/ DebounceEnds(i, m) \/ Process(i, m)
  \/ Create(i, m) \/ Opening(i, m) \/ Thread(i, m) \/ Answer(i, m) \/ FinishFresh(i, m)
  \/ Touch(i, m) \/ FinishTypebot(i, m) \/ Flow(i, m) \/ CallFails(i, m)

Next ==
  \/ \E m \in Messages : Arrive(m)
  \/ \E i \in Integrations, m \in Inputs : EmitStep(i, m)
  \/ \E o \in Instances, status \in Statuses \cup {"delete"} : ChangeStatus(o, status)
  \/ \E m \in Starts : StartBot(m)
  \/ Restart

\* Queries and calls are answered or fail, and a timeout that is armed fires:
\* while some emit can go on, one does.
Spec == /\ Init /\ [][Next]_vars
        /\ WF_vars(\E i \in Integrations, m \in Inputs : EmitStep(i, m))

-----------------------------------------------------------------------------
(* No integration hands a message to a bot twice, alone or as part of what  *)
(* was held back, however emits and the debounce overlap.                   *)
ServedOnce == \A i \in Integrations, m \in Messages : served[i][m] <= 1

(* Text is held back exactly as long as one timeout is armed, that of the   *)
(* last message of it: none is stranded, and no timeout fires without any.  *)
DebounceArmed ==
  \A i \in Integrations :
    timers[i] = IF buffer[i] = <<>> THEN {} ELSE {buffer[i][Len(buffer[i])]}

(* A message that comes to a chat at rest whose session is paused, and not  *)
(* of a bot that resumes by itself, or closed, and the owner's messages do  *)
(* not pause it for such a bot, is not answered by a bot of its instance,   *)
(* unless an operator has changed a session since.                          *)
QuietStaysQuiet ==
  \A m \in quiet \ strays : \A i \in Integrations : served[i][m] = 0

(* Once no more messages come every emit ends, what was held back included, *)
(* unless its answer hangs in sendSingleMessage.                            *)
EmitsEnd ==
  <>[](\A i \in Integrations, m \in Messages : emits[i][m].pc \in Over)

(* A message is only handed to a bot of the instance it was sent to.        *)
MessagesStayInInstance == strays = {}
=============================================================================
