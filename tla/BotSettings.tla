------------------------------ MODULE BotSettings ------------------------------
(***************************************************************************)
(* The bots of one chatbot integration, as the API administrates them      *)
(* (base-chatbot.controller.ts and the controllers derived from it): rows  *)
(* of bots, default settings and openai credentials, which requests change *)
(* after awaited looks at them, and the sessions of contacts that messages *)
(* begin with the bot they found.  One step is what a request does with    *)
(* one query.                                                              *)
(***************************************************************************)
EXTENDS Integers, FiniteSets

CONSTANTS
  Instances, Contacts,
  Bots,              \* bound: ids of bots; none is given twice
  Creds,             \* bound: ids of openai credentials
  Requests,          \* requests in progress at once
  Forms,             \* what bots are made of, records [enabled, trigger, endpoint]: the
                     \* trigger "all", "none" or "word", a keyword; the endpoint a url,
                     \* a model or an assistant
  MaxRequests,       \* bound: requests that are made
  None

VARIABLES
  integration,       \* which one: a record of Integrations
  bots, creds,       \* the rows
  settings,          \* settings[i]: the default settings of i
  session,           \* session[i][c]: the bot of the contact's session
  found,             \* found[i][c]: the bot of the message under way
  call,              \* call[r]: the request
  made,
  marks              \* marks[b]: what has happened that properties except

rows == <<bots, creds, settings>>
vars == <<integration, rows, session, found, call, made, marks>>

-----------------------------------------------------------------------------
(* What the controllers override: is a second bot for an endpoint refused   *)
(* when it is created, is the fallback read from the column it is written   *)
(* to, are there credentials?                                               *)

N8n == [name |-> "n8n", checked |-> TRUE, fallback |-> FALSE, creds |-> FALSE]
Dify == [name |-> "dify", checked |-> TRUE, fallback |-> FALSE, creds |-> FALSE]
Evoai == [name |-> "evoai", checked |-> TRUE, fallback |-> TRUE, creds |-> FALSE]
Flowise == [name |-> "flowise", checked |-> TRUE, fallback |-> TRUE, creds |-> FALSE]
EvolutionBot == [name |-> "evolutionBot", checked |-> FALSE, fallback |-> TRUE, creds |-> FALSE]
Typebot == [name |-> "typebot", checked |-> FALSE, fallback |-> TRUE, creds |-> FALSE]
Openai == [name |-> "openai", checked |-> TRUE, fallback |-> TRUE, creds |-> TRUE]
Integrations == {N8n, Dify, Evoai, Flowise, EvolutionBot, Typebot, Openai}

NoForm == CHOOSE f \in Forms : TRUE

NoBot == [state |-> "unused", of |-> None, form |-> NoForm, creds |-> None]
NoCreds == [state |-> "unused", of |-> None]
NoSettings == [row |-> FALSE, fallback |-> None, creds |-> None]
NoCall == [op |-> "none", pc |-> "none", of |-> None, bot |-> None, form |-> NoForm,
           creds |-> None, met |-> FALSE]
Steps == {"none", "look", "defaults", "settle", "trigger_all", "trigger_word", "sessions", "write"}

Live(b) == b # None /\ bots[b].state = "live"
Others(i, b) == {x \in Bots : Live(x) /\ x # b /\ bots[x].of = i}

TypeOK ==
  /\ integration \in Integrations
  /\ bots \in [Bots -> [state : {"unused", "live", "gone"}, of : Instances \cup {None},
                        form : Forms, creds : Creds \cup {None}]]
  /\ creds \in [Creds -> [state : {"unused", "live", "gone"}, of : Instances \cup {None}]]
  /\ settings \in [Instances -> [row : BOOLEAN, fallback : Bots \cup {None},
                                 creds : Creds \cup {None}]]
  /\ session \in [Instances -> [Contacts -> Bots \cup {None}]]
  /\ found \in [Instances -> [Contacts -> Bots \cup {None}]]
  /\ call \in [Requests -> [op : {"none", "create", "update", "delete", "settings", "creds",
                                  "delete_creds"},
                            pc : Steps, of : Instances \cup {None}, bot : Bots \cup {None},
                            form : Forms, creds : Creds \cup {None}, met : BOOLEAN]]
  /\ made \in 0..MaxRequests
  /\ marks \in [Bots -> SUBSET {"met", "cascade", "late"}]

Init ==
  /\ integration \in Integrations
  /\ bots = [b \in Bots |-> NoBot]
  /\ creds \in [Creds -> {NoCreds} \cup (IF integration.creds
                                      THEN [state : {"live"}, of : Instances] ELSE {})]
  /\ settings = [i \in Instances |-> NoSettings]
  /\ session = [i \in Instances |-> [c \in Contacts |-> None]]
  /\ found = [i \in Instances |-> [c \in Contacts |-> None]]
  /\ call = [r \in Requests |-> NoCall]
  /\ made = 0
  /\ marks = [b \in Bots |-> {}]

-----------------------------------------------------------------------------
(* Requests.                                                                *)

\* Requests on one instance that are in progress together have met.
Request(r, new) ==
  /\ call[r] = NoCall
  /\ made < MaxRequests /\ made' = made + 1
  /\ LET met == {q \in Requests : call[q].of = new.of} IN
     call' = [q \in Requests |-> IF q = r THEN [new EXCEPT !.met = met # {}]
                                 ELSE IF q \in met THEN [call[q] EXCEPT !.met = TRUE]
                                 ELSE call[q]]
  /\ UNCHANGED <<integration, rows, session, found, marks>>

Goto(r, step) == call' = [call EXCEPT ![r].pc = step]
Answer(r) == call' = [call EXCEPT ![r] = NoCall]
At(r, ops, step) == call[r].op \in ops /\ call[r].pc = step
Quiet == UNCHANGED <<integration, session, found, made>>

\* The bot and its form, with credentials if the integration has any.
AskCreate(r, i, f, k) ==
  /\ (k # None) = integration.creds
  /\ Request(r, [NoCall EXCEPT !.op = "create", !.of = i, !.form = f, !.creds = k,
                   !.pc = IF integration.checked THEN "look" ELSE "defaults"])

AskUpdate(r, i, b, f, k) ==
  /\ bots[b].state # "unused"
  /\ (k # None) = integration.creds
  /\ Request(r, [NoCall EXCEPT !.op = "update", !.of = i, !.bot = b, !.form = f, !.creds = k,
                   !.pc = "look"])

AskDelete(r, i, b) ==
  /\ bots[b].state # "unused"
  /\ Request(r, [NoCall EXCEPT !.op = "delete", !.of = i, !.bot = b, !.pc = "look"])

AskSettings(r, i, b, k) ==
  /\ (k # None) = integration.creds
  /\ Request(r, [NoCall EXCEPT !.op = "settings", !.of = i, !.bot = b, !.creds = k, !.pc = "settle"])

AskCreds(r, i, k) ==
  /\ integration.creds
  /\ Request(r, [NoCall EXCEPT !.op = "creds", !.of = i, !.creds = k, !.pc = "look"])

AskDeleteCreds(r, i, k) ==
  /\ creds[k].state # "unused"
  /\ Request(r, [NoCall EXCEPT !.op = "delete_creds", !.of = i, !.creds = k, !.pc = "look"])

SameEndpoint(i, b, f) == {x \in Others(i, b) : bots[x].form.endpoint = f.endpoint}

\* createBot of the derived controllers: a bot for this endpoint ends it.
LookForEndpoint(r) ==
  /\ At(r, {"create"}, "look")
  /\ IF SameEndpoint(call[r].of, None, call[r].form) # {}
     THEN Answer(r)
     ELSE Goto(r, "defaults")
  /\ Quiet /\ UNCHANGED <<rows, marks>>

\* createBot completes the form from the default settings, or makes them of it.
LookForSettings(r) ==
  /\ At(r, {"create"}, "defaults")
  /\ Goto(r, IF settings[call[r].of].row THEN "trigger_all" ELSE "settle")
  /\ Quiet /\ UNCHANGED <<rows, marks>>

CredsFree(i, k) == /\ creds[k].state = "live"
                   /\ \A j \in Instances \ {i} : settings[j].creds # k

\* settings(): they are looked up again and created, with a constraint on the
\* instance, or updated.  What they refer to must be there, and credentials
\* serve one instance's settings.
Settle(r) ==
  LET i == call[r].of
      b == call[r].bot
      k == call[r].creds
  IN
  /\ At(r, {"create", "settings"}, "settle")
  /\ IF (b # None => Live(b)) /\ (k # None => CredsFree(i, k))
     THEN /\ settings' = [settings EXCEPT ![i] =
                            [row |-> TRUE, fallback |-> IF b = None THEN @.fallback ELSE b,
                             creds |-> k]]
          /\ IF call[r].op = "create" THEN Goto(r, "trigger_all") ELSE Answer(r)
     ELSE Answer(r) /\ UNCHANGED settings
  /\ Quiet /\ UNCHANGED <<bots, creds, marks>>

TakesAll(i, b) == {x \in Others(i, b) : bots[x].form.enabled /\ bots[x].form.trigger = "all"}
SameWord(i, b) == {x \in Others(i, b) : bots[x].form.trigger = "word"}

\* Mutant: an update is not checked.
CheckAllOnCreate(r) ==
  /\ At(r, {"create", "update"}, "trigger_all")
  /\ IF call[r].op = "create" /\ call[r].form.trigger = "all" /\ TakesAll(call[r].of, None) # {}
     THEN Answer(r)
     ELSE Goto(r, IF call[r].op = "create" THEN "trigger_word" ELSE "defaults")
  /\ Quiet /\ UNCHANGED <<rows, marks>>

\* An enabled bot that takes every message refuses a second one.
CheckTriggerAll(r) ==
  /\ At(r, {"create", "update"}, "trigger_all")
  /\ IF call[r].form.trigger = "all" /\ TakesAll(call[r].of, call[r].bot) # {}
     THEN Answer(r)
     ELSE Goto(r, IF call[r].op = "create" THEN "trigger_word" ELSE "defaults")
  /\ Quiet /\ UNCHANGED <<rows, marks>>

\* validateNoDuplicatesOnUpdate
ValidateNoDuplicates(r) ==
  /\ At(r, {"update"}, "defaults")
  /\ IF SameEndpoint(call[r].of, call[r].bot, call[r].form) # {}
     THEN Answer(r)
     ELSE Goto(r, "trigger_word")
  /\ Quiet /\ UNCHANGED <<rows, marks>>

\* A keyword, enabled or not, refuses a second one.
CheckTriggerWord(r) ==
  /\ At(r, {"create", "update"}, "trigger_word")
  /\ IF call[r].form.trigger = "word" /\ SameWord(call[r].of, call[r].bot) # {}
     THEN Answer(r)
     ELSE Goto(r, "write")
  /\ Quiet /\ UNCHANGED <<rows, marks>>

Met(r, b) == marks' = [marks EXCEPT ![b] = IF call[r].met THEN @ \cup {"met"} ELSE @ \ {"met"}]

CredsThere(k) == k # None => creds[k].state = "live"

CreateBot(r) ==
  /\ At(r, {"create"}, "write")
  /\ IF CredsThere(call[r].creds)
     THEN \E b \in Bots :
            /\ bots[b] = NoBot
            /\ bots' = [bots EXCEPT ![b] = [state |-> "live", of |-> call[r].of,
                                            form |-> call[r].form, creds |-> call[r].creds]]
            /\ Met(r, b)
     ELSE UNCHANGED <<bots, marks>>
  /\ Answer(r)
  /\ Quiet /\ UNCHANGED <<creds, settings>>

\* Mutant: a bot is deleted without its sessions.
FindBotToWrite(r) ==
  /\ At(r, {"update", "delete"}, "look")
  /\ IF Live(call[r].bot) /\ bots[call[r].bot].of = call[r].of
     THEN Goto(r, IF call[r].op = "update" THEN "trigger_all" ELSE "write")
     ELSE Answer(r)
  /\ Quiet /\ UNCHANGED <<rows, marks>>

\* A bot of another instance is not found.
FindBotRow(r) ==
  /\ At(r, {"update", "delete"}, "look")
  /\ IF Live(call[r].bot) /\ bots[call[r].bot].of = call[r].of
     THEN Goto(r, IF call[r].op = "update" THEN "trigger_all" ELSE "sessions")
     ELSE Answer(r)
  /\ Quiet /\ UNCHANGED <<rows, marks>>

UpdateBot(r) ==
  /\ At(r, {"update"}, "write")
  /\ IF Live(call[r].bot) /\ CredsThere(call[r].creds)
     THEN /\ bots' = [bots EXCEPT ![call[r].bot].form = call[r].form,
                                  ![call[r].bot].creds = call[r].creds]
          /\ Met(r, call[r].bot)
     ELSE UNCHANGED <<bots, marks>>
  /\ Answer(r)
  /\ Quiet /\ UNCHANGED <<creds, settings>>

\* The fallback of settings becomes null.
Forget(s) ==
  settings' = [i \in Instances |-> IF settings[i].fallback \in s
                                   THEN [settings[i] EXCEPT !.fallback = None] ELSE settings[i]]
Gone(s) == bots' = [b \in Bots |-> IF b \in s THEN [bots[b] EXCEPT !.state = "gone"] ELSE bots[b]]

\* deleteBot: first its sessions, then the row.
DeleteSessions(r) ==
  /\ At(r, {"delete"}, "sessions")
  /\ session' = [i \in Instances |-> [c \in Contacts |->
                   IF session[i][c] = call[r].bot THEN None ELSE session[i][c]]]
  /\ Goto(r, "write")
  /\ UNCHANGED <<integration, rows, found, made, marks>>

DeleteBot(r) ==
  /\ At(r, {"delete"}, "write")
  /\ IF Live(call[r].bot) THEN Gone({call[r].bot}) /\ Forget({call[r].bot})
     ELSE UNCHANGED <<bots, settings>>
  /\ Answer(r)
  /\ Quiet /\ UNCHANGED <<creds, marks>>

-----------------------------------------------------------------------------
(* Credentials of openai: an id stands for a key and a name, both unique    *)
(* among all instances.                                                     *)

LookForKey(r) ==
  /\ At(r, {"creds"}, "look")
  /\ IF creds[call[r].creds] = NoCreds THEN Goto(r, "write") ELSE Answer(r)
  /\ Quiet /\ UNCHANGED <<rows, marks>>

CreateCreds(r) ==
  /\ At(r, {"creds"}, "write")
  /\ creds' = IF creds[call[r].creds] = NoCreds
              THEN [creds EXCEPT ![call[r].creds] = [state |-> "live", of |-> call[r].of]]
              ELSE creds
  /\ Answer(r)
  /\ Quiet /\ UNCHANGED <<bots, settings, marks>>

FindCreds(r) ==
  /\ At(r, {"delete_creds"}, "look")
  /\ IF creds[call[r].creds] = [state |-> "live", of |-> call[r].of]
     THEN Goto(r, "write") ELSE Answer(r)
  /\ Quiet /\ UNCHANGED <<rows, marks>>

\* Settings that refer to them refuse it; bots go with them, sessions do not.
DeleteCreds(r) ==
  LET k == call[r].creds
      s == {b \in Bots : Live(b) /\ bots[b].creds = k}
  IN
  /\ At(r, {"delete_creds"}, "write")
  /\ IF creds[k].state = "live" /\ \A i \in Instances : settings[i].creds # k
     THEN /\ creds' = [creds EXCEPT ![k].state = "gone"]
          /\ Gone(s)
          /\ Forget(s)
          /\ marks' = [b \in Bots |-> IF b \in s THEN marks[b] \cup {"cascade"} ELSE marks[b]]
     ELSE UNCHANGED <<rows, marks>>
  /\ Answer(r)
  /\ Quiet

\* An error of the database.
Fails(r) ==
  /\ call[r] # NoCall
  /\ Answer(r)
  /\ Quiet /\ UNCHANGED <<rows, marks>>

-----------------------------------------------------------------------------
(* Messages.                                                                *)

\* findBotByTrigger: a bot for all or none takes any message.
FindBotByTrigger(i) ==
  LET any == {b \in Others(i, None) : bots[b].form.enabled /\ bots[b].form.trigger # "word"}
  IN IF any # {} THEN any
     ELSE {b \in Others(i, None) : bots[b].form.enabled /\ bots[b].form.trigger = "word"}

\* The bot of the session, by id alone, or else of a trigger.
FindBotTrigger(i, c) ==
  IF session[i][c] = None THEN FindBotByTrigger(i) ELSE {session[i][c]} \cap {b \in Bots : Live(b)}

Fallback(i) ==
  IF integration.fallback /\ settings[i].fallback # None THEN {settings[i].fallback} ELSE {}

\* emit: a message is routed; without a bot it is left unanswered.
Emit(i, c) ==
  /\ found[i][c] = None
  /\ LET own == FindBotTrigger(i, c) IN
     \E b \in IF own # {} THEN own ELSE Fallback(i) : found' = [found EXCEPT ![i][c] = b]
  /\ UNCHANGED <<integration, rows, session, call, made, marks>>

\* After the debounce time a contact without a session gets one, of whatever
\* bot was found: botId is no foreign key.
CreateNewSession(i, c) ==
  LET b == found[i][c] IN
  /\ b # None
  /\ found' = [found EXCEPT ![i][c] = None]
  /\ IF session[i][c] = None
     THEN /\ session' = [session EXCEPT ![i][c] = b]
          /\ marks' = IF ~Live(b) \/ \E r \in Requests : call[r].bot = b /\ At(r, {"delete"}, "write")
                      THEN [marks EXCEPT ![b] = @ \cup {"late"}] ELSE marks
     ELSE UNCHANGED <<session, marks>>
  /\ UNCHANGED <<integration, rows, call, made>>

Next ==
  \/ \E r \in Requests :
       \/ LookForEndpoint(r) \/ LookForSettings(r) \/ Settle(r)
       \/ CheckTriggerAll(r) \/ ValidateNoDuplicates(r) \/ CheckTriggerWord(r)
       \/ CreateBot(r) \/ FindBotRow(r) \/ UpdateBot(r) \/ DeleteSessions(r) \/ DeleteBot(r)
       \/ LookForKey(r) \/ CreateCreds(r) \/ FindCreds(r) \/ DeleteCreds(r) \/ Fails(r)
       \/ \E i \in Instances :
            \/ \E f \in Forms, k \in Creds \cup {None} :
                 AskCreate(r, i, f, k) \/ \E b \in Bots : AskUpdate(r, i, b, f, k)
            \/ \E b \in Bots : AskDelete(r, i, b)
            \/ \E b \in Bots \cup {None}, k \in Creds \cup {None} : AskSettings(r, i, b, k)
            \/ \E k \in Creds : AskCreds(r, i, k) \/ AskDeleteCreds(r, i, k)
  \/ \E i \in Instances, c \in Contacts : Emit(i, c) \/ CreateNewSession(i, c)

Spec == Init /\ [][Next]_vars

-----------------------------------------------------------------------------
(* Of the bots of an instance one that is enabled takes every message, one  *)
(* has the keyword, and where creation looks for it one stands for an       *)
(* endpoint: two have it only if a request that wrote one of them met       *)
(* another request.                                                         *)
TriggersApart ==
  \A b \in Bots : \A x \in Others(bots[b].of, b) :
    Live(b) /\ "met" \notin marks[b] \cup marks[x] =>
      /\ ~(b \in TakesAll(bots[b].of, x) /\ x \in TakesAll(bots[b].of, b))
      /\ ~(bots[b].form.trigger = "word" /\ bots[x].form.trigger = "word")
      /\ integration.checked => bots[b].form.endpoint # bots[x].form.endpoint

(* The bot of a session is there, and a session of a bot that is not there  *)
(* keeps every trigger from the contact: it was left by deleted credentials *)
(* or begun while its bot was being deleted.                                *)
SessionsHaveBots ==
  \A i \in Instances, c \in Contacts :
    LET b == session[i][c] IN
    b # None /\ ~Live(b) => marks[b] \cap {"cascade", "late"} # {} /\ FindBotTrigger(i, c) = {}
=============================================================================
