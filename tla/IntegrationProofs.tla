--------------------------- MODULE IntegrationProofs --------------------------
(***************************************************************************)
(* Proofs about the administration of bots, BotSettings as MCIntegrations  *)
(* puts it beside the bridge to Chatwoot, and about the bridge itself,     *)
(* ChatwootBridge: for any instances, contacts, bots, credentials,         *)
(* requests, forms, messages and calls, and for any bounds.                *)
(***************************************************************************)
EXTENDS MCIntegrations, TLAPS, FiniteSetTheorems, SequenceTheorems

(* None is no bot and no instance, and there is something to make bots of.  *)
Named == /\ None \notin Bots
         /\ None \notin Instances
         /\ MaxRequests \in Nat
         /\ BotForms # {}

BotRows == [state : {"unused", "live", "gone"}, of : Instances \cup {None},
            form : BotForms, creds : Creds \cup {None}]
CredRows == [state : {"unused", "live", "gone"}, of : Instances \cup {None}]
SettingRows == [row : BOOLEAN, fallback : Bots \cup {None}, creds : Creds \cup {None}]
CallRecords ==
  [op : {"none", "create", "update", "delete", "settings", "creds", "delete_creds"},
   pc : S!Steps, of : Instances \cup {None}, bot : Bots \cup {None},
   form : BotForms, creds : Creds \cup {None}, met : BOOLEAN]

(* What a request has: an instance; once it was found, its own bot; and,    *)
(* while it meets no other, what its checks have seen still holds.          *)
Owns(k) ==
  /\ k.op = "none" => k.of = None
  /\ k.op # "none" => k.of \in Instances
  /\ k.op = "create" => k.bot = None
  /\ k.op \in {"update", "delete"} => k.bot \in Bots /\ bots[k.bot].state # "unused"
  /\ k.op \in {"update", "delete"} /\ k.pc # "look" => bots[k.bot].of = k.of

EndpointFree(k) == S!SameEndpoint(k.of, k.bot, k.form) = {}
AllFree(k) == k.form.trigger = "all" => S!TakesAll(k.of, k.bot) = {}
WordFree(k) == k.form.trigger = "word" => S!SameWord(k.of, k.bot) = {}

StillSo(k) ==
  ~k.met =>
    /\ k.op = "create" =>
         /\ k.pc # "look" /\ integration.checked => EndpointFree(k)
         /\ k.pc \in {"trigger_word", "write"} => AllFree(k)
         /\ k.pc = "write" => WordFree(k)
    /\ k.op = "update" =>
         /\ k.pc \in {"defaults", "trigger_word", "write"} => AllFree(k)
         /\ k.pc \in {"trigger_word", "write"} => EndpointFree(k)
         /\ k.pc = "write" => WordFree(k)

RequestsOK == \A r \in Calls : Owns(call[r]) /\ StillSo(call[r])

(* Two requests on one instance know of it.                                 *)
Met2 == \A r, q \in Calls :
          r # q /\ call[r].of # None /\ call[q].of = call[r].of => call[r].met

(* A bot that is not there, or about to go.                                 *)
Doomed(b) == ~S!Live(b) \/ \E r \in Calls : call[r].bot = b /\ S!At(r, {"delete"}, "write")

Excepted(b) == marks[b] \cap {"cascade", "late"} # {}

SessionsMarked ==
  \A i \in Instances, c \in Contacts :
    session[i][c] # None /\ Doomed(session[i][c]) => Excepted(session[i][c])

SettingsInv == S!TypeOK /\ RequestsOK /\ Met2 /\ SessionsMarked /\ S!TriggersApart

-----------------------------------------------------------------------------

(* No call is a call, and there is a form.                                  *)
LEMMA NoCallTyped ==
  ASSUME Named
  PROVE  /\ S!NoForm \in BotForms
         /\ S!NoCall \in CallRecords
         /\ S!NoCall.op = "none" /\ S!NoCall.pc = "none" /\ S!NoCall.of = None
         /\ S!NoCall.bot = None /\ S!NoCall.met = FALSE
         /\ S!NoBot \in BotRows /\ S!NoBot.state = "unused"
<1>1. S!NoForm \in BotForms
  BY DEF Named, S!NoForm
<1>. QED BY <1>1 DEF S!NoCall, CallRecords, S!Steps, S!NoBot, BotRows

(* What the types say, with names.                                          *)
LEMMA Types ==
  S!TypeOK <=> /\ integration \in S!Integrations
               /\ bots \in [Bots -> BotRows]
               /\ creds \in [Creds -> CredRows]
               /\ settings \in [Instances -> SettingRows]
               /\ session \in [Instances -> [Contacts -> Bots \cup {None}]]
               /\ found \in [Instances -> [Contacts -> Bots \cup {None}]]
               /\ call \in [Calls -> CallRecords]
               /\ made \in 0..MaxRequests
               /\ marks \in [Bots -> SUBSET {"met", "cascade", "late"}]
BY DEF S!TypeOK, BotRows, CredRows, SettingRows, CallRecords

(* At the start there are no bots and no requests.                          *)
LEMMA SettingsInit == ASSUME Named, S!Init PROVE SettingsInv
<1>1. S!TypeOK
  <2>1. creds \in [Creds -> CredRows]
    <3>1. {S!NoCreds} \cup (IF integration.creds THEN [state : {"live"}, of : Instances] ELSE {})
            \subseteq CredRows
      BY DEF S!NoCreds, CredRows
    <3>. QED BY <3>1 DEF S!Init
  <2>2. settings \in [Instances -> SettingRows]
    BY DEF S!Init, S!NoSettings, SettingRows
  <2>3. bots \in [Bots -> BotRows] /\ call \in [Calls -> CallRecords]
    BY NoCallTyped DEF S!Init
  <2>4. integration \in S!Integrations /\ made \in 0..MaxRequests
    BY DEF S!Init, Named
  <2>5. /\ session \in [Instances -> [Contacts -> Bots \cup {None}]]
        /\ found \in [Instances -> [Contacts -> Bots \cup {None}]]
        /\ marks \in [Bots -> SUBSET {"met", "cascade", "late"}]
    BY DEF S!Init
  <2>. QED BY <2>1, <2>2, <2>3, <2>4, <2>5, Types
<1>2. \A r \in Calls : call[r] = S!NoCall
  BY DEF S!Init
<1>3. \A b \in Bots : bots[b] = S!NoBot
  BY DEF S!Init
<1>4. \A i \in Instances, c \in Contacts : session[i][c] = None
  BY DEF S!Init
<1>5. RequestsOK
  BY <1>2, NoCallTyped DEF RequestsOK, Owns, StillSo
<1>6. Met2 /\ SessionsMarked
  BY <1>2, <1>4, NoCallTyped DEF Met2, SessionsMarked
<1>7. S!TriggersApart
  BY <1>3, NoCallTyped DEF S!TriggersApart, S!Others, S!Live
<1>. QED BY <1>1, <1>5, <1>6, <1>7 DEF SettingsInv

-----------------------------------------------------------------------------

(* One request goes on or ends.                                             *)
Continues(k, l) ==
  /\ k.op = l.op /\ k.of = l.of /\ k.bot = l.bot
  /\ k.form = l.form /\ k.creds = l.creds /\ k.met = l.met

LEMMA GoesOn ==
  ASSUME Named, S!TypeOK, NEW r \in Calls, NEW p \in S!Steps
  PROVE  /\ [call[r] EXCEPT !.pc = p] \in CallRecords
         /\ [call[r] EXCEPT !.pc = p].pc = p
         /\ Continues([call[r] EXCEPT !.pc = p], call[r])
         /\ [call EXCEPT ![r].pc = p] = [call EXCEPT ![r] = [call[r] EXCEPT !.pc = p]]
<1>1. call[r] \in CallRecords
  BY Types
<1>. QED BY <1>1, Types DEF CallRecords, Continues

(* What is left of the requests when one goes on or ends.                   *)
LEMMA OthersKept ==
  ASSUME Named, SettingsInv, NEW r \in Calls, NEW k \in CallRecords,
         k = S!NoCall \/ Continues(k, call[r]),
         call' = [call EXCEPT ![r] = k]
  PROVE  /\ call' \in [Calls -> CallRecords]
         /\ \A q \in Calls : call'[q] = IF q = r THEN k ELSE call[q]
         /\ Met2'
<1>1. call' \in [Calls -> CallRecords]
  BY Types DEF SettingsInv
<1>2. \A q \in Calls : call'[q] = IF q = r THEN k ELSE call[q]
  BY Types DEF SettingsInv
<1>3. Met2'
  BY <1>2, NoCallTyped DEF SettingsInv, Met2, Continues
<1>. QED BY <1>1, <1>2, <1>3

(* Bots are left alone.                                                     *)
LEMMA BotsKept ==
  ASSUME Named, SettingsInv, NEW r \in Calls, NEW k \in CallRecords,
         k = S!NoCall \/ Continues(k, call[r]),
         call' = [call EXCEPT ![r] = k],
         Owns(k), StillSo(k), ~(k.op = "delete" /\ k.pc = "write"),
         UNCHANGED <<integration, bots, session, found, made, marks>>,
         creds' \in [Creds -> CredRows], settings' \in [Instances -> SettingRows]
  PROVE  SettingsInv'
<1>1. /\ call' \in [Calls -> CallRecords]
      /\ \A q \in Calls : call'[q] = IF q = r THEN k ELSE call[q]
      /\ Met2'
  BY OthersKept
<1>2. S!TypeOK'
  <2>1. (/\ integration \in S!Integrations
         /\ bots \in [Bots -> BotRows]
         /\ creds \in [Creds -> CredRows]
         /\ settings \in [Instances -> SettingRows]
         /\ session \in [Instances -> [Contacts -> Bots \cup {None}]]
         /\ found \in [Instances -> [Contacts -> Bots \cup {None}]]
         /\ call \in [Calls -> CallRecords]
         /\ made \in 0..MaxRequests
         /\ marks \in [Bots -> SUBSET {"met", "cascade", "late"}])'
    BY <1>1, Types DEF SettingsInv
  <2>. QED BY <2>1, Types, PTL
<1>3. RequestsOK'
  <2>1. ASSUME NEW q \in Calls PROVE Owns(call[q])' /\ StillSo(call[q])'
    <3>1. Owns(call'[q]) /\ StillSo(call'[q])
      BY <1>1 DEF SettingsInv, RequestsOK
    <3>. QED BY <3>1 DEF Owns, StillSo, EndpointFree, AllFree, WordFree, S!SameEndpoint,
                    S!TakesAll, S!SameWord, S!Others, S!Live
  <2>. QED BY <2>1 DEF RequestsOK
<1>4. SessionsMarked'
  <2>1. session' = session /\ marks' = marks /\ bots' = bots
    OBVIOUS
  <2>2. ASSUME NEW b, Doomed(b)' PROVE Doomed(b)
    BY <1>1, <2>1, <2>2 DEF Doomed, S!Live, S!At
  <2>. QED BY <2>1, <2>2 DEF SettingsInv, SessionsMarked, Excepted
<1>5. S!TriggersApart'
  BY DEF SettingsInv, S!TriggersApart, S!TakesAll, S!Others, S!Live
<1>. QED BY <1>1, <1>2, <1>3, <1>4, <1>5 DEF SettingsInv

(* A request comes in.                                                      *)
LEMMA RequestKeeps ==
  ASSUME Named, SettingsInv, NEW r \in Calls, NEW new \in CallRecords,
         S!Request(r, new), new.of \in Instances, Owns(new), new.op # "none",
         new.pc = "look" \/ (new.op = "create" /\ new.pc = "defaults" /\ ~integration.checked)
                         \/ new.op \notin {"create", "update", "delete"}
  PROVE  SettingsInv'
<1>. DEFINE shared == {q \in Calls : call[q].of = new.of}
<1>. DEFINE new2 == [new EXCEPT !.met = shared # {}]
<1>1. /\ call[r] = S!NoCall /\ made < MaxRequests /\ made' = made + 1
      /\ call' = [q \in Calls |-> IF q = r THEN new2
                                 ELSE IF q \in shared THEN [call[q] EXCEPT !.met = TRUE]
                                 ELSE call[q]]
      /\ UNCHANGED <<integration, bots, creds, settings, session, found, marks>>
  BY DEF S!Request, S!rows
<1>2. new2 \in CallRecords /\ Continues([new2 EXCEPT !.met = new.met], new)
  BY DEF CallRecords, Continues
<1>3. new2.op = new.op /\ new2.pc = new.pc /\ new2.of = new.of /\ new2.bot = new.bot
      /\ new2.form = new.form /\ new2.met = (shared # {})
  BY DEF CallRecords
<1>4. ASSUME NEW q \in Calls
      PROVE  /\ call[q] \in CallRecords
             /\ [call[q] EXCEPT !.met = TRUE] \in CallRecords
             /\ [call[q] EXCEPT !.met = TRUE].met
             /\ Continues([[call[q] EXCEPT !.met = TRUE] EXCEPT !.met = call[q].met], call[q])
             /\ [call[q] EXCEPT !.met = TRUE].pc = call[q].pc
             /\ [call[q] EXCEPT !.met = TRUE].op = call[q].op
             /\ [call[q] EXCEPT !.met = TRUE].of = call[q].of
             /\ [call[q] EXCEPT !.met = TRUE].bot = call[q].bot
             /\ [call[q] EXCEPT !.met = TRUE].form = call[q].form
  <2>1. call[q] \in CallRecords
    BY Types DEF SettingsInv
  <2>. QED BY <2>1 DEF CallRecords, Continues
<1>. HIDE DEF new2
<1>5. call' \in [Calls -> CallRecords]
  BY <1>1, <1>2, <1>4
<1>6. \A q \in Calls : call'[q] = IF q = r THEN new2
                                 ELSE IF q \in shared THEN [call[q] EXCEPT !.met = TRUE]
                                 ELSE call[q]
  BY <1>1
<1>7. S!TypeOK'
  <2>1. made' \in 0..MaxRequests
    BY <1>1, Types DEF SettingsInv, Named
  <2>2. (/\ integration \in S!Integrations
         /\ bots \in [Bots -> BotRows]
         /\ creds \in [Creds -> CredRows]
         /\ settings \in [Instances -> SettingRows]
         /\ session \in [Instances -> [Contacts -> Bots \cup {None}]]
         /\ found \in [Instances -> [Contacts -> Bots \cup {None}]]
         /\ call \in [Calls -> CallRecords]
         /\ made \in 0..MaxRequests
         /\ marks \in [Bots -> SUBSET {"met", "cascade", "late"}])'
    BY <1>1, <1>5, <2>1, Types DEF SettingsInv
  <2>. QED BY <2>2, Types, PTL
<1>8. ASSUME NEW q \in Calls, q # r
      PROVE  /\ call'[q].op = call[q].op /\ call'[q].pc = call[q].pc /\ call'[q].of = call[q].of
             /\ call'[q].bot = call[q].bot /\ call'[q].form = call[q].form
             /\ call[q].met \/ q \in shared => call'[q].met
  <2>1. CASE q \in shared
    <3>1. call'[q] = [call[q] EXCEPT !.met = TRUE]
      BY <1>6, <1>8, <2>1
    <3>. QED BY <1>4, <2>1, <3>1
  <2>2. CASE q \notin shared
    BY <1>6, <1>8, <2>2
  <2>. QED BY <2>1, <2>2
<1>9. RequestsOK'
  <2>1. ASSUME NEW q \in Calls PROVE (Owns(call[q]) /\ StillSo(call[q]))'
    <3>1. CASE q = r
      <4>1. call'[q] = new2 /\ bots' = bots /\ integration' = integration
        BY <1>1, <1>6, <3>1
      <4>. QED BY <1>3, <4>1 DEF Owns, StillSo, EndpointFree, AllFree, WordFree,
                      S!SameEndpoint,
                    S!TakesAll, S!SameWord, S!Others, S!Live
    <3>2. CASE q # r
      <4>1. Owns(call[q]) /\ StillSo(call[q]) /\ bots' = bots /\ integration' = integration
        BY <1>1 DEF SettingsInv, RequestsOK
      <4>2. Owns(call[q])'
        BY <1>8, <3>2, <4>1 DEF Owns
      <4>3. ASSUME ~call'[q].met PROVE ~call[q].met
        BY <1>8, <3>2, <4>3
      <4>4. StillSo(call[q])'
        <5>1. EndpointFree(call[q])' = EndpointFree(call[q])
          BY <1>8, <3>2, <4>1 DEF EndpointFree, S!SameEndpoint, S!Others, S!Live
        <5>2. AllFree(call[q])' = AllFree(call[q])
          BY <1>8, <3>2, <4>1 DEF AllFree, S!TakesAll, S!Others, S!Live
        <5>3. WordFree(call[q])' = WordFree(call[q])
          BY <1>8, <3>2, <4>1 DEF WordFree, S!SameWord, S!Others, S!Live
        <5>. QED BY <1>8, <3>2, <4>1, <4>3, <5>1, <5>2, <5>3 DEF StillSo
      <4>. QED BY <4>2, <4>4
    <3>. QED BY <3>1, <3>2
  <2>. QED BY <2>1 DEF RequestsOK
<1>10. Met2'
  <2>1. call'[r].of = new.of /\ call'[r].met = (shared # {})
    BY <1>3, <1>6
  <2>2. ASSUME NEW p \in Calls, NEW q \in Calls, p # q,
               call'[p].of # None, call'[q].of = call'[p].of
        PROVE  call'[p].met
    <3>1. CASE p = r
      <4>1. q \in shared
        BY <1>8, <2>1, <2>2, <3>1
      <4>. QED BY <2>1, <3>1, <4>1
    <3>2. CASE p # r /\ q = r
      BY <1>8, <2>1, <2>2, <3>2
    <3>3. CASE p # r /\ q # r
      BY <1>8, <2>2, <3>3 DEF SettingsInv, Met2
    <3>. QED BY <3>1, <3>2, <3>3
  <2>. QED BY <2>2 DEF Met2
<1>11. SessionsMarked'
  <2>1. session' = session /\ marks' = marks /\ bots' = bots
    BY <1>1
  <2>2. ~(call'[r].op = "delete" /\ call'[r].pc = "write")
    BY <1>3, <1>6
  <2>3. ASSUME NEW b, Doomed(b)' PROVE Doomed(b)
    BY <1>8, <2>1, <2>2, <2>3 DEF Doomed, S!Live, S!At
  <2>. QED BY <2>1, <2>3 DEF SettingsInv, SessionsMarked, Excepted
<1>12. S!TriggersApart'
  BY <1>1 DEF SettingsInv, S!TriggersApart, S!TakesAll, S!Others, S!Live
<1>. QED BY <1>7, <1>9, <1>10, <1>11, <1>12 DEF SettingsInv

(* The requests there are.                                                  *)
LEMMA AskKeeps ==
  ASSUME Named, SettingsInv, NEW r \in Calls, NEW i \in Instances,
         \/ \E f \in BotForms, k \in Creds \cup {None} :
              S!AskCreate(r, i, f, k) \/ \E b \in Bots : S!AskUpdate(r, i, b, f, k)
         \/ \E b \in Bots : S!AskDelete(r, i, b)
         \/ \E b \in Bots \cup {None}, k \in Creds \cup {None} : S!AskSettings(r, i, b, k)
         \/ \E k \in Creds : S!AskCreds(r, i, k) \/ S!AskDeleteCreds(r, i, k)
  PROVE  SettingsInv'
<1>1. ASSUME NEW f \in BotForms, NEW k \in Creds \cup {None}, S!AskCreate(r, i, f, k)
      PROVE  SettingsInv'
  <2>. DEFINE new == [S!NoCall EXCEPT !.op = "create", !.of = i, !.form = f, !.creds = k,
                   !.pc = IF integration.checked THEN "look" ELSE "defaults"]
  <2>1. new \in CallRecords /\ new.op = "create" /\ new.of = i /\ new.bot = None
        /\ new.pc = IF integration.checked THEN "look" ELSE "defaults"
    BY NoCallTyped DEF CallRecords, S!Steps, S!NoCall
  <2>2. S!Request(r, new)
    BY <1>1 DEF S!AskCreate
  <2>. HIDE DEF new
  <2>3. Owns(new)
    BY <2>1 DEF Owns
  <2>. QED BY <2>1, <2>2, <2>3, RequestKeeps
<1>2. ASSUME NEW f \in BotForms, NEW k \in Creds \cup {None}, NEW b \in Bots, S!AskUpdate(r, i, b, f, k)
      PROVE  SettingsInv'
  <2>. DEFINE new == [S!NoCall EXCEPT !.op = "update", !.of = i, !.bot = b, !.form = f, !.creds = k,
                   !.pc = "look"]
  <2>1. new \in CallRecords /\ new.op = "update" /\ new.of = i /\ new.bot = b /\ new.pc = "look"
    BY NoCallTyped DEF CallRecords, S!Steps, S!NoCall
  <2>2. S!Request(r, new) /\ bots[b].state # "unused"
    BY <1>2 DEF S!AskUpdate
  <2>. HIDE DEF new
  <2>3. Owns(new)
    BY <2>1, <2>2 DEF Owns
  <2>. QED BY <2>1, <2>2, <2>3, RequestKeeps
<1>3. ASSUME NEW b \in Bots, S!AskDelete(r, i, b)
      PROVE  SettingsInv'
  <2>. DEFINE new == [S!NoCall EXCEPT !.op = "delete", !.of = i, !.bot = b, !.pc = "look"]
  <2>1. new \in CallRecords /\ new.op = "delete" /\ new.of = i /\ new.bot = b /\ new.pc = "look"
    BY NoCallTyped DEF CallRecords, S!Steps, S!NoCall
  <2>2. S!Request(r, new) /\ bots[b].state # "unused"
    BY <1>3 DEF S!AskDelete
  <2>. HIDE DEF new
  <2>3. Owns(new)
    BY <2>1, <2>2 DEF Owns
  <2>. QED BY <2>1, <2>2, <2>3, RequestKeeps
<1>4. ASSUME NEW b \in Bots \cup {None}, NEW k \in Creds \cup {None}, S!AskSettings(r, i, b, k)
      PROVE  SettingsInv'
  <2>. DEFINE new == [S!NoCall EXCEPT !.op = "settings", !.of = i, !.bot = b, !.creds = k, !.pc = "settle"]
  <2>1. new \in CallRecords /\ new.op = "settings" /\ new.of = i
    BY NoCallTyped DEF CallRecords, S!Steps, S!NoCall
  <2>2. S!Request(r, new)
    BY <1>4 DEF S!AskSettings
  <2>. HIDE DEF new
  <2>3. Owns(new)
    BY <2>1 DEF Owns
  <2>. QED BY <2>1, <2>2, <2>3, RequestKeeps
<1>5. ASSUME NEW k \in Creds, S!AskCreds(r, i, k)
      PROVE  SettingsInv'
  <2>. DEFINE new == [S!NoCall EXCEPT !.op = "creds", !.of = i, !.creds = k, !.pc = "look"]
  <2>1. new \in CallRecords /\ new.op = "creds" /\ new.of = i
    BY NoCallTyped DEF CallRecords, S!Steps, S!NoCall
  <2>2. S!Request(r, new)
    BY <1>5 DEF S!AskCreds
  <2>. HIDE DEF new
  <2>3. Owns(new)
    BY <2>1 DEF Owns
  <2>. QED BY <2>1, <2>2, <2>3, RequestKeeps
<1>6. ASSUME NEW k \in Creds, S!AskDeleteCreds(r, i, k)
      PROVE  SettingsInv'
  <2>. DEFINE new == [S!NoCall EXCEPT !.op = "delete_creds", !.of = i, !.creds = k, !.pc = "look"]
  <2>1. new \in CallRecords /\ new.op = "delete_creds" /\ new.of = i
    BY NoCallTyped DEF CallRecords, S!Steps, S!NoCall
  <2>2. S!Request(r, new)
    BY <1>6 DEF S!AskDeleteCreds
  <2>. HIDE DEF new
  <2>3. Owns(new)
    BY <2>1 DEF Owns
  <2>. QED BY <2>1, <2>2, <2>3, RequestKeeps
<1>. QED BY <1>1, <1>2, <1>3, <1>4, <1>5, <1>6

(* Steps that look, and those that write no bot.                            *)
LEMMA LooksKeep ==
  ASSUME Named, SettingsInv, NEW r \in Calls,
         \/ S!LookForEndpoint(r) \/ S!LookForSettings(r) \/ S!Settle(r)
         \/ S!CheckTriggerAll(r) \/ S!ValidateNoDuplicates(r) \/ S!CheckTriggerWord(r)
         \/ S!FindBotRow(r) \/ S!LookForKey(r) \/ S!CreateCreds(r) \/ S!FindCreds(r) \/ S!Fails(r)
  PROVE  SettingsInv'
<1>. USE NoCallTyped DEF SettingsInv
<1>a. Owns(call[r]) /\ StillSo(call[r])
  BY DEF RequestsOK
<1>b. Owns(S!NoCall) /\ StillSo(S!NoCall) /\ ~(S!NoCall.op = "delete" /\ S!NoCall.pc = "write")
  BY DEF Owns, StillSo
<1>c. creds \in [Creds -> CredRows] /\ settings \in [Instances -> SettingRows]
      /\ call[r] \in CallRecords
  BY Types
<1>d. ASSUME S!Answer(r), UNCHANGED <<integration, bots, session, found, made, marks>>,
             creds' \in [Creds -> CredRows], settings' \in [Instances -> SettingRows]
      PROVE  SettingsInv'
  <2>1. call' = [call EXCEPT ![r] = S!NoCall]
    BY <1>d DEF S!Answer
  <2>. QED BY <1>b, <1>d, <2>1, BotsKept
<1>e. ASSUME NEW p \in S!Steps, S!Goto(r, p), UNCHANGED <<integration, bots, session, found, made, marks>>,
             creds' \in [Creds -> CredRows], settings' \in [Instances -> SettingRows],
             Owns([call[r] EXCEPT !.pc = p]), StillSo([call[r] EXCEPT !.pc = p]),
             ~(call[r].op = "delete" /\ p = "write")
      PROVE  SettingsInv'
  <2>. DEFINE k == [call[r] EXCEPT !.pc = p]
  <2>1. k \in CallRecords /\ k.pc = p /\ Continues(k, call[r])
    BY GoesOn
  <2>2. call' = [call EXCEPT ![r] = k]
    BY <1>e, GoesOn DEF S!Goto
  <2>3. Owns(k) /\ StillSo(k) /\ ~(k.op = "delete" /\ k.pc = "write")
    BY <1>e, <2>1 DEF Continues
  <2>. HIDE DEF k
  <2>. QED BY <1>e, <2>1, <2>2, <2>3, BotsKept
<1>f. ASSUME NEW p \in S!Steps
      PROVE  /\ [call[r] EXCEPT !.pc = p].pc = p
             /\ Continues([call[r] EXCEPT !.pc = p], call[r])
  BY GoesOn
<1>1. CASE S!LookForEndpoint(r)
  <2>1. call[r].op = "create" /\ call[r].bot = None
        /\ UNCHANGED <<integration, bots, session, found, made, marks, creds, settings>>
    BY <1>1, <1>a DEF S!LookForEndpoint, S!At, S!Quiet, S!rows, Owns
  <2>2. CASE S!Answer(r)
    BY <1>c, <1>d, <2>1, <2>2
  <2>3. CASE EndpointFree(call[r]) /\ S!Goto(r, "defaults")
    <3>. DEFINE k == [call[r] EXCEPT !.pc = "defaults"]
    <3>1. k.pc = "defaults" /\ Continues(k, call[r])
      BY <1>f DEF S!Steps
    <3>. HIDE DEF k
    <3>2. Owns(k) /\ StillSo(k)
      BY <1>a, <2>1, <2>3, <3>1 DEF Continues, Owns, StillSo, EndpointFree
    <3>. QED BY <1>c, <1>e, <2>1, <2>3, <3>2 DEF k, S!Steps
  <2>. QED BY <1>1, <2>1, <2>2, <2>3 DEF S!LookForEndpoint, EndpointFree
<1>2. CASE S!LookForSettings(r)
  <2>1. call[r].op = "create" /\ call[r].pc = "defaults"
        /\ UNCHANGED <<integration, bots, session, found, made, marks, creds, settings>>
    BY <1>2 DEF S!LookForSettings, S!At, S!Quiet, S!rows
  <2>2. PICK p \in {"trigger_all", "settle"} : S!Goto(r, p)
    BY <1>2 DEF S!LookForSettings
  <2>. DEFINE k == [call[r] EXCEPT !.pc = p]
  <2>3. k.pc = p /\ Continues(k, call[r])
    BY <1>f DEF S!Steps
  <2>. HIDE DEF k
  <2>4. Owns(k) /\ StillSo(k)
    BY <1>a, <2>1, <2>2, <2>3 DEF Continues, Owns, StillSo, EndpointFree
  <2>. QED BY <1>c, <1>e, <2>1, <2>2, <2>4 DEF k, S!Steps
<1>3. CASE S!Settle(r)
  <2>1. call[r].op \in {"create", "settings"} /\ call[r].pc = "settle" /\ creds' = creds
        /\ UNCHANGED <<integration, bots, session, found, made, marks>>
    BY <1>3 DEF S!Settle, S!At, S!Quiet
  <2>2. settings' \in [Instances -> SettingRows]
    <3>1. CASE UNCHANGED settings
      BY <1>c, <3>1
    <3>2. CASE settings' = [settings EXCEPT ![call[r].of] =
                 [row |-> TRUE, fallback |-> IF call[r].bot = None THEN @.fallback ELSE call[r].bot,
                  creds |-> call[r].creds]]
      BY <1>c, <3>2 DEF SettingRows, CallRecords
    <3>. QED BY <1>3, <3>1, <3>2 DEF S!Settle
  <2>3. CASE S!Answer(r)
    BY <1>c, <1>d, <2>1, <2>2, <2>3
  <2>4. CASE call[r].op = "create" /\ S!Goto(r, "trigger_all")
    <3>. DEFINE k == [call[r] EXCEPT !.pc = "trigger_all"]
    <3>1. k.pc = "trigger_all" /\ Continues(k, call[r])
      BY <1>f DEF S!Steps
    <3>. HIDE DEF k
    <3>2. Owns(k) /\ StillSo(k)
      BY <1>a, <2>1, <2>4, <3>1 DEF Continues, Owns, StillSo, EndpointFree
    <3>. QED BY <1>c, <1>e, <2>1, <2>2, <2>4, <3>2 DEF k, S!Steps
  <2>. QED BY <1>3, <2>3, <2>4 DEF S!Settle
<1>4. CASE S!CheckTriggerAll(r)
  <2>1. call[r].op \in {"create", "update"} /\ call[r].pc = "trigger_all"
        /\ UNCHANGED <<integration, bots, session, found, made, marks, creds, settings>>
    BY <1>4 DEF S!CheckTriggerAll, S!At, S!Quiet, S!rows
  <2>2. CASE S!Answer(r)
    BY <1>c, <1>d, <2>1, <2>2
  <2>3. CASE AllFree(call[r]) /\ S!Goto(r, IF call[r].op = "create" THEN "trigger_word" ELSE "defaults")
    <3>. DEFINE p == IF call[r].op = "create" THEN "trigger_word" ELSE "defaults"
    <3>. DEFINE k == [call[r] EXCEPT !.pc = p]
    <3>1. p \in S!Steps /\ k.pc = p /\ Continues(k, call[r])
      BY <1>f DEF S!Steps
    <3>2. p = IF call[r].op = "create" THEN "trigger_word" ELSE "defaults"
      OBVIOUS
    <3>. HIDE DEF k, p
    <3>3. Owns(k) /\ StillSo(k)
      BY <1>a, <2>1, <2>3, <3>1, <3>2 DEF Continues, Owns, StillSo, EndpointFree,
             AllFree
    <3>4. S!Goto(r, p)
      BY <2>3, <3>2
    <3>. QED BY <1>c, <1>e, <2>1, <3>1, <3>3, <3>4 DEF k
  <2>. QED BY <1>4, <2>1, <2>2, <2>3 DEF S!CheckTriggerAll, AllFree
<1>5. CASE S!ValidateNoDuplicates(r)
  <2>1. call[r].op = "update" /\ call[r].pc = "defaults"
        /\ UNCHANGED <<integration, bots, session, found, made, marks, creds, settings>>
    BY <1>5 DEF S!ValidateNoDuplicates, S!At, S!Quiet, S!rows
  <2>2. CASE S!Answer(r)
    BY <1>c, <1>d, <2>1, <2>2
  <2>3. CASE EndpointFree(call[r]) /\ S!Goto(r, "trigger_word")
    <3>. DEFINE k == [call[r] EXCEPT !.pc = "trigger_word"]
    <3>1. k.pc = "trigger_word" /\ Continues(k, call[r])
      BY <1>f DEF S!Steps
    <3>. HIDE DEF k
    <3>2. Owns(k) /\ StillSo(k)
      BY <1>a, <2>1, <2>3, <3>1 DEF Continues, Owns, StillSo, EndpointFree, AllFree
    <3>. QED BY <1>c, <1>e, <2>1, <2>3, <3>2 DEF k, S!Steps
  <2>. QED BY <1>5, <2>1, <2>2, <2>3 DEF S!ValidateNoDuplicates, EndpointFree
<1>6. CASE S!CheckTriggerWord(r)
  <2>1. call[r].op \in {"create", "update"} /\ call[r].pc = "trigger_word"
        /\ UNCHANGED <<integration, bots, session, found, made, marks, creds, settings>>
    BY <1>6 DEF S!CheckTriggerWord, S!At, S!Quiet, S!rows
  <2>2. CASE S!Answer(r)
    BY <1>c, <1>d, <2>1, <2>2
  <2>3. CASE WordFree(call[r]) /\ S!Goto(r, "write")
    <3>. DEFINE k == [call[r] EXCEPT !.pc = "write"]
    <3>1. k.pc = "write" /\ Continues(k, call[r])
      BY <1>f DEF S!Steps
    <3>. HIDE DEF k
    <3>2. Owns(k) /\ StillSo(k)
      BY <1>a, <2>1, <2>3, <3>1 DEF Continues, Owns, StillSo, EndpointFree, AllFree,
             WordFree
    <3>3. "write" \in S!Steps /\ ~(call[r].op = "delete" /\ "write" = "write")
      BY <2>1 DEF S!Steps
    <3>. QED BY <1>c, <1>e, <2>1, <2>3, <3>2, <3>3 DEF k
  <2>. QED BY <1>6, <2>1, <2>2, <2>3 DEF S!CheckTriggerWord, WordFree
<1>7. CASE S!FindBotRow(r)
  <2>1. call[r].op \in {"update", "delete"} /\ call[r].pc = "look"
        /\ UNCHANGED <<integration, bots, session, found, made, marks, creds, settings>>
    BY <1>7 DEF S!FindBotRow, S!At, S!Quiet, S!rows
  <2>2. CASE S!Answer(r)
    BY <1>c, <1>d, <2>1, <2>2
  <2>3. CASE bots[call[r].bot].of = call[r].of
             /\ S!Goto(r, IF call[r].op = "update" THEN "trigger_all" ELSE "sessions")
    <3>. DEFINE p == IF call[r].op = "update" THEN "trigger_all" ELSE "sessions"
    <3>. DEFINE k == [call[r] EXCEPT !.pc = p]
    <3>1. p \in S!Steps /\ k.pc = p /\ Continues(k, call[r])
      BY <1>f DEF S!Steps
    <3>2. p \in {"trigger_all", "sessions"}
      OBVIOUS
    <3>4. S!Goto(r, p)
      BY <2>3
    <3>. HIDE DEF k, p
    <3>3. Owns(k) /\ StillSo(k)
      BY <1>a, <2>1, <2>3, <3>1, <3>2 DEF Continues, Owns, StillSo
    <3>. QED BY <1>c, <1>e, <2>1, <3>1, <3>2, <3>3, <3>4 DEF k
  <2>. QED BY <1>7, <2>1, <2>2, <2>3 DEF S!FindBotRow
<1>8. CASE S!LookForKey(r) \/ S!FindCreds(r)
  <2>1. call[r].op \in {"creds", "delete_creds"}
        /\ UNCHANGED <<integration, bots, session, found, made, marks, creds, settings>>
    BY <1>8 DEF S!LookForKey, S!FindCreds, S!At, S!Quiet, S!rows
  <2>2. CASE S!Answer(r)
    BY <1>c, <1>d, <2>1, <2>2
  <2>3. CASE S!Goto(r, "write")
    <3>. DEFINE k == [call[r] EXCEPT !.pc = "write"]
    <3>1. k.pc = "write" /\ Continues(k, call[r])
      BY <1>f DEF S!Steps
    <3>. HIDE DEF k
    <3>2. Owns(k) /\ StillSo(k)
      BY <1>a, <2>1, <2>3, <3>1 DEF Continues, Owns, StillSo
    <3>3. "write" \in S!Steps /\ ~(call[r].op = "delete" /\ "write" = "write")
      BY <2>1 DEF S!Steps
    <3>. QED BY <1>c, <1>e, <2>1, <2>3, <3>2, <3>3 DEF k
  <2>. QED BY <1>8, <2>2, <2>3 DEF S!LookForKey, S!FindCreds
<1>9. CASE S!CreateCreds(r)
  <2>1. S!Answer(r) /\ UNCHANGED <<integration, bots, session, found, made, marks, settings>>
    BY <1>9 DEF S!CreateCreds, S!Quiet
  <2>2. creds' \in [Creds -> CredRows]
    <3>1. [state |-> "live", of |-> call[r].of] \in CredRows
      BY <1>c DEF CredRows, CallRecords
    <3>. QED BY <1>9, <1>c, <3>1 DEF S!CreateCreds
  <2>. QED BY <1>c, <1>d, <2>1, <2>2
<1>10. CASE S!Fails(r)
  BY <1>10, <1>c, <1>d DEF S!Fails, S!Quiet, S!rows
<1>. QED BY <1>1, <1>2, <1>3, <1>4, <1>5, <1>6, <1>7, <1>8, <1>9, <1>10

-----------------------------------------------------------------------------
(* TriggersApart for two bots.                                              *)
Apart2(b, x) ==
  S!Live(b) /\ S!Live(x) /\ b # x /\ bots[b].of = bots[x].of /\ "met" \notin marks[b] \cup marks[x] =>
    /\ ~(/\ bots[b].form.enabled /\ bots[b].form.trigger = "all"
         /\ bots[x].form.enabled /\ bots[x].form.trigger = "all")
    /\ ~(bots[b].form.trigger = "word" /\ bots[x].form.trigger = "word")
    /\ integration.checked => bots[b].form.endpoint # bots[x].form.endpoint

(* It is TriggersApart for all of them.                                     *)
LEMMA PairsApart == S!TriggersApart <=> \A b, x \in Bots : Apart2(b, x)
BY DEF S!TriggersApart, Apart2, S!TakesAll, S!Others, S!Live

(* A request ends, and bots other than those of its instance only go.       *)
LEMMA BotsChange ==
  ASSUME Named, SettingsInv, NEW r \in Calls,
         call[r].of \in Instances,
         call' = [call EXCEPT ![r] = S!NoCall],
         UNCHANGED <<integration, session, found, made>>,
         bots' \in [Bots -> BotRows], creds' \in [Creds -> CredRows],
         settings' \in [Instances -> SettingRows],
         marks' \in [Bots -> SUBSET {"met", "cascade", "late"}],
         \A b \in Bots : bots[b].state # "unused" =>
           bots'[b].state # "unused" /\ bots'[b].of = bots[b].of,
         \A b \in Bots : bots'[b].state = "live" /\ bots'[b].of # call[r].of =>
           bots[b].state = "live" /\ bots'[b].form = bots[b].form /\ bots'[b].of = bots[b].of,
         \A b \in Bots : Doomed(b)' => Doomed(b) \/ Excepted(b)',
         \A b \in Bots : Excepted(b) => Excepted(b)',
         S!TriggersApart'
  PROVE  SettingsInv'
<1>. USE NoCallTyped
<1>1. /\ call' \in [Calls -> CallRecords]
      /\ \A q \in Calls : call'[q] = IF q = r THEN S!NoCall ELSE call[q]
      /\ Met2'
  BY OthersKept
<1>2. S!TypeOK'
  <2>1. (/\ integration \in S!Integrations
         /\ bots \in [Bots -> BotRows]
         /\ creds \in [Creds -> CredRows]
         /\ settings \in [Instances -> SettingRows]
         /\ session \in [Instances -> [Contacts -> Bots \cup {None}]]
         /\ found \in [Instances -> [Contacts -> Bots \cup {None}]]
         /\ call \in [Calls -> CallRecords]
         /\ made \in 0..MaxRequests
         /\ marks \in [Bots -> SUBSET {"met", "cascade", "late"}])'
    BY <1>1, Types DEF SettingsInv
  <2>. QED BY <2>1, Types, PTL
<1>3. RequestsOK'
  <2>1. ASSUME NEW q \in Calls, q # r PROVE (Owns(call[q]) /\ StillSo(call[q]))'
    <3>1. call'[q] = call[q] /\ Owns(call[q]) /\ StillSo(call[q]) /\ integration' = integration
      BY <1>1, <2>1 DEF SettingsInv, RequestsOK
    <3>2. Owns(call[q])'
      BY <3>1 DEF Owns
    <3>3. CASE call[q].met
      BY <3>1, <3>2, <3>3 DEF StillSo
    <3>4. CASE call[q].op \notin {"create", "update"}
      BY <3>1, <3>2, <3>4 DEF StillSo
    <3>5. CASE ~call[q].met /\ call[q].op \in {"create", "update"}
      <4>1. call[q].of \in Instances
        BY <3>1, <3>5 DEF Owns
      <4>2. call[q].of # call[r].of
        BY <2>1, <3>5, <4>1 DEF Met2, SettingsInv, Named
      <4>3. ASSUME NEW b \in Bots, S!Live(b)', bots'[b].of = call[q].of
            PROVE  S!Live(b) /\ bots[b].of = call[q].of /\ bots'[b].form = bots[b].form
        BY <4>2, <4>3 DEF S!Live
      <4>4. EndpointFree(call[q]) => EndpointFree(call[q])'
        BY <3>1, <4>3 DEF EndpointFree, S!SameEndpoint, S!Others
      <4>5. AllFree(call[q]) => AllFree(call[q])'
        BY <3>1, <4>3 DEF AllFree, S!TakesAll, S!Others
      <4>6. WordFree(call[q]) => WordFree(call[q])'
        BY <3>1, <4>3 DEF WordFree, S!SameWord, S!Others
      <4>7. StillSo(call[q])'
        BY <3>1, <4>4, <4>5, <4>6 DEF StillSo
      <4>. QED BY <3>2, <4>7
    <3>. QED BY <3>2, <3>3, <3>4, <3>5
  <2>2. (Owns(call[r]) /\ StillSo(call[r]))'
    BY <1>1 DEF Owns, StillSo
  <2>. QED BY <2>1, <2>2 DEF RequestsOK
<1>4. SessionsMarked'
  <2>1. ASSUME NEW i \in Instances, NEW c \in Contacts
        PROVE  session[i][c] \in Bots \cup {None}
    BY Types DEF SettingsInv
  <2>2. session' = session
    OBVIOUS
  <2>. QED BY <2>1, <2>2 DEF SettingsInv, SessionsMarked
<1>. QED BY <1>1, <1>2, <1>3, <1>4 DEF SettingsInv

(* Bots that only go leave the others apart.                                *)
LEMMA FewerApart ==
  ASSUME Named, S!TriggersApart, integration' = integration,
         \A b \in Bots : bots'[b].state = "live" =>
           bots[b].state = "live" /\ bots'[b].form = bots[b].form /\ bots'[b].of = bots[b].of,
         \A b \in Bots : "met" \in marks[b] => "met" \in marks'[b]
  PROVE  S!TriggersApart'
<1>1. \A b, x \in Bots : Apart2(b, x)
  BY PairsApart
<1>2. ASSUME NEW b \in Bots, NEW x \in Bots PROVE Apart2(b, x)'
  <2>1. Apart2(b, x)
    BY <1>1
  <2>. QED BY <2>1 DEF Apart2, S!Live
<1>3. (\A b, x \in Bots : Apart2(b, x))'
  BY <1>2
<1>. QED BY <1>3, PairsApart, PTL

(* A bot that was checked and has met nobody is apart from the others.      *)
LEMMA WriteKeeps ==
  ASSUME Named, SettingsInv, NEW r \in Calls, NEW b0 \in Bots, NEW row \in BotRows,
         call[r].op \in {"create", "update"}, call[r].pc = "write",
         call[r].bot \in {None, b0},
         row.state = "live", row.of = call[r].of, row.form = call[r].form,
         bots[b0].state = "unused" \/ bots[b0].of = call[r].of,
         bots' = [bots EXCEPT ![b0] = row],
         S!Met(r, b0), S!Answer(r),
         UNCHANGED <<integration, creds, settings, session, found, made>>
  PROVE  SettingsInv'
<1>. USE NoCallTyped
<1>1. /\ bots \in [Bots -> BotRows] /\ creds \in [Creds -> CredRows]
      /\ settings \in [Instances -> SettingRows]
      /\ marks \in [Bots -> SUBSET {"met", "cascade", "late"}]
  BY Types DEF SettingsInv
<1>2. /\ call[r].of \in Instances
      /\ ~call[r].met => /\ AllFree(call[r]) /\ WordFree(call[r])
                         /\ integration.checked => EndpointFree(call[r])
  BY DEF SettingsInv, RequestsOK, Owns, StillSo
<1>3. /\ bots' \in [Bots -> BotRows]
      /\ bots'[b0] = row
      /\ \A b \in Bots : b # b0 => bots'[b] = bots[b]
  BY <1>1
<1>4. /\ marks' \in [Bots -> SUBSET {"met", "cascade", "late"}]
      /\ call[r].met => "met" \in marks'[b0]
      /\ \A b \in Bots : b # b0 => marks'[b] = marks[b]
      /\ \A b \in Bots : Excepted(b) => Excepted(b)'
  BY <1>1 DEF S!Met, Excepted
<1>5. call' = [call EXCEPT ![r] = S!NoCall]
  BY DEF S!Answer
<1>6. S!TriggersApart'
  <2>1. \A b, x \in Bots : Apart2(b, x)
    BY PairsApart DEF SettingsInv
  <2>2. ASSUME NEW x \in Bots, x # b0, S!Live(x), bots[x].of = call[r].of, ~call[r].met
        PROVE  /\ ~(/\ row.form.enabled /\ row.form.trigger = "all"
                    /\ bots[x].form.enabled /\ bots[x].form.trigger = "all")
               /\ ~(row.form.trigger = "word" /\ bots[x].form.trigger = "word")
               /\ integration.checked => row.form.endpoint # bots[x].form.endpoint
    <3>1. x \in S!Others(call[r].of, call[r].bot)
      BY <2>2 DEF S!Others, S!Live
    <3>. QED BY <1>2, <2>2, <3>1 DEF AllFree, WordFree, EndpointFree, S!TakesAll,
                    S!SameWord, S!SameEndpoint
  <2>3. ASSUME NEW b \in Bots, NEW x \in Bots PROVE Apart2(b, x)'
    <3>1. CASE b # b0 /\ x # b0
      <4>1. Apart2(b, x)
        BY <2>1
      <4>. QED BY <1>3, <1>4, <3>1, <4>1 DEF Apart2, S!Live
    <3>2. CASE b = b0 /\ x # b0
      <4>1. bots'[b] = row /\ bots'[x] = bots[x] /\ integration' = integration
        BY <1>3, <3>2
      <4>2. SUFFICES ASSUME S!Live(x)', bots'[x].of = row.of, "met" \notin marks'[b0]
                     PROVE  Apart2(b, x)'
        BY <3>2, <4>1 DEF Apart2
      <4>3. S!Live(x) /\ bots[x].of = call[r].of /\ ~call[r].met
        BY <1>4, <4>1, <4>2 DEF S!Live
      <4>. QED BY <2>2, <3>2, <4>1, <4>3 DEF Apart2
    <3>3. CASE b # b0 /\ x = b0
      <4>1. bots'[x] = row /\ bots'[b] = bots[b] /\ integration' = integration
        BY <1>3, <3>3
      <4>2. SUFFICES ASSUME S!Live(b)', bots'[b].of = row.of, "met" \notin marks'[b0]
                     PROVE  Apart2(b, x)'
        BY <3>3, <4>1 DEF Apart2
      <4>3. S!Live(b) /\ bots[b].of = call[r].of /\ ~call[r].met
        BY <1>4, <4>1, <4>2 DEF S!Live
      <4>. QED BY <2>2, <3>3, <4>1, <4>3 DEF Apart2
    <3>4. CASE b = x
      BY <3>4 DEF Apart2
    <3>. QED BY <3>1, <3>2, <3>3, <3>4
  <2>4. (\A b, x \in Bots : Apart2(b, x))'
    BY <2>3
  <2>. QED BY <2>4, PairsApart, PTL
<1>7. \A b \in Bots : Doomed(b)' => Doomed(b) \/ Excepted(b)'
  <2>1. \A q \in Calls : call'[q] = IF q = r THEN S!NoCall ELSE call[q]
    BY <1>5, Types DEF SettingsInv
  <2>2. ASSUME NEW b \in Bots, Doomed(b)' PROVE Doomed(b)
    <3>1. ~S!Live(b)' => ~S!Live(b)
      BY <1>3 DEF S!Live, Named
    <3>. QED BY <2>1, <2>2, <3>1 DEF Doomed, S!At
  <2>. QED BY <2>2
<1>8. \A b \in Bots : bots[b].state # "unused" =>
           bots'[b].state # "unused" /\ bots'[b].of = bots[b].of
  BY <1>3
<1>9. \A b \in Bots : bots'[b].state = "live" /\ bots'[b].of # call[r].of =>
           bots[b].state = "live" /\ bots'[b].form = bots[b].form /\ bots'[b].of = bots[b].of
  BY <1>3
<1>. QED BY <1>1, <1>2, <1>3, <1>4, <1>5, <1>6, <1>7, <1>8, <1>9, BotsChange

(* Bots are made, changed and deleted.                                      *)
LEMMA WritesKeep ==
  ASSUME Named, SettingsInv, NEW r \in Calls,
         S!CreateBot(r) \/ S!UpdateBot(r)
  PROVE  SettingsInv'
<1>. USE NoCallTyped
<1>1. /\ bots \in [Bots -> BotRows] /\ creds \in [Creds -> CredRows]
      /\ settings \in [Instances -> SettingRows]
      /\ call[r] \in CallRecords /\ Owns(call[r])
  BY Types DEF SettingsInv, RequestsOK
<1>2. ASSUME S!Answer(r), UNCHANGED <<integration, bots, creds, settings, session, found, made, marks>>
      PROVE  SettingsInv'
  <2>1. call' = [call EXCEPT ![r] = S!NoCall]
    BY <1>2 DEF S!Answer
  <2>2. Owns(S!NoCall) /\ StillSo(S!NoCall) /\ ~(S!NoCall.op = "delete" /\ S!NoCall.pc = "write")
    BY DEF Owns, StillSo
  <2>. QED BY <1>1, <1>2, <2>1, <2>2, BotsKept
<1>3. CASE S!CreateBot(r)
  <2>1. /\ call[r].op = "create" /\ call[r].pc = "write" /\ S!Answer(r)
        /\ UNCHANGED <<integration, creds, settings, session, found, made>>
    BY <1>3 DEF S!CreateBot, S!At, S!Quiet
  <2>2. CASE UNCHANGED <<bots, marks>>
    BY <1>2, <2>1, <2>2
  <2>3. CASE \E b \in Bots : /\ bots[b] = S!NoBot
            /\ bots' = [bots EXCEPT ![b] = [state |-> "live", of |-> call[r].of,
                                            form |-> call[r].form, creds |-> call[r].creds]]
            /\ S!Met(r, b)
    <3>1. PICK b \in Bots : /\ bots[b] = S!NoBot
            /\ bots' = [bots EXCEPT ![b] = [state |-> "live", of |-> call[r].of,
                                            form |-> call[r].form, creds |-> call[r].creds]]
            /\ S!Met(r, b)
      BY <2>3
    <3>. DEFINE row == [state |-> "live", of |-> call[r].of,
                                            form |-> call[r].form, creds |-> call[r].creds]
    <3>2. /\ row \in BotRows /\ row.state = "live" /\ row.of = call[r].of
          /\ row.form = call[r].form
      BY <1>1 DEF BotRows, CallRecords
    <3>3. bots' = [bots EXCEPT ![b] = row]
      BY <3>1
    <3>. HIDE DEF row
    <3>4. call[r].bot = None /\ bots[b].state = "unused"
      BY <1>1, <2>1, <3>1 DEF Owns
    <3>. QED BY <2>1, <3>1, <3>2, <3>3, <3>4, WriteKeeps
  <2>. QED BY <1>3, <2>2, <2>3 DEF S!CreateBot
<1>4. CASE S!UpdateBot(r)
  <2>1. /\ call[r].op = "update" /\ call[r].pc = "write" /\ S!Answer(r)
        /\ UNCHANGED <<integration, creds, settings, session, found, made>>
    BY <1>4 DEF S!UpdateBot, S!At, S!Quiet
  <2>2. CASE UNCHANGED <<bots, marks>>
    BY <1>2, <2>1, <2>2
  <2>3. CASE /\ S!Live(call[r].bot)
             /\ bots' = [bots EXCEPT ![call[r].bot].form = call[r].form,
                                     ![call[r].bot].creds = call[r].creds]
             /\ S!Met(r, call[r].bot)
    <3>. DEFINE b == call[r].bot
    <3>. DEFINE row == [bots[b] EXCEPT !.form = call[r].form, !.creds = call[r].creds]
    <3>1. b \in Bots /\ bots[b].of = call[r].of
      BY <1>1, <2>1 DEF Owns
    <3>2. /\ row \in BotRows /\ row.state = "live" /\ row.of = call[r].of
          /\ row.form = call[r].form
      <4>1. bots[b] \in BotRows /\ bots[b].state = "live"
        BY <1>1, <2>3, <3>1 DEF S!Live
      <4>. QED BY <1>1, <3>1, <4>1 DEF BotRows, CallRecords
    <3>3. bots' = [bots EXCEPT ![b] = row]
      BY <1>1, <2>3, <3>1 DEF BotRows
    <3>. HIDE DEF row
    <3>. QED BY <2>1, <2>3, <3>1, <3>2, <3>3, WriteKeeps
  <2>. QED BY <1>4, <2>2, <2>3 DEF S!UpdateBot
<1>. QED BY <1>3, <1>4

(* Bots go.                                                                 *)
LEMMA GoneTyped ==
  ASSUME Named, S!TypeOK, NEW s \in SUBSET Bots, S!Gone(s), S!Forget(s)
  PROVE  /\ bots' \in [Bots -> BotRows]
         /\ settings' \in [Instances -> SettingRows]
         /\ \A b \in Bots : /\ bots'[b].of = bots[b].of /\ bots'[b].form = bots[b].form
                            /\ bots'[b].state = IF b \in s THEN "gone" ELSE bots[b].state
<1>1. /\ \A b \in Bots : bots[b] \in BotRows
      /\ \A i \in Instances : settings[i] \in SettingRows
  BY Types
<1>2. \A b \in Bots : bots'[b] = IF b \in s THEN [bots[b] EXCEPT !.state = "gone"] ELSE bots[b]
  BY DEF S!Gone
<1>3. ASSUME NEW b \in Bots
      PROVE  /\ [bots[b] EXCEPT !.state = "gone"] \in BotRows
             /\ [bots[b] EXCEPT !.state = "gone"].of = bots[b].of
             /\ [bots[b] EXCEPT !.state = "gone"].form = bots[b].form
             /\ [bots[b] EXCEPT !.state = "gone"].state = "gone"
  BY <1>1 DEF BotRows
<1>4. ASSUME NEW i \in Instances PROVE [settings[i] EXCEPT !.fallback = None] \in SettingRows
  BY <1>1 DEF SettingRows
<1>5. settings' \in [Instances -> SettingRows]
  BY <1>1, <1>4 DEF S!Forget
<1>6. bots' \in [Bots -> BotRows]
  BY <1>1, <1>3 DEF S!Gone
<1>. QED BY <1>2, <1>3, <1>5, <1>6

(* A bot is deleted after its sessions, or with its credentials.            *)
LEMMA DeletesKeep ==
  ASSUME Named, SettingsInv, NEW r \in Calls,
         S!DeleteSessions(r) \/ S!DeleteBot(r) \/ S!DeleteCreds(r)
  PROVE  SettingsInv'
<1>. USE NoCallTyped
<1>1. /\ bots \in [Bots -> BotRows] /\ creds \in [Creds -> CredRows]
      /\ settings \in [Instances -> SettingRows]
      /\ marks \in [Bots -> SUBSET {"met", "cascade", "late"}]
      /\ call[r] \in CallRecords /\ Owns(call[r])
  BY Types DEF SettingsInv, RequestsOK
<1>2. ASSUME S!Answer(r), UNCHANGED <<integration, bots, creds, settings, session, found, made, marks>>
      PROVE  SettingsInv'
  <2>1. call' = [call EXCEPT ![r] = S!NoCall]
    BY <1>2 DEF S!Answer
  <2>2. Owns(S!NoCall) /\ StillSo(S!NoCall) /\ ~(S!NoCall.op = "delete" /\ S!NoCall.pc = "write")
    BY DEF Owns, StillSo
  <2>. QED BY <1>1, <1>2, <2>1, <2>2, BotsKept
<1>3. ASSUME S!Answer(r), call[r].of \in Instances, creds' \in [Creds -> CredRows],
             UNCHANGED <<integration, session, found, made>>,
             NEW s \in SUBSET Bots, S!Gone(s), S!Forget(s),
             marks' \in [Bots -> SUBSET {"met", "cascade", "late"}],
             \A b \in Bots : marks[b] \subseteq marks'[b],
             \A b \in s : S!Live(b) => Doomed(b) \/ Excepted(b)'
      PROVE  SettingsInv'
  <2>1. /\ bots' \in [Bots -> BotRows]
        /\ settings' \in [Instances -> SettingRows]
        /\ \A b \in Bots : /\ bots'[b].of = bots[b].of /\ bots'[b].form = bots[b].form
                           /\ bots'[b].state = IF b \in s THEN "gone" ELSE bots[b].state
    BY <1>3, GoneTyped DEF SettingsInv
  <2>2. call' = [call EXCEPT ![r] = S!NoCall]
    BY <1>3 DEF S!Answer
  <2>3. S!TriggersApart'
    BY <1>3, <2>1, FewerApart DEF SettingsInv
  <2>4. \A b \in Bots : Doomed(b)' => Doomed(b) \/ Excepted(b)'
    <3>1. \A q \in Calls : call'[q] = IF q = r THEN S!NoCall ELSE call[q]
      BY <2>2, Types DEF SettingsInv
    <3>2. ASSUME NEW b \in Bots, Doomed(b)', ~Excepted(b)' PROVE Doomed(b)
      <4>1. ~S!Live(b)' => ~S!Live(b) \/ b \in s
        BY <2>1 DEF S!Live, Named
      <4>2. CASE ~S!Live(b)'
        BY <1>3, <3>2, <4>1, <4>2 DEF Doomed
      <4>3. CASE S!Live(b)'
        BY <3>1, <3>2, <4>3 DEF Doomed, S!At
      <4>. QED BY <4>2, <4>3
    <3>. QED BY <3>2
  <2>5. \A b \in Bots : Excepted(b) => Excepted(b)'
    BY <1>3 DEF Excepted
  <2>. QED BY <1>3, <2>1, <2>2, <2>3, <2>4, <2>5, BotsChange
<1>4. CASE S!DeleteSessions(r)
  <2>1. /\ call[r].op = "delete" /\ call[r].pc = "sessions"
        /\ session' = [i \in Instances |-> [c \in Contacts |->
                   IF session[i][c] = call[r].bot THEN None ELSE session[i][c]]]
        /\ UNCHANGED <<integration, bots, creds, settings, found, made, marks>>
    BY <1>4 DEF S!DeleteSessions, S!At, S!rows
  <2>. DEFINE k == [call[r] EXCEPT !.pc = "write"]
  <2>2. k \in CallRecords /\ k.pc = "write" /\ Continues(k, call[r])
    BY GoesOn DEF S!Steps, SettingsInv
  <2>3. call' = [call EXCEPT ![r] = k]
    BY <1>4, GoesOn DEF S!DeleteSessions, S!Goto, S!Steps, SettingsInv
  <2>. HIDE DEF k
  <2>4. /\ call' \in [Calls -> CallRecords]
        /\ \A q \in Calls : call'[q] = IF q = r THEN k ELSE call[q]
        /\ Met2'
    BY <2>2, <2>3, OthersKept
  <2>5. session' \in [Instances -> [Contacts -> Bots \cup {None}]]
    BY <2>1, Types DEF SettingsInv
  <2>6. S!TypeOK'
    <3>1. (/\ integration \in S!Integrations
         /\ bots \in [Bots -> BotRows]
         /\ creds \in [Creds -> CredRows]
         /\ settings \in [Instances -> SettingRows]
         /\ session \in [Instances -> [Contacts -> Bots \cup {None}]]
         /\ found \in [Instances -> [Contacts -> Bots \cup {None}]]
         /\ call \in [Calls -> CallRecords]
         /\ made \in 0..MaxRequests
         /\ marks \in [Bots -> SUBSET {"met", "cascade", "late"}])'
      BY <2>1, <2>4, <2>5, Types DEF SettingsInv
    <3>. QED BY <3>1, Types, PTL
  <2>7. RequestsOK'
    <3>1. \A q \in Calls : Owns(call[q]) /\ StillSo(call[q])
      BY DEF SettingsInv, RequestsOK
    <3>2. Owns(k) /\ StillSo(k)
      BY <1>1, <2>1, <2>2 DEF Continues, Owns, StillSo
    <3>3. ASSUME NEW q \in Calls PROVE (Owns(call[q]) /\ StillSo(call[q]))'
      <4>1. Owns(call'[q]) /\ StillSo(call'[q]) /\ bots' = bots /\ integration' = integration
        BY <2>1, <2>4, <3>1, <3>2
      <4>. QED BY <4>1 DEF Owns, StillSo, EndpointFree, AllFree, WordFree,
                      S!SameEndpoint, S!TakesAll, S!SameWord, S!Others, S!Live
    <3>. QED BY <3>3 DEF RequestsOK
  <2>8. SessionsMarked'
    <3>1. ASSUME NEW b, b # call[r].bot, Doomed(b)' PROVE Doomed(b)
      BY <2>1, <2>2, <2>4, <3>1 DEF Doomed, S!Live, S!At, Continues
    <3>2. ASSUME NEW i \in Instances, NEW c \in Contacts, session'[i][c] # None
          PROVE  session'[i][c] = session[i][c] /\ session[i][c] # call[r].bot
      BY <2>1, <3>2
    <3>3. marks' = marks
      BY <2>1
    <3>. QED BY <3>1, <3>2, <3>3 DEF SettingsInv, SessionsMarked, Excepted
  <2>9. S!TriggersApart'
    BY <2>1 DEF SettingsInv, S!TriggersApart, S!TakesAll, S!Others, S!Live
  <2>. QED BY <2>4, <2>6, <2>7, <2>8, <2>9 DEF SettingsInv
<1>5. CASE S!DeleteBot(r)
  <2>1. /\ call[r].op = "delete" /\ call[r].pc = "write" /\ S!Answer(r)
        /\ UNCHANGED <<integration, creds, session, found, made, marks>>
    BY <1>5 DEF S!DeleteBot, S!At, S!Quiet
  <2>2. CASE UNCHANGED <<bots, settings>>
    BY <1>2, <2>1, <2>2
  <2>3. CASE S!Gone({call[r].bot}) /\ S!Forget({call[r].bot})
    <3>1. call[r].bot \in Bots /\ call[r].of \in Instances
      BY <1>1, <2>1 DEF Owns
    <3>2. Doomed(call[r].bot)
      BY <2>1 DEF Doomed, S!At
    <3>3. {call[r].bot} \in SUBSET Bots
      BY <3>1
    <3>. QED BY <1>1, <1>3, <2>1, <2>3, <3>1, <3>2, <3>3
  <2>. QED BY <1>5, <2>2, <2>3 DEF S!DeleteBot
<1>6. CASE S!DeleteCreds(r)
  <2>. DEFINE k == call[r].creds
  <2>. DEFINE s == {b \in Bots : S!Live(b) /\ bots[b].creds = k}
  <2>1. /\ call[r].op = "delete_creds" /\ S!Answer(r)
        /\ UNCHANGED <<integration, session, found, made>>
    BY <1>6 DEF S!DeleteCreds, S!At, S!Quiet
  <2>2. CASE UNCHANGED <<bots, creds, settings, marks>>
    BY <1>2, <2>1, <2>2
  <2>3. CASE /\ creds' = [creds EXCEPT ![k].state = "gone"]
             /\ S!Gone(s)
             /\ S!Forget(s)
             /\ marks' = [b \in Bots |-> IF b \in s THEN marks[b] \cup {"cascade"} ELSE marks[b]]
    <3>1. creds' \in [Creds -> CredRows]
      BY ZenonT(40), <1>1, <2>3 DEF CredRows
    <3>2. marks' \in [Bots -> SUBSET {"met", "cascade", "late"}]
      BY <1>1, <2>3
    <3>3. \A b \in Bots : marks[b] \subseteq marks'[b]
      BY <2>3
    <3>4. \A b \in s : Excepted(b)'
      BY <2>3 DEF Excepted
    <3>5. call[r].of \in Instances
      BY <1>1, <2>1 DEF Owns
    <3>6. s \in SUBSET Bots
      OBVIOUS
    <3>. HIDE DEF s
    <3>. QED BY <1>3, <2>1, <2>3, <3>1, <3>2, <3>3, <3>4, <3>5, <3>6
  <2>. QED BY <1>6, <2>2, <2>3 DEF S!DeleteCreds, S!rows
<1>. QED BY <1>4, <1>5, <1>6

(* Messages find bots and begin sessions.                                   *)
LEMMA MessagesKeep ==
  ASSUME Named, SettingsInv, NEW i \in Instances, NEW c \in Contacts,
         S!Emit(i, c) \/ S!CreateNewSession(i, c)
  PROVE  SettingsInv'
<1>1. /\ session \in [Instances -> [Contacts -> Bots \cup {None}]]
      /\ found \in [Instances -> [Contacts -> Bots \cup {None}]]
      /\ marks \in [Bots -> SUBSET {"met", "cascade", "late"}]
      /\ settings \in [Instances -> SettingRows]
  BY Types DEF SettingsInv
<1>2. UNCHANGED <<integration, bots, creds, settings, call, made>>
  BY DEF S!Emit, S!CreateNewSession, S!rows
<1>3. /\ session' \in [Instances -> [Contacts -> Bots \cup {None}]]
      /\ found' \in [Instances -> [Contacts -> Bots \cup {None}]]
      /\ marks' \in [Bots -> SUBSET {"met", "cascade", "late"}]
      /\ \A b \in Bots : marks[b] \subseteq marks'[b]
      /\ \A b \in Bots : "met" \in marks'[b] => "met" \in marks[b]
  <2>1. CASE S!Emit(i, c)
    <3>1. S!FindBotTrigger(i, c) \subseteq Bots
      BY DEF S!FindBotTrigger, S!FindBotByTrigger, S!Others
    <3>2. S!Fallback(i) \subseteq Bots
      BY <1>1 DEF S!Fallback, SettingRows
    <3>3. PICK b \in Bots : found' = [found EXCEPT ![i][c] = b]
      BY <2>1, <3>1, <3>2 DEF S!Emit
    <3>. QED BY <1>1, <2>1, <3>3 DEF S!Emit
  <2>2. CASE S!CreateNewSession(i, c)
    <3>1. found[i][c] \in Bots
      BY <1>1, <2>2 DEF S!CreateNewSession
    <3>2. found' \in [Instances -> [Contacts -> Bots \cup {None}]]
      BY <1>1, <2>2 DEF S!CreateNewSession
    <3>3. session' \in [Instances -> [Contacts -> Bots \cup {None}]]
      <4>1. session' = session \/ session' = [session EXCEPT ![i][c] = found[i][c]]
        BY <2>2 DEF S!CreateNewSession
      <4>2. CASE session' = session
        BY <1>1, <4>2
      <4>3. CASE session' = [session EXCEPT ![i][c] = found[i][c]]
        <5>1. [session[i] EXCEPT ![c] = found[i][c]] \in [Contacts -> Bots \cup {None}]
          BY <1>1, <3>1
        <5>2. session' = [session EXCEPT ![i] = [session[i] EXCEPT ![c] = found[i][c]]]
          BY <1>1, <4>3
        <5>. QED BY <1>1, <5>1, <5>2
      <4>. QED BY <4>1, <4>2, <4>3
    <3>. DEFINE b == found[i][c]
    <3>4. marks' = marks \/ marks' = [marks EXCEPT ![b] = @ \cup {"late"}]
      BY <2>2 DEF S!CreateNewSession
    <3>5. b \in Bots
      BY <3>1
    <3>. HIDE DEF b
    <3>6. /\ marks' \in [Bots -> SUBSET {"met", "cascade", "late"}]
          /\ \A x \in Bots : marks[x] \subseteq marks'[x]
          /\ \A x \in Bots : "met" \in marks'[x] => "met" \in marks[x]
      <4>1. \A x \in Bots : marks[x] \in SUBSET {"met", "cascade", "late"}
        BY <1>1
      <4>2. \A x \in Bots : marks'[x] = marks[x] \/ marks'[x] = marks[x] \cup {"late"}
        BY <1>1, <3>4, <3>5
      <4>3. marks' \in [Bots -> SUBSET {"met", "cascade", "late"}]
        BY <1>1, <3>4, <3>5
      <4>4. "met" # "late"
        OBVIOUS
      <4>. QED BY <4>1, <4>2, <4>3, <4>4
    <3>. QED BY <3>2, <3>3, <3>6
  <2>. QED BY <2>1, <2>2
<1>4. S!TypeOK'
  <2>1. (/\ integration \in S!Integrations
         /\ bots \in [Bots -> BotRows]
         /\ creds \in [Creds -> CredRows]
         /\ settings \in [Instances -> SettingRows]
         /\ session \in [Instances -> [Contacts -> Bots \cup {None}]]
         /\ found \in [Instances -> [Contacts -> Bots \cup {None}]]
         /\ call \in [Calls -> CallRecords]
         /\ made \in 0..MaxRequests
         /\ marks \in [Bots -> SUBSET {"met", "cascade", "late"}])'
    BY <1>2, <1>3, Types DEF SettingsInv
  <2>. QED BY <2>1, Types, PTL
<1>5. RequestsOK' /\ Met2'
  BY <1>2 DEF SettingsInv, RequestsOK, Met2, Owns, StillSo, EndpointFree, AllFree,
         WordFree,
    S!SameEndpoint, S!TakesAll, S!SameWord, S!Others, S!Live
<1>6. S!TriggersApart'
  <2>1. \A b \in Bots : "met" \in marks[b] => "met" \in marks'[b]
    BY <1>3
  <2>. QED BY <1>2, <2>1, FewerApart DEF SettingsInv
<1>7. SessionsMarked'
  <2>1. ASSUME NEW b, Doomed(b)' PROVE Doomed(b)
    BY <1>2, <2>1 DEF Doomed, S!Live, S!At
  <2>2. \A j \in Instances, d \in Contacts : session[j][d] \in Bots \cup {None}
    BY <1>1
  <2>3. ASSUME NEW j \in Instances, NEW d \in Contacts, NEW b, b = session'[j][d], b # None,
               Doomed(b)', ~Excepted(b)'
        PROVE  FALSE
    <3>1. b \in Bots /\ Doomed(b)
      BY <1>3, <2>1, <2>3
    <3>2. CASE session[j][d] = b
      BY <1>3, <2>3, <3>1, <3>2 DEF SettingsInv, SessionsMarked, Excepted
    <3>3. CASE session[j][d] # b
      <4>1. S!CreateNewSession(i, c) /\ session' = [session EXCEPT ![i][c] = found[i][c]]
            /\ marks' = IF ~S!Live(found[i][c]) \/ \E r \in Calls : call[r].bot = found[i][c] /\ S!At(r, {"delete"}, "write")
                      THEN [marks EXCEPT ![found[i][c]] = @ \cup {"late"}] ELSE marks
        <5>1. session' # session
          BY <2>3, <3>3
        <5>. QED BY <5>1 DEF S!Emit, S!CreateNewSession
      <4>2. b = found[i][c]
        BY <1>1, <2>3, <3>3, <4>1
      <4>3. marks' = [marks EXCEPT ![b] = @ \cup {"late"}]
        BY <3>1, <4>1, <4>2 DEF Doomed
      <4>4. "late" \in marks'[b]
        BY <1>1, <3>1, <4>3
      <4>. QED BY <2>3, <4>4 DEF Excepted
    <3>. QED BY <3>2, <3>3
  <2>4. \A j \in Instances, d \in Contacts : \A b :
          b = session'[j][d] /\ b # None /\ Doomed(b)' => Excepted(b)'
    BY <2>3
  <2>. QED BY <2>4 DEF SessionsMarked
<1>. QED BY <1>4, <1>5, <1>6, <1>7 DEF SettingsInv

(* Every step of the requests and of the messages.                          *)
LEMMA SettingsStep == ASSUME Named, SettingsInv, [S!Next]_S!vars PROVE SettingsInv'
<1>1. CASE UNCHANGED S!vars
  <2>1. UNCHANGED <<integration, bots, creds, settings, session, found, call, made, marks>>
    BY <1>1 DEF S!vars, S!rows
  <2>. QED BY <2>1 DEF SettingsInv, S!TypeOK, RequestsOK, Met2, SessionsMarked,
                  S!TriggersApart,
         Owns, StillSo, EndpointFree, AllFree, WordFree, Doomed, Excepted,
         S!SameEndpoint, S!TakesAll, S!SameWord, S!Others, S!Live, S!At
<1>2. CASE S!Next
  BY <1>2, LooksKeep, AskKeeps, WritesKeep, DeletesKeep, MessagesKeep DEF S!Next
<1>. QED BY <1>1, <1>2

(* What is left of a session without its bot.                               *)
LEMMA SettingsEntails == ASSUME SettingsInv PROVE S!SessionsHaveBots
BY DEF SettingsInv, SessionsMarked, Doomed, Excepted, S!SessionsHaveBots,
       S!FindBotTrigger

-----------------------------------------------------------------------------
(* What the requests have seen, and what holds of the bots, is kept by      *)
(* every step.                                                              *)
LEMMA SettingsInvariant == MCSpec => []SettingsInv
PROOF
  <1>0. Named
    BY IntegrationsAssumption DEF Named
  <1>1. MCInit => SettingsInv
    BY <1>0, SettingsInit DEF MCInit
  <1>2. SettingsInv /\ [MCNext]_<<scene, vars, svars, pvars>> => SettingsInv'
    <2>1. [MCNext]_<<scene, vars, svars, pvars>> => [S!Next]_S!vars
      BY DEF MCNext, svars, S!vars, S!rows
    <2>. QED BY <1>0, <2>1, SettingsStep
  <1>. QED BY <1>1, <1>2, PTL DEF MCSpec

(* In the order the awaited looks and writes of any number of requests may  *)
(* come, two bots of an instance take the same messages only if their       *)
(* requests met, or the code lets them: for any forms of bots.              *)
THEOREM BotsTakeApart == MCSpec => []TriggersApart
PROOF
  <1>1. SettingsInv => TriggersApart
    BY DEF SettingsInv, TriggersApart
  <1>. QED BY <1>1, SettingsInvariant, PTL

(* A session has a bot that is there, unless the bot went with a cascade or *)
(* the message found it before it went, whatever requests come between.     *)
THEOREM NoSessionWithoutBot == MCSpec => []SessionsHaveBots
PROOF
  <1>1. SettingsInv => SessionsHaveBots
    BY SettingsEntails DEF SessionsHaveBots
  <1>. QED BY <1>1, SettingsInvariant, PTL

-----------------------------------------------------------------------------
(* What a call on a message may still do: bring it to Chatwoot, send it to  *)
(* WhatsApp, or write its ids.                                              *)
Bridging == {"cache", "wait", "lock", "contact", "list", "create", "unlock", "post"}
Working == Bridging \cup {"store", "agent", "link"}
Searching == {"contact", "list", "create"}

On(m, pcs) == \E c \in Calls : calls[c].msg = m /\ calls[c].pc \in pcs
Reported(m) == [event |-> "created", msg |-> m] \in webhooks
DeleteReported(m) == [event |-> "deleted", msg |-> m] \in webhooks
InImport(m) == m \in history \/ \E c \in Calls : m \in importing[c]

(* Unless two calls were in the section at once, one at most looks for a    *)
(* conversation, which there is not when it makes one, and one at most is   *)
(* one that would be taken.                                                 *)
OneSearches == \A c, d \in Calls :
  calls[c].pc \in Searching /\ calls[d].pc \in Searching => c = d
NoneToTake == \A c \in Calls : calls[c].pc = "create" => \A k \in DOMAIN conversations : ~Suitable(k)
OneToTake == \A j, k \in DOMAIN conversations : Suitable(j) /\ Suitable(k) => j = k

Sectioned == upset \cap {"section", "import"} = {} => OneSearches /\ NoneToTake /\ OneToTake

CallsNamed == \A c \in Calls : calls[c].msg = None <=> calls[c].pc \in {"idle", "import"}

(* A message has one call at most that brings it anywhere, of its origin's  *)
(* kind, and none while Chatwoot has yet to report it.                      *)
OneWorks(m) == \A c, d \in Calls :
  /\ calls[c].msg = m /\ calls[c].pc \in Working
  /\ calls[d].msg = m /\ calls[d].pc \in Working
  => c = d
Unborn(m) ==
  messages[m].origin = None =>
    ~On(m, Pcs) /\ ~Reported(m) /\ ~DeleteReported(m) /\ ~InImport(m) /\ messages[m] = Unseen
InItsWay(m) ==
  /\ messages[m].origin = "agent" => ~On(m, Bridging \cup {"store"})
  /\ messages[m].origin = "template" => ~On(m, {"link"})
  /\ Bridged(m) => ~On(m, {"agent", "link"})
  /\ messages[m].origin \in {"agent", "template"} /\ Reported(m) => ~On(m, Working)
  /\ On(m, {"del_row", "del_chatwoot"}) =>
       messages[m].whatsapp = "deleted" /\ messages[m].row # "unsaved"
  /\ DeleteReported(m) => messages[m].gone
  /\ Awaited(m) /\ On(m, Working) => messages[m].row = "unsaved"
  /\ messages[m].row # "gone"

(* What was sent to WhatsApp.                                               *)
SentOnce(m) ==
  /\ messages[m].origin \in {"contact", "phone"} => messages[m].sends = 0
  /\ messages[m].origin = "api" => messages[m].sends = 1
  /\ messages[m].origin \in {"agent", "template"} =>
       /\ messages[m].sends <= 1
       /\ Reported(m) \/ On(m, {"agent"}) => messages[m].sends = 0
       /\ messages[m].sends = 0 => /\ messages[m].row = "unsaved"
                                  /\ messages[m].whatsapp = "none"
                                  /\ ~On(m, Pcs \ {"agent"})
       /\ ~messages[m].spoilt /\ messages[m].sends = 0 => Reported(m) \/ On(m, {"agent"})
       /\ messages[m].sends = 1 => messages[m].whatsapp # "none"
  /\ Bridged(m) => messages[m].whatsapp # "none"

(* What is shown in Chatwoot of a message no request for which failed.      *)
ShownOnce(m) ==
  ~messages[m].spoilt =>
    /\ Bridged(m) /\ On(m, Bridging) => messages[m].shown = 0
    /\ Bridged(m) /\ ~On(m, Bridging) => messages[m].shown = 1
    /\ messages[m].origin = "agent" => messages[m].shown = 1
    /\ messages[m].origin = "template" =>
         messages[m].shown = IF messages[m].sends = 0 \/ On(m, Bridging) THEN 1 ELSE 2
    /\ messages[m].origin = "agent" /\ messages[m].row = "plain" => On(m, {"link"})
    /\ ~InImport(m)
NoConversation(m) == \A c \in Calls :
  calls[c].msg = m /\ calls[c].pc \in {"unlock", "store"} /\ calls[c].conv = 0 => messages[m].spoilt

(* What is left to do of a deletion, or will be found when the ids are      *)
(* known.                                                                   *)
WillLink(m) ==
  \/ messages[m].origin = "agent" /\ (Reported(m) \/ On(m, {"agent"}))
  \/ On(m, {"link"})
  \/ Awaited(m) /\ On(m, Working)
DeletionsGoOn(m) ==
  ~messages[m].spoilt =>
    /\ messages[m].row \in {"unsaved", "plain"} /\ WillLink(m) =>
         messages[m].whatsapp # "deleted" /\ (messages[m].gone => DeleteReported(m))
    /\ messages[m].row = "linked" =>
         /\ messages[m].whatsapp = "deleted" => On(m, {"del_row"})
         /\ messages[m].gone => DeleteReported(m)
    /\ messages[m].row = "removed" =>
         /\ messages[m].whatsapp = "deleted"
         /\ messages[m].gone \/ On(m, {"del_row", "del_chatwoot"})

Fine(m) == OneWorks(m) /\ Unborn(m) /\ InItsWay(m) /\ SentOnce(m) /\ ShownOnce(m)
           /\ NoConversation(m)

Told == upset \cap {"crossing", "import", "recreated"} = {} => \A m \in Messages : Fine(m)
Erased == upset \cap {"early", "crossing", "import", "recreated"} = {} =>
            \A m \in Messages : DeletionsGoOn(m)

(* What the variables are.                                                  *)
Rows == {"unsaved", "plain", "linked", "removed", "gone"}
MessageRecords ==
  [origin : Origins \cup {None}, addr : Addresses, whatsapp : {"none", "there", "deleted"},
   sends : Nat, shown : Nat, gone : BOOLEAN,
   row : Rows, spoilt : BOOLEAN]
BridgeCalls == [pc : Pcs, msg : Messages \cup {None}, conv : 0..Len(conversations)]
WebhookRecords == [event : {"created", "deleted"}, msg : Messages]
                  \cup {[event |-> "resolved", msg |-> None]}
States == {"open", "pending", "resolved", "deleted"}

MessagesOK == messages \in [Messages -> MessageRecords]
ConversationsOK == conversations \in Seq(States) /\ Len(conversations) <= MaxConversations
CacheOK == cache \in [Addresses -> 0..Len(conversations)]
LockOK == lock \in [Addresses -> BOOLEAN]
CallsOK == calls \in [Calls -> BridgeCalls] /\ CallsNamed
WebhooksOK == webhooks \subseteq WebhookRecords
HistoryOK == history \subseteq Messages
ImportingOK == importing \in [Calls -> SUBSET Messages]
ProviderOK == provider \in [reopen : BOOLEAN, pending : BOOLEAN]
DisturbancesOK == disturbances \in 0..MaxDisturbances
UpsetOK == upset \subseteq {"section", "crossing", "early", "import", "recreated"}

BridgeTypes == /\ MessagesOK /\ ConversationsOK /\ CacheOK /\ LockOK
               /\ CallsOK /\ WebhooksOK /\ HistoryOK /\ ImportingOK
               /\ ProviderOK /\ DisturbancesOK /\ UpsetOK

BridgeInv == BridgeTypes /\ Sectioned /\ Told /\ Erased

(* What the actions write to a message is one.                              *)
LEMMA RecordUpdates ==
  \A x \in MessageRecords :
    /\ [x EXCEPT !.spoilt = TRUE] \in MessageRecords
    /\ [x EXCEPT !.gone = TRUE] \in MessageRecords
    /\ \A n \in Nat : [x EXCEPT !.shown = n] \in MessageRecords
    /\ \A o \in Origins, a \in Addresses :
         [x EXCEPT !.origin = o, !.addr = a, !.whatsapp = "there"] \in MessageRecords
    /\ [x EXCEPT !.origin = "api", !.whatsapp = "there", !.sends = 1] \in MessageRecords
    /\ \A o \in Origins : [x EXCEPT !.origin = o, !.shown = 1] \in MessageRecords
    /\ \A n \in Nat, r \in Rows :
         [x EXCEPT !.whatsapp = "there", !.sends = n, !.row = r] \in MessageRecords
    /\ [x EXCEPT !.whatsapp = "deleted", !.row = "removed"] \in MessageRecords
    /\ x.row \in Rows /\ x.sends \in Nat /\ x.shown \in Nat
PROOF
  <1>1. "api" \in Origins
    BY DEF Origins
  <1>2. ASSUME NEW x \in MessageRecords
        PROVE  /\ [x EXCEPT !.spoilt = TRUE] \in MessageRecords
               /\ [x EXCEPT !.gone = TRUE] \in MessageRecords
               /\ [x EXCEPT !.origin = "api", !.whatsapp = "there", !.sends = 1] \in MessageRecords
               /\ [x EXCEPT !.whatsapp = "deleted", !.row = "removed"] \in MessageRecords
               /\ x.row \in Rows /\ x.sends \in Nat /\ x.shown \in Nat
    BY <1>1, <1>2 DEF MessageRecords, Rows
  <1>3. ASSUME NEW x \in MessageRecords, NEW n \in Nat, NEW o \in Origins, NEW a \in Addresses, NEW r \in Rows
        PROVE  /\ [x EXCEPT !.shown = n] \in MessageRecords
               /\ [x EXCEPT !.origin = o, !.addr = a, !.whatsapp = "there"] \in MessageRecords
               /\ [x EXCEPT !.origin = o, !.shown = 1] \in MessageRecords
               /\ [x EXCEPT !.whatsapp = "there", !.sends = n, !.row = r] \in MessageRecords
    BY <1>3 DEF MessageRecords, Rows
  <1>4. Nat # {} /\ Origins # {} /\ Addresses # {} /\ Rows # {}
    BY DEF Origins, Addresses, Rows
  <1>. QED BY <1>2, <1>3, <1>4

(* As is what a restart writes.                                             *)
LEMMA RestartUpdate ==
  ASSUME NEW x \in MessageRecords, NEW p, NEW q
  PROVE  [x EXCEPT !.spoilt = @ \/ p, !.row = IF q THEN "removed" ELSE @] \in MessageRecords
PROOF
  BY DEF MessageRecords, Rows

(* A message written to leaves the messages typed.                          *)
LEMMA MessagePut ==
  ASSUME MessagesOK, NEW m \in Messages, NEW x \in MessageRecords,
         messages' = [messages EXCEPT ![m] = x]
  PROVE  MessagesOK'
PROOF
  BY DEF MessagesOK

(* So does a request that fails.                                            *)
LEMMA SpoilTyped ==
  ASSUME MessagesOK, NEW m \in Messages, Spoil(m)
  PROVE  MessagesOK'
PROOF
  <1>1. messages[m] \in MessageRecords
    BY DEF MessagesOK
  <1>2. messages' = [messages EXCEPT ![m] = [messages[m] EXCEPT !.spoilt = TRUE]]
    BY DEF Spoil, MessagesOK
  <1>3. [messages[m] EXCEPT !.spoilt = TRUE] \in MessageRecords
    BY <1>1 DEF MessageRecords
  <1>. QED BY <1>2, <1>3, MessagePut

(* A call that begins is one, on its message.                               *)
LEMMA BeginTyped ==
  ASSUME CallsOK, NEW c \in Calls, NEW m \in Messages, NEW l \in Pcs \ {"idle", "import"},
         Begin(c, l, m), conversations' = conversations
  PROVE  CallsOK'
PROOF
  <1> DEFINE r == [Idle EXCEPT !.pc = l, !.msg = m]
  <1>1. r \in [pc : Pcs, msg : Messages \cup {None}, conv : {0}]
    BY DEF Idle, Pcs
  <1>2. r.pc = l /\ r.msg = m
    BY DEF Idle
  <1>3. calls' = [calls EXCEPT ![c] = r]
    BY DEF Begin
  <1>4. None \notin Messages /\ r.msg # None
    BY <1>2, BridgeAssumption
  <1> HIDE DEF r
  <1>5. BridgeCalls' = BridgeCalls
    BY DEF BridgeCalls
  <1>6. \A d \in Calls : calls'[d] = IF d = c THEN r ELSE calls[d]
    BY <1>3 DEF CallsOK
  <1>7. r \in BridgeCalls
    BY <1>1 DEF BridgeCalls, CallsOK
  <1>. QED BY <1>2, <1>3, <1>4, <1>5, <1>6, <1>7 DEF CallsOK, CallsNamed

(* Every step leaves the state typed.                                       *)
LEMMA BridgeTypesStep ==
  ASSUME BridgeTypes, Next
  PROVE  BridgeTypes'
PROOF
  <1>a. None \notin Messages /\ MaxConversations \in Nat /\ MaxDisturbances \in Nat
    BY BridgeAssumption
  <1>t. /\ MessagesOK /\ ConversationsOK /\ CacheOK /\ LockOK /\ CallsOK /\ WebhooksOK
        /\ HistoryOK /\ ImportingOK /\ ProviderOK /\ DisturbancesOK /\ UpsetOK
    BY DEF BridgeTypes
  <1>s. /\ conversations \in Seq(States) /\ Len(conversations) \in Nat
        /\ DOMAIN conversations = 1..Len(conversations)
    BY <1>t, LenProperties DEF ConversationsOK
  <1>n. Len(conversations) \in Nat /\ DOMAIN conversations = 1..Len(conversations)
    BY <1>s
  <1>messages. MessagesOK BY <1>t
  <1>conversations. ConversationsOK BY <1>t
  <1>cache. CacheOK BY <1>t
  <1>lock. LockOK BY <1>t
  <1>calls. CallsOK BY <1>t
  <1>webhooks. WebhooksOK BY <1>t
  <1>history. HistoryOK BY <1>t
  <1>importing. ImportingOK BY <1>t
  <1>provider. ProviderOK BY <1>t
  <1>disturbances. DisturbancesOK BY <1>t
  <1>upset. UpsetOK BY <1>t
  <1>1. ASSUME NEW c \in Calls, LookUp(c) PROVE BridgeTypes'
    <2>0. /\ Msg(c) \in Messages /\ Msg(c) # None /\ messages[Msg(c)] \in MessageRecords
          /\ calls[c] \in BridgeCalls /\ Addr(c) \in Addresses
      BY <1>a, <1>calls, <1>messages, <1>1 DEF CallsOK, CallsNamed, BridgeCalls,
             MessagesOK, MessageRecords, Msg, Addr, LookUp
    <2>1. CacheOK'
      BY <1>cache, <1>n, <1>1, <2>0, SMTT(60) DEF CacheOK, Addresses, LookUp, Live
    <2>2. CallsOK'
      BY <1>calls, <1>a, <1>n, <1>cache, <1>1, <2>0, SMTT(60) DEF CallsOK, BridgeCalls,
             Pcs, CallsNamed, LookUp, Live, Goto, With, Msg
    <2>3. DisturbancesOK'
      BY <1>disturbances, <1>a, <1>1, <2>0, SMTT(60) DEF DisturbancesOK, LookUp, Disturb
    <2>4. MessagesOK' /\ ConversationsOK' /\ LockOK' /\ WebhooksOK' /\ HistoryOK'
          /\ ImportingOK' /\ ProviderOK' /\ UpsetOK'
      BY <1>t, <1>1 DEF LookUp, MessagesOK, ConversationsOK, LockOK, WebhooksOK,
             HistoryOK, ImportingOK, ProviderOK, UpsetOK
    <2>. QED BY <2>1, <2>2, <2>3, <2>4 DEF BridgeTypes
  <1>2. ASSUME NEW c \in Calls, Wait(c) PROVE BridgeTypes'
    <2>0. /\ Msg(c) \in Messages /\ Msg(c) # None /\ messages[Msg(c)] \in MessageRecords
          /\ calls[c] \in BridgeCalls /\ Addr(c) \in Addresses
      BY <1>a, <1>calls, <1>messages, <1>2 DEF CallsOK, CallsNamed, BridgeCalls,
             MessagesOK, MessageRecords, Msg, Addr, Wait
    <2>1. CallsOK'
      BY <1>calls, <1>a, <1>n, <1>cache, <1>2, <2>0, SMTT(60) DEF CallsOK, BridgeCalls,
             Pcs, CallsNamed, Wait, Goto, With, Msg
    <2>2. MessagesOK' /\ ConversationsOK' /\ CacheOK' /\ LockOK' /\ WebhooksOK'
          /\ HistoryOK' /\ ImportingOK' /\ ProviderOK' /\ DisturbancesOK' /\ UpsetOK'
      BY <1>t, <1>2 DEF Wait, MessagesOK, ConversationsOK, CacheOK, LockOK, WebhooksOK,
             HistoryOK, ImportingOK, ProviderOK, DisturbancesOK, UpsetOK
    <2>. QED BY <2>1, <2>2 DEF BridgeTypes
  <1>3. ASSUME NEW c \in Calls, TakeLock(c) PROVE BridgeTypes'
    <2>0. /\ Msg(c) \in Messages /\ Msg(c) # None /\ messages[Msg(c)] \in MessageRecords
          /\ calls[c] \in BridgeCalls /\ Addr(c) \in Addresses
      BY <1>a, <1>calls, <1>messages, <1>3 DEF CallsOK, CallsNamed, BridgeCalls,
             MessagesOK, MessageRecords, Msg, Addr, TakeLock
    <2>1. LockOK'
      BY <1>lock, <1>3, <2>0, SMTT(60) DEF LockOK, Addresses, TakeLock
    <2>2. CallsOK'
      BY <1>calls, <1>a, <1>n, <1>cache, <1>3, <2>0, SMTT(60) DEF CallsOK, BridgeCalls,
             Pcs, CallsNamed, TakeLock, Goto, With, Msg
    <2>3. UpsetOK'
      <3>1. upset' = upset \/ upset' = upset \cup {"section"}
        BY <1>3 DEF TakeLock
      <3>. QED BY <1>upset, <3>1 DEF UpsetOK
    <2>4. MessagesOK' /\ ConversationsOK' /\ CacheOK' /\ WebhooksOK' /\ HistoryOK'
          /\ ImportingOK' /\ ProviderOK' /\ DisturbancesOK'
      BY <1>t, <1>3 DEF TakeLock, MessagesOK, ConversationsOK, CacheOK, WebhooksOK,
             HistoryOK, ImportingOK, ProviderOK, DisturbancesOK
    <2>. QED BY <2>1, <2>2, <2>3, <2>4 DEF BridgeTypes
  <1>4. ASSUME NEW c \in Calls, GetContact(c) PROVE BridgeTypes'
    <2>0. /\ Msg(c) \in Messages /\ Msg(c) # None /\ messages[Msg(c)] \in MessageRecords
          /\ calls[c] \in BridgeCalls /\ Addr(c) \in Addresses
      BY <1>a, <1>calls, <1>messages, <1>4 DEF CallsOK, CallsNamed, BridgeCalls,
             MessagesOK, MessageRecords, Msg, Addr, GetContact
    <2>1. MessagesOK'
      <3>1. Spoil(Msg(c)) \/ messages' = messages
        BY <1>4 DEF GetContact
      <3>2. CASE messages' = messages
        BY <3>2, <1>messages DEF MessagesOK
      <3>. QED BY <1>messages, <2>0, <3>1, <3>2, SpoilTyped
    <2>2. CallsOK'
      BY <1>calls, <1>a, <1>n, <1>cache, <1>4, <2>0, SMTT(60) DEF CallsOK, BridgeCalls,
             Pcs, CallsNamed, GetContact, Goto, Msg
    <2>3. DisturbancesOK'
      BY <1>disturbances, <1>a, <1>4, <2>0, SMTT(60) DEF DisturbancesOK, GetContact,
             Disturb
    <2>4. ConversationsOK' /\ CacheOK' /\ LockOK' /\ WebhooksOK' /\ HistoryOK'
          /\ ImportingOK' /\ ProviderOK' /\ UpsetOK'
      BY <1>t, <1>4 DEF GetContact, ConversationsOK, CacheOK, LockOK, WebhooksOK,
             HistoryOK, ImportingOK, ProviderOK, UpsetOK
    <2>. QED BY <2>1, <2>2, <2>3, <2>4 DEF BridgeTypes
  <1>5. ASSUME NEW c \in Calls, ListConversations(c) PROVE BridgeTypes'
    <2>0. /\ Msg(c) \in Messages /\ Msg(c) # None /\ messages[Msg(c)] \in MessageRecords
          /\ calls[c] \in BridgeCalls /\ Addr(c) \in Addresses
      BY <1>a, <1>calls, <1>messages, <1>5 DEF CallsOK, CallsNamed, BridgeCalls,
             MessagesOK, MessageRecords, Msg, Addr, ListConversations
    <2>1. ConversationsOK' /\ Len(conversations') >= Len(conversations) /\ Len(conversations') \in Nat
      BY <1>a, <1>s, <1>conversations, <1>5, ExceptSeq, SMTT(60) DEF ConversationsOK,
             States, ListConversations, Msg, Addr, Goto, With, Disturb, Spoil, Suitable,
             Live, Unresolved
    <2>2. MessagesOK'
      <3>1. Spoil(Msg(c)) \/ messages' = messages
        BY <1>5 DEF ListConversations
      <3>2. CASE messages' = messages
        BY <3>2, <1>messages DEF MessagesOK
      <3>. QED BY <1>messages, <2>0, <3>1, <3>2, SpoilTyped
    <2>3. CacheOK'
      BY <1>cache, <1>n, <1>5, <2>0, <2>1, SMTT(60) DEF CacheOK, Addresses,
             ListConversations, Suitable, Live, Unresolved
    <2>4. CallsOK'
      <3>1. \/ Goto(c, "create") \/ Goto(c, "unlock")
            \/ \E k \in 1..Len(conversations) : With(c, "unlock", k)
        BY <1>5, <1>n DEF ListConversations
      <3>2. ASSUME NEW k \in 1..Len(conversations), With(c, "unlock", k) PROVE CallsOK'
        <4> DEFINE r == [calls[c] EXCEPT !.pc = "unlock", !.conv = k]
        <4>1. r.msg = Msg(c) /\ r.pc = "unlock" /\ r \in [pc : Pcs, msg : Messages \cup {None}, conv : {k}]
          BY <2>0 DEF BridgeCalls, Pcs, Msg
        <4>2. \A d \in Calls : calls'[d] = IF d = c THEN r ELSE calls[d]
          BY <1>calls, <3>2 DEF With, CallsOK, BridgeCalls
        <4>3. calls' = [d \in Calls |-> calls'[d]]
          BY <1>calls, <3>2 DEF With, CallsOK
        <4> HIDE DEF r
        <4>4. r \in BridgeCalls' /\ BridgeCalls \subseteq BridgeCalls'
          BY <1>n, <2>1, <4>1 DEF BridgeCalls
        <4>. QED BY <1>calls, <1>a, <2>0, <4>1, <4>2, <4>3, <4>4 DEF CallsOK, CallsNamed
      <3>3. CASE Goto(c, "create") \/ Goto(c, "unlock")
        BY <1>calls, <1>a, <1>n, <2>0, <2>1, <3>3, SMTT(60) DEF CallsOK, BridgeCalls,
               Pcs, CallsNamed, Goto, Msg
      <3>. QED BY <3>1, <3>2, <3>3
    <2>5. DisturbancesOK'
      BY <1>disturbances, <1>a, <1>5, <2>0, <2>1, SMTT(60) DEF DisturbancesOK,
             ListConversations, Disturb
    <2>6. LockOK' /\ WebhooksOK' /\ HistoryOK' /\ ImportingOK' /\ ProviderOK'
          /\ UpsetOK'
      BY <1>t, <1>5 DEF ListConversations, LockOK, WebhooksOK, HistoryOK, ImportingOK,
             ProviderOK, UpsetOK
    <2>. QED BY <2>1, <2>2, <2>3, <2>4, <2>5, <2>6 DEF BridgeTypes
  <1>6. ASSUME NEW c \in Calls, Create(c) PROVE BridgeTypes'
    <2>0. /\ Msg(c) \in Messages /\ Msg(c) # None /\ messages[Msg(c)] \in MessageRecords
          /\ calls[c] \in BridgeCalls /\ Addr(c) \in Addresses
      BY <1>a, <1>calls, <1>messages, <1>6 DEF CallsOK, CallsNamed, BridgeCalls,
             MessagesOK, MessageRecords, Msg, Addr, Create
    <2>1. ConversationsOK' /\ Len(conversations') >= Len(conversations) /\ Len(conversations') \in Nat
      <3>1. CASE conversations' = conversations
        BY <1>conversations, <3>1, LenProperties DEF ConversationsOK
      <3>2. ASSUME NEW x \in {"pending", "open"}, conversations' = Append(conversations, x),
                   Len(conversations) < MaxConversations
            PROVE  ConversationsOK' /\ Len(conversations') = Len(conversations) + 1 /\ Len(conversations) \in Nat
        <4>1. conversations \in Seq(States) /\ x \in States /\ Len(conversations) \in Nat
          BY <1>conversations, <3>2, LenProperties DEF ConversationsOK, States
        <4>2. conversations' \in Seq(States) /\ Len(conversations') = Len(conversations) + 1
          BY <3>2, <4>1, AppendProperties
        <4>3. Len(conversations) + 1 <= MaxConversations
          BY <3>2, <4>1, BridgeAssumption
        <4>. QED BY <4>1, <4>2, <4>3 DEF ConversationsOK
      <3>3. \/ conversations' = conversations
            \/ /\ Len(conversations) < MaxConversations
               /\ \E x \in {"pending", "open"} : conversations' = Append(conversations, x)
        BY <1>6 DEF Create
      <3>4. ASSUME NEW L \in Nat PROVE L + 1 >= L /\ L + 1 \in Nat
        OBVIOUS
      <3>. QED BY <3>1, <3>2, <3>3, <3>4
    <2>2. MessagesOK'
      <3>1. Spoil(Msg(c)) \/ messages' = messages
        BY <1>6 DEF Create
      <3>2. CASE messages' = messages
        BY <3>2, <1>messages DEF MessagesOK
      <3>. QED BY <1>messages, <2>0, <3>1, <3>2, SpoilTyped
    <2>3. CacheOK'
      BY <1>cache, <1>n, <1>6, <2>0, <2>1, SMTT(60) DEF CacheOK, Addresses, Create
    <2>4. CallsOK'
      BY <1>calls, <1>a, <1>n, <1>cache, <1>6, <2>0, <2>1, SMTT(60) DEF CallsOK,
             BridgeCalls, Pcs, CallsNamed, Create, Goto, With, Msg
    <2>5. DisturbancesOK'
      BY <1>disturbances, <1>a, <1>6, <2>0, <2>1, SMTT(60) DEF DisturbancesOK, Create,
             Disturb
    <2>6. LockOK' /\ WebhooksOK' /\ HistoryOK' /\ ImportingOK' /\ ProviderOK'
          /\ UpsetOK'
      BY <1>t, <1>6 DEF Create, LockOK, WebhooksOK, HistoryOK, ImportingOK, ProviderOK,
             UpsetOK
    <2>. QED BY <2>1, <2>2, <2>3, <2>4, <2>5, <2>6 DEF BridgeTypes
  <1>7. ASSUME NEW c \in Calls, Unlock(c) PROVE BridgeTypes'
    <2>0. /\ Msg(c) \in Messages /\ Msg(c) # None /\ messages[Msg(c)] \in MessageRecords
          /\ calls[c] \in BridgeCalls /\ Addr(c) \in Addresses
      BY <1>a, <1>calls, <1>messages, <1>7 DEF CallsOK, CallsNamed, BridgeCalls,
             MessagesOK, MessageRecords, Msg, Addr, Unlock
    <2>1. LockOK'
      BY <1>lock, <1>7, <2>0, SMTT(60) DEF LockOK, Addresses, Unlock
    <2>2. CallsOK'
      BY <1>calls, <1>a, <1>n, <1>cache, <1>7, <2>0, SMTT(60) DEF CallsOK, BridgeCalls,
             Pcs, CallsNamed, Unlock, Goto, Msg
    <2>3. MessagesOK' /\ ConversationsOK' /\ CacheOK' /\ WebhooksOK' /\ HistoryOK'
          /\ ImportingOK' /\ ProviderOK' /\ DisturbancesOK' /\ UpsetOK'
      BY <1>t, <1>7 DEF Unlock, MessagesOK, ConversationsOK, CacheOK, WebhooksOK,
             HistoryOK, ImportingOK, ProviderOK, DisturbancesOK, UpsetOK
    <2>. QED BY <2>1, <2>2, <2>3 DEF BridgeTypes
  <1>8. ASSUME NEW c \in Calls, Post(c) PROVE BridgeTypes'
    <2>0. /\ Msg(c) \in Messages /\ Msg(c) # None /\ messages[Msg(c)] \in MessageRecords
          /\ calls[c] \in BridgeCalls /\ Addr(c) \in Addresses
      BY <1>a, <1>calls, <1>messages, <1>8 DEF CallsOK, CallsNamed, BridgeCalls,
             MessagesOK, MessageRecords, Msg, Addr, Post
    <2>1. MessagesOK'
      <3>1. Spoil(Msg(c)) \/ messages' = [messages EXCEPT ![Msg(c)].shown = @ + 1]
        BY <1>8 DEF Post, Shown
      <3>2. CASE messages' = [messages EXCEPT ![Msg(c)].shown = @ + 1]
        <4>1. messages' = [messages EXCEPT ![Msg(c)] =
                [messages[Msg(c)] EXCEPT !.shown = messages[Msg(c)].shown + 1]]
          BY <3>2
        <4>2. messages[Msg(c)].shown + 1 \in Nat
          BY <2>0 DEF MessageRecords
        <4>. QED BY <1>messages, <2>0, <4>1, <4>2, RecordUpdates, MessagePut
      <3>. QED BY <1>messages, <2>0, <3>1, <3>2, SpoilTyped
    <2>2. CallsOK'
      BY <1>calls, <1>a, <1>n, <1>cache, <1>8, <2>0, SMTT(60) DEF CallsOK, BridgeCalls,
             Pcs, CallsNamed, Post, Live, Goto, With, Msg
    <2>3. WebhooksOK'
      BY <1>webhooks, <1>8, <2>0, SMTT(60) DEF WebhooksOK, WebhookRecords, Post, Shown,
             Outgoing, Bridged
    <2>4. DisturbancesOK'
      BY <1>disturbances, <1>a, <1>8, <2>0, SMTT(60) DEF DisturbancesOK, Post, Disturb
    <2>5. ConversationsOK' /\ CacheOK' /\ LockOK' /\ HistoryOK' /\ ImportingOK'
          /\ ProviderOK' /\ UpsetOK'
      BY <1>t, <1>8 DEF Post, ConversationsOK, CacheOK, LockOK, HistoryOK, ImportingOK,
             ProviderOK, UpsetOK
    <2>. QED BY <2>1, <2>2, <2>3, <2>4, <2>5 DEF BridgeTypes
  <1>9. ASSUME NEW c \in Calls, Store(c) PROVE BridgeTypes'
    <2>0. /\ Msg(c) \in Messages /\ Msg(c) # None /\ messages[Msg(c)] \in MessageRecords
          /\ calls[c] \in BridgeCalls /\ Addr(c) \in Addresses
      BY <1>a, <1>calls, <1>messages, <1>9 DEF CallsOK, CallsNamed, BridgeCalls,
             MessagesOK, MessageRecords, Msg, Addr, Store
    <2>1. MessagesOK'
      BY <1>messages, <1>9, <2>0, SMTT(60) DEF MessagesOK, MessageRecords, Rows, Origins,
             Addresses, Store
    <2>2. CallsOK'
      BY <1>calls, <1>a, <1>n, <1>cache, <1>9, <2>0, SMTT(60) DEF CallsOK, BridgeCalls,
             Pcs, CallsNamed, Store, Return, Idle, Msg
    <2>3. ConversationsOK' /\ CacheOK' /\ LockOK' /\ WebhooksOK' /\ HistoryOK'
          /\ ImportingOK' /\ ProviderOK' /\ DisturbancesOK' /\ UpsetOK'
      BY <1>t, <1>9 DEF Store, ConversationsOK, CacheOK, LockOK, WebhooksOK, HistoryOK,
             ImportingOK, ProviderOK, DisturbancesOK, UpsetOK
    <2>. QED BY <2>1, <2>2, <2>3 DEF BridgeTypes
  <1>10. ASSUME NEW c \in Calls, AgentSend(c) PROVE BridgeTypes'
    <2>0. /\ Msg(c) \in Messages /\ Msg(c) # None /\ messages[Msg(c)] \in MessageRecords
          /\ calls[c] \in BridgeCalls /\ Addr(c) \in Addresses
      BY <1>a, <1>calls, <1>messages, <1>10 DEF CallsOK, CallsNamed, BridgeCalls,
             MessagesOK, MessageRecords, Msg, Addr, AgentSend
    <2>1. MessagesOK'
      <3>1. \/ Spoil(Msg(c))
            \/ \E r \in {"plain", messages[Msg(c)].row} :
                 messages' = [messages EXCEPT ![Msg(c)] =
                   [messages[Msg(c)] EXCEPT !.whatsapp = "there", !.sends = messages[Msg(c)].sends + 1, !.row = r]]
        BY <1>10, <1>messages, <2>0, SMTT(60) DEF AgentSend, NotSent, MessagesOK,
               MessageRecords, Rows
      <3>2. messages[Msg(c)].sends + 1 \in Nat
        BY <2>0 DEF MessageRecords
      <3>3. ASSUME NEW r \in {"plain", messages[Msg(c)].row},
                   messages' = [messages EXCEPT ![Msg(c)] =
                     [messages[Msg(c)] EXCEPT !.whatsapp = "there", !.sends = messages[Msg(c)].sends + 1, !.row = r]]
            PROVE MessagesOK'
        <4>1. r \in Rows
          BY <2>0, RecordUpdates DEF Rows
        <4>. QED BY <1>messages, <2>0, <3>2, <3>3, <4>1, RecordUpdates, MessagePut
      <3>. QED BY <1>messages, <2>0, <3>1, <3>3, SpoilTyped
    <2>2. CallsOK'
      <3>1. conversations' = conversations /\ (Return(c) \/ Goto(c, "cache") \/ Goto(c, "link"))
        BY <1>10 DEF AgentSend
      <3>. QED BY <1>calls, <1>a, <1>n, <2>0, <3>1 DEF CallsOK, BridgeCalls, Pcs,
                      CallsNamed, Goto, Return, Idle, Msg
    <2>3. DisturbancesOK'
      BY <1>disturbances, <1>a, <1>10, <2>0, SMTT(60) DEF DisturbancesOK, AgentSend,
             NotSent, Disturb
    <2>4. ConversationsOK' /\ CacheOK' /\ LockOK' /\ WebhooksOK' /\ HistoryOK'
          /\ ImportingOK' /\ ProviderOK' /\ UpsetOK'
      BY <1>t, <1>10 DEF AgentSend, ConversationsOK, CacheOK, LockOK, WebhooksOK,
             HistoryOK, ImportingOK, ProviderOK, UpsetOK
    <2>. QED BY <2>1, <2>2, <2>3, <2>4 DEF BridgeTypes
  <1>11. ASSUME NEW c \in Calls, Link(c) PROVE BridgeTypes'
    <2>0. /\ Msg(c) \in Messages /\ Msg(c) # None /\ messages[Msg(c)] \in MessageRecords
          /\ calls[c] \in BridgeCalls /\ Addr(c) \in Addresses
      BY <1>a, <1>calls, <1>messages, <1>11 DEF CallsOK, CallsNamed, BridgeCalls,
             MessagesOK, MessageRecords, Msg, Addr, Link
    <2>1. MessagesOK'
      BY <1>messages, <1>11, <2>0, SMTT(60) DEF MessagesOK, MessageRecords, Rows,
             Origins, Addresses, Link
    <2>2. CallsOK'
      BY <1>calls, <1>a, <1>n, <1>cache, <1>11, <2>0, SMTT(60) DEF CallsOK, BridgeCalls,
             Pcs, CallsNamed, Link, Return, Idle, Msg
    <2>3. ConversationsOK' /\ CacheOK' /\ LockOK' /\ WebhooksOK' /\ HistoryOK'
          /\ ImportingOK' /\ ProviderOK' /\ DisturbancesOK' /\ UpsetOK'
      BY <1>t, <1>11 DEF Link, ConversationsOK, CacheOK, LockOK, WebhooksOK, HistoryOK,
             ImportingOK, ProviderOK, DisturbancesOK, UpsetOK
    <2>. QED BY <2>1, <2>2, <2>3 DEF BridgeTypes
  <1>12. ASSUME NEW c \in Calls, DeleteRow(c) PROVE BridgeTypes'
    <2>0. /\ Msg(c) \in Messages /\ Msg(c) # None /\ messages[Msg(c)] \in MessageRecords
          /\ calls[c] \in BridgeCalls /\ Addr(c) \in Addresses
      BY <1>a, <1>calls, <1>messages, <1>12 DEF CallsOK, CallsNamed, BridgeCalls,
             MessagesOK, MessageRecords, Msg, Addr, DeleteRow
    <2>1. MessagesOK'
      BY <1>messages, <1>12, <2>0, SMTT(60) DEF MessagesOK, MessageRecords, Rows,
             Origins, Addresses, DeleteRow
    <2>2. CallsOK'
      BY <1>calls, <1>a, <1>n, <1>cache, <1>12, <2>0, SMTT(60) DEF CallsOK, BridgeCalls,
             Pcs, CallsNamed, DeleteRow, Goto, Msg
    <2>3. ConversationsOK' /\ CacheOK' /\ LockOK' /\ WebhooksOK' /\ HistoryOK'
          /\ ImportingOK' /\ ProviderOK' /\ DisturbancesOK' /\ UpsetOK'
      BY <1>t, <1>12 DEF DeleteRow, ConversationsOK, CacheOK, LockOK, WebhooksOK,
             HistoryOK, ImportingOK, ProviderOK, DisturbancesOK, UpsetOK
    <2>. QED BY <2>1, <2>2, <2>3 DEF BridgeTypes
  <1>13. ASSUME NEW c \in Calls, DeleteInChatwoot(c) PROVE BridgeTypes'
    <2>0. /\ Msg(c) \in Messages /\ Msg(c) # None /\ messages[Msg(c)] \in MessageRecords
          /\ calls[c] \in BridgeCalls /\ Addr(c) \in Addresses
      BY <1>a, <1>calls, <1>messages, <1>13 DEF CallsOK, CallsNamed, BridgeCalls,
             MessagesOK, MessageRecords, Msg, Addr, DeleteInChatwoot
    <2>1. MessagesOK'
      <3>1. Spoil(Msg(c)) \/ messages' = [messages EXCEPT ![Msg(c)].gone = TRUE]
        BY <1>13 DEF DeleteInChatwoot
      <3>2. CASE messages' = [messages EXCEPT ![Msg(c)].gone = TRUE]
        <4>1. messages' = [messages EXCEPT ![Msg(c)] = [messages[Msg(c)] EXCEPT !.gone = TRUE]]
          BY <3>2
        <4>9. [messages[Msg(c)] EXCEPT !.gone = TRUE] \in MessageRecords
          BY <2>0, RecordUpdates
        <4>. QED BY <1>messages, <2>0, <4>1, <4>9, MessagePut
      <3>. QED BY <1>messages, <2>0, <3>1, <3>2, SpoilTyped
    <2>2. CallsOK'
      BY <1>calls, <1>a, <1>n, <1>cache, <1>13, <2>0, SMTT(60) DEF CallsOK, BridgeCalls,
             Pcs, CallsNamed, DeleteInChatwoot, Return, Idle, Msg
    <2>3. WebhooksOK'
      BY <1>webhooks, <1>13, <2>0, SMTT(60) DEF WebhooksOK, WebhookRecords,
             DeleteInChatwoot
    <2>4. DisturbancesOK'
      BY <1>disturbances, <1>a, <1>13, <2>0, SMTT(60) DEF DisturbancesOK,
             DeleteInChatwoot, Disturb
    <2>5. ConversationsOK' /\ CacheOK' /\ LockOK' /\ HistoryOK' /\ ImportingOK'
          /\ ProviderOK' /\ UpsetOK'
      BY <1>t, <1>13 DEF DeleteInChatwoot, ConversationsOK, CacheOK, LockOK, HistoryOK,
             ImportingOK, ProviderOK, UpsetOK
    <2>. QED BY <2>1, <2>2, <2>3, <2>4, <2>5 DEF BridgeTypes
  <1>14. ASSUME NEW c \in Calls, BeginImport(c) PROVE BridgeTypes'
    <2>1. CallsOK'
      BY <1>calls, <1>a, <1>n, <1>cache, <1>14, SMTT(60) DEF CallsOK, BridgeCalls, Pcs,
             CallsNamed, BeginImport, Msg, Idle
    <2>2. HistoryOK'
      BY <1>history, <1>14, SMTT(60) DEF HistoryOK, BeginImport, Msg, Lost, Stored,
             HasSource
    <2>3. ImportingOK'
      <3>1. importing' = [importing EXCEPT ![c] = history']
        BY <1>14 DEF BeginImport
      <3>2. history' \in SUBSET Messages
        BY <2>2 DEF HistoryOK
      <3>. QED BY <1>importing, <3>1, <3>2 DEF ImportingOK
    <2>4. UpsetOK'
      BY <1>upset, <1>14, SMTT(60) DEF UpsetOK, BeginImport, Msg, Lost, Stored,
             HasSource
    <2>5. MessagesOK' /\ ConversationsOK' /\ CacheOK' /\ LockOK' /\ WebhooksOK'
          /\ ProviderOK' /\ DisturbancesOK'
      BY <1>t, <1>14 DEF BeginImport, MessagesOK, ConversationsOK, CacheOK, LockOK,
             WebhooksOK, ProviderOK, DisturbancesOK
    <2>. QED BY <2>1, <2>2, <2>3, <2>4, <2>5 DEF BridgeTypes
  <1>15. ASSUME NEW c \in Calls, EndImport(c) PROVE BridgeTypes'
    <2>1. ConversationsOK' /\ Len(conversations') >= Len(conversations) /\ Len(conversations') \in Nat
      BY <1>a, <1>s, <1>conversations, <1>15, ExceptSeq, SMTT(60) DEF ConversationsOK,
             States, EndImport, Msg, Return, Disturb, Filtered, ConversationForImport,
             Idle, ExistingSourceIds, Live, HasSource
    <2>2. MessagesOK'
      <3>1. \/ messages' = messages
            \/ messages' = [m \in Messages |-> [messages[m] EXCEPT
                             !.shown = IF m \in Filtered(importing[c]) THEN @ + 1 ELSE @]]
        BY <1>15 DEF EndImport
      <3>. QED BY <1>messages, <3>1, SMTT(60) DEF MessagesOK, MessageRecords, Rows
    <2>3. CacheOK'
      BY <1>cache, <1>n, <1>15, <2>1, SMTT(60) DEF CacheOK, Addresses, EndImport, Msg,
             Filtered, ConversationForImport, ExistingSourceIds, Live, HasSource
    <2>4. CallsOK'
      BY <1>calls, <1>a, <1>n, <1>cache, <1>15, <2>1, SMTT(60) DEF CallsOK, BridgeCalls,
             Pcs, CallsNamed, EndImport, Msg, Return, Idle, Live
    <2>5. HistoryOK'
      BY <1>history, <1>15, <2>1, SMTT(60) DEF HistoryOK, EndImport, Msg, Filtered,
             ConversationForImport, ExistingSourceIds, Live, HasSource
    <2>6. ImportingOK'
      BY <1>importing, <1>15, <2>1, SMTT(60) DEF ImportingOK, EndImport, Msg, Filtered,
             ConversationForImport, ExistingSourceIds, Live, HasSource
    <2>7. DisturbancesOK'
      BY <1>disturbances, <1>a, <1>15, <2>1, SMTT(60) DEF DisturbancesOK, EndImport,
             Disturb
    <2>8. UpsetOK'
      BY <1>upset, <1>15, <2>1, SMTT(60) DEF UpsetOK, EndImport, Msg, Filtered,
             ConversationForImport, ExistingSourceIds, Live, HasSource
    <2>9. LockOK' /\ WebhooksOK' /\ ProviderOK'
      BY <1>t, <1>15 DEF EndImport, LockOK, WebhooksOK, ProviderOK
    <2>. QED BY <2>1, <2>2, <2>3, <2>4, <2>5, <2>6, <2>7, <2>8, <2>9 DEF BridgeTypes
  <1>16. ASSUME NEW c \in Calls, NEW m \in Messages, Upsert(c, m) PROVE BridgeTypes'
    <2>0. \E o \in {"contact", "phone"}, a \in Addresses : messages' = [messages EXCEPT ![m] = [messages[m] EXCEPT !.origin = o, !.addr = a, !.whatsapp = "there"]]
      <3>1. PICK o \in {"contact", "phone"}, a \in Addresses :
              messages' = [messages EXCEPT ![m].origin = o, ![m].addr = a, ![m].whatsapp = "there"]
        BY <1>16 DEF Upsert
      <3>2. messages' = [messages EXCEPT ![m] = [messages[m] EXCEPT !.origin = o, !.addr = a, !.whatsapp = "there"]]
        BY <1>messages, <3>1 DEF MessagesOK, MessageRecords
      <3>. QED BY <3>2
    <2>1. MessagesOK'
      <3>1. messages[m] \in MessageRecords /\ {"contact", "phone"} \subseteq Origins
        BY <1>messages DEF MessagesOK, Origins
      <3>. QED BY <1>messages, <2>0, <3>1, RecordUpdates, MessagePut
    <2>2. CallsOK'
      BY <1>calls, <1>16, BeginTyped DEF Upsert, Pcs
    <2>3. ConversationsOK' /\ CacheOK' /\ LockOK' /\ WebhooksOK' /\ HistoryOK'
          /\ ImportingOK' /\ ProviderOK' /\ DisturbancesOK' /\ UpsetOK'
      BY <1>t, <1>16 DEF Upsert, ConversationsOK, CacheOK, LockOK, WebhooksOK, HistoryOK,
             ImportingOK, ProviderOK, DisturbancesOK, UpsetOK
    <2>. QED BY <2>1, <2>2, <2>3 DEF BridgeTypes
  <1>17. ASSUME NEW c \in Calls, NEW m \in Messages, ApiSend(c, m) PROVE BridgeTypes'
    <2>0. messages' = [messages EXCEPT ![m] = [messages[m] EXCEPT !.origin = "api", !.whatsapp = "there", !.sends = 1]]
      BY <1>messages, <1>17 DEF MessagesOK, MessageRecords, Addresses, Origins, ApiSend
    <2>1. MessagesOK'
      <3>1. messages[m] \in MessageRecords /\ "api" \in Origins /\ 1 \in Nat
        BY <1>messages DEF MessagesOK, Origins
      <3>. QED BY <1>messages, <2>0, <3>1, RecordUpdates, MessagePut
    <2>2. CallsOK'
      BY <1>calls, <1>17, BeginTyped DEF ApiSend, Pcs
    <2>3. ConversationsOK' /\ CacheOK' /\ LockOK' /\ WebhooksOK' /\ HistoryOK'
          /\ ImportingOK' /\ ProviderOK' /\ DisturbancesOK' /\ UpsetOK'
      BY <1>t, <1>17 DEF ApiSend, ConversationsOK, CacheOK, LockOK, WebhooksOK,
             HistoryOK, ImportingOK, ProviderOK, DisturbancesOK, UpsetOK
    <2>. QED BY <2>1, <2>2, <2>3 DEF BridgeTypes
  <1>18. ASSUME NEW c \in Calls, NEW m \in Messages, WhatsAppDelete(c, m) PROVE BridgeTypes'
    <2>1. MessagesOK'
      BY <1>messages, <1>18, SMTT(60) DEF MessagesOK, MessageRecords, Rows, Origins,
             Addresses, WhatsAppDelete, Msg
    <2>2. CallsOK'
      <3>1. (Begin(c, "del_row", m) \/ calls' = calls) /\ conversations' = conversations
        BY <1>18 DEF WhatsAppDelete
      <3>2. CASE calls' = calls
        BY <3>1, <3>2, <1>calls DEF CallsOK, CallsNamed, BridgeCalls
      <3>. QED BY <1>calls, <3>1, <3>2, BeginTyped DEF Pcs
    <2>3. DisturbancesOK'
      BY <1>disturbances, <1>a, <1>18, SMTT(60) DEF DisturbancesOK, WhatsAppDelete,
             Disturb
    <2>4. UpsetOK'
      BY <1>upset, <1>18, SMTT(60) DEF UpsetOK, WhatsAppDelete, Awaited, Linking, Msg
    <2>5. ConversationsOK' /\ CacheOK' /\ LockOK' /\ WebhooksOK' /\ HistoryOK'
          /\ ImportingOK' /\ ProviderOK'
      BY <1>t, <1>18 DEF WhatsAppDelete, ConversationsOK, CacheOK, LockOK, WebhooksOK,
             HistoryOK, ImportingOK, ProviderOK
    <2>. QED BY <2>1, <2>2, <2>3, <2>4, <2>5 DEF BridgeTypes
  <1>19. ASSUME NEW c \in Calls, NEW w \in webhooks, Created(c, w) PROVE BridgeTypes'
    <2>1. CallsOK'
      <3>1. (Begin(c, "agent", w.msg) \/ calls' = calls) /\ conversations' = conversations
        BY <1>19 DEF Created
      <3>2. w.msg \in Messages
        BY <1>19, <1>webhooks DEF Created, WebhooksOK, WebhookRecords
      <3>3. CASE calls' = calls
        BY <3>1, <3>3, <1>calls DEF CallsOK, CallsNamed, BridgeCalls
      <3>. QED BY <1>calls, <3>1, <3>2, <3>3, BeginTyped DEF Pcs
    <2>2. WebhooksOK'
      BY <1>webhooks, <1>19, SMTT(60) DEF WebhooksOK, WebhookRecords, Created, Bridged
    <2>3. UpsetOK'
      BY <1>upset, <1>19, SMTT(60) DEF UpsetOK, Created, Bridged
    <2>4. MessagesOK' /\ ConversationsOK' /\ CacheOK' /\ LockOK' /\ HistoryOK'
          /\ ImportingOK' /\ ProviderOK' /\ DisturbancesOK'
      BY <1>t, <1>19 DEF Created, MessagesOK, ConversationsOK, CacheOK, LockOK,
             HistoryOK, ImportingOK, ProviderOK, DisturbancesOK
    <2>. QED BY <2>1, <2>2, <2>3, <2>4 DEF BridgeTypes
  <1>20. ASSUME NEW m \in Messages, StoreSent(m) PROVE BridgeTypes'
    <2>1. MessagesOK'
      BY <1>messages, <1>20, SMTT(60) DEF MessagesOK, MessageRecords, Rows, Origins,
             Addresses, StoreSent, evolution
    <2>2. ConversationsOK' /\ CacheOK' /\ LockOK' /\ CallsOK' /\ WebhooksOK'
          /\ HistoryOK' /\ ImportingOK' /\ ProviderOK' /\ DisturbancesOK' /\ UpsetOK'
      BY <1>t, <1>20 DEF StoreSent, evolution, ConversationsOK, CacheOK, LockOK, CallsOK,
             WebhooksOK, HistoryOK, ImportingOK, ProviderOK, DisturbancesOK, UpsetOK,
             BridgeCalls, CallsNamed
    <2>. QED BY <2>1, <2>2 DEF BridgeTypes
  <1>21. ASSUME NEW m \in Messages, AgentDelete(m) PROVE BridgeTypes'
    <2>1. MessagesOK'
      <3>1. messages' = [messages EXCEPT ![m] = [messages[m] EXCEPT !.gone = TRUE]]
        BY <1>21 DEF AgentDelete
      <3>2. messages[m] \in MessageRecords
        BY <1>messages DEF MessagesOK
      <3>. QED BY <1>messages, <3>1, <3>2, RecordUpdates, MessagePut
    <2>2. WebhooksOK'
      BY <1>webhooks, <1>21, SMTT(60) DEF WebhooksOK, WebhookRecords, AgentDelete,
             evolution
    <2>3. DisturbancesOK'
      BY <1>disturbances, <1>a, <1>21, SMTT(60) DEF DisturbancesOK, AgentDelete,
             evolution, Disturb
    <2>4. ConversationsOK' /\ CacheOK' /\ LockOK' /\ CallsOK' /\ HistoryOK'
          /\ ImportingOK' /\ ProviderOK' /\ UpsetOK'
      BY <1>t, <1>21 DEF AgentDelete, evolution, ConversationsOK, CacheOK, LockOK,
             CallsOK, HistoryOK, ImportingOK, ProviderOK, UpsetOK, BridgeCalls,
             CallsNamed
    <2>. QED BY <2>1, <2>2, <2>3, <2>4 DEF BridgeTypes
  <1>22. ASSUME NEW m \in Messages, PhoneHistory(m) PROVE BridgeTypes'
    <2>1. MessagesOK'
      BY <1>messages, <1>22, SMTT(60) DEF MessagesOK, MessageRecords, Rows, Origins,
             Addresses, PhoneHistory
    <2>2. HistoryOK'
      BY <1>history, <1>22, SMTT(60) DEF HistoryOK, PhoneHistory
    <2>3. ConversationsOK' /\ CacheOK' /\ LockOK' /\ CallsOK' /\ WebhooksOK'
          /\ ImportingOK' /\ ProviderOK' /\ DisturbancesOK' /\ UpsetOK'
      BY <1>t, <1>22 DEF PhoneHistory, ConversationsOK, CacheOK, LockOK, CallsOK,
             WebhooksOK, ImportingOK, ProviderOK, DisturbancesOK, UpsetOK, BridgeCalls,
             CallsNamed
    <2>. QED BY <2>1, <2>2, <2>3 DEF BridgeTypes
  <1>23. ASSUME NEW m \in Messages, NEW k \in DOMAIN conversations, Write(m, k) PROVE BridgeTypes'
    <2>0. \E o \in {"agent", "template"} : messages' = [messages EXCEPT ![m] = [messages[m] EXCEPT !.origin = o, !.shown = 1]]
      BY <1>messages, <1>23 DEF MessagesOK, MessageRecords, Addresses, Origins, Write
    <2>1. MessagesOK'
      <3>1. messages[m] \in MessageRecords /\ {"agent", "template"} \subseteq Origins /\ 1 \in Nat
        BY <1>messages DEF MessagesOK, Origins
      <3>. QED BY <1>messages, <2>0, <3>1, RecordUpdates, MessagePut
    <2>2. WebhooksOK'
      BY <1>webhooks, <1>23, <2>0, SMTT(60) DEF WebhooksOK, WebhookRecords, Write,
             evolution
    <2>3. ConversationsOK' /\ CacheOK' /\ LockOK' /\ CallsOK' /\ HistoryOK'
          /\ ImportingOK' /\ ProviderOK' /\ DisturbancesOK' /\ UpsetOK'
      BY <1>t, <1>23 DEF Write, evolution, ConversationsOK, CacheOK, LockOK, CallsOK,
             HistoryOK, ImportingOK, ProviderOK, DisturbancesOK, UpsetOK, BridgeCalls,
             CallsNamed
    <2>. QED BY <2>1, <2>2, <2>3 DEF BridgeTypes
  <1>24. ASSUME NEW w \in webhooks, Deleted(w) PROVE BridgeTypes'
    <2>1. MessagesOK'
      <3>1. w.msg \in Messages /\ messages[w.msg] \in MessageRecords
        BY <1>24, <1>webhooks, <1>messages DEF Deleted, WebhooksOK, WebhookRecords,
               MessagesOK
      <3>2. \/ messages' = messages
            \/ Spoil(w.msg)
            \/ messages' = [messages EXCEPT ![w.msg] =
                             [messages[w.msg] EXCEPT !.whatsapp = "deleted", !.row = "removed"]]
        BY <1>24, <1>messages, <3>1 DEF Deleted, MessagesOK, MessageRecords, Rows
      <3>3. CASE messages' = messages
        BY <3>3, <1>messages DEF MessagesOK
      <3>. QED BY <1>messages, <3>1, <3>2, <3>3, SpoilTyped, RecordUpdates, MessagePut
    <2>2. WebhooksOK'
      BY <1>webhooks, <1>24, SMTT(60) DEF WebhooksOK, WebhookRecords, Deleted, evolution,
             Msg
    <2>3. DisturbancesOK'
      BY <1>disturbances, <1>a, <1>24, SMTT(60) DEF DisturbancesOK, Deleted, evolution,
             Disturb
    <2>4. UpsetOK'
      BY <1>upset, <1>24, SMTT(60) DEF UpsetOK, Deleted, evolution, Linking, Msg,
             Awaited
    <2>5. ConversationsOK' /\ CacheOK' /\ LockOK' /\ CallsOK' /\ HistoryOK'
          /\ ImportingOK' /\ ProviderOK'
      BY <1>t, <1>24 DEF Deleted, evolution, ConversationsOK, CacheOK, LockOK, CallsOK,
             HistoryOK, ImportingOK, ProviderOK, BridgeCalls, CallsNamed
    <2>. QED BY <2>1, <2>2, <2>3, <2>4, <2>5 DEF BridgeTypes
  <1>25. ASSUME NEW w \in webhooks, Resolved(w) PROVE BridgeTypes'
    <2>1. CacheOK'
      BY <1>cache, <1>n, <1>25, SMTT(60) DEF CacheOK, Addresses, Resolved
    <2>2. WebhooksOK'
      BY <1>webhooks, <1>25, SMTT(60) DEF WebhooksOK, WebhookRecords, Resolved
    <2>3. MessagesOK' /\ ConversationsOK' /\ LockOK' /\ CallsOK' /\ HistoryOK'
          /\ ImportingOK' /\ ProviderOK' /\ DisturbancesOK' /\ UpsetOK'
      BY <1>t, <1>25 DEF Resolved, MessagesOK, ConversationsOK, LockOK, CallsOK,
             HistoryOK, ImportingOK, ProviderOK, DisturbancesOK, UpsetOK, BridgeCalls,
             CallsNamed
    <2>. QED BY <2>1, <2>2, <2>3 DEF BridgeTypes
  <1>26. ASSUME Recreate PROVE BridgeTypes'
    <2>1. MessagesOK'
      BY <1>messages, <1>26, SMTT(60) DEF MessagesOK, MessageRecords, Rows, Origins,
             Addresses, Recreate, evolution, Stored
    <2>2. DisturbancesOK'
      BY <1>disturbances, <1>a, <1>26, SMTT(60) DEF DisturbancesOK, Recreate, evolution,
             Disturb
    <2>3. UpsetOK'
      BY <1>upset, <1>26, SMTT(60) DEF UpsetOK, Recreate, evolution, Stored
    <2>4. ConversationsOK' /\ CacheOK' /\ LockOK' /\ CallsOK' /\ WebhooksOK'
          /\ HistoryOK' /\ ImportingOK' /\ ProviderOK'
      BY <1>t, <1>26 DEF Recreate, evolution, ConversationsOK, CacheOK, LockOK, CallsOK,
             WebhooksOK, HistoryOK, ImportingOK, ProviderOK, BridgeCalls, CallsNamed
    <2>. QED BY <2>1, <2>2, <2>3, <2>4 DEF BridgeTypes
  <1>27. ASSUME Move PROVE BridgeTypes'
    <2>1. ConversationsOK' /\ Len(conversations') >= Len(conversations) /\ Len(conversations') \in Nat
      BY <1>a, <1>s, <1>conversations, <1>27, ExceptSeq, SMTT(60) DEF ConversationsOK,
             States, Move, Disturb, Resolve, DeleteConversation, Expire, Unresolved,
             Live
    <2>2. CacheOK'
      BY <1>cache, <1>n, <1>27, <2>1, SMTT(60) DEF CacheOK, Addresses, Move, Resolve,
             DeleteConversation, Expire, Unresolved, Live
    <2>3. LockOK'
      <3>1. lock' = lock \/ \E a \in Addresses : lock' = [lock EXCEPT ![a] = FALSE]
        BY <1>27 DEF Move, Resolve, DeleteConversation, Expire
      <3>. QED BY <1>lock, <3>1 DEF LockOK
    <2>4. CallsOK'
      BY <1>calls, <1>a, <1>n, <1>cache, <1>27, <2>1, SMTT(60) DEF CallsOK, BridgeCalls,
             Pcs, CallsNamed, Move, Resolve, DeleteConversation, Expire, Live, Msg
    <2>5. WebhooksOK'
      BY <1>webhooks, <1>27, <2>1, SMTT(60) DEF WebhooksOK, WebhookRecords, Move,
             Resolve, DeleteConversation, Expire, Unresolved
    <2>6. DisturbancesOK'
      BY <1>disturbances, <1>a, <1>27, <2>1, SMTT(60) DEF DisturbancesOK, Move, Disturb,
             Resolve, DeleteConversation, Expire
    <2>7. MessagesOK' /\ HistoryOK' /\ ImportingOK' /\ ProviderOK' /\ UpsetOK'
      BY <1>t, <1>27 DEF Move, MessagesOK, HistoryOK, ImportingOK, ProviderOK, UpsetOK,
             Resolve, DeleteConversation, Expire
    <2>. QED BY <2>1, <2>2, <2>3, <2>4, <2>5, <2>6, <2>7 DEF BridgeTypes
  <1>28. ASSUME Restart PROVE BridgeTypes'
    <2>1. MessagesOK'
      <3>1. PICK un, dying : messages' = [m \in Messages |-> [messages[m] EXCEPT
              !.spoilt = @ \/ m \in dying, !.row = IF m \in un THEN "removed" ELSE @]]
        BY <1>28, Zenon DEF Restart
      <3>2. ASSUME NEW n \in Messages PROVE messages'[n] \in MessageRecords
        <4>1. messages'[n] = [messages[n] EXCEPT
                !.spoilt = @ \/ n \in dying, !.row = IF n \in un THEN "removed" ELSE @]
          BY <3>1
        <4>2. messages[n] \in MessageRecords
          BY <1>messages DEF MessagesOK
        <4>. QED BY <4>1, <4>2, RestartUpdate
      <3>3. messages' = [m \in Messages |-> messages'[m]]
        BY <3>1
      <3>. QED BY <3>2, <3>3 DEF MessagesOK
    <2>2. CallsOK'
      <3>1. calls' = [d \in Calls |-> Idle] /\ conversations' = conversations
        BY <1>28 DEF Restart
      <3>. QED BY <3>1, <1>a, <1>n DEF CallsOK, CallsNamed, BridgeCalls, Pcs, Idle
    <2>3. HistoryOK'
      <3>1. history' = {}
        BY <1>28 DEF Restart
      <3>. QED BY <3>1 DEF HistoryOK
    <2>4. ImportingOK'
      <3>1. importing' = [d \in Calls |-> {}]
        BY <1>28 DEF Restart
      <3>. QED BY <3>1 DEF ImportingOK
    <2>5. DisturbancesOK'
      <3>1. Disturb
        BY <1>28 DEF Restart
      <3>. QED BY <3>1, <1>a, <1>disturbances DEF DisturbancesOK, Disturb
    <2>6. ConversationsOK' /\ CacheOK' /\ LockOK' /\ WebhooksOK' /\ ProviderOK'
          /\ UpsetOK'
      BY <1>t, <1>28 DEF Restart, ConversationsOK, CacheOK, LockOK, WebhooksOK,
             ProviderOK, UpsetOK
    <2>. QED BY <2>1, <2>2, <2>3, <2>4, <2>5, <2>6 DEF BridgeTypes
  <1>. QED BY <1>1, <1>2, <1>3, <1>4, <1>5, <1>6, <1>7, <1>8, <1>9, <1>10, <1>11, <1>12,
              <1>13, <1>14, <1>15, <1>16, <1>17, <1>18, <1>19, <1>20, <1>21, <1>22,
              <1>23, <1>24, <1>25, <1>26, <1>27, <1>28 DEF Next, Create_

(* A step in which nobody begins to search, nobody reaches the making of a  *)
(* conversation, and none is there to take that was not.                    *)
NoSearchBegins ==
  /\ upset \subseteq upset'
  /\ \A d \in Calls : calls'[d].pc \in Searching => calls[d].pc \in Searching
  /\ \A d \in Calls : calls'[d].pc = "create" => calls[d].pc = "create"
  /\ \A k : k \in DOMAIN conversations' /\ Suitable(k)' => k \in DOMAIN conversations /\ Suitable(k)

(* A step that lets nobody search, and adds nothing that would be taken, is *)
(* harmless.                                                                *)
LEMMA SectionKept ==
  ASSUME Sectioned, NoSearchBegins
  PROVE  Sectioned'
PROOF
  <1>1. ASSUME upset' \cap {"section", "import"} = {}
        PROVE  OneSearches' /\ NoneToTake' /\ OneToTake'
    <2>1. OneSearches /\ NoneToTake /\ OneToTake
      BY <1>1 DEF Sectioned, NoSearchBegins
    <2>2. OneSearches'
      BY <2>1 DEF OneSearches, NoSearchBegins
    <2>3. NoneToTake'
      BY <2>1 DEF NoneToTake, NoSearchBegins
    <2>4. OneToTake'
      BY <2>1 DEF OneToTake, NoSearchBegins
    <2>. QED BY <2>2, <2>3, <2>4
  <1>. QED BY <1>1 DEF Sectioned

(* The conversations after one more.                                        *)
LEMMA AppendFacts ==
  ASSUME ConversationsOK, NEW x \in States
  PROVE  /\ Len(conversations) \in Nat /\ DOMAIN conversations = 1..Len(conversations)
         /\ DOMAIN Append(conversations, x) = 1..(Len(conversations) + 1)
         /\ Append(conversations, x)[Len(conversations) + 1] = x
         /\ \A k \in 1..Len(conversations) : Append(conversations, x)[k] = conversations[k]
PROOF
  BY DEF ConversationsOK

(* A conversation made where none would be taken is the only one.           *)
LEMMA AppendAlone ==
  ASSUME ConversationsOK, NEW x \in {"open", "pending"}, provider' = provider,
         conversations' = Append(conversations, x),
         \A k \in DOMAIN conversations : ~Suitable(k)
  PROVE  OneToTake'
PROOF
  <1>1. x \in States
    BY DEF States
  <1>2. ASSUME NEW k, k \in DOMAIN conversations', Suitable(k)'
        PROVE  k = Len(conversations) + 1
    <2>1. CASE k \in DOMAIN conversations
      <3>1. conversations'[k] = conversations[k]
        BY <1>1, <2>1, AppendFacts
      <3>2. Suitable(k)
        BY <1>2, <2>1, <3>1 DEF Suitable, Live, Unresolved
      <3>. QED BY <2>1, <3>2
    <2>2. CASE k \notin DOMAIN conversations
      <3>1. k \in 1..(Len(conversations) + 1) /\ k \notin 1..Len(conversations) /\ Len(conversations) \in Nat
        BY <1>1, <1>2, <2>2, AppendFacts
      <3>. QED BY <3>1
    <2>. QED BY <2>1, <2>2
  <1>3. ASSUME NEW j \in DOMAIN conversations', NEW k \in DOMAIN conversations', Suitable(j)', Suitable(k)'
        PROVE  j = k
    BY <1>2, <1>3
  <1>. QED BY <1>3 DEF OneToTake

(* Every step keeps the section in order.                                   *)
LEMMA SectionedStep ==
  ASSUME BridgeTypes, Sectioned, Next
  PROVE  Sectioned'
PROOF
  <1>t. MessagesOK /\ ConversationsOK /\ CallsOK /\ ProviderOK /\ UpsetOK
    BY DEF BridgeTypes
  <1>c. calls \in [Calls -> BridgeCalls]
    BY <1>t DEF CallsOK
  <1>r. \A d \in Calls : calls[d] \in BridgeCalls
    BY <1>c
  <1>0. ASSUME upset \subseteq upset', NEW c \in Calls,
               \A d \in Calls : d # c => calls'[d] = calls[d],
               calls'[c].pc \notin Searching \/ (calls'[c].pc = calls[c].pc),
               \A k : k \in DOMAIN conversations' /\ Suitable(k)' => k \in DOMAIN conversations /\ Suitable(k)
        PROVE  Sectioned'
    <2>1. NoSearchBegins
      BY <1>0 DEF NoSearchBegins, Searching
    <2>. QED BY <2>1, SectionKept
  <1>u. ASSUME conversations' = conversations, provider' = provider
        PROVE  \A k : k \in DOMAIN conversations' /\ Suitable(k)' => k \in DOMAIN conversations /\ Suitable(k)
    <2>1. ASSUME NEW k, k \in DOMAIN conversations', Suitable(k)'
          PROVE  k \in DOMAIN conversations /\ Suitable(k)
      BY <1>u, <2>1 DEF Suitable, Live, Unresolved
    <2>. QED BY <2>1
  <1>e. ASSUME NEW c \in Calls, NEW r, calls' = [calls EXCEPT ![c] = r]
        PROVE  calls'[c] = r /\ \A d \in Calls : d # c => calls'[d] = calls[d]
    BY <1>c, <1>e
  <1>g. ASSUME NEW c \in Calls, NEW l, Goto(c, l)
        PROVE  calls'[c].pc = l /\ \A d \in Calls : d # c => calls'[d] = calls[d]
    BY <1>c, <1>g DEF Goto, BridgeCalls
  <1>w. ASSUME NEW c \in Calls, NEW l, NEW k, With(c, l, k)
        PROVE  calls'[c].pc = l /\ \A d \in Calls : d # c => calls'[d] = calls[d]
    BY <1>c, <1>w DEF With, BridgeCalls
  <1>b. ASSUME NEW c \in Calls, NEW l, NEW m, Begin(c, l, m)
        PROVE  calls'[c].pc = l /\ \A d \in Calls : d # c => calls'[d] = calls[d]
    <2> DEFINE r == [Idle EXCEPT !.pc = l, !.msg = m]
    <2>1. r.pc = l
      BY DEF Idle
    <2>. QED BY <1>b, <1>e, <2>1 DEF Begin
  <1>i. ASSUME NEW c \in Calls, Return(c)
        PROVE  calls'[c].pc = "idle" /\ \A d \in Calls : d # c => calls'[d] = calls[d]
    <2>1. Idle.pc = "idle"
      BY DEF Idle
    <2>. QED BY <1>i, <1>e, <2>1 DEF Return
  <1>s. ASSUME upset \subseteq upset', calls' = calls,
               \A k : k \in DOMAIN conversations' /\ Suitable(k)' => k \in DOMAIN conversations /\ Suitable(k)
        PROVE  Sectioned'
    <2>1. NoSearchBegins
      BY <1>s DEF NoSearchBegins
    <2>. QED BY <2>1, SectionKept
  <1>1. ASSUME NEW c \in Calls, LookUp(c) PROVE Sectioned'
    <2>1. /\ upset' = upset /\ conversations' = conversations /\ provider' = provider
          /\ \/ calls' = calls
             \/ \E k : With(c, "post", k)
             \/ Goto(c, "wait")
             \/ Goto(c, "lock")
      BY <1>1 DEF LookUp
    <2>2. calls' = calls \/ (calls'[c].pc \notin Searching /\ \A d \in Calls : d # c => calls'[d] = calls[d])
      BY <2>1, <1>g, <1>w DEF Searching
    <2>. QED BY <2>1, <2>2, <1>u, <1>0, <1>s
  <1>2. ASSUME NEW c \in Calls, Wait(c) PROVE Sectioned'
    <2>1. /\ upset' = upset /\ conversations' = conversations /\ provider' = provider
          /\ (\E k : With(c, "post", k)) \/ Goto(c, "lock")
      BY <1>2 DEF Wait
    <2>2. calls'[c].pc \notin Searching /\ \A d \in Calls : d # c => calls'[d] = calls[d]
      BY <2>1, <1>g, <1>w DEF Searching
    <2>. QED BY <2>1, <2>2, <1>u, <1>0
  <1>3. ASSUME NEW c \in Calls, TakeLock(c) PROVE Sectioned'
    <2>1. conversations' = conversations /\ provider' = provider /\ upset \subseteq upset'
      BY <1>3 DEF TakeLock
    <2>2. CASE \E k : With(c, "unlock", k)
      <3>1. calls'[c].pc \notin Searching /\ \A d \in Calls : d # c => calls'[d] = calls[d]
        BY <2>2, <1>w DEF Searching
      <3>. QED BY <2>1, <3>1, <1>u, <1>0
    <2>3. CASE Goto(c, "contact")
      <3>1. /\ upset' = IF \E d \in Calls : calls[d].pc \in Section THEN upset \cup {"section"} ELSE upset
            \/ \E k : With(c, "unlock", k)
        BY <1>3 DEF TakeLock
      <3>2. CASE \E d \in Calls : calls[d].pc \in Section
        BY <3>1, <3>2, <2>2 DEF Sectioned
      <3>3. CASE ~\E d \in Calls : calls[d].pc \in Section
        <4>1. calls'[c].pc = "contact" /\ \A d \in Calls : d # c => calls'[d] = calls[d]
          BY <2>3, <1>g
        <4>2. \A d \in Calls : calls[d].pc \notin Searching
          BY <3>3 DEF Section, Searching
        <4>3. OneSearches'
          BY <4>1, <4>2 DEF OneSearches
        <4>4. \A d \in Calls : calls'[d].pc # "create"
          BY <4>1, <4>2 DEF Searching
        <4>5. NoneToTake'
          BY <4>4 DEF NoneToTake
        <4>6. ASSUME upset' \cap {"section", "import"} = {} PROVE OneToTake'
          <5>1. OneToTake
            BY <4>6, <2>1 DEF Sectioned
          <5>. QED BY <5>1, <2>1 DEF OneToTake, Suitable, Live, Unresolved
        <4>. QED BY <4>3, <4>5, <4>6 DEF Sectioned
      <3>. QED BY <3>2, <3>3
    <2>. QED BY <1>3, <2>2, <2>3 DEF TakeLock
  <1>4. ASSUME NEW c \in Calls, GetContact(c) PROVE Sectioned'
    <2>1. /\ upset' = upset /\ conversations' = conversations /\ provider' = provider
          /\ calls[c].pc = "contact" /\ (Goto(c, "list") \/ Goto(c, "unlock"))
      BY <1>4 DEF GetContact
    <2>2. /\ calls'[c].pc \in {"list", "unlock"} /\ \A d \in Calls : d # c => calls'[d] = calls[d]
      BY <2>1, <1>g
    <2>3. NoSearchBegins
      BY <2>1, <2>2, <1>u DEF NoSearchBegins, Searching
    <2>. QED BY <2>3, SectionKept
  <1>5. ASSUME NEW c \in Calls, ListConversations(c) PROVE Sectioned'
    <2>1. upset' = upset /\ provider' = provider /\ calls[c].pc = "list"
      BY <1>5 DEF ListConversations
    <2>2. CASE \E k \in DOMAIN conversations :
                 /\ conversations' = IF provider.reopen /\ provider.pending /\ conversations[k] # "open"
                                     THEN [conversations EXCEPT ![k] = "pending"] ELSE conversations
                 /\ Suitable(k)
                 /\ With(c, "unlock", k)
      <3>1. PICK k \in DOMAIN conversations :
                 /\ conversations' = IF provider.reopen /\ provider.pending /\ conversations[k] # "open"
                                     THEN [conversations EXCEPT ![k] = "pending"] ELSE conversations
                 /\ Suitable(k)
                 /\ With(c, "unlock", k)
        BY <2>2
      <3>2. calls'[c].pc \notin Searching /\ \A d \in Calls : d # c => calls'[d] = calls[d]
        BY <3>1, <1>w DEF Searching
      <3>3. DOMAIN conversations' = DOMAIN conversations
            /\ \A j \in DOMAIN conversations : conversations'[j] = conversations[j] \/ (j = k /\ conversations'[j] = "pending")
        BY <3>1
      <3>4. ASSUME NEW j, j \in DOMAIN conversations', Suitable(j)'
            PROVE  j \in DOMAIN conversations /\ Suitable(j)
        <4>1. CASE j = k
          BY <3>1, <4>1
        <4>2. CASE conversations'[j] = conversations[j]
          BY <2>1, <3>3, <3>4, <4>2 DEF Suitable, Live, Unresolved
        <4>. QED BY <3>3, <3>4, <4>1, <4>2
      <3>. QED BY <2>1, <3>2, <3>4, <1>0
    <2>3. CASE Goto(c, "create") /\ conversations' = conversations /\ \A k \in DOMAIN conversations : ~Suitable(k)
      <3>1. calls'[c].pc = "create" /\ \A d \in Calls : d # c => calls'[d] = calls[d]
        BY <2>3, <1>g
      <3>2. ASSUME upset' \cap {"section", "import"} = {}
            PROVE  OneSearches' /\ NoneToTake' /\ OneToTake'
        <4>1. OneSearches /\ NoneToTake /\ OneToTake
          BY <3>2, <2>1 DEF Sectioned
        <4>2. OneSearches'
          BY <4>1, <3>1, <2>1 DEF OneSearches, Searching
        <4>3. \A k : Suitable(k)' <=> Suitable(k)
          BY <2>1, <2>3 DEF Suitable, Live, Unresolved
        <4>4. NoneToTake'
          BY <2>3, <4>3 DEF NoneToTake
        <4>5. OneToTake'
          BY <2>3, <4>1, <4>3 DEF OneToTake
        <4>. QED BY <4>2, <4>4, <4>5
      <3>. QED BY <3>2 DEF Sectioned
    <2>4. CASE Goto(c, "unlock") /\ conversations' = conversations
      <3>1. calls'[c].pc \notin Searching /\ \A d \in Calls : d # c => calls'[d] = calls[d]
        BY <2>4, <1>g DEF Searching
      <3>. QED BY <2>1, <2>4, <3>1, <1>u, <1>0
    <2>. QED BY <1>5, <2>2, <2>3, <2>4 DEF ListConversations
  <1>6. ASSUME NEW c \in Calls, Create(c) PROVE Sectioned'
    <2>1. upset' = upset /\ provider' = provider /\ calls[c].pc = "create"
      BY <1>6 DEF Create
    <2>2. CASE \E x \in {"open", "pending"} : conversations' = Append(conversations, x) /\ \E k : With(c, "unlock", k)
      <3>1. PICK x \in {"open", "pending"} : conversations' = Append(conversations, x) /\ \E k : With(c, "unlock", k)
        BY <2>2
      <3>2. calls'[c].pc = "unlock" /\ \A d \in Calls : d # c => calls'[d] = calls[d]
        BY <3>1, <1>w
      <3>3. ASSUME upset' \cap {"section", "import"} = {}
            PROVE  OneSearches' /\ NoneToTake' /\ OneToTake'
        <4>1. OneSearches /\ NoneToTake /\ OneToTake
          BY <3>3, <2>1 DEF Sectioned
        <4>2. \A d \in Calls : calls'[d].pc \notin Searching
          BY <4>1, <3>2, <2>1 DEF OneSearches, Searching
        <4>3. OneSearches' /\ NoneToTake'
          BY <4>2 DEF OneSearches, NoneToTake, Searching
        <4>4. \A k \in DOMAIN conversations : ~Suitable(k)
          BY <4>1, <2>1 DEF NoneToTake
        <4>5. OneToTake'
          BY <1>t, <2>1, <3>1, <4>4, AppendAlone
        <4>. QED BY <4>3, <4>5
      <3>. QED BY <3>3 DEF Sectioned
    <2>3. CASE Goto(c, "unlock") /\ conversations' = conversations
      <3>1. calls'[c].pc \notin Searching /\ \A d \in Calls : d # c => calls'[d] = calls[d]
        BY <2>3, <1>g DEF Searching
      <3>. QED BY <2>1, <2>3, <3>1, <1>u, <1>0
    <2>. QED BY <1>6, <2>2, <2>3 DEF Create
  <1>7. ASSUME NEW c \in Calls, NEW l,
               Goto(c, l) \/ Return(c) \/ (\E k : With(c, l, k)) \/ (\E m : Begin(c, l, m)),
               l \notin Searching, upset \subseteq upset', conversations' = conversations, provider' = provider
        PROVE  Sectioned'
    <2>1. calls'[c].pc \notin Searching /\ \A d \in Calls : d # c => calls'[d] = calls[d]
      BY <1>7, <1>g, <1>i, <1>w, <1>b DEF Searching
    <2>. QED BY <1>7, <2>1, <1>u, <1>0
  <1>8. ASSUME NEW c \in Calls, Unlock(c) PROVE Sectioned'
    <2>1. conversations' = conversations /\ provider' = provider /\ upset' = upset
          /\ (Goto(c, "store") \/ Goto(c, "post"))
      BY <1>8 DEF Unlock
    <2>. QED BY <2>1, <1>7 DEF Searching
  <1>9. ASSUME NEW c \in Calls, Post(c) PROVE Sectioned'
    <2>1. conversations' = conversations /\ provider' = provider /\ upset' = upset
          /\ (Goto(c, "store") \/ With(c, "store", 0))
      BY <1>9 DEF Post
    <2>. QED BY <2>1, <1>7 DEF Searching
  <1>10. ASSUME NEW c \in Calls, Store(c) \/ Link(c) \/ DeleteInChatwoot(c) PROVE Sectioned'
    <2>1. conversations' = conversations /\ provider' = provider /\ upset' = upset /\ Return(c)
      BY <1>10 DEF Store, Link, DeleteInChatwoot
    <2>. QED BY <2>1, <1>i, <1>u, <1>0 DEF Searching
  <1>11. ASSUME NEW c \in Calls, AgentSend(c) PROVE Sectioned'
    <2>1. conversations' = conversations /\ provider' = provider /\ upset' = upset
          /\ (Return(c) \/ Goto(c, "cache") \/ Goto(c, "link"))
      BY <1>11 DEF AgentSend
    <2>. QED BY <2>1, <1>7 DEF Searching
  <1>12. ASSUME NEW c \in Calls, DeleteRow(c) PROVE Sectioned'
    <2>1. conversations' = conversations /\ provider' = provider /\ upset' = upset /\ Goto(c, "del_chatwoot")
      BY <1>12 DEF DeleteRow
    <2>. QED BY <2>1, <1>7 DEF Searching
  <1>13. ASSUME NEW c \in Calls, BeginImport(c) PROVE Sectioned'
    <2>1. conversations' = conversations /\ provider' = provider /\ upset \subseteq upset'
          /\ calls' = [calls EXCEPT ![c] = [Idle EXCEPT !.pc = "import"]]
      BY <1>13 DEF BeginImport
    <2>2. [Idle EXCEPT !.pc = "import"].pc = "import"
      BY DEF Idle
    <2>. QED BY <2>1, <2>2, <1>e, <1>u, <1>0 DEF Searching
  <1>14. ASSUME NEW c \in Calls, EndImport(c) PROVE Sectioned'
    <2>1. /\ provider' = provider /\ Return(c)
          /\ upset' = IF \E d \in Calls : Msg(d) \in importing[c] \/ calls[d].pc \in Section
                      THEN upset \cup {"import"} ELSE upset
          /\ conversations' = conversations \/ conversations' = ConversationForImport
      BY <1>14 DEF EndImport
    <2>2. CASE conversations' = conversations
      BY <2>1, <2>2, <1>i, <1>u, <1>0 DEF Searching
    <2>3. CASE "import" \in upset'
      BY <2>3 DEF Sectioned
    <2>4. CASE conversations' # conversations /\ "import" \notin upset'
      <3>1. conversations' = Append(conversations, "open") /\ \A k \in DOMAIN conversations : ~Live(k)
        BY <2>1, <2>4 DEF ConversationForImport
      <3>2. \A d \in Calls : calls[d].pc \notin Searching
        BY <2>1, <2>4 DEF Section, Searching
      <3>3. \A d \in Calls : calls'[d].pc \notin Searching
        BY <3>2, <2>1, <1>i DEF Searching
      <3>4. OneSearches' /\ NoneToTake'
        BY <3>3 DEF OneSearches, NoneToTake, Searching
      <3>5. \A k \in DOMAIN conversations : ~Suitable(k)
        BY <3>1 DEF Suitable
      <3>6. OneToTake'
        BY <1>t, <2>1, <3>1, <3>5, AppendAlone
      <3>. QED BY <3>4, <3>6 DEF Sectioned
    <2>. QED BY <2>2, <2>3, <2>4
  <1>15. ASSUME NEW c \in Calls, NEW m \in Messages, Upsert(c, m) \/ ApiSend(c, m) PROVE Sectioned'
    <2>1. conversations' = conversations /\ provider' = provider /\ upset' = upset /\ Begin(c, "cache", m)
      BY <1>15 DEF Upsert, ApiSend
    <2>. QED BY <2>1, <1>7 DEF Searching
  <1>16. ASSUME NEW c \in Calls, NEW m \in Messages, WhatsAppDelete(c, m) PROVE Sectioned'
    <2>1. conversations' = conversations /\ provider' = provider /\ upset \subseteq upset'
          /\ (Begin(c, "del_row", m) \/ calls' = calls)
      BY <1>16 DEF WhatsAppDelete
    <2>2. "del_row" \notin Searching
      BY DEF Searching
    <2>3. CASE Begin(c, "del_row", m)
      BY <2>1, <2>2, <2>3, <1>7
    <2>4. CASE calls' = calls
      BY <2>1, <2>4, <1>u, <1>s
    <2>. QED BY <2>1, <2>3, <2>4
  <1>17. ASSUME NEW c \in Calls, NEW w \in webhooks, Created(c, w) PROVE Sectioned'
    <2>1. conversations' = conversations /\ provider' = provider /\ upset \subseteq upset'
          /\ (Begin(c, "agent", w.msg) \/ calls' = calls)
      BY <1>17 DEF Created
    <2>2. "agent" \notin Searching
      BY DEF Searching
    <2>3. CASE Begin(c, "agent", w.msg)
      BY <2>1, <2>2, <2>3, <1>7
    <2>4. CASE calls' = calls
      BY <2>1, <2>4, <1>u, <1>s
    <2>. QED BY <2>1, <2>3, <2>4
  <1>18. ASSUME NEW m \in Messages, StoreSent(m) \/ AgentDelete(m) \/ PhoneHistory(m)
                                    \/ \E k \in DOMAIN conversations : Write(m, k)
         PROVE Sectioned'
    <2>1. conversations' = conversations /\ provider' = provider /\ upset' = upset /\ calls' = calls
      BY <1>18 DEF StoreSent, AgentDelete, PhoneHistory, Write, evolution
    <2>. QED BY <2>1, <1>u, <1>s
  <1>19. ASSUME NEW w \in webhooks, Deleted(w) \/ Resolved(w) PROVE Sectioned'
    <2>1. conversations' = conversations /\ provider' = provider /\ upset \subseteq upset' /\ calls' = calls
      BY <1>19 DEF Deleted, Resolved, evolution
    <2>. QED BY <2>1, <1>u, <1>s
  <1>20. ASSUME Recreate PROVE Sectioned'
    <2>1. conversations' = conversations /\ provider' = provider /\ upset \subseteq upset' /\ calls' = calls
      BY <1>20 DEF Recreate, evolution
    <2>. QED BY <2>1, <1>u, <1>s
  <1>21. ASSUME Move PROVE Sectioned'
    <2>1. provider' = provider /\ upset' = upset /\ calls' = calls
      BY <1>21 DEF Move
    <2>2. conversations' = conversations
          \/ \E k \in DOMAIN conversations : \E x \in {"resolved", "deleted"} :
               /\ conversations' = [conversations EXCEPT ![k] = x]
               /\ conversations[k] # "deleted"
      BY <1>21 DEF Move, Resolve, DeleteConversation, Expire, Unresolved, Live
    <2>3. CASE conversations' = conversations
      BY <2>1, <2>3, <1>u, <1>s
    <2>4. ASSUME NEW k \in DOMAIN conversations, NEW x \in {"resolved", "deleted"},
                 conversations' = [conversations EXCEPT ![k] = x], conversations[k] # "deleted"
          PROVE  Sectioned'
      <3>1. DOMAIN conversations' = DOMAIN conversations
            /\ \A j \in DOMAIN conversations : conversations'[j] = IF j = k THEN x ELSE conversations[j]
        BY <2>4
      <3>2. ASSUME NEW j, j \in DOMAIN conversations', Suitable(j)'
            PROVE  j \in DOMAIN conversations /\ Suitable(j)
        BY <2>1, <2>4, <3>1, <3>2 DEF Suitable, Live, Unresolved
      <3>. QED BY <2>1, <3>2, <1>s
    <2>. QED BY <2>2, <2>3, <2>4
  <1>22. ASSUME Restart PROVE Sectioned'
    <2>1. conversations' = conversations /\ provider' = provider /\ upset' = upset
          /\ calls' = [c \in Calls |-> Idle]
      BY <1>22 DEF Restart
    <2>2. \A d \in Calls : calls'[d].pc = "idle"
      BY <2>1 DEF Idle
    <2>3. NoSearchBegins
      BY <2>1, <2>2, <1>u DEF NoSearchBegins, Searching
    <2>. QED BY <2>3, SectionKept
  <1>. QED BY <1>1, <1>2, <1>3, <1>4, <1>5, <1>6, <1>8, <1>9, <1>10, <1>11, <1>12, <1>13,
              <1>14,
              <1>15, <1>16, <1>17, <1>18, <1>19, <1>20, <1>21, <1>22 DEF Next, Create_

(* Which leaves the contact one conversation to answer.                     *)
LEMMA SectionedMeans ==
  ASSUME BridgeTypes, Sectioned
  PROVE  OneConversation
PROOF
  <1>1. SUFFICES ASSUME upset \cap {"section", "import"} = {}
                 PROVE  Cardinality(Unresolved) <= 1
    BY DEF OneConversation
  <1>2. \A j, k \in Unresolved : j = k
    BY <1>1 DEF Sectioned, OneToTake, Suitable, Live, Unresolved
  <1>3. CASE Unresolved = {}
    BY <1>3, FS_EmptySet
  <1>4. CASE Unresolved # {}
    <2>1. PICK k : Unresolved = {k}
      BY <1>2, <1>4
    <2>. QED BY <2>1, FS_Singleton
  <1>. QED BY <1>3, <1>4

(* A step that leaves a message alone, or imports one that failed.          *)
Same(n) ==
  /\ messages'[n] = messages[n]
  /\ \A d \in Calls : calls'[d] = calls[d] \/ (calls[d].msg # n /\ calls'[d].msg # n)
  /\ (Reported(n))' = Reported(n)
  /\ (DeleteReported(n))' = DeleteReported(n)
  /\ (InImport(n))' => InImport(n) \/ (messages[n].spoilt /\ messages[n].origin # None)

(* The calls on a message that a step leaves alone.                         *)
LEMMA SameOn ==
  ASSUME NEW n, Same(n), NEW pcs
  PROVE  On(n, pcs)' = On(n, pcs)
PROOF
  BY DEF Same, On

(* A message that a step leaves alone stays fine.                           *)
LEMMA OthersFine ==
  ASSUME NEW n, Same(n), Fine(n)
  PROVE  Fine(n)'
PROOF
  <1>o. \A pcs : On(n, pcs)' = On(n, pcs)
    BY SameOn
  <1>1. OneWorks(n)'
    BY DEF Same, Fine, OneWorks
  <1>2. Unborn(n)'
    BY <1>o DEF Same, Fine, Unborn
  <1>3. InItsWay(n)'
    BY <1>o DEF Same, Fine, InItsWay, Bridged, Awaited
  <1>4. SentOnce(n)'
    BY <1>o DEF Same, Fine, SentOnce, Bridged
  <1>5. ShownOnce(n)'
    BY <1>o DEF Same, Fine, ShownOnce, Bridged
  <1>6. NoConversation(n)'
    BY <1>o DEF Same, Fine, NoConversation
  <1>. QED BY <1>1, <1>2, <1>3, <1>4, <1>5, <1>6 DEF Fine

(* And its deletions go on.                                                 *)
LEMMA OthersErased ==
  ASSUME NEW n, Same(n), DeletionsGoOn(n)
  PROVE  DeletionsGoOn(n)'
PROOF
  <1>o. \A pcs : On(n, pcs)' = On(n, pcs)
    BY SameOn
  <1>1. WillLink(n)' = WillLink(n)
    BY <1>o DEF Same, WillLink, Awaited
  <1>. QED BY <1>o, <1>1 DEF Same, DeletionsGoOn

(* A step that changes one call, to r, and one message, to x; a message    *)
(* like x but for a failed request, or for its row.                         *)
Step(c, m, r, x) ==
  /\ \A d \in Calls : calls'[d] = IF d = c THEN r ELSE calls[d]
  /\ \A n \in Messages : messages'[n] = IF n = m THEN x ELSE messages[n]

Spoils(x, y) ==
  /\ y.origin = x.origin /\ y.addr = x.addr /\ y.whatsapp = x.whatsapp /\ y.sends = x.sends
  /\ y.shown = x.shown /\ y.gone = x.gone /\ y.row = x.row
  /\ x.spoilt => y.spoilt

(* A call goes on towards Chatwoot.                                         *)
LEMMA BridgingStep ==
  ASSUME NEW c \in Calls, NEW m \in Messages, NEW r, NEW x, Step(c, m, r, x), Fine(m),
         calls[c].msg = m, calls[c].pc \in Bridging, r.msg = m, r.pc \in Bridging,
         (Reported(m))' = Reported(m), (DeleteReported(m))' = DeleteReported(m),
         (InImport(m))' => InImport(m),
         Spoils(messages[m], x), r.pc = "unlock" /\ r.conv = 0 => x.spoilt
  PROVE  Fine(m)' /\ (DeletionsGoOn(m) => DeletionsGoOn(m)')
PROOF
  <1>1. OneWorks(m)'
    BY DEF OneWorks, Step, Fine, On, Working
  <1>2. Unborn(m)'
    BY DEF Unborn, Step, Fine, On, Bridging, Pcs, Spoils
  <1>3. InItsWay(m)'
    BY DEF InItsWay, OneWorks, Step, Fine, On, Bridging, Working, Spoils, Awaited
  <1>4. SentOnce(m)'
    BY DEF SentOnce, Step, Fine, On, Bridging, Pcs, Spoils, Bridged
  <1>5. ShownOnce(m)'
    BY DEF ShownOnce, InItsWay, Step, Fine, On, Spoils, Bridged
  <1>6. NoConversation(m)'
    BY DEF NoConversation, OneWorks, Step, Fine, On, Bridging, Working
  <1>7. DeletionsGoOn(m) => DeletionsGoOn(m)'
    BY DEF DeletionsGoOn, WillLink, Step, Fine, On, Bridging, Working, Spoils, Awaited
  <1>. QED BY <1>1, <1>2, <1>3, <1>4, <1>5, <1>6, <1>7 DEF Fine

(* A call fails to bring its message to Chatwoot.                           *)
LEMMA StoreStep ==
  ASSUME NEW c \in Calls, NEW m \in Messages, NEW r, NEW x, Step(c, m, r, x), Fine(m),
         calls[c].msg = m, calls[c].pc \in {"unlock", "post"}, r.msg = m, r.pc = "store",
         r.conv = 0 => x.spoilt, Spoils(messages[m], x), x.spoilt,
         (Reported(m))' = Reported(m), (DeleteReported(m))' = DeleteReported(m),
         (InImport(m))' => InImport(m)
  PROVE  Fine(m)' /\ (DeletionsGoOn(m) => DeletionsGoOn(m)')
PROOF
  <1>1. OneWorks(m)'
    BY DEF OneWorks, Step, Fine, On, Bridging, Working
  <1>2. Unborn(m)'
    BY DEF Unborn, Step, Fine, On, Pcs, Spoils
  <1>3. InItsWay(m)'
    BY DEF InItsWay, OneWorks, Step, Fine, On, Bridging, Working, Spoils, Awaited
  <1>4. SentOnce(m)'
    BY DEF SentOnce, Step, Fine, On, Pcs, Spoils, Bridged
  <1>5. ShownOnce(m)'
    BY DEF ShownOnce, Step, Fine, On
  <1>6. NoConversation(m)'
    BY DEF NoConversation, Step, Fine, On
  <1>7. DeletionsGoOn(m) => DeletionsGoOn(m)'
    BY DEF DeletionsGoOn, Step, Fine, On
  <1>. QED BY <1>1, <1>2, <1>3, <1>4, <1>5, <1>6, <1>7 DEF Fine

(* Chatwoot shows the message.                                              *)
LEMMA ShownStep ==
  ASSUME NEW c \in Calls, NEW m \in Messages, NEW r, NEW x, Step(c, m, r, x), Fine(m),
         calls[c].msg = m, calls[c].pc = "post", r.msg = m, r.pc = "store", r.conv # 0,
         x.origin = messages[m].origin, x.addr = messages[m].addr, x.whatsapp = messages[m].whatsapp,
         x.sends = messages[m].sends, x.gone = messages[m].gone, x.row = messages[m].row,
         x.spoilt = messages[m].spoilt, x.shown = messages[m].shown + 1, messages[m].shown \in Nat,
         (Reported(m))' => Reported(m) \/ Bridged(m), Reported(m) => (Reported(m))',
         (DeleteReported(m))' = DeleteReported(m), (InImport(m))' => InImport(m)
  PROVE  Fine(m)' /\ (DeletionsGoOn(m) => DeletionsGoOn(m)')
PROOF
  <1>1. OneWorks(m)'
    BY DEF OneWorks, Step, Fine, On, Bridging, Working
  <1>2. Unborn(m)'
    BY DEF Unborn, Step, Fine, On, Pcs
  <1>3. InItsWay(m)'
    BY DEF InItsWay, Step, Fine, On, Bridging, Working, Bridged, Awaited
  <1>4. SentOnce(m)'
    BY DEF SentOnce, Step, Fine, On, Pcs, Bridged
  <1>5. ShownOnce(m)'
    BY DEF ShownOnce, InItsWay, SentOnce, OneWorks, Step, Fine, On, Bridging, Working,
           Bridged
  <1>6. NoConversation(m)'
    BY DEF NoConversation, Step, Fine, On
  <1>7. DeletionsGoOn(m) => DeletionsGoOn(m)'
    BY DEF DeletionsGoOn, WillLink, InItsWay, Step, Fine, On, Bridging, Working, Awaited
  <1>. QED BY <1>1, <1>2, <1>3, <1>4, <1>5, <1>6, <1>7 DEF Fine

SameButRow(x, y) ==
  /\ y.origin = x.origin /\ y.addr = x.addr /\ y.whatsapp = x.whatsapp /\ y.sends = x.sends
  /\ y.shown = x.shown /\ y.gone = x.gone /\ y.spoilt = x.spoilt

(* A call ends with the row of its message.                                 *)
LEMMA RowStep ==
  ASSUME NEW c \in Calls, NEW m \in Messages, NEW r, NEW x, Step(c, m, r, x), Fine(m),
         calls[c].msg = m, r = Idle, None # m, SameButRow(messages[m], x),
         \/ calls[c].pc = "store" /\ Awaited(m) /\ x.row = (IF calls[c].conv = 0 THEN "plain" ELSE "linked")
         \/ calls[c].pc = "store" /\ ~Awaited(m) /\ x.row = messages[m].row
         \/ calls[c].pc = "link" /\ x.row = (IF messages[m].row = "plain" THEN "linked" ELSE messages[m].row),
         (Reported(m))' = Reported(m), (DeleteReported(m))' = DeleteReported(m),
         (InImport(m))' => InImport(m)
  PROVE  Fine(m)' /\ (DeletionsGoOn(m) => DeletionsGoOn(m)')
PROOF
  <1>a. ~On(m, Working)' /\ ~On(m, {"link"})'
    BY DEF Step, Fine, OneWorks, On, Bridging, Working, Idle
  <1>b. On(m, {"del_row", "del_chatwoot"})' = On(m, {"del_row", "del_chatwoot"})
        /\ On(m, {"del_row"})' = On(m, {"del_row"})
    BY DEF Step, On, Idle
  <1>c. \A pcs : On(m, pcs)' => On(m, pcs)
    BY DEF Step, On, Idle
  <1>d. messages'[m] = x
    BY DEF Step
  <1>e. On(m, {"agent"})' => On(m, Working)'
    BY DEF On, Working
  <1>1. OneWorks(m)'
    BY DEF OneWorks, Step, Fine, On, Working
  <1>2. Unborn(m)'
    BY DEF Unborn, Step, Fine, On, Pcs, SameButRow
  <1>3. InItsWay(m)'
    BY <1>a, <1>b, <1>c, <1>d DEF InItsWay, Fine, SameButRow, On, Working, Bridging,
           Bridged, Awaited
  <1>4. SentOnce(m)'
    BY DEF SentOnce, Step, Fine, On, Bridged, Awaited, Idle, SameButRow
  <1>5. ShownOnce(m)'
    BY DEF ShownOnce, InItsWay, Step, Fine, On, Bridging, Bridged, Idle, SameButRow
  <1>6. NoConversation(m)'
    BY DEF NoConversation, OneWorks, Step, Fine, On, Bridging, Working, Idle
  <1>7. DeletionsGoOn(m) => DeletionsGoOn(m)'
    BY <1>a, <1>b, <1>c, <1>d, <1>e DEF DeletionsGoOn, WillLink, InItsWay, Fine,
           SameButRow, On, Working, Bridging, Bridged, Awaited
  <1>. QED BY <1>1, <1>2, <1>3, <1>4, <1>5, <1>6, <1>7 DEF Fine

(* What an agent wrote is sent.                                             *)
LEMMA SendStep ==
  ASSUME NEW c \in Calls, NEW m \in Messages, NEW r, NEW x, Step(c, m, r, x), Fine(m),
         calls[c].msg = m, calls[c].pc = "agent", r.msg = m,
         r.pc = (IF messages[m].origin = "template" THEN "cache" ELSE "link"),
         x.origin = messages[m].origin, x.whatsapp = "there", x.sends = messages[m].sends + 1,
         x.shown = messages[m].shown, x.gone = messages[m].gone, x.spoilt = messages[m].spoilt,
         x.row = (IF messages[m].origin = "template" \/ messages[m].row # "unsaved"
                  THEN messages[m].row ELSE "plain"), messages[m].sends \in Nat,
         messages[m].origin \in Origins \cup {None},
         (Reported(m))' = Reported(m), (DeleteReported(m))' = DeleteReported(m),
         (InImport(m))' => InImport(m)
  PROVE  Fine(m)' /\ (DeletionsGoOn(m) => DeletionsGoOn(m)')
PROOF
  <1>a. On(m, {"agent"}) /\ On(m, {"agent", "link"}) /\ On(m, Pcs) /\ On(m, Working)
    BY DEF On, Pcs, Working
  <1>b. messages[m].origin \in {"agent", "template"}
    BY <1>a DEF Fine, Unborn, InItsWay, Bridged, Origins
  <1>c. messages[m].sends = 0 /\ messages[m].row = "unsaved" /\ ~Reported(m)
    BY <1>a, <1>b DEF Fine, InItsWay, SentOnce
  <1>d. ~On(m, {"del_row", "del_chatwoot"})
    BY <1>c DEF Fine, InItsWay
  <1>e. messages'[m] = x
    BY DEF Step
  <1>f. ~On(m, {"del_row", "del_chatwoot"})'
    BY <1>d DEF Step, On
  <1>g. \A d \in Calls : calls'[d].msg = m /\ calls'[d].pc \in Working => d = c
    <2>1. \A d \in Calls : calls[d].msg = m /\ calls[d].pc \in Working => d = c
      BY DEF Fine, OneWorks, Working
    <2>. QED BY <2>1 DEF Step
  <1>h. /\ messages[m].origin = "agent" => ~On(m, Bridging \cup {"store"})'
        /\ messages[m].origin = "template" => ~On(m, {"link"})'
        /\ ~On(m, {"agent"})'
    BY <1>g DEF Step, On, Working, Bridging
  <1>1. OneWorks(m)'
    BY DEF OneWorks, Step, Fine, On, Working
  <1>2. Unborn(m)'
    BY DEF Unborn, Step, Fine, On, Pcs
  <1>3. InItsWay(m)'
    BY <1>b, <1>c, <1>e, <1>f, <1>h DEF InItsWay, Fine, Bridged, Awaited
  <1>4. SentOnce(m)'
    BY DEF SentOnce, InItsWay, OneWorks, Step, Fine, On, Working, Bridged
  <1>5. ShownOnce(m)'
    BY DEF ShownOnce, SentOnce, Step, Fine, On, Bridging, Bridged
  <1>6. NoConversation(m)'
    BY DEF NoConversation, Step, Fine, On
  <1>7. DeletionsGoOn(m) => DeletionsGoOn(m)'
    BY <1>a, <1>b, <1>c, <1>e, <1>h DEF DeletionsGoOn, WillLink, Awaited, On, Step
  <1>. QED BY <1>1, <1>2, <1>3, <1>4, <1>5, <1>6, <1>7 DEF Fine

(* A request of a call fails, which ends it.                                *)
LEMMA FailStep ==
  ASSUME NEW c \in Calls, NEW m \in Messages, NEW r, NEW x, Step(c, m, r, x), Fine(m),
         calls[c].msg = m, calls[c].pc \in {"agent", "del_chatwoot"}, r = Idle, None # m,
         Spoils(messages[m], x), x.spoilt,
         (Reported(m))' = Reported(m), (DeleteReported(m))' = DeleteReported(m),
         (InImport(m))' => InImport(m)
  PROVE  Fine(m)' /\ (DeletionsGoOn(m) => DeletionsGoOn(m)')
PROOF
  <1>1. OneWorks(m)'
    BY DEF OneWorks, Step, Fine, On, Idle
  <1>2. Unborn(m)'
    BY DEF Unborn, Step, Fine, On, Pcs, Spoils
  <1>3. InItsWay(m)'
    BY DEF InItsWay, Step, Fine, On, Spoils, Bridged, Awaited, Idle
  <1>4. SentOnce(m)'
    BY DEF SentOnce, Step, Fine, On, Spoils, Bridged, Idle
  <1>5. ShownOnce(m)'
    BY DEF ShownOnce, Step, Fine, On
  <1>6. NoConversation(m)'
    BY DEF NoConversation, Step, Fine, On
  <1>7. DeletionsGoOn(m) => DeletionsGoOn(m)'
    BY DEF DeletionsGoOn, Step, Fine, On
  <1>. QED BY <1>1, <1>2, <1>3, <1>4, <1>5, <1>6, <1>7 DEF Fine

(* The row of a message that was deleted on the phone goes.                 *)
LEMMA RemoveStep ==
  ASSUME NEW c \in Calls, NEW m \in Messages, NEW r, NEW x, Step(c, m, r, x), Fine(m),
         calls[c].msg = m, calls[c].pc = "del_row", r.msg = m, r.pc = "del_chatwoot",
         SameButRow(messages[m], x), x.row = "removed",
         (Reported(m))' = Reported(m), (DeleteReported(m))' = DeleteReported(m),
         (InImport(m))' => InImport(m)
  PROVE  Fine(m)' /\ (DeletionsGoOn(m) => DeletionsGoOn(m)')
PROOF
  <1>1. OneWorks(m)'
    BY DEF OneWorks, Step, Fine, On, Bridging, Working
  <1>2. Unborn(m)'
    BY DEF Unborn, Step, Fine, On, Pcs, SameButRow
  <1>3. InItsWay(m)'
    BY DEF InItsWay, Step, Fine, On, Bridging, Working, Bridged, Awaited, SameButRow
  <1>4. SentOnce(m)'
    BY DEF SentOnce, InItsWay, Step, Fine, On, SameButRow
  <1>5. ShownOnce(m)'
    BY DEF ShownOnce, Step, Fine, On, Bridging, Bridged, SameButRow
  <1>6. NoConversation(m)'
    BY DEF NoConversation, Step, Fine, On, SameButRow
  <1>7. DeletionsGoOn(m) => DeletionsGoOn(m)'
    BY DEF DeletionsGoOn, InItsWay, Step, Fine, On, SameButRow
  <1>. QED BY <1>1, <1>2, <1>3, <1>4, <1>5, <1>6, <1>7 DEF Fine

(* Chatwoot deletes the message, and reports it.                            *)
LEMMA ErasedStep ==
  ASSUME NEW c \in Calls, NEW m \in Messages, NEW r, NEW x, Step(c, m, r, x), Fine(m),
         \/ calls[c].msg = m /\ calls[c].pc = "del_chatwoot" /\ r = Idle
         \/ r = calls[c] /\ messages[m].shown > 0, None # m,
         x.origin = messages[m].origin, x.whatsapp = messages[m].whatsapp, x.sends = messages[m].sends,
         x.shown = messages[m].shown, x.row = messages[m].row, x.spoilt = messages[m].spoilt, x.gone,
         (Reported(m))' = Reported(m), (DeleteReported(m))', (InImport(m))' => InImport(m)
  PROVE  Fine(m)' /\ (DeletionsGoOn(m) => DeletionsGoOn(m)')
PROOF
  <1>1. OneWorks(m)'
    BY DEF OneWorks, Step, Fine, On, Idle
  <1>2. Unborn(m)'
    BY DEF Unborn, Unseen, Step, Fine, On, Pcs
  <1>3. InItsWay(m)'
    BY DEF InItsWay, Step, Fine, On, Bridged, Awaited, Idle
  <1>4. SentOnce(m)'
    BY DEF SentOnce, Step, Fine, On, Bridged, Idle
  <1>5. ShownOnce(m)'
    BY DEF ShownOnce, Step, Fine, On, Bridging, Bridged, Idle
  <1>6. NoConversation(m)'
    BY DEF NoConversation, Step, Fine, On, Idle
  <1>7. DeletionsGoOn(m) => DeletionsGoOn(m)'
    BY DEF DeletionsGoOn, WillLink, Step, Fine, On, Awaited, Idle
  <1>. QED BY <1>1, <1>2, <1>3, <1>4, <1>5, <1>6, <1>7 DEF Fine

(* A message enters.                                                        *)
LEMMA BirthStep ==
  ASSUME NEW c \in Calls, NEW m \in Messages, NEW r, NEW x, Step(c, m, r, x), Fine(m),
         \A d \in Calls : calls[d].pc \in Pcs, messages[m].origin = None, None \notin Origins,
         \/ /\ calls[c].msg = None /\ r.msg = m /\ r.pc = "cache"
            /\ x.origin \in {"contact", "phone"} /\ x.whatsapp = "there" /\ x.sends = 0 /\ x.shown = 0
            /\ (Reported(m))' = Reported(m)
         \/ /\ calls[c].msg = None /\ r.msg = m /\ r.pc = "cache"
            /\ x.origin = "api" /\ x.whatsapp = "there" /\ x.sends = 1 /\ x.shown = 0
            /\ (Reported(m))' = Reported(m)
         \/ /\ r = calls[c] /\ x.origin \in {"agent", "template"}
            /\ x.whatsapp = "none" /\ x.sends = 0 /\ x.shown = 1 /\ (Reported(m))',
         x.gone = FALSE, x.row = "unsaved", x.spoilt = FALSE,
         (DeleteReported(m))' = DeleteReported(m), (InImport(m))' => InImport(m)
  PROVE  Fine(m)' /\ (DeletionsGoOn(m) => DeletionsGoOn(m)')
PROOF
  <1>a. \A d \in Calls : calls[d].msg # m
    BY DEF Fine, Unborn, On
  <1>1. OneWorks(m)'
    BY <1>a DEF OneWorks, Step, Fine, On
  <1>2. Unborn(m)'
    BY <1>a DEF Step, Fine, Unborn, On, Origins
  <1>3. InItsWay(m)'
    BY <1>a DEF InItsWay, Step, Fine, Unborn, On
  <1>4. SentOnce(m)'
    BY <1>a DEF SentOnce, Step, Fine, On, Bridged
  <1>5. ShownOnce(m)'
    BY <1>a DEF ShownOnce, Step, Fine, Unborn, On, Bridging
  <1>6. NoConversation(m)'
    BY <1>a DEF NoConversation, Step, Fine, On
  <1>7. DeletionsGoOn(m) => DeletionsGoOn(m)'
    BY DEF DeletionsGoOn, Step, Fine, On
  <1>. QED BY <1>1, <1>2, <1>3, <1>4, <1>5, <1>6, <1>7 DEF Fine

(* A message is deleted on the phone.                                       *)
LEMMA PhoneDeleteStep ==
  ASSUME NEW c \in Calls, NEW m \in Messages, NEW r, NEW x, Step(c, m, r, x), Fine(m),
         None # m, messages[m].whatsapp = "there", messages[m].row = "unsaved" => ~Awaited(m),
         x.origin = messages[m].origin, x.whatsapp = "deleted", x.sends = messages[m].sends,
         x.shown = messages[m].shown, x.row = messages[m].row, x.spoilt = messages[m].spoilt,
         x.gone = messages[m].gone,
         \/ messages[m].row = "linked" /\ calls[c].msg = None /\ r.msg = m /\ r.pc = "del_row"
         \/ messages[m].row # "linked" /\ r = calls[c],
         (Reported(m))' = Reported(m), (DeleteReported(m))' = DeleteReported(m),
         (InImport(m))' => InImport(m)
  PROVE  Fine(m)' /\ (DeletionsGoOn(m) /\ (messages[m].row # "linked" => ~WillLink(m)) => DeletionsGoOn(m)')
PROOF
  <1>a. /\ On(m, Bridging)' <=> On(m, Bridging)
        /\ On(m, {"link"})' <=> On(m, {"link"})
        /\ messages'[m] = x
    <2>1. r = calls[c] \/ (calls[c].msg # m /\ r.pc \notin Bridging \cup {"link"})
      BY DEF Bridging
    <2>2. ASSUME NEW pcs \in {Bridging, {"link"}} PROVE On(m, pcs)' <=> On(m, pcs)
      BY <2>1 DEF Step, On
    <2>. QED BY <2>2 DEF Step
  <1>1. OneWorks(m)'
    BY DEF OneWorks, Step, Fine, On, Bridging, Working
  <1>2. Unborn(m)'
    BY DEF Unborn, Step, Fine, On, Unseen
  <1>3. InItsWay(m)'
    BY DEF InItsWay, Step, Fine, On, Bridging, Working, Bridged, Awaited
  <1>4. SentOnce(m)'
    BY DEF SentOnce, Step, Fine, On
  <1>5. ShownOnce(m)'
    BY <1>a DEF ShownOnce, Fine, Unborn, Bridged
  <1>6. NoConversation(m)'
    BY DEF NoConversation, Step, Fine, On
  <1>7. DeletionsGoOn(m) /\ (messages[m].row # "linked" => ~WillLink(m)) => DeletionsGoOn(m)'
    BY DEF DeletionsGoOn, Step, Fine, On, Awaited, WillLink
  <1>. QED BY <1>1, <1>2, <1>3, <1>4, <1>5, <1>6, <1>7 DEF Fine

(* Chatwoot's report of a message is handled.                               *)
LEMMA ReportStep ==
  ASSUME NEW c \in Calls, NEW m \in Messages, NEW r, NEW x, Step(c, m, r, x), Fine(m),
         x = messages[m], Reported(m), ~(Reported(m))',
         \/ calls[c].msg = None /\ r.msg = m /\ r.pc = "agent" /\ messages[m].origin \in {"agent", "template"}
         \/ r = calls[c] /\ Bridged(m),
         (DeleteReported(m))' = DeleteReported(m), (InImport(m))' => InImport(m)
  PROVE  Fine(m)' /\ (DeletionsGoOn(m) => DeletionsGoOn(m)')
PROOF
  <1>1. OneWorks(m)'
    BY DEF OneWorks, InItsWay, Step, Fine, On
  <1>2. Unborn(m)'
    BY DEF Unborn, Step, Fine, On
  <1>3. InItsWay(m)'
    BY DEF InItsWay, Step, Fine, On, Bridging, Bridged, Awaited
  <1>4. SentOnce(m)'
    BY DEF SentOnce, Step, Fine, On, Bridged
  <1>5. ShownOnce(m)'
    BY DEF ShownOnce, SentOnce, Step, Fine, On, Bridged
  <1>6. NoConversation(m)'
    BY DEF NoConversation, Step, Fine, On
  <1>7. DeletionsGoOn(m) => DeletionsGoOn(m)'
    BY DEF DeletionsGoOn, WillLink, SentOnce, Step, Fine, On, Awaited
  <1>. QED BY <1>1, <1>2, <1>3, <1>4, <1>5, <1>6, <1>7 DEF Fine

(* The row of what was sent is made.                                        *)
LEMMA SentRowStep ==
  ASSUME NEW c \in Calls, NEW m \in Messages, NEW r, NEW x, Step(c, m, r, x), Fine(m),
         r = calls[c], SameButRow(messages[m], x), x.row = "plain",
         messages[m].origin \in {"api", "template"}, messages[m].sends > 0, messages[m].row = "unsaved",
         (Reported(m))' = Reported(m), (DeleteReported(m))' = DeleteReported(m),
         (InImport(m))' => InImport(m)
  PROVE  Fine(m)' /\ (DeletionsGoOn(m) => DeletionsGoOn(m)')
PROOF
  <1>1. OneWorks(m)'
    BY DEF OneWorks, Step, Fine, On
  <1>2. Unborn(m)'
    BY DEF Unborn, Unseen, Step, Fine, On, SameButRow
  <1>3. InItsWay(m)'
    BY DEF InItsWay, Step, Fine, On, Bridged, Awaited, SameButRow
  <1>4. SentOnce(m)'
    BY DEF SentOnce, Step, Fine, On, Bridged, SameButRow
  <1>5. ShownOnce(m)'
    BY DEF ShownOnce, Step, Fine, On, Bridged, SameButRow
  <1>6. NoConversation(m)'
    BY DEF NoConversation, Step, Fine, On, SameButRow
  <1>7. DeletionsGoOn(m) => DeletionsGoOn(m)'
    BY DEF DeletionsGoOn, WillLink, Step, Fine, On, Awaited, SameButRow
  <1>. QED BY <1>1, <1>2, <1>3, <1>4, <1>5, <1>6, <1>7 DEF Fine

(* Chatwoot's report of a deletion is handled.                              *)
LEMMA DeletionStep ==
  ASSUME NEW c \in Calls, NEW m \in Messages, NEW r, NEW x, Step(c, m, r, x), Fine(m),
         r = calls[c], DeleteReported(m), ~(DeleteReported(m))', (Reported(m))' = Reported(m),
         \/ /\ messages[m].row = "linked"
            /\ x.origin = messages[m].origin /\ x.whatsapp = "deleted" /\ x.sends = messages[m].sends
            /\ x.shown = messages[m].shown /\ x.row = "removed" /\ x.spoilt = messages[m].spoilt
            /\ x.gone = messages[m].gone
         \/ Spoils(messages[m], x) /\ x.spoilt
         \/ x = messages[m] /\ messages[m].row # "linked",
         (InImport(m))' => InImport(m)
  PROVE  Fine(m)' /\ (DeletionsGoOn(m) /\ (messages[m].row # "linked" => ~WillLink(m)) => DeletionsGoOn(m)')
PROOF
  <1>1. OneWorks(m)'
    BY DEF OneWorks, Step, Fine, On
  <1>2. Unborn(m)'
    BY DEF Unborn, Step, Fine, On, Spoils
  <1>3. InItsWay(m)'
    BY DEF InItsWay, Step, Fine, On, Spoils, Bridged, Awaited
  <1>4. SentOnce(m)'
    BY DEF SentOnce, Step, Fine, On, Spoils, Bridged
  <1>5. ShownOnce(m)'
    BY DEF ShownOnce, Step, Fine, On, Bridged
  <1>6. NoConversation(m)'
    BY DEF NoConversation, Step, Fine, On
  <1>7. DeletionsGoOn(m) /\ (messages[m].row # "linked" => ~WillLink(m)) => DeletionsGoOn(m)'
    BY DEF DeletionsGoOn, InItsWay, Step, Fine, On, Awaited, WillLink
  <1>. QED BY <1>1, <1>2, <1>3, <1>4, <1>5, <1>6, <1>7 DEF Fine

(* No webhook and no import of a message comes or goes.                     *)
Undisturbed(n) ==
  /\ (Reported(n))' = Reported(n)
  /\ (DeleteReported(n))' = DeleteReported(n)
  /\ (InImport(n))' => InImport(n)

AllFine ==
  \A n \in Messages : Fine(n)' /\ ("early" \notin upset' /\ DeletionsGoOn(n) => DeletionsGoOn(n)')

(* A step on one message, and one call, keeps them all fine.                *)
LEMMA StepDone ==
  ASSUME NEW c \in Calls, NEW m \in Messages, NEW r, NEW x, Step(c, m, r, x),
         \A n \in Messages : Fine(n), calls[c].msg \in {m, None}, r.msg \in {m, None},
         \A n \in Messages : n # m => Undisturbed(n),
         Fine(m)', "early" \notin upset' /\ DeletionsGoOn(m) => DeletionsGoOn(m)'
  PROVE  AllFine
PROOF
  <1>1. ASSUME NEW n \in Messages, n # m
        PROVE  Fine(n)' /\ (DeletionsGoOn(n) => DeletionsGoOn(n)')
    <2>1. None # n
      BY BridgeAssumption
    <2>2. Same(n)
      BY <1>1, <2>1 DEF Same, Step, Undisturbed
    <2>. QED BY <2>2, OthersFine, OthersErased
  <1>. QED BY <1>1 DEF AllFine

(* As does one on no message.                                               *)
LEMMA AllSame ==
  ASSUME \A n \in Messages : Fine(n), \A n \in Messages : Same(n)
  PROVE  AllFine
PROOF
  BY OthersFine, OthersErased DEF AllFine

(* No webhook, nothing imported.                                            *)
LEMMA NothingReported ==
  ASSUME webhooks' = webhooks, history' = history, importing' = importing
  PROVE  \A n : Undisturbed(n)
PROOF
  BY DEF Undisturbed, Reported, DeleteReported, InImport

(* The two halves of Step.                                                  *)
Moved(c, r) == \A d \in Calls : calls'[d] = IF d = c THEN r ELSE calls[d]
Put(m, x) == \A n \in Messages : messages'[n] = IF n = m THEN x ELSE messages[n]

(* The calls after one goes on, begins or returns.                          *)
LEMMA MovedCalls ==
  ASSUME CallsOK, NEW c \in Calls
  PROVE  /\ \A l : Goto(c, l) =>
              \E r : Moved(c, r) /\ r.pc = l /\ r.msg = calls[c].msg /\ r.conv = calls[c].conv
         /\ \A l, k : With(c, l, k) =>
              \E r : Moved(c, r) /\ r.pc = l /\ r.msg = calls[c].msg /\ r.conv = k
         /\ \A l, m : Begin(c, l, m) => \E r : Moved(c, r) /\ r.pc = l /\ r.msg = m
         /\ Return(c) => Moved(c, Idle)
         /\ calls' = calls => Moved(c, calls[c])
PROOF
  <1>c. calls \in [Calls -> BridgeCalls] /\ calls[c] \in BridgeCalls
    BY DEF CallsOK
  <1>1. ASSUME NEW l, Goto(c, l)
        PROVE  \E r : Moved(c, r) /\ r.pc = l /\ r.msg = calls[c].msg /\ r.conv = calls[c].conv
    <2> DEFINE r == [calls[c] EXCEPT !.pc = l]
    <2>1. r.pc = l /\ r.msg = calls[c].msg /\ r.conv = calls[c].conv
      BY <1>c DEF BridgeCalls
    <2>2. Moved(c, r)
      BY <1>c, <1>1 DEF Moved, Goto
    <2>. QED BY <2>1, <2>2
  <1>2. ASSUME NEW l, NEW k, With(c, l, k)
        PROVE  \E r : Moved(c, r) /\ r.pc = l /\ r.msg = calls[c].msg /\ r.conv = k
    <2> DEFINE r == [calls[c] EXCEPT !.pc = l, !.conv = k]
    <2>1. r.pc = l /\ r.msg = calls[c].msg /\ r.conv = k
      BY <1>c DEF BridgeCalls
    <2>2. Moved(c, r)
      BY <1>c, <1>2 DEF Moved, With, BridgeCalls
    <2>. QED BY <2>1, <2>2
  <1>3. ASSUME NEW l, NEW m, Begin(c, l, m)
        PROVE  \E r : Moved(c, r) /\ r.pc = l /\ r.msg = m
    <2> DEFINE r == [Idle EXCEPT !.pc = l, !.msg = m]
    <2>1. r.pc = l /\ r.msg = m
      BY DEF Idle
    <2>2. Moved(c, r)
      BY <1>c, <1>3 DEF Moved, Begin
    <2>. QED BY <2>1, <2>2
  <1>4. Return(c) => Moved(c, Idle)
    BY <1>c DEF Moved, Return
  <1>5. calls' = calls => Moved(c, calls[c])
    BY DEF Moved
  <1>. QED BY <1>1, <1>2, <1>3, <1>4, <1>5

(* The messages after one is written to.                                    *)
LEMMA PutMessages ==
  ASSUME MessagesOK, NEW m \in Messages
  PROVE  /\ messages' = messages => Put(m, messages[m])
         /\ Spoil(m) => \E x : Put(m, x) /\ Spoils(messages[m], x) /\ x.spoilt
         /\ \A x : messages' = [messages EXCEPT ![m] = x] => Put(m, x)
PROOF
  <1>c. messages \in [Messages -> MessageRecords] /\ messages[m] \in MessageRecords
    BY DEF MessagesOK
  <1>1. ASSUME Spoil(m)
        PROVE  \E x : Put(m, x) /\ Spoils(messages[m], x) /\ x.spoilt
    <2> DEFINE x == [messages[m] EXCEPT !.spoilt = TRUE]
    <2>1. Spoils(messages[m], x) /\ x.spoilt
      BY <1>c DEF MessageRecords, Spoils
    <2>2. Put(m, x)
      BY <1>c, <1>1 DEF Put, Spoil
    <2>. QED BY <2>1, <2>2
  <1>. QED BY <1>c, <1>1 DEF Put

(* Both together.                                                           *)
LEMMA AsStep ==
  ASSUME NEW c, NEW m, NEW r, NEW x, Moved(c, r), Put(m, x)
  PROVE  Step(c, m, r, x)
PROOF
  BY DEF Step, Moved, Put

(* An import shows a message again that a request failed for.               *)
LEMMA AgainFine ==
  ASSUME NEW n, Fine(n), InImport(n), Undisturbed(n),
         \A d \in Calls : calls'[d] = calls[d] \/ (calls[d].msg # n /\ calls'[d].msg # n),
         messages'[n].origin = messages[n].origin, messages'[n].sends = messages[n].sends,
         messages'[n].whatsapp = messages[n].whatsapp, messages'[n].row = messages[n].row,
         messages'[n].gone = messages[n].gone, messages'[n].spoilt = messages[n].spoilt
  PROVE  Fine(n)' /\ DeletionsGoOn(n)'
PROOF
  <1>o. \A pcs : On(n, pcs)' <=> On(n, pcs)
    BY DEF On
  <1>s. messages[n].spoilt /\ messages'[n].spoilt /\ messages[n].origin # None
    BY DEF Fine, ShownOnce, Unborn
  <1>1. OneWorks(n)'
    BY DEF Fine, OneWorks
  <1>2. Unborn(n)' /\ ShownOnce(n)' /\ NoConversation(n)' /\ DeletionsGoOn(n)'
    BY <1>s DEF Unborn, ShownOnce, NoConversation, DeletionsGoOn
  <1>3. InItsWay(n)'
    BY <1>o DEF Fine, InItsWay, Bridged, Awaited, Undisturbed
  <1>4. SentOnce(n)'
    BY <1>o, <1>s DEF Fine, SentOnce, Bridged, Undisturbed
  <1>. QED BY <1>1, <1>2, <1>3, <1>4 DEF Fine

(* A restart ends every call, and the message of each is one that failed.    *)
LEMMA RestartFine ==
  ASSUME NEW n, n # None, Fine(n), \A d \in Calls : calls[d].pc \in Pcs,
         \A d \in Calls : calls'[d] = Idle,
         (Reported(n))' = Reported(n), (DeleteReported(n))' = DeleteReported(n), ~(InImport(n))',
         NEW lost \in BOOLEAN,
         lost <=> /\ messages[n].origin \in {"api", "template"}
                  /\ messages[n].sends > 0 /\ messages[n].row = "unsaved",
         messages'[n].spoilt <=> messages[n].spoilt \/ lost \/ \E d \in Calls : calls[d].msg = n,
         messages'[n].row = (IF lost THEN "removed" ELSE messages[n].row),
         ~lost /\ (\A d \in Calls : calls[d].msg # n) => messages'[n] = messages[n],
         messages'[n].origin = messages[n].origin, messages'[n].sends = messages[n].sends,
         messages'[n].whatsapp = messages[n].whatsapp, messages'[n].shown = messages[n].shown,
         messages'[n].gone = messages[n].gone, None \notin Origins
  PROVE  Fine(n)' /\ (DeletionsGoOn(n) => DeletionsGoOn(n)')
PROOF
  <1>o. \A pcs : ~On(n, pcs)'
    BY DEF On, Idle
  <1>q. ~messages'[n].spoilt => messages'[n] = messages[n] /\ \A pcs : ~On(n, pcs)
    BY DEF On
  <1>1. OneWorks(n)' /\ NoConversation(n)'
    BY DEF OneWorks, NoConversation, Idle
  <1>2. Unborn(n)'
    BY <1>o DEF Fine, Unborn, Origins, On
  <1>3. InItsWay(n)'
    BY <1>o DEF Fine, InItsWay
  <1>4. SentOnce(n)'
    BY <1>o, <1>q DEF Fine, SentOnce, Bridged
  <1>5. ShownOnce(n)'
    BY <1>o, <1>q DEF Fine, ShownOnce, Bridged
  <1>6. DeletionsGoOn(n) => DeletionsGoOn(n)'
    BY <1>o, <1>q DEF DeletionsGoOn, WillLink, Awaited
  <1>. QED BY <1>1, <1>2, <1>3, <1>4, <1>5, <1>6 DEF Fine

(* Every step keeps every message fine, and its deletions going on unless a *)
(* webhook came early.                                                      *)
LEMMA MessagesStep ==
  ASSUME BridgeTypes, Next, \A n \in Messages : Fine(n),
         upset' \cap {"crossing", "import", "recreated"} = {}
  PROVE  AllFine
PROOF
  <1>t. MessagesOK /\ ConversationsOK /\ CallsOK /\ WebhooksOK /\ HistoryOK /\ ImportingOK
    BY DEF BridgeTypes
  <1>n. None \notin Messages
    BY BridgeAssumption
  <1>c. /\ \A c \in Calls : calls[c].msg \in Messages \cup {None} /\ calls[c].pc \in Pcs
        /\ \A c \in Calls : calls[c].pc \notin {"idle", "import"} => calls[c].msg \in Messages
        /\ \A c \in Calls : calls[c].pc \in {"idle", "import"} => calls[c].msg = None
    BY <1>t DEF CallsOK, CallsNamed, BridgeCalls
  <1>m. \A n \in Messages : messages[n] \in MessageRecords
    BY <1>t DEF MessagesOK
  <1>i. Idle.pc = "idle" /\ Idle.msg = None
    BY DEF Idle
  <1>q. ASSUME UNCHANGED <<webhooks, history, importing>>
        PROVE  \A n : Undisturbed(n)
    BY <1>q, NothingReported
  <1>b. ASSUME NEW c \in Calls, calls[c].pc \in Bridging, NEW r, Moved(c, r),
               r.msg = calls[c].msg, r.pc \in Bridging, UNCHANGED <<webhooks, history, importing>>,
               messages' = messages \/ Spoil(Msg(c)),
               r.pc = "unlock" /\ r.conv = 0 => Spoil(Msg(c))
        PROVE  AllFine
    <2>1. PICK m \in Messages : m = calls[c].msg
      BY <1>b, <1>c DEF Bridging
    <2>2. PICK x : Put(m, x) /\ Spoils(messages[m], x) /\ (r.pc = "unlock" /\ r.conv = 0 => x.spoilt)
      <3>1. CASE Spoil(m)
        BY <3>1, <1>t, PutMessages
      <3>2. CASE messages' = messages /\ ~Spoil(m)
        <4>1. Put(m, messages[m]) /\ Spoils(messages[m], messages[m])
          BY <3>2, <1>t, PutMessages DEF Spoils
        <4>. QED BY <1>b, <2>1, <3>2, <4>1 DEF Msg
      <3>. QED BY <1>b, <2>1, <3>1, <3>2 DEF Msg
    <2>3. Step(c, m, r, x)
      BY <1>b, <2>2, AsStep
    <2>4. Undisturbed(m)
      BY <1>b, <1>q
    <2>5. Fine(m)' /\ (DeletionsGoOn(m) => DeletionsGoOn(m)')
      BY <1>b, <2>1, <2>2, <2>3, <2>4, BridgingStep DEF Undisturbed
    <2>. QED BY <1>b, <1>q, <2>1, <2>3, <2>5, StepDone
  <1>1. ASSUME NEW c \in Calls, LookUp(c) PROVE AllFine
    <2>1. UNCHANGED <<messages, webhooks, history, importing>> /\ calls[c].pc = "cache"
      BY <1>1 DEF LookUp
    <2>2. calls' = calls \/ (\E k : With(c, "post", k)) \/ Goto(c, "wait") \/ Goto(c, "lock")
      BY <1>1 DEF LookUp
    <2>3. PICK r : Moved(c, r) /\ r.msg = calls[c].msg /\ r.pc \in {"cache", "post", "wait", "lock"}
      BY <2>1, <2>2, <1>t, MovedCalls
    <2>. QED BY <2>1, <2>3, <1>b DEF Bridging
  <1>2. ASSUME NEW c \in Calls, Wait(c) PROVE AllFine
    <2>1. UNCHANGED <<messages, webhooks, history, importing>> /\ calls[c].pc = "wait"
      BY <1>2 DEF Wait
    <2>2. (\E k : With(c, "post", k)) \/ Goto(c, "lock")
      BY <1>2 DEF Wait
    <2>3. PICK r : Moved(c, r) /\ r.msg = calls[c].msg /\ r.pc \in {"post", "lock"}
      BY <2>2, <1>t, MovedCalls
    <2>. QED BY <2>1, <2>3, <1>b DEF Bridging
  <1>3. ASSUME NEW c \in Calls, TakeLock(c) PROVE AllFine
    <2>1. UNCHANGED <<messages, webhooks, history, importing>> /\ calls[c].pc = "lock"
      BY <1>3 DEF TakeLock
    <2>2. (\E k : k # 0 /\ With(c, "unlock", k)) \/ Goto(c, "contact")
      BY <1>3 DEF TakeLock
    <2>3. PICK r : Moved(c, r) /\ r.msg = calls[c].msg /\ (r.pc = "contact" \/ (r.pc = "unlock" /\ r.conv # 0))
      BY <2>2, <1>t, MovedCalls
    <2>. QED BY <2>1, <2>3, <1>b DEF Bridging
  <1>4. ASSUME NEW c \in Calls, GetContact(c) PROVE AllFine
    <2>1. UNCHANGED <<webhooks, history, importing>> /\ calls[c].pc = "contact"
      BY <1>4 DEF GetContact
    <2>2. \/ Goto(c, "list") /\ messages' = messages
          \/ Goto(c, "unlock") /\ Spoil(Msg(c))
      BY <1>4 DEF GetContact
    <2>3. CASE Goto(c, "list") /\ messages' = messages
      <3>1. PICK r : Moved(c, r) /\ r.msg = calls[c].msg /\ r.pc = "list"
        BY <2>3, <1>t, MovedCalls
      <3>. QED BY <2>1, <2>3, <3>1, <1>b DEF Bridging
    <2>4. CASE Goto(c, "unlock") /\ Spoil(Msg(c))
      <3>1. PICK r : Moved(c, r) /\ r.msg = calls[c].msg /\ r.pc = "unlock"
        BY <2>4, <1>t, MovedCalls
      <3>. QED BY <2>1, <2>4, <3>1, <1>b DEF Bridging
    <2>. QED BY <2>2, <2>3, <2>4
  <1>5. ASSUME NEW c \in Calls, ListConversations(c) \/ Create(c) PROVE AllFine
    <2>1. UNCHANGED <<webhooks, history, importing>> /\ calls[c].pc \in {"list", "create"}
      BY <1>5 DEF ListConversations, Create
    <2>2. \/ messages' = messages /\ \E k : k # 0 /\ With(c, "unlock", k)
          \/ messages' = messages /\ Goto(c, "create")
          \/ Spoil(Msg(c)) /\ Goto(c, "unlock")
      <3>1. Len(conversations) \in Nat /\ DOMAIN conversations = 1..Len(conversations)
        BY <1>t, LenProperties DEF ConversationsOK
      <3>2. CASE ListConversations(c)
        BY <3>1, <3>2 DEF ListConversations
      <3>3. CASE Create(c)
        BY <3>1, <3>3 DEF Create
      <3>. QED BY <1>5, <3>2, <3>3
    <2>3. CASE messages' = messages /\ ((\E k : k # 0 /\ With(c, "unlock", k)) \/ Goto(c, "create"))
      <3>1. PICK r : Moved(c, r) /\ r.msg = calls[c].msg /\ (r.pc = "create" \/ (r.pc = "unlock" /\ r.conv # 0))
        BY <2>3, <1>t, MovedCalls
      <3>. QED BY <2>1, <2>3, <3>1, <1>b DEF Bridging
    <2>4. CASE Spoil(Msg(c)) /\ Goto(c, "unlock")
      <3>1. PICK r : Moved(c, r) /\ r.msg = calls[c].msg /\ r.pc = "unlock"
        BY <2>4, <1>t, MovedCalls
      <3>. QED BY <2>1, <2>4, <3>1, <1>b DEF Bridging
    <2>. QED BY <2>2, <2>3, <2>4
  <1>6. ASSUME NEW c \in Calls, Unlock(c) PROVE AllFine
    <2>1. UNCHANGED <<messages, webhooks, history, importing>> /\ calls[c].pc = "unlock"
      BY <1>6 DEF Unlock
    <2>2. CASE calls[c].conv # 0
      <3>1. PICK r : Moved(c, r) /\ r.msg = calls[c].msg /\ r.pc = "post"
        BY <1>6, <2>2, <1>t, MovedCalls DEF Unlock
      <3>. QED BY <2>1, <3>1, <1>b DEF Bridging
    <2>3. CASE calls[c].conv = 0
      <3>1. PICK r : Moved(c, r) /\ r.msg = calls[c].msg /\ r.pc = "store" /\ r.conv = 0
        BY <1>6, <2>3, <1>t, MovedCalls DEF Unlock
      <3>2. PICK m \in Messages : m = calls[c].msg
        BY <2>1, <1>c
      <3>3. messages[m].spoilt
        BY <2>1, <2>3, <3>2 DEF Fine, NoConversation
      <3>4. Step(c, m, r, messages[m])
        BY <2>1, <3>1, <1>t, PutMessages, AsStep
      <3>5. Spoils(messages[m], messages[m])
        BY DEF Spoils
      <3>6. Undisturbed(m)
        BY <2>1, <1>q
      <3>7. Fine(m)' /\ (DeletionsGoOn(m) => DeletionsGoOn(m)')
        BY <2>1, <3>1, <3>2, <3>3, <3>4, <3>5, <3>6, StoreStep DEF Undisturbed
      <3>. QED BY <2>1, <1>q, <3>1, <3>2, <3>4, <3>7, StepDone
    <2>. QED BY <2>2, <2>3
  <1>7. ASSUME NEW c \in Calls, Post(c) PROVE AllFine
    <2>1. UNCHANGED <<history, importing>> /\ calls[c].pc = "post"
      BY <1>7 DEF Post
    <2>2. PICK m \in Messages : m = calls[c].msg
      BY <2>1, <1>c
    <2>3. \/ Shown(m) /\ Goto(c, "store") /\ calls[c].conv # 0
          \/ Spoil(m) /\ With(c, "store", 0) /\ webhooks' = webhooks
      <3>1. Live(calls[c].conv) => calls[c].conv # 0
        <4>1. DOMAIN conversations = 1..Len(conversations) /\ Len(conversations) \in Nat
          BY <1>t, LenProperties DEF ConversationsOK
        <4>. QED BY <4>1 DEF Live
      <3>. QED BY <1>7, <2>2, <3>1 DEF Post, Msg
    <2>4. CASE Spoil(m) /\ With(c, "store", 0) /\ webhooks' = webhooks
      <3>1. PICK r : Moved(c, r) /\ r.msg = calls[c].msg /\ r.pc = "store" /\ r.conv = 0
        BY <2>4, <1>t, MovedCalls
      <3>2. PICK x : Put(m, x) /\ Spoils(messages[m], x) /\ x.spoilt
        BY <2>4, <1>t, PutMessages
      <3>3. Step(c, m, r, x)
        BY <3>1, <3>2, AsStep
      <3>4. \A n : Undisturbed(n)
        BY <2>1, <2>4, NothingReported
      <3>5. Fine(m)' /\ (DeletionsGoOn(m) => DeletionsGoOn(m)')
        BY <2>1, <2>2, <3>1, <3>2, <3>3, <3>4, StoreStep DEF Undisturbed
      <3>. QED BY <2>2, <3>1, <3>3, <3>4, <3>5, StepDone
    <2>5. CASE Shown(m) /\ Goto(c, "store") /\ calls[c].conv # 0
      <3>1. PICK r : Moved(c, r) /\ r.msg = calls[c].msg /\ r.pc = "store" /\ r.conv # 0
        BY <2>5, <1>t, MovedCalls
      <3> DEFINE x == [messages[m] EXCEPT !.shown = messages[m].shown + 1]
      <3>2. /\ x.origin = messages[m].origin /\ x.addr = messages[m].addr /\ x.whatsapp = messages[m].whatsapp
            /\ x.sends = messages[m].sends /\ x.gone = messages[m].gone /\ x.row = messages[m].row
            /\ x.spoilt = messages[m].spoilt /\ x.shown = messages[m].shown + 1
            /\ messages[m].shown \in Nat
        BY <1>m DEF MessageRecords
      <3>3. Put(m, x)
        <4>1. messages' = [messages EXCEPT ![m].shown = @ + 1]
          BY <2>5 DEF Shown
        <4>. QED BY <4>1, <1>t DEF Put, MessagesOK
      <3> HIDE DEF x
      <3>4. Step(c, m, r, x)
        BY <3>1, <3>3, AsStep
      <3>5. webhooks' = webhooks \/ (Bridged(m) /\ webhooks' = webhooks \cup {[event |-> "created", msg |-> m]})
        BY <2>5 DEF Shown
      <3>6. /\ (Reported(m))' => Reported(m) \/ Bridged(m)
            /\ Reported(m) => (Reported(m))'
            /\ (DeleteReported(m))' = DeleteReported(m)
            /\ (InImport(m))' => InImport(m)
        BY <2>1, <3>5 DEF Reported, DeleteReported, InImport
      <3>7. \A n \in Messages : n # m => Undisturbed(n)
        BY <2>1, <3>5 DEF Undisturbed, Reported, DeleteReported, InImport
      <3>8. Fine(m)' /\ (DeletionsGoOn(m) => DeletionsGoOn(m)')
        BY <2>1, <2>2, <3>1, <3>2, <3>4, <3>6, ShownStep
      <3>. QED BY <2>2, <3>1, <3>4, <3>7, <3>8, StepDone
    <2>. QED BY <2>3, <2>4, <2>5
  <1>8. ASSUME NEW c \in Calls, Store(c) \/ Link(c) PROVE AllFine
    <2>1. UNCHANGED <<webhooks, history, importing>> /\ Return(c) /\ calls[c].pc \in {"store", "link"}
      BY <1>8 DEF Store, Link
    <2>2. PICK m \in Messages : m = calls[c].msg
      BY <2>1, <1>c
    <2>3. \E w \in Rows :
            /\ messages' = [messages EXCEPT ![m].row = w]
            /\ \/ calls[c].pc = "store" /\ Awaited(m) /\ w = (IF calls[c].conv = 0 THEN "plain" ELSE "linked")
               \/ calls[c].pc = "store" /\ ~Awaited(m) /\ w = messages[m].row
               \/ calls[c].pc = "link" /\ w = (IF messages[m].row = "plain" THEN "linked" ELSE messages[m].row)
      <3>1. messages = [messages EXCEPT ![m].row = messages[m].row] /\ messages[m].row \in Rows
        BY <1>t DEF MessagesOK, MessageRecords
      <3>2. CASE Store(c) /\ Awaited(m)
        BY <2>2, <3>2 DEF Store, Msg, Rows
      <3>3. CASE Store(c) /\ ~Awaited(m)
        BY <2>2, <3>1, <3>3 DEF Store, Msg
      <3>4. CASE Link(c)
        BY <2>2, <3>1, <3>4 DEF Link, Msg, Rows
      <3>. QED BY <1>8, <3>2, <3>3, <3>4
    <2>4. PICK w \in Rows :
            /\ messages' = [messages EXCEPT ![m].row = w]
            /\ \/ calls[c].pc = "store" /\ Awaited(m) /\ w = (IF calls[c].conv = 0 THEN "plain" ELSE "linked")
               \/ calls[c].pc = "store" /\ ~Awaited(m) /\ w = messages[m].row
               \/ calls[c].pc = "link" /\ w = (IF messages[m].row = "plain" THEN "linked" ELSE messages[m].row)
      BY <2>3
    <2> DEFINE x == [messages[m] EXCEPT !.row = w]
    <2>5. SameButRow(messages[m], x) /\ x.row = w
      BY <1>m DEF MessageRecords, SameButRow
    <2>6. Put(m, x)
      BY <2>4, <1>t DEF Put, MessagesOK
    <2> HIDE DEF x
    <2>7. Step(c, m, Idle, x)
      BY <2>1, <2>6, <1>t, MovedCalls, AsStep
    <2>8. \A n : Undisturbed(n)
      BY <2>1, NothingReported
    <2>9. Fine(m)' /\ (DeletionsGoOn(m) => DeletionsGoOn(m)')
      BY <1>n, <2>2, <2>4, <2>5, <2>7, <2>8, RowStep DEF Undisturbed
    <2>. QED BY <1>i, <2>2, <2>7, <2>8, <2>9, StepDone
  <1>9. ASSUME NEW c \in Calls, AgentSend(c) PROVE AllFine
    <2>1. UNCHANGED <<webhooks, history, importing>> /\ calls[c].pc = "agent"
      BY <1>9 DEF AgentSend
    <2>2. PICK m \in Messages : m = calls[c].msg
      BY <2>1, <1>c
    <2>3. \A n : Undisturbed(n)
      BY <2>1, NothingReported
    <2>4. CASE NotSent(m) /\ Return(c)
      <3>1. PICK x : Put(m, x) /\ Spoils(messages[m], x) /\ x.spoilt
        BY <2>4, <1>t, PutMessages DEF NotSent
      <3>2. Step(c, m, Idle, x)
        BY <2>4, <3>1, <1>t, MovedCalls, AsStep
      <3>3. Fine(m)' /\ (DeletionsGoOn(m) => DeletionsGoOn(m)')
        BY <1>n, <2>1, <2>2, <2>3, <3>1, <3>2, FailStep DEF Undisturbed
      <3>. QED BY <1>i, <2>2, <2>3, <3>2, <3>3, StepDone
    <2>5. CASE ~(NotSent(m) /\ Return(c))
      <3> DEFINE x == [messages[m] EXCEPT !.whatsapp = "there", !.sends = messages[m].sends + 1,
                         !.row = IF messages[m].origin = "template" \/ messages[m].row # "unsaved"
                                 THEN messages[m].row ELSE "plain"]
      <3>1. /\ x.origin = messages[m].origin /\ x.whatsapp = "there" /\ x.sends = messages[m].sends + 1
            /\ x.shown = messages[m].shown /\ x.gone = messages[m].gone /\ x.spoilt = messages[m].spoilt
            /\ x.row = (IF messages[m].origin = "template" \/ messages[m].row # "unsaved"
                        THEN messages[m].row ELSE "plain")
            /\ messages[m].sends \in Nat /\ messages[m].origin \in Origins \cup {None}
        BY <1>m DEF MessageRecords
      <3>2. /\ messages' = [messages EXCEPT ![m].whatsapp = "there", ![m].sends = @ + 1,
                              ![m].row = IF messages[m].origin = "template" \/ @ # "unsaved"
                                         THEN @ ELSE "plain"]
            /\ Goto(c, IF messages[m].origin = "template" THEN "cache" ELSE "link")
        BY <1>9, <2>2, <2>5 DEF AgentSend, Msg
      <3>3. Put(m, x)
        BY <3>2, <1>t, SMTT(60) DEF Put, MessagesOK, MessageRecords
      <3> HIDE DEF x
      <3>4. PICK r : Moved(c, r) /\ r.msg = calls[c].msg
                     /\ r.pc = (IF messages[m].origin = "template" THEN "cache" ELSE "link")
        BY <3>2, <1>t, MovedCalls
      <3>5. Step(c, m, r, x)
        BY <3>3, <3>4, AsStep
      <3>6. Fine(m)' /\ (DeletionsGoOn(m) => DeletionsGoOn(m)')
        BY <2>1, <2>2, <2>3, <3>1, <3>4, <3>5, SendStep DEF Undisturbed
      <3>. QED BY <2>2, <2>3, <3>4, <3>5, <3>6, StepDone
    <2>. QED BY <2>4, <2>5
  <1>10. ASSUME NEW c \in Calls, DeleteRow(c) PROVE AllFine
    <2>1. UNCHANGED <<webhooks, history, importing>> /\ calls[c].pc = "del_row"
      BY <1>10 DEF DeleteRow
    <2>2. PICK m \in Messages : m = calls[c].msg
      BY <2>1, <1>c
    <2>3. \A n : Undisturbed(n)
      BY <2>1, NothingReported
    <2> DEFINE x == [messages[m] EXCEPT !.row = "removed"]
    <2>4. SameButRow(messages[m], x) /\ x.row = "removed"
      BY <1>m DEF MessageRecords, SameButRow
    <2>5. Put(m, x)
      BY <1>10, <2>2, <1>t DEF DeleteRow, Put, MessagesOK, Msg
    <2> HIDE DEF x
    <2>6. PICK r : Moved(c, r) /\ r.msg = calls[c].msg /\ r.pc = "del_chatwoot"
      BY <1>10, <1>t, MovedCalls DEF DeleteRow
    <2>7. Step(c, m, r, x)
      BY <2>5, <2>6, AsStep
    <2>8. Fine(m)' /\ (DeletionsGoOn(m) => DeletionsGoOn(m)')
      BY <2>1, <2>2, <2>3, <2>4, <2>6, <2>7, RemoveStep DEF Undisturbed
    <2>. QED BY <2>2, <2>3, <2>6, <2>7, <2>8, StepDone
  <1>11. ASSUME NEW c \in Calls, DeleteInChatwoot(c) PROVE AllFine
    <2>1. UNCHANGED <<history, importing>> /\ calls[c].pc = "del_chatwoot" /\ Return(c)
      BY <1>11 DEF DeleteInChatwoot
    <2>2. PICK m \in Messages : m = calls[c].msg
      BY <2>1, <1>c
    <2>3. CASE Spoil(m) /\ webhooks' = webhooks
      <3>1. \A n : Undisturbed(n)
        BY <2>1, <2>3, NothingReported
      <3>2. PICK x : Put(m, x) /\ Spoils(messages[m], x) /\ x.spoilt
        BY <2>3, <1>t, PutMessages
      <3>3. Step(c, m, Idle, x)
        BY <2>1, <3>2, <1>t, MovedCalls, AsStep
      <3>4. Fine(m)' /\ (DeletionsGoOn(m) => DeletionsGoOn(m)')
        BY <1>n, <2>1, <2>2, <3>1, <3>2, <3>3, FailStep DEF Undisturbed
      <3>. QED BY <1>i, <2>2, <3>1, <3>3, <3>4, StepDone
    <2>4. CASE /\ messages' = [messages EXCEPT ![m].gone = TRUE]
               /\ webhooks' = webhooks \cup {[event |-> "deleted", msg |-> m]}
      <3> DEFINE x == [messages[m] EXCEPT !.gone = TRUE]
      <3>1. /\ x.origin = messages[m].origin /\ x.whatsapp = messages[m].whatsapp /\ x.sends = messages[m].sends
            /\ x.shown = messages[m].shown /\ x.row = messages[m].row /\ x.spoilt = messages[m].spoilt /\ x.gone
        BY <1>m DEF MessageRecords
      <3>2. Put(m, x)
        BY <2>4, <1>t DEF Put, MessagesOK
      <3> HIDE DEF x
      <3>3. Step(c, m, Idle, x)
        BY <2>1, <3>2, <1>t, MovedCalls, AsStep
      <3>4. /\ (Reported(m))' = Reported(m) /\ (DeleteReported(m))' /\ ((InImport(m))' => InImport(m))
            /\ \A n \in Messages : n # m => Undisturbed(n)
        BY <2>1, <2>4 DEF Undisturbed, Reported, DeleteReported, InImport
      <3>5. Fine(m)' /\ (DeletionsGoOn(m) => DeletionsGoOn(m)')
        BY <1>n, <2>1, <2>2, <3>1, <3>3, <3>4, ErasedStep
      <3>. QED BY <1>i, <2>2, <3>3, <3>4, <3>5, StepDone
    <2>. QED BY <1>11, <2>2, <2>3, <2>4 DEF DeleteInChatwoot, Msg
  <1>12. ASSUME NEW c \in Calls, NEW m \in Messages, Upsert(c, m) PROVE AllFine
    <2>1. UNCHANGED <<webhooks, history, importing>> /\ calls[c].msg = None
      BY <1>12, <1>c DEF Upsert
    <2>2. \A n : Undisturbed(n)
      BY <2>1, NothingReported
    <2>3. PICK o \in {"contact", "phone"}, a \in Addresses :
            messages' = [messages EXCEPT ![m].origin = o, ![m].addr = a, ![m].whatsapp = "there"]
      BY <1>12 DEF Upsert
    <2>4. messages[m] = Unseen
      BY <1>12 DEF Upsert, Fine, Unborn
    <2> DEFINE x == [messages[m] EXCEPT !.origin = o, !.addr = a, !.whatsapp = "there"]
    <2>5. /\ x.origin = o /\ x.whatsapp = "there" /\ x.sends = 0 /\ x.shown = 0
          /\ x.gone = FALSE /\ x.row = "unsaved" /\ x.spoilt = FALSE
      BY <2>4 DEF Unseen
    <2>6. Put(m, x)
      BY <2>3, <1>t, SMTT(60) DEF Put, MessagesOK, MessageRecords
    <2> HIDE DEF x
    <2>7. PICK r : Moved(c, r) /\ r.pc = "cache" /\ r.msg = m
      BY <1>12, <1>t, MovedCalls DEF Upsert
    <2>8. Step(c, m, r, x)
      BY <2>6, <2>7, AsStep
    <2>9. Fine(m)' /\ (DeletionsGoOn(m) => DeletionsGoOn(m)')
      <3>1. messages[m].origin = None /\ None \notin Origins
        BY <1>12, BridgeAssumption DEF Upsert
      <3>. QED BY <1>c, <2>1, <2>2, <2>5, <2>7, <2>8, <3>1, BirthStep DEF Undisturbed
    <2>. QED BY <2>1, <2>2, <2>7, <2>8, <2>9, StepDone
  <1>13. ASSUME NEW c \in Calls, NEW m \in Messages, ApiSend(c, m) PROVE AllFine
    <2>1. UNCHANGED <<webhooks, history, importing>> /\ calls[c].msg = None
      BY <1>13, <1>c DEF ApiSend
    <2>2. \A n : Undisturbed(n)
      BY <2>1, NothingReported
    <2>4. messages[m] = Unseen
      BY <1>13 DEF ApiSend, Fine, Unborn
    <2> DEFINE x == [messages[m] EXCEPT !.origin = "api", !.whatsapp = "there", !.sends = 1]
    <2>5. /\ x.origin = "api" /\ x.whatsapp = "there" /\ x.sends = 1 /\ x.shown = 0
          /\ x.gone = FALSE /\ x.row = "unsaved" /\ x.spoilt = FALSE
      BY <2>4 DEF Unseen
    <2>6. Put(m, x)
      BY <1>13, <1>t, SMTT(60) DEF ApiSend, Put, MessagesOK, MessageRecords
    <2> HIDE DEF x
    <2>7. PICK r : Moved(c, r) /\ r.pc = "cache" /\ r.msg = m
      BY <1>13, <1>t, MovedCalls DEF ApiSend
    <2>8. Step(c, m, r, x)
      BY <2>6, <2>7, AsStep
    <2>9. Fine(m)' /\ (DeletionsGoOn(m) => DeletionsGoOn(m)')
      <3>1. messages[m].origin = None /\ None \notin Origins
        BY <1>13, BridgeAssumption DEF ApiSend
      <3>. QED BY <1>c, <2>1, <2>2, <2>5, <2>7, <2>8, <3>1, BirthStep DEF Undisturbed
    <2>. QED BY <2>1, <2>2, <2>7, <2>8, <2>9, StepDone
  <1>14. ASSUME NEW c \in Calls, NEW m \in Messages, WhatsAppDelete(c, m) PROVE AllFine
    <2>1. /\ UNCHANGED <<webhooks, history, importing>> /\ calls[c].msg = None
          /\ messages[m].whatsapp = "there" /\ (messages[m].row = "unsaved" => ~Awaited(m))
      BY <1>14, <1>c DEF WhatsAppDelete
    <2>2. \A n : Undisturbed(n)
      BY <2>1, NothingReported
    <2> DEFINE x == [messages[m] EXCEPT !.whatsapp = "deleted"]
    <2>3. /\ x.origin = messages[m].origin /\ x.whatsapp = "deleted" /\ x.sends = messages[m].sends
          /\ x.shown = messages[m].shown /\ x.row = messages[m].row /\ x.spoilt = messages[m].spoilt
          /\ x.gone = messages[m].gone
      BY <1>m DEF MessageRecords
    <2>4. Put(m, x)
      BY <1>14, <1>t DEF WhatsAppDelete, Put, MessagesOK
    <2> HIDE DEF x
    <2>5. CASE messages[m].row = "linked"
      <3>1. PICK r : Moved(c, r) /\ r.pc = "del_row" /\ r.msg = m
        BY <1>14, <2>5, <1>t, MovedCalls DEF WhatsAppDelete
      <3>2. Step(c, m, r, x)
        BY <2>4, <3>1, AsStep
      <3>3. Fine(m)' /\ (DeletionsGoOn(m) => DeletionsGoOn(m)')
        BY <1>n, <2>1, <2>2, <2>3, <2>5, <3>1, <3>2, PhoneDeleteStep DEF Undisturbed
      <3>. QED BY <2>1, <2>2, <3>1, <3>2, <3>3, StepDone
    <2>6. CASE messages[m].row # "linked"
      <3>1. Moved(c, calls[c])
        BY <1>14, <2>6, <1>t, MovedCalls DEF WhatsAppDelete
      <3>2. Step(c, m, calls[c], x)
        BY <2>4, <3>1, AsStep
      <3>3. Fine(m)' /\ (DeletionsGoOn(m) /\ (messages[m].row # "linked" => ~WillLink(m)) => DeletionsGoOn(m)')
        BY <1>n, <2>1, <2>2, <2>3, <2>6, <3>2, PhoneDeleteStep DEF Undisturbed
      <3>4. "early" \notin upset' => ~WillLink(m)
        <4>1. "early" \notin upset' => ~Linking(m)
          BY <1>14, <2>6 DEF WhatsAppDelete
        <4>. QED BY <2>1, <4>1 DEF Linking, WillLink, Reported, On, Msg
      <3>. QED BY <2>1, <2>2, <3>2, <3>3, <3>4, StepDone
    <2>. QED BY <2>5, <2>6
  <1>w. \A w \in webhooks : w.event \in {"created", "deleted"} =>
          w.msg \in Messages /\ w = [event |-> w.event, msg |-> w.msg]
    BY <1>t DEF WebhooksOK, WebhookRecords
  <1>15. ASSUME NEW c \in Calls, NEW w \in webhooks, Created(c, w) PROVE AllFine
    <2>1. /\ UNCHANGED <<messages, history, importing>> /\ calls[c].msg = None
          /\ w.event = "created" /\ webhooks' = webhooks \ {w}
      BY <1>15, <1>c DEF Created
    <2>2. PICK m \in Messages : m = w.msg /\ w = [event |-> "created", msg |-> m]
      BY <2>1, <1>w
    <2>3. /\ Reported(m) /\ ~(Reported(m))' /\ (DeleteReported(m))' = DeleteReported(m)
          /\ (InImport(m))' => InImport(m)
          /\ \A n \in Messages : n # m => Undisturbed(n)
      BY <2>1, <2>2 DEF Undisturbed, Reported, DeleteReported, InImport
    <2>4. messages[m].origin \in Origins
      BY <1>m, <2>3 DEF Fine, Unborn, MessageRecords
    <2>5. Put(m, messages[m])
      BY <2>1 DEF Put
    <2>6. \/ calls' = calls /\ Bridged(m)
          \/ Begin(c, "agent", m) /\ messages[m].origin \in {"agent", "template"}
      <3>1. PICK last \in {w.msg} \cup {n \in Messages : messages[n].shown > 0} :
              /\ upset' = IF Bridged(last) = Bridged(w.msg) \/ messages[w.msg].origin = "template"
                          THEN upset ELSE upset \cup {"crossing"}
              /\ IF messages[w.msg].origin # "template" /\ Bridged(last)
                 THEN UNCHANGED calls ELSE Begin(c, "agent", w.msg)
        BY <1>15 DEF Created
      <3>2. (Bridged(last) <=> Bridged(m)) \/ messages[m].origin = "template"
        BY <2>2, <3>1
      <3>3. ~Bridged(m) => messages[m].origin \in {"agent", "template"}
        BY <2>4 DEF Bridged, Origins
      <3>. QED BY <2>2, <3>1, <3>2, <3>3
    <2>7. CASE calls' = calls /\ Bridged(m)
      <3>1. Step(c, m, calls[c], messages[m])
        BY <2>5, <2>7, <1>t, MovedCalls, AsStep
      <3>2. Fine(m)' /\ (DeletionsGoOn(m) => DeletionsGoOn(m)')
        BY <2>3, <2>7, <3>1, ReportStep
      <3>. QED BY <2>1, <2>3, <3>1, <3>2, StepDone
    <2>8. CASE Begin(c, "agent", m) /\ messages[m].origin \in {"agent", "template"}
      <3>1. PICK r : Moved(c, r) /\ r.pc = "agent" /\ r.msg = m
        BY <2>8, <1>t, MovedCalls
      <3>2. Step(c, m, r, messages[m])
        BY <2>5, <3>1, AsStep
      <3>3. Fine(m)' /\ (DeletionsGoOn(m) => DeletionsGoOn(m)')
        BY <2>1, <2>3, <2>8, <3>1, <3>2, ReportStep
      <3>. QED BY <2>1, <2>3, <3>1, <3>2, <3>3, StepDone
    <2>. QED BY <2>6, <2>7, <2>8
  <1>k. PICK k \in Calls : calls[k].msg \in Messages \cup {None}
    BY <1>c, BridgeAssumption
  <1>x. ASSUME NEW m \in Messages, NEW x, calls' = calls, Put(m, x),
               \A n \in Messages : n # m => Undisturbed(n),
               Fine(m)', "early" \notin upset' /\ DeletionsGoOn(m) => DeletionsGoOn(m)'
        PROVE  AllFine
    <2>1. ASSUME NEW n \in Messages, n # m
          PROVE  Fine(n)' /\ (DeletionsGoOn(n) => DeletionsGoOn(n)')
      <3>1. Same(n)
        BY <1>x, <2>1 DEF Same, Put, Undisturbed
      <3>. QED BY <3>1, OthersFine, OthersErased
    <2>. QED BY <1>x, <2>1 DEF AllFine
  <1>16. ASSUME NEW m \in Messages, StoreSent(m) PROVE AllFine
    <2>1. /\ UNCHANGED <<calls, webhooks, history, importing>>
          /\ messages[m].origin \in {"api", "template"} /\ messages[m].sends > 0 /\ messages[m].row = "unsaved"
      BY <1>16 DEF StoreSent, evolution
    <2>2. \A n : Undisturbed(n)
      BY <2>1, NothingReported
    <2> DEFINE x == [messages[m] EXCEPT !.row = "plain"]
    <2>3. SameButRow(messages[m], x) /\ x.row = "plain"
      BY <1>m DEF MessageRecords, SameButRow
    <2>4. Put(m, x)
      BY <1>16, <1>t DEF StoreSent, Put, MessagesOK
    <2> HIDE DEF x
    <2>5. Step(k, m, calls[k], x)
      BY <2>1, <2>4, <1>t, MovedCalls, AsStep
    <2>6. Fine(m)' /\ (DeletionsGoOn(m) => DeletionsGoOn(m)')
      BY <2>1, <2>2, <2>3, <2>5, SentRowStep DEF Undisturbed
    <2>. QED BY <2>1, <2>2, <2>4, <2>6, <1>x
  <1>17. ASSUME NEW m \in Messages, AgentDelete(m) PROVE AllFine
    <2>1. /\ UNCHANGED <<calls, history, importing>> /\ messages[m].shown > 0
          /\ webhooks' = webhooks \cup {[event |-> "deleted", msg |-> m]}
      BY <1>17 DEF AgentDelete, evolution
    <2> DEFINE x == [messages[m] EXCEPT !.gone = TRUE]
    <2>2. /\ x.origin = messages[m].origin /\ x.whatsapp = messages[m].whatsapp /\ x.sends = messages[m].sends
          /\ x.shown = messages[m].shown /\ x.row = messages[m].row /\ x.spoilt = messages[m].spoilt /\ x.gone
      BY <1>m DEF MessageRecords
    <2>3. Put(m, x)
      BY <1>17, <1>t DEF AgentDelete, Put, MessagesOK
    <2> HIDE DEF x
    <2>4. /\ (Reported(m))' = Reported(m) /\ (DeleteReported(m))' /\ ((InImport(m))' => InImport(m))
          /\ \A n \in Messages : n # m => Undisturbed(n)
      BY <2>1 DEF Undisturbed, Reported, DeleteReported, InImport
    <2>5. Step(k, m, calls[k], x)
      BY <2>1, <2>3, <1>t, MovedCalls, AsStep
    <2>6. Fine(m)' /\ (DeletionsGoOn(m) => DeletionsGoOn(m)')
      BY <1>n, <2>1, <2>2, <2>4, <2>5, ErasedStep
    <2>. QED BY <2>1, <2>3, <2>4, <2>6, <1>x
  <1>18. ASSUME NEW m \in Messages, PhoneHistory(m) PROVE AllFine
    BY <1>18 DEF PhoneHistory, Fine, InItsWay
  <1>19. ASSUME NEW m \in Messages, NEW j, Write(m, j) PROVE AllFine
    <2>1. /\ UNCHANGED <<calls, history, importing>> /\ messages[m].origin = None
          /\ webhooks' = webhooks \cup {[event |-> "created", msg |-> m]}
      BY <1>19 DEF Write, evolution
    <2>2. PICK o \in {"agent", "template"} : messages' = [messages EXCEPT ![m].origin = o, ![m].shown = 1]
      BY <1>19 DEF Write
    <2>3. messages[m] = Unseen
      BY <2>1 DEF Fine, Unborn
    <2> DEFINE x == [messages[m] EXCEPT !.origin = o, !.shown = 1]
    <2>4. /\ x.origin = o /\ x.whatsapp = "none" /\ x.sends = 0 /\ x.shown = 1
          /\ x.gone = FALSE /\ x.row = "unsaved" /\ x.spoilt = FALSE
      BY <2>3 DEF Unseen
    <2>5. Put(m, x)
      BY <2>2, <1>t, SMTT(60) DEF Put, MessagesOK, MessageRecords
    <2> HIDE DEF x
    <2>6. /\ (Reported(m))' /\ (DeleteReported(m))' = DeleteReported(m) /\ ((InImport(m))' => InImport(m))
          /\ \A n \in Messages : n # m => Undisturbed(n)
      BY <2>1 DEF Undisturbed, Reported, DeleteReported, InImport
    <2>7. Step(k, m, calls[k], x)
      BY <2>1, <2>5, <1>t, MovedCalls, AsStep
    <2>8. Fine(m)' /\ (DeletionsGoOn(m) => DeletionsGoOn(m)')
      BY <1>c, <2>1, <2>4, <2>6, <2>7, BridgeAssumption, BirthStep
    <2>. QED BY <2>1, <2>5, <2>6, <2>8, <1>x
  <1>20. ASSUME NEW w \in webhooks, Deleted(w) PROVE AllFine
    <2>1. /\ UNCHANGED <<calls, history, importing>> /\ w.event = "deleted" /\ webhooks' = webhooks \ {w}
      BY <1>20 DEF Deleted, evolution
    <2>2. PICK m \in Messages : m = w.msg /\ w = [event |-> "deleted", msg |-> m]
      BY <2>1, <1>w
    <2>3. /\ DeleteReported(m) /\ ~(DeleteReported(m))' /\ (Reported(m))' = Reported(m)
          /\ (InImport(m))' => InImport(m)
          /\ \A n \in Messages : n # m => Undisturbed(n)
      BY <2>1, <2>2 DEF Undisturbed, Reported, DeleteReported, InImport
    <2>x. ASSUME NEW x, Put(m, x) PROVE Step(k, m, calls[k], x)
      BY <2>1, <2>x, <1>t, MovedCalls, AsStep
    <2>4. CASE /\ messages[m].row = "linked"
               /\ messages' = [messages EXCEPT ![m].whatsapp = "deleted", ![m].row = "removed"]
      <3> DEFINE x == [messages[m] EXCEPT !.whatsapp = "deleted", !.row = "removed"]
      <3>1. /\ x.origin = messages[m].origin /\ x.whatsapp = "deleted" /\ x.sends = messages[m].sends
            /\ x.shown = messages[m].shown /\ x.row = "removed" /\ x.spoilt = messages[m].spoilt
            /\ x.gone = messages[m].gone
        BY <1>m DEF MessageRecords
      <3>2. Put(m, x)
        BY <2>4, <1>t, SMTT(60) DEF Put, MessagesOK, MessageRecords
      <3> HIDE DEF x
      <3>3. Fine(m)' /\ (DeletionsGoOn(m) => DeletionsGoOn(m)')
        BY <2>3, <2>4, <2>x, <3>1, <3>2, DeletionStep
      <3>. QED BY <2>1, <2>3, <3>2, <3>3, <1>x
    <2>5. CASE messages[m].row = "linked" /\ Spoil(m)
      <3>1. PICK x : Put(m, x) /\ Spoils(messages[m], x) /\ x.spoilt
        BY <2>5, <1>t, PutMessages
      <3>2. Fine(m)' /\ (DeletionsGoOn(m) => DeletionsGoOn(m)')
        BY <2>3, <2>5, <2>x, <3>1, DeletionStep
      <3>. QED BY <2>1, <2>3, <3>1, <3>2, <1>x
    <2>6. CASE /\ messages[m].row # "linked" /\ messages' = messages
               /\ Linking(m) => "early" \in upset'
      <3>1. Put(m, messages[m])
        BY <2>6 DEF Put
      <3>2. Fine(m)' /\ (DeletionsGoOn(m) /\ (messages[m].row # "linked" => ~WillLink(m)) => DeletionsGoOn(m)')
        BY <2>3, <2>6, <2>x, <3>1, DeletionStep
      <3>3. "early" \notin upset' => ~WillLink(m)
        BY <2>3, <2>6 DEF Linking, WillLink, Reported, On, Msg
      <3>. QED BY <2>1, <2>3, <3>1, <3>2, <3>3, <1>x
    <2>. QED BY <1>20, <2>2, <2>4, <2>5, <2>6 DEF Deleted
  <1>s. ASSUME UNCHANGED <<messages, calls>>, \A n \in Messages : Undisturbed(n) PROVE AllFine
    <2>1. \A n \in Messages : Same(n)
      BY <1>s DEF Same, Undisturbed
    <2>. QED BY <2>1, AllSame
  <1>21. ASSUME NEW w \in webhooks, Resolved(w) PROVE AllFine
    <2>1. /\ UNCHANGED <<messages, calls, history, importing>>
          /\ w.event = "resolved" /\ webhooks' = webhooks \ {w}
      BY <1>21 DEF Resolved
    <2>2. \A n \in Messages : Undisturbed(n)
      BY <2>1 DEF Undisturbed, Reported, DeleteReported, InImport
    <2>. QED BY <2>1, <2>2, <1>s
  <1>22. ASSUME Move PROVE AllFine
    <2>1. /\ UNCHANGED <<messages, calls, history, importing>>
          /\ webhooks' = webhooks \/ webhooks' = webhooks \cup {[event |-> "resolved", msg |-> None]}
      BY <1>22 DEF Move, Resolve, DeleteConversation, Expire
    <2>2. \A n \in Messages : Undisturbed(n)
      BY <2>1 DEF Undisturbed, Reported, DeleteReported, InImport
    <2>. QED BY <2>1, <2>2, <1>s
  <1>23. ASSUME Recreate PROVE AllFine
    BY <1>23 DEF Recreate
  <1>24. ASSUME NEW c \in Calls, BeginImport(c) PROVE AllFine
    <2>1. UNCHANGED <<messages, webhooks>> /\ calls[c].msg = None
      BY <1>24, <1>c DEF BeginImport
    <2>2. /\ \E added \in {{}, Lost} : history' = history \cup added
          /\ importing' = [importing EXCEPT ![c] = history']
          /\ \A d \in Calls : calls[d].msg \notin history'
      BY <1>24 DEF BeginImport, Msg
    <2>3. \A d \in Calls : calls'[d] = calls[d] \/ (calls[d].msg = None /\ calls'[d].msg = None)
      <3>1. calls' = [calls EXCEPT ![c] = [Idle EXCEPT !.pc = "import"]]
        BY <1>24 DEF BeginImport
      <3>2. [Idle EXCEPT !.pc = "import"].msg = None
        BY DEF Idle
      <3>. QED BY <1>t, <2>1, <3>1, <3>2 DEF CallsOK
    <2>4. ASSUME NEW n \in Messages PROVE Same(n)
      <3>1. ASSUME n \in history', n \notin history
            PROVE  messages[n].spoilt /\ messages[n].origin # None
        <4>1. n \in Lost /\ \A pcs : ~On(n, pcs)
          BY <2>2, <3>1 DEF On
        <4>2. messages[n].row \in {"plain", "linked"} /\ ~HasSource(n)
          BY <4>1 DEF Lost, Stored
        <4>3. messages[n].origin # None
          BY <4>2 DEF Fine, Unborn, Unseen
        <4>4. messages[n].origin \in Origins
          BY <4>3, <1>m DEF MessageRecords
        <4>5. CASE messages[n].origin \in {"contact", "phone", "api"}
          BY <4>1, <4>2, <4>3, <4>5 DEF Fine, ShownOnce, HasSource, Bridged
        <4>6. CASE messages[n].origin = "agent"
          BY <4>1, <4>2, <4>3, <4>6 DEF Fine, ShownOnce, HasSource
        <4>7. CASE messages[n].origin = "template"
          BY <4>1, <4>2, <4>3, <4>7 DEF Fine, ShownOnce, SentOnce, HasSource
        <4>. QED BY <4>3, <4>4, <4>5, <4>6, <4>7 DEF Origins
      <3>2. (InImport(n))' => n \in history' \/ InImport(n)
        BY <1>t, <2>2 DEF InImport, ImportingOK
      <3>3. (InImport(n))' => InImport(n) \/ (messages[n].spoilt /\ messages[n].origin # None)
        BY <3>1, <3>2 DEF InImport
      <3>4. (Reported(n))' = Reported(n) /\ (DeleteReported(n))' = DeleteReported(n)
        BY <2>1 DEF Reported, DeleteReported
      <3>. QED BY <1>n, <2>1, <2>3, <3>3, <3>4 DEF Same
    <2>. QED BY <2>4, AllSame
  <1>25. ASSUME NEW c \in Calls, EndImport(c) PROVE AllFine
    <2>1. UNCHANGED webhooks /\ calls[c].msg = None /\ Moved(c, Idle)
      BY <1>25, <1>c, <1>t, MovedCalls DEF EndImport
    <2>2. history' = {} /\ importing' = [importing EXCEPT ![c] = {}]
      BY <1>25 DEF EndImport
    <2>3. \A n \in Messages : Undisturbed(n)
      BY <1>t, <2>1, <2>2 DEF Undisturbed, Reported, DeleteReported, InImport,
             ImportingOK
    <2>4. ASSUME NEW n \in Messages
          PROVE  \A d \in Calls : calls'[d] = calls[d] \/ (calls[d].msg # n /\ calls'[d].msg # n)
      BY <1>i, <1>n, <2>1 DEF Moved
    <2>5. ASSUME NEW n \in Messages, messages'[n] = messages[n]
          PROVE  Fine(n)' /\ (DeletionsGoOn(n) => DeletionsGoOn(n)')
      <3>1. Same(n)
        BY <2>3, <2>4, <2>5 DEF Same, Undisturbed
      <3>. QED BY <3>1, OthersFine, OthersErased
    <2>6. CASE messages' = messages
      BY <2>5, <2>6 DEF AllFine
    <2>7. CASE messages' = [m \in Messages |-> [messages[m] EXCEPT
                              !.shown = IF m \in Filtered(importing[c]) THEN @ + 1 ELSE @]]
      <3>1. ASSUME NEW n \in Messages, n \in importing[c]
            PROVE  Fine(n)' /\ DeletionsGoOn(n)'
        <4>1. /\ messages'[n].origin = messages[n].origin /\ messages'[n].sends = messages[n].sends
              /\ messages'[n].whatsapp = messages[n].whatsapp /\ messages'[n].row = messages[n].row
              /\ messages'[n].gone = messages[n].gone /\ messages'[n].spoilt = messages[n].spoilt
          BY <1>m, <2>7 DEF MessageRecords
        <4>2. InImport(n)
          BY <3>1 DEF InImport
        <4>. QED BY <2>3, <2>4, <4>1, <4>2, AgainFine
      <3>2. ASSUME NEW n \in Messages, n \notin importing[c]
            PROVE  messages'[n] = messages[n]
        <4>1. n \notin Filtered(importing[c])
          BY <3>2 DEF Filtered
        <4>2. messages'[n] = [messages[n] EXCEPT !.shown = messages[n].shown]
          BY <2>7, <4>1
        <4>. QED BY <1>m, <4>2 DEF MessageRecords
      <3>. QED BY <2>5, <3>1, <3>2 DEF AllFine
    <2>. QED BY <1>25, <2>6, <2>7 DEF EndImport
  <1>26. ASSUME Restart PROVE AllFine
    <2> DEFINE unstored == {m \in Messages : messages[m].origin \in {"api", "template"}
                                             /\ messages[m].sends > 0 /\ messages[m].row = "unsaved"}
               dying == unstored \cup {Msg(c) : c \in Calls}
    <2>1. /\ messages' = [m \in Messages |-> [messages[m] EXCEPT
                            !.spoilt = @ \/ m \in dying,
                            !.row = IF m \in unstored THEN "removed" ELSE @]]
          /\ calls' = [c \in Calls |-> Idle]
          /\ history' = {} /\ importing' = [c \in Calls |-> {}] /\ webhooks' = webhooks
      BY <1>26 DEF Restart
    <2>2. ASSUME NEW n \in Messages
          PROVE  Fine(n)' /\ (DeletionsGoOn(n) => DeletionsGoOn(n)')
      <3>1. /\ (Reported(n))' = Reported(n) /\ (DeleteReported(n))' = DeleteReported(n) /\ ~(InImport(n))'
            /\ \A d \in Calls : calls'[d] = Idle
        BY <2>1 DEF Reported, DeleteReported, InImport
      <3>2. n \in dying <=> n \in unstored \/ \E d \in Calls : calls[d].msg = n
        BY DEF Msg
      <3>3. n \in unstored <=> /\ messages[n].origin \in {"api", "template"}
                               /\ messages[n].sends > 0 /\ messages[n].row = "unsaved"
        OBVIOUS
      <3> HIDE DEF unstored, dying
      <3>4. messages'[n] = [messages[n] EXCEPT !.spoilt = messages[n].spoilt \/ n \in dying,
                              !.row = IF n \in unstored THEN "removed" ELSE messages[n].row]
        BY <2>1
      <3>5. /\ messages'[n].origin = messages[n].origin /\ messages'[n].sends = messages[n].sends
            /\ messages'[n].whatsapp = messages[n].whatsapp /\ messages'[n].shown = messages[n].shown
            /\ messages'[n].gone = messages[n].gone
            /\ messages'[n].spoilt <=> messages[n].spoilt \/ n \in dying
            /\ messages'[n].row = (IF n \in unstored THEN "removed" ELSE messages[n].row)
        BY <1>m, <3>4 DEF MessageRecords
      <3>6. ASSUME n \notin dying, n \notin unstored PROVE messages'[n] = messages[n]
        <4>1. (messages[n].spoilt \/ n \in dying) = messages[n].spoilt
          BY <1>m, <3>6 DEF MessageRecords
        <4>2. messages'[n] = [messages[n] EXCEPT !.spoilt = messages[n].spoilt, !.row = messages[n].row]
          BY <3>4, <3>6, <4>1
        <4>3. messages[n] \in MessageRecords
          BY <1>m
        <4>. QED BY <4>2, <4>3 DEF MessageRecords
      <3>. QED BY <1>n, <1>c, <3>1, <3>2, <3>3, <3>5, <3>6, BridgeAssumption,
                  RestartFine
    <2>. QED BY <2>2 DEF AllFine
  <1>. QED BY <1>1, <1>2, <1>3, <1>4, <1>5, <1>6, <1>7, <1>8, <1>9, <1>10, <1>11, <1>12,
              <1>13, <1>14, <1>15,
             <1>16, <1>17, <1>18, <1>19, <1>20, <1>21, <1>22, <1>23, <1>24, <1>25,
             <1>26 DEF Next, Create_

(* What has upset a property stays in the set.                              *)
LEMMA UpsetGrows ==
  ASSUME Next
  PROVE  upset \subseteq upset'
PROOF
  <1>1. \A c \in Calls : Create_(c) => upset \subseteq upset'
    BY DEF Create_, LookUp, Wait, TakeLock, GetContact, ListConversations, Create,
           Unlock
  <1>2. \A c \in Calls : Post(c) \/ Store(c) \/ AgentSend(c) \/ Link(c) \/ DeleteRow(c) \/ DeleteInChatwoot(c)
                         => upset \subseteq upset'
    BY DEF Post, Store, AgentSend, Link, DeleteRow, DeleteInChatwoot
  <1>3. \A c \in Calls : BeginImport(c) \/ EndImport(c) => upset \subseteq upset'
    BY DEF BeginImport, EndImport
  <1>4. \A c \in Calls, m \in Messages :
          Upsert(c, m) \/ ApiSend(c, m) \/ WhatsAppDelete(c, m) => upset \subseteq upset'
    BY DEF Upsert, ApiSend, WhatsAppDelete
  <1>5. \A c \in Calls, w \in webhooks : Created(c, w) => upset \subseteq upset'
    BY DEF Created
  <1>6. \A m \in Messages : StoreSent(m) \/ AgentDelete(m) \/ PhoneHistory(m) => upset \subseteq upset'
    BY DEF StoreSent, AgentDelete, PhoneHistory
  <1>7. \A m \in Messages : \A k \in DOMAIN conversations : Write(m, k) => upset \subseteq upset'
    BY DEF Write
  <1>8. \A w \in webhooks : Deleted(w) \/ Resolved(w) => upset \subseteq upset'
    BY DEF Deleted, Resolved
  <1>9. Recreate \/ Move \/ Restart => upset \subseteq upset'
    BY DEF Recreate, Move, Restart
  <1>. QED BY <1>1, <1>2, <1>3, <1>4, <1>5, <1>6, <1>7, <1>8, <1>9 DEF Next

(* Every step keeps the invariant.                                          *)
LEMMA BridgeStep ==
  ASSUME BridgeInv, [Next]_vars
  PROVE  BridgeInv'
PROOF
  <1>1. CASE Next
    <2>1. BridgeTypes' /\ Sectioned'
      BY <1>1, BridgeTypesStep, SectionedStep DEF BridgeInv
    <2>2. upset \subseteq upset'
      BY <1>1, UpsetGrows
    <2>3. Told'
      <3>1. ASSUME upset' \cap {"crossing", "import", "recreated"} = {}
            PROVE  \A m \in Messages : Fine(m)'
        <4>1. \A n \in Messages : Fine(n)
          BY <2>2, <3>1 DEF BridgeInv, Told
        <4>. QED BY <1>1, <3>1, <4>1, MessagesStep DEF BridgeInv, AllFine
      <3>. QED BY <3>1 DEF Told
    <2>4. Erased'
      <3>1. ASSUME upset' \cap {"early", "crossing", "import", "recreated"} = {}
            PROVE  \A m \in Messages : DeletionsGoOn(m)'
        <4>1. \A n \in Messages : Fine(n) /\ DeletionsGoOn(n)
          BY <2>2, <3>1 DEF BridgeInv, Told, Erased
        <4>2. upset' \cap {"crossing", "import", "recreated"} = {} /\ "early" \notin upset'
          BY <3>1
        <4>. QED BY <1>1, <4>1, <4>2, MessagesStep DEF BridgeInv, AllFine
      <3>. QED BY <3>1 DEF Erased
    <2>. QED BY <2>1, <2>3, <2>4 DEF BridgeInv
  <1>2. CASE UNCHANGED vars
    <2>1. UNCHANGED <<messages, conversations, cache, lock, calls, webhooks, history, importing, provider,
                      disturbances, upset>>
      BY <1>2 DEF vars, evolution
    <2>2. BridgeTypes'
      BY <2>1 DEF BridgeInv, BridgeTypes, MessagesOK, ConversationsOK, CacheOK, LockOK,
             CallsOK, WebhooksOK,
                  HistoryOK, ImportingOK, ProviderOK, DisturbancesOK, UpsetOK,
                  BridgeCalls, CallsNamed
    <2>3. Sectioned'
      BY <2>1 DEF BridgeInv, Sectioned, OneSearches, NoneToTake, OneToTake, Suitable,
             Live, Unresolved
    <2>4. ASSUME NEW n PROVE Same(n)
      BY <2>1 DEF Same, Reported, DeleteReported, InImport
    <2>5. Told' /\ Erased'
      BY <2>1, <2>4, OthersFine, OthersErased DEF BridgeInv, Told, Erased
    <2>. QED BY <2>2, <2>3, <2>5 DEF BridgeInv
  <1>. QED BY <1>1, <1>2

(* It holds at the beginning.                                               *)
LEMMA BridgeInit ==
  ASSUME Init
  PROVE  BridgeInv
PROOF
  <1>e. /\ messages = [m \in Messages |-> Unseen] /\ conversations = <<>>
        /\ cache = [a \in Addresses |-> 0] /\ lock = [a \in Addresses |-> FALSE]
        /\ calls = [c \in Calls |-> Idle] /\ webhooks = {} /\ history = {}
        /\ importing = [c \in Calls |-> {}]
        /\ provider \in [reopen : BOOLEAN, pending : BOOLEAN]
        /\ disturbances = 0 /\ upset = {}
    BY DEF Init
  <1>n. None \notin Messages /\ None \notin Origins /\ MaxConversations \in Nat /\ MaxDisturbances \in Nat
    BY BridgeAssumption
  <1>1. MessagesOK
    BY <1>e DEF MessagesOK, MessageRecords, Unseen, Addresses, Rows
  <1>2. ConversationsOK /\ Len(conversations) = 0 /\ DOMAIN conversations = {}
    <2>1. conversations \in Seq(States) /\ Len(conversations) = 0 /\ DOMAIN conversations = 1..0
      BY <1>e
    <2>. QED BY <1>n, <2>1 DEF ConversationsOK
  <1>3. CacheOK /\ LockOK
    BY <1>e, <1>2 DEF CacheOK, LockOK
  <1>4. CallsOK
    <2>1. Idle \in BridgeCalls /\ Idle.msg = None /\ Idle.pc = "idle"
      BY <1>2 DEF Idle, BridgeCalls, Pcs
    <2>. QED BY <1>e, <2>1 DEF CallsOK, CallsNamed
  <1>5. WebhooksOK /\ HistoryOK /\ ImportingOK /\ ProviderOK /\ DisturbancesOK /\ UpsetOK
    BY <1>e, <1>n DEF WebhooksOK, HistoryOK, ImportingOK, ProviderOK, DisturbancesOK,
           UpsetOK
  <1>6. Sectioned
    <2>1. \A c \in Calls : calls[c].pc = "idle"
      BY <1>e DEF Idle
    <2>. QED BY <1>2, <2>1 DEF Sectioned, OneSearches, NoneToTake, OneToTake, Searching
  <1>7. ASSUME NEW n \in Messages PROVE Fine(n) /\ DeletionsGoOn(n)
    <2>1. \A pcs : ~On(n, pcs)
      BY <1>e, <1>n DEF On, Idle
    <2>2. messages[n] = Unseen /\ Unseen.origin = None /\ Unseen.row = "unsaved" /\ Unseen.shown = 0
          /\ Unseen.whatsapp = "none" /\ Unseen.gone = FALSE
      BY <1>e DEF Unseen
    <2>3. ~Reported(n) /\ ~DeleteReported(n) /\ ~InImport(n) /\ \A c \in Calls : calls[c].msg # n
      BY <1>e, <1>n DEF Reported, DeleteReported, InImport, Idle
    <2>4. OneWorks(n) /\ NoConversation(n) /\ Unborn(n)
      BY <2>1, <2>2, <2>3 DEF OneWorks, NoConversation, Unborn
    <2>5. InItsWay(n) /\ SentOnce(n) /\ ShownOnce(n)
      BY <1>n, <2>1, <2>2, <2>3 DEF InItsWay, SentOnce, ShownOnce, Bridged, Awaited,
             Origins
    <2>6. DeletionsGoOn(n)
      BY <1>n, <2>1, <2>2, <2>3 DEF DeletionsGoOn
    <2>. QED BY <2>4, <2>5, <2>6 DEF Fine
  <1>. QED BY <1>1, <1>2, <1>3, <1>4, <1>5, <1>6, <1>7 DEF BridgeInv, BridgeTypes, Told,
                  Erased

(* Nothing is under way for a message at rest.                              *)
LEMMA RestMeans ==
  ASSUME NEW m \in Messages, AtRest(m)
  PROVE  (\A pcs : ~On(m, pcs)) /\ ~Reported(m) /\ ~DeleteReported(m)
PROOF
  <1>1. \A w \in webhooks : w.msg # m
    BY DEF AtRest
  <1>2. [event |-> "created", msg |-> m].msg = m /\ [event |-> "deleted", msg |-> m].msg = m
    OBVIOUS
  <1>. QED BY <1>1, <1>2 DEF AtRest, On, Msg, Reported, DeleteReported

(* And it says what the properties say.                                     *)
LEMMA BridgeEntails ==
  ASSUME BridgeInv
  PROVE  OneConversation /\ OnceOnEachSide /\ DeletedOnBoth
PROOF
  <1>t. \A m \in Messages : messages[m] \in MessageRecords
    BY DEF BridgeInv, BridgeTypes, MessagesOK
  <1>1. OneConversation
    BY SectionedMeans DEF BridgeInv
  <1>2. OnceOnEachSide
    <2>1. ASSUME upset \cap {"crossing", "import", "recreated"} = {}, NEW m \in Messages
          PROVE  /\ messages[m].sends <= (IF messages[m].origin \in {"api", "agent", "template"} THEN 1 ELSE 0)
                 /\ ~messages[m].spoilt => messages[m].shown <= (IF messages[m].origin = "template" THEN 2 ELSE 1)
                 /\ AtRest(m) /\ messages[m].origin # None /\ ~messages[m].spoilt =>
                      messages[m].shown >= 1 /\ messages[m].whatsapp # "none"
      <3>1. Fine(m)
        BY <2>1 DEF BridgeInv, Told
      <3>2. /\ messages[m].origin \in Origins \cup {None} /\ messages[m].sends \in Nat /\ messages[m].shown \in Nat
            /\ None \notin Origins
        BY <1>t, BridgeAssumption DEF MessageRecords
      <3>3. CASE messages[m].origin = None
        BY <3>1, <3>2, <3>3 DEF Fine, Unborn, Unseen, Origins
      <3>4. CASE messages[m].origin \in {"contact", "phone", "api"}
        <4>1. messages[m].sends = 0 \/ (messages[m].origin = "api" /\ messages[m].sends = 1)
          BY <3>1, <3>4 DEF Fine, SentOnce
        <4>2. ~messages[m].spoilt => messages[m].shown \in {0, 1}
          BY <3>1, <3>4 DEF Fine, ShownOnce, Bridged
        <4>3. AtRest(m) /\ ~messages[m].spoilt => messages[m].shown = 1
          BY <3>1, <3>4, RestMeans DEF Fine, ShownOnce, Bridged
        <4>4. messages[m].whatsapp # "none"
          BY <3>1, <3>4 DEF Fine, SentOnce, Bridged
        <4>. QED BY <3>4, <4>1, <4>2, <4>3, <4>4
      <3>5. CASE messages[m].origin \in {"agent", "template"}
        <4>1. messages[m].sends <= 1
          BY <3>1, <3>5 DEF Fine, SentOnce
        <4>2. ~messages[m].spoilt => messages[m].shown = 1 \/ (messages[m].origin = "template" /\ messages[m].shown = 2)
          BY <3>1, <3>5 DEF Fine, ShownOnce
        <4>3. AtRest(m) /\ ~messages[m].spoilt => messages[m].whatsapp # "none"
          <5>1. AtRest(m) /\ ~messages[m].spoilt => messages[m].sends # 0
            BY <3>1, <3>5, RestMeans DEF Fine, SentOnce
          <5>. QED BY <3>1, <3>2, <3>5, <4>1, <5>1 DEF Fine, SentOnce
        <4>. QED BY <3>5, <4>1, <4>2, <4>3
      <3>. QED BY <3>2, <3>3, <3>4, <3>5 DEF Origins
    <2>. QED BY <2>1 DEF OnceOnEachSide
  <1>3. DeletedOnBoth
    <2>1. ASSUME NEW m \in Messages, AtRest(m), ~messages[m].spoilt,
                 upset \cap {"early", "crossing", "import", "recreated"} = {}
          PROVE  (messages[m].gone <=> messages[m].whatsapp = "deleted") \/ messages[m].row \in {"plain", "unsaved"}
      <3>1. Fine(m) /\ DeletionsGoOn(m)
        BY <2>1 DEF BridgeInv, Told, Erased
      <3>2. messages[m].row \in Rows /\ messages[m].row # "gone"
        BY <1>t, <3>1 DEF MessageRecords, Fine, InItsWay
      <3>3. messages[m].row = "linked" => messages[m].whatsapp # "deleted" /\ ~messages[m].gone
        BY <2>1, <3>1, RestMeans DEF DeletionsGoOn
      <3>4. messages[m].row = "removed" => messages[m].whatsapp = "deleted" /\ messages[m].gone
        BY <2>1, <3>1, RestMeans DEF DeletionsGoOn
      <3>. QED BY <3>2, <3>3, <3>4 DEF Rows
    <2>. QED BY <2>1 DEF DeletedOnBoth
  <1>. QED BY <1>1, <1>2, <1>3

(* It holds of every state, in any order of the calls, webhooks, failures   *)
(* and restarts.                                                            *)
LEMMA BridgeInvariant == MCSpec => []BridgeInv
PROOF
  <1>1. MCInit => BridgeInv
    BY BridgeInit DEF MCInit
  <1>2. BridgeInv /\ [MCNext]_<<scene, vars, svars, pvars>> => BridgeInv'
    <2>1. [MCNext]_<<scene, vars, svars, pvars>> => [Next]_vars
      BY DEF MCNext
    <2>. QED BY <2>1, BridgeStep
  <1>. QED BY <1>1, <1>2, PTL DEF MCSpec

(* createConversation, with any number of calls under two addresses: unless *)
(* two were inside the section at once, or an import dropped the cache, a   *)
(* contact never has two conversations to answer.                           *)
THEOREM OneToAnswer == MCSpec => []OneConversation
PROOF
  <1>1. BridgeInv => OneConversation
    BY BridgeEntails
  <1>. QED BY <1>1, BridgeInvariant, PTL

(* eventWhatsapp, receiveWebhook, message.create and the import: a message  *)
(* no request failed for is sent once and shown once where it was not       *)
(* written, for any messages and calls.                                     *)
THEOREM BridgedOnce == MCSpec => []OnceOnEachSide
PROOF
  <1>1. BridgeInv => OnceOnEachSide
    BY BridgeEntails
  <1>. QED BY <1>1, BridgeInvariant, PTL

(* And one whose ids are known is deleted on both sides or on none, once    *)
(* nothing is under way for it.                                             *)
THEOREM DeletedTogether == MCSpec => []DeletedOnBoth
PROOF
  <1>1. BridgeInv => DeletedOnBoth
    BY BridgeEntails
  <1>. QED BY <1>1, BridgeInvariant, PTL

=============================================================================
