---------------------------- MODULE MCIntegrations ----------------------------
(***************************************************************************)
(* The bridge to Chatwoot, its contacts and the administration of bots on  *)
(* small instances.  They share no state here, so in a behaviour only one  *)
(* of them moves; a request of the administration has the name of a call.  *)
(***************************************************************************)
EXTENDS ChatwootBridge, TLC

CONSTANTS Instances, Contacts, Bots, Creds, BotForms, MaxRequests

\* None is no bot and no instance, and there is something to make bots of.
ASSUME IntegrationsAssumption ==
  /\ None \notin Bots
  /\ None \notin Instances
  /\ MaxRequests \in Nat
  /\ BotForms # {}

VARIABLES scene,
          integration, bots, creds, settings, session, found, call, made, marks,
          form, merging, contacts, inboxes, inboxCache, cached, greeted, contactCalls,
          bridged, setups, upsets, known, met

F(on, t, e) == [enabled |-> on, trigger |-> t, endpoint |-> e]
MCForms == {F(TRUE, "all", 1), F(TRUE, "all", 2), F(FALSE, "all", 2), F(TRUE, "word", 1)}

S == INSTANCE BotSettings WITH Requests <- Calls, Forms <- BotForms

svars == <<integration, bots, creds, settings, session, found, call, made, marks>>

P == INSTANCE ChatwootContacts
       WITH calls <- contactCalls, messages <- bridged,
            MaxContacts <- 4, MaxMessages <- 2, MaxSetUps <- 2, MaxUpsets <- 1

pvars == <<form, merging, contacts, inboxes, inboxCache, cached, greeted, contactCalls,
           bridged, setups, upsets, known, met>>

\* Open or pending makes no difference where nothing is reopened.  Three of
\* the integrations differ in all that BotSettings knows of them.
MCInit ==
  /\ scene \in {"bridge", "contacts", "settings"}
  /\ Init /\ (provider.pending => provider.reopen)
  /\ S!Init /\ integration \in {S!N8n, S!EvolutionBot, S!Openai}
  /\ scene # "settings" => integration = S!N8n
  /\ scene # "bridge" => ~provider.reopen
  /\ P!Init
  /\ scene # "contacts" => form = "with" /\ ~merging /\ contacts = <<>> /\ inboxes = 0

MCNext ==
  \/ scene = "bridge" /\ Next /\ UNCHANGED <<scene, svars, pvars>>
  \/ scene = "contacts" /\ P!Next /\ bridged' + setups' <= 2 /\ UNCHANGED <<scene, vars, svars>>
  \/ scene = "settings" /\ S!Next /\ UNCHANGED <<scene, vars, pvars>>

MCSpec == MCInit /\ [][MCNext]_<<scene, vars, svars, pvars>>

Sym == Permutations(Messages) \cup Permutations(Calls) \cup Permutations(Bots) \cup Permutations(Creds)

(* The properties of the contacts and of the administration of bots.        *)
FiledWithOnePerson == P!FiledWithOnePerson
TriggersApart == S!TriggersApart
SessionsHaveBots == S!SessionsHaveBots
=============================================================================
