------------------------------ MODULE MCMessages ------------------------------
(***************************************************************************)
(* The messages of the Baileys channel and of the other two channels, what *)
(* an instance is set to and subscribes to, the chats, contacts and groups *)
(* of the Baileys channel and its cache of accounts, on small instances.   *)
(* They share no state here, so in a behaviour only one of them moves.     *)
(***************************************************************************)
EXTENDS BaileysMessages, TLC

CONSTANTS Contacts, Handlers, MaxDisturbances,
          GroupHappenings,  \* bound: of MaxHappenings in a group
          Calls, Values, MaxSets, MaxSettingsDisturbances,
          Labels, MaxEvents,
          Numbers, MaxRows, MaxCalls,
          Events, Misnamed, Apps, MaxFaults

\* The bounds are numbers, what is set is a setting, and Nobody is none of them,
\* nor an instance, a message, a contact, an address or a part of the directory.
ASSUME MessagesAssumption ==
  /\ MaxCalls \in Nat
  /\ MaxFaults \in Nat
  /\ MaxSets \in Nat /\ MaxSettingsDisturbances \in Nat
  /\ \A v \in Values : v \in [on : BOOLEAN, id : Nat, opt : BOOLEAN]
  /\ Nobody \notin [on : BOOLEAN, id : Nat, opt : BOOLEAN]
  /\ Nobody \notin Instances /\ Nobody \notin Messages /\ Nobody \notin Contacts
  /\ MaxTime \in Nat /\ MaxEdits \in Nat
  /\ MaxRows \in Nat /\ Nobody \notin [number : Numbers, form : {"with", "without", "lid"}]
  /\ Nobody \notin Nat \cup {"chat", "label", "contact", "group"}

VARIABLES scene,
          channel, s3, sent, phoneNumber, handlers, rows, ctold, filed, statuses,
          contact, chat, disturbances, cmarks,
          kind, setChannel, env, setRow, copy, provider, setCall, sets, setDisturbances, smarks,
          groupsIgnore, account, inbox, started, directory, events, dirDisturbances, dmarks,
          registered, within, accounts, lookups, begun, linked, amarks,
          sink, subscription, queues, client, requests, made, faults, unmade, overlapped

C == INSTANCE CloudChannels WITH None <- Nobody, told <- ctold, marks <- cmarks

cvars == <<channel, s3, sent, phoneNumber, handlers, rows, ctold, filed, statuses,
           contact, chat, disturbances, cmarks>>

V(on, id, opt) == [on |-> on, id |-> id, opt |-> opt]
MCValues == {V(TRUE, 1, TRUE), V(TRUE, 2, FALSE), V(FALSE, 0, FALSE)}

S == INSTANCE InstanceSettings
       WITH MaxDisturbances <- MaxSettingsDisturbances, None <- Nobody,
            channel <- setChannel, row <- setRow, call <- setCall, disturbances <- setDisturbances, marks <- smarks

svars == <<kind, setChannel, env, setRow, copy, provider, setCall, sets, setDisturbances, smarks>>

D == INSTANCE ChatDirectory
       WITH MaxDisturbances <- MaxSettingsDisturbances, None <- Nobody, phone <- account,
            calls <- started, rows <- directory, disturbances <- dirDisturbances, marks <- dmarks

dvars == <<groupsIgnore, account, inbox, started, directory, events, dirDisturbances, dmarks>>

A == INSTANCE OnWhatsappCache
       WITH None <- Nobody, rows <- accounts, calls <- lookups, marks <- amarks

avars == <<registered, within, accounts, lookups, begun, linked, amarks>>

E == INSTANCE EventSettings
       WITH None <- Nobody, row <- subscription, calls <- requests, begun <- made

evars == <<sink, subscription, queues, client, requests, made, faults, unmade, overlapped>>

\* What does not move starts in one way.  A LID is part of another only where
\* both numbers are accounts.
MCInit ==
  /\ scene \in {"baileys", "cloud", "settings", "directory", "accounts", "events"}
  /\ Init /\ (scene # "baileys" => ~group)
  /\ C!Init /\ (scene # "cloud" => channel = "meta" /\ ~s3)
  /\ S!Init /\ (scene # "settings" => kind = "settings" /\ setChannel = "cloud")
  /\ D!Init /\ (scene # "directory" => ~groupsIgnore)
  /\ A!Init /\ (scene # "accounts" => \A n \in Numbers : registered[n] = Nobody)
  /\ E!Init /\ (scene # "events" => sink = "sqs")
  /\ within # {} => \A n \in Numbers : registered[n] # Nobody

MCNext ==
  \/ /\ scene = "baileys"
     /\ Next /\ (group => happenings' <= GroupHappenings)
     /\ UNCHANGED <<scene, cvars, svars, dvars, avars, evars>>
  \/ scene = "cloud" /\ C!Next /\ UNCHANGED <<scene, vars, svars, dvars, avars, evars>>
  \/ scene = "settings" /\ S!Next /\ UNCHANGED <<scene, vars, cvars, dvars, avars, evars>>
  \/ scene = "directory" /\ D!Next /\ UNCHANGED <<scene, vars, cvars, svars, avars, evars>>
  \/ scene = "accounts" /\ A!Next /\ UNCHANGED <<scene, vars, cvars, svars, dvars, evars>>
  \/ scene = "events" /\ E!Next /\ UNCHANGED <<scene, vars, cvars, svars, dvars, avars>>

MCSpec == MCInit /\ [][MCNext]_<<scene, vars, cvars, svars, dvars, avars, evars>>

\* The cfg names calls like instances and labels and numbers like messages, so
\* that one small group permutes them all.
Sym == Permutations(Messages) \cup Permutations(Instances)

(* The properties of the other channels, of the settings, of the directory, *)
(* of the cache of accounts and of the subscriptions.                       *)
FiledUnderContact == C!FiledUnderContact
OnceAndStored == C!OnceAndStored
SettingsAgree == S!SettingsAgree
DirectoryAgrees == D!DirectoryAgrees
OneAccount == A!OneAccount
SubscribedIsServed == E!SubscribedIsServed
=============================================================================
