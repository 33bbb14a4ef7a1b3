--------------------------- MODULE InstanceSettings ---------------------------
(***************************************************************************)
(* What an instance is set to (channel.service.ts with the services and    *)
(* controllers of settings, proxy, chatwoot and webhook): a row, the copy  *)
(* in the instance's object and, of chatwoot, the provider in the cache.   *)
(* Requests set them and connections load them in awaited steps, several   *)
(* at once.  The four kinds do not meet: a behaviour is about one of them. *)
(***************************************************************************)
EXTENDS Integers, FiniteSets

CONSTANTS
  Values,            \* what is set: records [on, id, opt] of enabled, the rest, and
                     \* whether an optional field (msgCall, signDelimiter) is given
  Calls,             \* requests, loads and lookups in progress
  MaxSets,           \* bound: requests to set, and deletions of the instance
  MaxDisturbances,   \* bound: failures, expiries, restarts
  None

VARIABLES
  kind,
  channel,           \* "baileys" or "cloud": Meta and Evolution
  env,               \* is there a proxy in the environment?
  row, copy,         \* the row and the object's copy, None before it is loaded
  provider,          \* <instance>:getProvider
  call, sets, disturbances,
  marks              \* what has happened that the property excepts

fixed == <<kind, channel, env>>
vars == <<fixed, row, copy, provider, call, sets, disturbances, marks>>

-----------------------------------------------------------------------------
Kinds == {"settings", "proxy", "chatwoot", "webhook"}
Off == [on |-> FALSE, id |-> 0, opt |-> FALSE]
EnvProxy == [on |-> TRUE, id |-> 0, opt |-> FALSE]
All == Values \cup {Off, EnvProxy}
NoCall == [op |-> "none", pc |-> "none", val |-> None, met |-> FALSE]

TypeOK ==
  /\ kind \in Kinds /\ channel \in {"baileys", "cloud"} /\ env \in BOOLEAN
  /\ row \in [on : BOOLEAN, id : Nat, opt : BOOLEAN] \cup {None}
  /\ copy \in [on : BOOLEAN, id : Nat, opt : BOOLEAN] \cup {None}
  /\ provider \in [on : BOOLEAN, id : Nat, opt : BOOLEAN] \cup {None}
  /\ call \in [Calls -> [op : {"none", "set", "load", "lookup"},
                         pc : {"none", "look", "create", "write", "apply", "clear", "read",
                               "assign", "has", "get", "find", "keep"},
                         val : [on : BOOLEAN, id : Nat, opt : BOOLEAN] \cup {None},
                         met : BOOLEAN]]
  /\ sets \in 0..MaxSets /\ disturbances \in 0..MaxDisturbances
  /\ marks \subseteq {"met", "omitted", "unlisted", "kept"}

Init ==
  /\ kind \in Kinds
  /\ channel \in {"baileys", "cloud"}
  /\ env \in BOOLEAN /\ (env => kind = "proxy")
  /\ row = None /\ copy = None /\ provider = None
  /\ call = [c \in Calls |-> NoCall]
  /\ sets = 0 /\ disturbances = 0
  /\ marks = {}

-----------------------------------------------------------------------------
\* Calls in progress together have met.
Begin(c, op, pc, v) ==
  LET others == {d \in Calls : call[d] # NoCall} IN
  /\ call[c] = NoCall
  /\ call' = [d \in Calls |->
       IF d = c THEN [op |-> op, pc |-> pc, val |-> v, met |-> others # {}]
       ELSE IF d \in others THEN [call[d] EXCEPT !.met = TRUE] ELSE call[d]]

At(c, op, pc) == call[c].op = op /\ call[c].pc = pc
Goto(c, pc) == call' = [call EXCEPT ![c].pc = pc]
With(c, pc, v) == call' = [call EXCEPT ![c].pc = pc, ![c].val = v]
Return(c) == call' = [call EXCEPT ![c] = NoCall]
Disturb == disturbances < MaxDisturbances /\ disturbances' = disturbances + 1

If(condition, set) == IF condition THEN set ELSE {}

\* The copy now is what this call says, met or not.
Copied(c, more) ==
  marks' = (marks \ {"met", "omitted", "unlisted"}) \cup If(call[c].met, {"met"}) \cup more

-----------------------------------------------------------------------------
(* set: the row, then the copy.                                             *)

\* createProxy empties a proxy that is not enabled and refuses one that does
\* not work.  Only chatwoot looks whether there is a row.
Set(c, v) ==
  /\ sets < MaxSets /\ sets' = sets + 1
  /\ kind = "proxy" /\ ~v.on => v.id = 0
  /\ Begin(c, "set", IF kind = "chatwoot" THEN "look" ELSE "write", v)
  /\ UNCHANGED <<fixed, row, copy, provider, disturbances, marks>>

Look(c) ==
  /\ At(c, "set", "look")
  /\ Goto(c, IF row = None THEN "create" ELSE "write")
  /\ UNCHANGED <<fixed, row, copy, provider, sets, disturbances, marks>>

\* UNIQUE(instanceId) refuses a second row.  signDelimiter is not inserted.
Create(c) ==
  /\ At(c, "set", "create")
  /\ IF row = None
     THEN row' = [call[c].val EXCEPT !.opt = FALSE] /\ Goto(c, "apply")
     ELSE Return(c) /\ UNCHANGED row
  /\ UNCHANGED <<fixed, copy, provider, sets, disturbances, marks>>

\* A field that is undefined stays as it is in the row, one that is null does not.
Stays == kind = "settings" /\ row # None /\ row.opt

\* Mutant: the copy is set whether the row was written or not.
WriteOrNot(c) ==
  /\ At(c, "set", "write")
  /\ \/ row' = call[c].val /\ UNCHANGED disturbances
     \/ Disturb /\ UNCHANGED row
  /\ Goto(c, "apply")
  /\ UNCHANGED <<fixed, copy, provider, sets, marks>>

Write(c) ==
  LET v == call[c].val IN
  /\ At(c, "set", "write")
  /\ \/ /\ row' = [v EXCEPT !.opt = @ \/ Stays]
        /\ IF kind = "webhook" THEN Return(c) ELSE Goto(c, "apply")
        /\ UNCHANGED disturbances
     \/ Disturb /\ Return(c) /\ UNCHANGED row
  /\ UNCHANGED <<fixed, copy, provider, sets, marks>>

\* clearCacheChatwoot only clears for a chatwoot that is enabled now.
Apply(c) ==
  LET v == call[c].val IN
  /\ At(c, "set", "apply")
  /\ copy' = v
  /\ Copied(c, If(row # None /\ row.opt # v.opt, {"omitted"})
               \cup If(kind = "chatwoot" /\ ~v.on, {"kept"}))
  /\ IF kind = "chatwoot" /\ v.on THEN Goto(c, "clear") ELSE Return(c)
  /\ UNCHANGED <<fixed, row, provider, sets, disturbances>>

\* Nobody awaits the deletion.
Clear(c) ==
  /\ At(c, "set", "clear")
  /\ provider' = None
  /\ marks' = marks \ {"kept"}
  /\ Return(c)
  /\ UNCHANGED <<fixed, row, copy, sets, disturbances>>

-----------------------------------------------------------------------------
(* connectToWhatsapp: the loads are not awaited.  Of the other channels it  *)
(* loads chatwoot only.                                                     *)

Blank == IF env THEN EnvProxy ELSE Off
Loaded == IF kind = "proxy" /\ (row = None \/ ~row.on) THEN Blank
          ELSE IF row = None THEN Off ELSE row

\* loadProxy starts with what the environment says.
Connect(c) ==
  /\ channel = "baileys" \/ kind = "chatwoot"
  /\ Begin(c, "load", "read", None)
  /\ IF kind = "proxy"
     THEN copy' = Blank /\ marks' = marks \ {"unlisted"}
     ELSE UNCHANGED <<copy, marks>>
  /\ UNCHANGED <<fixed, row, provider, sets, disturbances>>

Read(c) ==
  /\ At(c, "load", "read")
  /\ With(c, "assign", Loaded)
  /\ UNCHANGED <<fixed, row, copy, provider, sets, disturbances, marks>>

Assign(c) ==
  /\ At(c, "load", "assign")
  /\ IF kind = "proxy" /\ call[c].val = Blank
     THEN copy' = copy /\ marks' = marks \cup If(call[c].met, {"met"})
     ELSE copy' = call[c].val /\ Copied(c, {})
  /\ Return(c)
  /\ UNCHANGED <<fixed, row, provider, sets, disturbances>>

\* createClient: a list of proxies that cannot be fetched turns the proxy off.
ListFails ==
  /\ kind = "proxy" /\ copy # None /\ copy.on
  /\ Disturb
  /\ copy' = [copy EXCEPT !.on = FALSE]
  /\ marks' = marks \cup {"unlisted"}
  /\ UNCHANGED <<fixed, row, provider, call, sets>>

-----------------------------------------------------------------------------
(* getProvider.                                                             *)

Lookup(c) ==
  /\ kind = "chatwoot"
  /\ Begin(c, "lookup", "has", None)
  /\ UNCHANGED <<fixed, row, copy, provider, sets, disturbances, marks>>

Has(c) ==
  /\ At(c, "lookup", "has")
  /\ Goto(c, IF provider # None THEN "get" ELSE "find")
  /\ UNCHANGED <<fixed, row, copy, provider, sets, disturbances, marks>>

\* It may be gone meanwhile: then there is no client.
Get(c) ==
  /\ At(c, "lookup", "get")
  /\ Return(c)
  /\ UNCHANGED <<fixed, row, copy, provider, sets, disturbances, marks>>

Find(c) ==
  /\ At(c, "lookup", "find")
  /\ IF row = None THEN Return(c) ELSE With(c, "keep", row)
  /\ UNCHANGED <<fixed, row, copy, provider, sets, disturbances, marks>>

Keep(c) ==
  /\ At(c, "lookup", "keep")
  /\ provider' = call[c].val
  /\ marks' = marks \cup If(call[c].met, {"kept"})
  /\ Return(c)
  /\ UNCHANGED <<fixed, row, copy, sets, disturbances>>

Expire ==
  /\ provider # None
  /\ Disturb
  /\ provider' = None
  /\ UNCHANGED <<fixed, row, copy, call, sets, marks>>

-----------------------------------------------------------------------------
\* The process starts again; a cache in Redis is still there.
Restart ==
  /\ Disturb
  /\ copy' = None
  /\ provider' \in {provider, None}
  /\ call' = [c \in Calls |-> NoCall]
  /\ marks' = marks \cup If(\E c \in Calls : call[c].pc \in {"apply", "clear"}, {"kept"})
  /\ UNCHANGED <<fixed, row, sets>>

Next ==
  \/ \E c \in Calls :
       \/ \E v \in Values : Set(c, v)
       \/ Look(c) \/ Create(c) \/ Write(c) \/ Apply(c) \/ Clear(c)
       \/ Connect(c) \/ Read(c) \/ Assign(c)
       \/ Lookup(c) \/ Has(c) \/ Get(c) \/ Find(c) \/ Keep(c)
  \/ ListFails \/ Expire \/ Restart

Spec == Init /\ [][Next]_vars

-----------------------------------------------------------------------------
AtRest == \A c \in Calls : call[c] = NoCall

(* When nothing is under way the copy that was loaded or set says what the  *)
(* row says, or would say if it were loaded, and a provider in the cache is *)
(* the row.  Except: calls that met, optional fields the row keeps or never *)
(* got, a list of proxies that failed, the copy of the webhook, which no    *)
(* request changes, and the provider of a chatwoot that was turned off.     *)
SettingsAgree ==
  AtRest =>
    /\ copy # None /\ kind # "webhook" /\ marks \cap {"met", "omitted", "unlisted"} = {} =>
         copy \in {Loaded, row}
    /\ provider # None /\ "kept" \notin marks => provider = row
=============================================================================
