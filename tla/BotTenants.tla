------------------------------ MODULE BotTenants ------------------------------
(***************************************************************************)
(* How the organizations of the bot come to be: the interview that         *)
(* registers one (onboard-client.js), the seed of the first ones (seed.js) *)
(* and the move of an older database (migrate-to-pg.js), run by hand, also *)
(* two at once, and stopped or failing between any two statements; and how *)
(* the bot finds an organization's menu.  An instance name stands for its  *)
(* slug without dashes, as menus are filed; an organization's name for its *)
(* slug, as menus are looked for.                                          *)
(***************************************************************************)
EXTENDS Integers, FiniteSets, Sequences

CONSTANTS
  Scripts,           \* in progress
  Slugs,             \* of names and of instances
  Extends,           \* Extends[s]: the slugs that begin with s and go on
  SeedOrgs,          \* a sequence of [instance, name, type]
  OldOrgs,           \* of the older database, a set of the same
  NumServices,       \* of the seed's car wash, with fixed ids
  MaxScripts,        \* bound
  MaxUpsets,         \* bound: failures and interruptions
  None

VARIABLES
  orgs,              \* by instance_name, which is UNIQUE
  services,          \* the organization of each row, None when it is missing
  history,           \* are the older database's customers and messages here?
  menus,             \* data/menus: the version of each file, 0 for no file
  evolution,         \* instances created in the Evolution API
  scripts,
  request,           \* of a customer, for the menu
  given,             \* the menu last given for an instance
  begun, upsets,     \* for the bounds
  met                \* what has happened that a property speaks of

tables == <<orgs, services, history>>
bounds == <<begun, upsets>>
vars == <<tables, menus, evolution, scripts, request, given, bounds, met>>

-----------------------------------------------------------------------------
FixedServices == 1..NumServices
Types == {"restaurant", "lavacar"}
Formats == {"pdf", "png"}        \* in the order of the directory
Rows == [id : {"old", "new"}, name : Slugs, type : Types]

Idle == [pc |-> "idle", kind |-> None, name |-> None, instance |-> None, type |-> None,
         at |-> 0,               \* the seed's organization in hand
         service |-> 1,          \* and service
         existed |-> FALSE, calm |-> TRUE]

NotAsked == [pc |-> "none", instance |-> None, name |-> None, menu |-> 0, due |-> 0, plain |-> FALSE]

TypeOK ==
  /\ \A i \in Slugs : orgs[i] = None \/ orgs[i] \in Rows
  /\ \A s \in FixedServices : services[s] \in Slugs \cup {None}
  /\ history \in BOOLEAN
  /\ menus \in [Slugs \X Formats -> 0..MaxScripts]
  /\ evolution \subseteq Slugs
  /\ \A r \in Scripts :
       /\ scripts[r].pc \in {"idle", "confirm", "find", "update", "insert", "create",
                             "service", "add", "migrate", "done"}
       /\ scripts[r].at \in 0..Len(SeedOrgs) /\ scripts[r].service \in FixedServices
  /\ given \in [Slugs -> 0..MaxScripts]
  /\ met \subseteq {"died"}

Init ==
  /\ orgs = [i \in Slugs |-> None]
  /\ services = [s \in FixedServices |-> None]
  /\ history = FALSE
  /\ menus = [f \in Slugs \X Formats |-> 0]
  /\ evolution = {}
  /\ scripts = [r \in Scripts |-> Idle]
  /\ request = NotAsked
  /\ given = [i \in Slugs |-> 0]
  /\ begun = 0 /\ upsets = 0 /\ met = {}

-----------------------------------------------------------------------------
Running(r) == scripts[r].pc \notin {"idle", "done"}
To(r, pc) == scripts' = [scripts EXCEPT ![r].pc = pc]

\* Only interviews about different instances keep out of each other's way.
Begin(r, script) ==
  LET near == {q \in Scripts \ {r} : Running(q) /\
                 (script.kind # "onboard" \/ scripts[q].kind # "onboard"
                    \/ scripts[q].instance = script.instance)} IN
  /\ ~Running(r)
  /\ begun < MaxScripts /\ begun' = begun + 1
  /\ scripts' = [q \in Scripts |->
                   IF q = r THEN [script EXCEPT !.calm = near = {}]
                   ELSE [scripts[q] EXCEPT !.calm = @ /\ q \notin near]]

\* A statement fails: the script reports the error and exits.
Die(r) ==
  /\ scripts' = [scripts EXCEPT ![r] = Idle]
  /\ met' = met \cup (IF scripts[r].calm THEN {"died"} ELSE {})

-----------------------------------------------------------------------------
(* onboard-client.js                                                       *)

\* The interview.  The menu is copied while it goes on, under the instance's
\* name, which the operator may type.
Interview(r) ==
  /\ \E n, i \in Slugs, t \in Types :
       /\ Begin(r, [Idle EXCEPT !.pc = "confirm", !.kind = "onboard",
                                !.name = n, !.instance = i, !.type = t])
       /\ \/ UNCHANGED <<menus, given>>
          \/ \E f \in Formats :
               /\ menus' = [menus EXCEPT ![i, f] = begun']
               /\ given' = [given EXCEPT ![i] = begun']
  /\ UNCHANGED <<tables, evolution, request, upsets, met>>

Confirm(r) ==
  /\ scripts[r].pc = "confirm"
  /\ \/ To(r, "find")
     \/ scripts' = [scripts EXCEPT ![r] = Idle]
  /\ UNCHANGED <<tables, menus, evolution, request, given, bounds, met>>

\* What a script writes of an organization.
Wanted(r) ==
  IF scripts[r].kind = "seed" THEN SeedOrgs[scripts[r].at]
  ELSE [instance |-> scripts[r].instance, name |-> scripts[r].name, type |-> scripts[r].type]

\* The seed's next organization, if any.
NextOrg(r) ==
  IF scripts[r].at = Len(SeedOrgs) THEN [scripts[r] EXCEPT !.pc = "done"]
  ELSE [scripts[r] EXCEPT !.pc = "find", !.at = @ + 1, !.service = 1]

\* An organization is saved; the seed's car wash has services.
Saved(r) ==
  CASE scripts[r].kind = "onboard" -> [scripts[r] EXCEPT !.pc = "create"]
    [] Wanted(r).type = "lavacar" -> [scripts[r] EXCEPT !.pc = "service"]
    [] OTHER -> NextOrg(r)

NextService(r) ==
  IF scripts[r].service = NumServices THEN NextOrg(r)
  ELSE [scripts[r] EXCEPT !.pc = "service", !.service = @ + 1]

findOrganizationByInstance(r) ==
  /\ scripts[r].pc = "find"
  /\ LET found == orgs[Wanted(r).instance] # None IN
     scripts' = [scripts EXCEPT ![r].pc = IF found THEN "update" ELSE "insert",
                                ![r].existed = found]
  /\ UNCHANGED <<tables, menus, evolution, request, given, bounds, met>>

\* The interview's UPDATE leaves the type, the seed's leaves the name.
UpdateOrganization(r) ==
  /\ scripts[r].pc = "update"
  /\ orgs' = IF scripts[r].kind = "seed"
             THEN [orgs EXCEPT ![Wanted(r).instance].type = Wanted(r).type]
             ELSE [orgs EXCEPT ![Wanted(r).instance].name = Wanted(r).name]
  /\ scripts' = [scripts EXCEPT ![r] = Saved(r)]
  /\ UNCHANGED <<services, history, menus, evolution, request, given, bounds, met>>

createOrganization(r) ==
  /\ scripts[r].pc = "insert"
  /\ IF orgs[Wanted(r).instance] # None
     THEN Die(r) /\ UNCHANGED orgs
     ELSE /\ orgs' = [orgs EXCEPT ![Wanted(r).instance] =
                        [id |-> "new", name |-> Wanted(r).name, type |-> Wanted(r).type]]
          /\ scripts' = [scripts EXCEPT ![r] = Saved(r)]
          /\ UNCHANGED met
  /\ UNCHANGED <<services, history, menus, evolution, request, given, bounds>>

\* instance/create, which refuses a name that is there; either is reported.
CreateInstance(r) ==
  /\ scripts[r].pc = "create"
  /\ evolution' = evolution \cup {scripts[r].instance}
  /\ To(r, "done")
  /\ UNCHANGED <<tables, menus, request, given, bounds, met>>

-----------------------------------------------------------------------------
(* seed.js                                                                 *)

Seed(r) ==
  /\ Begin(r, [Idle EXCEPT !.pc = "find", !.kind = "seed", !.at = 1])
  /\ UNCHANGED <<tables, menus, evolution, request, given, upsets, met>>

\* Mutant: a service is inserted whatever is there.
InsertAnyhow(r) ==
  /\ scripts[r].pc = "service"
  /\ To(r, "add")
  /\ UNCHANGED <<tables, menus, evolution, request, given, bounds, met>>

\* createOrUpdateService: UPDATE by id and organization, and INSERT if no row
\* was hit.
UpdateService(r) ==
  /\ scripts[r].pc = "service"
  /\ IF services[scripts[r].service] = Wanted(r).instance
     THEN scripts' = [scripts EXCEPT ![r] = NextService(r)]
     ELSE To(r, "add")
  /\ UNCHANGED <<tables, menus, evolution, request, given, bounds, met>>

\* The id is a primary key, whatever the organization.
InsertService(r) ==
  /\ scripts[r].pc = "add"
  /\ IF services[scripts[r].service] # None
     THEN Die(r) /\ UNCHANGED services
     ELSE /\ services' = [services EXCEPT ![scripts[r].service] = Wanted(r).instance]
          /\ scripts' = [scripts EXCEPT ![r] = NextService(r)]
          /\ UNCHANGED met
  /\ UNCHANGED <<orgs, history, menus, evolution, request, given, bounds>>

-----------------------------------------------------------------------------
(* migrate-to-pg.js                                                        *)

Migrate(r) ==
  /\ Begin(r, [Idle EXCEPT !.pc = "migrate", !.kind = "migrate"])
  /\ UNCHANGED <<tables, menus, evolution, request, given, upsets, met>>

\* An organization registered anew has another id: ON CONFLICT (id) does not
\* cover its instance_name.
Registered == {o \in OldOrgs : orgs[o.instance] # None /\ orgs[o.instance].id # "old"}

\* One transaction: all rows, each unless its id is there, or none.
CopyOldDatabase(r) ==
  /\ scripts[r].pc = "migrate"
  /\ IF Registered = {}
     THEN /\ orgs' = [i \in Slugs |->
                        IF orgs[i] = None /\ \E o \in OldOrgs : o.instance = i
                        THEN LET o == CHOOSE o \in OldOrgs : o.instance = i
                             IN [id |-> "old", name |-> o.name, type |-> o.type]
                        ELSE orgs[i]]
          /\ history' = TRUE
          /\ To(r, "done")
     ELSE scripts' = [scripts EXCEPT ![r] = Idle] /\ UNCHANGED <<orgs, history>>
  /\ UNCHANGED <<services, menus, evolution, request, given, bounds, met>>

-----------------------------------------------------------------------------
(* The menu, in WebhookHandler.handle.                                     *)

\* The row is read when the message comes in.
AskForMenu(i) ==
  /\ request.pc # "asked"
  /\ orgs[i] # None
  /\ request' = [NotAsked EXCEPT !.pc = "asked", !.instance = i, !.name = orgs[i].name]
  /\ UNCHANGED <<tables, menus, evolution, scripts, given, bounds, met>>

Files(s) == {f \in Formats : menus[s, f] # 0}

\* The first file of the directory that begins with cardapio_<slug>.
FindMenu(s) ==
  LET longer == {t \in Extends[s] : Files(t) # {}}
      first(t) == menus[t, IF "pdf" \in Files(t) THEN "pdf" ELSE "png"]
  IN IF Files(s) # {} THEN first(s)
     ELSE IF longer # {} THEN first(CHOOSE t \in longer : TRUE)
     ELSE 0

\* A request is plain unless the organization's name is not its instance's,
\* the menu was given in two formats, or a longer name has a menu and it not.
SendMenu ==
  /\ request.pc = "asked"
  /\ request' = [request EXCEPT
       !.pc = "sent", !.menu = FindMenu(request.name), !.due = given[request.instance],
       !.plain = /\ request.name = request.instance
                 /\ Cardinality(Files(request.name)) < 2
                 /\ Files(request.name) = {} =>
                      \A t \in Extends[request.name] : Files(t) = {}]
  /\ UNCHANGED <<tables, menus, evolution, scripts, given, bounds, met>>

-----------------------------------------------------------------------------
\* A script is interrupted, or loses the database; the Evolution API may only
\* be missing, which ends the script as if all were well.
Upset(r) ==
  /\ Running(r)
  /\ upsets < MaxUpsets /\ upsets' = upsets + 1
  /\ scripts' = [scripts EXCEPT ![r] = Idle]
  /\ UNCHANGED <<tables, menus, evolution, request, given, begun, met>>

Next ==
  \/ \E r \in Scripts :
       \/ Interview(r) \/ Confirm(r) \/ findOrganizationByInstance(r)
       \/ UpdateOrganization(r) \/ createOrganization(r) \/ CreateInstance(r)
       \/ Seed(r) \/ UpdateService(r) \/ InsertService(r)
       \/ Migrate(r) \/ CopyOldDatabase(r)
       \/ Upset(r)
  \/ \E i \in Slugs : AskForMenu(i)
  \/ SendMenu

Spec == Init /\ [][Next]_vars

-----------------------------------------------------------------------------
(* A script that no other one overlaps, whatever earlier ones left undone, *)
(* does not die half way.  It ends with the organization registered as the *)
(* interview was told (but for the type of one that was there) and with    *)
(* its instance; with the seed's organizations and services there; or with *)
(* the older database here.  Rows of that database are all here or none,   *)
(* and services are of organizations that are there.  A customer is sent   *)
(* the menu last given for the organization, if the request is plain.      *)
OnboardedAsAsked ==
  /\ "died" \notin met
  /\ \A r \in Scripts : LET script == scripts[r] IN script.calm =>
       /\ script.pc = "create" =>
            /\ orgs[script.instance].name = script.name
            /\ ~script.existed => orgs[script.instance].type = script.type
       /\ script.pc = "done" =>
            CASE script.kind = "onboard" -> script.instance \in evolution
              [] script.kind = "seed" ->
                   /\ \A k \in DOMAIN SeedOrgs : orgs[SeedOrgs[k].instance] # None
                   /\ \A s \in FixedServices : services[s] # None
              [] OTHER -> history
  /\ history => \A o \in OldOrgs : orgs[o.instance] # None /\ orgs[o.instance].id = "old"
  /\ \A s \in FixedServices : services[s] # None => orgs[services[s]] # None
  /\ request.pc = "sent" /\ request.plain => request.menu = request.due
===============================================================================
