--------------------------- MODULE InstanceLifecycle ---------------------------
(***************************************************************************)
(* One instance name of the Evolution API: the requests of                 *)
(* controllers/instance.controller.ts and guards/instance.guard.ts, the    *)
(* events of services/monitor.service.ts, the connection of the Baileys    *)
(* channel (whatsapp.baileys.service.ts) and its stored credentials        *)
(* (use-multi-file-auth-state-prisma.ts).  Everything is keyed by the      *)
(* name, so names do not meet.                                             *)
(*                                                                         *)
(* What a handler does between two awaits is one step; what is left of it  *)
(* is a member of tasks.  The queue of a socket's events is in its stage:  *)
(* "lost" and "out" are sockets whose 'close' has not been handled yet.    *)
(* Two queries in a row that act on the same rows are one step.            *)
(***************************************************************************)
EXTENDS Integers, FiniteSets

CONSTANTS
  Ids,               \* uuids that instances of this name can have
  Calls,             \* API requests
  Sockets,           \* WASockets that exist at once
  QrLimit,           \* QRCODE.LIMIT
  DelInstance,       \* is DEL_INSTANCE a number of minutes?
  Overlaps,          \* overlaps that may happen: see below
  MaxLosses,         \* bound: connections that drop, restarts of the process
  None               \* no entry, no row

ASSUME LifecycleAssumption ==
  /\ Ids \subseteq Nat \ {0}
  /\ Calls \subseteq Nat \ {0}
  /\ Sockets \subseteq Nat \ {0}
  /\ Calls \cap Sockets = {}
  /\ QrLimit \in Nat
  /\ DelInstance \in BOOLEAN
  /\ Overlaps \subseteq {"name", "connect", "ending", "save", "restart"}
  /\ MaxLosses \in Nat
  /\ None \notin Ids

VARIABLES
  registry,          \* waInstances[name]: the id of the object
  db,                \* the Instance row of the name, and the Session rows
  inst,              \* the objects, by id; those of lost entries live on
  sock,              \* the sockets
  tasks,             \* what is left of the handlers that have begun
  armed,             \* is there a deletion timer?
  done,              \* requests that have been made
  losses

vars == <<registry, db, inst, sock, tasks, armed, done, losses>>

-----------------------------------------------------------------------------
States == {"close", "connecting", "open"}
Creds == {"none", "fresh", "paired"}
Stages == {"unused", "prepared", "new", "connecting", "shown", "open", "lost", "out", "closed"}

\* A request, a socket or, with 0, the process itself began the task.
Ops == {"lookup", "insert", "settings", "remove", "cleanup", "purge", "find", "drop",
        "logout", "logout_delete", "forget", "forget_delete", "load", "socket",
        "refuse", "no_connection", "closing", "logout_event", "timer",
        "write_connecting", "write_open", "save_fresh", "save_paired"}
Tasks == [op : Ops, id : Ids \cup {None}, by : {0} \cup Calls \cup Sockets]

T(op, id, by) == [op |-> op, id |-> id, by |-> by]
Becomes(t, new) == tasks' = (tasks \ {t}) \cup new
Pending(ops) == {t \in tasks : t.op \in ops}

NewObject == [state |-> "close", qrs |-> 0, ended |-> FALSE, auth |-> 0, client |-> 0]
Unused == [of |-> None, stage |-> "unused", creds |-> "none"]

Shaking(s) == sock[s].stage \in {"connecting", "shown"}   \* "shown": a QR code is out
Live(s) == sock[s].stage \in {"new", "connecting", "shown", "open"}
InUse(s) == \E i \in Ids : inst[i].auth = s \/ inst[i].client = s
Free == {s \in Sockets : sock[s].stage \in {"unused", "closed"} /\ ~InUse(s)}

TypeOK ==
  /\ registry \in Ids \cup {None}
  /\ db \in [row : Ids \cup {None}, status : States, creds : [Ids -> Creds]]
  /\ inst \in [Ids -> [state : States, qrs : 0..QrLimit, ended : BOOLEAN,
                       auth : Sockets \cup {0}, client : Sockets \cup {0}]]
  /\ sock \in [Sockets -> [of : Ids \cup {None}, stage : Stages, creds : Creds]]
  /\ tasks \in SUBSET Tasks
  /\ armed \in BOOLEAN
  /\ done \subseteq Calls
  /\ losses \in 0..MaxLosses

\* The process starts with db: loadInstance() registers the row at once, or
\* connects it first.
Boot(d) ==
  IF d.row # None /\ d.status # "close"
  THEN [registry |-> None, tasks |-> {T("load", d.row, 0)}]
  ELSE [registry |-> d.row, tasks |-> {}]

\* No row; one that was never connected; one that is paired.
Init ==
  /\ \E r \in Ids \cup {None}, c \in {"none", "paired"} :
       /\ IF r = None THEN c = "none" ELSE \A i \in Ids : r <= i
       /\ db = [row |-> r, status |-> IF c = "paired" THEN "open" ELSE "close",
                creds |-> [i \in Ids |-> IF i = r THEN c ELSE "none"]]
  /\ registry = Boot(db).registry
  /\ tasks = Boot(db).tasks
  /\ inst = [i \in Ids |-> NewObject]
  /\ sock = [s \in Sockets |-> Unused]
  /\ armed = FALSE
  /\ done = {}
  /\ losses = 0

-----------------------------------------------------------------------------
(* Overlaps.  Nothing keeps a step from coming before the handlers of an   *)
(* earlier one have ended.  Where that hurts it has a name, and only the   *)
(* overlaps of the constant happen.                                        *)

Creating == Pending({"lookup", "insert", "settings"}) # {}
Ending == \/ Pending({"remove", "cleanup", "purge", "find", "drop", "timer", "logout",
                      "logout_delete", "forget", "forget_delete", "closing", "logout_event",
                      "refuse", "no_connection"}) # {}
          \/ \E s \in Sockets : sock[s].stage = "out"
Saving == Pending({"save_fresh", "save_paired"}) # {}
Loading == Pending({"load", "socket"}) # {} \/ \E s \in Sockets : sock[s].stage = "new"
Losing == \E s \in Sockets : sock[s].stage = "lost"

Unless(bad, kind) == bad => kind \in Overlaps

-----------------------------------------------------------------------------
(* What the handlers share.                                                *)

\* client.end(): a socket that still runs will emit 'close'.
End(ss, s, why) == IF s # 0 /\ Live(s) THEN [ss EXCEPT ![s].stage = why] ELSE ss

\* client.logout() of a paired socket talks to the server first, and throws
\* when the web socket is not open; then it ends the socket.
CanLogout(s) == s # 0 => sock[s].creds # "paired" \/ Live(s)
LogoutThrows(s) == s # 0 /\ sock[s].creds = "paired" /\ sock[s].stage # "open"

\* The session row hangs on the instance row.
SaveCreds(d, id, c) == IF d.row = id THEN [d EXCEPT !.creds[id] = c] ELSE d

SetStatus(d, id, s) == IF d.row = id THEN [d EXCEPT !.status = s] ELSE d

Exists == registry # None \/ db.row # None
State == inst[registry].state

-----------------------------------------------------------------------------
(* POST /instance/create.                                                  *)

\* Ids that nothing refers to stand for fresh uuids.
Unknown == {i \in Ids \ {registry, db.row} : /\ \A t \in tasks : t.id # i
                                             /\ \A s \in Sockets : sock[s].of # i}

Request(c) == c \notin done /\ done' = done \cup {c} /\ \A d \in Calls \ done : c <= d

\* instanceLoggedGuard finds no object and asks for the row.
Create(c) ==
  /\ Request(c)
  /\ registry = None
  /\ tasks' = tasks \cup {T("lookup", None, c)}
  /\ Unless(Creating \/ Ending \/ Loading, "name")
  /\ UNCHANGED <<registry, db, inst, sock, armed, losses>>

\* No row: whatever is registered by now is forgotten, and createInstance makes
\* an object with a new uuid.
CreateLookup(t) ==
  /\ t.op = "lookup"
  /\ IF db.row # None THEN Becomes(t, {}) /\ UNCHANGED registry
     ELSE \E i \in Unknown :
            /\ \A j \in Unknown : i <= j
            /\ registry' = None
            /\ Becomes(t, {T("insert", i, t.by)})
  /\ UNCHANGED <<db, inst, sock, armed, done, losses>>

\* saveInstance logs a refusal by UNIQUE(name) and goes on.
CreateInsert(t) ==
  /\ t.op = "insert"
  /\ db' = IF db.row = None THEN [db EXCEPT !.row = t.id, !.status = "close"] ELSE db
  /\ registry' = t.id
  /\ inst' = [inst EXCEPT ![t.id] = NewObject]
  /\ armed' = DelInstance
  /\ Becomes(t, {T("settings", t.id, t.by)})
  /\ UNCHANGED <<sock, done, losses>>

\* The settings are stored for the object that is registered, with a foreign key
\* to its row; then comes a QR code if one was asked for.  A refusal, or a bad
\* proxy, number or chatwoot account, removes the instance by its name.
CreateSettings(t) ==
  /\ t.op = "settings"
  /\ \/ Becomes(t, {T("remove", None, t.by)})
     \/ /\ registry # None /\ registry = db.row
        /\ \/ Becomes(t, {})
           \/ Becomes(t, {T("load", t.id, t.by)})
  /\ UNCHANGED <<registry, db, inst, sock, armed, done, losses>>

-----------------------------------------------------------------------------
(* The other requests.  A request whose object is in no state for it, or   *)
(* that finds no object, changes nothing and is left out.                  *)


Connect(c) ==
  /\ Request(c)
  /\ registry # None /\ State = "close"
  /\ tasks' = tasks \cup {T("load", registry, c)}
  /\ Unless(Creating \/ Loading \/ Losing \/ \E s \in Sockets : Live(s), "connect")
  /\ Unless(Ending, "ending")
  /\ UNCHANGED <<registry, db, inst, sock, armed, losses>>

\* Mutant: it connects again at once, whatever the old socket does.
RestartConnecting(c) ==
  /\ Request(c)
  /\ registry # None /\ State # "close"
  /\ sock' = End(sock, inst[registry].client, "lost")
  /\ tasks' = tasks \cup {T("load", registry, c)}
  /\ UNCHANGED <<registry, db, inst, armed, losses>>

\* The socket is ended; connectToWhatsapp then still reads the old state.
Restart(c) ==
  /\ Request(c)
  /\ registry # None /\ State # "close"
  /\ sock' = End(sock, inst[registry].client, "lost")
  /\ UNCHANGED <<registry, db, inst, tasks, armed, losses>>

Logout(c) ==
  /\ Request(c)
  /\ registry # None /\ State # "close"
  /\ tasks' = tasks \cup {T("logout", registry, c)}
  /\ UNCHANGED <<registry, db, inst, sock, armed, losses>>

\* Mutant: an instance that is open is removed as it is.
DeleteOpen(c) ==
  /\ Request(c)
  /\ Exists
  /\ tasks' = tasks \cup {T("remove", None, c)}
  /\ Unless(Creating \/ Loading \/ Losing, "name")
  /\ UNCHANGED <<registry, db, inst, sock, armed, losses>>

Delete(c) ==
  /\ Request(c)
  /\ Exists
  /\ IF registry # None /\ State # "close"
     THEN tasks' = tasks \cup {T("logout_delete", registry, c)}
     ELSE tasks' = tasks \cup {T("remove", None, c)}
  /\ Unless(Creating \/ Loading \/ Losing, "name")
  /\ UNCHANGED <<registry, db, inst, sock, armed, losses>>

\* logoutInstance(), of a request or of one that deletes; when client.logout
\* throws, the request ends there.
ClientLogout(t) ==
  LET s == inst[t.id].client IN
  /\ t.op \in {"logout", "logout_delete"}
  /\ \/ /\ LogoutThrows(s)
        /\ Becomes(t, {}) /\ UNCHANGED sock
     \/ /\ CanLogout(s)
        /\ sock' = End(sock, s, "out")
        /\ Becomes(t, {T(IF t.op = "logout" THEN "forget" ELSE "forget_delete", t.id, t.by)})
  /\ UNCHANGED <<registry, db, inst, armed, done, losses>>

\* removeCreds() and the deletion of the session that is left.
ForgetCreds(t) ==
  /\ t.op \in {"forget", "forget_delete"}
  /\ db' = [db EXCEPT !.creds[t.id] = "none"]
  /\ Becomes(t, IF t.op = "forget" THEN {} ELSE {T("remove", None, t.by)})
  /\ UNCHANGED <<registry, inst, sock, armed, done, losses>>

-----------------------------------------------------------------------------
(* The events of the monitor, and its deletion timer.                      *)

\* Mutant: the object stays registered.
RemoveRowOnly(t) ==
  /\ t.op = "remove"
  /\ Becomes(t, {T("cleanup", None, t.by), T("find", None, t.by)})
  /\ armed' = FALSE
  /\ UNCHANGED <<registry, db, inst, sock, done, losses>>

\* 'remove.instance', once its webhook has been sent.
RemoveInstance(t) ==
  /\ t.op = "remove"
  /\ Becomes(t, {T("cleanup", None, t.by), T("find", None, t.by)})
  /\ registry' = None
  /\ armed' = FALSE
  /\ UNCHANGED <<db, inst, sock, done, losses>>

LogoutEvent(t) ==
  /\ t.op = "logout_event"
  /\ Becomes(t, {T("cleanup", None, t.by)})
  /\ armed' = FALSE
  /\ UNCHANGED <<registry, db, inst, sock, done, losses>>

\* cleaningUp() by the name, and then the session of the row it found.
cleaningUp(t) ==
  /\ \/ /\ t.op = "cleanup"
        /\ db' = [db EXCEPT !.status = "close"]
        /\ Becomes(t, IF db.row = None THEN {} ELSE {T("purge", db.row, t.by)})
     \/ /\ t.op = "purge"
        /\ db' = [db EXCEPT !.creds[t.id] = "none"]
        /\ Becomes(t, {})
  /\ UNCHANGED <<registry, inst, sock, armed, done, losses>>

\* cleaningStoreData(): what hangs on the row it found, and then the row that
\* has the name.
cleaningStoreData(t) ==
  /\ \/ /\ t.op = "find"
        /\ Becomes(t, IF db.row = None THEN {} ELSE {T("drop", db.row, t.by)})
        /\ UNCHANGED db
     \/ /\ t.op = "drop"
        /\ db' = [row |-> None, status |-> "close",
                  creds |-> [i \in Ids |-> IF i \in {t.id, db.row} THEN "none" ELSE db.creds[i]]]
        /\ Becomes(t, {})
  /\ UNCHANGED <<registry, inst, sock, armed, done, losses>>

\* 'no.connection', after the last QR code.
NoConnection(t) ==
  LET s == IF registry = None THEN 0 ELSE inst[registry].client IN
  /\ t.op = "no_connection"
  /\ \/ /\ registry = None \/ LogoutThrows(s)
        /\ UNCHANGED <<inst, sock>>
     \/ /\ registry # None /\ CanLogout(s)
        /\ sock' = End(sock, s, "out")
        /\ inst' = [inst EXCEPT ![registry].qrs = 0, ![registry].state = "close"]
  /\ Becomes(t, {})
  /\ UNCHANGED <<registry, db, armed, done, losses>>

\* Nothing disarms the timer when the connection opens.
TimerFires ==
  /\ armed
  /\ armed' = FALSE
  /\ tasks' = tasks \cup (IF registry # None /\ State = "open" THEN {}
                          ELSE IF registry # None /\ State = "connecting"
                               THEN {T("timer", None, 0)} ELSE {T("remove", None, 0)})
  /\ Unless(Creating \/ Loading \/ Losing, "name")
  /\ UNCHANGED <<registry, db, inst, sock, done, losses>>

TimerLogout(t) ==
  LET s == IF registry = None THEN 0 ELSE inst[registry].client IN
  /\ t.op = "timer"
  /\ \/ /\ LogoutThrows(s)
        /\ Becomes(t, {}) /\ UNCHANGED sock
     \/ /\ CanLogout(s)
        /\ sock' = End(sock, s, "out")
        /\ Becomes(t, {T("remove", None, 0)})
  /\ UNCHANGED <<registry, db, inst, armed, done, losses>>

-----------------------------------------------------------------------------
(* connectToWhatsapp() of the channel.                                     *)

\* defineAuthState(): new credentials are stored when there are none.
LoadCreds(t) ==
  LET c == IF db.creds[t.id] = "none" THEN "fresh" ELSE db.creds[t.id] IN
  /\ t.op = "load"
  /\ \E s \in Free :
       /\ \A r \in Free : s <= r
       /\ sock' = [sock EXCEPT ![s] = [of |-> t.id, stage |-> "prepared", creds |-> c]]
       /\ inst' = [inst EXCEPT ![t.id].auth = s]
  /\ db' = SaveCreds(db, t.id, c)
  /\ Becomes(t, {T("socket", t.id, t.by)})
  /\ Unless(Saving, "save")
  /\ UNCHANGED <<registry, armed, done, losses>>

\* The client of before is replaced and not closed.  At the start of the
\* process the object is registered only now.
OpenSocket(t) ==
  LET s == inst[t.id].auth IN
  /\ t.op = "socket"
  /\ sock' = [r \in Sockets |->
               IF r = s THEN [sock[s] EXCEPT !.stage = "new"]
               ELSE IF r = inst[t.id].client /\ sock[r].stage = "closed" THEN Unused
               ELSE sock[r]]
  /\ inst' = [inst EXCEPT ![t.id].ended = FALSE, ![t.id].client = s]
  /\ registry' = IF t.by = 0 THEN t.id ELSE registry
  /\ Becomes(t, {})
  /\ UNCHANGED <<db, armed, done, losses>>

-----------------------------------------------------------------------------
(* The events of a socket; connectionUpdate().                             *)

SetState(i, st) == inst' = IF inst[i].ended THEN inst ELSE [inst EXCEPT ![i].state = st]

\* What a handler leaves behind, unless the session has ended.
Leaves(i, new) == tasks' = IF inst[i].ended THEN tasks ELSE tasks \cup new

SaysConnecting(s) ==
  /\ sock[s].stage = "new"
  /\ sock' = [sock EXCEPT ![s].stage = "connecting"]
  /\ SetState(sock[s].of, "connecting")
  /\ UNCHANGED <<registry, db, tasks, armed, done, losses>>

Qr(s) ==
  LET i == sock[s].of IN
  /\ Shaking(s) /\ sock[s].creds = "fresh"
  /\ ~inst[i].ended
  /\ IF inst[i].qrs = QrLimit
     THEN /\ tasks' = tasks \cup {T("refuse", i, s)}
          /\ sock' = [sock EXCEPT ![s].stage = "connecting"]
          /\ UNCHANGED inst
     ELSE /\ tasks' = tasks \cup {T("write_connecting", i, s)}
          /\ inst' = [inst EXCEPT ![i].qrs = @ + 1]
          /\ sock' = [sock EXCEPT ![s].stage = "shown"]
  /\ UNCHANGED <<registry, db, armed, done, losses>>

\* Once the profile name of the last notice has been read.
Refuse(t) ==
  /\ t.op = "refuse"
  /\ inst' = [inst EXCEPT ![t.id].ended = TRUE]
  /\ Becomes(t, {T("no_connection", None, t.by)})
  /\ UNCHANGED <<registry, db, sock, armed, done, losses>>

\* The code is scanned: the credentials change, saveCreds() stores those of the
\* newest auth state, and WhatsApp asks for a reconnection.
Scan(s) ==
  LET i == sock[s].of
      saved == IF inst[i].auth = s THEN "paired" ELSE sock[inst[i].auth].creds IN
  /\ sock[s].stage = "shown" /\ sock[s].creds = "fresh"
  /\ Unless(Ending, "ending")
  /\ sock' = [sock EXCEPT ![s].creds = "paired", ![s].stage = "lost"]
  /\ Leaves(i, {T(IF saved = "paired" THEN "save_paired" ELSE "save_fresh", i, s)})
  /\ UNCHANGED <<registry, db, inst, armed, done, losses>>

Store(t) ==
  /\ t.op \in {"save_fresh", "save_paired"}
  /\ db' = SaveCreds(db, t.id, IF t.op = "save_paired" THEN "paired" ELSE "fresh")
  /\ Becomes(t, {})
  /\ UNCHANGED <<registry, inst, sock, armed, done, losses>>

\* 'open'; the row is written when the profile picture has come.
Opens(s) ==
  LET i == sock[s].of IN
  /\ sock[s].stage = "connecting" /\ sock[s].creds = "paired"
  /\ sock' = [sock EXCEPT ![s].stage = "open"]
  /\ SetState(i, "open")
  /\ Leaves(i, {T("write_open", i, s)})
  /\ UNCHANGED <<registry, db, armed, done, losses>>

WriteStatus(t) ==
  /\ t.op \in {"write_connecting", "write_open"}
  /\ db' = SetStatus(db, t.id, IF t.op = "write_open" THEN "open" ELSE "connecting")
  /\ Becomes(t, {})
  /\ UNCHANGED <<registry, inst, sock, armed, done, losses>>

\* The network drops the connection, or the phone unlinks the device.
Drops(s) ==
  /\ Shaking(s) \/ sock[s].stage = "open"
  /\ losses < MaxLosses
  /\ losses' = losses + 1
  /\ \E why \in {"lost", "out"} : sock' = [sock EXCEPT ![s].stage = why]
  /\ UNCHANGED <<registry, db, inst, tasks, armed, done>>

\* Mutant: a lost connection is not made again.
ClosesQuietly(s) ==
  LET i == sock[s].of IN
  /\ sock[s].stage \in {"lost", "out"}
  /\ sock' = [sock EXCEPT ![s].stage = "closed"]
  /\ SetState(i, "close")
  /\ Leaves(i, IF sock[s].stage = "lost" THEN {} ELSE {T("closing", i, s)})
  /\ UNCHANGED <<registry, db, armed, done, losses>>

\* Mutant: every close also counts as a logout.
ClosesLoggedOut(s) ==
  LET i == sock[s].of IN
  /\ sock[s].stage \in {"lost", "out"}
  /\ sock' = [sock EXCEPT ![s].stage = "closed"]
  /\ SetState(i, "close")
  /\ Leaves(i, {T("closing", i, s)} \cup (IF sock[s].stage = "lost" THEN {T("load", i, s)} ELSE {}))
  /\ UNCHANGED <<registry, db, armed, done, losses>>

\* 'close': it connects again, unless the code is one that says not to.
Closes(s) ==
  LET i == sock[s].of IN
  /\ sock[s].stage \in {"lost", "out"}
  /\ sock' = [sock EXCEPT ![s].stage = "closed"]
  /\ SetState(i, "close")
  /\ Leaves(i, {T(IF sock[s].stage = "lost" THEN "load" ELSE "closing", i, s)})
  /\ UNCHANGED <<registry, db, armed, done, losses>>

\* The rest of a 'close' for good: without a row the update throws; else the
\* client there is by now is closed.
Closing(t) ==
  /\ t.op = "closing"
  /\ IF db.row # t.id
     THEN Becomes(t, {}) /\ UNCHANGED <<db, sock>>
     ELSE /\ db' = [db EXCEPT !.status = "close"]
          /\ Becomes(t, {T("logout_event", None, t.by)})
          /\ sock' = End(sock, inst[t.id].client, "lost")
  /\ UNCHANGED <<registry, inst, armed, done, losses>>

-----------------------------------------------------------------------------
Reboot ==
  /\ losses < MaxLosses
  /\ Unless(tasks # {}, "restart")
  /\ losses' = losses + 1
  /\ registry' = Boot(db).registry
  /\ tasks' = Boot(db).tasks
  /\ inst' = [i \in Ids |-> NewObject]
  /\ sock' = [s \in Sockets |-> Unused]
  /\ armed' = FALSE
  /\ UNCHANGED <<db, done>>

CallStep(c) == Create(c) \/ Connect(c) \/ Restart(c) \/ Logout(c) \/ Delete(c)

TaskStep(t) ==
  \/ CreateLookup(t) \/ CreateInsert(t) \/ CreateSettings(t)
  \/ ClientLogout(t) \/ ForgetCreds(t) \/ RemoveInstance(t) \/ LogoutEvent(t)
  \/ cleaningUp(t) \/ cleaningStoreData(t) \/ NoConnection(t) \/ TimerLogout(t)
  \/ LoadCreds(t) \/ OpenSocket(t) \/ Refuse(t) \/ Store(t) \/ WriteStatus(t) \/ Closing(t)

SocketStep(s) == SaysConnecting(s) \/ Opens(s) \/ Closes(s)

Next ==
  \/ \E c \in Calls : CallStep(c)
  \/ \E t \in tasks : TaskStep(t)
  \/ \E s \in Sockets : SocketStep(s) \/ Qr(s) \/ Scan(s) \/ Drops(s)
  \/ TimerFires
  \/ Reboot

\* Some handler goes on whenever one can, and a socket connects, is accepted
\* if it is paired, and says so when it has closed.
Fairness ==
  /\ WF_vars(\E t \in tasks : TaskStep(t))
  /\ \A s \in Sockets : WF_vars(SocketStep(s))

Spec == Init /\ [][Next]_vars /\ Fairness

-----------------------------------------------------------------------------
AtRest == tasks = {} /\ \A s \in Sockets : sock[s].stage \notin {"new", "lost", "out"}

(* At rest the name has a row exactly when it has an object, and they are  *)
(* of the same instance.                                                   *)
RegistryMatchesRow == AtRest => registry = db.row

(* At rest no paired socket runs for an instance that is not registered.   *)
NoGhosts ==
  AtRest =>
    \A s \in Sockets : Live(s) /\ sock[s].creds = "paired" => sock[s].of = registry

(* An object has one socket, running, prepared or to be replaced.          *)
OneSocket ==
    \A i \in Ids : Cardinality({s \in Sockets : sock[s].of = i
                                /\ (Live(s) \/ sock[s].stage \in {"prepared", "lost"})})
                   + Cardinality({t \in Pending({"load"}) : t.id = i}) <= 1

(* At rest an open instance would be connected again after a restart.      *)
OpenIsRemembered ==
  AtRest /\ registry # None /\ State = "open" =>
    db.status # "close" /\ db.creds[registry] = "paired"

(* A paired instance that has lost its connection gets it back, or it is   *)
(* logged out, or removed.                                                 *)
Reconnects ==
  registry # None /\ State = "close" /\ db.creds[registry] = "paired" ~>
    registry = None \/ State = "open" \/ db.creds[registry] # "paired"
=============================================================================
