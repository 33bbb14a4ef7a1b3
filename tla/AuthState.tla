------------------------------- MODULE AuthState -------------------------------
(***************************************************************************)
(* Where an instance's credentials and Signal keys are kept: on a file     *)
(* server (use-multi-file-auth-state-provider-files.ts), in a Redis hash   *)
(* (use-multi-file-auth-state-redis-db.ts), or with the credentials in a   *)
(* row and the keys in Redis or in files (use-multi-file-auth-state-       *)
(* prisma.ts), and how they are forgotten: logoutInstance of the Baileys   *)
(* service and cleaningUp of the monitor.  Nothing awaits saveCreds, and   *)
(* most errors are swallowed.  SAVE_DATA.INSTANCE is on.  A value is the   *)
(* stamp of the write that made it.                                        *)
(***************************************************************************)
EXTENDS Integers, FiniteSets

CONSTANTS
  Keys,              \* <type>-<id>
  MaxStamp,          \* bound: writes, connects and removals begun
  MaxFaults,         \* bound: failures and restarts
  None

VARIABLES
  backend,
  store,             \* what is kept of each item
  object,            \* state.creds: None while no socket has them, 0 when fresh
  wanted,            \* what the socket set last
  loose,             \* items of which the property says nothing: see below
  jobs,              \* calls in progress
  stamp, faults      \* for the bounds

vars == <<backend, store, object, wanted, loose, jobs, stamp, faults>>

-----------------------------------------------------------------------------
Backends == {"provider", "redis", "prisma_redis", "prisma_files"}
Prisma == backend \in {"prisma_redis", "prisma_files"}
Items == Keys \cup {"creds"}
Stamps == 1..MaxStamp

\* Part of a file.
Torn == 0

Ops == {"load", "exists", "write", "keys", "open", "fill", "unlink",
        "forget", "row", "clean", "clean_rows"}

\* todo is what a job has yet to write, and value with what; None removes.
Job(op, todo, value) ==
  [op |-> op, todo |-> todo, value |-> value, found |-> FALSE, first |-> FALSE, id |-> stamp + 1]

TypeOK ==
  /\ backend \in Backends
  /\ store \in [Items -> Stamps \cup {None, Torn}]
  /\ object \in Stamps \cup {0, None}
  /\ wanted \in [Items -> Stamps \cup {None}]
  /\ loose \subseteq Items
  /\ \A j \in jobs : /\ j.op \in Ops /\ j.todo \subseteq Items
                     /\ DOMAIN j.value \subseteq Items /\ j.id \in Stamps
  /\ stamp \in 0..MaxStamp /\ faults \in 0..MaxFaults

Nothing == [x \in Items |-> None]

Init ==
  /\ backend \in Backends
  /\ store = Nothing /\ wanted = Nothing
  /\ object = None
  /\ loose = {} /\ jobs = {}
  /\ stamp = 0 /\ faults = 0

-----------------------------------------------------------------------------
Busy(x) == \E j \in jobs : x \in j.todo
Tick == stamp < MaxStamp /\ stamp' = stamp + 1

\* A call that begins to write items alone puts right what was wrong of them.
Begins(new) ==
  LET items == UNION {j.todo : j \in new} IN
  /\ jobs' = jobs \cup new
  /\ loose' = (loose \ items) \cup {x \in items : Busy(x)}

Ends(j) == jobs' = jobs \ {j}
Becomes(j, k) == jobs' = (jobs \ {j}) \cup {k}

\* A query, call or file operation fails, and no more is heard of it.
Fails(j, lost) ==
  /\ faults < MaxFaults /\ faults' = faults + 1
  /\ loose' = loose \cup lost
  /\ UNCHANGED <<backend, store, wanted, stamp>>

\* readData: null when there is nothing, or only part of a file.
ReadData(x) == IF store[x] = Torn THEN None ELSE store[x]

-----------------------------------------------------------------------------
(* Connecting.                                                             *)

\* createClient, for the first time or again: defineAuthState.
Connect ==
  /\ \A j \in jobs : j.op # "load" /\ ~j.first
  /\ Tick
  /\ object' = None
  /\ jobs' = jobs \cup {Job("load", {"creds"}, Nothing)}
  /\ loose' = IF Busy("creds") THEN Items ELSE loose
  /\ UNCHANGED <<backend, store, wanted, faults>>

\* New credentials: in the row at once, elsewhere when they first change.
Fresh(j) ==
  IF Prisma
  THEN /\ wanted' = [Nothing EXCEPT !["creds"] = j.id]
       /\ Becomes(j, [j EXCEPT !.op = "exists", !.first = TRUE,
                               !.value = [Nothing EXCEPT !["creds"] = j.id]])
       /\ UNCHANGED object
  ELSE /\ wanted' = Nothing
       /\ Ends(j)
       /\ object' = 0

ReadCreds(j) ==
  /\ j.op = "load"
  /\ IF store["creds"] # None
     THEN object' = store["creds"] /\ Ends(j) /\ UNCHANGED <<wanted, loose>>
     ELSE /\ Fresh(j)
          /\ loose' = IF "creds" \in loose THEN Items ELSE loose
  /\ UNCHANGED <<backend, store, stamp, faults>>

\* A read that fails counts as nothing found; without its folder on the file
\* server connecting fails.
ReadCredsFails(j) ==
  /\ j.op = "load"
  /\ faults < MaxFaults /\ faults' = faults + 1
  /\ \/ Fresh(j) /\ loose' = Items
     \/ backend = "provider" /\ Ends(j) /\ UNCHANGED <<object, wanted, loose>>
  /\ UNCHANGED <<backend, store, stamp>>

-----------------------------------------------------------------------------
(* saveCreds, on creds.update.                                             *)

SaveCreds ==
  /\ object # None
  /\ Tick
  /\ object' = stamp'
  /\ wanted' = [wanted EXCEPT !["creds"] = stamp']
  /\ Begins({Job(IF Prisma THEN "exists" ELSE "write", {"creds"},
                 [Nothing EXCEPT !["creds"] = stamp'])})
  /\ UNCHANGED <<backend, store, faults>>

\* saveKey: keyExists, and then create or update.
KeyExists(j) ==
  /\ j.op = "exists"
  /\ Becomes(j, [j EXCEPT !.op = "write", !.found = store["creds"] # None])
  /\ UNCHANGED <<backend, store, object, wanted, loose, stamp, faults>>

\* create fails where there is a row, update where there is none; both say
\* nothing.
WriteCreds(j) ==
  /\ j.op = "write"
  /\ store' = IF Prisma /\ j.found # (store["creds"] # None) THEN store
              ELSE [store EXCEPT !["creds"] = j.value["creds"]]
  /\ object' = IF j.first THEN j.value["creds"] ELSE object
  /\ Ends(j)
  /\ UNCHANGED <<backend, wanted, loose, stamp, faults>>

\* keyExists says no, or the write is lost.
WriteCredsFails(j) ==
  /\ \/ j.op = "exists" /\ Becomes(j, [j EXCEPT !.op = "write"]) /\ UNCHANGED object
     \/ j.op = "write" /\ Ends(j) /\ object' = IF j.first THEN j.value["creds"] ELSE object
  /\ Fails(j, {"creds"})

-----------------------------------------------------------------------------
(* keys.set.                                                               *)

\* A paired socket sets some keys and removes others.
SetKeys ==
  /\ object \notin {None, 0}
  /\ Tick
  /\ \E items \in SUBSET Keys \ {{}} : \E gone \in SUBSET items :
       LET value == [x \in Items |-> IF x \in items \ gone THEN stamp' ELSE None] IN
       /\ wanted' = [x \in Items |-> IF x \in items THEN value[x] ELSE wanted[x]]
       /\ Begins(IF backend # "prisma_files" THEN {Job("keys", items, value)}
                 ELSE {Job(IF x \in gone THEN "unlink" ELSE "open", {x}, value) : x \in items})
  /\ UNCHANGED <<backend, store, object, faults>>

Written(j, x) ==
  IF j.todo = {x} THEN Ends(j) ELSE Becomes(j, [j EXCEPT !.todo = @ \ {x}])

\* hSet or hDelete, a post or a delete: keys are reached one by one.
WriteKey(j) ==
  /\ j.op = "keys"
  /\ \E x \in j.todo : store' = [store EXCEPT ![x] = j.value[x]] /\ Written(j, x)
  /\ UNCHANGED <<backend, object, wanted, loose, stamp, faults>>

WriteKeyFails(j) ==
  /\ j.op = "keys"
  /\ \E x \in j.todo : Written(j, x) /\ Fails(j, {x})
  /\ UNCHANGED object

\* fs.writeFile empties the file first.
OpenFile(j) ==
  /\ j.op = "open"
  /\ store' = [x \in Items |-> IF x \in j.todo THEN Torn ELSE store[x]]
  /\ Becomes(j, [j EXCEPT !.op = "fill"])
  /\ UNCHANGED <<backend, object, wanted, loose, stamp, faults>>

FillFile(j) ==
  /\ j.op \in {"fill", "unlink"}
  /\ store' = [x \in Items |-> IF x \in j.todo THEN j.value[x] ELSE store[x]]
  /\ Ends(j)
  /\ UNCHANGED <<backend, object, wanted, loose, stamp, faults>>

FileFails(j) ==
  /\ j.op \in {"open", "fill", "unlink"}
  /\ Ends(j) /\ Fails(j, j.todo)
  /\ UNCHANGED object

-----------------------------------------------------------------------------
(* Forgetting.                                                             *)

Without(items) == [x \in Items |-> IF x \in items THEN None ELSE store[x]]

\* The socket is gone, and what it set is to go.
Leaves(ops, kept) ==
  /\ object # None
  /\ Tick
  /\ object' = None
  /\ wanted' = Nothing
  /\ jobs' = jobs \cup {Job(op, Items, Nothing) : op \in ops}
  /\ loose' = kept \cup {x \in Items : Busy(x)}
  /\ UNCHANGED <<backend, store, faults>>

\* logoutInstance goes on to removeCreds; that the socket has closed brings
\* cleaningUp.
Logout == Leaves({"forget", "clean"}, {})

\* Unlinked on the phone: cleaningUp alone, which removes the session of the
\* file server under another name and leaves Redis to SAVE_INSTANCES.
Unlink ==
  Leaves({"clean"}, CASE backend = "provider" -> Items
                      [] backend = "prisma_redis" -> Keys
                      [] OTHER -> {})

\* removeCreds of what is in use, then that of the row, which deletes the hash
\* once more, and the row.
RemoveCreds(j) ==
  /\ j.op = "forget"
  /\ store' = Without(CASE backend \in {"provider", "redis"} -> Items
                        [] backend = "prisma_redis" -> Keys
                        [] OTHER -> {"creds"})
  /\ Becomes(j, [j EXCEPT !.op = "row"])
  /\ UNCHANGED <<backend, object, wanted, loose, stamp, faults>>

DeleteSession(j) ==
  /\ j.op = "row"
  /\ store' = CASE Prisma -> Without({"creds"})
                [] backend = "redis" -> Without(Items)
                [] OTHER -> store
  /\ Ends(j)
  /\ UNCHANGED <<backend, object, wanted, loose, stamp, faults>>

\* Mutant: the folder is kept.
KeepFolder(j) ==
  /\ j.op = "clean"
  /\ Becomes(j, [j EXCEPT !.op = "clean_rows"])
  /\ UNCHANGED <<backend, store, object, wanted, loose, stamp, faults>>

\* cleaningUp: the folder, the row, and the hash if it has the credentials.
CleanFolder(j) ==
  /\ j.op = "clean"
  /\ store' = IF backend = "prisma_files" THEN Without(Keys) ELSE store
  /\ Becomes(j, [j EXCEPT !.op = "clean_rows"])
  /\ UNCHANGED <<backend, object, wanted, loose, stamp, faults>>

CleanRows(j) ==
  /\ j.op = "clean_rows"
  /\ store' = CASE Prisma -> Without({"creds"})
                [] backend = "redis" -> Without(Items)
                [] OTHER -> store
  /\ Ends(j)
  /\ UNCHANGED <<backend, object, wanted, loose, stamp, faults>>

RemovalFails(j) ==
  /\ j.op \in {"forget", "row", "clean", "clean_rows"}
  /\ Ends(j) /\ Fails(j, Items)
  /\ UNCHANGED object

-----------------------------------------------------------------------------
\* Calls in progress are cut short; so is what they were writing.
Restart ==
  /\ faults < MaxFaults /\ faults' = faults + 1
  /\ object' = None /\ jobs' = {}
  /\ loose' = loose \cup {x \in Items : Busy(x)}
  /\ UNCHANGED <<backend, store, wanted, stamp>>

Next ==
  \/ Connect \/ SaveCreds \/ SetKeys \/ Logout \/ Unlink \/ Restart
  \/ \E j \in jobs :
       \/ ReadCreds(j) \/ ReadCredsFails(j)
       \/ KeyExists(j) \/ WriteCreds(j) \/ WriteCredsFails(j)
       \/ WriteKey(j) \/ WriteKeyFails(j) \/ OpenFile(j) \/ FillFile(j) \/ FileFails(j)
       \/ RemoveCreds(j) \/ DeleteSession(j) \/ CleanFolder(j) \/ CleanRows(j) \/ RemovalFails(j)

Spec == Init /\ [][Next]_vars

-----------------------------------------------------------------------------
(* What is read of an item is what the socket set it to last, none if the   *)
(* account was left since, and a socket has the credentials that are kept;  *)
(* new credentials find no keys.  Items of which this is not said until     *)
(* they are written again: those whose writes met, failed or were cut       *)
(* short; all, after a removal or read that failed, or a connect that met a *)
(* save or a removal; and what cleaningUp does not reach.                   *)
KeptAsSet ==
  /\ \A x \in Items \ loose : ~Busy(x) => ReadData(x) = wanted[x]
  /\ object # None /\ "creds" \notin loose /\ ~Busy("creds") =>
       object = IF wanted["creds"] = None THEN 0 ELSE wanted["creds"]
===============================================================================
