--------------------------- MODULE LifecycleProofs ---------------------------
(***************************************************************************)
(* Proofs about the credentials and keys of an instance, AuthState as      *)
(* MCLifecycle puts it beside the life of an instance name, for any keys   *)
(* and bounds; and about the life of an instance name itself, for any      *)
(* requests, sockets and identifiers.                                      *)
(***************************************************************************)
EXTENDS MCLifecycle, FiniteSetTheorems, TLAPS

(* The bounds are numbers, None is none, and no key is named like the       *)
(* credentials.                                                             *)
Stamped == /\ MaxStamp \in Nat /\ MaxFaults \in Nat
           /\ None \notin Int
           /\ "creds" \notin Keys

Removals == {"forget", "row", "clean", "clean_rows"}
Writers == {"exists", "write", "keys", "open", "fill", "unlink"}

JobRecords == [op : K!Ops, todo : SUBSET K!Items, value : [K!Items -> K!Stamps \cup {None}],
               found : BOOLEAN, first : BOOLEAN, id : K!Stamps]

(* What a job is about: the credentials, keys or everything.                *)
JobOK(j) ==
  /\ j \in JobRecords
  /\ j.op \in {"load", "exists", "write"} => j.todo = {"creds"}
  /\ j.op \in {"keys", "open", "fill", "unlink"} => j.todo \subseteq Keys
  /\ j.op \in Removals => j.todo = K!Items
  /\ j.first => j.op \in {"exists", "write"}

Kept ==
  /\ backend \in K!Backends
  /\ store \in [K!Items -> K!Stamps \cup {None, K!Torn}]
  /\ store["creds"] # K!Torn
  /\ object \in K!Stamps \cup {0, None}
  /\ wanted \in [K!Items -> K!Stamps \cup {None}]
  /\ loose \subseteq K!Items
  /\ \A j \in jobs : JobOK(j)
  /\ stamp \in 0..MaxStamp /\ faults \in 0..MaxFaults

Firm == K!Items \ loose

(* An item that properties speak of is in the hands of one job, or of       *)
(* removals; at rest it is as it was set.                                   *)
Alone ==
  \A x \in Firm : \A j, k \in jobs :
    x \in j.todo /\ x \in k.todo => j = k \/ (j.op \in Removals /\ k.op \in Removals)

Settled ==
  \A x \in Firm : (\A j \in jobs : x \in j.todo => j.op = "load") => K!ReadData(x) = wanted[x]

(* A job writes what was set last, and knows whether there is a row.        *)
WritesWanted ==
  \A x \in Firm : \A j \in jobs : x \in j.todo /\ j.op \in Writers => j.value[x] = wanted[x]

KnowsRow ==
  \A j \in jobs : "creds" \in Firm /\ j.op = "write" /\ K!Prisma =>
    /\ j.found => store["creds"] # None
    /\ ~j.found => store["creds"] = None

(* What removals do not take away, one that is still to come does.          *)
Takes(op, x) ==
  \/ op = "forget" /\ (backend # "prisma_files" \/ x = "creds")
  \/ op = "clean" /\ backend = "prisma_files"
  \/ op \in {"row", "clean", "clean_rows"} /\ (backend = "redis" \/ (K!Prisma /\ x = "creds"))

Removing ==
  \A x \in Firm : \A j \in jobs : x \in j.todo /\ j.op \in Removals =>
    /\ wanted[x] = None
    /\ store[x] = None \/ \E k \in jobs : Takes(k.op, x)

(* One call connects at a time, and no socket has credentials meanwhile.    *)
Connecting(j) == j.op = "load" \/ j.first

OneConnects ==
  /\ \A j, k \in jobs : Connecting(j) /\ Connecting(k) => j = k
  /\ object # None => \A j \in jobs : ~Connecting(j)

HasWanted ==
  "creds" \in Firm =>
    /\ object # None => object = IF wanted["creds"] = None THEN 0 ELSE wanted["creds"]
    /\ wanted["creds"] = None => \A x \in K!Items : wanted[x] = None

AuthInv == /\ Kept /\ Alone /\ Settled /\ WritesWanted /\ KnowsRow /\ Removing
           /\ OneConnects /\ HasWanted

-----------------------------------------------------------------------------

(* The invariant is of what the module keeps.                               *)
LEMMA AuthKept == ASSUME AuthInv PROVE K!KeptAsSet
<1>1. ASSUME NEW x \in K!Items \ loose, ~K!Busy(x) PROVE K!ReadData(x) = wanted[x]
  BY <1>1 DEF AuthInv, Settled, Firm, K!Busy
<1>2. object # None /\ "creds" \notin loose => object = IF wanted["creds"] = None THEN 0 ELSE wanted["creds"]
  BY DEF AuthInv, HasWanted, Firm, K!Items
<1>. QED BY <1>1, <1>2 DEF K!KeptAsSet

LEMMA AuthInit == ASSUME Stamped, K!Init PROVE AuthInv
<1>1. Kept
  BY DEF Stamped, K!Init, Kept, K!Nothing, K!Items, K!Torn
<1>. QED BY <1>1 DEF Stamped, K!Init, AuthInv, Alone, Settled, WritesWanted, KnowsRow,
                Removing, OneConnects,
       HasWanted, K!Nothing, K!ReadData, Firm, K!Items

(* A job goes on as k or ends, and what was set is as it was.               *)
LEMMA JobMoves ==
  ASSUME Stamped, AuthInv, NEW j \in jobs, NEW R,
         \A k \in R : /\ R = {k} /\ JobOK(k) /\ k.todo \subseteq j.todo /\ k.value = j.value
                      /\ k.op \in Removals <=> j.op \in Removals
                      /\ j.op # "load" /\ k.op # "load" /\ (k.first => j.first),
         jobs' = (jobs \ {j}) \cup R,
         UNCHANGED <<backend, wanted, stamp>>,
         faults' \in 0..MaxFaults,
         loose \subseteq loose', loose' \subseteq K!Items,
         store' \in [K!Items -> K!Stamps \cup {None, K!Torn}], store'["creds"] # K!Torn,
         object' = object \/ (j.first /\ R = {} /\ object' = j.value["creds"]),
         \A x \in K!Items \ j.todo : store'[x] = store[x],
         \A x \in j.todo \ loose' : j.op \notin Removals /\ (\A k \in R : x \notin k.todo) =>
           (K!ReadData(x))' = wanted[x],
         \A x \in K!Items \ loose' : j.op \in Removals /\ store'[x] # None =>
           store'[x] = store[x] /\ (Takes(j.op, x) => \E k \in R : Takes(k.op, x)),
         \A k \in R : k.op = "write" /\ K!Prisma /\ "creds" \notin loose' =>
           (k.found => store'["creds"] # None) /\ (~k.found => store'["creds"] = None)
  PROVE  AuthInv'
<1>. USE DEF AuthInv
<1>1. /\ Firm' \subseteq Firm /\ Firm' = K!Items \ loose'
      /\ backend' = backend /\ wanted' = wanted
      /\ \A k \in jobs : JobOK(k)
  BY DEF Firm, Kept
<1>2. \A op, x : Takes(op, x)' <=> Takes(op, x)
  BY DEF Takes, K!Prisma
<1>3. \A k \in jobs, x \in K!Items : Takes(k.op, x) => k.op \in Removals /\ x \in k.todo
  BY <1>1 DEF Takes, Removals, JobOK
<1>4. Kept'
  <2>1. object' \in K!Stamps \cup {0, None}
    BY <1>1 DEF Kept, JobOK, JobRecords, K!Items
  <2>2. \A k \in jobs' : JobOK(k)
    BY <1>1
  <2>. QED BY <2>1, <2>2 DEF Kept, JobOK, JobRecords, K!Stamps
<1>5. Alone'
  <2>1. ASSUME NEW x \in Firm', NEW p \in jobs', NEW q \in jobs', x \in p.todo, x \in q.todo
        PROVE  p = q \/ (p.op \in Removals /\ q.op \in Removals)
    <3>1. CASE p \in jobs /\ q \in jobs
      BY <1>1, <2>1, <3>1 DEF Alone
    <3>2. CASE p \in R /\ q \in jobs \ {j}
      BY <1>1, <2>1, <3>2 DEF Alone
    <3>3. CASE q \in R /\ p \in jobs \ {j}
      BY <1>1, <2>1, <3>3 DEF Alone
    <3>4. CASE p \in R /\ q \in R
      BY <3>4
    <3>. QED BY <3>1, <3>2, <3>3, <3>4
  <2>. QED BY <2>1 DEF Alone
<1>6. Settled'
  <2>1. ASSUME NEW x \in Firm', \A k \in jobs' : x \in k.todo => k.op = "load"
        PROVE  (K!ReadData(x))' = wanted[x]
    <3>1. CASE x \notin j.todo
      <4>1. \A k \in jobs : x \in k.todo => k.op = "load"
        BY <2>1, <3>1
      <4>2. store'[x] = store[x]
        BY <1>1, <3>1
      <4>. QED BY <1>1, <2>1, <4>1, <4>2 DEF Settled, K!ReadData
    <3>2. CASE x \in j.todo /\ j.op \notin Removals
      BY <1>1, <2>1, <3>2
    <3>3. CASE x \in j.todo /\ j.op \in Removals
      <4>1. R = {}
        BY <1>1, <2>1, <3>3 DEF JobOK, Removals
      <4>2. \A k \in jobs : x \in k.todo => k = j
        BY <1>1, <2>1, <3>3, <4>1 DEF Alone, Removals
      <4>3. wanted[x] = None /\ (store[x] = None \/ Takes(j.op, x))
        BY <1>1, <1>3, <2>1, <3>3, <4>2 DEF Removing
      <4>4. store'[x] = None
        BY <1>1, <2>1, <3>3, <4>1, <4>3
      <4>. QED BY <4>3, <4>4 DEF K!ReadData
    <3>. QED BY <3>1, <3>2, <3>3
  <2>. QED BY <1>1, <2>1 DEF Settled
<1>7. WritesWanted'
  <2>1. ASSUME NEW x \in Firm', NEW p \in jobs', x \in p.todo, p.op \in Writers
        PROVE  p.value[x] = wanted[x]
    <3>1. CASE p \in jobs
      BY <1>1, <2>1, <3>1 DEF WritesWanted
    <3>2. CASE p \in R
      <4>1. j.op \in Writers /\ x \in j.todo /\ p.value = j.value
        BY <1>1, <2>1, <3>2 DEF JobOK, JobRecords, K!Ops, Removals, Writers
      <4>. QED BY <1>1, <2>1, <4>1 DEF WritesWanted
    <3>. QED BY <3>1, <3>2
  <2>. QED BY <1>1, <2>1 DEF WritesWanted
<1>8. KnowsRow'
  <2>1. ASSUME NEW p \in jobs \ {j}, "creds" \in Firm', p.op = "write", K!Prisma
        PROVE  (p.found => store'["creds"] # None) /\ (~p.found => store'["creds"] = None)
    <3>1. p.todo = {"creds"}
      BY <1>1, <2>1 DEF JobOK
    <3>2. "creds" \notin j.todo
      BY <1>1, <2>1, <3>1 DEF Alone, Removals
    <3>. QED BY <1>1, <2>1, <3>2 DEF KnowsRow, K!Items
  <2>2. K!Prisma' <=> K!Prisma
    BY DEF K!Prisma
  <2>. QED BY <1>1, <2>1, <2>2 DEF KnowsRow
<1>9. Removing'
  <2>1. ASSUME NEW x \in Firm', NEW q \in jobs', x \in q.todo, q.op \in Removals
        PROVE  wanted[x] = None /\ (store'[x] = None \/ \E k \in jobs' : Takes(k.op, x))
    <3>1. PICK p \in jobs : x \in p.todo /\ p.op \in Removals /\ (p = j \/ p \in jobs')
      BY <2>1
    <3>2. wanted[x] = None /\ (store[x] = None \/ \E k \in jobs : Takes(k.op, x))
      BY <1>1, <3>1 DEF Removing
    <3>3. CASE x \notin j.todo
      <4>1. store'[x] = store[x]
        BY <1>1, <3>3
      <4>2. ASSUME NEW k \in jobs, Takes(k.op, x) PROVE k \in jobs'
        BY <1>1, <1>3, <3>3, <4>2
      <4>. QED BY <3>2, <4>1, <4>2
    <3>4. CASE x \in j.todo
      <4>1. j.op \in Removals
        BY <1>1, <3>1, <3>4 DEF Alone
      <4>. QED BY <1>1, <3>2, <4>1
    <3>. QED BY <3>3, <3>4
  <2>. QED BY <1>1, <1>2, <2>1 DEF Removing
<1>10. OneConnects'
  <2>1. \A k \in R : Connecting(k) => Connecting(j)
    BY DEF Connecting
  <2>2. \A p, q \in jobs' : Connecting(p) /\ Connecting(q) => p = q
    BY <2>1 DEF OneConnects
  <2>3. ASSUME object' # None PROVE \A p \in jobs' : ~Connecting(p)
    BY <2>1, <2>3 DEF OneConnects, Connecting
  <2>. QED BY <2>2, <2>3 DEF OneConnects, Connecting
<1>11. HasWanted'
  <2>1. CASE object' = object
    BY <1>1, <2>1 DEF HasWanted
  <2>2. CASE j.first /\ object' = j.value["creds"]
    <3>1. "creds" \in Firm' => object' = wanted["creds"]
      BY <1>1, <2>2 DEF JobOK, WritesWanted, Writers
    <3>. QED BY <1>1, <3>1 DEF HasWanted
  <2>. QED BY <2>1, <2>2
<1>. QED BY <1>4, <1>5, <1>6, <1>7, <1>8, <1>9, <1>10, <1>11
(* A job ends.                                                              *)
LEMMA JobEnds ==
  ASSUME Stamped, AuthInv, NEW j \in jobs,
         jobs' = jobs \ {j},
         UNCHANGED <<backend, wanted, stamp>>,
         faults' \in 0..MaxFaults,
         loose \subseteq loose', loose' \subseteq K!Items,
         store' \in [K!Items -> K!Stamps \cup {None, K!Torn}], store'["creds"] # K!Torn,
         \A x \in K!Items \ j.todo : store'[x] = store[x],
         object' = IF j.first THEN j.value["creds"] ELSE object,
         \A x \in j.todo \ loose' : j.op \notin Removals => (K!ReadData(x))' = wanted[x],
         \A x \in K!Items \ loose' : j.op \in Removals /\ store'[x] # None =>
           store'[x] = store[x] /\ ~Takes(j.op, x)
  PROVE  AuthInv'
<1>. DEFINE R == {}
<1>1. /\ \A k \in R : /\ R = {k} /\ JobOK(k) /\ k.todo \subseteq j.todo /\ k.value = j.value
                      /\ k.op \in Removals <=> j.op \in Removals
                      /\ j.op # "load" /\ k.op # "load" /\ (k.first => j.first)
      /\ \A k \in R : k.op = "write" /\ K!Prisma /\ "creds" \notin loose' =>
           (k.found => store'["creds"] # None) /\ (~k.found => store'["creds"] = None)
  OBVIOUS
<1>2. jobs' = (jobs \ {j}) \cup R
  OBVIOUS
<1>3. object' = object \/ (j.first /\ R = {} /\ object' = j.value["creds"])
  OBVIOUS
<1>4. \A x \in j.todo \ loose' : j.op \notin Removals /\ (\A k \in R : x \notin k.todo) =>
        (K!ReadData(x))' = wanted[x]
  OBVIOUS
<1>5. \A x \in K!Items \ loose' : j.op \in Removals /\ store'[x] # None =>
        store'[x] = store[x] /\ (Takes(j.op, x) => \E k \in R : Takes(k.op, x))
  OBVIOUS
<1>. HIDE DEF R
<1>. QED BY <1>1, <1>2, <1>3, <1>4, <1>5, JobMoves

(* A job goes on as k.                                                      *)
LEMMA JobContinues ==
  ASSUME Stamped, AuthInv, NEW j \in jobs, NEW k,
         JobOK(k), k.todo \subseteq j.todo, k.value = j.value, k.first = j.first,
         k.op \in Removals <=> j.op \in Removals, j.op # "load", k.op # "load",
         jobs' = (jobs \ {j}) \cup {k},
         UNCHANGED <<backend, wanted, stamp>>,
         faults' \in 0..MaxFaults,
         loose \subseteq loose', loose' \subseteq K!Items,
         store' \in [K!Items -> K!Stamps \cup {None, K!Torn}], store'["creds"] # K!Torn,
         \A x \in K!Items \ j.todo : store'[x] = store[x],
         object' = object,
         \A x \in j.todo \ loose' : j.op \notin Removals /\ x \notin k.todo =>
           (K!ReadData(x))' = wanted[x],
         \A x \in K!Items \ loose' : j.op \in Removals /\ store'[x] # None =>
           store'[x] = store[x] /\ (Takes(j.op, x) => Takes(k.op, x)),
         k.op = "write" /\ K!Prisma /\ "creds" \notin loose' =>
           (k.found => store'["creds"] # None) /\ (~k.found => store'["creds"] = None)
  PROVE  AuthInv'
<1>. DEFINE R == {k}
<1>1. /\ \A i \in R : /\ R = {i} /\ JobOK(i) /\ i.todo \subseteq j.todo /\ i.value = j.value
                      /\ i.op \in Removals <=> j.op \in Removals
                      /\ j.op # "load" /\ i.op # "load" /\ (i.first => j.first)
      /\ \A i \in R : i.op = "write" /\ K!Prisma /\ "creds" \notin loose' =>
           (i.found => store'["creds"] # None) /\ (~i.found => store'["creds"] = None)
  OBVIOUS
<1>2. jobs' = (jobs \ {j}) \cup R
  OBVIOUS
<1>3. object' = object \/ (j.first /\ R = {} /\ object' = j.value["creds"])
  OBVIOUS
<1>4. \A x \in j.todo \ loose' : j.op \notin Removals /\ (\A i \in R : x \notin i.todo) =>
        (K!ReadData(x))' = wanted[x]
  OBVIOUS
<1>5. \A x \in K!Items \ loose' : j.op \in Removals /\ store'[x] # None =>
        store'[x] = store[x] /\ (Takes(j.op, x) => \E i \in R : Takes(i.op, x))
  OBVIOUS
<1>. HIDE DEF R
<1>. QED BY <1>1, <1>2, <1>3, <1>4, <1>5, JobMoves

(* Jobs that write what is kept, or fail to.                                *)
LEMMA WritersMove ==
  ASSUME Stamped, AuthInv, NEW j \in jobs,
         \/ K!KeyExists(j) \/ K!WriteCreds(j) \/ K!WriteCredsFails(j)
         \/ K!WriteKey(j) \/ K!WriteKeyFails(j) \/ K!OpenFile(j) \/ K!FillFile(j) \/ K!FileFails(j)
  PROVE  AuthInv'
<1>1. /\ JobOK(j) /\ j \in JobRecords
      /\ store \in [K!Items -> K!Stamps \cup {None, K!Torn}] /\ store["creds"] # K!Torn
      /\ faults \in 0..MaxFaults /\ loose \subseteq K!Items
      /\ object \in K!Stamps \cup {0, None} /\ "creds" \in K!Items
  BY DEF AuthInv, Kept, JobOK, K!Items
<1>2. \A x \in K!Items : j.value[x] \in K!Stamps \cup {None} /\ j.value[x] # K!Torn /\ wanted[x] # K!Torn
  BY <1>1 DEF JobRecords, AuthInv, Kept, K!Stamps, K!Torn, Stamped
<1>3. \A x \in Firm : x \in j.todo /\ j.op \in Writers => j.value[x] = wanted[x]
  BY DEF AuthInv, WritesWanted
<1>4. ASSUME NEW lost, K!Fails(j, lost), lost \subseteq K!Items
      PROVE  /\ faults' \in 0..MaxFaults /\ loose' \subseteq K!Items
             /\ loose' = loose \cup lost /\ UNCHANGED <<backend, store, wanted, stamp>>
  BY <1>1, <1>4 DEF K!Fails, Stamped
<1>5. CASE K!KeyExists(j)
  <2>. DEFINE k == [j EXCEPT !.op = "write", !.found = store["creds"] # None]
  <2>1. /\ j.op = "exists" /\ jobs' = (jobs \ {j}) \cup {k}
        /\ UNCHANGED <<backend, store, object, wanted, loose, stamp, faults>>
    BY <1>5 DEF K!KeyExists, K!Becomes
  <2>2. /\ k.op = "write" /\ k.todo = j.todo /\ k.value = j.value /\ k.first = j.first /\ k.id = j.id
        /\ k \in JobRecords
        /\ k.found => store["creds"] # None
        /\ ~k.found => store["creds"] = None
    BY <1>1 DEF JobRecords, K!Ops
  <2>. HIDE DEF k
  <2>3. JobOK(k)
    BY <1>1, <2>1, <2>2 DEF JobOK, Removals
  <2>. QED BY <1>1, <2>1, <2>2, <2>3, JobContinues DEF Removals
<1>6. CASE K!WriteCreds(j)
  <2>1. /\ j.op = "write" /\ jobs' = jobs \ {j} /\ j.todo = {"creds"}
        /\ store' = IF K!Prisma /\ j.found # (store["creds"] # None) THEN store
                    ELSE [store EXCEPT !["creds"] = j.value["creds"]]
        /\ object' = IF j.first THEN j.value["creds"] ELSE object
        /\ UNCHANGED <<backend, wanted, loose, stamp, faults>>
    BY <1>1, <1>6 DEF K!WriteCreds, K!Ends, JobOK
  <2>2. "creds" \in Firm => store' = [store EXCEPT !["creds"] = j.value["creds"]]
    <3>1. ASSUME "creds" \in Firm, K!Prisma PROVE j.found = (store["creds"] # None)
      BY <1>1, <2>1, <3>1 DEF AuthInv, KnowsRow, JobRecords
    <3>. QED BY <2>1, <3>1
  <2>3. /\ store' \in [K!Items -> K!Stamps \cup {None, K!Torn}] /\ store'["creds"] # K!Torn
        /\ \A x \in K!Items \ j.todo : store'[x] = store[x]
    BY <1>1, <1>2, <2>1
  <2>4. ASSUME NEW x \in j.todo \ loose' PROVE (K!ReadData(x))' = wanted[x]
    <3>1. x = "creds" /\ x \in Firm
      BY <1>1, <2>1, <2>4 DEF Firm
    <3>2. store'[x] = wanted[x]
      BY <1>1, <1>3, <2>1, <2>2, <3>1 DEF Writers
    <3>. QED BY <1>1, <1>2, <3>1, <3>2 DEF K!ReadData
  <2>. QED BY <1>1, <2>1, <2>3, <2>4, JobEnds DEF Removals
<1>7. CASE K!WriteCredsFails(j)
  <2>1. /\ faults' \in 0..MaxFaults /\ loose' \subseteq K!Items
        /\ loose' = loose \cup {"creds"} /\ UNCHANGED <<backend, store, wanted, stamp>>
    BY <1>1, <1>4, <1>7 DEF K!WriteCredsFails
  <2>2. CASE j.op = "exists" /\ K!Becomes(j, [j EXCEPT !.op = "write"]) /\ UNCHANGED object
    <3>. DEFINE k == [j EXCEPT !.op = "write"]
    <3>1. /\ k.op = "write" /\ k.todo = j.todo /\ k.value = j.value /\ k.first = j.first
          /\ k \in JobRecords
      BY <1>1 DEF JobRecords, K!Ops
    <3>2. jobs' = (jobs \ {j}) \cup {k}
      BY <2>2 DEF K!Becomes
    <3>. HIDE DEF k
    <3>3. JobOK(k)
      BY <1>1, <2>2, <3>1 DEF JobOK, Removals
    <3>. QED BY <1>1, <2>1, <2>2, <3>1, <3>2, <3>3, JobContinues DEF Removals
  <2>3. CASE j.op = "write" /\ K!Ends(j) /\ object' = IF j.first THEN j.value["creds"] ELSE object
    <3>1. jobs' = jobs \ {j} /\ j.todo = {"creds"}
      BY <1>1, <2>3 DEF K!Ends, JobOK
    <3>. QED BY <1>1, <2>1, <2>3, <3>1, JobEnds DEF Removals
  <2>. QED BY <1>7, <2>2, <2>3 DEF K!WriteCredsFails
<1>8. ASSUME NEW x \in j.todo, K!Written(j, x), j.op = "keys"
      PROVE  \/ jobs' = jobs \ {j} /\ j.todo = {x}
             \/ \E k : /\ jobs' = (jobs \ {j}) \cup {k}
                     /\ JobOK(k) /\ k.todo = j.todo \ {x} /\ k.value = j.value
                     /\ k.op = "keys" /\ k.first = j.first
  <2>1. CASE j.todo = {x}
    BY <1>8, <2>1 DEF K!Written, K!Ends
  <2>2. CASE j.todo # {x}
    <3>. DEFINE k == [j EXCEPT !.todo = @ \ {x}]
    <3>1. /\ k.op = "keys" /\ k.todo = j.todo \ {x} /\ k.value = j.value /\ k.first = j.first
          /\ k \in JobRecords
      BY <1>1, <1>8 DEF JobRecords
    <3>2. jobs' = (jobs \ {j}) \cup {k}
      BY <1>8, <2>2 DEF K!Written, K!Becomes
    <3>. HIDE DEF k
    <3>3. JobOK(k)
      BY <1>1, <1>8, <3>1 DEF JobOK, Removals
    <3>. QED BY <3>1, <3>2, <3>3
  <2>. QED BY <2>1, <2>2
<1>a. j.op = "keys" => ~j.first /\ j.op \notin Removals
  BY <1>1 DEF JobOK, Removals
<1>9. CASE K!WriteKey(j)
  <2>1. PICK x \in j.todo : store' = [store EXCEPT ![x] = j.value[x]] /\ K!Written(j, x)
    BY <1>9 DEF K!WriteKey
  <2>2. j.op = "keys" /\ UNCHANGED <<backend, object, wanted, loose, stamp, faults>>
    BY <1>9 DEF K!WriteKey
  <2>4. x \in Keys /\ x \in K!Items /\ x # "creds" /\ j.todo \subseteq K!Items
    BY <1>1, <2>1, <2>2 DEF JobOK, K!Items, Stamped
  <2>5. /\ store' \in [K!Items -> K!Stamps \cup {None, K!Torn}] /\ store'["creds"] # K!Torn
        /\ \A y \in K!Items \ j.todo : store'[y] = store[y]
    BY <1>1, <1>2, <2>1, <2>4
  <2>6. ASSUME NEW y \in j.todo \ loose', y = x PROVE (K!ReadData(y))' = wanted[y]
    <3>1. y = x
      BY <2>6
    <3>2. store'[y] = wanted[y]
      BY <1>1, <1>3, <2>1, <2>2, <2>4, <2>6, <3>1 DEF Writers, Firm
    <3>. QED BY <1>2, <2>4, <3>1, <3>2 DEF K!ReadData
  <2>7. CASE jobs' = jobs \ {j} /\ j.todo = {x}
    BY <1>1, <1>a, <2>2, <2>4, <2>5, <2>6, <2>7, JobEnds
  <2>8. CASE \E k : /\ jobs' = (jobs \ {j}) \cup {k}
                    /\ JobOK(k) /\ k.todo = j.todo \ {x} /\ k.value = j.value
                    /\ k.op = "keys" /\ k.first = j.first
    <3>1. PICK k : /\ jobs' = (jobs \ {j}) \cup {k}
                   /\ JobOK(k) /\ k.todo = j.todo \ {x} /\ k.value = j.value
                   /\ k.op = "keys" /\ k.first = j.first
      BY <2>8
    <3>. QED BY <1>1, <1>a, <2>2, <2>4, <2>5, <2>6, <3>1, JobContinues
  <2>. QED BY <1>8, <2>1, <2>2, <2>7, <2>8
<1>10. CASE K!WriteKeyFails(j)
  <2>1. PICK x \in j.todo : K!Written(j, x) /\ K!Fails(j, {x})
    BY <1>10 DEF K!WriteKeyFails
  <2>2. j.op = "keys" /\ object' = object /\ x \in K!Items /\ j.todo \subseteq K!Items
    BY <1>1, <1>10 DEF K!WriteKeyFails, JobOK, K!Items
  <2>4. /\ faults' \in 0..MaxFaults /\ loose' \subseteq K!Items
        /\ loose' = loose \cup {x} /\ UNCHANGED <<backend, store, wanted, stamp>>
    BY <1>4, <2>1, <2>2
  <2>7. CASE jobs' = jobs \ {j} /\ j.todo = {x}
    BY <1>1, <1>a, <2>2, <2>4, <2>7, JobEnds
  <2>8. CASE \E k : /\ jobs' = (jobs \ {j}) \cup {k}
                    /\ JobOK(k) /\ k.todo = j.todo \ {x} /\ k.value = j.value
                    /\ k.op = "keys" /\ k.first = j.first
    <3>1. PICK k : /\ jobs' = (jobs \ {j}) \cup {k}
                   /\ JobOK(k) /\ k.todo = j.todo \ {x} /\ k.value = j.value
                   /\ k.op = "keys" /\ k.first = j.first
      BY <2>8
    <3>. QED BY <1>1, <1>a, <2>2, <2>4, <3>1, JobContinues
  <2>. QED BY <1>8, <2>1, <2>2, <2>7, <2>8
<1>11. CASE K!OpenFile(j)
  <2>. DEFINE k == [j EXCEPT !.op = "fill"]
  <2>1. /\ j.op = "open" /\ jobs' = (jobs \ {j}) \cup {k}
        /\ UNCHANGED <<backend, object, wanted, loose, stamp, faults>>
        /\ store' = [x \in K!Items |-> IF x \in j.todo THEN K!Torn ELSE store[x]]
    BY <1>11 DEF K!OpenFile, K!Becomes
  <2>2. /\ k.op = "fill" /\ k.todo = j.todo /\ k.value = j.value /\ k.first = j.first
        /\ k \in JobRecords
    BY <1>1 DEF JobRecords, K!Ops
  <2>. HIDE DEF k
  <2>3. JobOK(k)
    BY <1>1, <2>1, <2>2 DEF JobOK, Removals
  <2>4. "creds" \notin j.todo
    BY <1>1, <2>1 DEF JobOK, Stamped
  <2>5. /\ store' \in [K!Items -> K!Stamps \cup {None, K!Torn}] /\ store'["creds"] # K!Torn
        /\ \A y \in K!Items \ j.todo : store'[y] = store[y]
    BY <1>1, <2>1, <2>4
  <2>. QED BY <1>1, <2>1, <2>2, <2>3, <2>5, JobContinues DEF Removals
<1>12. CASE K!FillFile(j)
  <2>1. /\ j.op \in {"fill", "unlink"} /\ jobs' = (jobs \ {j}) \cup {}
        /\ UNCHANGED <<backend, object, wanted, loose, stamp, faults>>
        /\ store' = [x \in K!Items |-> IF x \in j.todo THEN j.value[x] ELSE store[x]]
    BY <1>12 DEF K!FillFile, K!Ends
  <2>2. "creds" \notin j.todo /\ j.todo \subseteq K!Items
    BY <1>1, <2>1 DEF JobOK, Stamped, K!Items
  <2>3. /\ store' \in [K!Items -> K!Stamps \cup {None, K!Torn}] /\ store'["creds"] # K!Torn
        /\ \A y \in K!Items \ j.todo : store'[y] = store[y]
    BY <1>1, <1>2, <2>1, <2>2
  <2>4. ASSUME NEW y \in j.todo \ loose' PROVE (K!ReadData(y))' = wanted[y]
    <3>1. store'[y] = wanted[y]
      BY <1>3, <2>1, <2>2, <2>4 DEF Writers, Firm
    <3>. QED BY <1>2, <2>2, <2>4, <3>1 DEF K!ReadData
  <2>5. ~j.first /\ j.op \notin Removals
    BY <1>1, <2>1 DEF JobOK, Removals
  <2>. QED BY <1>1, <2>5, <2>1, <2>3, <2>4, JobEnds DEF Removals
<1>13. CASE K!FileFails(j)
  <2>1. j.op \in {"open", "fill", "unlink"} /\ jobs' = jobs \ {j} /\ object' = object
        /\ j.todo \subseteq K!Items
    BY <1>1, <1>13 DEF K!FileFails, K!Ends, JobOK, K!Items
  <2>2. /\ faults' \in 0..MaxFaults /\ loose' \subseteq K!Items
        /\ loose' = loose \cup j.todo /\ UNCHANGED <<backend, store, wanted, stamp>>
    BY <1>4, <1>13, <2>1 DEF K!FileFails
  <2>5. ~j.first /\ j.op \notin Removals
    BY <1>1, <2>1 DEF JobOK, Removals
  <2>. QED BY <1>1, <2>5, <2>1, <2>2, JobEnds DEF Removals
<1>. QED BY <1>5, <1>6, <1>7, <1>9, <1>10, <1>11, <1>12, <1>13

(* Jobs that remove what is kept, or fail to.                               *)
LEMMA RemovalsMove ==
  ASSUME Stamped, AuthInv, NEW j \in jobs,
         \/ K!RemoveCreds(j) \/ K!DeleteSession(j) \/ K!CleanFolder(j) \/ K!CleanRows(j) \/ K!RemovalFails(j)
  PROVE  AuthInv'
<1>1. /\ JobOK(j) /\ j \in JobRecords
      /\ store \in [K!Items -> K!Stamps \cup {None, K!Torn}] /\ store["creds"] # K!Torn
      /\ faults \in 0..MaxFaults /\ loose \subseteq K!Items /\ backend \in K!Backends
      /\ "creds" \in K!Items
  BY DEF AuthInv, Kept, JobOK, K!Items
<1>2. ASSUME NEW items, store' = K!Without(items)
      PROVE  /\ store' \in [K!Items -> K!Stamps \cup {None, K!Torn}] /\ store'["creds"] # K!Torn
             /\ \A x \in K!Items : store'[x] # None => store'[x] = store[x] /\ x \notin items
  BY <1>1, <1>2 DEF K!Without, Stamped, K!Torn
<1>3. ASSUME NEW op \in K!Ops
      PROVE  /\ [j EXCEPT !.op = op].op = op /\ [j EXCEPT !.op = op].todo = j.todo
             /\ [j EXCEPT !.op = op].value = j.value /\ [j EXCEPT !.op = op].first = j.first
             /\ [j EXCEPT !.op = op] \in JobRecords
  BY <1>1 DEF JobRecords
<1>4. CASE K!RemoveCreds(j)
  <2>. DEFINE k == [j EXCEPT !.op = "row"]
  <2>. DEFINE items == CASE backend \in {"provider", "redis"} -> K!Items
                        [] backend = "prisma_redis" -> Keys
                        [] OTHER -> {"creds"}
  <2>1. /\ j.op = "forget" /\ jobs' = (jobs \ {j}) \cup {k} /\ store' = K!Without(items)
        /\ UNCHANGED <<backend, object, wanted, loose, stamp, faults>>
    BY <1>4 DEF K!RemoveCreds, K!Becomes
  <2>2. /\ k.op = "row" /\ k.todo = j.todo /\ k.value = j.value /\ k.first = j.first /\ k \in JobRecords
    BY <1>3 DEF K!Ops
  <2>3. j.todo = K!Items
    BY <1>1, <2>1 DEF JobOK, Removals
  <2>. HIDE DEF k
  <2>4. JobOK(k)
    BY <1>1, <2>1, <2>2, <2>3 DEF JobOK, Removals
  <2>5. ASSUME NEW x \in K!Items, Takes("forget", x), x \notin items PROVE Takes("row", x)
    BY <1>1, <2>5 DEF Takes, K!Backends, K!Prisma, K!Items
  <2>. HIDE DEF items
  <2>. QED BY <1>1, <1>2, <2>1, <2>2, <2>3, <2>4, <2>5, JobContinues DEF Removals
<1>5. CASE K!DeleteSession(j) \/ K!CleanRows(j)
  <2>. DEFINE items == CASE K!Prisma -> {"creds"}
                        [] backend = "redis" -> K!Items
                        [] OTHER -> {}
  <2>1. /\ j.op \in {"row", "clean_rows"} /\ jobs' = jobs \ {j} /\ j.todo = K!Items
        /\ UNCHANGED <<backend, object, wanted, loose, stamp, faults>>
    BY <1>1, <1>5 DEF K!DeleteSession, K!CleanRows, K!Ends, JobOK, Removals
  <2>2. store' = K!Without(items)
    <3>1. store = K!Without({})
      BY <1>1 DEF K!Without
    <3>2. store' = CASE K!Prisma -> K!Without({"creds"})
                     [] backend = "redis" -> K!Without(K!Items)
                     [] OTHER -> store
      BY <1>5 DEF K!DeleteSession, K!CleanRows
    <3>. QED BY <3>1, <3>2
  <2>3. ASSUME NEW x \in K!Items, Takes(j.op, x) PROVE x \in items
    BY <1>1, <2>1, <2>3 DEF Takes, K!Backends, K!Prisma
  <2>4. ~j.first
    BY <1>1, <2>1 DEF JobOK
  <2>. HIDE DEF items
  <2>. QED BY <1>1, <1>2, <2>1, <2>2, <2>3, <2>4, JobEnds DEF Removals
<1>6. CASE K!CleanFolder(j)
  <2>. DEFINE k == [j EXCEPT !.op = "clean_rows"]
  <2>. DEFINE items == IF backend = "prisma_files" THEN Keys ELSE {}
  <2>1. /\ j.op = "clean" /\ jobs' = (jobs \ {j}) \cup {k} /\ j.todo = K!Items
        /\ UNCHANGED <<backend, object, wanted, loose, stamp, faults>>
    BY <1>1, <1>6 DEF K!CleanFolder, K!Becomes, JobOK, Removals
  <2>2. /\ k.op = "clean_rows" /\ k.todo = j.todo /\ k.value = j.value /\ k.first = j.first /\ k \in JobRecords
    BY <1>3 DEF K!Ops
  <2>. HIDE DEF k
  <2>3. store' = K!Without(items)
    <3>1. store = K!Without({})
      BY <1>1 DEF K!Without
    <3>. QED BY <1>6, <3>1 DEF K!CleanFolder
  <2>4. JobOK(k)
    BY <1>1, <2>1, <2>2 DEF JobOK, Removals
  <2>5. ASSUME NEW x \in K!Items, Takes("clean", x), x \notin items PROVE Takes("clean_rows", x)
    BY <1>1, <2>5 DEF Takes, K!Backends, K!Prisma, K!Items
  <2>. HIDE DEF items
  <2>. QED BY <1>1, <1>2, <2>1, <2>2, <2>3, <2>4, <2>5, JobContinues DEF Removals
<1>7. CASE K!RemovalFails(j)
  <2>1. /\ j.op \in Removals /\ jobs' = jobs \ {j} /\ object' = object
        /\ loose' = loose \cup K!Items /\ faults' \in 0..MaxFaults
        /\ UNCHANGED <<backend, store, wanted, stamp>>
    BY <1>1, <1>7 DEF K!RemovalFails, K!Ends, K!Fails, Removals, Stamped
  <2>2. ~j.first
    BY <1>1, <2>1 DEF JobOK, Removals
  <2>. QED BY <1>1, <2>1, <2>2, JobEnds
<1>. QED BY <1>4, <1>5, <1>6, <1>7

(* The stamp of a call that begins now.                                     *)
LEMMA StampTyped ==
  ASSUME Stamped, AuthInv, K!Tick
  PROVE  stamp + 1 \in K!Stamps /\ stamp' \in K!Stamps /\ stamp' \in 0..MaxStamp /\ stamp' # None
BY DEF AuthInv, Kept, K!Tick, Stamped, K!Stamps

(* createClient: the credentials are read by a job that no other meets.     *)
LEMMA ConnectKeeps == ASSUME Stamped, AuthInv, K!Connect PROVE AuthInv'
<1>. USE DEF AuthInv
<1>. DEFINE j == K!Job("load", {"creds"}, K!Nothing)
<1>1. /\ \A k \in jobs : ~Connecting(k)
      /\ object' = None /\ jobs' = jobs \cup {j}
      /\ loose' = IF K!Busy("creds") THEN K!Items ELSE loose
      /\ UNCHANGED <<backend, store, wanted, faults>> /\ K!Tick
  BY DEF K!Connect, Connecting
<1>2. /\ JobOK(j) /\ j.op = "load" /\ j.todo = {"creds"} /\ j.first = FALSE
      /\ stamp' \in 0..MaxStamp
  <2>1. K!Nothing \in [K!Items -> K!Stamps \cup {None}] /\ {"creds"} \in SUBSET K!Items /\ "load" \in K!Ops
    BY DEF K!Nothing, K!Items, K!Ops
  <2>2. /\ j \in JobRecords /\ j.op = "load" /\ j.todo = {"creds"} /\ j.first = FALSE
        /\ stamp' \in 0..MaxStamp
    <3>1. stamp + 1 \in K!Stamps /\ stamp' \in 0..MaxStamp
      BY <1>1, StampTyped
    <3>. QED BY <2>1, <3>1 DEF K!Job, JobRecords
  <2>. HIDE DEF j
  <2>3. JobOK(j)
    BY <2>2 DEF JobOK, Removals
  <2>. QED BY <2>2, <2>3
<1>. HIDE DEF j
<1>3. Firm' \subseteq Firm /\ \A x \in Firm' : ~K!Busy("creds")
  BY <1>1 DEF Firm
<1>4. Kept'
  BY <1>1, <1>2 DEF Kept, JobOK, JobRecords, K!Stamps
<1>5. Alone'
  BY <1>1, <1>2, <1>3 DEF Alone, K!Busy
<1>6. Settled'
  BY <1>1, <1>2, <1>3 DEF Settled, K!ReadData
<1>7. WritesWanted'
  BY <1>1, <1>2, <1>3 DEF WritesWanted, Writers
<1>8. KnowsRow'
  BY <1>1, <1>2, <1>3 DEF KnowsRow, K!Prisma
<1>9. Removing'
  <2>1. \A op, x : Takes(op, x)' <=> Takes(op, x)
    BY <1>1 DEF Takes, K!Prisma
  <2>. QED BY <1>1, <1>2, <1>3, <2>1 DEF Removing, Removals
<1>10. OneConnects'
  BY <1>1 DEF OneConnects, Connecting
<1>11. HasWanted'
  BY <1>1, <1>3 DEF HasWanted
<1>. QED BY <1>4, <1>5, <1>6, <1>7, <1>8, <1>9, <1>10, <1>11

(* Nothing was found: the credentials are new, and the keys that may still  *)
(* be kept are not spoken of.                                               *)
LEMMA FreshKeeps ==
  ASSUME Stamped, AuthInv, NEW j \in jobs, j.op = "load", K!Fresh(j),
         loose' = K!Items \/ ("creds" \in Firm /\ store["creds"] = None /\ loose' = loose),
         UNCHANGED <<backend, store, stamp>>, faults' \in 0..MaxFaults
  PROVE  AuthInv'
<1>. USE DEF AuthInv
<1>1. /\ JobOK(j) /\ j \in JobRecords /\ j.todo = {"creds"} /\ "creds" \in K!Items
      /\ j.id \in K!Stamps /\ j.id # None /\ object = None
      /\ \A k \in jobs : Connecting(k) => k = j
      /\ \A k \in jobs : JobOK(k)
  BY DEF Kept, JobOK, JobRecords, K!Items, OneConnects, Connecting, Stamped, K!Stamps
<1>2. Firm' \subseteq Firm /\ loose' \subseteq K!Items
  BY DEF Firm, Kept
<1>3. ASSUME NEW x \in Firm'
      PROVE  /\ "creds" \in Firm /\ store["creds"] = None /\ x \in Firm
             /\ \A y \in K!Items : wanted[y] = None
             /\ \A k \in jobs : "creds" \in k.todo => k = j
             /\ \A k \in jobs : k.op \notin Removals
  <2>1. "creds" \in Firm /\ store["creds"] = None /\ x \in Firm
    BY <1>3 DEF Firm
  <2>2. \A k \in jobs : "creds" \in k.todo => k = j
    BY <1>1, <2>1 DEF Alone, Removals
  <2>3. wanted["creds"] = None
    BY <2>1, <2>2 DEF Settled, K!ReadData
  <2>4. \A k \in jobs : k.op \notin Removals
    BY <1>1, <2>2 DEF JobOK, Removals
  <2>. QED BY <2>1, <2>2, <2>3, <2>4 DEF HasWanted
<1>4. CASE K!Prisma
  <2>. DEFINE value == [K!Nothing EXCEPT !["creds"] = j.id]
  <2>. DEFINE k == [j EXCEPT !.op = "exists", !.first = TRUE, !.value = value]
  <2>1. wanted' = value /\ jobs' = (jobs \ {j}) \cup {k} /\ object' = object
    BY <1>4 DEF K!Fresh, K!Becomes
  <2>2. /\ value \in [K!Items -> K!Stamps \cup {None}]
        /\ value["creds"] = j.id /\ \A x \in K!Items : x # "creds" => value[x] = None
    BY <1>1 DEF K!Nothing
  <2>. HIDE DEF value
  <2>3. /\ k.op = "exists" /\ k.first = TRUE /\ k.value = value /\ k.todo = {"creds"}
        /\ k \in JobRecords
    BY <1>1, <2>2 DEF JobRecords, K!Ops
  <2>. HIDE DEF k
  <2>4. JobOK(k)
    BY <1>1, <2>3 DEF JobOK, Removals
  <2>5. Kept'
    <3>1. \A i \in jobs' : JobOK(i)
      BY <1>1, <2>1, <2>4
    <3>. QED BY <1>2, <2>1, <2>2, <3>1 DEF Kept, JobOK, JobRecords, K!Stamps
  <2>6. Alone'
    BY <1>3, <2>1, <2>3 DEF Alone
  <2>7. Settled'
    <3>1. ASSUME NEW x \in Firm', \A i \in jobs' : x \in i.todo => i.op = "load"
          PROVE  store[x] = None \/ store[x] = K!Torn
      <4>1. x # "creds"
        BY <2>1, <2>3, <3>1
      <4>2. \A i \in jobs : x \in i.todo => i.op = "load"
        BY <1>1, <2>1, <3>1, <4>1
      <4>3. K!ReadData(x) = None
        BY <1>2, <1>3, <3>1, <4>2 DEF Settled, Firm
      <4>. QED BY <4>3 DEF K!ReadData
    <3>2. ASSUME NEW x \in Firm', \A i \in jobs' : x \in i.todo => i.op = "load"
          PROVE  wanted'[x] = None
      <4>1. x # "creds"
        BY <2>1, <2>3, <3>2
      <4>. QED BY <2>1, <2>2, <4>1 DEF Firm
    <3>. QED BY <3>1, <3>2 DEF Settled, K!ReadData
  <2>8. WritesWanted'
    <3>1. ASSUME NEW x \in Firm', NEW i \in jobs', x \in i.todo, i.op \in Writers
          PROVE  i.value[x] = wanted'[x]
      <4>1. CASE i = k
        BY <2>1, <2>3, <4>1
      <4>2. CASE i \in jobs \ {j}
        <5>1. x # "creds" /\ x \in K!Items /\ wanted[x] = None
          BY <1>3, <3>1, <4>2 DEF Firm
        <5>2. i.value[x] = wanted[x]
          BY <1>3, <3>1, <4>2 DEF WritesWanted
        <5>. QED BY <2>1, <2>2, <5>1, <5>2
      <4>. QED BY <2>1, <3>1, <4>1, <4>2
    <3>. QED BY <3>1 DEF WritesWanted
  <2>9. KnowsRow'
    BY <1>1, <1>2, <1>3, <2>1, <2>3 DEF KnowsRow, JobOK
  <2>10. Removing'
    BY <1>3, <2>1, <2>3 DEF Removing, Removals
  <2>11. OneConnects'
    BY <1>1, <2>1 DEF OneConnects, Connecting
  <2>12. HasWanted'
    BY <1>1, <2>1, <2>2 DEF HasWanted
  <2>. QED BY <2>5, <2>6, <2>7, <2>8, <2>9, <2>10, <2>11, <2>12
<1>5. CASE ~K!Prisma
  <2>1. wanted' = K!Nothing /\ jobs' = jobs \ {j} /\ object' = 0
    BY <1>5 DEF K!Fresh, K!Ends
  <2>2. wanted' \in [K!Items -> K!Stamps \cup {None}] /\ \A x \in K!Items : wanted'[x] = None
    BY <2>1 DEF K!Nothing
  <2>3. Kept'
    BY <1>1, <1>2, <2>1, <2>2 DEF Kept, JobOK, JobRecords, K!Stamps
  <2>4. Alone'
    BY <1>2, <2>1 DEF Alone
  <2>5. Settled'
    <3>1. ASSUME NEW x \in Firm', \A i \in jobs' : x \in i.todo => i.op = "load"
          PROVE  K!ReadData(x) = None
      <4>1. \A i \in jobs : x \in i.todo => i.op = "load"
        BY <2>1, <3>1
      <4>2. x \in K!Items /\ x \in Firm /\ wanted[x] = None
        BY <1>3 DEF Firm
      <4>. QED BY <4>1, <4>2 DEF Settled
    <3>. QED BY <2>2, <3>1 DEF Settled, K!ReadData, Firm
  <2>6. WritesWanted'
    <3>1. ASSUME NEW x \in Firm', NEW i \in jobs', x \in i.todo, i.op \in Writers
          PROVE  i.value[x] = wanted'[x]
      <4>1. i.value[x] = wanted[x] /\ x \in K!Items
        BY <1>3, <2>1, <3>1 DEF WritesWanted, Firm
      <4>. QED BY <1>3, <2>2, <4>1
    <3>. QED BY <3>1 DEF WritesWanted
  <2>7. KnowsRow'
    BY <1>2, <2>1 DEF KnowsRow, K!Prisma
  <2>8. Removing'
    BY <1>3, <2>1 DEF Removing
  <2>9. OneConnects'
    BY <1>1, <2>1 DEF OneConnects, Connecting
  <2>10. HasWanted'
    BY <1>1, <2>1, <2>2 DEF HasWanted
  <2>. QED BY <2>3, <2>4, <2>5, <2>6, <2>7, <2>8, <2>9, <2>10
<1>. QED BY <1>4, <1>5

(* Credentials are found, or there is nowhere to look.                      *)
LEMMA ReadKeeps ==
  ASSUME Stamped, AuthInv, NEW j \in jobs, K!ReadCreds(j) \/ K!ReadCredsFails(j)
  PROVE  AuthInv'
<1>. USE DEF AuthInv
<1>1. /\ j.op = "load" /\ UNCHANGED <<backend, store, stamp>> /\ faults' \in 0..MaxFaults
      /\ JobOK(j) /\ ~j.first /\ j.todo = {"creds"} /\ "creds" \in K!Items /\ object = None
      /\ store \in [K!Items -> K!Stamps \cup {None, K!Torn}] /\ store["creds"] # K!Torn
      /\ loose \subseteq K!Items
  BY DEF K!ReadCreds, K!ReadCredsFails, Stamped, Kept, JobOK, K!Items, OneConnects,
         Connecting
<1>2. CASE object' = store["creds"] /\ store["creds"] # None /\ jobs' = jobs \ {j} /\ UNCHANGED <<wanted, loose>>
  <2>1. Firm' = Firm /\ \A op, x : Takes(op, x)' <=> Takes(op, x)
    BY <1>1, <1>2 DEF Firm, Takes, K!Prisma
  <2>2. Kept'
    BY <1>1, <1>2 DEF Kept, JobOK, JobRecords, K!Stamps
  <2>3. Alone'
    BY <1>2, <2>1 DEF Alone
  <2>4. Settled'
    BY <1>1, <1>2, <2>1 DEF Settled, K!ReadData
  <2>5. WritesWanted' /\ KnowsRow'
    BY <1>1, <1>2, <2>1 DEF WritesWanted, KnowsRow, K!Prisma
  <2>6. Removing'
    <3>1. \A x \in K!Items, k \in jobs : Takes(k.op, x) => k # j
      BY <1>1 DEF Takes
    <3>. QED BY <1>1, <1>2, <2>1, <3>1 DEF Removing, Firm
  <2>7. OneConnects'
    BY <1>1, <1>2 DEF OneConnects, Connecting
  <2>8. HasWanted'
    <3>1. ASSUME "creds" \in Firm PROVE object' = wanted["creds"] /\ wanted["creds"] # None
      <4>1. \A k \in jobs : "creds" \in k.todo => k = j
        BY <1>1, <3>1 DEF Alone, Removals
      <4>. QED BY <1>1, <1>2, <3>1, <4>1 DEF Settled, K!ReadData
    <3>. QED BY <1>2, <2>1, <3>1 DEF HasWanted
  <2>. QED BY <2>2, <2>3, <2>4, <2>5, <2>6, <2>7, <2>8
<1>3. CASE K!Fresh(j) /\ loose' = K!Items
  BY <1>1, <1>3, FreshKeeps
<1>4. CASE K!Fresh(j) /\ "creds" \in Firm /\ store["creds"] = None /\ loose' = loose
  BY <1>1, <1>4, FreshKeeps
<1>5. CASE jobs' = jobs \ {j} /\ UNCHANGED <<object, wanted, loose>>
  <2>1. ASSUME NEW x \in j.todo \ loose' PROVE (K!ReadData(x))' = wanted[x]
    <3>1. \A k \in jobs : x \in k.todo => k = j
      BY <1>1, <1>5, <2>1 DEF Alone, Removals, Firm
    <3>2. K!ReadData(x) = wanted[x]
      BY <1>1, <1>5, <2>1, <3>1 DEF Settled, Firm
    <3>. QED BY <1>1, <3>2 DEF K!ReadData
  <2>. QED BY <1>1, <1>5, <2>1, JobEnds DEF Removals
<1>6. K!ReadCreds(j) => <1>2!1 \/ <1>3!1 \/ <1>4!1
  BY <1>1 DEF K!ReadCreds, K!Ends, Firm
<1>7. K!ReadCredsFails(j) => <1>3!1 \/ <1>5!1
  BY DEF K!ReadCredsFails, K!Ends
<1>. QED BY <1>2, <1>3, <1>4, <1>5, <1>6, <1>7

(* What a call that begins says of its items: they are its own.             *)
LEMMA BeginsFacts ==
  ASSUME NEW new, K!Begins(new), NEW items,
         \A k \in new : k.todo \subseteq items,
         \A x \in items : \E k \in new : x \in k.todo
  PROVE  /\ jobs' = jobs \cup new
         /\ loose' \subseteq loose \cup items
         /\ \A x \in items : x \notin loose' => \A k \in jobs : x \notin k.todo
         /\ \A x : x \notin items /\ x \notin loose' => x \notin loose
<1>1. UNION {k.todo : k \in new} = items
  <2>1. \A x \in items : x \in UNION {k.todo : k \in new}
    OBVIOUS
  <2>2. \A x \in UNION {k.todo : k \in new} : x \in items
    OBVIOUS
  <2>. QED BY <2>1, <2>2
<1>2. jobs' = jobs \cup new /\ loose' = (loose \ items) \cup {x \in items : K!Busy(x)}
  BY <1>1 DEF K!Begins
<1>. QED BY <1>2 DEF K!Busy

(* The jobs of a call that begins to write items, each one of them, and     *)
(* what it sets.                                                            *)
WritesSet(new, items) ==
  /\ items \subseteq K!Items
  /\ \A k \in new : /\ JobOK(k) /\ k.op \in Writers /\ ~k.first /\ k.todo \subseteq items
                    /\ k.op = "write" => ~K!Prisma
                    /\ \A x \in k.todo : k.value[x] = wanted'[x]
  /\ \A k, l \in new : \A x \in K!Items : x \in k.todo /\ x \in l.todo => k = l
  /\ \A x \in items : \E k \in new : x \in k.todo
  /\ \A x \in K!Items \ items : wanted'[x] = wanted[x]
  /\ wanted' \in [K!Items -> K!Stamps \cup {None}]
  /\ object # None /\ object' # None
  /\ object' \in K!Stamps \cup {0} /\ stamp' \in 0..MaxStamp
  /\ backend' = backend /\ store' = store /\ faults' = faults

(* Such a call keeps all of it: it has sole charge of what it writes.       *)
LEMMA BeginsKeeps ==
  ASSUME Stamped, AuthInv, NEW new, NEW items, K!Begins(new), WritesSet(new, items), HasWanted'
  PROVE  AuthInv'
<1>. USE DEF AuthInv
<1>a. /\ items \subseteq K!Items
      /\ \A k \in new : /\ JobOK(k) /\ k.op \in Writers /\ ~k.first /\ k.todo \subseteq items
                        /\ k.op = "write" => ~K!Prisma
                        /\ \A x \in k.todo : k.value[x] = wanted'[x]
  BY DEF WritesSet
<1>b. /\ \A k, l \in new : \A x \in K!Items : x \in k.todo /\ x \in l.todo => k = l
      /\ \A x \in items : \E k \in new : x \in k.todo
      /\ \A x \in K!Items \ items : wanted'[x] = wanted[x]
  BY DEF WritesSet
<1>c. /\ wanted' \in [K!Items -> K!Stamps \cup {None}]
      /\ object # None /\ object' # None
      /\ object' \in K!Stamps \cup {0} /\ stamp' \in 0..MaxStamp
      /\ backend' = backend /\ store' = store /\ faults' = faults
  BY DEF WritesSet
<1>. USE <1>a, <1>b, <1>c
<1>1. /\ jobs' = jobs \cup new
      /\ loose' \subseteq loose \cup items
      /\ \A x \in items : x \notin loose' => \A k \in jobs : x \notin k.todo
      /\ \A x : x \notin items /\ x \notin loose' => x \notin loose
  BY BeginsFacts
<1>2. ASSUME NEW x \in Firm', x \in items
      PROVE  \A k \in jobs : x \notin k.todo
  BY <1>1, <1>2 DEF Firm
<1>3. ASSUME NEW x \in Firm', x \notin items
      PROVE  x \in Firm /\ wanted'[x] = wanted[x] /\ \A k \in new : x \notin k.todo
  BY <1>1, <1>3 DEF Firm
<1>4. ASSUME NEW x \in Firm', x \in items PROVE \E k \in new : x \in k.todo
  BY <1>4
<1>5. \A k \in jobs : JobOK(k)
  BY DEF Kept
<1>6. Kept'
  <2>1. loose' \subseteq K!Items
    BY <1>1 DEF Kept
  <2>2. \A k \in jobs' : JobOK(k)
    BY <1>1, <1>5
  <2>. QED BY <1>1, <2>1, <2>2 DEF Kept, JobOK, JobRecords, K!Stamps
<1>7. Alone'
  <2>1. ASSUME NEW x \in Firm', NEW k \in jobs', NEW l \in jobs', x \in k.todo, x \in l.todo
        PROVE  k = l \/ (k.op \in Removals /\ l.op \in Removals)
    <3>1. x \in K!Items
      BY DEF Firm
    <3>2. CASE x \in items
      BY <1>1, <1>2, <2>1, <3>1, <3>2
    <3>3. CASE x \notin items
      BY <1>1, <1>3, <2>1, <3>3 DEF Alone
    <3>. QED BY <3>2, <3>3
  <2>. QED BY <2>1 DEF Alone
<1>8. Settled'
  <2>1. ASSUME NEW x \in Firm', \A k \in jobs' : x \in k.todo => k.op = "load"
        PROVE  K!ReadData(x) = wanted'[x]
    <3>1. x \notin items
      BY <1>1, <1>4, <2>1 DEF Writers
    <3>. QED BY <1>1, <1>3, <2>1, <3>1 DEF Settled
  <2>. QED BY <2>1 DEF Settled, K!ReadData
<1>9. WritesWanted'
  <2>1. ASSUME NEW x \in Firm', NEW k \in jobs', x \in k.todo, k.op \in Writers
        PROVE  k.value[x] = wanted'[x]
    <3>1. CASE k \in new
      BY <2>1, <3>1
    <3>2. CASE k \in jobs
      <4>1. x \notin items
        BY <1>2, <2>1, <3>2
      <4>. QED BY <1>3, <2>1, <3>2, <4>1 DEF WritesWanted
    <3>. QED BY <1>1, <2>1, <3>1, <3>2
  <2>. QED BY <2>1 DEF WritesWanted
<1>10. KnowsRow'
  <2>1. K!Prisma' <=> K!Prisma
    BY DEF K!Prisma
  <2>2. ASSUME NEW k \in jobs, "creds" \in Firm', k.op = "write" PROVE "creds" \in Firm
    <3>1. k.todo = {"creds"}
      BY <1>5, <2>2 DEF JobOK
    <3>. QED BY <1>2, <1>3, <2>2, <3>1
  <2>. QED BY <1>1, <2>1, <2>2 DEF KnowsRow
<1>11. Removing'
  <2>1. \A op, x : Takes(op, x)' <=> Takes(op, x)
    BY DEF Takes, K!Prisma
  <2>2. ASSUME NEW x \in Firm', NEW k \in jobs', x \in k.todo, k.op \in Removals
        PROVE  wanted'[x] = None /\ (store[x] = None \/ \E l \in jobs' : Takes(l.op, x))
    <3>1. k \in jobs
      BY <1>1, <2>2 DEF Removals, Writers
    <3>2. x \notin items
      BY <1>2, <2>2, <3>1
    <3>. QED BY <1>1, <1>3, <2>2, <3>1, <3>2 DEF Removing
  <2>. QED BY <2>1, <2>2 DEF Removing
<1>12. OneConnects'
  <2>1. \A k \in jobs' : ~Connecting(k)
    BY <1>1 DEF OneConnects, Connecting, Writers
  <2>. QED BY <2>1 DEF OneConnects, Connecting
<1>. QED BY <1>6, <1>7, <1>8, <1>9, <1>10, <1>11, <1>12

(* saveCreds.                                                               *)
LEMMA SaveKeeps == ASSUME Stamped, AuthInv, K!SaveCreds PROVE AuthInv'
<1>. USE DEF AuthInv
<1>. DEFINE op == IF K!Prisma THEN "exists" ELSE "write"
<1>. DEFINE value == [K!Nothing EXCEPT !["creds"] = stamp']
<1>. DEFINE j == K!Job(op, {"creds"}, value)
<1>1. /\ object # None /\ K!Tick /\ object' = stamp'
      /\ wanted' = [wanted EXCEPT !["creds"] = stamp']
      /\ K!Begins({j}) /\ UNCHANGED <<backend, store, faults>>
  BY DEF K!SaveCreds
<1>2. stamp' \in K!Stamps /\ stamp' \in 0..MaxStamp /\ stamp' # None
  BY <1>1 DEF Kept, K!Tick, Stamped, K!Stamps
<1>3. value \in [K!Items -> K!Stamps \cup {None}] /\ value["creds"] = stamp' /\ "creds" \in K!Items
  BY <1>2 DEF K!Nothing, K!Items
<1>4. op \in {"exists", "write"} /\ (op = "write" => ~K!Prisma) /\ op \in K!Ops
  BY DEF K!Ops
<1>. HIDE DEF value, op
<1>5. {"creds"} \in SUBSET K!Items
  BY <1>3 DEF K!Items
<1>6. /\ j \in JobRecords /\ j.op = op /\ j.todo = {"creds"} /\ j.value = value /\ j.first = FALSE
  <2>1. stamp + 1 \in K!Stamps
    BY <1>1, StampTyped
  <2>. QED BY <1>3, <1>4, <1>5, <2>1 DEF K!Job, JobRecords
<1>. HIDE DEF j
<1>7. JobOK(j)
  BY <1>4, <1>6 DEF JobOK, Removals
<1>8. /\ wanted' \in [K!Items -> K!Stamps \cup {None}] /\ wanted'["creds"] = stamp'
      /\ \A x \in K!Items \ {"creds"} : wanted'[x] = wanted[x]
  BY <1>1, <1>2, <1>3 DEF Kept
<1>9. HasWanted'
  BY <1>1, <1>2, <1>8 DEF HasWanted
<1>10. \A x \in {"creds"} : \E k \in {j} : x \in k.todo
  BY <1>6
<1>11. \A k \in {j} : /\ JobOK(k) /\ k.op \in Writers /\ ~k.first /\ k.todo \subseteq {"creds"}
                      /\ k.op = "write" => ~K!Prisma
                      /\ \A x \in k.todo : k.value[x] = wanted'[x]
  BY <1>3, <1>4, <1>6, <1>7, <1>8 DEF Writers
<1>12. \A k, l \in {j} : \A x \in K!Items : x \in k.todo /\ x \in l.todo => k = l
  OBVIOUS
<1>13. object' # None /\ object' \in K!Stamps \cup {0}
  BY <1>1, <1>2
<1>. DEFINE new == {j}
<1>. HIDE DEF new
<1>14. /\ K!Begins(new) /\ \A x \in {"creds"} : \E k \in new : x \in k.todo
       /\ \A k \in new : /\ JobOK(k) /\ k.op \in Writers /\ ~k.first /\ k.todo \subseteq {"creds"}
                         /\ k.op = "write" => ~K!Prisma
                         /\ \A x \in k.todo : k.value[x] = wanted'[x]
       /\ \A k, l \in new : \A x \in K!Items : x \in k.todo /\ x \in l.todo => k = l
  BY <1>1, <1>10, <1>11, <1>12 DEF new
<1>. DEFINE items == {"creds"}
<1>. HIDE DEF items
<1>15. WritesSet(new, items)
  BY <1>1, <1>2, <1>5, <1>8, <1>13, <1>14 DEF items, WritesSet
<1>. QED BY <1>9, <1>14, <1>15, BeginsKeeps

(* keys.set.                                                                *)
LEMMA SetKeysKeeps == ASSUME Stamped, AuthInv, K!SetKeys PROVE AuthInv'
<1>. USE DEF AuthInv
<1>. DEFINE Set(items, gone) ==
        LET value == [x \in K!Items |-> IF x \in items \ gone THEN stamp' ELSE None] IN
        /\ wanted' = [x \in K!Items |-> IF x \in items THEN value[x] ELSE wanted[x]]
        /\ K!Begins(IF backend # "prisma_files" THEN {K!Job("keys", items, value)}
                  ELSE {K!Job(IF x \in gone THEN "unlink" ELSE "open", {x}, value) : x \in items})
<1>1. \E items \in SUBSET Keys \ {{}} : \E gone \in SUBSET items : Set(items, gone)
  BY DEF K!SetKeys
<1>. HIDE DEF Set
<1>2. PICK items \in SUBSET Keys, gone \in SUBSET Keys : Set(items, gone)
  BY <1>1
<1>. USE DEF Set
<1>. DEFINE value == [x \in K!Items |-> IF x \in items \ gone THEN stamp' ELSE None]
<1>. DEFINE op(x) == IF x \in gone THEN "unlink" ELSE "open"
<1>. DEFINE new == IF backend # "prisma_files" THEN {K!Job("keys", items, value)}
                   ELSE {K!Job(op(x), {x}, value) : x \in items}
<1>3. /\ K!Begins(new) /\ wanted' = [x \in K!Items |-> IF x \in items THEN value[x] ELSE wanted[x]]
  BY <1>2
<1>4. object \notin {None, 0} /\ K!Tick /\ UNCHANGED <<backend, store, object, faults>>
  BY DEF K!SetKeys
<1>5. stamp + 1 \in K!Stamps /\ stamp' \in K!Stamps /\ stamp' \in 0..MaxStamp
  BY <1>4, StampTyped
<1>6. value \in [K!Items -> K!Stamps \cup {None}]
  BY <1>5
<1>. HIDE DEF value
<1>7. /\ items \in SUBSET K!Items /\ items \subseteq Keys /\ "creds" \notin items /\ "creds" \in K!Items
  BY <1>1 DEF K!Items, Stamped
<1>8. /\ wanted' \in [K!Items -> K!Stamps \cup {None}]
      /\ \A x \in items : wanted'[x] = value[x]
      /\ \A x \in K!Items \ items : wanted'[x] = wanted[x]
  BY <1>3, <1>6, <1>7 DEF Kept
<1>9. \A o \in K!Ops, todo \in SUBSET K!Items :
        /\ K!Job(o, todo, value) \in JobRecords /\ K!Job(o, todo, value).op = o
        /\ K!Job(o, todo, value).todo = todo /\ K!Job(o, todo, value).value = value
        /\ K!Job(o, todo, value).first = FALSE
  BY <1>5, <1>6 DEF K!Job, JobRecords
<1>10. /\ \A k \in new : /\ k \in JobRecords /\ k.op \in {"keys", "open", "unlink"} /\ k.first = FALSE
                         /\ k.todo \subseteq items /\ k.value = value
       /\ \A k, l \in new : \A x \in K!Items : x \in k.todo /\ x \in l.todo => k = l
       /\ \A x \in items : \E k \in new : x \in k.todo
  <2>1. CASE backend # "prisma_files"
    <3>1. new = {K!Job("keys", items, value)} /\ "keys" \in K!Ops
      BY <2>1 DEF K!Ops
    <3>. HIDE DEF new
    <3>. QED BY <1>7, <1>9, <3>1
  <2>2. CASE backend = "prisma_files"
    <3>1. \A x \in items : op(x) \in {"open", "unlink"} /\ op(x) \in K!Ops /\ {x} \in SUBSET K!Items
      BY <1>7 DEF K!Ops
    <3>2. new = {K!Job(op(x), {x}, value) : x \in items}
      BY <2>2
    <3>. HIDE DEF op, new
    <3>3. ASSUME NEW k \in new
          PROVE  \E x \in items :
                   /\ k = K!Job(op(x), {x}, value) /\ k \in JobRecords
                   /\ k.op \in {"keys", "open", "unlink"} /\ k.first = FALSE
                   /\ k.todo = {x} /\ k.value = value
      <4>1. PICK x \in items : k = K!Job(op(x), {x}, value)
        BY <3>2
      <4>2. op(x) \in K!Ops /\ op(x) \in {"open", "unlink"} /\ {x} \in SUBSET K!Items
        BY <3>1, <4>1
      <4>. QED BY <1>5, <1>6, <4>1, <4>2 DEF K!Job, JobRecords
    <3>4. \A k, l \in new : \A x \in K!Items : x \in k.todo /\ x \in l.todo => k = l
      <4>1. ASSUME NEW k \in new, NEW l \in new, NEW x \in K!Items, x \in k.todo, x \in l.todo
            PROVE  k = l
        <5>1. k = K!Job(op(x), {x}, value) /\ l = K!Job(op(x), {x}, value)
          BY <3>3, <4>1
        <5>. QED BY <5>1
      <4>. QED BY <4>1
    <3>5. ASSUME NEW x \in items PROVE \E k \in new : x \in k.todo
      <4>1. K!Job(op(x), {x}, value) \in new /\ K!Job(op(x), {x}, value).todo = {x}
        BY <1>9, <3>1, <3>2
      <4>. QED BY <4>1
    <3>6. \A k \in new : /\ k \in JobRecords /\ k.op \in {"keys", "open", "unlink"} /\ k.first = FALSE
                         /\ k.todo \subseteq items /\ k.value = value
      BY <3>3
    <3>. QED BY <3>4, <3>5, <3>6
  <2>. QED BY <2>1, <2>2
<1>. HIDE DEF new, op
<1>11. \A k \in new : /\ JobOK(k) /\ k.op \in Writers /\ ~k.first /\ k.todo \subseteq items
                      /\ k.op = "write" => ~K!Prisma
                      /\ \A x \in k.todo : k.value[x] = wanted'[x]
  BY <1>7, <1>8, <1>10 DEF JobOK, Writers, Removals
<1>12. HasWanted'
  <2>1. ASSUME "creds" \in Firm'
        PROVE  "creds" \in Firm /\ wanted'["creds"] = wanted["creds"]
    BY ZenonT(40), <1>3, <1>7, <1>8, <1>10, <2>1, BeginsFacts DEF Firm
  <2>2. ASSUME "creds" \in Firm PROVE object = wanted["creds"] /\ wanted["creds"] # None
    BY <1>4, <2>2 DEF HasWanted
  <2>. QED BY <1>4, <2>1, <2>2 DEF HasWanted
<1>13. object # None /\ object' # None /\ object' \in K!Stamps \cup {0}
  BY <1>4 DEF Kept
<1>14. WritesSet(new, items)
  BY <1>4, <1>5, <1>7, <1>8, <1>10, <1>11, <1>13 DEF WritesSet
<1>. QED BY <1>3, <1>12, <1>14, BeginsKeeps

(* The account is left: what removals do not reach is not spoken of.        *)
LEMMA LeavesKeeps ==
  ASSUME Stamped, AuthInv, K!Logout \/ K!Unlink
  PROVE  AuthInv'
<1>. USE DEF AuthInv
<1>1. PICK ops, kept :
        /\ K!Leaves(ops, kept) /\ ops \subseteq {"forget", "clean"} /\ kept \subseteq K!Items
        /\ \A x \in K!Items \ kept : \E op \in ops : Takes(op, x)
  <2>1. CASE K!Logout
    <3>1. K!Leaves({"forget", "clean"}, {})
      BY <2>1 DEF K!Logout
    <3>2. \A x \in K!Items : Takes("forget", x) \/ Takes("clean", x)
      BY DEF Takes, K!Items
    <3>. QED BY <3>1, <3>2
  <2>2. CASE K!Unlink
    <3>. DEFINE kept == CASE backend = "provider" -> K!Items
                      [] backend = "prisma_redis" -> Keys
                      [] OTHER -> {}
    <3>1. K!Leaves({"clean"}, kept)
      BY <2>2 DEF K!Unlink
    <3>2. kept \subseteq K!Items /\ \A x \in K!Items \ kept : Takes("clean", x)
      BY DEF Takes, K!Items, Kept, K!Backends, K!Prisma
    <3>. HIDE DEF kept
    <3>. QED BY <3>1, <3>2
  <2>. QED BY <2>1, <2>2
<1>2. /\ object' = None /\ wanted' = K!Nothing /\ object # None /\ K!Tick
      /\ jobs' = jobs \cup {K!Job(op, K!Items, K!Nothing) : op \in ops}
      /\ loose' = kept \cup {x \in K!Items : K!Busy(x)}
      /\ UNCHANGED <<backend, store, faults>>
  BY <1>1 DEF K!Leaves
<1>3. K!Nothing \in [K!Items -> K!Stamps \cup {None}] /\ \A x \in K!Items : K!Nothing[x] = None
  BY DEF K!Nothing
<1>4. ASSUME NEW op \in ops
      PROVE  /\ JobOK(K!Job(op, K!Items, K!Nothing)) /\ K!Job(op, K!Items, K!Nothing).op = op
             /\ K!Job(op, K!Items, K!Nothing).todo = K!Items /\ ~K!Job(op, K!Items, K!Nothing).first
  <2>1. op \in K!Ops /\ op \in Removals
    BY <1>1, <1>4 DEF K!Ops, Removals
  <2>2. K!Items \in SUBSET K!Items
    OBVIOUS
  <2>3. /\ K!Job(op, K!Items, K!Nothing) \in JobRecords
        /\ K!Job(op, K!Items, K!Nothing).op = op /\ K!Job(op, K!Items, K!Nothing).todo = K!Items
        /\ K!Job(op, K!Items, K!Nothing).first = FALSE
    <3>1. stamp + 1 \in K!Stamps
      BY <1>2, StampTyped
    <3>. QED BY <1>3, <2>1, <2>2, <3>1 DEF K!Job, JobRecords
  <2>. QED BY <1>1, <2>1, <2>3 DEF JobOK, Removals
<1>. DEFINE j(op) == K!Job(op, K!Items, K!Nothing)
<1>5. \A k \in jobs' : k \in jobs \/ \E op \in ops : k = j(op)
  BY <1>2
<1>6. \A op \in ops : /\ JobOK(j(op)) /\ j(op).op = op /\ j(op).todo = K!Items /\ ~j(op).first
                      /\ op \in Removals /\ j(op) \in jobs'
  BY <1>1, <1>2, <1>4 DEF Removals
<1>. HIDE DEF j
<1>7. ASSUME NEW x \in Firm'
      PROVE  /\ x \in K!Items /\ wanted'[x] = None
             /\ \A k \in jobs : x \notin k.todo
             /\ \E op \in ops : Takes(op, x)
  BY <1>1, <1>2, <1>3, <1>7 DEF Firm, K!Busy
<1>8. ASSUME NEW x \in Firm', NEW k \in jobs', x \in k.todo
      PROVE  k.op \in Removals
  BY <1>5, <1>6, <1>7, <1>8
<1>9. \A op, x : Takes(op, x)' <=> Takes(op, x)
  BY <1>2 DEF Takes, K!Prisma
<1>10. Kept'
  <2>1. \A k \in jobs' : JobOK(k)
    BY <1>5, <1>6 DEF Kept
  <2>2. stamp' \in 0..MaxStamp
    BY <1>2 DEF Kept, K!Tick, Stamped
  <2>. QED BY <1>1, <1>2, <1>3, <2>1, <2>2 DEF Kept, JobOK, JobRecords, K!Stamps
<1>11. Alone'
  BY <1>8 DEF Alone
<1>12. Settled'
  <2>1. ASSUME NEW x \in Firm' PROVE \E k \in jobs' : x \in k.todo /\ k.op # "load"
    BY <1>6, <1>7 DEF Removals
  <2>. QED BY <2>1 DEF Settled
<1>13. WritesWanted'
  BY <1>8 DEF WritesWanted, Writers, Removals
<1>14. KnowsRow'
  <2>1. ASSUME "creds" \in Firm', NEW k \in jobs', k.op = "write" PROVE FALSE
    <3>1. k.todo = {"creds"}
      BY <1>10, <2>1 DEF Kept, JobOK
    <3>. QED BY <1>8, <2>1, <3>1 DEF Removals
  <2>. QED BY <2>1 DEF KnowsRow
<1>15. Removing'
  <2>1. ASSUME NEW x \in Firm' PROVE wanted'[x] = None /\ \E k \in jobs' : Takes(k.op, x)
    BY <1>6, <1>7
  <2>. QED BY <1>9, <2>1 DEF Removing
<1>16. OneConnects'
  <2>1. \A k \in jobs' : ~Connecting(k)
    BY <1>2, <1>5, <1>6 DEF OneConnects, Connecting, Removals
  <2>. QED BY <2>1 DEF OneConnects, Connecting
<1>17. HasWanted'
  BY <1>2, <1>3 DEF HasWanted
<1>. QED BY <1>10, <1>11, <1>12, <1>13, <1>14, <1>15, <1>16, <1>17

(* What a restart cuts short is not spoken of.                              *)
LEMMA RestartKeeps == ASSUME Stamped, AuthInv, K!Restart PROVE AuthInv'
<1>. USE DEF AuthInv
<1>1. /\ faults' \in 0..MaxFaults /\ object' = None /\ jobs' = {}
      /\ loose' = loose \cup {x \in K!Items : K!Busy(x)}
      /\ UNCHANGED <<backend, store, wanted, stamp>>
  BY DEF K!Restart, Kept, Stamped
<1>2. \A x \in Firm' : x \in Firm /\ \A k \in jobs : x \notin k.todo
  BY <1>1 DEF Firm, K!Busy
<1>3. Kept'
  BY <1>1 DEF Kept, K!Stamps
<1>4. Settled'
  BY <1>1, <1>2 DEF Settled, K!ReadData
<1>5. HasWanted'
  BY <1>1, <1>2 DEF HasWanted
<1>. QED BY <1>1, <1>3, <1>4, <1>5 DEF Alone, WritesWanted, KnowsRow, Removing,
                OneConnects

(* Every step of what is kept.                                              *)
LEMMA AuthStep == ASSUME Stamped, AuthInv, [K!Next]_K!vars PROVE AuthInv'
<1>1. CASE UNCHANGED K!vars
  BY <1>1 DEF K!vars, AuthInv, Kept, JobOK, Alone, Settled, WritesWanted, KnowsRow,
         Removing, OneConnects,
    HasWanted, Firm, K!ReadData, Takes, K!Prisma, Connecting
<1>2. CASE K!Next
  BY <1>2, ConnectKeeps, SaveKeeps, SetKeysKeeps, LeavesKeeps, RestartKeeps, ReadKeeps,
    WritersMove, RemovalsMove DEF K!Next
<1>. QED BY <1>1, <1>2

(* Whatever saves, removals, failures and restarts come between, what is    *)
(* read of an item at rest is what the socket set it to last, or nothing    *)
(* once the account was left, and a socket has the credentials that are     *)
(* kept, save for the items the property excepts: for any keys, in each of  *)
(* the four places they are kept.                                           *)
THEOREM ReadAsSet == MCSpec => []KeptAsSet
PROOF
  <1>0. Stamped
    BY KeysAssumption DEF Stamped
  <1>1. MCInit => AuthInv
    BY <1>0, AuthInit DEF MCInit
  <1>2. AuthInv /\ [MCNext]_<<scene, vars, kvars>> => AuthInv'
    <2>1. [MCNext]_<<scene, vars, kvars>> => [K!Next]_K!vars
      BY DEF MCNext, kvars, K!vars
    <2>. QED BY <1>0, <2>1, AuthStep
  <1>3. AuthInv => KeptAsSet
    BY <1>0, AuthKept DEF KeptAsSet
  <1>. QED BY <1>1, <1>2, <1>3, PTL DEF MCSpec

\* The constants have none of the values that stand for something else.
Apart == /\ None \notin Ids /\ 0 \notin Calls /\ 0 \notin Sockets
         /\ QrLimit \in Nat /\ MaxLosses \in Nat /\ DelInstance \in BOOLEAN

Rows == [row : Ids \cup {None}, status : States, creds : [Ids -> Creds]]
Objects == [state : States, qrs : 0..QrLimit, ended : BOOLEAN,
            auth : Sockets \cup {0}, client : Sockets \cup {0}]
SocketRecords == [of : Ids \cup {None}, stage : Stages, creds : Creds]

\* The tasks that are about one object.
OfId == {"insert", "settings", "purge", "drop", "logout", "logout_delete", "forget",
         "forget_delete", "load", "socket", "refuse", "closing", "write_connecting",
         "write_open", "save_fresh", "save_paired"}

TaskOK(t) == t \in Tasks /\ (t.op \in OfId => t.id \in Ids)
TasksOK == \A t \in tasks : TaskOK(t)

SocketsOK == \A s \in Sockets : sock[s].stage # "unused" => sock[s].of \in Ids

(* The sockets an object holds are its own.                                 *)
Owned == \A i \in Ids : /\ inst[i].auth # 0 => sock[inst[i].auth].of = i
                        /\ inst[i].client # 0 => sock[inst[i].client].of = i

LifeTypes == TypeOK /\ TasksOK /\ SocketsOK /\ Owned

(* A task is of its kind.                                                   *)
LEMMA NewTask ==
  /\ \A op \in OfId, id \in Ids, by \in {0} \cup Calls \cup Sockets : TaskOK(T(op, id, by))
  /\ \A op \in Ops \ OfId, by \in {0} \cup Calls \cup Sockets : TaskOK(T(op, None, by))
<1>1. OfId \subseteq Ops
  BY DEF OfId, Ops
<1>. QED BY <1>1 DEF TaskOK, T, Tasks

(* What has no object of its own.                                           *)
LEMMA Nameless ==
  {"lookup", "remove", "cleanup", "find", "no_connection", "logout_event", "timer"}
     \subseteq Ops \ OfId
BY DEF OfId, Ops

(* A handler that goes on.                                                  *)
LEMMA TasksBecome ==
  ASSUME TasksOK, NEW t, NEW new, Becomes(t, new), \A u \in new : TaskOK(u)
  PROVE  TasksOK'
BY DEF TasksOK, Becomes, TaskOK, Tasks, OfId, Ops

(* A handler that begins.                                                   *)
LEMMA TasksBegin ==
  ASSUME TasksOK, NEW u, tasks' = tasks \cup {u}, TaskOK(u)
  PROVE  TasksOK'
BY DEF TasksOK, TaskOK, Tasks, OfId, Ops

(* The types with the tasks' own put aside.                                 *)
Rest ==
  /\ registry \in Ids \cup {None} /\ db \in Rows
  /\ inst \in [Ids -> Objects] /\ sock \in [Sockets -> SocketRecords]
  /\ armed \in BOOLEAN /\ done \subseteq Calls /\ losses \in 0..MaxLosses
  /\ SocketsOK /\ Owned

(* The types are those of the tasks and of the rest.                        *)
LEMMA RestTyped == LifeTypes <=> Rest /\ TasksOK
<1>1. TasksOK => tasks \in SUBSET Tasks
  BY DEF TasksOK, TaskOK
<1>. QED BY <1>1 DEF LifeTypes, Rest, TypeOK, Rows, Objects, SocketRecords

(* One socket goes on to a stage.                                           *)
LEMMA StageMoves ==
  ASSUME sock \in [Sockets -> SocketRecords], SocketsOK, NEW s \in Sockets,
         NEW st \in Stages, sock[s].stage # "unused",
         sock' = [sock EXCEPT ![s].stage = st]
  PROVE  /\ sock' \in [Sockets -> SocketRecords] /\ SocketsOK'
         /\ \A r \in Sockets : /\ sock'[r].of = sock[r].of /\ sock'[r].creds = sock[r].creds
                               /\ sock'[r].stage = IF r = s THEN st ELSE sock[r].stage
<1>1. \A r \in Sockets : /\ sock'[r].of = sock[r].of /\ sock'[r].creds = sock[r].creds
                         /\ sock'[r].stage = IF r = s THEN st ELSE sock[r].stage
  BY DEF SocketRecords
<1>2. sock' \in [Sockets -> SocketRecords]
  BY DEF SocketRecords
<1>3. SocketsOK'
  BY <1>1 DEF SocketsOK
<1>. QED BY <1>1, <1>2, <1>3

(* What client.end() does.                                                  *)
LEMMA EndMoves ==
  ASSUME Apart, sock \in [Sockets -> SocketRecords], SocketsOK,
         NEW s \in Sockets \cup {0}, NEW why \in {"lost", "out"},
         sock' = End(sock, s, why)
  PROVE  /\ sock' \in [Sockets -> SocketRecords] /\ SocketsOK'
         /\ \A r \in Sockets :
              /\ sock'[r].of = sock[r].of /\ sock'[r].creds = sock[r].creds
              /\ sock'[r].stage = IF r = s /\ Live(s) THEN why ELSE sock[r].stage
<1>1. CASE s # 0 /\ Live(s)
  <2>1. s \in Sockets /\ sock[s].stage # "unused" /\ why \in Stages
    BY <1>1 DEF Live, Stages
  <2>2. sock' = [sock EXCEPT ![s].stage = why]
    BY <1>1 DEF End
  <2>. QED BY <1>1, <2>1, <2>2, StageMoves
<1>2. CASE ~(s # 0 /\ Live(s))
  <2>1. sock' = sock
    BY <1>2 DEF End
  <2>2. \A r \in Sockets : ~(r = s /\ Live(s))
    BY <1>2 DEF Apart
  <2>. QED BY <2>1, <2>2 DEF SocketsOK
<1>. QED BY <1>1, <1>2

(* What objects hold stays their own while no socket changes hands.         *)
LEMMA OwnedStays ==
  ASSUME Rest, Apart,
         \A r \in Sockets : sock'[r].of = sock[r].of,
         \A i \in Ids : inst'[i].auth = inst[i].auth /\ inst'[i].client = inst[i].client
  PROVE  Owned'
BY DEF Owned, Rest, Objects

(* Steps that leave the objects and the sockets alone.                      *)
LEMMA RestStays ==
  ASSUME Rest, UNCHANGED <<inst, sock>>,
         registry' \in Ids \cup {None}, db' \in Rows, armed' \in BOOLEAN,
         done' \subseteq Calls, losses' \in 0..MaxLosses
  PROVE  Rest'
BY DEF Rest, SocketsOK, Owned

(* A new task of an API request.                                            *)
LEMMA CallTypes ==
  ASSUME Apart, LifeTypes, NEW c \in Calls, CallStep(c)
  PROVE  LifeTypes'
<1>0. Rest /\ TasksOK
  BY RestTyped
<1>1. done' \subseteq Calls
  BY <1>0 DEF CallStep, Create, Connect, Restart, Logout, Delete, Request, Rest
<1>2. CASE Create(c)
  <2>1. TaskOK(T("lookup", None, c))
    BY NewTask, Nameless DEF OfId
  <2>2. TasksOK'
    BY <1>0, <1>2, <2>1, TasksBegin DEF Create
  <2>3. Rest'
    BY <1>0, <1>1, <1>2, RestStays DEF Create, Rest
  <2>. QED BY <2>2, <2>3, RestTyped, PTL
<1>3. CASE Connect(c) \/ Logout(c)
  <2>1. registry \in Ids
    BY <1>0, <1>3 DEF Connect, Logout, Rest
  <2>2. TaskOK(T("load", registry, c)) /\ TaskOK(T("logout", registry, c))
    BY <2>1, NewTask, Nameless DEF OfId
  <2>3. TasksOK'
    BY <1>0, <1>3, <2>2, TasksBegin DEF Connect, Logout
  <2>4. Rest'
    BY <1>0, <1>1, <1>3, RestStays DEF Connect, Logout, Rest
  <2>. QED BY <2>3, <2>4, RestTyped, PTL
<1>4. CASE Restart(c)
  <2>1. registry \in Ids
    BY <1>0, <1>4 DEF Restart, Rest
  <2>2. inst[registry].client \in Sockets \cup {0}
    BY <1>0, <2>1 DEF Rest, Objects
  <2>3. /\ sock' \in [Sockets -> SocketRecords] /\ SocketsOK'
        /\ \A r \in Sockets : sock'[r].of = sock[r].of
    BY <1>0, <1>4, <2>2, EndMoves DEF Restart, Rest
  <2>4. Owned'
    BY <1>0, <1>4, <2>3, OwnedStays DEF Restart
  <2>5. Rest' /\ TasksOK'
    BY <1>0, <1>1, <1>4, <2>3, <2>4 DEF Restart, Rest, TasksOK
  <2>. QED BY <2>5, RestTyped, PTL
<1>5. CASE Delete(c)
  <2>1. TaskOK(T("remove", None, c))
    BY NewTask, Nameless DEF OfId
  <2>2. registry # None => TaskOK(T("logout_delete", registry, c))
    BY <1>0, NewTask DEF OfId, Rest
  <2>3. TasksOK'
    <3>1. CASE registry # None /\ State # "close"
      BY <1>0, <1>5, <2>2, <3>1, TasksBegin DEF Delete
    <3>2. CASE ~(registry # None /\ State # "close")
      BY <1>0, <1>5, <2>1, <3>2, TasksBegin DEF Delete
    <3>. QED BY <3>1, <3>2
  <2>4. Rest'
    BY <1>0, <1>1, <1>5, RestStays DEF Delete, Rest
  <2>. QED BY <2>3, <2>4, RestTyped, PTL
<1>. QED BY <1>2, <1>3, <1>4, <1>5 DEF CallStep

(* The steps of POST /instance/create.                                      *)
LEMMA CreateTypes ==
  ASSUME Apart, LifeTypes, NEW t \in tasks,
         CreateLookup(t) \/ CreateInsert(t) \/ CreateSettings(t)
  PROVE  LifeTypes'
<1>0. Rest /\ TasksOK /\ TaskOK(t)
  BY RestTyped DEF TasksOK
<1>1. t.by \in {0} \cup Calls \cup Sockets
  BY <1>0 DEF TaskOK, Tasks
<1>2. CASE CreateLookup(t)
  <2>1. \A i \in Ids : TaskOK(T("insert", i, t.by))
    BY <1>1, NewTask, Nameless DEF OfId
  <2>2. TasksOK'
    <3>1. CASE db.row # None
      BY <1>0, <1>2, <3>1, TasksBecome DEF CreateLookup
    <3>2. CASE db.row = None
      <4>1. PICK i \in Unknown : Becomes(t, {T("insert", i, t.by)})
        BY <1>2, <3>2 DEF CreateLookup
      <4>2. TaskOK(T("insert", i, t.by))
        BY <2>1, <4>1 DEF Unknown
      <4>. QED BY <1>0, <4>1, <4>2, TasksBecome
    <3>. QED BY <3>1, <3>2
  <2>3. Rest'
    BY <1>0, <1>2, RestStays DEF CreateLookup, Rest
  <2>. QED BY <2>2, <2>3, RestTyped, PTL
<1>3. CASE CreateInsert(t)
  <2>1. t.id \in Ids
    BY <1>0, <1>3 DEF CreateInsert, TaskOK, OfId
  <2>2. TaskOK(T("settings", t.id, t.by))
    BY <1>1, <2>1, NewTask, Nameless DEF OfId
  <2>3. TasksOK'
    BY <1>0, <1>3, <2>2, TasksBecome DEF CreateInsert
  <2>4. db' \in Rows
    BY <1>0, <1>3, <2>1 DEF CreateInsert, Rest, Rows, States
  <2>5. NewObject \in Objects
    BY DEF NewObject, Objects, States, Apart
  <2>6. inst' \in [Ids -> Objects]
    BY <1>0, <1>3, <2>5 DEF CreateInsert, Rest
  <2>7. \A i \in Ids : inst'[i] = IF i = t.id THEN NewObject ELSE inst[i]
    BY <1>0, <1>3 DEF CreateInsert, Rest
  <2>8. Owned'
    BY <1>0, <1>3, <2>7 DEF Owned, Rest, NewObject, CreateInsert
  <2>9. SocketsOK'
    BY <1>0, <1>3 DEF Rest, SocketsOK, CreateInsert
  <2>10. Rest'
    BY <1>0, <1>3, <2>1, <2>4, <2>6, <2>8, <2>9 DEF CreateInsert, Rest, Apart
  <2>. QED BY <2>3, <2>10, RestTyped, PTL
<1>4. CASE CreateSettings(t)
  <2>1. t.id \in Ids
    BY <1>0, <1>4 DEF CreateSettings, TaskOK, OfId
  <2>2. TaskOK(T("remove", None, t.by)) /\ TaskOK(T("load", t.id, t.by))
    BY <1>1, <2>1, NewTask, Nameless DEF OfId
  <2>3. TasksOK'
    <3>1. CASE Becomes(t, {T("remove", None, t.by)})
      BY <1>0, <2>2, <3>1, TasksBecome
    <3>2. CASE Becomes(t, {})
      BY <1>0, <3>2, TasksBecome
    <3>3. CASE Becomes(t, {T("load", t.id, t.by)})
      BY <1>0, <2>2, <3>3, TasksBecome
    <3>. QED BY <1>4, <3>1, <3>2, <3>3 DEF CreateSettings
  <2>4. Rest'
    BY <1>0, <1>4, RestStays DEF CreateSettings, Rest
  <2>. QED BY <2>3, <2>4, RestTyped, PTL
<1>. QED BY <1>2, <1>3, <1>4

(* The steps that write the row and the session, or forget the entry.       *)
LEMMA RowTypes ==
  ASSUME Apart, LifeTypes, NEW t \in tasks,
         \/ ForgetCreds(t) \/ RemoveInstance(t) \/ LogoutEvent(t) \/ cleaningUp(t)
         \/ cleaningStoreData(t) \/ Store(t) \/ WriteStatus(t)
  PROVE  LifeTypes'
<1>0. Rest /\ TasksOK /\ TaskOK(t)
  BY RestTyped DEF TasksOK
<1>1. /\ t.by \in {0} \cup Calls \cup Sockets
      /\ t.op \in OfId => t.id \in Ids
      /\ t.id \in Ids \cup {None}
  BY <1>0 DEF TaskOK, Tasks
<1>2. /\ TaskOK(T("remove", None, t.by)) /\ TaskOK(T("cleanup", None, t.by))
      /\ TaskOK(T("find", None, t.by))
  BY <1>1, NewTask, Nameless DEF OfId
<1>3. db.row # None => TaskOK(T("purge", db.row, t.by)) /\ TaskOK(T("drop", db.row, t.by))
  <2>. HAVE db.row # None
  <2>1. db.row \in Ids
    BY <1>0 DEF Rest, Rows
  <2>. QED BY <1>1, <2>1, NewTask, Nameless DEF OfId
<1>4. TasksOK'
  <2>1. ASSUME NEW new, Becomes(t, new), \A u \in new : TaskOK(u)
        PROVE  TasksOK'
    BY <1>0, <2>1, TasksBecome
  <2>2. CASE ForgetCreds(t)
    BY <1>2, <2>1, <2>2 DEF ForgetCreds
  <2>3. CASE RemoveInstance(t)
    BY <1>2, <2>1, <2>3 DEF RemoveInstance
  <2>4. CASE LogoutEvent(t)
    BY <1>2, <2>1, <2>4 DEF LogoutEvent
  <2>5. CASE cleaningUp(t)
    BY <1>3, <2>1, <2>5 DEF cleaningUp
  <2>6. CASE cleaningStoreData(t)
    BY <1>3, <2>1, <2>6 DEF cleaningStoreData
  <2>7. CASE Store(t) \/ WriteStatus(t)
    BY <2>1, <2>7 DEF Store, WriteStatus
  <2>. QED BY <2>2, <2>3, <2>4, <2>5, <2>6, <2>7
<1>5. db' \in Rows
  <2>1. CASE ForgetCreds(t)
    BY <1>0, <2>1 DEF ForgetCreds, Rest, Rows, Creds
  <2>2. CASE RemoveInstance(t) \/ LogoutEvent(t)
    BY <1>0, <2>2 DEF RemoveInstance, LogoutEvent, Rest
  <2>3. CASE cleaningUp(t)
    BY <1>0, <2>3 DEF cleaningUp, Rest, Rows, Creds, States
  <2>4. CASE cleaningStoreData(t)
    BY <1>0, <2>4 DEF cleaningStoreData, Rest, Rows, Creds, States
  <2>5. CASE Store(t)
    BY <1>0, <2>5 DEF Store, SaveCreds, Rest, Rows, Creds
  <2>6. CASE WriteStatus(t)
    BY <1>0, <2>6 DEF WriteStatus, SetStatus, Rest, Rows, States
  <2>. QED BY <2>1, <2>2, <2>3, <2>4, <2>5, <2>6
<1>6. /\ UNCHANGED <<inst, sock, done, losses>>
      /\ registry' \in {registry, None} /\ armed' \in {armed, FALSE}
  BY DEF ForgetCreds, RemoveInstance, LogoutEvent, cleaningUp, cleaningStoreData, Store,
         WriteStatus
<1>7. Rest'
  BY <1>0, <1>5, <1>6, RestStays DEF Rest
<1>. QED BY <1>4, <1>7, RestTyped, PTL

(* The steps that end a socket of an object.                                *)
LEMMA EndTypes ==
  ASSUME Apart, LifeTypes, NEW t \in tasks,
         ClientLogout(t) \/ TimerLogout(t) \/ NoConnection(t) \/ Closing(t)
  PROVE  LifeTypes'
<1>0. Rest /\ TasksOK /\ TaskOK(t)
  BY RestTyped DEF TasksOK
<1>1. /\ t.by \in {0} \cup Calls \cup Sockets
      /\ t.op \in OfId => t.id \in Ids
  BY <1>0 DEF TaskOK, Tasks
<1>2. \A i \in Ids : inst[i].client \in Sockets \cup {0}
  BY <1>0 DEF Rest, Objects
<1>3. registry # None => registry \in Ids
  BY <1>0 DEF Rest
<1>4. /\ sock' \in [Sockets -> SocketRecords] /\ SocketsOK'
      /\ \A r \in Sockets : sock'[r].of = sock[r].of
  <2>1. ASSUME sock' = sock
        PROVE <1>4!:
    BY <1>0, <2>1 DEF Rest, SocketsOK
  <2>2. ASSUME NEW s \in Sockets \cup {0}, NEW why \in {"lost", "out"}, sock' = End(sock, s, why)
        PROVE <1>4!:
    BY <1>0, <2>2, EndMoves DEF Rest
  <2>3. CASE ClientLogout(t)
    <3>1. t.id \in Ids
      BY <1>1, <2>3 DEF ClientLogout, OfId
    <3>2. \/ sock' = sock
          \/ sock' = End(sock, inst[t.id].client, "out")
      BY <2>3 DEF ClientLogout
    <3>. QED BY <1>2, <2>1, <2>2, <3>1, <3>2
  <2>4. CASE TimerLogout(t) \/ NoConnection(t)
    <3>1. \/ sock' = sock
          \/ sock' = End(sock, IF registry = None THEN 0 ELSE inst[registry].client, "out")
      BY <2>4 DEF TimerLogout, NoConnection
    <3>. QED BY <1>2, <1>3, <2>1, <2>2, <3>1
  <2>5. CASE Closing(t)
    <3>1. t.id \in Ids
      BY <1>1, <2>5 DEF Closing, OfId
    <3>2. \/ sock' = sock
          \/ sock' = End(sock, inst[t.id].client, "lost")
      BY <2>5 DEF Closing
    <3>. QED BY <1>2, <2>1, <2>2, <3>1, <3>2
  <2>. QED BY <2>3, <2>4, <2>5
<1>5. /\ inst' \in [Ids -> Objects]
      /\ \A i \in Ids : inst'[i].auth = inst[i].auth /\ inst'[i].client = inst[i].client
  <2>1. CASE ClientLogout(t) \/ TimerLogout(t) \/ Closing(t)
    BY <1>0, <2>1 DEF ClientLogout, TimerLogout, Closing, Rest
  <2>2. CASE NoConnection(t)
    <3>1. CASE inst' = inst
      BY <1>0, <3>1 DEF Rest
    <3>2. CASE inst' = [inst EXCEPT ![registry].qrs = 0, ![registry].state = "close"]
      <4>1. \A i \in Ids : inst'[i] \in Objects /\ inst'[i].auth = inst[i].auth
                                                /\ inst'[i].client = inst[i].client
        BY <1>0, <3>2 DEF Rest, Objects, States, Apart
      <4>. QED BY <1>0, <3>2, <4>1 DEF Rest
    <3>. QED BY <2>2, <3>1, <3>2 DEF NoConnection
  <2>. QED BY <2>1, <2>2
<1>6. Owned'
  BY <1>0, <1>4, <1>5, OwnedStays
<1>7. db' \in Rows /\ UNCHANGED <<registry, armed, done, losses>>
  <2>1. CASE ClientLogout(t) \/ TimerLogout(t) \/ NoConnection(t)
    BY <1>0, <2>1 DEF ClientLogout, TimerLogout, NoConnection, Rest
  <2>2. CASE Closing(t)
    BY <1>0, <2>2 DEF Closing, Rest, Rows, States
  <2>. QED BY <2>1, <2>2
<1>8. TasksOK'
  <2>1. ASSUME NEW new, Becomes(t, new), \A u \in new : TaskOK(u)
        PROVE  TasksOK'
    BY <1>0, <2>1, TasksBecome
  <2>2. CASE ClientLogout(t)
    <3>1. t.id \in Ids
      BY <1>1, <2>2 DEF ClientLogout, OfId
    <3>2. TaskOK(T("forget", t.id, t.by)) /\ TaskOK(T("forget_delete", t.id, t.by))
      BY <1>1, <3>1, NewTask, Nameless DEF OfId
    <3>. QED BY <2>1, <2>2, <3>2 DEF ClientLogout
  <2>3. CASE TimerLogout(t)
    <3>1. TaskOK(T("remove", None, 0))
      BY NewTask, Nameless DEF OfId
    <3>. QED BY <2>1, <2>3, <3>1 DEF TimerLogout
  <2>4. CASE NoConnection(t)
    BY <2>1, <2>4 DEF NoConnection
  <2>5. CASE Closing(t)
    <3>1. TaskOK(T("logout_event", None, t.by))
      BY <1>1, NewTask, Nameless DEF OfId
    <3>. QED BY <2>1, <2>5, <3>1 DEF Closing
  <2>. QED BY <2>2, <2>3, <2>4, <2>5
<1>9. Rest'
  BY <1>0, <1>4, <1>5, <1>6, <1>7 DEF Rest
<1>. QED BY <1>8, <1>9, RestTyped, PTL

(* The tasks that begin without an object.                                  *)
LEMMA NamelessTasks ==
  \A by \in {0} \cup Calls \cup Sockets :
    /\ TaskOK(T("lookup", None, by)) /\ TaskOK(T("remove", None, by))
    /\ TaskOK(T("cleanup", None, by)) /\ TaskOK(T("find", None, by))
    /\ TaskOK(T("no_connection", None, by)) /\ TaskOK(T("logout_event", None, by))
    /\ TaskOK(T("timer", None, by))
BY NewTask, Nameless

(* A socket is prepared: it is free, so no object holds it.                 *)
LEMMA LoadTypes ==
  ASSUME Apart, LifeTypes, NEW t \in tasks, LoadCreds(t)
  PROVE  LifeTypes'
<1>0. Rest /\ TasksOK /\ TaskOK(t)
  BY RestTyped DEF TasksOK
<1>1. t.id \in Ids /\ t.by \in {0} \cup Calls \cup Sockets
  BY <1>0 DEF TaskOK, Tasks, LoadCreds, OfId
<1>. DEFINE c == IF db.creds[t.id] = "none" THEN "fresh" ELSE db.creds[t.id]
<1>2. c \in Creds
  BY <1>0, <1>1 DEF Rest, Rows, Creds
<1>3. PICK s \in Free :
        /\ sock' = [sock EXCEPT ![s] = [of |-> t.id, stage |-> "prepared", creds |-> c]]
        /\ inst' = [inst EXCEPT ![t.id].auth = s]
  BY DEF LoadCreds
<1>4. db' = SaveCreds(db, t.id, c) /\ Becomes(t, {T("socket", t.id, t.by)})
      /\ UNCHANGED <<registry, armed, done, losses>>
  BY DEF LoadCreds
<1>5. s \in Sockets /\ ~InUse(s)
  BY DEF Free
<1>. HIDE DEF c
<1>6. db' \in Rows
  BY <1>0, <1>1, <1>2, <1>4 DEF SaveCreds, Rest, Rows
<1>7. /\ sock' \in [Sockets -> SocketRecords]
      /\ \A r \in Sockets : sock'[r] = IF r = s THEN [of |-> t.id, stage |-> "prepared", creds |-> c]
                                       ELSE sock[r]
  <2>1. [of |-> t.id, stage |-> "prepared", creds |-> c] \in SocketRecords
    BY <1>1, <1>2 DEF SocketRecords, Stages
  <2>. QED BY <1>0, <1>3, <1>5, <2>1 DEF Rest
<1>8. /\ inst' \in [Ids -> Objects]
      /\ \A i \in Ids : inst'[i].client = inst[i].client
      /\ \A i \in Ids : inst'[i].auth = IF i = t.id THEN s ELSE inst[i].auth
  BY <1>0, <1>1, <1>3, <1>5 DEF Rest, Objects
<1>9. SocketsOK'
  BY <1>0, <1>1, <1>7 DEF SocketsOK, Rest
<1>10. Owned'
  <2>1. \A i \in Ids : inst[i].auth # s /\ inst[i].client # s
    BY <1>5 DEF InUse
  <2>2. \A i \in Ids : inst[i].auth \in Sockets \cup {0} /\ inst[i].client \in Sockets \cup {0}
    BY <1>0 DEF Rest, Objects
  <2>. QED BY <1>0, <1>5, <1>7, <1>8, <2>1, <2>2 DEF Owned, Rest
<1>11. TasksOK'
  <2>1. TaskOK(T("socket", t.id, t.by))
    BY <1>1, NewTask DEF OfId
  <2>. QED BY <1>0, <1>4, <2>1, TasksBecome
<1>12. Rest'
  BY <1>0, <1>4, <1>6, <1>7, <1>8, <1>9, <1>10 DEF Rest
<1>. QED BY <1>11, <1>12, RestTyped, PTL

(* What OpenSocket does to the sockets and objects.                         *)
LEMMA OpenMoves ==
  ASSUME Apart, LifeTypes, NEW t \in tasks, OpenSocket(t)
  PROVE  /\ t.id \in Ids /\ t.by \in {0} \cup Calls \cup Sockets
         /\ inst[t.id].auth \in Sockets => sock[inst[t.id].auth].of = t.id
         /\ \A r \in Sockets :
              IF r = inst[t.id].auth
              THEN sock'[r].of = t.id /\ sock'[r].creds = sock[r].creds /\ sock'[r].stage = "new"
              ELSE \/ sock'[r] = sock[r]
                   \/ r = inst[t.id].client /\ sock[r].stage = "closed" /\ sock'[r] = Unused
         /\ inst' \in [Ids -> Objects]
         /\ \A i \in Ids : inst'[i].auth = inst[i].auth
         /\ \A i \in Ids : inst'[i].client = IF i = t.id THEN inst[t.id].auth ELSE inst[i].client
<1>0. Rest /\ TasksOK /\ TaskOK(t)
  BY RestTyped DEF TasksOK
<1>1. t.id \in Ids /\ t.by \in {0} \cup Calls \cup Sockets
  BY <1>0 DEF TaskOK, Tasks, OpenSocket, OfId
<1>2. inst[t.id].auth \in Sockets => sock[inst[t.id].auth].of = t.id
  BY <1>0, <1>1 DEF Rest, Owned, Apart
<1>3. ASSUME NEW r \in Sockets
      PROVE  IF r = inst[t.id].auth
             THEN sock'[r].of = t.id /\ sock'[r].creds = sock[r].creds /\ sock'[r].stage = "new"
             ELSE \/ sock'[r] = sock[r]
                  \/ r = inst[t.id].client /\ sock[r].stage = "closed" /\ sock'[r] = Unused
  <2>1. CASE r = inst[t.id].auth
    <3>1. sock'[r] = [sock[r] EXCEPT !.stage = "new"]
      BY <2>1 DEF OpenSocket
    <3>2. sock[r] \in SocketRecords
      BY <1>0 DEF Rest
    <3>. QED BY <1>2, <2>1, <3>1, <3>2 DEF SocketRecords
  <2>2. CASE r # inst[t.id].auth
    BY <2>2 DEF OpenSocket
  <2>. QED BY <2>1, <2>2
<1>4. /\ inst' \in [Ids -> Objects]
      /\ \A i \in Ids : inst'[i].auth = inst[i].auth
      /\ \A i \in Ids : inst'[i].client = IF i = t.id THEN inst[t.id].auth ELSE inst[i].client
  <2>1. inst' = [inst EXCEPT ![t.id].ended = FALSE, ![t.id].client = inst[t.id].auth]
    BY DEF OpenSocket
  <2>2. inst[t.id].auth \in Sockets \cup {0}
    BY <1>0, <1>1 DEF Rest, Objects
  <2>3. \A i \in Ids : /\ inst'[i] \in Objects
                       /\ inst'[i].auth = inst[i].auth
                       /\ inst'[i].client = IF i = t.id THEN inst[t.id].auth ELSE inst[i].client
    BY ZenonT(40), <1>0, <1>1, <2>1, <2>2 DEF Rest, Objects
  <2>. QED BY <1>0, <2>1, <2>3 DEF Rest
<1>. QED BY <1>1, <1>2, <1>3, <1>4

(* The types hold after it.                                                 *)
LEMMA OpenTypes ==
  ASSUME Apart, LifeTypes, NEW t \in tasks, OpenSocket(t)
  PROVE  LifeTypes'
<1>0. Rest /\ TasksOK
  BY RestTyped
<1>1. t.id \in Ids
  BY OpenMoves
<1>2. ASSUME NEW r \in Sockets
      PROVE  \/ r = inst[t.id].auth /\ sock'[r].of = t.id
             \/ r # inst[t.id].auth /\ sock'[r] = sock[r]
             \/ r # inst[t.id].auth /\ r = inst[t.id].client /\ sock'[r] = Unused
  BY OpenMoves
<1>3. sock' \in [Sockets -> SocketRecords]
  <2>1. ASSUME NEW r \in Sockets
        PROVE  (IF r = inst[t.id].auth THEN [sock[inst[t.id].auth] EXCEPT !.stage = "new"]
                ELSE IF r = inst[t.id].client /\ sock[r].stage = "closed" THEN Unused
                ELSE sock[r]) \in SocketRecords
    BY <1>0 DEF Rest, SocketRecords, Stages, Unused, Creds
  <2>. QED BY <2>1 DEF OpenSocket
<1>4. SocketsOK'
  <2>1. ASSUME NEW r \in Sockets, sock'[r].stage # "unused" PROVE sock'[r].of \in Ids
    <3>1. Unused.stage = "unused"
      BY DEF Unused
    <3>. QED BY <1>0, <1>1, <1>2, <2>1, <3>1 DEF Rest, SocketsOK
  <2>. QED BY <2>1 DEF SocketsOK
<1>5. Owned'
  <2>1. \A i \in Ids : inst[i].auth \in Sockets \cup {0} /\ inst[i].client \in Sockets \cup {0}
    BY <1>0 DEF Rest, Objects
  <2>2. /\ \A i \in Ids : inst'[i].auth = inst[i].auth
        /\ \A i \in Ids : inst'[i].client = IF i = t.id THEN inst[t.id].auth ELSE inst[i].client
    BY OpenMoves
  <2>3. \A i \in Ids : inst[i].auth # 0 => /\ inst[i].auth \in Sockets
                                           /\ sock[inst[i].auth].of = i
    BY <1>0, <2>1 DEF Rest, Owned
  <2>4. \A i \in Ids : inst[i].client # 0 => /\ inst[i].client \in Sockets
                                             /\ sock[inst[i].client].of = i
    BY <1>0, <2>1 DEF Rest, Owned
  <2>5. ASSUME NEW i \in Ids, inst[i].auth # 0 PROVE sock'[inst[i].auth].of = i
    BY <1>1, <1>2, <2>3, <2>4, <2>5 DEF Apart
  <2>6. ASSUME NEW i \in Ids, i # t.id, inst[i].client # 0 PROVE sock'[inst[i].client].of = i
    BY <1>1, <1>2, <2>3, <2>4, <2>6 DEF Apart
  <2>. QED BY <2>2, <2>5, <2>6 DEF Owned
<1>6. registry' \in Ids \cup {None} /\ UNCHANGED <<db, armed, done, losses>> /\ Becomes(t, {})
  BY <1>0, <1>1 DEF OpenSocket, Rest
<1>7. TasksOK'
  BY <1>0, <1>6, TasksBecome
<1>8. inst' \in [Ids -> Objects]
  BY OpenMoves
<1>9. Rest'
  BY <1>0, <1>3, <1>4, <1>5, <1>6, <1>8 DEF Rest
<1>. QED BY <1>7, <1>9, RestTyped, PTL

(* What a step of a socket does to the sockets and objects.                 *)
LEMMA SocketMoves ==
  ASSUME Apart, LifeTypes, NEW s \in Sockets, SocketStep(s) \/ Qr(s) \/ Scan(s) \/ Drops(s)
  PROVE  /\ sock[s].of \in Ids
         /\ sock' \in [Sockets -> SocketRecords] /\ SocketsOK'
         /\ \A r \in Sockets : /\ sock'[r].of = sock[r].of
                               /\ r # s => sock'[r] = sock[r]
         /\ inst' \in [Ids -> Objects]
         /\ \A i \in Ids : inst'[i].auth = inst[i].auth /\ inst'[i].client = inst[i].client
<1>0. Rest
  BY RestTyped
<1>1. sock[s].stage # "unused"
  BY DEF SocketStep, SaysConnecting, Opens, Closes, Qr, Scan, Drops, Shaking
<1>2. sock[s].of \in Ids
  BY <1>0, <1>1 DEF Rest, SocketsOK
<1>3. /\ sock' \in [Sockets -> SocketRecords] /\ SocketsOK'
      /\ \A r \in Sockets : /\ sock'[r].of = sock[r].of
                            /\ r # s => sock'[r] = sock[r]
  <2>1. ASSUME NEW st \in Stages, sock' = [sock EXCEPT ![s].stage = st]
        PROVE  <1>3!:
    <3>1. \A r \in Sockets : r # s => sock'[r] = sock[r]
      BY <1>0, <2>1 DEF Rest
    <3>. QED BY <1>0, <1>1, <2>1, <3>1, StageMoves DEF Rest
  <2>2. CASE SocketStep(s) \/ Qr(s) \/ Drops(s)
    <3>1. \E st \in {"connecting", "open", "closed", "shown", "lost", "out"} :
            sock' = [sock EXCEPT ![s].stage = st]
      BY <2>2 DEF SocketStep, SaysConnecting, Opens, Closes, Qr, Drops
    <3>. QED BY <2>1, <3>1 DEF Stages
  <2>3. CASE Scan(s)
    <3>1. sock' = [sock EXCEPT ![s].creds = "paired", ![s].stage = "lost"]
      BY <2>3 DEF Scan
    <3>2. \A r \in Sockets : /\ sock'[r] \in SocketRecords /\ sock'[r].of = sock[r].of
                             /\ r # s => sock'[r] = sock[r]
      BY <1>0, <3>1 DEF Rest, SocketRecords, Stages, Creds
    <3>3. sock' \in [Sockets -> SocketRecords]
      BY <1>0, <3>1, <3>2 DEF Rest
    <3>4. SocketsOK'
      BY <1>0, <1>2, <3>2 DEF Rest, SocketsOK
    <3>. QED BY <3>2, <3>3, <3>4
  <2>. QED BY <2>2, <2>3
<1>4. /\ inst' \in [Ids -> Objects]
      /\ \A i \in Ids : inst'[i].auth = inst[i].auth /\ inst'[i].client = inst[i].client
  <2>1. CASE SocketStep(s)
    <3>1. \E st \in States : SetState(sock[s].of, st)
      BY <2>1 DEF SocketStep, SaysConnecting, Opens, Closes, States
    <3>. QED BY <1>0, <1>2, <3>1 DEF SetState, Rest, Objects
  <2>2. CASE Qr(s)
    <3>1. \/ inst' = inst
          \/ /\ inst[sock[s].of].qrs # QrLimit
             /\ inst' = [inst EXCEPT ![sock[s].of].qrs = inst[sock[s].of].qrs + 1]
      BY <2>2 DEF Qr
    <3>2. inst[sock[s].of].qrs # QrLimit => inst[sock[s].of].qrs + 1 \in 0..QrLimit
      BY <1>0, <1>2 DEF Rest, Objects, Apart
    <3>. QED BY <1>0, <1>2, <3>1, <3>2 DEF Rest, Objects
  <2>3. CASE Scan(s) \/ Drops(s)
    BY <1>0, <2>3 DEF Scan, Drops, Rest
  <2>. QED BY <2>1, <2>2, <2>3
<1>. QED BY <1>2, <1>3, <1>4

(* What a step of a socket leaves to be done.                               *)
LEMMA SocketTasks ==
  ASSUME NEW s \in Sockets, SocketStep(s) \/ Qr(s) \/ Scan(s) \/ Drops(s)
  PROVE  \/ tasks' = tasks
         \/ \E op \in {"load", "closing", "save_fresh", "save_paired", "refuse",
                       "write_connecting", "write_open"} : tasks' = tasks \cup {T(op, sock[s].of, s)}
<1>1. CASE SocketStep(s)
  BY <1>1 DEF SocketStep, SaysConnecting, Opens, Closes, Leaves
<1>2. CASE Qr(s)
  BY <1>2 DEF Qr
<1>3. CASE Scan(s)
  BY <1>3 DEF Scan, Leaves
<1>4. CASE Drops(s)
  BY <1>4 DEF Drops
<1>. QED BY <1>1, <1>2, <1>3, <1>4

(* The types hold after a step of a socket.                                 *)
LEMMA SocketTypes ==
  ASSUME Apart, LifeTypes, NEW s \in Sockets, SocketStep(s) \/ Qr(s) \/ Scan(s) \/ Drops(s)
  PROVE  LifeTypes'
<1>0. Rest /\ TasksOK
  BY RestTyped
<1>1. Owned'
  BY <1>0, SocketMoves, OwnedStays
<1>2. UNCHANGED <<registry, db, armed, done>> /\ losses' \in 0..MaxLosses
  <2>1. UNCHANGED <<registry, db, armed, done>>
    BY DEF SocketStep, SaysConnecting, Opens, Closes, Qr, Scan, Drops
  <2>2. losses' = losses \/ (losses < MaxLosses /\ losses' = losses + 1)
    BY DEF SocketStep, SaysConnecting, Opens, Closes, Qr, Scan, Drops
  <2>. QED BY <1>0, <2>1, <2>2 DEF Rest, Apart
<1>3. Rest'
  BY <1>0, <1>1, <1>2, SocketMoves DEF Rest
<1>4. TasksOK'
  <2>1. ASSUME tasks' = tasks PROVE TasksOK'
    BY <1>0, <2>1 DEF TasksOK
  <2>2. ASSUME NEW op \in OfId, tasks' = tasks \cup {T(op, sock[s].of, s)}
        PROVE  TasksOK'
    <3>1. TaskOK(T(op, sock[s].of, s))
      BY SocketMoves, NewTask
    <3>. QED BY <1>0, <2>2, <3>1, TasksBegin
  <2>. QED BY <2>1, <2>2, SocketTasks DEF OfId
<1>. QED BY <1>3, <1>4, RestTyped, PTL

(* The rest of a refusal.                                                   *)
LEMMA RefuseTypes ==
  ASSUME Apart, LifeTypes, NEW t \in tasks, Refuse(t)
  PROVE  LifeTypes'
<1>0. Rest /\ TasksOK /\ TaskOK(t)
  BY RestTyped DEF TasksOK
<1>1. t.by \in {0} \cup Calls \cup Sockets /\ t.id \in Ids
  BY <1>0 DEF TaskOK, Tasks, Refuse, OfId
<1>2. TasksOK'
  BY <1>0, <1>1, NamelessTasks, TasksBecome DEF Refuse
<1>3. /\ inst' \in [Ids -> Objects]
      /\ \A i \in Ids : inst'[i].auth = inst[i].auth /\ inst'[i].client = inst[i].client
  BY ZenonT(40), <1>0, <1>1 DEF Refuse, Rest, Objects
<1>4. UNCHANGED <<registry, db, sock, armed, done, losses>>
  BY DEF Refuse
<1>5. Owned'
  BY <1>0, <1>3, <1>4, OwnedStays
<1>6. SocketsOK'
  BY <1>0, <1>4 DEF Rest, SocketsOK
<1>7. Rest'
  BY <1>0, <1>3, <1>4, <1>5, <1>6 DEF Rest
<1>. QED BY <1>2, <1>7, RestTyped, PTL

(* The types hold after the timer.                                          *)
LEMMA TimerTypes == ASSUME Apart, LifeTypes, TimerFires PROVE LifeTypes'
<1>0. Rest /\ TasksOK
  BY RestTyped
<1>1. TaskOK(T("timer", None, 0)) /\ TaskOK(T("remove", None, 0))
  BY NamelessTasks
<1>2. \/ tasks' = tasks
      \/ tasks' = tasks \cup {T("timer", None, 0)}
      \/ tasks' = tasks \cup {T("remove", None, 0)}
  BY DEF TimerFires
<1>3. TasksOK'
  <2>1. CASE tasks' = tasks
    BY <1>0, <2>1 DEF TasksOK
  <2>2. CASE tasks' = tasks \cup {T("timer", None, 0)}
    BY <1>0, <1>1, <2>2, TasksBegin
  <2>3. CASE tasks' = tasks \cup {T("remove", None, 0)}
    BY <1>0, <1>1, <2>3, TasksBegin
  <2>. QED BY <1>2, <2>1, <2>2, <2>3
<1>4. Rest'
  BY <1>0, RestStays DEF TimerFires, Rest
<1>. QED BY <1>3, <1>4, RestTyped, PTL

(* The process as it starts.                                                *)
LEMMA BootTypes ==
  ASSUME Apart, db \in Rows
  PROVE  /\ Boot(db).registry \in Ids \cup {None}
         /\ \A u \in Boot(db).tasks : TaskOK(u)
         /\ [i \in Ids |-> NewObject] \in [Ids -> Objects]
         /\ [s \in Sockets |-> Unused] \in [Sockets -> SocketRecords]
<1>1. db.row \in Ids \cup {None}
  BY DEF Rows
<1>2. db.row # None => TaskOK(T("load", db.row, 0))
  BY <1>1, NewTask DEF OfId
<1>3. NewObject \in Objects /\ Unused \in SocketRecords
  BY DEF NewObject, Objects, States, Unused, SocketRecords, Stages, Creds, Apart
<1>. QED BY <1>1, <1>2, <1>3 DEF Boot

(* The types hold after a restart.                                          *)
LEMMA RebootTypes == ASSUME Apart, LifeTypes, Reboot PROVE LifeTypes'
<1>0. Rest /\ TasksOK
  BY RestTyped
<1>1. db \in Rows
  BY <1>0 DEF Rest
<1>2. TasksOK'
  BY <1>1, BootTypes DEF Reboot, TasksOK, TaskOK, Tasks, OfId, Ops
<1>3. SocketsOK' /\ Owned'
  BY DEF Reboot, SocketsOK, Owned, Unused, NewObject
<1>4. losses' \in 0..MaxLosses
  BY <1>0 DEF Reboot, Rest, Apart
<1>5. Rest'
  BY <1>0, <1>1, <1>3, <1>4, BootTypes DEF Reboot, Rest
<1>. QED BY <1>2, <1>5, RestTyped, PTL

(* The types hold at first.                                                 *)
LEMMA InitTypes == ASSUME Apart, Init PROVE LifeTypes
<1>1. db \in Rows
  <2>1. PICK r \in Ids \cup {None}, c \in {"none", "paired"} :
          db = [row |-> r, status |-> IF c = "paired" THEN "open" ELSE "close",
                creds |-> [i \in Ids |-> IF i = r THEN c ELSE "none"]]
    BY DEF Init
  <2>. QED BY <2>1 DEF Rows, States, Creds
<1>2. TasksOK
  BY <1>1, BootTypes DEF Init, TasksOK
<1>3. SocketsOK /\ Owned
  BY DEF Init, SocketsOK, Owned, Unused, NewObject
<1>4. registry \in Ids \cup {None}
  BY <1>1, BootTypes DEF Init
<1>5. inst \in [Ids -> Objects] /\ sock \in [Sockets -> SocketRecords]
  BY <1>1, BootTypes DEF Init
<1>6. armed \in BOOLEAN /\ done \subseteq Calls /\ losses \in 0..MaxLosses
  <2>1. armed = FALSE /\ done = {} /\ losses = 0
    BY DEF Init
  <2>2. losses \in 0..MaxLosses
    BY <2>1 DEF Apart
  <2>3. armed \in BOOLEAN
    BY <2>1
  <2>. QED BY <2>1, <2>2, <2>3
<1>7. Rest
  BY <1>1, <1>3, <1>4, <1>5, <1>6 DEF Rest
<1>. QED BY <1>2, <1>7, RestTyped

(* The types, and whose the sockets and tasks are.                          *)
LEMMA TypesStep == ASSUME Apart, LifeTypes, [Next]_vars PROVE LifeTypes'
<1>1. CASE UNCHANGED vars
  BY <1>1 DEF vars, LifeTypes, TypeOK, TasksOK, SocketsOK, Owned
<1>2. CASE Next
  <2>1. CASE \E c \in Calls : CallStep(c)
    BY <2>1, CallTypes
  <2>2. CASE \E t \in tasks : TaskStep(t)
    BY <2>2, CreateTypes, RowTypes, EndTypes, LoadTypes, OpenTypes, RefuseTypes
       DEF TaskStep
  <2>3. CASE \E s \in Sockets : SocketStep(s) \/ Qr(s) \/ Scan(s) \/ Drops(s)
    BY <2>3, SocketTypes
  <2>. QED BY <1>2, <2>1, <2>2, <2>3, TimerTypes, RebootTypes DEF Next
<1>. QED BY <1>1, <1>2

Creation == {"lookup", "insert", "settings"}
Deletion == {"remove", "find", "drop", "timer", "logout_delete", "forget_delete"}

\* The process connects the instance it found when it started.
Starting(t) == t.op \in {"load", "socket"} /\ t.by = 0

StartsAlone ==
  \A t \in tasks : Starting(t) =>
    /\ tasks = {t} /\ registry = None /\ db.row = t.id /\ ~armed
    /\ \A s \in Sockets : sock[s].stage \in {"unused", "prepared"}

OneCreates == \A t, u \in tasks : t.op \in Creation /\ u.op \in Creation => t = u
NoneYet == \A t \in tasks : t.op \in {"lookup", "insert"} => registry = None /\ db.row = None
EitherOr == \A t, u \in tasks : ~(t.op \in Creation /\ u.op \in Deletion)
Gone == \A t \in tasks : t.op \in {"find", "drop"} => registry = None

(* The entry and the row are of one instance, save where a deletion has     *)
(* the row still before it, or the process the entry.                       *)
Matches == \/ registry = db.row
           \/ registry = None /\ \E t \in tasks : t.op \in {"find", "drop"}
           \/ \E t \in tasks : Starting(t)

Asked == \A t \in tasks : t.op \in Creation => t.by # 0

NameInv == StartsAlone /\ Asked /\ OneCreates /\ NoneYet /\ EitherOr /\ Gone /\ Matches

(* A step that begins no creation, and a deletion only where none is made   *)
(* or one is at work.                                                       *)
LEMMA DeletionGoes ==
  ASSUME NameInv, \A t \in tasks : ~Starting(t),
         \A u \in tasks' : u \in tasks \/ (~Starting(u) /\ u.op \notin Creation),
         \A u \in tasks' : u \in tasks \/ u.op \notin Deletion
                           \/ (\E t \in tasks : t.op \in Deletion)
                           \/ (\A w \in tasks' : w.op \notin Creation),
         \A u \in tasks' : u \in tasks \/ u.op \notin {"find", "drop"} \/ registry' = None,
         registry' \in {registry, None}, db'.row \in {db.row, None},
         registry' = db'.row \/ (registry' = None /\ \E t \in tasks' : t.op \in {"find", "drop"})
  PROVE  NameInv'
<1>. USE DEF NameInv
<1>1. StartsAlone'
  <2>1. \A u \in tasks' : ~Starting(u)
    OBVIOUS
  <2>. QED BY <2>1 DEF StartsAlone, Starting
<1>2. OneCreates'
  BY DEF OneCreates
<1>3. NoneYet'
  BY DEF NoneYet, Creation
<1>4. EitherOr'
  BY DEF EitherOr
<1>5. Gone'
  BY DEF Gone
<1>6. Matches'
  BY DEF Matches
<1>7. Asked'
  BY DEF Asked
<1>. QED BY <1>1, <1>2, <1>3, <1>4, <1>5, <1>6, <1>7

(* A step that leaves the entry and the row alone and begins neither.       *)
LEMMA NameStays ==
  ASSUME NameInv, \A t \in tasks : ~Starting(t), UNCHANGED registry, db'.row = db.row,
         \A u \in tasks' : u \in tasks \/ (~Starting(u) /\ u.op \notin Creation \cup Deletion),
         \A u \in tasks : u.op \in {"find", "drop"} => u \in tasks'
  PROVE  NameInv'
<1>1. registry = db.row \/ (registry = None /\ \E t \in tasks : t.op \in {"find", "drop"})
  BY DEF NameInv, Matches
<1>2. registry' = db'.row \/ (registry' = None /\ \E t \in tasks' : t.op \in {"find", "drop"})
  BY <1>1
<1>3. \A u \in tasks' : u \in tasks \/ u.op \notin {"find", "drop"}
  BY DEF Deletion
<1>. QED BY <1>2, <1>3, DeletionGoes

(* While the process starts nothing else goes on.                           *)
LEMMA NothingElse ==
  ASSUME LifeTypes, NameInv, "name" \notin Overlaps, Apart, NEW t \in tasks, Starting(t)
  PROVE  /\ \A c \in Calls : ~CallStep(c)
         /\ \A s \in Sockets : ~(SocketStep(s) \/ Qr(s) \/ Scan(s) \/ Drops(s))
         /\ ~TimerFires
         /\ \A u \in tasks : TaskStep(u) => u = t /\ (LoadCreds(t) \/ OpenSocket(t))
<1>1. /\ tasks = {t} /\ registry = None /\ ~armed /\ t.op \in {"load", "socket"}
      /\ \A s \in Sockets : sock[s].stage \in {"unused", "prepared"}
  BY DEF NameInv, StartsAlone, Starting
<1>2. Loading
  BY <1>1 DEF Loading, Pending
<1>3. \A c \in Calls : ~CallStep(c)
  BY <1>1, <1>2 DEF CallStep, Create, Connect, Restart, Logout, Delete, Unless
<1>4. \A s \in Sockets : ~(SocketStep(s) \/ Qr(s) \/ Scan(s) \/ Drops(s))
  BY <1>1 DEF SocketStep, SaysConnecting, Opens, Closes, Qr, Scan, Drops, Shaking
<1>5. ~TimerFires
  BY <1>1 DEF TimerFires
<1>6. ASSUME NEW u \in tasks, TaskStep(u)
      PROVE  u = t /\ (LoadCreds(t) \/ OpenSocket(t))
  BY <1>1, <1>6 DEF TaskStep, CreateLookup, CreateInsert, CreateSettings, ClientLogout,
         ForgetCreds,
     RemoveInstance, LogoutEvent, cleaningUp, cleaningStoreData, NoConnection,
     TimerLogout,
     Refuse, Store, WriteStatus, Closing
<1>. QED BY <1>3, <1>4, <1>5, <1>6

(* What the process does as it starts.                                      *)
LEMMA StartsStep ==
  ASSUME Apart, LifeTypes, NameInv, NEW t \in tasks, Starting(t), LoadCreds(t) \/ OpenSocket(t)
  PROVE  NameInv'
<1>1. /\ tasks = {t} /\ registry = None /\ ~armed /\ t.by = 0 /\ db.row = t.id
      /\ \A s \in Sockets : sock[s].stage \in {"unused", "prepared"}
  BY DEF NameInv, StartsAlone, Starting
<1>2. CASE LoadCreds(t)
  <2>1. tasks' = {T("socket", t.id, 0)} /\ UNCHANGED <<registry, armed>>
    BY <1>1, <1>2 DEF LoadCreds, Becomes
  <2>2. db'.row = db.row
    BY <1>2, RestTyped DEF LoadCreds, SaveCreds, Rest, Rows
  <2>3. \A s \in Sockets : sock'[s].stage \in {"unused", "prepared"}
    BY <1>1, <1>2, RestTyped DEF LoadCreds, Rest
  <2>4. T("socket", t.id, 0).op = "socket" /\ T("socket", t.id, 0).id = t.id
        /\ T("socket", t.id, 0).by = 0
    BY DEF T
  <2>5. Starting(T("socket", t.id, 0))
    BY <2>4 DEF Starting
  <2>6. StartsAlone'
    BY <1>1, <2>1, <2>2, <2>3, <2>4 DEF StartsAlone
  <2>7. Matches'
    BY <2>1, <2>5 DEF Matches, Starting
  <2>8. OneCreates' /\ NoneYet' /\ EitherOr' /\ Gone' /\ Asked'
    BY <2>1, <2>4 DEF OneCreates, NoneYet, EitherOr, Gone, Asked, Creation
  <2>. QED BY <2>6, <2>7, <2>8 DEF NameInv
<1>3. CASE OpenSocket(t)
  <2>1. tasks' = {} /\ registry' = t.id /\ db' = db
    BY <1>1, <1>3 DEF OpenSocket, Becomes
  <2>. QED BY <1>1, <2>1 DEF NameInv, StartsAlone, Asked, OneCreates, NoneYet, EitherOr,
                  Gone,
         Matches
<1>. QED BY <1>2, <1>3

(* The requests.                                                            *)
LEMMA CallName ==
  ASSUME Apart, LifeTypes, NameInv, "name" \notin Overlaps, NEW c \in Calls, CallStep(c)
  PROVE  NameInv'
<1>1. \A t \in tasks : ~Starting(t)
  BY NothingElse
<1>2. UNCHANGED <<registry, db>> /\ c # 0
  BY DEF CallStep, Create, Connect, Restart, Logout, Delete, Apart
<1>3. CASE Create(c)
  <2>1. tasks' = tasks \cup {T("lookup", None, c)} /\ registry = None /\ ~Creating /\ ~Ending
    BY <1>3 DEF Create, Unless
  <2>2. \A t \in tasks : t.op \notin Creation /\ t.op \notin Deletion
    BY <2>1 DEF Creating, Ending, Pending, Creation, Deletion
  <2>3. registry = db.row
    BY <1>1, <2>2 DEF NameInv, Matches, Deletion
  <2>4. T("lookup", None, c).op = "lookup"
    BY DEF T
  <2>5. StartsAlone'
    BY <1>1, <2>1, <2>4 DEF StartsAlone, Starting
  <2>6. OneCreates' /\ EitherOr'
    BY <2>1, <2>2, <2>4 DEF OneCreates, EitherOr, Creation, Deletion
  <2>7. NoneYet' /\ Matches' /\ Gone'
    BY <1>2, <2>1, <2>3 DEF NoneYet, Matches, Gone
  <2>8. T("lookup", None, c).by = c
    BY DEF T
  <2>9. Asked'
    BY <1>2, <2>1, <2>8 DEF NameInv, Asked
  <2>. QED BY <2>5, <2>6, <2>7, <2>9 DEF NameInv
<1>4. CASE Connect(c) \/ Restart(c) \/ Logout(c)
  <2>1. tasks \subseteq tasks'
        /\ \A u \in tasks' : u \in tasks \/ u.op = "logout" \/ (u.op = "load" /\ u.by = c)
    BY <1>4 DEF Connect, Restart, Logout, T
  <2>2. \A u \in tasks' : u \in tasks \/ (~Starting(u) /\ u.op \notin Creation \cup Deletion)
    BY <1>2, <2>1 DEF Starting, Creation, Deletion
  <2>. QED BY <1>1, <1>2, <2>1, <2>2, NameStays
<1>5. CASE Delete(c)
  <2>1. ~Creating
    BY <1>5 DEF Delete, Unless
  <2>2. tasks \subseteq tasks'
        /\ \A u \in tasks' : u \in tasks \/ u.op = "logout_delete" \/ u.op = "remove"
    BY <1>5 DEF Delete, T
  <2>3. \A u \in tasks' : u \in tasks \/ (~Starting(u) /\ u.op \notin Creation)
    BY <2>2 DEF Starting, Creation
  <2>4. \A w \in tasks' : w.op \notin Creation
    BY <2>1, <2>2 DEF Creating, Pending, Creation
  <2>5. \A u \in tasks' : u \in tasks \/ u.op \notin {"find", "drop"}
    BY <2>2
  <2>6. registry' = db'.row \/ (registry' = None /\ \E t \in tasks' : t.op \in {"find", "drop"})
    BY <1>1, <1>2, <2>2 DEF NameInv, Matches
  <2>. QED BY <1>1, <1>2, <2>3, <2>4, <2>5, <2>6, DeletionGoes
<1>. QED BY <1>3, <1>4, <1>5 DEF CallStep

(* The steps of a creation.                                                 *)
LEMMA CreateName ==
  ASSUME Apart, LifeTypes, NameInv, NEW t \in tasks, \A u \in tasks : ~Starting(u),
         CreateLookup(t) \/ CreateInsert(t) \/ CreateSettings(t)
  PROVE  NameInv'
<1>1. t.op \in Creation
  BY DEF CreateLookup, CreateInsert, CreateSettings, Creation
<1>2. \A u \in tasks : u.op \in Creation => u = t
  BY <1>1 DEF NameInv, OneCreates
<1>3. \A u \in tasks : u.op \notin Deletion
  BY <1>1 DEF NameInv, EitherOr
<1>4. registry = db.row
  BY <1>3 DEF NameInv, Matches, Deletion
<1>8. t.by # 0
  BY <1>1 DEF NameInv, Asked
<1>5. CASE CreateLookup(t)
  <2>1. registry = None /\ db.row = None
    BY <1>5 DEF NameInv, NoneYet, CreateLookup
  <2>2. PICK i \in Unknown : Becomes(t, {T("insert", i, t.by)})
    BY <1>5, <2>1 DEF CreateLookup
  <2>3. registry' = None /\ db' = db
    BY <1>5, <2>1 DEF CreateLookup
  <2>4. T("insert", i, t.by).op = "insert"
    BY DEF T
  <2>5. tasks' = (tasks \ {t}) \cup {T("insert", i, t.by)}
    BY <2>2 DEF Becomes
  <2>. HIDE DEF T
  <2>6. StartsAlone'
    BY <2>4, <2>5 DEF StartsAlone, Starting
  <2>7. OneCreates' /\ EitherOr'
    BY <1>2, <1>3, <2>4, <2>5 DEF OneCreates, EitherOr, Deletion
  <2>8. NoneYet' /\ Gone' /\ Matches'
    BY <2>1, <2>3 DEF NoneYet, Gone, Matches
  <2>9. T("insert", i, t.by).by = t.by
    BY DEF T
  <2>10. Asked'
    BY <1>8, <2>5, <2>9 DEF NameInv, Asked
  <2>. QED BY <2>6, <2>7, <2>8, <2>10 DEF NameInv
<1>6. CASE CreateInsert(t)
  <2>1. registry = None /\ db.row = None
    BY <1>6 DEF NameInv, NoneYet, CreateInsert
  <2>2. registry' = t.id /\ tasks' = (tasks \ {t}) \cup {T("settings", t.id, t.by)}
    BY <1>6 DEF CreateInsert, Becomes
  <2>3. db'.row = t.id
    BY <1>6, <2>1, RestTyped DEF CreateInsert, Rest, Rows
  <2>4. T("settings", t.id, t.by).op = "settings"
    BY DEF T
  <2>5. StartsAlone'
    BY <2>2, <2>4 DEF StartsAlone, Starting
  <2>6. OneCreates' /\ EitherOr'
    BY <1>2, <1>3, <2>2, <2>4 DEF OneCreates, EitherOr, Deletion
  <2>7. NoneYet'
    BY <1>2, <2>2, <2>4 DEF NoneYet, Creation
  <2>8. Gone'
    BY <1>3, <2>2, <2>4 DEF Gone, Deletion
  <2>9. Matches'
    BY <2>2, <2>3 DEF Matches
  <2>10. T("settings", t.id, t.by).by = t.by
    BY DEF T
  <2>11. Asked'
    BY <1>8, <2>2, <2>10 DEF NameInv, Asked
  <2>. QED BY <2>5, <2>6, <2>7, <2>8, <2>9, <2>11 DEF NameInv
<1>7. CASE CreateSettings(t)
  <2>2. UNCHANGED <<registry, db>>
    BY <1>7 DEF CreateSettings
  <2>3. CASE Becomes(t, {T("remove", None, t.by)})
    <3>1. tasks' = (tasks \ {t}) \cup {T("remove", None, t.by)}
      BY <2>3 DEF Becomes
    <3>2. T("remove", None, t.by).op = "remove"
      BY DEF T
    <3>3. \A w \in tasks' : w.op \notin Creation /\ ~Starting(w)
      BY <1>2, <3>1, <3>2 DEF Starting, Creation
    <3>4. \A u \in tasks' : u \in tasks \/ u.op \notin {"find", "drop"}
      BY <3>1, <3>2
    <3>. QED BY <1>4, <2>2, <3>3, <3>4, DeletionGoes
  <2>4. CASE Becomes(t, {}) \/ Becomes(t, {T("load", t.id, t.by)})
    <3>1. tasks' \subseteq (tasks \ {t}) \cup {T("load", t.id, t.by)}
      BY <2>4 DEF Becomes
    <3>2. T("load", t.id, t.by).op = "load" /\ T("load", t.id, t.by).by = t.by
      BY DEF T
    <3>3. \A u \in tasks' : u \in tasks
                            \/ (~Starting(u) /\ u.op \notin Creation \cup Deletion)
      BY <1>8, <3>1, <3>2 DEF Starting, Creation, Deletion
    <3>4. \A u \in tasks : u.op \notin {"find", "drop"}
      BY <1>3 DEF Deletion
    <3>. QED BY <2>2, <3>3, <3>4, NameStays
  <2>. QED BY <1>7, <2>3, <2>4 DEF CreateSettings
<1>. QED BY <1>5, <1>6, <1>7

(* The handlers that delete.                                                *)
LEMMA DeleteName ==
  ASSUME Apart, LifeTypes, NameInv, NEW t \in tasks, \A u \in tasks : ~Starting(u),
         t.op \in Deletion, TaskStep(t)
  PROVE  NameInv'
<1>1. \A u \in tasks : u.op \notin Creation
  BY DEF NameInv, EitherOr
<1>2. registry = db.row \/ (registry = None /\ \E u \in tasks : u.op \in {"find", "drop"})
  BY DEF NameInv, Matches
<1>3. ASSUME NEW new, Becomes(t, new), \A u \in new : u.op \in Deletion \cup {"cleanup"},
             registry' \in {registry, None}, db'.row \in {db.row, None},
             registry' = None \/ \A u \in new : u.op \notin {"find", "drop"},
             registry' = db'.row \/ (registry' = None /\ \E u \in tasks' : u.op \in {"find", "drop"})
      PROVE  NameInv'
  <2>1. tasks' = (tasks \ {t}) \cup new
    BY <1>3 DEF Becomes
  <2>2. \A u \in new : ~Starting(u) /\ u.op \notin Creation
    BY <1>3 DEF Starting, Creation, Deletion
  <2>3. \A w \in tasks' : w.op \notin Creation
    BY <1>1, <2>1, <2>2
  <2>. QED BY <1>3, <2>1, <2>2, <2>3, DeletionGoes
<1>4. CASE ClientLogout(t) \/ TimerLogout(t) \/ ForgetCreds(t)
  <2>1. t.op \in {"logout_delete", "timer", "forget_delete"}
    BY <1>4 DEF ClientLogout, TimerLogout, ForgetCreds, Deletion
  <2>2. PICK new : Becomes(t, new) /\ \A u \in new : u.op \in {"remove", "forget_delete"}
    BY <1>4, <2>1 DEF ClientLogout, TimerLogout, ForgetCreds, T
  <2>3. registry' = registry /\ db'.row = db.row
    BY <1>4, RestTyped DEF ClientLogout, TimerLogout, ForgetCreds, Rest, Rows
  <2>4. registry' = db'.row \/ (registry' = None /\ \E u \in tasks' : u.op \in {"find", "drop"})
    BY <1>2, <2>1, <2>2, <2>3 DEF Becomes
  <2>. QED BY <1>3, <2>2, <2>3, <2>4 DEF Deletion
<1>5. CASE RemoveInstance(t)
  <2>1. /\ Becomes(t, {T("cleanup", None, t.by), T("find", None, t.by)})
        /\ registry' = None /\ db' = db
    BY <1>5 DEF RemoveInstance
  <2>2. T("cleanup", None, t.by).op = "cleanup" /\ T("find", None, t.by).op = "find"
    BY DEF T
  <2>3. \E u \in tasks' : u.op \in {"find", "drop"}
    BY <2>1, <2>2 DEF Becomes
  <2>. QED BY <1>3, <2>1, <2>2, <2>3 DEF Deletion
<1>6. CASE cleaningStoreData(t)
  <2>1. registry = None /\ registry' = registry
    BY <1>6 DEF NameInv, Gone, cleaningStoreData
  <2>2. CASE t.op = "find" /\ db.row = None
    <3>1. Becomes(t, {}) /\ db' = db
      BY <1>6, <2>2 DEF cleaningStoreData
    <3>. QED BY <1>3, <2>1, <2>2, <3>1
  <2>3. CASE t.op = "find" /\ db.row # None
    <3>1. Becomes(t, {T("drop", db.row, t.by)}) /\ db' = db
      BY <1>6, <2>3 DEF cleaningStoreData
    <3>2. T("drop", db.row, t.by).op = "drop"
      BY DEF T
    <3>3. \E u \in tasks' : u.op \in {"find", "drop"}
      BY <3>1, <3>2 DEF Becomes
    <3>. QED BY <1>3, <2>1, <3>1, <3>2, <3>3 DEF Deletion
  <2>4. CASE t.op = "drop"
    <3>1. Becomes(t, {}) /\ db'.row = None
      BY <1>6, <2>4 DEF cleaningStoreData
    <3>. QED BY <1>3, <2>1, <3>1
  <2>. QED BY <1>6, <2>2, <2>3, <2>4 DEF cleaningStoreData
<1>. QED BY <1>4, <1>5, <1>6 DEF TaskStep, Deletion, CreateLookup, CreateInsert,
                CreateSettings,
       LogoutEvent, cleaningUp, NoConnection, LoadCreds, OpenSocket, Refuse, Store,
       WriteStatus,
       Closing

(* The other handlers.                                                      *)
LEMMA OtherName ==
  ASSUME Apart, LifeTypes, NameInv, NEW t \in tasks, \A u \in tasks : ~Starting(u),
         t.op \notin Creation \cup Deletion, TaskStep(t)
  PROVE  NameInv'
<1>1. ASSUME NEW new, Becomes(t, new), UNCHANGED registry, db'.row = db.row,
             \A u \in new : ~Starting(u) /\ u.op \notin Creation \cup Deletion
      PROVE  NameInv'
  <2>1. tasks' = (tasks \ {t}) \cup new
    BY <1>1 DEF Becomes
  <2>2. t.op \notin {"find", "drop"}
    BY DEF Deletion
  <2>. QED BY <1>1, <2>1, <2>2, NameStays
<1>2. t.op \in {"load", "socket"} => t.by # 0
  BY DEF Starting
<1>3. db'.row = db.row /\ UNCHANGED registry
      /\ \E new : /\ Becomes(t, new)
                  /\ \A u \in new : u.op \in {"forget", "cleanup", "purge", "logout_event",
                                             "no_connection"}
                                   \/ (u.op = "socket" /\ u.by = t.by /\ t.op = "load")
  <2>1. CASE ClientLogout(t) \/ Closing(t)
    BY <2>1, RestTyped DEF ClientLogout, Closing, T, Rest, Rows, Deletion
  <2>2. CASE ForgetCreds(t)
    BY <2>2, RestTyped DEF ForgetCreds, T, Rest, Rows, Deletion
  <2>3. CASE cleaningUp(t)
    BY <2>3, RestTyped DEF cleaningUp, T, Rest, Rows
  <2>4. CASE LogoutEvent(t) \/ NoConnection(t) \/ Refuse(t)
    BY <2>4 DEF LogoutEvent, NoConnection, Refuse, T
  <2>5. CASE LoadCreds(t)
    <3>1. Becomes(t, {T("socket", t.id, t.by)}) /\ t.op = "load"
      BY <2>5 DEF LoadCreds
    <3>2. db'.row = db.row /\ UNCHANGED registry
      BY <2>5, RestTyped DEF LoadCreds, SaveCreds, Rest, Rows
    <3>. QED BY <3>1, <3>2 DEF T
  <2>6. CASE OpenSocket(t)
    BY <1>2, <2>6 DEF OpenSocket
  <2>7. CASE Store(t) \/ WriteStatus(t)
    BY <2>7, RestTyped DEF Store, WriteStatus, SaveCreds, SetStatus, Rest, Rows
  <2>. QED BY <2>1, <2>2, <2>3, <2>4, <2>5, <2>6, <2>7 DEF TaskStep, CreateLookup,
                  CreateInsert,
         CreateSettings, RemoveInstance, cleaningStoreData, TimerLogout, Creation,
         Deletion
<1>. QED BY <1>1, <1>2, <1>3 DEF Starting, Creation, Deletion

(* The events of a socket.                                                  *)
LEMMA SocketName ==
  ASSUME Apart, LifeTypes, NameInv, \A u \in tasks : ~Starting(u), NEW s \in Sockets,
         SocketStep(s) \/ Qr(s) \/ Scan(s) \/ Drops(s)
  PROVE  NameInv'
<1>1. /\ UNCHANGED <<registry, db>> /\ tasks \subseteq tasks'
      /\ \A u \in tasks' : u \in tasks
            \/ (u.by = s /\ u.op \in {"load", "closing", "save_fresh", "save_paired", "refuse",
                                     "write_connecting", "write_open"})
  <2>1. UNCHANGED <<registry, db>>
    BY DEF SocketStep, SaysConnecting, Opens, Closes, Qr, Scan, Drops
  <2>2. \A op, i : T(op, i, s).op = op /\ T(op, i, s).by = s
    BY DEF T
  <2>3. CASE tasks' = tasks
    BY <2>1, <2>3
  <2>4. ASSUME NEW op \in {"load", "closing", "save_fresh", "save_paired", "refuse",
                        "write_connecting", "write_open"}, tasks' = tasks \cup {T(op, sock[s].of, s)}
        PROVE <1>1!:
    BY <2>1, <2>2, <2>4
  <2>. QED BY <2>3, <2>4, SocketTasks
<1>2. \A u \in tasks' : u \in tasks \/ (~Starting(u) /\ u.op \notin Creation \cup Deletion)
  BY <1>1 DEF Starting, Creation, Deletion, Apart
<1>. QED BY <1>1, <1>2, NameStays

(* The deletion timer.                                                      *)
LEMMA TimerName ==
  ASSUME Apart, LifeTypes, NameInv, \A u \in tasks : ~Starting(u), "name" \notin Overlaps, TimerFires
  PROVE  NameInv'
<1>1. /\ UNCHANGED <<registry, db>> /\ ~Creating /\ tasks \subseteq tasks'
      /\ \A u \in tasks' : u \in tasks \/ u.op \in {"timer", "remove"}
  BY DEF TimerFires, Unless, T
<1>2. \A w \in tasks' : w.op \notin Creation
  BY <1>1 DEF Creating, Pending, Creation
<1>3. \A u \in tasks' : u \in tasks \/ (~Starting(u) /\ u.op \notin Creation)
  BY <1>1 DEF Starting, Creation
<1>4. \A u \in tasks' : u \in tasks \/ u.op \notin {"find", "drop"}
  BY <1>1
<1>5. registry' = db'.row \/ (registry' = None /\ \E t \in tasks' : t.op \in {"find", "drop"})
  BY <1>1 DEF NameInv, Matches
<1>. QED BY <1>1, <1>2, <1>3, <1>4, <1>5, DeletionGoes

(* The process starts: with the entry of the row, or one task that makes it. *)
LEMMA BootName ==
  ASSUME NEW d
  PROVE  \/ Boot(d).registry = d.row /\ Boot(d).tasks = {}
         \/ Boot(d).registry = None /\ Boot(d).tasks = {T("load", d.row, 0)}
BY DEF Boot

(* The task that makes it.                                                  *)
LEMMA LoadOf ==
  \A i : LET u == T("load", i, 0) IN u.op = "load" /\ u.id = i /\ u.by = 0
BY DEF T

(* Every start of the process.                                              *)
LEMMA StartName ==
  /\ Init => NameInv
  /\ Reboot => NameInv'
<1>1. Init => NameInv
  <2>. SUFFICES ASSUME Init PROVE NameInv
    OBVIOUS
  <2>1. /\ \A u \in tasks : /\ tasks = {u} /\ registry = None /\ db.row = u.id
                            /\ u.op = "load" /\ u.by = 0
        /\ registry = db.row \/ \E u \in tasks : u.op = "load" /\ u.by = 0
    <3>1. registry = Boot(db).registry /\ tasks = Boot(db).tasks
      BY DEF Init
    <3>2. \/ registry = db.row /\ tasks = {}
          \/ registry = None /\ tasks = {T("load", db.row, 0)}
      BY <3>1, BootName
    <3>. QED BY <3>2, LoadOf
  <2>2. ~armed /\ \A s \in Sockets : sock[s].stage = "unused"
    BY DEF Init, Unused
  <2>3. StartsAlone /\ Asked
    BY <2>1, <2>2 DEF StartsAlone, Asked, Creation
  <2>4. Matches
    BY <2>1 DEF Matches, Starting
  <2>5. OneCreates /\ NoneYet /\ EitherOr /\ Gone
    BY <2>1 DEF OneCreates, NoneYet, EitherOr, Gone, Creation
  <2>. QED BY <2>3, <2>4, <2>5 DEF NameInv
<1>2. Reboot => NameInv'
  <2>. SUFFICES ASSUME Reboot PROVE NameInv'
    OBVIOUS
  <2>1. /\ \A u \in tasks' : /\ tasks' = {u} /\ registry' = None /\ db'.row = u.id
                             /\ u.op = "load" /\ u.by = 0
        /\ registry' = db'.row \/ \E u \in tasks' : u.op = "load" /\ u.by = 0
    BY BootName, LoadOf DEF Reboot
  <2>2. ~armed' /\ \A s \in Sockets : sock'[s].stage = "unused"
    BY DEF Reboot, Unused
  <2>3. StartsAlone' /\ Asked'
    BY <2>1, <2>2 DEF StartsAlone, Asked, Creation
  <2>4. Matches'
    BY <2>1 DEF Matches, Starting
  <2>5. OneCreates' /\ NoneYet' /\ EitherOr' /\ Gone'
    BY <2>1 DEF OneCreates, NoneYet, EitherOr, Gone, Creation
  <2>. QED BY <2>3, <2>4, <2>5 DEF NameInv
<1>. QED BY <1>1, <1>2

(* Every step, when nothing that is made or deleted by name overlaps.       *)
LEMMA NameStep ==
  ASSUME Apart, LifeTypes, NameInv, "name" \notin Overlaps, [Next]_vars
  PROVE  NameInv'
<1>1. CASE UNCHANGED vars
  BY <1>1 DEF vars, NameInv, StartsAlone, Asked, OneCreates, NoneYet, EitherOr, Gone,
         Matches
<1>2. CASE Next /\ \E t \in tasks : Starting(t)
  <2>1. PICK t \in tasks : Starting(t)
    BY <1>2
  <2>. QED BY <1>2, <2>1, NothingElse, StartsStep, StartName DEF Next
<1>3. CASE Next /\ \A t \in tasks : ~Starting(t)
  <2>1. CASE \E c \in Calls : CallStep(c)
    BY <2>1, CallName
  <2>2. CASE \E t \in tasks : TaskStep(t)
    <3>1. PICK t \in tasks : TaskStep(t)
      BY <2>2
    <3>2. CASE t.op \in Creation
      <4>1. CreateLookup(t) \/ CreateInsert(t) \/ CreateSettings(t)
        BY <3>1, <3>2 DEF TaskStep, Creation, ClientLogout, ForgetCreds, RemoveInstance,
           LogoutEvent, cleaningUp, cleaningStoreData, NoConnection, TimerLogout,
           LoadCreds,
           OpenSocket, Refuse, Store, WriteStatus, Closing
      <4>. QED BY <1>3, <4>1, CreateName
    <3>. QED BY <1>3, <3>1, <3>2, DeleteName, OtherName
  <2>3. CASE \E s \in Sockets : SocketStep(s) \/ Qr(s) \/ Scan(s) \/ Drops(s)
    BY <1>3, <2>3, SocketName
  <2>. QED BY <1>3, <2>1, <2>2, <2>3, TimerName, StartName DEF Next
<1>. QED BY <1>1, <1>2, <1>3

(* At rest nothing is deleted and the process does not start.               *)
LEMMA NameAtRest == NameInv => RegistryMatchesRow
BY DEF NameInv, Matches, RegistryMatchesRow, AtRest

(* A socket that runs, that is prepared, or that is to be replaced.         *)
Runs(s) == Live(s) \/ sock[s].stage \in {"prepared", "lost"}

OneRuns == \A s, r \in Sockets : Runs(s) /\ Runs(r) /\ sock[s].of = sock[r].of => s = r

LoadsAlone ==
  \A t \in tasks : t.op = "load" =>
    /\ \A s \in Sockets : Runs(s) => sock[s].of # t.id
    /\ \A u \in tasks : u.op = "load" /\ u.id = t.id => u = t

Prepared ==
  \A s \in Sockets : sock[s].stage = "prepared" =>
    \E t \in tasks : t.op = "socket" /\ t.id = sock[s].of /\ inst[t.id].auth = s

HoldsPrepared ==
  \A t \in tasks : t.op = "socket" =>
    /\ inst[t.id].auth \in Sockets /\ sock[inst[t.id].auth].stage = "prepared"
    /\ \A u \in tasks : u.op = "socket" /\ u.id = t.id => u = t

(* Nothing yet is of an instance that is being made.                        *)
FreshId ==
  \A t \in tasks : t.op \in {"insert", "settings"} =>
    /\ \A s \in Sockets : sock[s].of # t.id
    /\ \A u \in tasks : u.op \in {"load", "socket"} => u.id # t.id
    /\ \A u \in tasks : u.op \in {"insert", "settings"} /\ u.id = t.id => u = t

SocketInv == OneRuns /\ LoadsAlone /\ Prepared /\ HoldsPrepared /\ FreshId

(* A step after which no more runs or is to be loaded than before.          *)
LEMMA RunsStay ==
  ASSUME LifeTypes, SocketInv,
         \A u \in tasks' : u \in tasks \/ u.op \notin {"load", "socket", "insert", "settings"},
         \A u \in tasks : u.op = "socket" => u \in tasks',
         \A s \in Sockets : /\ sock'[s].of = sock[s].of
                            /\ (Runs(s))' => Runs(s)
                            /\ sock'[s].stage = "prepared" <=> sock[s].stage = "prepared",
         \A i \in Ids : inst'[i].auth = inst[i].auth
  PROVE  SocketInv'
<1>. USE DEF SocketInv
<1>1. \A u \in tasks : u.op = "socket" => u.id \in Ids
  BY DEF LifeTypes, TasksOK, TaskOK, OfId
<1>2. OneRuns'
  BY DEF OneRuns
<1>3. LoadsAlone'
  BY DEF LoadsAlone
<1>4. Prepared'
  BY <1>1 DEF Prepared
<1>5. HoldsPrepared'
  BY <1>1 DEF HoldsPrepared
<1>6. FreshId'
  BY DEF FreshId
<1>. QED BY <1>2, <1>3, <1>4, <1>5, <1>6

(* A step that leaves sockets and objects alone and begins nothing of this. *)
LEMMA TasksOnly ==
  ASSUME LifeTypes, SocketInv, UNCHANGED sock,
         \A i \in Ids : inst'[i].auth = inst[i].auth,
         \A u \in tasks' : u \in tasks \/ u.op \notin {"load", "socket", "insert", "settings"},
         \A u \in tasks : u.op = "socket" => u \in tasks'
  PROVE  SocketInv'
<1>1. \A s \in Sockets : /\ sock'[s].of = sock[s].of
                         /\ (Runs(s))' => Runs(s)
                         /\ sock'[s].stage = "prepared" <=> sock[s].stage = "prepared"
  BY DEF Runs, Live
<1>. QED BY <1>1, RunsStay

(* One more is to be loaded, of an instance for which nothing runs.         *)
LEMMA LoadBegins ==
  ASSUME LifeTypes, SocketInv, NEW l, l.op = "load",
         \A s \in Sockets : (Runs(s))' => sock'[s].of # l.id,
         \A u \in tasks : u.op = "load" => u.id # l.id,
         \A u \in tasks' : u.op \in {"insert", "settings"} => u.id # l.id,
         \A u \in tasks' : u \in tasks \/ u = l,
         \A u \in tasks : u.op = "socket" => u \in tasks',
         \A s \in Sockets : /\ sock'[s].of = sock[s].of
                            /\ (Runs(s))' => Runs(s)
                            /\ sock'[s].stage = "prepared" <=> sock[s].stage = "prepared",
         \A i \in Ids : inst'[i].auth = inst[i].auth
  PROVE  SocketInv'
<1>. USE DEF SocketInv
<1>1. \A u \in tasks : u.op = "socket" => u.id \in Ids
  BY DEF LifeTypes, TasksOK, TaskOK, OfId
<1>2. OneRuns'
  BY DEF OneRuns
<1>3. LoadsAlone'
  BY DEF LoadsAlone
<1>4. Prepared'
  BY <1>1 DEF Prepared
<1>5. HoldsPrepared'
  BY <1>1 DEF HoldsPrepared
<1>6. FreshId'
  BY DEF FreshId
<1>. QED BY <1>2, <1>3, <1>4, <1>5, <1>6

(* The requests.                                                            *)
LEMMA CallSocket ==
  ASSUME Apart, LifeTypes, SocketInv, "connect" \notin Overlaps, NEW c \in Calls, CallStep(c)
  PROVE  SocketInv'
<1>1. CASE Create(c) \/ Logout(c) \/ Delete(c)
  <2>1. /\ UNCHANGED <<inst, sock>> /\ tasks \subseteq tasks'
        /\ \A u \in tasks' : u \in tasks \/ u.op \in {"lookup", "logout", "logout_delete", "remove"}
    BY <1>1 DEF Create, Logout, Delete, T
  <2>. QED BY <2>1, TasksOnly
<1>2. CASE Restart(c)
  <2>1. registry \in Ids /\ sock' = End(sock, inst[registry].client, "lost")
    BY <1>2, RestTyped DEF Restart, Rest
  <2>2. inst[registry].client \in Sockets \cup {0}
    BY <2>1, RestTyped DEF Rest, Objects
  <2>3. \A r \in Sockets :
              /\ sock'[r].of = sock[r].of
              /\ sock'[r].stage = IF r = inst[registry].client /\ Live(r) THEN "lost" ELSE sock[r].stage
    BY <2>1, <2>2, EndMoves, RestTyped DEF Rest
  <2>4. \A s \in Sockets : /\ sock'[s].of = sock[s].of
                           /\ (Runs(s))' => Runs(s)
                           /\ sock'[s].stage = "prepared" <=> sock[s].stage = "prepared"
    BY <2>3 DEF Runs, Live
  <2>. QED BY <1>2, <2>4, RunsStay DEF Restart
<1>3. CASE Connect(c)
  <2>1. /\ UNCHANGED <<inst, sock>> /\ registry \in Ids
        /\ tasks' = tasks \cup {T("load", registry, c)}
        /\ ~Creating /\ ~Loading /\ ~Losing /\ \A s \in Sockets : ~Live(s)
    BY <1>3, RestTyped DEF Connect, Unless, Rest
  <2>2. \A s \in Sockets : ~Runs(s)
    BY <2>1 DEF Loading, Losing, Pending, SocketInv, Prepared, Runs
  <2>3. \A u \in tasks : u.op \notin {"load", "insert", "settings"}
    BY <2>1 DEF Loading, Creating, Pending
  <2>4. T("load", registry, c).op = "load"
    BY DEF T
  <2>5. \A s \in Sockets : (Runs(s))' => Runs(s)
    BY <2>1 DEF Runs, Live
  <2>. QED BY <2>1, <2>2, <2>3, <2>4, <2>5, LoadBegins
<1>. QED BY <1>1, <1>2, <1>3 DEF CallStep

(* A new instance, whose identifier nothing has.                            *)
LEMMA CreateSocket ==
  ASSUME Apart, LifeTypes, SocketInv, NEW t \in tasks,
         CreateLookup(t) \/ CreateInsert(t) \/ CreateSettings(t)
  PROVE  SocketInv'
<1>1. CASE CreateLookup(t)
  <2>1. UNCHANGED <<inst, sock>> /\ t.op = "lookup"
    BY <1>1 DEF CreateLookup
  <2>2. CASE Becomes(t, {})
    BY <2>1, <2>2, TasksOnly DEF Becomes
  <2>3. ASSUME NEW i \in Unknown, Becomes(t, {T("insert", i, t.by)})
        PROVE  SocketInv'
    <3>1. T("insert", i, t.by).op = "insert" /\ T("insert", i, t.by).id = i
      BY DEF T
    <3>2. tasks' = (tasks \ {t}) \cup {T("insert", i, t.by)}
      BY <2>3 DEF Becomes
    <3>3. /\ \A s \in Sockets : sock[s].of # i
          /\ \A u \in tasks : u.id # i
      BY <2>3 DEF Unknown
    <3>4. OneRuns' /\ LoadsAlone'
      BY <2>1, <3>1, <3>2 DEF SocketInv, OneRuns, LoadsAlone, Runs, Live
    <3>5. Prepared' /\ HoldsPrepared'
      BY <2>1, <3>1, <3>2 DEF SocketInv, Prepared, HoldsPrepared
    <3>6. FreshId'
      BY <2>1, <3>1, <3>2, <3>3 DEF SocketInv, FreshId
    <3>. QED BY <3>4, <3>5, <3>6 DEF SocketInv
  <2>. QED BY <1>1, <2>2, <2>3 DEF CreateLookup
<1>2. CASE CreateInsert(t)
  <2>1. /\ t.op = "insert" /\ UNCHANGED sock
        /\ tasks' = (tasks \ {t}) \cup {T("settings", t.id, t.by)}
    BY <1>2 DEF CreateInsert, Becomes
  <2>2. T("settings", t.id, t.by).op = "settings" /\ T("settings", t.id, t.by).id = t.id
    BY DEF T
  <2>3. \A i \in Ids : i # t.id => inst'[i].auth = inst[i].auth
    BY <1>2, RestTyped DEF CreateInsert, Rest
  <2>4. \A u \in tasks : u.op = "socket" => u.id \in Ids /\ u.id # t.id
    BY <2>1 DEF LifeTypes, TasksOK, TaskOK, OfId, SocketInv, FreshId
  <2>5. OneRuns' /\ LoadsAlone'
    BY <2>1, <2>2 DEF SocketInv, OneRuns, LoadsAlone, Runs, Live
  <2>6. Prepared'
    BY <2>1, <2>2, <2>3, <2>4 DEF SocketInv, Prepared
  <2>7. HoldsPrepared'
    BY <2>1, <2>2, <2>3, <2>4 DEF SocketInv, HoldsPrepared
  <2>8. FreshId'
    BY <2>1, <2>2 DEF SocketInv, FreshId
  <2>. QED BY <2>5, <2>6, <2>7, <2>8 DEF SocketInv
<1>3. CASE CreateSettings(t)
  <2>1. UNCHANGED <<inst, sock>> /\ t.op = "settings"
    BY <1>3 DEF CreateSettings
  <2>2. CASE Becomes(t, {}) \/ Becomes(t, {T("remove", None, t.by)})
    <3>1. T("remove", None, t.by).op = "remove"
      BY DEF T
    <3>. QED BY <2>1, <2>2, <3>1, TasksOnly DEF Becomes
  <2>3. CASE Becomes(t, {T("load", t.id, t.by)})
    <3>1. T("load", t.id, t.by).op = "load" /\ T("load", t.id, t.by).id = t.id
      BY DEF T
    <3>2. tasks' = (tasks \ {t}) \cup {T("load", t.id, t.by)}
      BY <2>3 DEF Becomes
    <3>3. /\ \A s \in Sockets : sock[s].of # t.id
          /\ \A u \in tasks : u.op \in {"load", "socket"} => u.id # t.id
          /\ \A u \in tasks : u.op \in {"insert", "settings"} /\ u.id = t.id => u = t
      BY <2>1 DEF SocketInv, FreshId
    <3>4. \A s \in Sockets : (Runs(s))' => Runs(s)
      BY <2>1 DEF Runs, Live
    <3>5. \A u \in tasks' : u.op \in {"insert", "settings"} => u.id # t.id
      BY <3>1, <3>2, <3>3
    <3>6. \A u \in tasks : u.op = "socket" => u \in tasks'
      BY <2>1, <3>2
    <3>. QED BY <2>1, <3>1, <3>2, <3>3, <3>4, <3>5, <3>6, LoadBegins
  <2>. QED BY <1>3, <2>2, <2>3 DEF CreateSettings
<1>. QED BY <1>1, <1>2, <1>3

(* A socket is prepared for an instance for which nothing runs.             *)
LEMMA LoadSocket ==
  ASSUME Apart, LifeTypes, SocketInv, NEW t \in tasks, LoadCreds(t)
  PROVE  SocketInv'
<1>0. Rest
  BY RestTyped
<1>1. t.id \in Ids /\ t.op = "load"
  BY DEF LifeTypes, TasksOK, TaskOK, LoadCreds, OfId
<1>2. PICK s \in Free :
        /\ \A r \in Sockets \ {s} : sock'[r] = sock[r]
        /\ sock'[s].of = t.id /\ sock'[s].stage = "prepared"
        /\ \A i \in Ids : inst'[i].auth = IF i = t.id THEN s ELSE inst[i].auth
  <2>1. PICK s \in Free : \E c :
        /\ sock' = [sock EXCEPT ![s] = [of |-> t.id, stage |-> "prepared", creds |-> c]]
        /\ inst' = [inst EXCEPT ![t.id].auth = s]
    BY DEF LoadCreds
  <2>2. s \in Sockets
    BY DEF Free
  <2>. QED BY <1>0, <1>1, <2>1, <2>2 DEF Rest, Objects
<1>3. s \in Sockets /\ sock[s].stage \in {"unused", "closed"} /\ \A i \in Ids : inst[i].auth # s
  BY DEF Free, InUse
<1>4. tasks' = (tasks \ {t}) \cup {T("socket", t.id, t.by)}
  BY DEF LoadCreds, Becomes
<1>5. T("socket", t.id, t.by).op = "socket" /\ T("socket", t.id, t.by).id = t.id
  BY DEF T
<1>6. \A r \in Sockets \ {s} : sock'[r].of = sock[r].of /\ sock'[r].stage = sock[r].stage
                              /\ ((Runs(r))' <=> Runs(r))
  BY <1>2 DEF Runs, Live
<1>7. /\ \A r \in Sockets : Runs(r) => sock[r].of # t.id
      /\ \A u \in tasks : u.op = "load" /\ u.id = t.id => u = t
  BY <1>1 DEF SocketInv, LoadsAlone
<1>8. \A u \in tasks : u.op = "socket" =>
        /\ u.id \in Ids /\ inst[u.id].auth \in Sockets
        /\ sock[inst[u.id].auth].stage = "prepared" /\ sock[inst[u.id].auth].of = u.id
  BY DEF LifeTypes, TasksOK, TaskOK, OfId, Owned, SocketInv, HoldsPrepared, Apart
<1>9. \A u \in tasks : u.op = "socket" => u.id # t.id
  BY <1>7, <1>8 DEF Runs
<1>10. OneRuns'
  BY <1>2, <1>3, <1>6, <1>7 DEF SocketInv, OneRuns
<1>11. LoadsAlone'
  BY <1>2, <1>3, <1>4, <1>5, <1>6, <1>7 DEF SocketInv, LoadsAlone
<1>12. Prepared'
  <2>1. ASSUME NEW r \in Sockets \ {s}, sock'[r].stage = "prepared"
        PROVE  \E u \in tasks' : u.op = "socket" /\ u.id = sock'[r].of /\ inst'[u.id].auth = r
    <3>1. PICK u \in tasks : u.op = "socket" /\ u.id = sock[r].of /\ inst[u.id].auth = r
      BY <1>6, <2>1 DEF SocketInv, Prepared
    <3>2. u \in tasks'
      BY <1>1, <1>4, <3>1
    <3>. QED BY <1>2, <1>6, <1>8, <1>9, <3>1, <3>2
  <2>2. \E u \in tasks' : u.op = "socket" /\ u.id = sock'[s].of /\ inst'[u.id].auth = s
    BY <1>1, <1>2, <1>4, <1>5
  <2>. QED BY <2>1, <2>2 DEF Prepared
<1>13. HoldsPrepared'
  BY <1>1, <1>2, <1>3, <1>4, <1>5, <1>6, <1>8, <1>9 DEF SocketInv, HoldsPrepared
<1>14. FreshId'
  <2>1. \A u \in tasks : u.op \in {"insert", "settings"} => u.id # t.id
    BY <1>1 DEF SocketInv, FreshId
  <2>2. \A u \in tasks' : u.op \in {"insert", "settings"} => u \in tasks
    BY <1>4, <1>5
  <2>. QED BY <1>2, <1>4, <1>5, <1>6, <2>1, <2>2 DEF SocketInv, FreshId
<1>. QED BY <1>10, <1>11, <1>12, <1>13, <1>14 DEF SocketInv

(* It starts to run.                                                        *)
LEMMA OpenSocketKeeps ==
  ASSUME Apart, LifeTypes, SocketInv, NEW t \in tasks, OpenSocket(t)
  PROVE  SocketInv'
<1>1. t.op = "socket" /\ tasks' = tasks \ {t}
  BY DEF OpenSocket, Becomes
<1>2. t.id \in Ids /\ inst[t.id].auth \in Sockets /\ sock[inst[t.id].auth].stage = "prepared"
      /\ sock[inst[t.id].auth].of = t.id
  BY <1>1, OpenMoves DEF SocketInv, HoldsPrepared
<1>3. ASSUME NEW r \in Sockets
      PROVE  /\ (Runs(r))' => (Runs(r) /\ sock'[r].of = sock[r].of)
             /\ sock'[r].of = sock[r].of \/ sock'[r].of = None
             /\ sock'[r].stage = "prepared" <=>
                  (sock[r].stage = "prepared" /\ r # inst[t.id].auth)
  <2>1. CASE r = inst[t.id].auth
    <3>1. sock'[r].of = t.id /\ sock'[r].stage = "new"
      BY <2>1, OpenMoves
    <3>. QED BY <1>2, <2>1, <3>1 DEF Runs
  <2>2. CASE sock'[r] = sock[r] /\ r # inst[t.id].auth
    BY <2>2 DEF Runs, Live
  <2>3. CASE sock'[r] = Unused /\ sock[r].stage = "closed" /\ r # inst[t.id].auth
    BY <2>3 DEF Runs, Live, Unused
  <2>4. r = inst[t.id].auth \/ sock'[r] = sock[r]
        \/ (sock'[r] = Unused /\ sock[r].stage = "closed")
    BY OpenMoves
  <2>. QED BY <2>1, <2>2, <2>3, <2>4
<1>4. \A i \in Ids : inst'[i].auth = inst[i].auth
  BY OpenMoves
<1>5. \A u \in tasks : u.op = "socket" => u.id \in Ids
  BY DEF LifeTypes, TasksOK, TaskOK, OfId
<1>6. OneRuns'
  BY <1>3 DEF SocketInv, OneRuns
<1>7. LoadsAlone'
  BY <1>1, <1>3 DEF SocketInv, LoadsAlone
<1>8. Prepared'
  <2>1. ASSUME NEW r \in Sockets, sock'[r].stage = "prepared"
        PROVE  \E u \in tasks' : u.op = "socket" /\ u.id = sock'[r].of /\ inst'[u.id].auth = r
    <3>1. sock[r].stage = "prepared" /\ r # inst[t.id].auth /\ (Runs(r))'
      BY <1>3, <2>1 DEF Runs
    <3>2. PICK u \in tasks : u.op = "socket" /\ u.id = sock[r].of /\ inst[u.id].auth = r
      BY <3>1 DEF SocketInv, Prepared
    <3>3. sock'[r].of = sock[r].of
      BY <1>3, <3>1
    <3>. QED BY <1>1, <1>4, <1>5, <3>1, <3>2, <3>3
  <2>. QED BY <2>1 DEF Prepared
<1>9. HoldsPrepared'
  <2>1. ASSUME NEW u \in tasks', u.op = "socket"
        PROVE  /\ inst'[u.id].auth \in Sockets /\ sock'[inst'[u.id].auth].stage = "prepared"
               /\ \A w \in tasks' : w.op = "socket" /\ w.id = u.id => w = u
    <3>1. u.id # t.id /\ u \in tasks
      BY <1>1, <2>1 DEF SocketInv, HoldsPrepared
    <3>2. inst[u.id].auth \in Sockets /\ sock[inst[u.id].auth].stage = "prepared"
          /\ sock[inst[u.id].auth].of = u.id
      BY <1>5, <2>1, <3>1 DEF SocketInv, HoldsPrepared, LifeTypes, Owned, Apart
    <3>3. inst[u.id].auth # inst[t.id].auth
      BY <1>2, <3>1, <3>2
    <3>. QED BY <1>1, <1>3, <1>4, <1>5, <2>1, <3>1, <3>2, <3>3 DEF SocketInv,
                    HoldsPrepared
  <2>. QED BY <2>1 DEF HoldsPrepared
<1>10. FreshId'
  <2>1. \A u \in tasks : u.op = "insert" \/ u.op = "settings" => u.id \in Ids
    BY DEF LifeTypes, TasksOK, TaskOK, OfId
  <2>2. \A s \in Sockets : sock'[s].of = sock[s].of \/ sock'[s].of = None
    BY <1>3
  <2>. QED BY <1>1, <2>1, <2>2 DEF SocketInv, FreshId, Apart
<1>. QED BY <1>6, <1>7, <1>8, <1>9, <1>10 DEF SocketInv

(* The other handlers.                                                      *)
LEMMA TaskSocket ==
  ASSUME Apart, LifeTypes, SocketInv, NEW t \in tasks, TaskStep(t),
         t.op \notin {"lookup", "insert", "settings", "load", "socket"}
  PROVE  SocketInv'
<1>0. Rest /\ TaskOK(t)
  BY RestTyped DEF TasksOK, LifeTypes
<1>1. \E new : /\ Becomes(t, new)
              /\ \A u \in new : u.op \notin {"load", "socket", "insert", "settings"}
  <2>1. CASE ClientLogout(t)
    BY <2>1 DEF ClientLogout, T
  <2>2. CASE ForgetCreds(t)
    BY <2>2 DEF ForgetCreds, T
  <2>3. CASE RemoveInstance(t)
    BY <2>3 DEF RemoveInstance, T
  <2>4. CASE LogoutEvent(t)
    BY <2>4 DEF LogoutEvent, T
  <2>5. CASE cleaningUp(t)
    BY <2>5 DEF cleaningUp, T
  <2>6. CASE cleaningStoreData(t)
    BY <2>6 DEF cleaningStoreData, T
  <2>7. CASE NoConnection(t)
    BY <2>7 DEF NoConnection, T
  <2>8. CASE TimerLogout(t)
    BY <2>8 DEF TimerLogout, T
  <2>9. CASE Refuse(t)
    BY <2>9 DEF Refuse, T
  <2>10. CASE Store(t)
    BY <2>10 DEF Store, T
  <2>11. CASE WriteStatus(t)
    BY <2>11 DEF WriteStatus, T
  <2>12. CASE Closing(t)
    BY <2>12 DEF Closing, T
  <2>. QED BY <2>1, <2>2, <2>3, <2>4, <2>5, <2>6, <2>7, <2>8, <2>9, <2>10, <2>11, <2>12
         DEF TaskStep, CreateLookup, CreateInsert, CreateSettings, LoadCreds, OpenSocket
<1>2. /\ \A u \in tasks' : u \in tasks \/ u.op \notin {"load", "socket", "insert", "settings"}
      /\ \A u \in tasks : u.op = "socket" => u \in tasks'
  BY <1>1 DEF Becomes
<1>3. \A i \in Ids : inst'[i].auth = inst[i].auth
  <2>1. CASE NoConnection(t)
    BY <1>0, <2>1 DEF NoConnection, Rest, Objects
  <2>2. CASE Refuse(t)
    BY <1>0, <2>2 DEF Refuse, Rest, Objects
  <2>3. CASE ~NoConnection(t) /\ ~Refuse(t)
    BY <2>3 DEF TaskStep, CreateLookup, CreateInsert, CreateSettings, ClientLogout,
           ForgetCreds,
       RemoveInstance, LogoutEvent, cleaningUp, cleaningStoreData, TimerLogout,
       LoadCreds, OpenSocket, Store, WriteStatus, Closing
  <2>. QED BY <2>1, <2>2, <2>3
<1>4. sock' = sock \/ \E s \in Sockets \cup {0}, why \in {"lost", "out"} : sock' = End(sock, s, why)
  <2>1. \A i \in Ids : inst[i].client \in Sockets \cup {0}
    BY <1>0 DEF Rest, Objects
  <2>2. CASE ClientLogout(t) \/ Closing(t)
    <3>1. t.id \in Ids
      BY <1>0, <2>2 DEF TaskOK, ClientLogout, Closing, OfId
    <3>. QED BY <2>1, <2>2, <3>1 DEF ClientLogout, Closing
  <2>3. CASE NoConnection(t) \/ TimerLogout(t)
    <3>1. registry # None => registry \in Ids
      BY <1>0 DEF Rest
    <3>. QED BY <2>1, <2>3, <3>1 DEF NoConnection, TimerLogout
  <2>4. CASE ~(ClientLogout(t) \/ Closing(t) \/ NoConnection(t) \/ TimerLogout(t))
    BY <2>4 DEF TaskStep, CreateLookup, CreateInsert, CreateSettings, ForgetCreds,
       RemoveInstance, LogoutEvent, cleaningUp, cleaningStoreData, Refuse,
       LoadCreds, OpenSocket, Store, WriteStatus
  <2>. QED BY <2>2, <2>3, <2>4
<1>5. CASE sock' = sock
  BY <1>2, <1>3, <1>5, TasksOnly
<1>6. ASSUME NEW s \in Sockets \cup {0}, NEW why \in {"lost", "out"}, sock' = End(sock, s, why)
      PROVE  SocketInv'
  <2>1. \A r \in Sockets : /\ sock'[r].of = sock[r].of
                           /\ sock'[r].stage = IF r = s /\ Live(s) THEN why ELSE sock[r].stage
    BY <1>0, <1>6, EndMoves DEF Rest
  <2>2. \A r \in Sockets : /\ sock'[r].of = sock[r].of
                           /\ (Runs(r))' => Runs(r)
                           /\ sock'[r].stage = "prepared" <=> sock[r].stage = "prepared"
    BY <2>1 DEF Runs, Live
  <2>. QED BY <1>2, <1>3, <2>2, RunsStay
<1>. QED BY <1>4, <1>5, <1>6

(* The events of a socket: one that closes leaves its place to the next.    *)
LEMMA EventSocket ==
  ASSUME Apart, LifeTypes, SocketInv, NEW s \in Sockets,
         SocketStep(s) \/ Qr(s) \/ Scan(s) \/ Drops(s)
  PROVE  SocketInv'
<1>1. /\ sock[s].of \in Ids
      /\ \A r \in Sockets : /\ sock'[r].of = sock[r].of
                            /\ r # s => sock'[r] = sock[r]
      /\ \A i \in Ids : inst'[i].auth = inst[i].auth
  BY SocketMoves
<1>2. /\ sock[s].stage # "prepared" /\ sock'[s].stage # "prepared"
      /\ (Runs(s))' => Runs(s)
      /\ (\E u \in tasks' \ tasks : u.op = "load") => sock[s].stage = "lost" /\ sock'[s].stage = "closed"
  <2>0. sock \in [Sockets -> SocketRecords]
    BY RestTyped DEF Rest
  <2>1. CASE SaysConnecting(s) \/ Opens(s)
    BY <2>0, <2>1 DEF SaysConnecting, Opens, Leaves, Runs, Live, T, SocketRecords
  <2>2. CASE Qr(s)
    BY <2>0, <2>2 DEF Qr, Runs, Live, Shaking, T, SocketRecords
  <2>3. CASE Scan(s)
    BY <2>0, <2>3 DEF Scan, Leaves, Runs, Live, T, SocketRecords
  <2>4. CASE Drops(s)
    BY <2>0, <2>4 DEF Drops, Runs, Live, Shaking, SocketRecords
  <2>5. CASE Closes(s)
    BY <2>0, <2>5 DEF Closes, Leaves, Runs, Live, T, SocketRecords
  <2>. QED BY <2>1, <2>2, <2>3, <2>4, <2>5 DEF SocketStep
<1>3. \A r \in Sockets : /\ sock'[r].of = sock[r].of
                         /\ (Runs(r))' => Runs(r)
                         /\ sock'[r].stage = "prepared" <=> sock[r].stage = "prepared"
  <2>1. \A r \in Sockets : r # s => ((Runs(r))' <=> Runs(r))
    BY <1>1 DEF Runs, Live
  <2>. QED BY <1>1, <1>2, <2>1
<1>4. \A op : T(op, sock[s].of, s).op = op /\ T(op, sock[s].of, s).id = sock[s].of
  BY DEF T
<1>5. CASE tasks' = tasks
  BY <1>1, <1>3, <1>5, RunsStay
<1>6. ASSUME NEW op \in {"load", "closing", "save_fresh", "save_paired", "refuse",
                       "write_connecting", "write_open"}, tasks' = tasks \cup {T(op, sock[s].of, s)}
      PROVE  SocketInv'
  <2>1. CASE op # "load"
    BY <1>1, <1>3, <1>4, <1>6, <2>1, RunsStay
  <2>2. CASE op = "load" /\ T(op, sock[s].of, s) \in tasks
    BY <1>1, <1>3, <1>6, <2>2, RunsStay
  <2>3. CASE op = "load" /\ T(op, sock[s].of, s) \notin tasks
    <3>1. sock[s].stage = "lost" /\ sock'[s].stage = "closed"
      BY <1>2, <1>4, <1>6, <2>3
    <3>2. Runs(s) /\ ~(Runs(s))'
      BY <3>1 DEF Runs, Live
    <3>3. \A r \in Sockets : (Runs(r))' => sock'[r].of # sock[s].of
      BY <1>3, <3>2 DEF SocketInv, OneRuns
    <3>4. \A u \in tasks : u.op = "load" => u.id # sock[s].of
      BY <3>2 DEF SocketInv, LoadsAlone
    <3>5. \A u \in tasks' : u.op \in {"insert", "settings"} => u.id # sock[s].of
      BY <1>4, <1>6, <2>3 DEF SocketInv, FreshId
    <3>6. /\ \A u \in tasks' : u \in tasks \/ u = T("load", sock[s].of, s)
          /\ \A u \in tasks : u.op = "socket" => u \in tasks'
      BY <1>6, <2>3
    <3>7. T("load", sock[s].of, s).op = "load" /\ T("load", sock[s].of, s).id = sock[s].of
      BY <1>4
    <3>. QED BY <1>1, <1>3, <3>3, <3>4, <3>5, <3>6, <3>7, LoadBegins
  <2>. QED BY <2>1, <2>2, <2>3
<1>. QED BY <1>5, <1>6, SocketTasks

(* A start of the process.                                                  *)
LEMMA StartSocket ==
  /\ Init => SocketInv
  /\ Reboot => SocketInv'
<1>1. ASSUME Init PROVE SocketInv
  <2>1. \A s \in Sockets : sock[s].stage = "unused"
    BY <1>1 DEF Init, Unused
  <2>2. tasks = {} \/ tasks = {T("load", db.row, 0)}
    BY <1>1, BootName DEF Init
  <2>3. OneRuns /\ LoadsAlone
    BY <2>1, <2>2 DEF OneRuns, LoadsAlone, Runs, Live
  <2>4. Prepared /\ HoldsPrepared /\ FreshId
    BY <2>1, <2>2, LoadOf DEF Prepared, HoldsPrepared, FreshId
  <2>. QED BY <2>3, <2>4 DEF SocketInv
<1>2. ASSUME Reboot PROVE SocketInv'
  <2>1. \A s \in Sockets : sock'[s].stage = "unused"
    BY <1>2 DEF Reboot, Unused
  <2>2. tasks' = {} \/ tasks' = {T("load", db.row, 0)}
    BY <1>2, BootName DEF Reboot
  <2>3. OneRuns' /\ LoadsAlone'
    BY <2>1, <2>2 DEF OneRuns, LoadsAlone, Runs, Live
  <2>4. Prepared' /\ HoldsPrepared' /\ FreshId'
    BY <2>1, <2>2, LoadOf DEF Prepared, HoldsPrepared, FreshId
  <2>. QED BY <2>3, <2>4 DEF SocketInv
<1>. QED BY <1>1, <1>2

(* Every step, when no request connects while the instance already has a    *)
(* socket or is about to.                                                   *)
LEMMA SocketStays ==
  ASSUME Apart, LifeTypes, SocketInv, "connect" \notin Overlaps, [Next]_vars
  PROVE  SocketInv'
<1>1. CASE UNCHANGED vars
  BY <1>1, TasksOnly DEF vars
<1>2. CASE Next
  <2>1. CASE \E c \in Calls : CallStep(c)
    BY <2>1, CallSocket
  <2>2. CASE \E t \in tasks : TaskStep(t)
    <3>1. PICK t \in tasks : TaskStep(t)
      BY <2>2
    <3>2. t.op \in {"lookup", "insert", "settings"} =>
            CreateLookup(t) \/ CreateInsert(t) \/ CreateSettings(t)
      BY <3>1 DEF TaskStep, ClientLogout, ForgetCreds, RemoveInstance,
           LogoutEvent, cleaningUp, cleaningStoreData, NoConnection, TimerLogout,
           LoadCreds,
           OpenSocket, Refuse, Store, WriteStatus, Closing
    <3>3. t.op \in {"load", "socket"} => LoadCreds(t) \/ OpenSocket(t)
      BY <3>1 DEF TaskStep, ClientLogout, ForgetCreds, RemoveInstance, CreateLookup,
           CreateInsert, CreateSettings,
           LogoutEvent, cleaningUp, cleaningStoreData, NoConnection, TimerLogout,
           Refuse, Store, WriteStatus, Closing
    <3>. QED BY <3>1, <3>2, <3>3, CreateSocket, LoadSocket, OpenSocketKeeps, TaskSocket
  <2>3. CASE \E s \in Sockets : SocketStep(s) \/ Qr(s) \/ Scan(s) \/ Drops(s)
    BY <2>3, EventSocket
  <2>4. CASE TimerFires
    <3>1. /\ UNCHANGED <<inst, sock>> /\ tasks \subseteq tasks'
          /\ \A u \in tasks' : u \in tasks \/ u.op \in {"timer", "remove"}
      BY <2>4 DEF TimerFires, T
    <3>. QED BY <3>1, TasksOnly
  <2>. QED BY <1>2, <2>1, <2>2, <2>3, <2>4, StartSocket DEF Next
<1>. QED BY <1>1, <1>2

(* One socket at most, and none beside one that is to be loaded.            *)
LEMMA OneAtMost == ASSUME SocketInv PROVE OneSocket
<1>. SUFFICES ASSUME NEW i \in Ids
              PROVE  Cardinality({s \in Sockets : sock[s].of = i
                       /\ (Live(s) \/ sock[s].stage \in {"prepared", "lost"})})
                     + Cardinality({t \in Pending({"load"}) : t.id = i}) <= 1
  BY DEF OneSocket
<1>. DEFINE A == {s \in Sockets : sock[s].of = i
                       /\ (Live(s) \/ sock[s].stage \in {"prepared", "lost"})}
            B == {t \in Pending({"load"}) : t.id = i}
<1>1. A = {} \/ \E s : A = {s}
  BY DEF SocketInv, OneRuns, Runs
<1>2. B = {} \/ \E t : B = {t}
  BY DEF SocketInv, LoadsAlone, Pending
<1>3. A = {} \/ B = {}
  BY DEF SocketInv, LoadsAlone, Pending, Runs
<1>. HIDE DEF A, B
<1>4. Cardinality({}) = 0 /\ \A x : Cardinality({x}) = 1
  BY FS_EmptySet, FS_Singleton
<1>5. Cardinality(A) + Cardinality(B) <= 1
  BY <1>1, <1>2, <1>3, <1>4
<1>. QED BY <1>5 DEF A, B

(* The bounds and names the theorems ask of the constants.                  *)
LEMMA ConstantsApart == Apart
BY LifecycleAssumption DEF Apart

(* A step of a behaviour is one of the instance name, or none.              *)
LEMMA NameSteps == [MCNext]_<<scene, vars, kvars>> => [Next]_vars
BY DEF MCNext, vars

(* Unless a creation or a deletion overlaps another, or something that      *)
(* connects, the entry of the registry and the row of the name are of the   *)
(* same instance whenever nothing is left to do, whatever is lost, restarted *)
(* or requested in between: for any identifiers, requests and sockets.      *)
THEOREM EntryIsOfTheRow == "name" \notin Overlaps => (MCSpec => []RegistryMatchesRow)
<1> SUFFICES ASSUME "name" \notin Overlaps PROVE MCSpec => []RegistryMatchesRow
  OBVIOUS
<1>1. MCInit => LifeTypes /\ NameInv
  BY ConstantsApart, InitTypes, StartName DEF MCInit
<1>2. LifeTypes /\ NameInv /\ [MCNext]_<<scene, vars, kvars>> => (LifeTypes /\ NameInv)'
  BY ConstantsApart, NameSteps, TypesStep, NameStep
<1>3. NameInv => RegistryMatchesRow
  BY NameAtRest
<1>. QED BY <1>1, <1>2, <1>3, PTL DEF MCSpec

(* Unless a request connects an instance that already has a socket or is    *)
(* about to have one, an object never has two sockets that run, are         *)
(* prepared or are to be replaced, nor is it to load another beside one,    *)
(* whatever else overlaps.                                                  *)
THEOREM NeverTwoSockets == "connect" \notin Overlaps => (MCSpec => []OneSocket)
<1> SUFFICES ASSUME "connect" \notin Overlaps PROVE MCSpec => []OneSocket
  OBVIOUS
<1>1. MCInit => LifeTypes /\ SocketInv
  BY ConstantsApart, InitTypes, StartSocket DEF MCInit
<1>2. LifeTypes /\ SocketInv /\ [MCNext]_<<scene, vars, kvars>> => (LifeTypes /\ SocketInv)'
  BY ConstantsApart, NameSteps, TypesStep, SocketStays
<1>3. SocketInv => OneSocket
  BY OneAtMost
<1>. QED BY <1>1, <1>2, <1>3, PTL DEF MCSpec

=============================================================================
