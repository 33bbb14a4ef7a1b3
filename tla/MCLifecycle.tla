------------------------------ MODULE MCLifecycle ------------------------------
(***************************************************************************)
(* The life of an instance name, and apart from it its credentials and     *)
(* keys, of which InstanceLifecycle knows no more than whether there are   *)
(* any.  In a behaviour one of them moves; where it is the keys, there is  *)
(* no instance, and nothing of the other is fair.                          *)
(***************************************************************************)
EXTENDS InstanceLifecycle

CONSTANTS Keys, MaxStamp, MaxFaults

\* The bounds are numbers, None is none, and no key has the name of the
\* credentials: a key is <type>-<id>.
ASSUME KeysAssumption ==
  /\ MaxStamp \in Nat /\ MaxFaults \in Nat
  /\ None \notin Int
  /\ "creds" \notin Keys

VARIABLES scene, backend, store, object, wanted, loose, jobs, stamp, faults

K == INSTANCE AuthState

kvars == <<backend, store, object, wanted, loose, jobs, stamp, faults>>

MCInit ==
  /\ scene \in {"lifecycle", "keys"}
  /\ Init /\ (scene = "keys" => db.row = None)
  /\ K!Init /\ (scene = "lifecycle" => backend = "redis")

MCNext ==
  \/ scene = "lifecycle" /\ Next /\ UNCHANGED <<scene, kvars>>
  \/ scene = "keys" /\ K!Next /\ UNCHANGED <<scene, vars>>

MCSpec == MCInit /\ [][MCNext]_<<scene, vars, kvars>> /\ Fairness

(* The property of the credentials and keys.                                *)
KeptAsSet == K!KeptAsSet
=============================================================================
