------------------------------ MODULE MCAgenda ------------------------------
(***************************************************************************)
(* The agenda on a small instance and, apart from it, one open page of the *)
(* site on which washes are booked, with a short and a long wash and two   *)
(* days of two times, and the scripts that register car washes and         *)
(* restaurants: two names of which one is the beginning of the other, and  *)
(* a third script once no interview is on.  In a behaviour one of the      *)
(* three moves; a script has the name of a handler.                        *)
(***************************************************************************)
EXTENDS MCTrinity, SiteWizard

VARIABLES
  scene,
  orgs, services, history, menus, evolution, scripts, request, given, started, upsets, incidents

MCLength == [w \in Washes |-> IF w = "long" THEN 2 ELSE 1]

\* The seed's first organization has another instance name than its name;
\* the older database has it too.
B == INSTANCE BotTenants
       WITH Scripts <- Handlers, Slugs <- {"ze", "zeca"},
            Extends <- [s \in {"ze", "zeca"} |-> IF s = "ze" THEN {"zeca"} ELSE {}],
            SeedOrgs <- <<[instance |-> "ze", name |-> "zeca", type |-> "restaurant"],
                          [instance |-> "zeca", name |-> "zeca", type |-> "lavacar"]>>,
            OldOrgs <- {[instance |-> "ze", name |-> "zeca", type |-> "restaurant"]},
            None <- NoTime, NumServices <- 2, MaxScripts <- 3, MaxUpsets <- 1,
            begun <- started, met <- incidents

bvars == <<orgs, services, history, menus, evolution, scripts, request, given, started,
           upsets, incidents>>

MCInit == Init /\ PageInit /\ B!Init /\ scene \in {"agenda", "page", "scripts"}

MCNext ==
  \/ scene = "agenda" /\ Next /\ UNCHANGED <<scene, pageVars, bvars>>
  \/ scene = "page" /\ PageNext /\ UNCHANGED <<scene, vars, bvars>>
  \/ /\ scene = "scripts" /\ B!Next /\ UNCHANGED <<scene, vars, pageVars>>
     /\ started' = 3 => \A r \in Handlers : scripts'[r].kind = "onboard" => scripts'[r].pc = "done"

MCSpec == MCInit /\ [][MCNext]_<<vars, scene, pageVars, bvars>>

(* The property of the scripts.                                            *)
OnboardedAsAsked == B!OnboardedAsAsked
=============================================================================
