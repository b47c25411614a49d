--------------------------- MODULE ProviderConfig ---------------------------
(***************************************************************************)
(* How the two controllers connect: what Connect of each makes of one      *)
(* ProviderConfig, and the usages by which the ProviderConfig controller   *)
(* keeps it from being deleted under them.  The workers of any number of   *)
(* replicas reconcile the managed resources that refer to it.              *)
(*                                                                         *)
(* Of a resource, only what the connection and the VPC endpoint controller *)
(* read back is represented.  A worker's copy is current when it is in     *)
(* fresh, the controller's copy of the ProviderConfig when cfresh holds.   *)
(*                                                                         *)
(* ProviderConfig and usages are read from the informer cache of the       *)
(* replica that reads: caches holds every ProviderConfig that some cache   *)
(* may still show, lag the resources for which some cache may still miss   *)
(* the last change of the usage.  A resource needs no such set: a copy     *)
(* from a cache that trails is a Start that happened earlier.              *)
(***************************************************************************)
EXTENDS Naturals, FiniteSets

CONSTANTS
    Workers,        \* goroutines that reconcile, of any replica
    Resources,      \* managed resources that refer to the ProviderConfig
    Organizations,  \* those that are Organizations; the others, VPCEndpoints
    Ids,            \* endpoint ids EC2 can hand out
    None,           \* no id, no resource
    Credentials,    \* what users may put into the ProviderConfig
    Faults,         \* "describe": Describe may fail; "lost": Create's answer may be lost
    MaxErrors,      \* bound: calls that fail and workers that restart
    Users           \* bound: "config": users delete the ProviderConfig;
                    \* "console": someone deletes endpoints in the AWS console

Sources ==
    {"aws", "awsEmpty",           \* source AWS; without spec.credentials.aws
     "noSecret", "noKey",         \* the Secret, or its key, is missing
     "atlas", "short",            \* JSON with Atlas keys only; an accessKeyId below 4 letters
     "noRegion", "secret"}        \* AWS credentials without a region; with one

ASSUME ConnectAssumption ==
    /\ Organizations \subseteq Resources
    /\ None \notin Ids \cup Resources
    /\ Credentials # {} /\ Credentials \subseteq Sources
    /\ Users \subseteq {"config", "console"}
    /\ Faults \subseteq {"describe", "lost"}
    /\ MaxErrors \in Nat

VARIABLES
    mr,         \* mr[m]: the resource on the API server
    config,     \* the ProviderConfig on the API server
    caches,     \* the ProviderConfigs that some informer cache may show
    usages,     \* the resources that have a ProviderConfigUsage
    lag,        \* those whose usage came or went unseen by some cache
    pc,         \* pc[w]: where the worker's reconcile is
    on,         \* on[w]: the resource it reconciles
    cr,         \* cr[w]: its copy of that resource
    fresh,      \* workers whose copy is current
    cpc,        \* where the ProviderConfig controller is
    cdel,       \* its copy of the ProviderConfig is being deleted
    cfresh,     \* its copy is current
    errors      \* what of MaxErrors is used up

resource   == <<mr, fresh>>
provider   == <<config, caches>>
usage      == <<usages, lag>>
worker     == <<pc, on, cr>>
controller == <<cpc, cdel, cfresh>>

Managed ==
    [life     : {"unborn", "present", "gone"},
     deleting : BOOLEAN,                     \* DeletionTimestamp is set
     fin      : BOOLEAN,                     \* the managed resource finalizer
     ann      : {"none", "pending", "failed", "succeeded"},  \* external-create-*
     ext      : Ids \cup {None}]             \* the external-name annotation

Unborn == [life |-> "unborn", deleting |-> FALSE, fin |-> FALSE, ann |-> "none", ext |-> None]

Configs == [present : BOOLEAN, deleting : BOOLEAN, fin : BOOLEAN, creds : Credentials]

-----------------------------------------------------------------------------
(* What Connect makes of the credentials.  "nil" is an ExternalClient that *)
(* is nil beside a nil error, as errors.Wrapf of a nil error is nil.       *)

NewVPCEndpointClient(creds) == IF creds = "noRegion" THEN "error" ELSE "client"

ConnectVPCEndpoint(creds) ==
    CASE creds \in {"aws", "awsEmpty", "noKey"}   -> "nil"
      [] creds = "noSecret"                       -> "error"
      [] creds \in {"atlas", "short"}             -> "panic"   \* AccessKeyID[:4]
      [] creds \in {"noRegion", "secret"}         -> NewVPCEndpointClient(creds)

ConnectOrganization(creds) ==
    CASE creds \in {"aws", "atlas", "short", "noRegion", "secret"} -> "client"
      [] creds = "awsEmpty"                       -> "panic"   \* Credentials.AWS is nil
      [] creds \in {"noSecret", "noKey"}          -> "error"

ConnectionWith(m, creds) ==
    IF m \in Organizations THEN ConnectOrganization(creds) ELSE ConnectVPCEndpoint(creds)

Connection(m) == ConnectionWith(m, config.creds)

-----------------------------------------------------------------------------
Present(m) == mr[m].life = "present"

Goto(w, label) == pc' = [pc EXCEPT ![w] = label]

Current(w) == w \in fresh /\ Present(on[w])

Others(m) == {w \in fresh : on[w] # m}

(* The resource w works on becomes new; a copy in mine holds the answer.   *)
Store(w, mine, new) ==
    /\ mr' = [mr EXCEPT ![on[w]] = new]
    /\ fresh' = Others(on[w]) \cup mine

(* The reconcile is over: what it held locally is forgotten.               *)
Idle(w) ==
    /\ Goto(w, "idle")
    /\ on'  = [on EXCEPT ![w] = None]
    /\ cr'  = [cr EXCEPT ![w] = Unborn]

(* The external client is done with; what remains is the status.           *)
Ending(w) ==
    /\ Goto(w, "finish")
    /\ cr'  = [cr EXCEPT ![w] = Unborn]

Outcomes == IF errors < MaxErrors THEN {"ok", "fail", "lost"} ELSE {"ok"}
Outcome(out) == errors' = IF out = "ok" THEN errors ELSE errors + 1

-----------------------------------------------------------------------------
(* Connect.                                                                *)

(* A reconcile refuses a resource whose creation was begun and neither     *)
(* completed nor failed.                                                   *)
Start(w, m) ==
    /\ pc[w] = "idle"
    /\ Present(m) /\ mr[m].ann # "pending"
    /\ on' = [on EXCEPT ![w] = m]
    /\ cr' = [cr EXCEPT ![w] = mr[m]]
    /\ fresh' = fresh \cup {w}
    /\ Goto(w, "track")
    /\ UNCHANGED <<mr, provider, usage, controller, errors>>

WriteUsage(w) ==
    /\ usages' = usages \cup {on[w]}
    /\ lag' = IF on[w] \in usages THEN lag ELSE lag \cup {on[w]}

(* Fault: a usage that cannot be written does not keep Connect from going  *)
(* on.                                                                     *)
TrackIgnoringErrors(w) ==
    /\ pc[w] = "track"
    /\ \E out \in Outcomes :
          /\ Outcome(out)
          /\ IF out = "fail" THEN UNCHANGED usage ELSE WriteUsage(w)
    /\ Goto(w, "config")
    /\ UNCHANGED <<resource, provider, on, cr, controller>>

(* The usage comes before the ProviderConfig is read, also for a resource  *)
(* that has meanwhile gone.  What Track finds is the cache's: a usage that *)
(* it misses cannot be made again, one that it still shows is not made.    *)
Track(w) ==
    /\ pc[w] = "track"
    /\ \/ \E out \in Outcomes :
             /\ Outcome(out)
             /\ IF out = "fail" THEN UNCHANGED usage ELSE WriteUsage(w)
             /\ IF out = "ok" THEN Goto(w, "config") /\ UNCHANGED cr ELSE Ending(w)
       \/ /\ on[w] \in lag
          /\ IF on[w] \in usages THEN Ending(w) ELSE Goto(w, "config") /\ UNCHANGED cr
          /\ UNCHANGED <<usage, errors>>
    /\ UNCHANGED <<resource, provider, on, controller>>

(* ProviderConfig and Secret are read, in the version that the cache has.  *)
(* Only a missing ProviderConfig ends the connection, one that is being    *)
(* deleted does not.  A nil client panics at its first use; a panic is     *)
(* recovered before the status is written.                                 *)
GetConfig(w) ==
    /\ pc[w] = "config"
    /\ UNCHANGED <<mr, provider, usage, controller>>
    /\ \E seen \in caches :
       \/ /\ seen.present /\ ConnectionWith(on[w], seen.creds) = "client"
          /\ Goto(w, "connected")
          /\ UNCHANGED <<fresh, on, cr, errors>>
       \/ /\ seen.present /\ ConnectionWith(on[w], seen.creds) \in {"nil", "panic"}
          /\ Idle(w)
          /\ fresh' = fresh \ {w}
          /\ UNCHANGED errors
       \/ /\ ~seen.present \/ ConnectionWith(on[w], seen.creds) = "error"
          /\ Ending(w)
          /\ UNCHANGED <<fresh, on, errors>>
       \/ /\ errors < MaxErrors /\ errors' = errors + 1
          /\ Ending(w)
          /\ UNCHANGED <<fresh, on>>

(* Every reconcile ends with a write of the status, which may change it.   *)
Finish(w) ==
    /\ pc[w] = "finish"
    /\ Idle(w)
    /\ fresh' \in {fresh \ {w}} \cup (IF Current(w) THEN {Others(on[w])} ELSE {})
    /\ UNCHANGED <<mr, provider, usage, controller, errors>>

(* What module Organization describes, seen from here: a connected worker  *)
(* adds the finalizer, or takes it off in the end, or does neither.        *)
WorkOnOrganization(w) ==
    /\ pc[w] = "connected" /\ on[w] \in Organizations
    /\ Ending(w)
    /\ \/ /\ Current(w) /\ ~cr[w].deleting
          /\ Store(w, {w}, [cr[w] EXCEPT !.fin = TRUE])
       \/ /\ Current(w) /\ cr[w].deleting
          /\ Store(w, {}, [cr[w] EXCEPT !.life = "gone"])
       \/ UNCHANGED resource
    /\ UNCHANGED <<provider, usage, on, controller, errors>>

Crash(w) ==
    /\ pc[w] # "idle"
    /\ errors < MaxErrors /\ errors' = errors + 1
    /\ Idle(w)
    /\ fresh' = fresh \ {w}
    /\ UNCHANGED <<mr, provider, usage, controller>>

-----------------------------------------------------------------------------
(* The ProviderConfig controller: Get, List of the usages, Update.  The    *)
(* status, all it writes when nothing is deleted, is not read back.  One   *)
(* controller stands for those of all replicas: an Update that takes       *)
(* effect makes the copies of the others stale.                            *)

Decided == cpc' = "act" /\ cdel' = config.deleting /\ cfresh' = TRUE

(* Fault: a resource that is being deleted does not count as a user.       *)
ConfigListStaying ==
    /\ cpc = "idle" /\ config.present
    /\ IF config.deleting THEN \A m \in usages \ lag : mr[m].deleting ELSE ~config.fin
    /\ Decided
    /\ UNCHANGED <<resource, worker, provider, usage, errors>>

(* Get and List, at the time of the List, when they lead to an Update: of  *)
(* a ProviderConfig that is being deleted, if the cache shows no usage.    *)
(* Had the Get become stale by then, the Update would be a conflict and    *)
(* have no effect.                                                         *)
ConfigList ==
    /\ cpc = "idle" /\ config.present
    /\ IF config.deleting THEN usages \subseteq lag ELSE ~config.fin
    /\ Decided
    /\ UNCHANGED <<resource, worker, provider, usage, errors>>

(* The ProviderConfig becomes new, which no cache has seen yet.            *)
SetConfig(new) == config' = new /\ caches' = caches \cup {new}

(* Fault: the finalizer is put back instead of being taken off.            *)
ConfigKeep ==
    /\ cpc = "act" /\ cpc' = "idle" /\ cdel' = FALSE /\ cfresh' = FALSE
    /\ SetConfig(IF cfresh /\ config.present THEN [config EXCEPT !.fin = TRUE] ELSE config)
    /\ UNCHANGED <<resource, worker, usage, errors>>

ConfigAct ==
    /\ cpc = "act" /\ cpc' = "idle" /\ cdel' = FALSE /\ cfresh' = FALSE
    /\ UNCHANGED <<resource, worker, usage>>
    /\ \/ ~cfresh /\ UNCHANGED <<provider, errors>>       \* a conflict
       \/ /\ cfresh
          /\ \E out \in Outcomes :
                /\ Outcome(out)
                /\ SetConfig(CASE out = "fail" -> config
                               [] out # "fail" /\ ~cdel -> [config EXCEPT !.fin = TRUE]
                               [] OTHER -> [config EXCEPT !.present = FALSE])

ControllerStep == ConfigList \/ ConfigAct

(* The garbage collector: a usage is owned by its resource.                *)
CollectUsage(m) ==
    /\ m \in usages /\ ~Present(m)
    /\ usages' = usages \ {m} /\ lag' = lag \cup {m}
    /\ UNCHANGED <<resource, worker, provider, controller, errors>>

(* The watches catch up: with a usage, with the ProviderConfig.            *)
UsageCached(m) ==
    /\ m \in lag /\ lag' = lag \ {m}
    /\ UNCHANGED <<resource, worker, provider, usages, controller, errors>>

ConfigCached ==
    /\ caches # {config} /\ caches' = {config}
    /\ UNCHANGED <<resource, worker, config, usage, controller, errors>>

-----------------------------------------------------------------------------
(* Users.                                                                  *)

UserApply(m) ==
    /\ mr[m].life = "unborn"
    /\ mr' = [mr EXCEPT ![m] = [Unborn EXCEPT !.life = "present"]]
    /\ UNCHANGED <<fresh, worker, provider, usage, controller, errors>>

UserDelete(m) ==
    /\ Present(m) /\ ~mr[m].deleting
    /\ mr' = [mr EXCEPT ![m] = IF mr[m].fin THEN [@ EXCEPT !.deleting = TRUE]
                                            ELSE [@ EXCEPT !.life = "gone"]]
    /\ fresh' = Others(m)
    /\ UNCHANGED <<worker, provider, usage, controller, errors>>

(* Credentials with which some resource cannot connect are corrected.      *)
UserSetCredentials ==
    /\ config.present
    /\ \E m \in Resources : Connection(m) # "client"
    /\ \E creds \in Credentials :
          /\ \A m \in Resources : ConnectionWith(m, creds) = "client"
          /\ SetConfig([config EXCEPT !.creds = creds])
    /\ cfresh' = FALSE
    /\ UNCHANGED <<resource, worker, usage, cpc, cdel, errors>>

(* Without the finalizer a deletion takes effect at once.                  *)
UserDeleteConfig ==
    /\ "config" \in Users /\ config.present /\ ~config.deleting
    /\ SetConfig(IF config.fin THEN [config EXCEPT !.deleting = TRUE]
                               ELSE [config EXCEPT !.present = FALSE])
    /\ cfresh' = FALSE
    /\ UNCHANGED <<resource, worker, usage, cpc, cdel, errors>>

=============================================================================
