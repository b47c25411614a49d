---------------------------- MODULE Organization ----------------------------
(***************************************************************************)
(* The organization controller, its replicas and their environment: users  *)
(* who apply, edit and delete the resource, the Atlas console, informer    *)
(* caches catching up, and replicas that restart.                          *)
(***************************************************************************)
EXTENDS OrgDelete

Init ==
    /\ obj \in {NewObject(s) : s \in Specs}
    /\ cache = [r \in Replicas |-> obj]
    /\ fresh = [r \in Replicas |-> {"cache"}]
    /\ pc = [r \in Replicas |-> "idle"]
    /\ ret = [r \in Replicas |-> "none"]
    /\ cr = [r \in Replicas |-> Absent]
    /\ key = [r \in Replicas |-> None]
    /\ chg = [r \in Replicas |-> FALSE]
    /\ orgs = [o \in OrgIds |-> "free"]
    /\ enforced = {}
    /\ acl = [o \in OrgIds |-> {}]
    /\ granted = [o \in OrgIds |-> {}]
    /\ aws = [n \in Names |-> None] /\ k8s = [n \in Names |-> None]
    /\ errors = 0 /\ crashes = 0 /\ applies = 0

-----------------------------------------------------------------------------
(* Users.                                                                  *)

(* The resource is created again after it was deleted.                     *)
UserApply ==
    /\ ~obj.present /\ applies < MaxApplies
    /\ \E s \in Specs : Edit(NewObject(s))
    /\ applies' = applies + 1
    /\ UNCHANGED <<pc, local, atlas, stores, errors, crashes>>

UserEdit ==
    /\ "edit" \in Users /\ obj.present
    /\ \E s \in Specs \ {obj.spec} : Edit([obj EXCEPT !.spec = s])
    /\ UNCHANGED <<pc, local, atlas, stores, errors, limits>>

(* A manifest whose external name is empty is applied again.               *)
UserClearName ==
    /\ "clear" \in Users /\ obj.present /\ obj.ext # None
    /\ Edit([obj EXCEPT !.ext = None])
    /\ UNCHANGED <<pc, local, atlas, stores, errors, limits>>

UserDelete ==
    /\ "delete" \in Users /\ obj.present /\ ~obj.deleting
    /\ Edit(IF obj.fin THEN [obj EXCEPT !.deleting = TRUE] ELSE Absent)
    /\ UNCHANGED <<pc, local, atlas, stores, errors, limits>>

(* An organization with the resource's name is made, or deleted, by hand.  *)
ConsoleCreate(o) ==
    /\ o \in Foreign /\ orgs[o] = "free"
    /\ orgs' = [orgs EXCEPT ![o] = "live"]
    /\ UNCHANGED <<api, pc, local, enforced, acl, granted, stores, errors, limits>>

ConsoleDelete(o) ==
    /\ o \in Foreign /\ orgs[o] = "live"
    /\ Deleted(o)
    /\ UNCHANGED <<api, pc, local, stores, errors, limits>>

-----------------------------------------------------------------------------
(* Replicas.                                                               *)

CacheSync(r) ==
    /\ "cache" \notin fresh[r]
    /\ cache' = [cache EXCEPT ![r] = obj]
    /\ fresh' = [fresh EXCEPT ![r] = @ \cup {"cache"}]
    /\ UNCHANGED <<obj, pc, local, atlas, stores, errors, limits>>

(* A replica stops in the middle of a reconcile and starts again, with a   *)
(* new cache.                                                              *)
Crash(r) ==
    /\ pc[r] # "idle" /\ crashes < MaxCrashes
    /\ crashes' = crashes + 1
    /\ Idle(r)
    /\ cache' = [cache EXCEPT ![r] = obj]
    /\ fresh' = [fresh EXCEPT ![r] = {"cache"}]
    /\ UNCHANGED <<obj, atlas, stores, errors, applies>>

Reconcile(r) ==
    ReconcilerStep(r) \/ ObserveStep(r) \/ CreateStep(r) \/ UpdateStep(r) \/ DeleteStep(r)

Environment ==
    \/ UserApply \/ UserEdit \/ UserClearName \/ UserDelete
    \/ \E o \in OrgIds : ConsoleCreate(o) \/ ConsoleDelete(o)

Next ==
    \/ \E r \in Replicas : Reconcile(r) \/ CacheSync(r) \/ Crash(r)
    \/ Environment

Spec == Init /\ [][Next]_vars

(* A replica is requeued after every outcome, and an informer catches up.  *)
FairSpec ==
    /\ Spec
    /\ \A r \in Replicas : WF_vars(Reconcile(r)) /\ WF_vars(CacheSync(r))

-----------------------------------------------------------------------------
(* Properties.                                                             *)

Labels ==
    {"idle", "observe", "finalizer", "unfinalize", "pending", "annotate", "finish",
     "get", "put", "reget", "reput", "adopted", "status", "reread", "restatus",
     "find", "post", "store", "ips", "enforce",
     "creds", "migrate", "purge", "describe", "roles", "enforcement", "addips", "removeips",
     "cleanup", "verify", "delcreds", "delete", "confirm", "clean", "release", "unfinal"}

Callers ==
    {"none", "create", "update", "finish", "restore", "adopt", "reuse",
     "created", "updated", "error", "marked", "cleaned"}

(* Every variable stays in its domain.                                     *)
TypeOK ==
    /\ obj \in Objects
    /\ cache \in [Replicas -> Objects]
    /\ fresh \in [Replicas -> SUBSET {"cr", "latest", "cache"}]
    /\ pc \in [Replicas -> Labels]
    /\ ret \in [Replicas -> Callers]
    /\ cr \in [Replicas -> Objects]
    /\ key \in [Replicas -> OrgIds \cup {None}]
    /\ chg \in [Replicas -> BOOLEAN]
    /\ orgs \in [OrgIds -> {"free", "live", "gone"}]
    /\ enforced \subseteq OrgIds
    /\ acl \in [OrgIds -> SUBSET IPs]
    /\ granted \in [OrgIds -> SUBSET Roles]
    /\ aws \in [Names -> OrgIds \cup {None}]
    /\ k8s \in [Names -> OrgIds \cup {None}]
    /\ errors \in 0..MaxErrors /\ crashes \in 0..MaxCrashes /\ applies \in 0..MaxApplies

Stored(o) == (\E n \in Names : aws[n] = o) \/ (\E n \in Names : k8s[n] = o)

Ours == Live \ Foreign

(* At most one live organization was created for the resource: two         *)
(* replicas, a lost answer to POST /orgs, a stale cache or a restart never *)
(* lead to a second one.                                                   *)
NoDuplicateOrg == \A o, p \in Ours : o = p

(* Between the pending annotation and the recorded outcome a creation      *)
(* belongs to one replica.                                                 *)
Creating(r) ==
    \/ pc[r] \in {"find", "post", "store", "ips", "enforce", "annotate"}
    \/ /\ pc[r] \in {"get", "put", "reget", "reput", "adopted", "status", "reread", "restatus"}
       /\ ret[r] \in {"reuse", "created"}

OneCreator == \A q, r \in Replicas : Creating(q) /\ Creating(r) => q = r

(* The resource and its organizations go through the life cycle that       *)
(* OrgLifecycle describes: the annotations, the searches and the retries   *)
(* of any number of replicas together amount to one creation at a time, to *)
(* at most one organization, and to a resource that outlasts its creation. *)
phaseBar ==
    CASE ~obj.present                                  -> "gone"
      [] obj.present /\ (\E r \in Replicas : Creating(r)) -> "creating"
      [] OTHER                                         -> "settled"

madeBar == [o \in OrgIds \ Foreign |-> orgs[o]]

Lifecycle == INSTANCE OrgLifecycle
                 WITH Ids <- OrgIds \ Foreign, phase <- phaseBar, made <- madeBar

ImplementsLifecycle == Lifecycle!Spec

(* An organization that was made in the Atlas console is left alone even   *)
(* when its name leads to its adoption: the provider has no key for it, so *)
(* only the console deletes it or touches its access list and roles.       *)
ForeignUntouched ==
    [][\A o \in Foreign :
          \/ UNCHANGED <<orgs[o], acl[o], granted[o], o \in enforced>>
          \/ UNCHANGED <<pc, obj>>]_vars

(* The two places that record the organization's id agree whenever both    *)
(* do: the annotation Observe, Update and Delete act on, and the status    *)
(* the annotation is restored from.                                        *)
NameMatchesStatus ==
    obj.ext # None /\ obj.st.orgID # None => obj.ext = obj.st.orgID

(* A recorded id is never replaced by another, and is lost in two ways     *)
(* only, however stale the copies are that a replica works on and whatever *)
(* fails: the external name when a user clears it, and the status when     *)
(* updateStatusWithRetry, refused for a conflict, writes the status of the *)
(* stale copy over the latest one.                                         *)
Kept(id, now, lost) == id # None => now = id \/ (now = None /\ lost)

RecordsKept ==
    [][obj.present /\ obj'.present =>
          /\ Kept(obj.ext, obj'.ext, UNCHANGED pc)
          /\ Kept(obj.st.orgID, obj'.st.orgID,
                  \E r \in Replicas : pc[r] = "restatus" /\ pc'[r] # "restatus")]_vars

(* The resource does not disappear before the organization that was        *)
(* created for it: "After confirmed deletion, removes ALL finalizers".     *)
NoOrphan == [][obj.present /\ ~obj'.present => Ours' = {}]_vars

(* As long as no answer of Atlas is taken for a deletion it does not       *)
(* confirm, only an organization whose key was never stored outlives the   *)
(* resource, under any number of replicas, failed calls and restarts.      *)
OrphanOnlyWithoutKey ==
    [][obj.present /\ ~obj'.present => \A o \in Ours' : ~Stored(o)]_vars

(* The only key of a live organization, once stored, stays stored: while   *)
(* it moves between the stores, is written twice or cleaned up, one copy   *)
(* is left.                                                                *)
KeyRetained == [][\A o \in OrgIds : Stored(o) /\ o \in Live' => Stored(o)']_vars

(* The access list of a new organization is enforced only once the address *)
(* the provider calls from is on it, when every spec lists that address:   *)
(* "Enable apiAccessListRequired AFTER IPs are provisioned".               *)
NotLockedOut == \A o \in Ours : o \in enforced => EgressIP \in acl[o]

(* While every list a spec enables has the address the provider calls      *)
(* from, that address is taken off a list only when a deletion cleans the  *)
(* list up: not by an edit, by a status that is stale or was never         *)
(* written, nor when an addition or a removal fails half way.              *)
StaysListed ==
    [][\A o \in Ours :
          EgressIP \in acl[o] /\ o \in Live' =>
             \/ EgressIP \in acl'[o]
             \/ \E r \in Replicas : pc[r] = "cleanup" /\ pc'[r] # "cleanup"]_vars

Quiet == \A r \in Replicas : pc[r] = "idle"

(* Between reconciles, a key that is stored is in the store the status     *)
(* names.                                                                  *)
StorageTypeTruthful ==
    Quiet /\ obj.ext # None /\ Stored(obj.ext) =>
        CASE obj.st.stype = "Kubernetes" -> \E n \in Names : k8s[n] = obj.ext
          [] obj.st.stype = "AWS"        -> \E n \in Names : aws[n] = obj.ext
          [] OTHER                       -> TRUE

(* A resource that is being deleted is gone in the end, unless a creation  *)
(* was cut short: the reconciler then waits for a user.                    *)
DeletionCompletes ==
    (obj.present /\ obj.deleting) ~> (~obj.present \/ obj.ann = "pending")

=============================================================================
