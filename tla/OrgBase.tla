------------------------------ MODULE OrgBase ------------------------------
(***************************************************************************)
(* The world the organization controller works on, for one Organization    *)
(* resource: the resource as the API server stores it, each replica's      *)
(* informer cache and working copies, the Atlas organizations, and the two *)
(* stores an organization's API key may be kept in.                        *)
(*                                                                         *)
(* A resourceVersion is compared for equality only, so it is represented   *)
(* by the set fresh[r] of the copies of replica r that are current: a      *)
(* write needs a current copy (else it is a conflict) and makes every      *)
(* other copy stale.                                                       *)
(*                                                                         *)
(* Not represented: fields nobody reads back (conditions, the lifecycle    *)
(* state, counts, time stamps, error texts, ARN, secret namespace).        *)
(***************************************************************************)
EXTENDS AtlasClient, Naturals, FiniteSets

CONSTANTS
    Replicas,      \* provider processes reconciling the resource
    OrgIds,        \* organization ids Atlas can hand out
    Foreign,       \* those of organizations created in the Atlas console
    None,          \* no organization, no key
    Roles, IPs,    \* API key roles, IP addresses
    EgressIP,      \* the address this provider calls Atlas from
    Names,         \* secret names, in either store
    Unset,         \* the empty string, where a name may stand
    DefaultName,   \* "product/mongodb/" + the name of the resource
    NameOfId,      \* "product/mongodb/" + an organization id
    Specs,         \* specs a user may give the resource
    HasAWS,        \* the ProviderConfig's source is AWS: there is an AWS client
    CacheLag,      \* informer caches may trail the API server
    Faults,        \* wrong or missing answers Atlas may give
    MaxErrors,     \* bound: calls that fail
    MaxCrashes,    \* bound: restarts of a replica
    MaxApplies,    \* bound: times the resource is created again
    Users          \* bound: what users do to the resource while it exists

SpecFields ==
    [storage  : {"nil", "AWS", "Kubernetes"},  \* SecretStorageConfig and its Type
     final    : Names,                         \* what finalSecretName returns
     legacy   : BOOLEAN,                       \* AWSSecretsConfig is set
     named    : Names \cup {Unset, None},      \* SecretStorageConfig.AWS: its name; None when nil
     k8s      : Names,                         \* what k8sSecretName returns
     enabled  : BOOLEAN,                       \* NetworkAccessConfig.Enabled
     ips      : SUBSET IPs,                    \* NetworkAccessConfig.IPs
     cleanup  : BOOLEAN,                       \* NetworkAccessConfig.AutoCleanup
     required : BOOLEAN,                       \* NetworkAccessConfig.APIAccessListRequired
     roles    : SUBSET Roles]                  \* APIKey.Roles

ASSUME SetsAssumption ==
    /\ Foreign \subseteq OrgIds /\ OpaqueIds \subseteq OrgIds
    /\ None \notin OrgIds \cup Names
    /\ Unset \notin Names \cup {None}
    /\ DefaultName \in Names
    /\ NameOfId \in [OrgIds -> Names]

ASSUME SpecsAssumption == Specs # {} /\ Specs \subseteq SpecFields

ASSUME BoundsAssumption ==
    /\ HasAWS \in BOOLEAN /\ CacheLag \in BOOLEAN
    /\ Faults \subseteq Answers \ {"2xx"}
    /\ Users \subseteq {"edit", "clear", "delete"}
    /\ MaxErrors \in Nat /\ MaxCrashes \in Nat /\ MaxApplies \in Nat

VARIABLES
    obj,        \* the resource on the API server
    cache,      \* cache[r]: the resource in r's informer cache
    fresh,      \* fresh[r]: which copies of r are current
    pc,         \* pc[r]: where r's reconcile is
    ret,        \* ret[r]: what it does when the current subroutine returns
    cr,         \* cr[r]: its copy of the resource ("managed", "cr")
    key,        \* key[r]: the organization whose API key it holds
    chg,        \* chg[r]: Update's statusChanged
    orgs,       \* Atlas: the state of each organization
    enforced,   \* Atlas: organizations that require the IP access list
    acl,        \* Atlas: the access list of each organization's API key
    granted,    \* Atlas: the roles of each organization's API key
    aws, k8s,   \* the stores: the organization whose key is under a name
    errors, crashes, applies   \* what of each bound is used up

api    == <<obj, cache, fresh>>
local  == <<cr, ret, key, chg>>
atlas  == <<orgs, enforced, acl, granted>>
stores == <<aws, k8s>>
limits == <<crashes, applies>>
vars   == <<api, pc, local, atlas, stores, errors, limits>>

Statuses ==
    [orgID : OrgIds \cup {None},
     stype : {"", "AWS", "Kubernetes"},     \* SecretStorageType
     sname : Names \cup {Unset},            \* SecretName
     enf   : {"unset", "on", "off"},        \* APIAccessListRequired, a *bool
     ips   : SUBSET IPs,                    \* ProvisionedIPs
     roles : SUBSET Roles]                  \* APIKeyRoles

NoStatus == [orgID |-> None, stype |-> "", sname |-> Unset, enf |-> "unset",
             ips |-> {}, roles |-> {}]

Objects ==
    [present  : BOOLEAN,
     deleting : BOOLEAN,                    \* DeletionTimestamp is set
     fin      : BOOLEAN,                    \* the managed resource finalizer
     ann      : {"none", "pending", "failed", "succeeded"},  \* external-create-*
     ext      : OrgIds \cup {None},         \* the external-name annotation
     spec     : Specs,
     st       : Statuses]

NewObject(spec) == [present |-> TRUE, deleting |-> FALSE, fin |-> FALSE,
                    ann |-> "none", ext |-> None, spec |-> spec, st |-> NoStatus]

Absent == [NewObject(CHOOSE s \in Specs : TRUE) EXCEPT !.present = FALSE]

-----------------------------------------------------------------------------
(* The API server and the informer caches.                                 *)

(* The resource becomes new; the copies of r in mine hold the answer.      *)
(* A write that changes nothing leaves resourceVersion alone.              *)
Store(r, mine, new) ==
    /\ obj' = new
    /\ IF new = obj
       THEN /\ fresh' = [fresh EXCEPT ![r] = @ \cup mine]
            /\ cache' = cache
       ELSE /\ fresh' = [q \in Replicas |->
                            (IF q = r THEN mine ELSE {})
                              \cup (IF CacheLag THEN {} ELSE {"cache"})]
            /\ cache' = IF CacheLag THEN cache ELSE [q \in Replicas |-> new]

(* A write by a user.                                                      *)
Edit(new) ==
    /\ obj' = new
    /\ fresh' = [q \in Replicas |-> IF CacheLag THEN {} ELSE {"cache"}]
    /\ cache' = IF CacheLag THEN cache ELSE [q \in Replicas |-> new]

(* Metadata and spec without the finalizer: the API server drops a deleted *)
(* object with its last finalizer.                                         *)
Unfinalized(o) == IF o.deleting THEN Absent ELSE [o EXCEPT !.fin = FALSE]

Current(r, copy) == obj.present /\ copy \in fresh[r]

(* client.Update decodes the answer over the copy it was given: a status   *)
(* field the server has wins, one it lacks keeps its local value.          *)
Overlay(server, mine) ==
    [orgID |-> IF server.orgID # None  THEN server.orgID ELSE mine.orgID,
     stype |-> IF server.stype # ""    THEN server.stype ELSE mine.stype,
     sname |-> IF server.sname # Unset THEN server.sname ELSE mine.sname,
     enf   |-> IF server.enf # "unset" THEN server.enf   ELSE mine.enf,
     ips   |-> IF server.ips # {}      THEN server.ips   ELSE mine.ips,
     roles |-> IF server.roles # {}    THEN server.roles ELSE mine.roles]

-----------------------------------------------------------------------------
(* Calls that fail.                                                        *)

(* A call to Kubernetes or AWS succeeds, fails, or takes effect although   *)
(* its caller sees an error.                                               *)
Outcomes == IF errors < MaxErrors THEN {"ok", "fail", "lost"} ELSE {"ok"}
Outcome(out) == errors' = IF out = "ok" THEN errors ELSE errors + 1

(* What Atlas answers a call whose right answer is truth, and whether the  *)
(* call took effect.                                                       *)
Reply(answer, done, bad) == [answer |-> answer, done |-> done, bad |-> bad]
Replies(truth) ==
    {Reply(truth, truth = "2xx", FALSE)} \cup
    (IF errors < MaxErrors
     THEN {Reply(a, FALSE, TRUE) : a \in Faults} \cup
          (IF truth = "2xx" THEN {Reply(a, TRUE, TRUE) : a \in Faults \cap Ambiguous}
                            ELSE {})
     ELSE {})
Replied(rep) == errors' = IF rep.bad THEN errors + 1 ELSE errors

(* Atlas refuses the key of an organization that no longer exists, a key   *)
(* used on another organization, and a caller that is not on the access    *)
(* list of an organization that requires one.                              *)
KeyAnswer(k, o) ==
    CASE orgs[k] # "live"                          -> "401"
      [] orgs[k] = "live" /\ k # o                 -> "403"
      [] k = o /\ o \in enforced /\ EgressIP \notin acl[o] -> "403ip"
      [] OTHER                                     -> "2xx"

Live == {o \in OrgIds : orgs[o] = "live"}

-----------------------------------------------------------------------------
(* The key stores.                                                         *)

(* fetchOrgCredentials: where the key is, by the storage type the status   *)
(* records; None when nothing is there.                                    *)
AwsSecretName(c) == IF c.st.sname # Unset THEN c.st.sname ELSE c.spec.final

fetchOrgCredentials(c) ==
    CASE c.st.stype = "Kubernetes" -> k8s[c.spec.k8s]
      [] c.st.stype # "Kubernetes" /\ HasAWS -> aws[AwsSecretName(c)]
      [] OTHER -> None

-----------------------------------------------------------------------------
(* A replica's reconcile.                                                  *)

Goto(r, label) == pc' = [pc EXCEPT ![r] = label]

(* Of r's copies, the informer's excepted, only those in copies remain     *)
(* current.                                                                *)
Holds(r, copies) == fresh' = [fresh EXCEPT ![r] = (@ \cap {"cache"}) \cup copies]

(* The reconcile is over: what it held locally is forgotten.               *)
Idle(r) ==
    /\ Goto(r, "idle")
    /\ cr'  = [cr EXCEPT ![r] = Absent]
    /\ ret' = [ret EXCEPT ![r] = "none"]
    /\ key' = [key EXCEPT ![r] = None]
    /\ chg' = [chg EXCEPT ![r] = FALSE]

=============================================================================
