# A formal model of provider-mongodb

`provider-mongodb` is a Crossplane provider: a Kubernetes controller that makes
MongoDB Atlas organizations (and AWS VPC endpoints for them) look like Kubernetes
resources. This directory holds TLA+ modules of it, the TLC configurations that
check them, and proofs about them for TLAPS. `O:n` below is line *n* of
`src/internal/controller/organization/organization.go`, `V:n` of
`src/internal/controller/vpcendpoint/vpcendpoint.go`, `G:n` of
`src/internal/controller/config/config.go`.

## The system

| part | state it keeps | operations | talks to |
|---|---|---|---|
| organization controller (`internal/controller/organization`) | nothing between reconciles; within one, a copy of the resource | Connect, Observe, Create, Update, Delete | API server, Atlas, AWS Secrets Manager, Kubernetes Secrets |
| managed reconciler (crossplane-runtime, a dependency) | nothing between reconciles | drives the four operations; finalizer, creation annotations, final status write | API server |
| Atlas client (`internal/clients/mongodb`) | a digest credential | one HTTP request per method; answers become typed errors | Atlas Admin API |
| Secrets Manager client (`internal/clients/aws`) | an SDK client | Put, Get, Describe, Delete | AWS |
| API types (`apis/organization`, `apis/v1alpha1`, `apis/connectivity`) | spec and status of the resources | - | - |
| VPC endpoint controller and client (`internal/controller/vpcendpoint`, `internal/clients/connectivity`) | nothing between reconciles; within one, a copy of the resource and an EC2 client | Connect, Observe, Create, Delete (Update is never reached) | API server, AWS EC2 |
| ProviderConfig controller (`internal/controller/config`) | nothing between reconciles; within one, a copy of the ProviderConfig and a list of its usages | adds the ProviderConfig's finalizer, and takes it off when no usage is left | API server |
| `cmd/provider` | - | starts the manager; leader election is off by default | - |
| `internal/clients/atlas` | - | an older client nothing calls | - |

All lasting state lies outside the process: in the Organization resource (its
external-name annotation, creation annotations, finalizer and status), in Atlas
and in the store that keeps the organization's API key. The controller reads and
writes these one call at a time, each of which may fail or take effect although
its caller sees an error, while users edit the resource, a second replica
reconciles it (`main.go:73`: no leader election unless asked for), the informer
cache it reads trails what it wrote, or the process restarts. That is where the
difficulty lies, and what the model is about:

* **Creation** is not idempotent, and POST /orgs hands out the only copy of the
  organization's API key. There must be at most one organization, its id must be
  recorded, and its key must be stored before anything else can fail.
* **The id is recorded twice**, in an annotation and in the status; the
  annotation is restored from the status (O:535), and both from a search by name
  (O:568).
* **The status is written whole**, on a conflict onto a copy read afterwards
  (O:403-416), by reconciles that may be older than what they overwrite.
* **Deletion** is decided by the text of an error message (O:1332), and needs the
  key it is about to delete.
* **The IP access list** can lock the provider itself out.
* **A VPC endpoint** is made without a client token, any error of Describe counts as
  "does not exist" (V:198), and one that is deleted is still reported for a while
  (V:215).
* **A ProviderConfig** is shared by everything that connects through it, and must
  not go while it is used: `Connect` writes a usage before it reads, the
  ProviderConfig controller lists the usages before it lets go. Both read from
  informer caches, which trail.

The two halves meet in the ProviderConfig only: an Organization and a VPCEndpoint
never name each other. They are therefore two compositions, `Organization` and
`VPCEndpoint`; the second also has Organizations as users of its ProviderConfig.

`PROJECT.json` lists under "hazards" every such place at its line.

## Modules

| module | models | actions |
|---|---|---|
| `AtlasClient` | how an HTTP answer becomes a Go error and what the controller's predicates make of it. An error is its type plus the text fragments some predicate searches for, so that a wrapped error loses its type and keeps its text | none |
| `OrgBase` | the variables: the resource on the API server, caches, working copies, Atlas, the two key stores; conflicts; calls that fail | none |
| `OrgReconcile` | the managed reconciler, persisting the external name, `updateStatusWithRetry` | 12 |
| `OrgObserve` | `Observe`, one action per branch | 4 |
| `OrgCreate` | `Create`, one action per external call | 5 |
| `OrgUpdate` | `Update`, with storage migration | 10 |
| `OrgDelete` | `delete` and `cleanupSecretsAfterDelete` | 8 |
| `Organization` | composes them with users, the Atlas console, caches and restarts; the refinement mapping; the properties | 8 |
| `OrgLifecycle` | the abstract specification `Organization` implements: one creation at a time, at most one organization, a resource that does not vanish under its creation | 5 |
| `ProviderConfig` | `Connect` of both controllers, usages, the ProviderConfig controller, garbage collection, informer caches, users of a ProviderConfig | 15 |
| `VPCEndpoint` | the VPC endpoint controller with its reconciler and EC2; composes them with `ProviderConfig`; the refinement mapping; the properties | 9 |
| `EndpointLifecycle` | the abstract specification `VPCEndpoint` implements: for each resource one creation at a time, at most one endpoint, and an end only when there is none | 6 |
| `MCOrganization`, `MCVPCEndpoint` | specs and symmetry for TLC | |
| `OrganizationTypes` | proof of the type invariant of `Organization` and its strengthening | |
| `OrganizationProofs` | proofs about creation | |
| `LifecycleProofs` | proof that `Organization` implements `OrgLifecycle` | |
| `OnceProofs` | proofs that a resource gets one organization in its life, that its two records agree, and how either can be lost | |
| `KeyProofs` | proofs about the key stores: no key is lost, and none left with an organization | |
| `AccessProofs` | proofs that console organizations are left alone, and that the provider's own address stays on a list |
| `VPCEndpointProofs` | types of `VPCEndpoint`, that no resource is without its usage, and that the usage keeps the ProviderConfig | |
| `OneEndpointProofs` | proofs about endpoints: one per resource, none left behind, and `EndpointLifecycle` implemented | |

From `OrgReconcile` to `OrgDelete` each extends the one above it. A replica's
control state is `pc[r]`, a label for the next external call; `ret[r]` says where a shared
subroutine returns to. `cr[r]` is the Go variable `cr` (`mg`), `key[r]` the
credentials the reconcile has in hand, `chg[r]` Update's `statusChanged`. The Go
variable `latest` needs no variable of its own: whenever it is written back, the
API server accepts it only if it still equals what is stored.

That last remark is how **resourceVersion** is modelled. It is only ever compared
for equality, so `fresh[r]` is the set of those copies of replica `r` (`"cr"`,
`"latest"`, `"cache"`) that are current. A write through a copy outside it is a
conflict; a write that changes something empties everyone else's set. No counter
is needed, and the theorems need no bound on the number of writes.

**One call, one action.** Between two calls to the outside world nothing another
actor can see happens, so the code between them belongs to the action of the call.
Two calls are merged where no other actor's step between them could matter: the
lookup of an API key's id with the request that uses it, the removals of single
addresses (`RemoveIPs` allows every subset to be left over), and Create and Update
of a secret.

**Keys** are represented by the organization they belong to. What Atlas answers a
key (`KeyAnswer`): 401 when its organization is gone, 403 on another organization,
403 with "IP address ... not allowed" when enforcement is on and the provider's
address is not listed. The parent organization's key, which searches, creates and
verifies, is never refused by a child's access list.

**Failures.** A call to Kubernetes or AWS may fail, or take effect and be reported
as failed. Atlas may give any answer in `Faults` instead of the right one; after
500, 503 or no answer at all, the request may have taken effect. `MaxErrors`
bounds how often this happens in a behaviour, `MaxCrashes` and `MaxApplies` the
restarts and the re-creations of the resource.

**The life cycle.** `phaseBar` maps the resource to "settled", "creating" (some
replica is between the pending annotation and the recorded outcome) and "gone",
`madeBar` the organizations at Atlas to those made by the provider. Everything else
- searches, conflicts, retries, key stores, access lists - is stuttering.

For the VPC side `phaseBar[m]`, `hasBar[m]` and `usedBar` do the same for every
VPCEndpoint: a creation lasts from `MarkPending` to `Annotate`, what EC2 is deleting
or has deleted no longer belongs to the resource.

**VPC endpoints.** `Workers` are the goroutines of all replicas together, and each
reconciles one resource at a time; `on[w]` is which. `fresh` again says whose copy
is current. `Start` reads the resource on the API server: a worker with a lagging
informer is one that started earlier and was slow.

That is not so for what is read later, the usages and the ProviderConfig, through
`mgr.GetClient()` (V:58, V:97, O:94, G:51). `caches` holds every version of the
ProviderConfig that some replica's cache may still show, and `GetConfig` reads any
of them; `lag` holds the resources whose usage was written or collected unseen by
some cache, and both `Track` and the List of usages may find of those what was
there before. `UsageCached` and `ConfigCached` let all caches catch up. The sets
forget which replica is how far behind, so they allow every order of reads that
the separate caches do, and more. The Secret with the credentials is part of the
ProviderConfig's version here; its edit makes the controller's copy stale, which an
edit of the ProviderConfig does and one of the Secret alone does not.

The ProviderConfig controller's Get and List are one step, `ConfigList`, at the time
of the List, and only when they lead to an Update: if the Get has become stale by
then, from lag or a write in between, the Update is a conflict and has no effect. For
the same reason one controller stands for those of all replicas.

A ProviderConfig holds one of eight kinds of credentials, and each `Connect` makes
its own of them:

| credentials | Organization | VPCEndpoint |
|---|---|---|
| source AWS | client | nil client, nil error (V:135) |
| source AWS, `spec.credentials.aws` missing | panics | nil client, nil error |
| Secret missing | error | error |
| key missing in the Secret | error | nil client, nil error |
| JSON with Atlas keys only, or a short `accessKeyId` | client | panics (`AccessKeyID[:4]`) |
| AWS credentials without region | client | error |
| AWS credentials with region | client | client |

A nil client and a panic both end the reconcile before its status is written.
`Connect` does not refuse a ProviderConfig that is being deleted.

**Modelled from their use** (marked external in the map): crossplane-runtime, the
API server and its informers, the garbage collector, Atlas, EC2, users. The
organization controller's guards in `Create` on an id that is already there
(O:718-746) can never fire: the creation was announced by a write that only succeeds
on the copy which `Observe` found without an id.

## Runs

None checks deadlock: the system really stops when the resource is gone, or when a
creation that was cut short waits for a user. With two replicas or workers their
symmetry is used (in `vpcendpoint` that of the ids, too), never with a liveness
property.

Runs of `MCOrganization`:

| run | question | bounds |
|---|---|---|
| `create` | never two organizations, never two creators; the life cycle is implemented | 2 replicas, 2 failures (a POST answered 500 but carried out, say), a user may delete at any time |
| `lag` | the two records of the id agree; each is lost only by a user's hand or the retry of a status write, and never replaced; only an organization whose key was never stored is left behind, also when the cache trails and the resource is created again | 1 replica, lagging cache, 1 failure, 1 restart, 1 re-creation, delete and clear |
| `orphan` | deletion with two replicas: the key outlives its organization, and no organization whose key is stored is left behind | 2 replicas, 1 failure |
| `migrate` | no key is lost while it moves between AWS and Kubernetes, under specs with every combination of storage fields that gets as far as a key; the provider's own address is not taken off a list; types | 4 specs, edits of storage, roles, list and enforcement at once, clears, 1 failure |
| `release` | the resource is not gone before its organization | 1 replica, no failures, 1 restart, 1 re-creation, three specs: the secret named, left to the deprecated field, or neither, which panics |
| `deletion` | a deletion completes; a console organization is left alone | 1 replica, 2 failures, 1 restart, 1 console organization, fairness |
| `opaque_delete`, `flip_storage`, `own_lockout`, `lockout` | disagreements between code and comments, below | |

Runs of `MCVPCEndpoint`:

| run | question | bounds |
|---|---|---|
| `vpcendpoint` | one endpoint per resource, none left behind; the life cycle is implemented; a resource with its finalizer has its usage | 2 workers, a VPCEndpoint and an Organization on one ProviderConfig, lagging caches, 1 failed call or restart |
| `vpc_liveness` | a ProviderConfig stays for whoever can rely on it; deletions of endpoint and ProviderConfig complete, a lost endpoint is replaced; types | 1 worker, lagging caches, users that delete the ProviderConfig and correct credentials that panic, 1 error (a Describe that fails, a lost answer of Create, a failed call, a restart), deletions in the AWS console, fairness |

Why these bounds suffice: a hazard in this code needs one thing to go wrong at
the wrong call, and another actor's step in between. One failure reaches every
call of every operation in both its forms; two replicas give every pair of
positions; one re-creation is enough for a stale copy of the old resource to meet
the new one. Two organization ids let a second creation succeed, which is what the
properties forbid. Where a property needs fewer actors to hold, the run's bounds
say so, and the next section names what breaks it beyond them. On the VPC side two
workers and two resources give both conflicts over one resource and two users of
one ProviderConfig; deletions of the ProviderConfig are in the other run, where one
worker is enough to meet them: it is the controller that decides them. Two kinds of
credentials, one that panics and one that serves, give every way from `GetConfig`
but the error, which a failed Get gives. The theorems hold for any number of all.

**Fairness** (`FairSpec` of `Organization`): a replica that can take a step takes
one, and an informer catches up, both weakly fair. controller-runtime requeues a resource
after every outcome and the managed reconciler polls it each minute; client-go informers
resync. In `VPCEndpoint` a worker goes on with what it has begun (weakly fair), and
every resource that can be started again and again is started (strongly fair, for
the work queue and the poll hand out each resource in its turn, and a worker is not
always free); usages and deletions trigger the ProviderConfig controller, the
garbage collector collects, EC2 finishes what it was asked, informer caches catch up.
Nothing is assumed of
users, of failures, or of which branch is taken.

## What the checks show

What holds, holds because of the creation annotations of crossplane-runtime and
not because of the controller's own searches and guards: they are a lock that
survives restarts. The price is a resource that waits for a user whenever a
creation was cut short (`DeletionCompletes` excepts it).

A VPC endpoint is held by the same lock. `Observe` takes an endpoint that is
deleted for one that exists, but EC2 forgets it in the end, so deletions complete
(`EndpointDeletionCompletes`) and a lost endpoint is replaced
(`EndpointRestored`), unless only a user can help: a pending creation, a
ProviderConfig that is gone, or credentials the controller cannot use.

What a usage is worth depends on the caches. A resource with its finalizer always
has its usage (`UsageRecorded`), and once every cache has seen it while the
ProviderConfig has its finalizer and no deletion is asked for, the ProviderConfig
outlasts the resource (`ConfigKept`). Before that nothing is promised: the deletion
may be asked for, and carried out by a controller whose cache misses the usage, while
`Connect` still reads a cache without the deletion (V:97, O:94, G:51). Nor does
`Connect` refuse a ProviderConfig that it sees being deleted. In either case a
resource that outlives its ProviderConfig is stuck with its finalizer. The example in
`providerconfig_types.go:60-64` has no region, which a VPCEndpoint needs.

Four runs find the code and its comments at odds.

* `opaque_delete`: "After confirmed deletion" (O:1193). `delete` asks Atlas whether
  the organization is still there. When it is, the client's error quotes its id,
  and `isAtlasTransientOrOpaqueDeleteErr` searches that text for "500". An
  organization whose id contains these digits is never deleted: its key is, and
  the finalizer is removed.
* `flip_storage`: "SecretStorageType indicates where the secret is stored"
  (`organization_types.go:193`). `Observe` overwrites it with what the spec wants
  (O:628) before `Update` compares the two (O:989). An edit of the storage type
  therefore never migrates anything; the key is then looked up where it is not.
  The migration is only reached from the branches that skip the overwrite,
  restoring a cleared external name and adoption by name, and there it works
  (`migrate`).
* `own_lockout`: `autoCleanup` removes the addresses "when org is deleted"
  (`organization_types.go:110`), but does so first. With enforcement on, the
  DELETE that follows is refused, the refusal counts as an authorization error
  (O:1291, before the test at O:1299 that would have recognised it), and the
  deletion repeats forever, against O:1357-1359.
* `lockout`: "Enable apiAccessListRequired AFTER IPs are provisioned" (O:923). When
  provisioning fails, `Create` logs it, writes the error into its status and enforces
  the list all the same (O:909-913, O:924), without the address the provider calls
  from. Neither the retry O:911 announces nor anything else can follow: the
  organization's own key is refused.

Other things TLC finds when a run's bounds are widened, each of which decided a
bound above:

* With a lagging cache or two replicas, both attempts at writing the external name
  may conflict. `Create` then returns before it stores the key (O:819-831): the
  organization is alive and its only key lost. `NoOrphan` therefore holds in
  `release` only, and elsewhere `OrphanOnlyWithoutKey` says how far it fails.
* `updateStatusWithRetry` compares no UID and no version: with two replicas or lag
  an older status, also one of a deleted resource of the same name, overwrites a
  newer one. An id that was recorded is lost in this way, which `RecordsKept`
  therefore excepts; if a user clears the external name at that moment both records
  are gone, and the next reconcile depends on the search by name. With two replicas
  and a re-creation the status that is written over is another resource's: the new one
  then gets the external name of an organization that is gone and is never created.
* With two replicas and two re-creations a replica that was delayed before
  `ForceRemoveFinalizer` takes the finalizer off the new resource (O:1387-1391
  goes by name), a third one appears while the second is being created, and
  `OneCreator` fails. The theorems below assume `MaxApplies = 0`.
* With Kubernetes storage, a status lost after `Create` makes `delete` look in AWS,
  find nothing, and give up the organization with its key still in Kubernetes.
* With Kubernetes storage, a secret that is missing makes the deletion loop
  (O:1267 only recognises the words of AWS).
* The provider also locks itself out without any failure when a spec edit adds
  addresses and enforcement together: `Update` enforces first (O:1087 before O:1116).
  With two replicas, one that observed before the lock was taken finds the new
  organization by its name, adopts it, and its `Update` enforces the list before the
  creator has put the provider's address on it (O:568, O:1087).
* `deletion` fails with a re-creation: a secret left over from a failed
  `DeleteSecret` is the wrong key for the new organization when the new key could
  not be stored. It also fails with a lagging cache that catches up at the least
  convenient moments, which is why the run has none, and when users clear the
  external name while it is under way.
* With two replicas and specs that differ in the storage type, one moves the key from
  AWS to Kubernetes while the other moves it back, and each deletes the copy the
  other has just written (O:1050, and O:1013 where both secrets have one name):
  `KeyRetained` fails. It holds for one replica, or specs of one storage type.
* `NoOrphan` also fails when a cleared name leads to the adoption of a console
  organization of that name, and under spec edits: each edit during a creation is a
  conflict, and after two of them `Create` gives up before it stores the key.
* When new addresses cannot be added, `Update` still records them as provisioned and
  clears `IPAccessError` (O:1160-1175): nothing tries again. `Observe` compares the
  spec with that record and reports the resource up to date.
* `vpcendpoint` with `Faults = {"describe"}` or `{"lost"}`: a Describe that is
  throttled makes a second endpoint (V:198), and so does an answer of Create that is
  lost, as there is no client token; during a deletion the finalizer is removed and
  the endpoint left behind. `OneEndpoint` and `NoOrphanEndpoint` fail at once.

## Proofs

Every safety property that a passing run checks is also proved by TLAPS, save
`NoOrphan`, for every set of replicas, organizations, names and specs and every
bound, under the assumptions given. For `Organization`:

* `TypeCorrect`: `Spec => []TypeOK`. It is not inductive alone: writing
  `orgs[cr[r].ext]` keeps its domain only if the copy has a name.
  `TypeInv` adds `NameKnown`: wherever a reconcile is about to use the external
  name, `Observe` or `Create` has set it. One lemma per action.
* `OneCreatorAtATime`: `Spec => []OneCreator`, assuming `MaxApplies = 0`. The
  inductive invariant treats the pending annotation as a lock. `LockHeld`: while
  a replica creates, the stored resource says so. `ForeseesNone`: a replica that
  has not yet decided, and whose copy is current, has a copy without the
  annotation, and so has the API server. `CacheExact`: a cache counted as
  current equals the resource. Taking the lock needs a current copy; by
  `ForeseesNone` the lock was free then, by `LockHeld` nobody was creating.
* `NoDuplicate`: `Spec => []NoDuplicateOrg`, assuming `MaxApplies = 0` or a single
  replica, and that Atlas does not answer a search with a false 404 (which the code
  takes for "none", O:575 and client.go:228). `NothingToDuplicate`: a replica about
  to POST knows that there is nothing. It searched under the lock, and organizations
  of ours are made under the lock only. A single replica needs no lock.
* `LifecycleImplemented`: `Spec => ImplementsLifecycle`, assuming `MaxApplies = 0` and
  no false 404: every step maps to a step of `OrgLifecycle` or a stutter. What the
  lock does not give is that the resource outlasts its creation, for the finalizer
  is removed by replicas that hold no lock. `LifeInv` adds this: whoever removes it
  has seen the deletion (`DeletesSeen`); a deletion is never taken back
  (`DeletionKnown`); the lock is not taken of a resource that is being deleted, for
  that takes a current copy, which would show it (`ForeseesDeletion`); so whoever
  has seen a deletion, in its copy or in a cache it can start from, has outlived
  every creation (`DeletionAfter`), and while somebody creates the resource is there
  with its finalizer (`Outlasts`).
* `OnceInvariance`: `Spec => []OnceInv`, under the same assumptions: in its whole life
  the resource gets one organization (`OnlyOne`), not merely one at a time. One is
  only deleted by a replica that has seen the resource's deletion; by then every
  creation is over, and none begins any more (`Over`).
* `NameMatchesStatusCorrect`: `Spec => []NameMatchesStatus`, assuming besides that
  nobody makes organizations in the console. Every id in a copy, a cache or the
  resource is one of an organization that was made (`RecordsSound`), and there is
  only one.
* `RecordsKeptCorrect`: `Spec => RecordsKept`, under the same assumptions, with any
  number of replicas, lag, failures, restarts and edits. That an id is never replaced
  follows from `OnlyOne` and `RecordsSound`. That it is lost in the named ways only
  is `Held`: a copy that is current, so that it may be written, has every id that the
  resource has, and a copy whose id is being persisted has that id; all other
  writes put these into the resource, and only the retry of a status write puts a
  copy's status there that is not current.
* `KeyRetainedCorrect`: `Spec => KeyRetained`, assuming `MaxApplies = 0`, no console
  organizations, `PlainFaults`, and one replica or specs of one storage type.
  `PlainFaults` leaves the answers 400, 401, 403 and 409 and excludes ids that
  contain an error's digits: no answer passes for a deletion that did not take place.
  By `KeyInv` all keys are of the one organization (`KeysMade`), so that writing one
  over another loses nothing; a copy is deleted where another was just written
  (`PurgeSafe`), or when the organization is deleted, or no copy was there
  (`CleanSafe`).
* `OrphanOnlyWithoutKeyCorrect`: `Spec => OrphanOnlyWithoutKey`, for any number of
  replicas, assuming `MaxApplies = 0`, no console organizations, `PlainFaults`, and
  that every spec keeps the key in AWS under the same name (`OneSecret`). The key is
  then nowhere else (`OnePlace`), so who finds no key there may conclude that there
  is none: whoever is about to remove the finalizer leaves no live organization with
  a stored key (`LostSafe`), and a resource that has had an organization has the
  finalizer (`MadeFin`).
* `ForeignUntouchedCorrect`: `Spec => ForeignUntouched`, with no further assumption.
  By `KeysOurs` no key of a console organization is in a replica's hands or in a
  store: keys come from POST /orgs and from the stores, and the stores are written
  from a replica's hands. Atlas carries out a request only under the organization's
  own key (`CarriedOut`), hence none that is about a console organization.
* `StaysListedCorrect`: `Spec => StaysListed`, assuming only that every spec which
  enables a list has the provider's address on it (`AllListed`); any number of
  replicas, lag, failures, restarts, edits and re-creations. Who is about to remove
  addresses works under a spec that enables the list (`Removing`), and none of what
  that spec lists is removed, whatever the status says was provisioned.

For `VPCEndpoint`, for every set of workers, resources, ids and credentials:

* `VPCTypeCorrect`: `Spec => []VPCTypeOK`.
* `UsageRecordedCorrect`: `Spec => []UsageRecorded`, with no further assumption. A
  worker past `Track` has a usage for its resource while that is there (`UsageThere`):
  one that a cache misses cannot be made again but is there, one that a cache still
  shows is of a resource that has gone (`LagGone`), which does not come back.
* `ConfigKeptCorrect`: `Spec => ConfigKept`, with no further assumption. From the
  moment a resource can rely on it (`Relied`) until the resource is gone, the usage is
  in every cache, the ProviderConfig has its finalizer, and a controller that acts on a
  current copy does not act on a deletion (`Kept`): what it decided before the deletion
  was asked for is a conflict (`ControllerKnows`), and a List after it shows the usage.
* `OneEndpointCorrect`, `NoOrphanEndpointCorrect`: `Spec => []OneEndpoint` and
  `Spec => NoOrphanEndpoint`, assuming `Faults = {}`: Describe answers, and no answer
  of Create is lost. `SafeInv`: a worker at Create or after it holds the lock; at
  Create the resource has no endpoint; what a resource has, it names, unless its creation is
  pending; and what has an endpoint has a finalizer. Failed calls, lost answers of
  the API server, restarts and deletions in the console are covered.
* `EndpointLifecycleImplemented`: `Spec => ImplementsEndpointLifecycle`, under the same
  assumption: every step of workers, users and EC2 maps to a step of
  `EndpointLifecycle` or a stutter. To `SafeInv` it adds that a resource is there
  until its creation ends (`Attached`): while it is being created it has a finalizer,
  and that is only taken off through a current copy without the lock.

The assumptions mark where the properties end; each excludes something that TLC finds
to break one of them.

* `MaxApplies = 0`: with re-creations a delayed replica takes the finalizer off the
  new resource (above). `ForeignUntouched`, `StaysListed` and, for one replica,
  `NoDuplicate` do not need it.
* No false 404: it is taken for "no organization" and followed by a second POST.
* `PlainFaults`: `opaque_delete` is a run without it; 500, 503 and no answer are taken
  for a deletion, too.
* No console organizations: an organization that was adopted by its name has no key
  in the stores, so its id replaces that of ours, or what is deleted is not what the
  stored key is of. `ForeignUntouched`, `StaysListed` and
  those about creation do not need it.
* `OneSecret`: `Create` stores the key under a name taken from the spec, `delete` looks
  for it under the one in the status, if any (O:886, O:432-435); when the write of
  the status is lost the two differ.
* `AllListed`: a user who takes the address off the spec's list has it removed.
* One replica, `Faults = {}`: as described above.

The proofs rest besides on the assumptions in `OrgBase` (`SetsAssumption`,
`SpecsAssumption`, `BoundsAssumption`) and `ProviderConfig` (`ConnectAssumption`),
which only say that constants have their types and that sentinels are distinct; TLC
evaluates them in every run.

Only model-checked are the liveness properties `DeletionCompletes`,
`EndpointDeletionCompletes`, `EndpointRestored` and `ConfigDeletionCompletes`: they
need fairness and `ENABLED`, which are out of reach of the prover; and `NoOrphan`,
which holds in `release` only, under bounds (one replica, an exact cache, no failures,
no edits) that are too narrow for a theorem to say more than the run.
`NotLockedOut` and `StorageTypeTruthful` do not hold at all.

## Not modelled

* Fields nobody reads back: conditions, lifecycle state, counts, time stamps,
  error texts, ARN, secret namespace, connection details, KMS key, and the status of
  VPCEndpoints and ProviderConfigs.
* Writes of those fields are not modelled either (the deletion attempts, O:1245, or
  conditions), so they make no other copy stale: the code has more conflicts than
  the model, which any failed write stands for.
* What Atlas's search returns besides live organizations of that name: others by
  prefix, and deleted ones.
* `main.go:76`'s flag for the poll interval is not handed to the reconcilers, which
  poll every minute by their own default; the fairness holds either way.
* Several Organization resources that share a secret name; more than one
  ProviderConfig, and one that is created again.
* A POST that takes effect after its caller's timeout: a reply is given when the
  request takes effect or never.
* `Update` of the VPC endpoint controller: `Observe` always reports an endpoint up to
  date (V:223), so that edits of a VPCEndpoint are never applied and the reconciler
  never calls it.
* Dead code: `internal/clients/atlas`, `isAtlasTransientError`, the legacy access
  list calls, `ModifyVPCEndpointServiceConfiguration`, `WaitForVPCEndpointAvailable`.
* Generated code, scheme registration, feature flags, CRDs, examples, scripts: no
  state of their own.

Hazards without a property (`PROJECT.json` gives the reason for each): the missing
AWS client noticed too late (O:849), specs that never become up to date (O:671),
edited roles that are not noticed (O:1073), shared secret names (O:886), late POSTs,
and edits of a VPCEndpoint (V:223).

## Plan

Done: both compositions, safety and liveness runs, the two life cycles and their
refinement, and a theorem for every safety property of the passing runs but `NoOrphan`.

1. Prove more: `KeyRetained` with console organizations that are not deleted;
   `OrphanOnlyWithoutKey` for Kubernetes storage while
   the status is never lost; `ConfigKept`'s counterpart, that a usage is only collected
   when its resource is gone.
2. Extend the model: two resources that share a secret name; `Observe`'s comparison
   against convergence of `Update` (O:671, O:1073, O:1160).
