----------------------------- MODULE VPCEndpoint -----------------------------
(***************************************************************************)
(* The VPC endpoint controller and its EC2 client, on top of Connect and   *)
(* the ProviderConfig: one action per call.  Spec edits have no action:    *)
(* Observe reports every endpoint that exists as up to date, so Update is  *)
(* never called.                                                           *)
(***************************************************************************)
EXTENDS ProviderConfig

VARIABLES
    ec2,        \* ec2[i]: the state of each endpoint
    owner       \* owner[i]: the resource it was made for

cloud == <<ec2, owner>>
vars  == <<resource, provider, usage, worker, controller, cloud, errors>>

(* "available" also stands for "failed", "rejected" and the other states   *)
(* that only show in conditions; "gone" for ids Describe no longer finds.  *)
States == {"free", "pending", "available", "deleting", "deleted", "gone"}

Up == {i \in Ids : ec2[i] \in {"pending", "available"}}

Init ==
    /\ mr = [m \in Resources |-> Unborn]
    /\ config \in [present : {TRUE}, deleting : {FALSE}, fin : {FALSE}, creds : Credentials]
    /\ caches = {config} /\ usages = {} /\ lag = {} /\ fresh = {}
    /\ pc = [w \in Workers |-> "idle"]
    /\ on = [w \in Workers |-> None]
    /\ cr = [w \in Workers |-> Unborn]
    /\ cpc = "idle" /\ cdel = FALSE /\ cfresh = FALSE
    /\ ec2 = [i \in Ids |-> "free"]
    /\ owner = [i \in Ids |-> None]
    /\ errors = 0

-----------------------------------------------------------------------------
(* A reconcile, once connected.                                            *)

Continue(w, copy, next) ==
    IF next = "finish" THEN Ending(w)
    ELSE /\ Goto(w, next)
         /\ cr' = [cr EXCEPT ![w] = copy]

(* Fault: an endpoint counts once it is available.                         *)
ExistsWhenAvailable(id) == id # None /\ ec2[id] = "available"

(* Fault: what has a name exists.                                          *)
ExistsOnceNamed(id) == id # None

(* What Describe finds: an endpoint that is being, or has been, deleted is *)
(* still reported for a while.                                             *)
Exists(id) == id # None /\ ec2[id] \in {"pending", "available", "deleting", "deleted"}

(* Where the reconcile goes next: to Delete, or past AddFinalizer.         *)
Observed(w, exists) ==
    Goto(w, CASE cr[w].deleting  /\ exists  -> "delete"
              [] cr[w].deleting  /\ ~exists -> "unfinalize"
              [] ~cr[w].deleting /\ exists  -> "finalizer"
              [] OTHER                      -> "finalizeNew")

(* Whatever goes wrong, the endpoint counts as not existing.               *)
Observe(w) ==
    /\ pc[w] = "connected" /\ on[w] \notin Organizations
    /\ \/ Observed(w, Exists(cr[w].ext)) /\ UNCHANGED errors
       \/ /\ "describe" \in Faults /\ cr[w].ext # None
          /\ errors < MaxErrors /\ errors' = errors + 1
          /\ Observed(w, FALSE)
    /\ UNCHANGED <<resource, provider, usage, on, cr, controller, cloud>>

(* Updates of the resource through w's copy.                               *)
Put(w, new, next) ==
    \/ /\ Current(w)
       /\ \E out \in Outcomes :
             /\ Outcome(out)
             /\ CASE out = "ok"   -> Store(w, {w}, new) /\ Continue(w, new, next)
                  [] out = "lost" -> Store(w, {}, new) /\ Ending(w)
                  [] out = "fail" -> UNCHANGED resource /\ Ending(w)
    \/ /\ ~Current(w)                            \* conflict, or not found
       /\ Ending(w)
       /\ UNCHANGED <<resource, errors>>

(* The finalizer is there before anything is created.                      *)
AddFinalizer(w) ==
    /\ pc[w] \in {"finalizer", "finalizeNew"}
    /\ UNCHANGED <<provider, usage, on, controller, cloud>>
    /\ LET next == IF pc[w] = "finalizer" THEN "finish" ELSE "pending" IN
       \/ cr[w].fin /\ Continue(w, cr[w], next) /\ UNCHANGED <<resource, errors>>
       \/ ~cr[w].fin /\ Put(w, [cr[w] EXCEPT !.fin = TRUE], next)

(* Fault: the annotation never leaves the worker's copy.                   *)
MarkPendingInMemory(w) ==
    /\ pc[w] = "pending"
    /\ Continue(w, [cr[w] EXCEPT !.ann = "pending"], "create")
    /\ UNCHANGED <<resource, provider, usage, on, controller, cloud, errors>>

(* Fault: an annotation that Start does not know.                          *)
MarkCreating(w) ==
    /\ pc[w] = "pending"
    /\ Put(w, [cr[w] EXCEPT !.ann = "creating"], "create")
    /\ UNCHANGED <<provider, usage, on, controller, cloud>>

MarkPending(w) ==
    /\ pc[w] = "pending"
    /\ Put(w, [cr[w] EXCEPT !.ann = "pending"], "create")
    /\ UNCHANGED <<provider, usage, on, controller, cloud>>

(* CreateVpcEndpoint carries no client token: nothing ties a second call   *)
(* to a first one whose answer was lost.                                   *)
CreateVPCEndpoint(i, m) ==
    /\ ec2[i] = "free"
    /\ ec2' = [ec2 EXCEPT ![i] = "pending"]
    /\ owner' = [owner EXCEPT ![i] = m]

(* The id is taken from the answer, and only from there.                   *)
Create(w) ==
    /\ pc[w] = "create"
    /\ UNCHANGED <<resource, provider, usage, on, controller>>
    /\ \/ \E i \in Ids :
             /\ CreateVPCEndpoint(i, on[w])
             /\ \/ /\ Continue(w, [cr[w] EXCEPT !.ann = "succeeded", !.ext = i], "annotate")
                   /\ UNCHANGED errors
                \/ /\ "lost" \in Faults /\ errors < MaxErrors /\ errors' = errors + 1
                   /\ Continue(w, [cr[w] EXCEPT !.ann = "failed"], "annotate")
       \/ /\ errors < MaxErrors /\ errors' = errors + 1
          /\ Continue(w, [cr[w] EXCEPT !.ann = "failed"], "annotate")
          /\ UNCHANGED cloud

(* UpdateCriticalAnnotations: repeated on conflicts, which do not outlast  *)
(* its attempts.                                                           *)
Annotate(w) ==
    /\ pc[w] = "annotate"
    /\ Ending(w)
    /\ \/ /\ Present(on[w])
          /\ Store(w, {w}, [mr[on[w]] EXCEPT !.ann = cr[w].ann, !.ext = cr[w].ext])
          /\ UNCHANGED errors
       \/ ~Present(on[w]) /\ UNCHANGED <<resource, errors>>
       \/ /\ errors < MaxErrors /\ errors' = errors + 1
          /\ UNCHANGED resource
    /\ UNCHANGED <<provider, usage, on, controller, cloud>>

(* DeleteVpcEndpoints lists an endpoint it did not delete in its answer,   *)
(* which is not read.                                                      *)
DeleteVPCEndpoint(id) ==
    ec2' = [ec2 EXCEPT ![id] = IF @ \in {"pending", "available"} THEN "deleting" ELSE @]

(* Success and error lead alike to the next reconcile, whose Observe       *)
(* decides.                                                                *)
Delete(w) ==
    /\ pc[w] = "delete"
    /\ Ending(w)
    /\ \/ DeleteVPCEndpoint(cr[w].ext) /\ UNCHANGED errors
       \/ /\ errors < MaxErrors /\ errors' = errors + 1
          /\ UNCHANGED ec2
    /\ UNCHANGED <<resource, provider, usage, on, controller, owner>>

RemoveFinalizer(w) ==
    /\ pc[w] = "unfinalize"
    /\ Put(w, [cr[w] EXCEPT !.fin = FALSE, !.life = "gone"], "finish")
    /\ UNCHANGED <<provider, usage, on, controller, cloud>>

EndpointStep(w) ==
    \/ Observe(w) \/ AddFinalizer(w) \/ MarkPending(w) \/ Create(w)
    \/ Annotate(w) \/ Delete(w) \/ RemoveFinalizer(w)

ConnectStep(w) ==
    \/ \E m \in Resources : Start(w, m)
    \/ Track(w) \/ GetConfig(w) \/ Finish(w) \/ WorkOnOrganization(w)

-----------------------------------------------------------------------------
(* EC2 makes progress with what was asked of it, and someone may delete an *)
(* endpoint in the AWS console.                                            *)

Progress(i) ==
    /\ \E step \in {<<"pending", "available">>, <<"deleting", "deleted">>, <<"deleted", "gone">>} :
          ec2[i] = step[1] /\ ec2' = [ec2 EXCEPT ![i] = step[2]]
    /\ UNCHANGED <<resource, provider, usage, worker, controller, owner, errors>>

(* Bound: while EC2 can still replace it.                                  *)
ConsoleDelete(i) ==
    /\ "console" \in Users
    /\ ec2[i] = "available" /\ \E j \in Ids : ec2[j] = "free"
    /\ ec2' = [ec2 EXCEPT ![i] = "deleting"]
    /\ UNCHANGED <<resource, provider, usage, worker, controller, owner, errors>>

Reconcile(w) == EndpointStep(w) \/ (ConnectStep(w) /\ UNCHANGED cloud)

Next ==
    \/ \E w \in Workers : Reconcile(w) \/ (Crash(w) /\ UNCHANGED cloud)
    \/ ControllerStep /\ UNCHANGED cloud
    \/ \E m \in Resources :
          (CollectUsage(m) \/ UsageCached(m) \/ UserApply(m) \/ UserDelete(m)) /\ UNCHANGED cloud
    \/ (ConfigCached \/ UserSetCredentials \/ UserDeleteConfig) /\ UNCHANGED cloud
    \/ \E i \in Ids : Progress(i) \/ ConsoleDelete(i)

Spec == Init /\ [][Next]_vars

(* A worker goes on with what it has begun and a queue hands out every     *)
(* resource in its turn; usages trigger the ProviderConfig controller, the *)
(* garbage collector and EC2 do what they were asked, and the informer     *)
(* caches catch up.                                                        *)
FairSpec ==
    /\ Spec
    /\ \A w \in Workers : WF_vars(Reconcile(w))
    /\ \A m \in Resources : SF_vars(\E w \in Workers : Start(w, m) /\ UNCHANGED cloud)
    /\ WF_vars(ControllerStep /\ UNCHANGED cloud)
    /\ \A m \in Resources : /\ WF_vars(CollectUsage(m) /\ UNCHANGED cloud)
                            /\ WF_vars(UsageCached(m) /\ UNCHANGED cloud)
    /\ WF_vars(ConfigCached /\ UNCHANGED cloud)
    /\ \A i \in Ids : WF_vars(Progress(i))

-----------------------------------------------------------------------------
(* Properties.                                                             *)

VPCEndpoints == Resources \ Organizations

Labels == {"idle", "track", "config", "connected", "unfinalize", "delete", "finalizer",
           "finalizeNew", "pending", "create", "annotate", "finish"}

(* Every variable stays in its domain.                                     *)
VPCTypeOK ==
    /\ mr \in [Resources -> Managed]
    /\ config \in Configs /\ caches \subseteq Configs
    /\ usages \subseteq Resources /\ lag \subseteq Resources
    /\ pc \in [Workers -> Labels]
    /\ on \in [Workers -> Resources \cup {None}]
    /\ cr \in [Workers -> Managed]
    /\ fresh \subseteq Workers
    /\ cpc \in {"idle", "act"} /\ cdel \in BOOLEAN /\ cfresh \in BOOLEAN
    /\ ec2 \in [Ids -> States]
    /\ owner \in [Ids -> Resources \cup {None}]
    /\ errors \in 0..MaxErrors

(* A resource never has two endpoints that are not being deleted, whatever *)
(* workers, failed calls, restarts and deletions in the console do, as     *)
(* long as Describe answers and no answer to Create is lost.               *)
OneEndpoint == \A i, j \in Up : owner[i] = owner[j] => i = j

(* A VPCEndpoint does not disappear before its endpoint: "Delete removes   *)
(* the VPC endpoint".                                                      *)
NoOrphanEndpoint ==
    [][\A m \in VPCEndpoints :
          Present(m) /\ mr'[m].life = "gone" => \A i \in Up' : owner'[i] # m]_vars

BeingCreated(m) == \E w \in Workers : pc[w] \in {"create", "annotate"} /\ on[w] = m

(* The VPCEndpoints and their endpoints go through the life cycle that     *)
(* EndpointLifecycle describes: all workers together amount to one         *)
(* creation at a time for each resource, which the resource outlasts; and  *)
(* what Observe, the finalizer and the annotations make of stale copies,   *)
(* failed calls and restarts, to one endpoint that goes before it does.    *)
phaseBar ==
    [m \in VPCEndpoints |->
        IF ~Present(m) THEN mr[m].life ELSE IF BeingCreated(m) THEN "creating" ELSE "settled"]

hasBar  == [m \in VPCEndpoints |-> {i \in Up : owner[i] = m}]
usedBar == {i \in Ids : ec2[i] # "free"}

Lifecycle == INSTANCE EndpointLifecycle
                 WITH Resources <- VPCEndpoints, phase <- phaseBar, has <- hasBar, used <- usedBar

ImplementsEndpointLifecycle == Lifecycle!Spec

(* A resource with its finalizer has its usage: no failed call, cache or   *)
(* worker lets Connect reach the finalizer without what Track writes.      *)
UsageRecorded == \A m \in Resources : Present(m) /\ mr[m].fin => m \in usages

(* The usage of m has reached every cache while the ProviderConfig has its *)
(* finalizer and no deletion is asked for.                                 *)
Relied(m) ==
    /\ config.present /\ config.fin /\ ~config.deleting
    /\ Present(m) /\ m \in usages \ lag

(* From then on the ProviderConfig is there until the resource is gone,    *)
(* whatever caches of ProviderConfig and usages the controller decides on. *)
ConfigKept == \A m \in Resources : [](Relied(m) => [](Present(m) => config.present))

(* Nothing but a user can help such a resource.                            *)
Helpless(m) ==
    mr[m].ann = "pending" \/ ~config.present \/ Connection(m) # "client"

(* A VPCEndpoint that is being deleted is gone in the end, although EC2    *)
(* reports a deleted endpoint for a while and Observe takes that for an    *)
(* endpoint that exists.                                                   *)
EndpointDeletionCompletes ==
    \A m \in VPCEndpoints :
        (Present(m) /\ mr[m].deleting) ~> (~Present(m) \/ Helpless(m))

(* An endpoint that was deleted in the AWS console is replaced, unless its *)
(* resource goes too.                                                      *)
EndpointRestored ==
    \A m \in VPCEndpoints :
        (Present(m) /\ \E i \in Ids : mr[m].ext = i /\ ec2[i] = "gone")
            ~> (~Present(m) \/ mr[m].deleting \/ Helpless(m)
                \/ \E i \in Up : owner[i] = m)

(* A ProviderConfig whose resources are all gone can be deleted: no usage  *)
(* outlives them for good, also one that a late Track has made.            *)
ConfigDeletionCompletes ==
    (config.deleting /\ \A m \in Resources : ~Present(m))
        ~> (~config.present \/ \E m \in Resources : Present(m))

=============================================================================
