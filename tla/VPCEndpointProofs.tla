-------------------------- MODULE VPCEndpointProofs --------------------------
(***************************************************************************)
(* Proofs about VPCEndpoint: types, that a resource with its finalizer has *)
(* its usage, and that the usage keeps the ProviderConfig.                 *)
(***************************************************************************)
EXTENDS VPCEndpoint, TLAPS

-----------------------------------------------------------------------------
(* Types.                                                                  *)

LEMMA Parameters ==
    /\ Organizations \subseteq Resources
    /\ None \notin Ids \cup Resources
    /\ Credentials # {} /\ Credentials \subseteq Sources
    /\ MaxErrors \in Nat
BY ConnectAssumption

LEMMA ManagedTypes ==
    ASSUME NEW c \in Managed, NEW d \in Managed
    PROVE  /\ Unborn \in Managed
           /\ [c EXCEPT !.fin = TRUE] \in Managed
           /\ [c EXCEPT !.deleting = TRUE] \in Managed
           /\ [c EXCEPT !.life = "gone"] \in Managed
           /\ [c EXCEPT !.fin = FALSE, !.life = "gone"] \in Managed
           /\ \A a \in {"pending", "failed"} : [c EXCEPT !.ann = a] \in Managed
           /\ \A i \in Ids : [c EXCEPT !.ann = "succeeded", !.ext = i] \in Managed
           /\ [c EXCEPT !.ann = d.ann, !.ext = d.ext] \in Managed
BY DEF Managed, Unborn

(* VPCTypeOK is not inductive alone: a usage is made for a resource, which *)
(* a reconcile has.                                                        *)
Bound == \A w \in Workers : pc[w] # "idle" => on[w] \in Resources

VPCTypeInv == VPCTypeOK /\ Bound

LEMMA InitTyped == Init => VPCTypeInv
<1> SUFFICES ASSUME Init PROVE VPCTypeInv
  OBVIOUS
<1>1. Unborn \in Managed
  BY DEF Unborn, Managed
<1>2. config \in Configs /\ caches \subseteq Configs
  BY DEF Init, Configs
<1>3. mr \in [Resources -> Managed] /\ cr \in [Workers -> Managed]
  BY <1>1 DEF Init
<1>4. pc \in [Workers -> Labels] /\ Bound
  BY DEF Init, Labels, Bound
<1>5. ec2 \in [Ids -> States] /\ owner \in [Ids -> Resources \cup {None}]
  BY DEF Init, States
<1>6. errors \in 0..MaxErrors
  BY Parameters DEF Init
<1> QED
  BY <1>2, <1>3, <1>4, <1>5, <1>6 DEF Init, VPCTypeOK, VPCTypeInv

LEMMA OutcomeTyped ==
    ASSUME VPCTypeOK, NEW out \in Outcomes, Outcome(out)
    PROVE  errors' \in 0..MaxErrors
BY Parameters DEF Outcomes, Outcome, VPCTypeOK

LEMMA ErrorsTyped ==
    ASSUME VPCTypeOK, UNCHANGED errors \/ (errors < MaxErrors /\ errors' = errors + 1)
    PROVE  errors' \in 0..MaxErrors
BY Parameters DEF VPCTypeOK

LEMMA StoreTyped ==
    ASSUME VPCTypeOK, NEW w \in Workers, NEW mine \in SUBSET {w}, NEW new \in Managed,
           Store(w, mine, new)
    PROVE  mr' \in [Resources -> Managed] /\ fresh' \subseteq Workers
BY DEF VPCTypeOK, Store, Others

(* What a worker's step does to its local state.                           *)
Local(w) ==
    \/ Idle(w)
    \/ Ending(w) /\ UNCHANGED on
    \/ \E copy \in Managed, next \in Labels : Continue(w, copy, next) /\ UNCHANGED on

LocalOK ==
    /\ pc \in [Workers -> Labels]
    /\ on \in [Workers -> Resources \cup {None}]
    /\ cr \in [Workers -> Managed]
    /\ Bound

LEMMA LocalTyped ==
    ASSUME VPCTypeInv, NEW w \in Workers, pc[w] # "idle", Local(w)
    PROVE  LocalOK'
<1>1. Unborn \in Managed
  BY DEF Unborn, Managed
<1>2. CASE Idle(w)
  BY <1>1, <1>2 DEF VPCTypeInv, VPCTypeOK, LocalOK, Bound, Idle, Goto, Labels
<1>3. CASE Ending(w) /\ UNCHANGED on
  BY <1>1, <1>3 DEF VPCTypeInv, VPCTypeOK, LocalOK, Bound, Ending, Goto, Labels
<1>4. ASSUME NEW copy \in Managed, NEW next \in Labels, Continue(w, copy, next), UNCHANGED on
      PROVE  LocalOK'
  BY <1>1, <1>4 DEF VPCTypeInv, VPCTypeOK, LocalOK, Bound, Continue, Ending, Goto, Labels
<1> QED
  BY <1>2, <1>3, <1>4 DEF Local

(* The rest of the types, for a worker's step that leaves cloud, provider, *)
(* usage and the controller alone.                                         *)
LEMMA WorkerTyped ==
    ASSUME VPCTypeInv, LocalOK', errors' \in 0..MaxErrors,
           mr' \in [Resources -> Managed], fresh' \subseteq Workers,
           UNCHANGED <<provider, usage, controller, cloud>>
    PROVE  VPCTypeInv'
BY DEF VPCTypeInv, VPCTypeOK, LocalOK, provider, usage, controller, cloud

LEMMA PutTyped ==
    ASSUME VPCTypeInv, NEW w \in Workers, NEW new \in Managed, NEW next \in Labels,
           pc[w] # "idle",
           Put(w, new, next), UNCHANGED <<provider, usage, on, controller, cloud>>
    PROVE  VPCTypeInv'
<1>1. LocalOK'
  <2>1. Ending(w) \/ Continue(w, new, next)
    BY DEF Put, Outcomes
  <2> QED
    BY <2>1, LocalTyped DEF Local
<1>2. mr' \in [Resources -> Managed] /\ fresh' \subseteq Workers
  <2>1. UNCHANGED resource \/ Store(w, {}, new) \/ Store(w, {w}, new)
    BY DEF Put, Outcomes
  <2> QED
    BY <2>1, StoreTyped DEF VPCTypeInv, VPCTypeOK, resource
<1>3. errors' \in 0..MaxErrors
  BY OutcomeTyped DEF Put, VPCTypeInv, VPCTypeOK
<1> QED
  BY <1>1, <1>2, <1>3, WorkerTyped

LEMMA StartTyped ==
    ASSUME VPCTypeInv, NEW w \in Workers, NEW m \in Resources, Start(w, m), UNCHANGED cloud
    PROVE  VPCTypeInv'
BY DEF VPCTypeInv, VPCTypeOK, Bound, Start, Present, Goto, Labels, provider, usage, controller, cloud

LEMMA TrackTyped ==
    ASSUME VPCTypeInv, NEW w \in Workers, Track(w), UNCHANGED cloud
    PROVE  VPCTypeInv'
<1>1. LocalOK'
  <2>1. CASE Ending(w)
    BY <2>1, LocalTyped DEF Track, Local
  <2>2. CASE Goto(w, "config") /\ UNCHANGED cr
    BY <2>2 DEF VPCTypeInv, VPCTypeOK, LocalOK, Bound, Goto, Labels, Track
  <2> QED
    BY <2>1, <2>2 DEF Track
<1>2. usages' \subseteq Resources /\ lag' \subseteq Resources
  <2>1. on[w] \in Resources
    BY DEF Track, VPCTypeInv, Bound
  <2>2. /\ usages' \subseteq usages \cup {on[w]}
        /\ lag' \subseteq lag \cup {on[w]}
    BY DEF Track, WriteUsage, usage
  <2>3. usages \subseteq Resources /\ lag \subseteq Resources
    BY DEF VPCTypeInv, VPCTypeOK
  <2> QED
    BY <2>1, <2>2, <2>3
<1>3. errors' \in 0..MaxErrors
  BY OutcomeTyped, ErrorsTyped DEF Track, VPCTypeInv
<1> QED
  BY <1>1, <1>2, <1>3 DEF Track, VPCTypeInv, VPCTypeOK, LocalOK, provider, controller, cloud, resource

LEMMA GetConfigTyped ==
    ASSUME VPCTypeInv, NEW w \in Workers, GetConfig(w), UNCHANGED cloud
    PROVE  VPCTypeInv'
<1>1. LocalOK'
  <2>1. CASE Idle(w)
    BY <2>1, LocalTyped DEF GetConfig, Local
  <2>2. CASE Ending(w) /\ UNCHANGED on
    BY <2>2, LocalTyped DEF GetConfig, Local
  <2>3. CASE Goto(w, "connected") /\ UNCHANGED <<on, cr>>
    BY <2>3 DEF VPCTypeInv, VPCTypeOK, LocalOK, Bound, Goto, Labels, GetConfig
  <2> QED
    BY <2>1, <2>2, <2>3 DEF GetConfig
<1>2. mr' \in [Resources -> Managed] /\ fresh' \subseteq Workers
  BY DEF GetConfig, VPCTypeInv, VPCTypeOK
<1>3. errors' \in 0..MaxErrors
  BY ErrorsTyped DEF GetConfig, VPCTypeInv
<1> QED
  BY <1>1, <1>2, <1>3, WorkerTyped DEF GetConfig

LEMMA FinishTyped ==
    ASSUME VPCTypeInv, NEW w \in Workers, Finish(w), UNCHANGED cloud
    PROVE  VPCTypeInv'
<1>1. LocalOK'
  BY LocalTyped DEF Finish, Local
<1>2. fresh' \subseteq Workers
  BY DEF Finish, Others, VPCTypeInv, VPCTypeOK
<1> QED
  BY <1>1, <1>2, WorkerTyped DEF Finish, VPCTypeInv, VPCTypeOK

LEMMA WorkOnOrganizationTyped ==
    ASSUME VPCTypeInv, NEW w \in Workers, WorkOnOrganization(w), UNCHANGED cloud
    PROVE  VPCTypeInv'
<1>1. LocalOK'
  BY LocalTyped DEF WorkOnOrganization, Local
<1>2. cr[w] \in Managed
  BY DEF VPCTypeInv, VPCTypeOK
<1>3. [cr[w] EXCEPT !.fin = TRUE] \in Managed /\ [cr[w] EXCEPT !.life = "gone"] \in Managed
  BY <1>2, ManagedTypes
<1>4. mr' \in [Resources -> Managed] /\ fresh' \subseteq Workers
  BY <1>3, StoreTyped DEF WorkOnOrganization, VPCTypeInv, VPCTypeOK, resource
<1> QED
  BY <1>1, <1>4, WorkerTyped DEF WorkOnOrganization, VPCTypeInv, VPCTypeOK

LEMMA CrashTyped ==
    ASSUME VPCTypeInv, NEW w \in Workers, Crash(w), UNCHANGED cloud
    PROVE  VPCTypeInv'
<1>1. LocalOK'
  BY LocalTyped DEF Crash, Local
<1>2. errors' \in 0..MaxErrors
  BY ErrorsTyped DEF Crash, VPCTypeInv
<1> QED
  BY <1>1, <1>2, WorkerTyped DEF Crash, VPCTypeInv, VPCTypeOK

LEMMA ControllerTyped ==
    ASSUME VPCTypeInv, ControllerStep, UNCHANGED cloud
    PROVE  VPCTypeInv'
<1>1. CASE ConfigList
  BY <1>1 DEF VPCTypeInv, VPCTypeOK, Bound, ConfigList, Decided, Configs, resource, worker,
              provider, usage, cloud
<1>2. CASE ConfigAct
  <2>1. config' \in Configs /\ caches' \subseteq Configs
    BY <1>2 DEF VPCTypeInv, VPCTypeOK, ConfigAct, SetConfig, Configs, provider
  <2>2. errors' \in 0..MaxErrors
    BY <1>2, OutcomeTyped DEF VPCTypeInv, VPCTypeOK, ConfigAct
  <2> QED
    BY <1>2, <2>1, <2>2 DEF VPCTypeInv, VPCTypeOK, Bound, ConfigAct, resource, worker, usage, cloud
<1> QED
  BY <1>1, <1>2 DEF ControllerStep

LEMMA EnvironmentTyped ==
    ASSUME VPCTypeInv, UNCHANGED cloud,
           \/ UserSetCredentials \/ UserDeleteConfig \/ ConfigCached
           \/ \E m \in Resources :
                 CollectUsage(m) \/ UsageCached(m) \/ UserApply(m) \/ UserDelete(m)
    PROVE  VPCTypeInv'
<1>1. CASE UserSetCredentials
  BY <1>1 DEF VPCTypeInv, VPCTypeOK, Bound, UserSetCredentials, SetConfig, Configs, resource,
              worker, usage, cloud
<1>2. CASE UserDeleteConfig
  BY <1>2 DEF VPCTypeInv, VPCTypeOK, Bound, UserDeleteConfig, SetConfig, Configs, resource,
              worker, usage, cloud
<1>3. ASSUME NEW m \in Resources, CollectUsage(m) \/ UsageCached(m)
      PROVE  VPCTypeInv'
  BY <1>3 DEF VPCTypeInv, VPCTypeOK, Bound, CollectUsage, UsageCached, resource, worker,
              provider, controller, cloud
<1>4. ASSUME NEW m \in Resources, UserApply(m)
      PROVE  VPCTypeInv'
  <2>1. mr' \in [Resources -> Managed]
    <3>1. PICK new \in Managed : new = [Unborn EXCEPT !.life = "present"]
      BY DEF Managed, Unborn
    <3>2. mr' = [mr EXCEPT ![m] = new]
      BY <1>4, <3>1 DEF VPCTypeInv, VPCTypeOK, UserApply
    <3> QED
      BY <3>2 DEF VPCTypeInv, VPCTypeOK
  <2> QED
    BY <1>4, <2>1 DEF VPCTypeInv, VPCTypeOK, Bound, UserApply, worker, provider, usage,
                          controller, cloud
<1>5. ASSUME NEW m \in Resources, UserDelete(m)
      PROVE  VPCTypeInv'
  <2>1. mr' \in [Resources -> Managed]
    <3>1. PICK new \in Managed : new = IF mr[m].fin THEN [mr[m] EXCEPT !.deleting = TRUE]
                                                   ELSE [mr[m] EXCEPT !.life = "gone"]
      BY ManagedTypes DEF VPCTypeInv, VPCTypeOK
    <3>2. mr' = [mr EXCEPT ![m] = new]
      BY <1>5, <3>1 DEF UserDelete
    <3> QED
      BY <3>2 DEF VPCTypeInv, VPCTypeOK
  <2> QED
    BY <1>5, <2>1 DEF VPCTypeInv, VPCTypeOK, Bound, UserDelete, Others, worker, provider,
                          usage, controller, cloud
<1>6. CASE ConfigCached
  BY <1>6 DEF VPCTypeInv, VPCTypeOK, Bound, ConfigCached, resource, worker, usage, controller, cloud
<1> QED
  BY <1>1, <1>2, <1>3, <1>4, <1>5, <1>6

LEMMA ObserveTyped ==
    ASSUME VPCTypeInv, NEW w \in Workers, Observe(w)
    PROVE  VPCTypeInv'
<1>1. LocalOK'
  BY DEF VPCTypeInv, VPCTypeOK, LocalOK, Bound, Observe, Observed, Goto, Labels
<1>2. errors' \in 0..MaxErrors
  BY ErrorsTyped DEF Observe, VPCTypeInv
<1> QED
  BY <1>1, <1>2, WorkerTyped DEF Observe, resource, VPCTypeInv, VPCTypeOK

LEMMA AddFinalizerTyped ==
    ASSUME VPCTypeInv, NEW w \in Workers, AddFinalizer(w)
    PROVE  VPCTypeInv'
<1>1. cr[w] \in Managed /\ [cr[w] EXCEPT !.fin = TRUE] \in Managed
  BY ManagedTypes DEF VPCTypeInv, VPCTypeOK
<1>2. PICK next \in {"finish", "pending"} :
         \/ Continue(w, cr[w], next) /\ UNCHANGED <<resource, errors>>
         \/ Put(w, [cr[w] EXCEPT !.fin = TRUE], next)
  BY DEF AddFinalizer
<1>3. CASE Continue(w, cr[w], next) /\ UNCHANGED <<resource, errors>>
  <2>1. LocalOK'
    BY <1>1, <1>3, LocalTyped DEF Local, Labels, AddFinalizer
  <2> QED
    BY <1>3, <2>1, WorkerTyped DEF AddFinalizer, resource, VPCTypeInv, VPCTypeOK
<1>4. CASE Put(w, [cr[w] EXCEPT !.fin = TRUE], next)
  BY <1>1, <1>4, PutTyped DEF Labels, AddFinalizer
<1> QED
  BY <1>2, <1>3, <1>4

LEMMA MarkPendingTyped ==
    ASSUME VPCTypeInv, NEW w \in Workers, MarkPending(w)
    PROVE  VPCTypeInv'
<1>1. [cr[w] EXCEPT !.ann = "pending"] \in Managed
  BY ManagedTypes DEF VPCTypeInv, VPCTypeOK
<1> QED
  BY <1>1, PutTyped DEF Labels, MarkPending

LEMMA RemoveFinalizerTyped ==
    ASSUME VPCTypeInv, NEW w \in Workers, RemoveFinalizer(w)
    PROVE  VPCTypeInv'
<1>1. [cr[w] EXCEPT !.fin = FALSE, !.life = "gone"] \in Managed
  BY ManagedTypes DEF VPCTypeInv, VPCTypeOK
<1> QED
  BY <1>1, PutTyped DEF Labels, RemoveFinalizer

LEMMA CreateTyped ==
    ASSUME VPCTypeInv, NEW w \in Workers, Create(w)
    PROVE  VPCTypeInv'
<1>1. /\ [cr[w] EXCEPT !.ann = "failed"] \in Managed
      /\ \A i \in Ids : [cr[w] EXCEPT !.ann = "succeeded", !.ext = i] \in Managed
  BY ManagedTypes DEF VPCTypeInv, VPCTypeOK
<1>2. LocalOK'
  <2>1. \E copy \in Managed : Continue(w, copy, "annotate")
    BY <1>1 DEF Create, CreateVPCEndpoint
  <2> QED
    BY <2>1, LocalTyped DEF Local, Labels, Create, CreateVPCEndpoint
<1>3. errors' \in 0..MaxErrors
  BY ErrorsTyped DEF Create, CreateVPCEndpoint, VPCTypeInv
<1>4. ec2' \in [Ids -> States] /\ owner' \in [Ids -> Resources \cup {None}]
  BY DEF Create, CreateVPCEndpoint, VPCTypeInv, VPCTypeOK, States, cloud
<1> QED
  BY <1>2, <1>3, <1>4 DEF Create, CreateVPCEndpoint, VPCTypeInv, VPCTypeOK, LocalOK,
                              provider, usage, controller, resource

LEMMA AnnotateTyped ==
    ASSUME VPCTypeInv, NEW w \in Workers, Annotate(w)
    PROVE  VPCTypeInv'
<1>1. LocalOK'
  BY LocalTyped DEF Annotate, Local
<1>2. errors' \in 0..MaxErrors
  BY ErrorsTyped DEF Annotate, VPCTypeInv
<1>3. mr' \in [Resources -> Managed] /\ fresh' \subseteq Workers
  <2>1. CASE UNCHANGED resource
    BY <2>1 DEF VPCTypeInv, VPCTypeOK, resource
  <2>2. CASE Store(w, {w}, [mr[on[w]] EXCEPT !.ann = cr[w].ann, !.ext = cr[w].ext])
    <3>1. mr[on[w]] \in Managed /\ cr[w] \in Managed
      BY DEF VPCTypeInv, VPCTypeOK, Bound, Annotate
    <3>2. [mr[on[w]] EXCEPT !.ann = cr[w].ann, !.ext = cr[w].ext] \in Managed
      BY <3>1, ManagedTypes
    <3> QED
      BY <2>2, <3>2, StoreTyped DEF VPCTypeInv
  <2> QED
    BY <2>1, <2>2 DEF Annotate
<1> QED
  BY <1>1, <1>2, <1>3, WorkerTyped DEF Annotate

LEMMA DeleteTyped ==
    ASSUME VPCTypeInv, NEW w \in Workers, Delete(w)
    PROVE  VPCTypeInv'
<1>1. LocalOK'
  BY LocalTyped DEF Delete, DeleteVPCEndpoint, Local
<1>2. errors' \in 0..MaxErrors
  BY ErrorsTyped DEF Delete, DeleteVPCEndpoint, VPCTypeInv
<1>3. ec2' \in [Ids -> States]
  BY DEF Delete, DeleteVPCEndpoint, VPCTypeInv, VPCTypeOK, States
<1> QED
  BY <1>1, <1>2, <1>3 DEF Delete, DeleteVPCEndpoint, VPCTypeInv, VPCTypeOK, LocalOK,
                         provider, usage, controller, resource

LEMMA CloudTyped ==
    ASSUME VPCTypeInv, NEW i \in Ids, Progress(i) \/ ConsoleDelete(i)
    PROVE  VPCTypeInv'
<1>1. ec2' \in [Ids -> States]
  BY DEF Progress, ConsoleDelete, VPCTypeInv, VPCTypeOK, States
<1> QED
  BY <1>1 DEF Progress, ConsoleDelete, VPCTypeInv, VPCTypeOK, Bound, provider, usage, controller,
              resource, worker

LEMMA NextTyped == VPCTypeInv /\ [Next]_vars => VPCTypeInv'
<1> SUFFICES ASSUME VPCTypeInv, [Next]_vars PROVE VPCTypeInv'
  OBVIOUS
<1>1. CASE UNCHANGED vars
  BY <1>1 DEF VPCTypeInv, VPCTypeOK, Bound, vars, resource, worker, provider, usage, controller, cloud
<1>2. ASSUME NEW w \in Workers, EndpointStep(w) PROVE VPCTypeInv'
  BY <1>2, ObserveTyped, AddFinalizerTyped, MarkPendingTyped, CreateTyped, AnnotateTyped,
     DeleteTyped, RemoveFinalizerTyped DEF EndpointStep
<1>3. ASSUME NEW w \in Workers, ConnectStep(w), UNCHANGED cloud PROVE VPCTypeInv'
  BY <1>3, StartTyped, TrackTyped, GetConfigTyped, FinishTyped, WorkOnOrganizationTyped
     DEF ConnectStep
<1>4. ASSUME NEW w \in Workers, Crash(w), UNCHANGED cloud PROVE VPCTypeInv'
  BY <1>4, CrashTyped
<1> QED
  BY <1>1, <1>2, <1>3, <1>4, ControllerTyped, EnvironmentTyped, CloudTyped DEF Next, Reconcile

THEOREM VPCTypeInvariance == Spec => []VPCTypeInv
BY InitTyped, NextTyped, PTL DEF Spec

(* Every variable stays in its domain, for all workers, resources, ids,    *)
(* credentials, faults and bounds: each step of Connect, of the endpoint   *)
(* controller and of the ProviderConfig controller keeps VPCTypeOK.        *)
THEOREM VPCTypeCorrect == Spec => []VPCTypeOK
<1>1. VPCTypeInv => VPCTypeOK
  BY DEF VPCTypeInv
<1> QED
  BY <1>1, VPCTypeInvariance, PTL

-----------------------------------------------------------------------------
(* Usages.                                                                 *)

Working == Labels \ {"idle", "finish"}
Tracking == Working \ {"track"}           \* Track has succeeded
Connected == Tracking \ {"config"}        \* Connect has returned

(* A reconcile has a resource, which was there when it started.            *)
WorkerBound ==
    \A w \in Workers :
        /\ pc[w] # "idle" => on[w] \in Resources /\ mr[on[w]].life # "unborn"
        /\ pc[w] \in Working => cr[w].life = "present"

(* A resource that is being worked on has its usage.                       *)
UsageThere ==
    \A w \in Workers : pc[w] \in Tracking /\ Present(on[w]) => on[w] \in usages

(* A usage is made for a resource that was there, and is collected when it *)
(* has gone.                                                               *)
UsageBorn == \A m \in usages \cup lag : mr[m].life # "unborn"
LagGone == \A m \in lag : m \notin usages => ~Present(m)

(* The ProviderConfig controller's copy is current when it says so.        *)
ControllerKnows == cpc = "act" /\ cfresh => cdel = config.deleting

RecordedRest ==
    /\ WorkerBound /\ UsageThere /\ UsageBorn /\ LagGone
    /\ UsageRecorded /\ ControllerKnows

RecordedInv == VPCTypeInv /\ RecordedRest

(* A resource that has come and gone does not come back.                   *)
LifeGoesOn ==
    \A m \in Resources :
        mr[m].life # "unborn" => mr'[m].life # "unborn" /\ (Present(m)' => Present(m))

(* A finalizer is put on a resource by a worker that is past Track.        *)
FinGoesOn(w) ==
    \A m \in Resources :
        Present(m)' /\ mr'[m].fin => Present(m) /\ (mr[m].fin \/ (pc[w] \in Tracking /\ on[w] = m))

LEMMA StoreLife ==
    ASSUME VPCTypeOK, NEW w \in Workers, on[w] \in Resources, Present(on[w]), pc[w] \in Tracking,
           NEW mine, NEW new \in Managed, new.life # "unborn", Store(w, mine, new)
    PROVE  LifeGoesOn /\ FinGoesOn(w)
BY DEF VPCTypeOK, Store, LifeGoesOn, FinGoesOn, Present

LEMMA SameLife ==
    ASSUME UNCHANGED mr, NEW w
    PROVE  LifeGoesOn /\ FinGoesOn(w)
BY DEF LifeGoesOn, FinGoesOn, Present

(* What a step of w owes to the invariant.                                 *)
Owed(w) ==
    /\ pc[w] # "idle" => on[w] \in Resources /\ mr[on[w]].life # "unborn"
    /\ pc[w] \in Working => cr[w].life = "present"
    /\ pc[w] \in Tracking /\ Present(on[w]) => on[w] \in usages

OthersRest(w) ==
    \A v \in Workers \ {w} : pc'[v] = pc[v] /\ on'[v] = on[v] /\ cr'[v] = cr[v]

LEMMA OwedByAll ==
    ASSUME RecordedInv, NEW w \in Workers
    PROVE  Owed(w)
BY DEF RecordedInv, RecordedRest, Owed, WorkerBound, UsageThere

LEMMA WorkerLabels ==
    /\ Connected \subseteq Tracking /\ Tracking \subseteq Working
    /\ Working \subseteq Labels /\ "idle" \notin Working /\ "finish" \notin Working
    /\ "track" \in Working \ Tracking /\ "config" \in Tracking \ Connected
    /\ Connected = {"connected", "unfinalize", "delete", "finalizer", "finalizeNew", "pending",
                    "create", "annotate"}
BY DEF Connected, Tracking, Working, Labels

(* A worker's step that leaves usages and ProviderConfig alone.            *)
LEMMA RecordedByWorker ==
    ASSUME RecordedInv, NEW w \in Workers, LifeGoesOn, FinGoesOn(w), OthersRest(w), Owed(w)',
           UNCHANGED <<provider, usage, controller>>
    PROVE  RecordedRest'
<1>1. ASSUME NEW v \in Workers
      PROVE  Owed(v)'
  <2>1. CASE v = w
    BY <2>1
  <2>2. CASE v # w
    BY <2>2, OwedByAll, WorkerLabels DEF Owed, OthersRest, LifeGoesOn, usage
  <2> QED
    BY <2>1, <2>2
<1>2. WorkerBound' /\ UsageThere'
  BY <1>1 DEF Owed, WorkerBound, UsageThere
<1>3. UsageBorn' /\ LagGone'
  BY DEF RecordedInv, RecordedRest, VPCTypeInv, VPCTypeOK, UsageBorn, LagGone, LifeGoesOn, usage
<1>4. UsageRecorded'
  <2> SUFFICES ASSUME NEW m \in Resources, Present(m)', mr'[m].fin
               PROVE  m \in usages
    BY DEF UsageRecorded, usage
  <2>1. Present(m) /\ (mr[m].fin \/ (pc[w] \in Tracking /\ on[w] = m))
    BY DEF FinGoesOn
  <2> QED
    BY <2>1, OwedByAll DEF Owed, RecordedInv, RecordedRest, UsageRecorded
<1>5. ControllerKnows'
  BY DEF RecordedInv, RecordedRest, ControllerKnows, provider, controller
<1> QED
  BY <1>2, <1>3, <1>4, <1>5 DEF RecordedRest

(* Most steps of a worker end its reconcile or go on with it.              *)
LEMMA RecordedByLocal ==
    ASSUME RecordedInv, NEW w \in Workers, LifeGoesOn, FinGoesOn(w), pc[w] # "idle",
           \/ Idle(w)
           \/ Ending(w) /\ UNCHANGED on
           \/ /\ UNCHANGED on /\ pc[w] \in Connected
              /\ \E copy, next : /\ copy.life = "present" /\ next \in Connected \cup {"finish"}
                                 /\ Continue(w, copy, next),
           UNCHANGED <<provider, usage, controller>>
    PROVE  RecordedRest'
<1>1. Owed(w)
  BY OwedByAll
<1>2. CASE Idle(w)
  BY <1>2, RecordedByWorker, WorkerLabels
     DEF RecordedInv, VPCTypeInv, VPCTypeOK, Idle, Goto, OthersRest, Owed
<1>3. CASE Ending(w) /\ UNCHANGED on
  BY <1>1, <1>3, RecordedByWorker, WorkerLabels
     DEF RecordedInv, VPCTypeInv, VPCTypeOK, Ending, Goto, OthersRest, Owed, LifeGoesOn
<1>4. ASSUME NEW copy, NEW next, UNCHANGED on, pc[w] \in Connected,
             copy.life = "present", next \in Connected, next # "finish", Continue(w, copy, next)
      PROVE  RecordedRest'
  <2>1. OthersRest(w) /\ Owed(w)'
    BY <1>1, <1>4, WorkerLabels
       DEF RecordedInv, VPCTypeInv, VPCTypeOK, Continue, Goto, OthersRest, Owed, LifeGoesOn, usage
  <2> QED
    BY <2>1, RecordedByWorker
<1> QED
  BY <1>2, <1>3, <1>4, WorkerLabels DEF Continue

LEMMA RecordedByPut ==
    ASSUME RecordedInv, NEW w \in Workers, pc[w] \in Connected,
           NEW new \in Managed, new.life # "unborn", NEW next \in Connected \cup {"finish"},
           next # "finish" => new.life = "present",
           Put(w, new, next), UNCHANGED <<provider, usage, on, controller>>
    PROVE  RecordedRest' /\ LifeGoesOn
<1>1. on[w] \in Resources /\ pc[w] # "idle" /\ pc[w] \in Tracking
  BY OwedByAll, WorkerLabels DEF Owed
<1>2. LifeGoesOn /\ FinGoesOn(w)
  <2>1. UNCHANGED resource \/ (Present(on[w]) /\ \E mine : Store(w, mine, new))
    BY DEF Put, Outcomes, Current
  <2> QED
    BY <1>1, <2>1, SameLife, StoreLife DEF RecordedInv, VPCTypeInv, resource
<1>3. Ending(w) \/ Continue(w, new, next)
  BY DEF Put, Outcomes
<1>4. Ending(w) \/ (new.life = "present" /\ Continue(w, new, next))
  BY <1>3 DEF Continue
<1> QED
  BY <1>1, <1>2, <1>4, RecordedByLocal

LEMMA StartRecorded ==
    ASSUME RecordedInv, NEW w \in Workers, NEW m \in Resources, Start(w, m)
    PROVE  RecordedRest' /\ LifeGoesOn
<1>1. Owed(w) /\ LifeGoesOn /\ FinGoesOn(w)
  BY OwedByAll, SameLife DEF Start
<1>2. OthersRest(w) /\ Owed(w)'
  BY <1>1, WorkerLabels
     DEF RecordedInv, VPCTypeInv, VPCTypeOK, Start, Goto, Present, OthersRest, Owed
<1> QED
  BY <1>1, <1>2, RecordedByWorker DEF Start

LEMMA TrackRecorded ==
    ASSUME RecordedInv, NEW w \in Workers, Track(w)
    PROVE  RecordedRest' /\ LifeGoesOn
<1>1. Owed(w) /\ LifeGoesOn /\ on[w] \in Resources /\ mr[on[w]].life # "unborn"
      /\ UNCHANGED mr
  BY OwedByAll, SameLife DEF Track, resource, Owed
<1>2. OthersRest(w)
  BY DEF RecordedInv, VPCTypeInv, VPCTypeOK, Track, Ending, Goto, OthersRest
<1>3. UNCHANGED usage \/ WriteUsage(w)
  BY DEF Track, usage
<1>4. /\ usages \subseteq usages' /\ usages' \cup lag' \subseteq usages \cup lag \cup {on[w]}
      /\ lag' \ usages' \subseteq lag \ usages
  BY <1>3 DEF WriteUsage, usage
<1>5. Owed(w)'
  <2>1. CASE Ending(w)
    BY <1>1, <2>1, WorkerLabels
       DEF RecordedInv, VPCTypeInv, VPCTypeOK, Track, Ending, Goto, Owed
  <2>2. CASE Goto(w, "config") /\ UNCHANGED cr
    <3>1. Present(on[w]) => on[w] \in usages'
      BY <1>1, <2>2
         DEF RecordedInv, RecordedRest, VPCTypeInv, VPCTypeOK, LagGone, Track, WriteUsage,
             Outcomes, Ending, Goto
    <3> QED
      BY <1>1, <2>2, <3>1, WorkerLabels
         DEF RecordedInv, VPCTypeInv, VPCTypeOK, Track, Goto, Owed, Present
  <2> QED
    BY <2>1, <2>2 DEF Track
<1>6. ASSUME NEW v \in Workers
      PROVE  Owed(v)'
  BY <1>1, <1>2, <1>4, <1>5, OwedByAll DEF Owed, OthersRest, Present
<1>7. WorkerBound' /\ UsageThere'
  BY <1>6 DEF Owed, WorkerBound, UsageThere
<1>8. UsageBorn' /\ LagGone' /\ UsageRecorded'
  BY <1>1, <1>4 DEF RecordedInv, RecordedRest, UsageBorn, LagGone, UsageRecorded, Present
<1>9. ControllerKnows'
  BY DEF RecordedInv, RecordedRest, ControllerKnows, Track, provider, controller
<1> QED
  BY <1>1, <1>7, <1>8, <1>9 DEF RecordedRest

LEMMA GetConfigRecorded ==
    ASSUME RecordedInv, NEW w \in Workers, GetConfig(w)
    PROVE  RecordedRest' /\ LifeGoesOn
<1>1. Owed(w) /\ LifeGoesOn /\ FinGoesOn(w)
  BY OwedByAll, SameLife DEF GetConfig
<1>2. CASE Idle(w) \/ (Ending(w) /\ UNCHANGED on)
  BY <1>1, <1>2, RecordedByLocal DEF GetConfig
<1>3. CASE Goto(w, "connected") /\ UNCHANGED <<on, cr>>
  <2>1. OthersRest(w) /\ Owed(w)'
    BY <1>1, <1>3, WorkerLabels
       DEF RecordedInv, VPCTypeInv, VPCTypeOK, GetConfig, Goto, Present, OthersRest, Owed, usage
  <2> QED
    BY <1>1, <2>1, RecordedByWorker DEF GetConfig
<1> QED
  BY <1>1, <1>2, <1>3 DEF GetConfig

LEMMA ConnectRecorded ==
    ASSUME RecordedInv, NEW w \in Workers, ConnectStep(w) \/ Crash(w)
    PROVE  RecordedRest' /\ LifeGoesOn
<1>1. CASE Finish(w)
  BY <1>1, SameLife, RecordedByLocal DEF Finish
<1>2. CASE Crash(w)
  BY <1>2, SameLife, RecordedByLocal DEF Crash
<1>3. CASE WorkOnOrganization(w)
  <2>1. pc[w] \in Connected
    BY <1>3, WorkerLabels DEF WorkOnOrganization
  <2>2. on[w] \in Resources /\ pc[w] # "idle" /\ pc[w] \in Tracking
    BY <2>1, OwedByAll, WorkerLabels DEF Owed
  <2>3. /\ [cr[w] EXCEPT !.fin = TRUE] \in Managed /\ [cr[w] EXCEPT !.life = "gone"] \in Managed
        /\ [cr[w] EXCEPT !.fin = TRUE].life = "present" /\ [cr[w] EXCEPT !.life = "gone"].life = "gone"
    <3>1. cr[w] \in Managed /\ cr[w].life = "present"
      BY <2>1, OwedByAll, WorkerLabels DEF RecordedInv, VPCTypeInv, VPCTypeOK, Owed
    <3> QED
      BY <3>1, ManagedTypes DEF Managed
  <2>4. UNCHANGED mr \/ (/\ Present(on[w])
                         /\ \E mine : \E new \in Managed : new.life # "unborn" /\ Store(w, mine, new))
    BY <1>3, <2>3 DEF WorkOnOrganization, Current, resource
  <2>5. LifeGoesOn /\ FinGoesOn(w)
    BY <2>2, <2>4, SameLife, StoreLife DEF RecordedInv, VPCTypeInv
  <2> QED
    BY <1>3, <2>2, <2>5, RecordedByLocal DEF WorkOnOrganization
<1> QED
  BY <1>1, <1>2, <1>3, StartRecorded, TrackRecorded, GetConfigRecorded DEF ConnectStep

LEMMA CreateRecorded ==
    ASSUME RecordedInv, NEW w \in Workers, Create(w)
    PROVE  RecordedRest' /\ LifeGoesOn
<1>1. /\ LifeGoesOn /\ FinGoesOn(w)
      /\ pc[w] \in Connected /\ pc[w] # "idle" /\ cr[w] \in Managed /\ cr[w].life = "present"
  BY OwedByAll, SameLife, WorkerLabels
     DEF Create, CreateVPCEndpoint, resource, Owed, RecordedInv, VPCTypeInv, VPCTypeOK
<1>2. /\ [cr[w] EXCEPT !.ann = "failed"].life = "present"
      /\ \A i \in Ids : [cr[w] EXCEPT !.ann = "succeeded", !.ext = i].life = "present"
  BY <1>1 DEF Managed
<1>3. \E copy : copy.life = "present" /\ Continue(w, copy, "annotate")
  BY <1>2 DEF Create, CreateVPCEndpoint
<1>4. "annotate" \in Connected
  BY WorkerLabels
<1>5. UNCHANGED on /\ UNCHANGED <<provider, usage, controller>>
  BY DEF Create, CreateVPCEndpoint
<1> QED
  BY <1>1, <1>3, <1>4, <1>5, RecordedByLocal

LEMMA AnnotateRecorded ==
    ASSUME RecordedInv, NEW w \in Workers, Annotate(w)
    PROVE  RecordedRest' /\ LifeGoesOn
<1>1. /\ on[w] \in Resources /\ mr[on[w]] \in Managed /\ cr[w] \in Managed
      /\ pc[w] \in Tracking /\ pc[w] # "idle"
  BY OwedByAll, WorkerLabels DEF Owed, RecordedInv, VPCTypeInv, VPCTypeOK, Annotate
<1>2. PICK new \in Managed : new = [mr[on[w]] EXCEPT !.ann = cr[w].ann, !.ext = cr[w].ext]
  BY <1>1, ManagedTypes
<1>3. new.life = mr[on[w]].life
  BY <1>1, <1>2 DEF Managed
<1>4. UNCHANGED mr \/ (Present(on[w]) /\ new.life # "unborn" /\ Store(w, {w}, new))
  BY <1>2, <1>3 DEF Annotate, resource, Present
<1>5. LifeGoesOn /\ FinGoesOn(w)
  BY <1>1, <1>4, SameLife, StoreLife DEF RecordedInv, VPCTypeInv
<1> QED
  BY <1>1, <1>5, RecordedByLocal DEF Annotate

LEMMA EndpointRecorded ==
    ASSUME RecordedInv, NEW w \in Workers, EndpointStep(w)
    PROVE  RecordedRest' /\ LifeGoesOn
<1>1. CASE Observe(w)
  <2>1. Owed(w) /\ LifeGoesOn /\ FinGoesOn(w)
    BY <1>1, OwedByAll, SameLife DEF Observe, resource
  <2>2. OthersRest(w) /\ Owed(w)'
    BY <1>1, <2>1, WorkerLabels
       DEF RecordedInv, VPCTypeInv, VPCTypeOK, Observe, Observed, Goto, Present, OthersRest, Owed,
           resource, usage
  <2> QED
    BY <1>1, <2>1, <2>2, RecordedByWorker DEF Observe
<1>2. CASE Delete(w)
  BY <1>2, SameLife, RecordedByLocal DEF Delete, DeleteVPCEndpoint, resource
<1>3. cr[w] \in Managed
  BY DEF RecordedInv, VPCTypeInv, VPCTypeOK
<1>4. pc[w] \in Connected => cr[w].life = "present" /\ pc[w] # "idle"
  BY OwedByAll, WorkerLabels DEF Owed
<1>5. CASE AddFinalizer(w)
  <2>1. /\ pc[w] \in Connected
        /\ {"finish", "pending"} \subseteq Connected \cup {"finish"}
    BY <1>5, WorkerLabels DEF AddFinalizer
  <2>2. PICK next \in {"finish", "pending"} :
           \/ Continue(w, cr[w], next) /\ UNCHANGED <<resource, errors>>
           \/ Put(w, [cr[w] EXCEPT !.fin = TRUE], next)
    BY <1>5 DEF AddFinalizer
  <2>3. PICK new \in Managed : new = [cr[w] EXCEPT !.fin = TRUE]
    BY <1>3, ManagedTypes
  <2>4. new.life = "present"
    BY <1>3, <1>4, <2>1, <2>3 DEF Managed
  <2>5. CASE Continue(w, cr[w], next) /\ UNCHANGED <<resource, errors>>
    BY <1>4, <1>5, <2>1, <2>5, SameLife, RecordedByLocal DEF AddFinalizer, resource
  <2>6. CASE Put(w, new, next)
    BY <1>5, <2>1, <2>4, <2>6, RecordedByPut DEF AddFinalizer
  <2> QED
    BY <2>2, <2>3, <2>5, <2>6
<1>6. CASE MarkPending(w)
  <2>1. pc[w] \in Connected /\ "create" \in Connected
    BY <1>6, WorkerLabels DEF MarkPending
  <2>2. PICK new \in Managed : new = [cr[w] EXCEPT !.ann = "pending"]
    BY <1>3, ManagedTypes
  <2>3. new.life = "present"
    BY <1>3, <1>4, <2>1, <2>2 DEF Managed
  <2> QED
    BY <1>6, <2>1, <2>2, <2>3, RecordedByPut DEF MarkPending
<1>7. CASE RemoveFinalizer(w)
  <2>1. pc[w] \in Connected
    BY <1>7, WorkerLabels DEF RemoveFinalizer
  <2>2. PICK new \in Managed : new = [cr[w] EXCEPT !.fin = FALSE, !.life = "gone"]
    BY <1>3, ManagedTypes
  <2>3. new.life = "gone"
    BY <1>3, <2>2 DEF Managed
  <2> QED
    BY <1>7, <2>1, <2>2, <2>3, RecordedByPut DEF RemoveFinalizer
<1> QED
  BY <1>1, <1>2, <1>5, <1>6, <1>7, CreateRecorded, AnnotateRecorded DEF EndpointStep

(* Steps that leave the workers alone.                                     *)
LEMMA RecordedByOthers ==
    ASSUME RecordedInv, LifeGoesOn, UNCHANGED worker, ControllerKnows',
           \A m \in Resources : Present(m)' => (m \in usages' <=> m \in usages),
           \A m \in Resources : Present(m)' /\ mr'[m].fin => Present(m) /\ mr[m].fin,
           \A m \in usages' \cup lag' : m \in usages \cup lag,
           \A m \in lag' : m \notin usages' /\ Present(m)' => m \in lag /\ m \notin usages
    PROVE  RecordedRest'
<1>1. WorkerBound' /\ UsageThere'
  <2> SUFFICES ASSUME NEW w \in Workers PROVE Owed(w)'
    BY DEF Owed, WorkerBound, UsageThere
  <2> QED
    BY OwedByAll, WorkerLabels DEF Owed, LifeGoesOn, worker
<1>2. UsageBorn' /\ LagGone'
  BY DEF RecordedInv, RecordedRest, VPCTypeInv, VPCTypeOK, UsageBorn, LagGone, LifeGoesOn
<1>3. UsageRecorded'
  BY DEF RecordedInv, RecordedRest, UsageRecorded
<1> QED
  BY <1>1, <1>2, <1>3 DEF RecordedRest

LEMMA ControllerRecorded ==
    ASSUME RecordedInv, ControllerStep
    PROVE  RecordedRest' /\ LifeGoesOn
<1>1. /\ LifeGoesOn /\ UNCHANGED worker /\ UNCHANGED usage /\ UNCHANGED mr
  BY SameLife DEF ControllerStep, ConfigList, ConfigAct, resource
<1>2. ControllerKnows'
  BY DEF ControllerStep, ConfigList, ConfigAct, Decided, ControllerKnows, provider
<1> QED
  BY <1>1, <1>2, RecordedByOthers
     DEF RecordedInv, RecordedRest, VPCTypeInv, VPCTypeOK, UsageRecorded, usage, Present

LEMMA EnvironmentRecorded ==
    ASSUME RecordedInv,
           \/ UserSetCredentials \/ UserDeleteConfig \/ ConfigCached
           \/ \E m \in Resources :
                 CollectUsage(m) \/ UsageCached(m) \/ UserApply(m) \/ UserDelete(m)
    PROVE  RecordedRest' /\ LifeGoesOn
<1>1. CASE UserSetCredentials \/ UserDeleteConfig \/ ConfigCached
  <2>1. LifeGoesOn /\ UNCHANGED worker /\ UNCHANGED usage /\ UNCHANGED mr
    BY <1>1, SameLife DEF UserSetCredentials, UserDeleteConfig, ConfigCached, resource
  <2>2. ControllerKnows'
    BY <1>1 DEF UserSetCredentials, UserDeleteConfig, ConfigCached, ControllerKnows, controller,
                RecordedInv, RecordedRest
  <2> QED
    BY <2>1, <2>2, RecordedByOthers
       DEF RecordedInv, RecordedRest, VPCTypeInv, VPCTypeOK, UsageRecorded, usage, Present
<1>2. ASSUME NEW m \in Resources, CollectUsage(m) \/ UsageCached(m)
      PROVE  RecordedRest' /\ LifeGoesOn
  <2>1. LifeGoesOn /\ UNCHANGED worker /\ UNCHANGED mr
    BY <1>2, SameLife DEF CollectUsage, UsageCached, resource
  <2>2. ControllerKnows'
    BY <1>2 DEF CollectUsage, UsageCached, ControllerKnows, controller, provider,
                RecordedInv, RecordedRest
  <2>3. /\ \A k \in Resources : Present(k)' => (k \in usages' <=> k \in usages)
        /\ \A k \in usages' \cup lag' : k \in usages \cup lag
        /\ \A k \in lag' : k \notin usages' /\ Present(k)' => k \in lag /\ k \notin usages
    BY <1>2, <2>1 DEF CollectUsage, UsageCached, Present
  <2> QED
    BY <2>1, <2>2, <2>3, RecordedByOthers DEF Present
<1>3. ASSUME NEW m \in Resources, UserApply(m) \/ UserDelete(m)
      PROVE  RecordedRest' /\ LifeGoesOn
  <2>1. mr \in [Resources -> Managed]
    BY DEF RecordedInv, VPCTypeInv, VPCTypeOK
  <2>2. LifeGoesOn
    BY <1>3, <2>1 DEF Managed, Unborn, UserApply, UserDelete, LifeGoesOn, Present
  <2>3. CASE mr'[m].fin => mr[m].life = "present" /\ mr[m].fin
    <3>1. \A k \in Resources : Present(k)' /\ mr'[k].fin => Present(k) /\ mr[k].fin
      BY <1>3, <2>1, <2>3 DEF UserApply, UserDelete, Present
    <3>2. UNCHANGED worker /\ UNCHANGED usage /\ UNCHANGED controller /\ UNCHANGED provider
      BY <1>3 DEF UserApply, UserDelete
    <3>3. ControllerKnows'
      BY <3>2 DEF controller, provider, ControllerKnows, RecordedInv, RecordedRest
    <3> QED
      BY <2>2, <3>1, <3>2, <3>3, RecordedByOthers DEF usage
  <2>4. mr'[m].fin => mr[m].life = "present" /\ mr[m].fin
    BY <1>3, <2>1 DEF UserApply, UserDelete, Managed, Unborn, Present
  <2> QED
    BY <2>3, <2>4
<1> QED
  BY <1>1, <1>2, <1>3

LEMMA RecordedSame ==
    ASSUME RecordedInv, UNCHANGED <<resource, provider, usage, worker, controller>>
    PROVE  RecordedRest' /\ LifeGoesOn
BY DEF RecordedInv, RecordedRest, WorkerBound, UsageThere, UsageBorn, LagGone, UsageRecorded,
       ControllerKnows, LifeGoesOn, Present, resource, provider, usage, worker, controller

LEMMA RecordedNext ==
    ASSUME RecordedInv, [Next]_vars
    PROVE  RecordedInv' /\ LifeGoesOn
<1> SUFFICES RecordedRest' /\ LifeGoesOn
  BY NextTyped DEF RecordedInv
<1>1. CASE UNCHANGED vars
  BY <1>1, RecordedSame DEF vars
<1>2. ASSUME NEW w \in Workers, EndpointStep(w) \/ ConnectStep(w) \/ Crash(w)
      PROVE  RecordedRest' /\ LifeGoesOn
  BY <1>2, ConnectRecorded, EndpointRecorded
<1>3. ASSUME NEW i \in Ids, Progress(i) \/ ConsoleDelete(i)
      PROVE  RecordedRest' /\ LifeGoesOn
  BY <1>3, RecordedSame DEF Progress, ConsoleDelete
<1> QED
  BY <1>1, <1>2, <1>3, ControllerRecorded, EnvironmentRecorded DEF Next, Reconcile

LEMMA RecordedInit == Init => RecordedInv
<1> SUFFICES ASSUME Init PROVE RecordedRest
  BY InitTyped DEF RecordedInv
<1> QED
  BY WorkerLabels DEF Init, RecordedRest, WorkerBound, UsageThere, UsageBorn, LagGone,
                      UsageRecorded, ControllerKnows, Unborn, Present

THEOREM RecordedInvariance == Spec => []RecordedInv
BY RecordedInit, RecordedNext, PTL DEF Spec

(* A resource with its finalizer has its usage, for all workers, caches,   *)
(* credentials, failed calls and restarts: no worker goes on past a Track  *)
(* that did not leave a usage, and only of a resource that has gone is it  *)
(* collected.                                                              *)
THEOREM UsageRecordedCorrect == Spec => []UsageRecorded
<1>1. RecordedInv => UsageRecorded
  BY DEF RecordedInv, RecordedRest
<1> QED
  BY <1>1, RecordedInvariance, PTL

-----------------------------------------------------------------------------
(* The usage keeps the ProviderConfig.                                     *)

(* What holds of a resource from the time it can rely on the               *)
(* ProviderConfig.                                                         *)
Kept(m) ==
    /\ mr[m].life # "unborn"
    /\ Present(m) =>
          /\ m \in usages \ lag
          /\ config.present /\ config.fin
          /\ cpc = "act" /\ cfresh => ~cdel

LEMMA WorkerLeavesProvider ==
    ASSUME NEW w \in Workers, EndpointStep(w) \/ ConnectStep(w) \/ Crash(w)
    PROVE  UNCHANGED <<provider, controller>> /\ (UNCHANGED usage \/ WriteUsage(w))
<1>1. CASE EndpointStep(w)
  BY <1>1 DEF EndpointStep, Observe, AddFinalizer, MarkPending, Create, Annotate, Delete,
              RemoveFinalizer
<1>2. CASE ConnectStep(w) \/ Crash(w)
  <2>1. CASE Track(w)
    BY <2>1 DEF Track, usage
  <2> QED
    BY <1>2, <2>1 DEF ConnectStep, Start, GetConfig, Finish, WorkOnOrganization, Crash
<1> QED
  BY <1>1, <1>2

LEMMA KeptNext ==
    ASSUME RecordedInv, [Next]_vars, NEW m \in Resources, Kept(m)
    PROVE  Kept(m)'
<1>1. mr'[m].life # "unborn" /\ (Present(m)' => Present(m))
  BY RecordedNext DEF LifeGoesOn, Kept
<1> SUFFICES ASSUME Present(m)', Present(m)
             PROVE  /\ m \in usages' \ lag'
                    /\ config'.present /\ config'.fin
                    /\ cpc' = "act" /\ cfresh' => ~cdel'
  BY <1>1 DEF Kept
<1>2. /\ m \in usages /\ m \notin lag
      /\ config.present /\ config.fin
      /\ cpc = "act" /\ cfresh => ~cdel
      /\ config \in Configs
  BY DEF Kept, RecordedInv, VPCTypeInv, VPCTypeOK
<1>3. CASE UNCHANGED <<provider, usage, controller>>
  BY <1>2, <1>3 DEF provider, usage, controller
<1>4. ASSUME NEW w \in Workers, EndpointStep(w) \/ ConnectStep(w) \/ Crash(w)
      PROVE  m \in usages' \ lag' /\ UNCHANGED <<provider, controller>>
  BY <1>2, <1>4, WorkerLeavesProvider DEF WriteUsage, usage
<1>5. CASE ConfigList
  BY <1>2, <1>5 DEF ConfigList, Decided, provider, usage
<1>6. CASE ConfigAct
  <2>1. cfresh => ~cdel
    BY <1>2, <1>6 DEF ConfigAct
  <2>2. config'.present /\ config'.fin
    BY <1>2, <1>6, <2>1 DEF ConfigAct, SetConfig, Configs, Outcomes, provider
  <2> QED
    BY <1>2, <1>6, <2>2 DEF ConfigAct, usage
<1>7. CASE UserSetCredentials \/ UserDeleteConfig \/ ConfigCached
  BY <1>2, <1>7 DEF UserSetCredentials, UserDeleteConfig, ConfigCached, SetConfig, Configs, usage,
                    controller
<1>8. ASSUME NEW k \in Resources,
             CollectUsage(k) \/ UsageCached(k) \/ UserApply(k) \/ UserDelete(k)
      PROVE  m \in usages' \ lag' /\ UNCHANGED <<provider, controller>>
  BY <1>2, <1>8 DEF CollectUsage, UsageCached, UserApply, UserDelete, usage
<1>9. ASSUME NEW i \in Ids, Progress(i) \/ ConsoleDelete(i)
      PROVE  UNCHANGED <<provider, usage, controller>>
  BY <1>9 DEF Progress, ConsoleDelete
<1> QED
  BY <1>2, <1>3, <1>4, <1>5, <1>6, <1>7, <1>8, <1>9
     DEF Next, Reconcile, ControllerStep, vars, provider, usage, controller

(* From the time that its usage has reached every cache, while the         *)
(* ProviderConfig has its finalizer and no deletion is asked for, a        *)
(* resource can rely on the ProviderConfig until it is gone, for all       *)
(* workers, replicas and their caches, credentials, failed calls and       *)
(* restarts: whatever the controller decided on before, a deletion that is *)
(* asked for later makes it a conflict, and the List after it shows the    *)
(* usage.                                                                  *)
THEOREM ConfigKeptCorrect == Spec => ConfigKept
<1>1. ASSUME NEW m \in Resources
      PROVE  Spec => [](Relied(m) => [](Present(m) => config.present))
  <2>1. RecordedInv /\ Relied(m) => Kept(m)
    BY DEF Relied, Kept, RecordedInv, RecordedRest, ControllerKnows, Present
  <2>2. RecordedInv /\ Kept(m) /\ [Next]_vars => Kept(m)'
    BY KeptNext
  <2>3. Kept(m) => (Present(m) => config.present)
    BY DEF Kept
  <2> QED
    BY <2>1, <2>2, <2>3, RecordedInvariance, PTL DEF Spec
<1> QED
  BY <1>1 DEF ConfigKept

=============================================================================
