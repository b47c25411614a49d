------------------------- MODULE OrganizationTypes -------------------------
(***************************************************************************)
(* Type correctness of Organization, for every value of its constants.     *)
(*                                                                         *)
(* TypeOK is not inductive alone: Atlas is only ever told to enforce, or   *)
(* the status to name, an organization that the working copy names, and    *)
(* that it names one from the point where Observe has found one on is      *)
(* NameKnown.  The two together are TypeInv, split by what an action may   *)
(* disturb: the API server, a replica's local state, Atlas, the stores and *)
(* the bounds.                                                             *)
(***************************************************************************)
EXTENDS Organization, TLAPS

(* The named assumptions on the constants, together.                       *)
LEMMA Constants ==
    /\ Foreign \subseteq OrgIds
    /\ Specs # {} /\ Specs \subseteq SpecFields
    /\ MaxErrors \in Nat /\ MaxCrashes \in Nat /\ MaxApplies \in Nat
BY SetsAssumption, SpecsAssumption, BoundsAssumption

LEMMA StatusTypes ==
    ASSUME NEW s \in Statuses, NEW t \in Statuses
    PROVE  /\ NoStatus \in Statuses
           /\ Overlay(s, t) \in Statuses
           /\ \A o \in OrgIds \cup {None} : [s EXCEPT !.orgID = o] \in Statuses
           /\ \A x \in SUBSET IPs : [s EXCEPT !.ips = x] \in Statuses
           /\ \A x \in SUBSET Roles : [s EXCEPT !.roles = x] \in Statuses
           /\ \A x \in {"unset", "on", "off"} : [s EXCEPT !.enf = x] \in Statuses
           /\ \A type \in {"", "AWS", "Kubernetes"}, n \in Names \cup {Unset} :
                 Recorded(s, type, n) \in Statuses
BY DEF Statuses, NoStatus, Overlay, Recorded

LEMMA ObjectTypes ==
    ASSUME NEW c \in Objects, NEW d \in Objects
    PROVE  /\ Absent \in Objects
           /\ \A s \in Specs : NewObject(s) \in Objects
           /\ Unfinalized(c) \in Objects
           /\ Annotated(c, d) \in Objects
           /\ \A s \in Statuses : [c EXCEPT !.st = s] \in Objects
           /\ \A b \in BOOLEAN : [c EXCEPT !.fin = b] \in Objects
           /\ \A b \in BOOLEAN : [c EXCEPT !.deleting = b] \in Objects
           /\ \A a \in {"none", "pending", "failed", "succeeded"} :
                 [c EXCEPT !.ann = a] \in Objects
           /\ \A o \in OrgIds \cup {None} : [c EXCEPT !.ext = o] \in Objects
           /\ \A o \in OrgIds : Adopted(c, o) \in Objects
           /\ \A s \in Specs : [c EXCEPT !.spec = s] \in Objects
<1>1. NoStatus \in Statuses
  BY DEF Statuses, NoStatus
<1>2. \A s \in Specs : NewObject(s) \in Objects
  BY <1>1 DEF NewObject, Objects
<1>3. Absent \in Objects
  <2>1. (CHOOSE s \in Specs : TRUE) \in Specs
    BY Constants
  <2>2. NewObject(CHOOSE s \in Specs : TRUE) \in Objects
    BY <2>1, <1>2
  <2> QED
    BY <2>2 DEF Absent, Objects
<1>4. \A o \in OrgIds : Adopted(c, o) \in Objects
  BY DEF Adopted, Objects, Statuses
<1>5. Annotated(c, d) \in Objects
  BY DEF Annotated, Objects
<1> QED
  BY <1>2, <1>3, <1>4, <1>5 DEF Objects, Unfinalized

-----------------------------------------------------------------------------
(* The inductive invariant.                                                *)

(* Where a reconcile stands that has found or made an organization.        *)
NameNeeded(label, caller) ==
    \/ label \in {"get", "put", "reget", "reput", "adopted", "store", "ips", "enforce",
                  "creds", "migrate", "purge", "describe", "roles", "enforcement",
                  "addips", "removeips", "cleanup", "verify", "delcreds", "delete",
                  "confirm"}
    \/ label = "finalizer" /\ caller = "update"
    \/ label \in {"status", "reread", "restatus"} /\ caller = "marked"

NameKnown == \A r \in Replicas : NameNeeded(pc[r], ret[r]) => cr[r].ext # None

ApiOK ==
    /\ obj \in Objects
    /\ cache \in [Replicas -> Objects]
    /\ fresh \in [Replicas -> SUBSET {"cr", "latest", "cache"}]

LocalOK ==
    /\ pc \in [Replicas -> Labels]
    /\ ret \in [Replicas -> Callers]
    /\ cr \in [Replicas -> Objects]
    /\ key \in [Replicas -> OrgIds \cup {None}]
    /\ chg \in [Replicas -> BOOLEAN]
    /\ NameKnown

AtlasOK ==
    /\ orgs \in [OrgIds -> {"free", "live", "gone"}]
    /\ enforced \subseteq OrgIds
    /\ acl \in [OrgIds -> SUBSET IPs]
    /\ granted \in [OrgIds -> SUBSET Roles]

StoresOK ==
    /\ aws \in [Names -> OrgIds \cup {None}]
    /\ k8s \in [Names -> OrgIds \cup {None}]

BoundsOK == errors \in 0..MaxErrors /\ crashes \in 0..MaxCrashes /\ applies \in 0..MaxApplies

TypeInv == ApiOK /\ LocalOK /\ AtlasOK /\ StoresOK /\ BoundsOK

-----------------------------------------------------------------------------
(* What the shared pieces of the actions preserve.                         *)

LEMMA Fields ==
    ASSUME TypeInv, NEW r \in Replicas
    PROVE  /\ cr[r] \in Objects /\ obj \in Objects /\ cache[r] \in Objects
           /\ cr[r].st \in Statuses /\ obj.st \in Statuses
           /\ cr[r].ext \in OrgIds \cup {None} /\ cr[r].spec \in SpecFields
           /\ cr[r].st.orgID \in OrgIds \cup {None}
           /\ cr[r].spec.roles \in SUBSET Roles /\ cr[r].spec.ips \in SUBSET IPs
           /\ pc[r] \in Labels /\ ret[r] \in Callers
           /\ key[r] \in OrgIds \cup {None} /\ chg[r] \in BOOLEAN
<1>1. cr[r] \in Objects /\ obj \in Objects /\ cache[r] \in Objects
  BY DEF TypeInv, ApiOK, LocalOK
<1>2. cr[r].st \in Statuses /\ obj.st \in Statuses /\ cr[r].spec \in SpecFields
      /\ cr[r].ext \in OrgIds \cup {None}
  BY <1>1, Constants DEF Objects
<1>3. cr[r].st.orgID \in OrgIds \cup {None}
  BY <1>2 DEF Statuses
<1>4. cr[r].spec.roles \in SUBSET Roles /\ cr[r].spec.ips \in SUBSET IPs
  BY <1>2 DEF SpecFields
<1> QED
  BY <1>1, <1>2, <1>3, <1>4 DEF TypeInv, LocalOK

LEMMA StoreTyped ==
    ASSUME ApiOK, NEW r \in Replicas, NEW mine \in SUBSET {"cr", "latest", "cache"},
           NEW new \in Objects, Store(r, mine, new)
    PROVE  ApiOK'
<1>1. obj' \in Objects
  BY DEF Store
<1>2. cache' \in [Replicas -> Objects]
  BY DEF ApiOK, Store
<1>3. fresh' \in [Replicas -> SUBSET {"cr", "latest", "cache"}]
  <2>1. CASE new = obj
    BY <2>1 DEF ApiOK, Store
  <2>2. CASE new # obj
    <3>1. fresh' = [q \in Replicas |-> (IF q = r THEN mine ELSE {})
                                          \cup (IF CacheLag THEN {} ELSE {"cache"})]
      BY <2>2 DEF Store
    <3> QED
      BY <3>1
  <2> QED
    BY <2>1, <2>2
<1> QED
  BY <1>1, <1>2, <1>3 DEF ApiOK

LEMMA EditTyped ==
    ASSUME ApiOK, NEW new \in Objects, Edit(new)
    PROVE  ApiOK'
BY DEF ApiOK, Edit

LEMMA OutcomeTyped ==
    ASSUME BoundsOK, NEW out \in Outcomes, Outcome(out), UNCHANGED limits
    PROVE  BoundsOK' /\ out \in {"ok", "fail", "lost"}
BY BoundsAssumption DEF BoundsOK, Outcomes, Outcome, limits

LEMMA ReplyTyped ==
    ASSUME BoundsOK, NEW truth, NEW rep \in Replies(truth), Replied(rep), UNCHANGED limits
    PROVE  BoundsOK'
BY BoundsAssumption DEF BoundsOK, Replies, Reply, Replied, limits

(* Only what Atlas carries out can have been done.                         *)
LEMMA DoneTruly ==
    ASSUME NEW truth, NEW rep \in Replies(truth), rep.done
    PROVE  truth = "2xx"
<1>1. CASE rep = Reply(truth, truth = "2xx", FALSE)
  BY <1>1 DEF Reply
<1>2. CASE \E a \in Faults : rep = Reply(a, FALSE, TRUE)
  BY <1>2 DEF Reply
<1>3. CASE truth = "2xx"
  BY <1>3
<1> QED
  BY <1>1, <1>2, <1>3 DEF Replies

LEMMA ErrorTyped ==
    ASSUME BoundsOK, errors < MaxErrors, errors' = errors + 1, UNCHANGED limits
    PROVE  BoundsOK'
BY BoundsAssumption DEF BoundsOK, limits

(* A replica moves on: its label and caller, and a working copy that names *)
(* an organization where one is needed.                                    *)
LEMMA MoveTyped ==
    ASSUME LocalOK, NEW r \in Replicas,
           NEW l \in Labels, NEW t \in Callers, NEW c \in Objects,
           NEW k \in OrgIds \cup {None}, NEW b \in BOOLEAN,
           pc' = [pc EXCEPT ![r] = l], ret' = [ret EXCEPT ![r] = t],
           cr' = [cr EXCEPT ![r] = c], key' = [key EXCEPT ![r] = k],
           chg' = [chg EXCEPT ![r] = b],
           NameNeeded(l, t) => c.ext # None
    PROVE  LocalOK'
BY DEF LocalOK, NameKnown

LEMMA IdleTyped ==
    ASSUME LocalOK, NEW r \in Replicas, Idle(r)
    PROVE  LocalOK'
<1>1. Absent \in Objects
  <2>1. (CHOOSE s \in Specs : TRUE) \in Specs
    BY Constants
  <2> QED
    BY <2>1 DEF Absent, NewObject, NoStatus, Objects, Statuses
<1>2. ~NameNeeded("idle", "none")
  BY DEF NameNeeded
<1>3. "idle" \in Labels /\ "none" \in Callers /\ FALSE \in BOOLEAN
  BY DEF Labels, Callers
<1>4. /\ pc' = [pc EXCEPT ![r] = "idle"] /\ ret' = [ret EXCEPT ![r] = "none"]
      /\ cr' = [cr EXCEPT ![r] = Absent] /\ key' = [key EXCEPT ![r] = None]
      /\ chg' = [chg EXCEPT ![r] = FALSE]
  BY DEF Idle, Goto
<1> QED
  BY <1>1, <1>2, <1>3, <1>4, MoveTyped

(* The transfers of control that several actions share.                    *)
LEMMA FinishTyped ==
    ASSUME LocalOK, NEW r \in Replicas, Finish(r), UNCHANGED <<key, chg>>,
           NEW c \in Objects, cr' = [cr EXCEPT ![r] = c]
    PROVE  LocalOK'
BY DEF LocalOK, NameKnown, Finish, Goto, Labels, Callers, NameNeeded

LEMMA CreatedTyped ==
    ASSUME LocalOK, NEW r \in Replicas, UNCHANGED <<key, chg>>,
           NEW c \in Objects, NEW result \in {"failed", "succeeded"}, Created(r, c, result)
    PROVE  LocalOK'
<1>1. [c EXCEPT !.ann = result] \in Objects
  BY DEF Objects
<1> QED
  BY <1>1 DEF LocalOK, NameKnown, Created, Goto, Labels, Callers, NameNeeded

LEMMA ObservedTyped ==
    ASSUME LocalOK, NEW r \in Replicas, UNCHANGED <<key, chg>>,
           NEW next \in {"create", "update", "finish"}, Observed(r, next),
           NEW c \in Objects, cr' = [cr EXCEPT ![r] = c],
           next = "create" \/ c.ext # None
    PROVE  LocalOK'
BY DEF LocalOK, NameKnown, Observed, Goto, Labels, Callers, NameNeeded

LEMMA PutStatusTyped ==
    ASSUME LocalOK, NEW r \in Replicas, UNCHANGED key,
           NEW b \in BOOLEAN, chg' = [chg EXCEPT ![r] = b],
           NEW caller \in Callers, PutStatus(r, caller),
           NEW c \in Objects, cr' = [cr EXCEPT ![r] = c],
           caller # "marked" \/ c.ext # None
    PROVE  LocalOK'
BY DEF LocalOK, NameKnown, PutStatus, Goto, Labels, Callers, NameNeeded

LEMMA PersistNameTyped ==
    ASSUME LocalOK, NEW r \in Replicas, UNCHANGED chg,
           NEW k \in OrgIds \cup {None}, key' = [key EXCEPT ![r] = k],
           NEW caller \in Callers, PersistName(r, caller),
           NEW c \in Objects, cr' = [cr EXCEPT ![r] = c], c.ext # None
    PROVE  LocalOK'
BY DEF LocalOK, NameKnown, PersistName, Goto, Labels, Callers, NameNeeded

LEMMA PutManagedTyped ==
    ASSUME TypeInv, NEW r \in Replicas, NEW out \in {"ok", "fail", "lost"},
           NEW new \in Objects, new.ext = cr[r].ext, PutManaged(r, out, new)
    PROVE  ApiOK' /\ \E c \in Objects : cr' = [cr EXCEPT ![r] = c] /\ c.ext = cr[r].ext
<1>1. ApiOK'
  BY StoreTyped DEF PutManaged, TypeInv, ApiOK, api
<1>2. CASE out = "ok"
  <2>1. [new EXCEPT !.st = Overlay(obj.st, cr[r].st)] \in Objects
    BY Fields, StatusTypes DEF Objects
  <2>2. [new EXCEPT !.st = Overlay(obj.st, cr[r].st)].ext = cr[r].ext
    BY DEF Objects
  <2> QED
    BY <1>1, <1>2, <2>1, <2>2 DEF PutManaged
<1>3. CASE out # "ok"
  BY <1>1, <1>3, Fields DEF PutManaged, TypeInv, LocalOK
<1> QED
  BY <1>2, <1>3

(* The copy a replica sends back is the one it holds, with one field set.  *)
LEMMA AsStoredTypes ==
    ASSUME TypeInv, NEW r \in Replicas
    PROVE  /\ AsStored([cr[r] EXCEPT !.fin = TRUE]) \in Objects
           /\ AsStored([cr[r] EXCEPT !.fin = TRUE]).ext = cr[r].ext
           /\ AsStored([cr[r] EXCEPT !.ann = "pending"]) \in Objects
           /\ AsStored([cr[r] EXCEPT !.ann = "pending"]).ext = cr[r].ext
BY Fields DEF AsStored, Objects

-----------------------------------------------------------------------------
(* The reconciler.                                                         *)

LEMMA StartTyped ==
    ASSUME TypeInv, NEW r \in Replicas, Start(r)
    PROVE  TypeInv'
<1>1. ApiOK'
  BY DEF Start, Holds, TypeInv, ApiOK
<1>2. LocalOK'
  BY Fields DEF Start, Goto, TypeInv, LocalOK, NameKnown, NameNeeded, Labels, Callers
<1> QED
  BY <1>1, <1>2 DEF Start, TypeInv, AtlasOK, StoresOK, BoundsOK, atlas, stores, limits

LEMMA OnwardTyped ==
    ASSUME LocalOK, NEW r \in Replicas, pc[r] = "finalizer", Onward(r),
           UNCHANGED <<key, chg>>,
           NEW c \in Objects, cr' = [cr EXCEPT ![r] = c], c.ext = cr[r].ext
    PROVE  LocalOK'
<1>1. PICK l \in {"pending", "creds", "finish"} :
         pc' = [pc EXCEPT ![r] = l] /\ (l = "creds" => ret[r] = "update")
  BY DEF Onward, Goto
<1> QED
  BY <1>1 DEF Onward, LocalOK, NameKnown, NameNeeded, Labels, Callers

LEMMA AddFinalizerTyped ==
    ASSUME TypeInv, NEW r \in Replicas, AddFinalizer(r)
    PROVE  TypeInv'
<1>1. BoundsOK'
  BY OutcomeTyped DEF AddFinalizer, TypeInv, BoundsOK, limits
<1>2. ApiOK' /\ \E c \in Objects : cr' = [cr EXCEPT ![r] = c] /\ c.ext = cr[r].ext
  <2>1. CASE UNCHANGED <<api, cr>>
    BY <2>1, Fields DEF api, TypeInv, ApiOK, LocalOK
  <2>2. ASSUME NEW out \in Outcomes,
               PutManaged(r, out, AsStored([cr[r] EXCEPT !.fin = TRUE]))
        PROVE  ApiOK' /\ \E c \in Objects : cr' = [cr EXCEPT ![r] = c] /\ c.ext = cr[r].ext
    BY <2>2, AsStoredTypes, PutManagedTyped DEF Outcomes
  <2> QED
    BY <2>1, <2>2 DEF AddFinalizer
<1>3. LocalOK'
  BY <1>2, OnwardTyped, FinishTyped DEF AddFinalizer, TypeInv
<1> QED
  BY <1>1, <1>2, <1>3 DEF AddFinalizer, TypeInv, AtlasOK, StoresOK, atlas, stores

LEMMA RemoveFinalizerTyped ==
    ASSUME TypeInv, NEW r \in Replicas, RemoveFinalizer(r)
    PROVE  TypeInv'
<1>1. BoundsOK'
  BY OutcomeTyped DEF RemoveFinalizer, TypeInv, BoundsOK, limits
<1>2. ApiOK'
  BY Fields, ObjectTypes, StoreTyped DEF RemoveFinalizer, api, TypeInv, ApiOK
<1>3. LocalOK'
  BY DEF RemoveFinalizer, Finish, Goto, TypeInv, LocalOK, NameKnown, NameNeeded, Labels, Callers
<1> QED
  BY <1>1, <1>2, <1>3 DEF RemoveFinalizer, TypeInv, AtlasOK, StoresOK, atlas, stores

LEMMA MarkPendingTyped ==
    ASSUME TypeInv, NEW r \in Replicas, MarkPending(r)
    PROVE  TypeInv'
<1>1. BoundsOK'
  BY OutcomeTyped DEF MarkPending, TypeInv, BoundsOK, limits
<1>2. ApiOK' /\ \E c \in Objects : cr' = [cr EXCEPT ![r] = c] /\ c.ext = cr[r].ext
  <2>1. CASE UNCHANGED <<api, cr>>
    BY <2>1, Fields DEF api, TypeInv, ApiOK, LocalOK
  <2>2. ASSUME NEW out \in Outcomes,
               PutManaged(r, out, AsStored([cr[r] EXCEPT !.ann = "pending"]))
        PROVE  ApiOK' /\ \E c \in Objects : cr' = [cr EXCEPT ![r] = c] /\ c.ext = cr[r].ext
    BY <2>2, AsStoredTypes, PutManagedTyped DEF Outcomes
  <2> QED
    BY <2>1, <2>2 DEF MarkPending
<1>3. LocalOK'
  <2>1. Finish(r) \/ (Goto(r, "find") /\ UNCHANGED ret)
    BY DEF MarkPending
  <2> QED
    BY <1>2, <2>1 DEF MarkPending, Finish, Goto, TypeInv, LocalOK, NameKnown, NameNeeded,
                      Labels, Callers
<1> QED
  BY <1>1, <1>2, <1>3 DEF MarkPending, TypeInv, AtlasOK, StoresOK, atlas, stores

LEMMA UpdateCriticalAnnotationsTyped ==
    ASSUME TypeInv, NEW r \in Replicas, UpdateCriticalAnnotations(r)
    PROVE  TypeInv'
<1>1. BoundsOK'
  BY ErrorTyped DEF UpdateCriticalAnnotations, TypeInv, BoundsOK, limits
<1>2. Annotated(obj, cr[r]) \in Objects
  BY Fields, ObjectTypes
<1>3. \A s \in Statuses : [Annotated(obj, cr[r]) EXCEPT !.st = s] \in Objects
  BY <1>2 DEF Objects
<1>4. ApiOK'
  BY <1>2, StoreTyped DEF UpdateCriticalAnnotations, api, TypeInv, ApiOK
<1>5. \E c \in Objects : cr' = [cr EXCEPT ![r] = c]
  <2>1. (IF Current(r, "cr") THEN Overlay(obj.st, cr[r].st) ELSE obj.st) \in Statuses
    BY Fields, StatusTypes
  <2> QED
    BY <1>3, <2>1, Fields DEF UpdateCriticalAnnotations, TypeInv, LocalOK
<1>6. LocalOK'
  BY <1>5, FinishTyped DEF UpdateCriticalAnnotations, TypeInv
<1> QED
  BY <1>1, <1>4, <1>6 DEF UpdateCriticalAnnotations, TypeInv, AtlasOK, StoresOK, atlas, stores

(* A stored status comes from a working copy.                              *)
LEMMA RestatusTypes ==
    ASSUME TypeInv, NEW r \in Replicas
    PROVE  [obj EXCEPT !.st = cr[r].st] \in Objects
BY Fields, ObjectTypes

LEMMA UpdateManagedStatusTyped ==
    ASSUME TypeInv, NEW r \in Replicas, UpdateManagedStatus(r)
    PROVE  TypeInv'
<1>1. BoundsOK'
  BY OutcomeTyped DEF UpdateManagedStatus, TypeInv, BoundsOK, limits
<1>2. ApiOK'
  BY RestatusTypes, StoreTyped DEF UpdateManagedStatus, Holds, TypeInv, ApiOK
<1>3. LocalOK'
  BY IdleTyped DEF UpdateManagedStatus, TypeInv
<1> QED
  BY <1>1, <1>2, <1>3 DEF UpdateManagedStatus, TypeInv, AtlasOK, StoresOK, atlas, stores

(* Persisting the name, and what follows it.                               *)
LEMMA PersistFailedTyped ==
    ASSUME TypeInv, NEW r \in Replicas, PersistFailed(r), UNCHANGED <<key, chg>>
    PROVE  LocalOK'
<1>1. cr[r] \in Objects /\ LocalOK /\ (UNCHANGED cr => cr' = [cr EXCEPT ![r] = cr[r]])
  BY Fields DEF TypeInv, LocalOK
<1> QED
  BY <1>1, CreatedTyped, FinishTyped DEF PersistFailed, CreateFailed

LEMMA NamePersistedTyped ==
    ASSUME TypeInv, NEW r \in Replicas, pc[r] \in {"put", "reput"}, NamePersisted(r),
           UNCHANGED <<key, chg>>
    PROVE  LocalOK'
<1>1. cr[r] \in Objects /\ LocalOK /\ cr[r].ext # None
  BY Fields DEF TypeInv, LocalOK, NameKnown, NameNeeded
<1>2. CASE ret[r] = "restore"
  <2>1. Observed(r, "update") /\ cr' = [cr EXCEPT ![r] = cr[r]]
    BY <1>1, <1>2 DEF NamePersisted, LocalOK
  <2> QED
    BY <1>1, <2>1, ObservedTyped
<1>3. CASE ret[r] # "restore"
  <2>1. \E l \in {"store", "adopted"} : Goto(r, l) /\ UNCHANGED <<ret, cr>>
    BY <1>3 DEF NamePersisted
  <2> QED
    BY <1>1, <2>1 DEF Goto, LocalOK, NameKnown, NameNeeded, Labels
<1> QED
  BY <1>2, <1>3

(* A Get that finds a copy moves on to the write that uses it.             *)
LEMMA GotCopyTyped ==
    ASSUME ApiOK, NEW r \in Replicas,
           fresh' = [fresh EXCEPT ![r] = IF "cache" \in @ THEN @ \cup {"latest"}
                                                           ELSE @ \ {"latest"}],
           UNCHANGED <<obj, cache>>
    PROVE  ApiOK'
BY DEF ApiOK

LEMMA GetLatestTyped ==
    ASSUME TypeInv, NEW r \in Replicas, GetLatest(r)
    PROVE  TypeInv'
<1>1. BoundsOK'
  BY ErrorTyped DEF GetLatest, TypeInv, BoundsOK, limits
<1>2. ApiOK'
  BY GotCopyTyped DEF GetLatest, TypeInv, ApiOK, api
<1>3. LocalOK'
  <2>1. CASE PersistFailed(r)
    BY <2>1, PersistFailedTyped DEF GetLatest
  <2>2. CASE Goto(r, IF pc[r] = "get" THEN "put" ELSE "reput") /\ UNCHANGED <<cr, ret>>
    BY <2>2 DEF GetLatest, Goto, TypeInv, LocalOK, NameKnown, NameNeeded, Labels
  <2> QED
    BY <2>1, <2>2 DEF GetLatest
<1> QED
  BY <1>1, <1>2, <1>3 DEF GetLatest, TypeInv, AtlasOK, StoresOK, atlas, stores

LEMMA PutNameTyped ==
    ASSUME TypeInv, NEW r \in Replicas, PutName(r)
    PROVE  TypeInv'
<1>1. BoundsOK'
  BY OutcomeTyped DEF PutName, TypeInv, BoundsOK, limits
<1>2. ApiOK'
  <2>1. [obj EXCEPT !.ext = cr[r].ext] \in Objects
    BY Fields, ObjectTypes
  <2> QED
    BY <2>1, StoreTyped DEF PutName, api, TypeInv, ApiOK
<1>3. LocalOK'
  <2>1. CASE PersistFailed(r)
    BY <2>1, PersistFailedTyped DEF PutName
  <2>2. CASE NamePersisted(r)
    BY <2>2, NamePersistedTyped DEF PutName
  <2>3. CASE Goto(r, "reget") /\ UNCHANGED <<cr, ret>>
    BY <2>3 DEF PutName, Goto, TypeInv, LocalOK, NameKnown, NameNeeded, Labels
  <2> QED
    BY <2>1, <2>2, <2>3 DEF PutName
<1> QED
  BY <1>1, <1>2, <1>3 DEF PutName, TypeInv, AtlasOK, StoresOK, atlas, stores

LEMMA AdoptStatusTyped ==
    ASSUME TypeInv, NEW r \in Replicas, AdoptStatus(r)
    PROVE  TypeInv'
<1>1. BoundsOK'
  BY OutcomeTyped DEF AdoptStatus, TypeInv, BoundsOK, limits
<1>2. ApiOK'
  BY RestatusTypes, StoreTyped DEF AdoptStatus, api, TypeInv, ApiOK
<1>3. LocalOK'
  <2>1. cr[r] \in Objects /\ LocalOK /\ cr[r].ext # None
    BY Fields DEF AdoptStatus, TypeInv, LocalOK, NameKnown, NameNeeded
  <2>2. CASE PersistFailed(r)
    BY <2>2, PersistFailedTyped DEF AdoptStatus
  <2>3. CASE Created(r, cr[r], "succeeded")
    BY <2>1, <2>3, CreatedTyped DEF AdoptStatus
  <2>4. CASE Observed(r, "update") /\ UNCHANGED cr
    <3>1. cr' = [cr EXCEPT ![r] = cr[r]]
      BY <2>1, <2>4 DEF LocalOK
    <3> QED
      BY <2>1, <2>4, <3>1, ObservedTyped DEF AdoptStatus
  <2> QED
    BY <2>2, <2>3, <2>4 DEF AdoptStatus
<1> QED
  BY <1>1, <1>2, <1>3 DEF AdoptStatus, TypeInv, AtlasOK, StoresOK, atlas, stores

(* Writing the status, and what follows it.                                *)
LEMMA StatusPutTyped ==
    ASSUME TypeInv, NEW r \in Replicas, pc[r] \in {"status", "reread", "restatus"},
           NEW ok \in BOOLEAN, StatusPut(r, ok), UNCHANGED <<key, chg>>
    PROVE  LocalOK'
<1>1. cr[r] \in Objects /\ LocalOK /\ (UNCHANGED cr => cr' = [cr EXCEPT ![r] = cr[r]])
  BY Fields DEF TypeInv, LocalOK
<1>2. CASE ret[r] = "created"
  <2>1. PICK result \in {"failed", "succeeded"} : Created(r, cr[r], result)
    BY <1>2 DEF StatusPut
  <2> QED
    BY <1>1, <2>1, CreatedTyped
<1>3. CASE ret[r] = "marked"
  BY <1>1, <1>3 DEF StatusPut, Goto, LocalOK, NameKnown, NameNeeded, Labels
<1>4. CASE ret[r] = "cleaned"
  BY <1>1, <1>4 DEF StatusPut, Goto, LocalOK, NameKnown, NameNeeded, Labels
<1>5. CASE ret[r] \notin {"created", "marked", "cleaned"}
  BY <1>1, <1>5, FinishTyped DEF StatusPut
<1> QED
  BY <1>2, <1>3, <1>4, <1>5

LEMMA UpdateStatusTyped ==
    ASSUME TypeInv, NEW r \in Replicas, UpdateStatus(r)
    PROVE  TypeInv'
<1>1. BoundsOK'
  BY OutcomeTyped DEF UpdateStatus, TypeInv, BoundsOK, limits
<1>2. ApiOK'
  BY RestatusTypes, StoreTyped DEF UpdateStatus, api, TypeInv, ApiOK
<1>3. LocalOK'
  <2>1. ASSUME NEW ok \in BOOLEAN, StatusPut(r, ok)
        PROVE  LocalOK'
    BY <2>1, StatusPutTyped DEF UpdateStatus
  <2>2. CASE Goto(r, "reread") /\ UNCHANGED <<cr, ret>>
    BY <2>2 DEF UpdateStatus, Goto, TypeInv, LocalOK, NameKnown, NameNeeded, Labels
  <2> QED
    BY <2>1, <2>2 DEF UpdateStatus
<1> QED
  BY <1>1, <1>2, <1>3 DEF UpdateStatus, TypeInv, AtlasOK, StoresOK, atlas, stores

LEMMA RereadForStatusTyped ==
    ASSUME TypeInv, NEW r \in Replicas, RereadForStatus(r)
    PROVE  TypeInv'
<1>1. BoundsOK'
  BY ErrorTyped DEF RereadForStatus, TypeInv, BoundsOK, limits
<1>2. ApiOK'
  BY GotCopyTyped DEF RereadForStatus, TypeInv, ApiOK, api
<1>3. LocalOK'
  <2>1. CASE StatusPut(r, FALSE)
    BY <2>1, StatusPutTyped DEF RereadForStatus
  <2>2. CASE Goto(r, "restatus") /\ UNCHANGED <<cr, ret>>
    BY <2>2 DEF RereadForStatus, Goto, TypeInv, LocalOK, NameKnown, NameNeeded, Labels
  <2> QED
    BY <2>1, <2>2 DEF RereadForStatus
<1> QED
  BY <1>1, <1>2, <1>3 DEF RereadForStatus, TypeInv, AtlasOK, StoresOK, atlas, stores

LEMMA RetryStatusTyped ==
    ASSUME TypeInv, NEW r \in Replicas, RetryStatus(r)
    PROVE  TypeInv'
<1>1. BoundsOK'
  BY OutcomeTyped DEF RetryStatus, TypeInv, BoundsOK, limits
<1>2. ApiOK'
  BY RestatusTypes, StoreTyped DEF RetryStatus, api, TypeInv, ApiOK
<1>3. LocalOK'
  <2>1. ASSUME NEW ok \in BOOLEAN, StatusPut(r, ok)
        PROVE  LocalOK'
    BY <2>1, StatusPutTyped DEF RetryStatus
  <2> QED
    BY <2>1 DEF RetryStatus
<1> QED
  BY <1>1, <1>2, <1>3 DEF RetryStatus, TypeInv, AtlasOK, StoresOK, atlas, stores

-----------------------------------------------------------------------------
(* Observe.                                                                *)

LEMMA RestoreTyped ==
    ASSUME TypeInv, NEW r \in Replicas, Restore(r)
    PROVE  TypeInv'
<1>1. LocalOK'
  <2>1. [cr[r] EXCEPT !.ext = cr[r].st.orgID] \in Objects
        /\ [cr[r] EXCEPT !.ext = cr[r].st.orgID].ext # None
    BY Fields DEF Restore, Objects
  <2>2. cr' = [cr EXCEPT ![r] = [cr[r] EXCEPT !.ext = cr[r].st.orgID]]
        /\ key' = [key EXCEPT ![r] = key[r]]
    BY DEF Restore, TypeInv, LocalOK
  <2>3. PersistName(r, "restore") /\ UNCHANGED chg /\ "restore" \in Callers
    BY DEF Restore, Callers
  <2> HIDE DEF PersistName
  <2> QED
    BY <2>1, <2>2, <2>3, PersistNameTyped, Fields DEF TypeInv
<1> QED
  BY <1>1 DEF Restore, TypeInv, ApiOK, AtlasOK, StoresOK, BoundsOK, api, atlas, stores, limits

LEMMA AdoptedTypes ==
    ASSUME NEW c \in Objects, NEW o \in OrgIds
    PROVE  /\ Adopted(c, o) \in Objects /\ Adopted(c, o).ext = o /\ o # None
           /\ Adopted(c, o).st \in Statuses
BY SetsAssumption DEF Adopted, Objects, Statuses

LEMMA SearchByNameTyped ==
    ASSUME TypeInv, NEW r \in Replicas, SearchByName(r)
    PROVE  TypeInv'
<1>1. BoundsOK'
  BY ReplyTyped DEF SearchByName, TypeInv
<1>2. LocalOK'
  <2>1. /\ UNCHANGED <<key, chg>> /\ key' = [key EXCEPT ![r] = key[r]]
        /\ cr[r] \in Objects /\ LocalOK
        /\ (UNCHANGED cr => cr' = [cr EXCEPT ![r] = cr[r]])
    BY Fields DEF SearchByName, TypeInv, LocalOK
  <2>2. ASSUME NEW o \in Live, cr' = [cr EXCEPT ![r] = Adopted(cr[r], o)],
               PersistName(r, "adopt")
        PROVE  LocalOK'
    <3>1. o \in OrgIds /\ "adopt" \in Callers
      BY DEF Live, Callers
    <3>2. Adopted(cr[r], o) \in Objects /\ Adopted(cr[r], o).ext # None
      BY <2>1, <3>1, AdoptedTypes
    <3>3. key[r] \in OrgIds \cup {None}
      BY Fields
    <3> QED
      BY <2>1, <2>2, <3>1, <3>2, <3>3, PersistNameTyped
  <2>3. CASE Observed(r, "create") /\ UNCHANGED cr
    BY <2>1, <2>3, ObservedTyped
  <2>4. CASE Finish(r) /\ UNCHANGED cr
    BY <2>1, <2>4, FinishTyped
  <2> QED
    BY <2>2, <2>3, <2>4 DEF SearchByName
<1> QED
  BY <1>1, <1>2 DEF SearchByName, TypeInv, ApiOK, AtlasOK, StoresOK, api, atlas, stores

LEMMA ObserveDeletingTyped ==
    ASSUME TypeInv, NEW r \in Replicas, ObserveDeleting(r)
    PROVE  TypeInv'
<1>1. LocalOK'
  <2>1. cr[r] \in Objects /\ LocalOK /\ cr' = [cr EXCEPT ![r] = cr[r]]
    BY Fields DEF ObserveDeleting, TypeInv, LocalOK
  <2> QED
    BY <2>1, ObservedTyped DEF ObserveDeleting
<1> QED
  BY <1>1 DEF ObserveDeleting, TypeInv, ApiOK, AtlasOK, StoresOK, BoundsOK,
              api, atlas, stores, limits

LEMMA SecretMetadataTypes ==
    ASSUME TypeInv, NEW r \in Replicas, NEW found \in BOOLEAN
    PROVE  /\ WithSecretMetadata(cr[r], found) \in Statuses
           /\ \A s \in Statuses : /\ [cr[r] EXCEPT !.st = s] \in Objects
                                  /\ [cr[r] EXCEPT !.st = s].ext = cr[r].ext
<1>1. cr[r] \in Objects /\ cr[r].st \in Statuses /\ cr[r].spec \in SpecFields
  BY Fields
<1>2. StorageType(cr[r].spec) \in {"", "AWS", "Kubernetes"}
      /\ DesiredSecretName(cr[r].spec) \in Names
  BY <1>1 DEF StorageType, DesiredSecretName, SpecFields
<1> QED
  BY <1>1, <1>2 DEF WithSecretMetadata, Statuses, Objects

LEMMA ObserveCurrentTyped ==
    ASSUME TypeInv, NEW r \in Replicas, ObserveCurrent(r)
    PROVE  TypeInv'
<1>1. PICK found \in BOOLEAN :
         /\ cr' = [cr EXCEPT ![r] = [cr[r] EXCEPT !.st = WithSecretMetadata(cr[r], found)]]
         /\ \/ errors < MaxErrors /\ errors' = errors + 1
            \/ UNCHANGED errors
         /\ \E next \in {"finish", "update"} : Observed(r, next)
  BY BoundsAssumption DEF ObserveCurrent
<1>2. BoundsOK'
  BY <1>1, ErrorTyped DEF ObserveCurrent, TypeInv, BoundsOK, limits
<1>3. LocalOK'
  <2>1. /\ [cr[r] EXCEPT !.st = WithSecretMetadata(cr[r], found)] \in Objects
        /\ [cr[r] EXCEPT !.st = WithSecretMetadata(cr[r], found)].ext # None
    BY SecretMetadataTypes DEF ObserveCurrent
  <2>2. LocalOK /\ UNCHANGED <<key, chg>>
    BY DEF ObserveCurrent, TypeInv
  <2> QED
    BY <1>1, <2>1, <2>2, ObservedTyped
<1> QED
  BY <1>2, <1>3 DEF ObserveCurrent, TypeInv, ApiOK, AtlasOK, StoresOK, api, atlas, stores

-----------------------------------------------------------------------------
(* Create.                                                                 *)

LEMMA FindExistingTyped ==
    ASSUME TypeInv, NEW r \in Replicas, FindExisting(r)
    PROVE  TypeInv'
<1>1. BoundsOK'
  BY ReplyTyped DEF FindExisting, TypeInv
<1>2. LocalOK'
  <2>1. /\ UNCHANGED <<key, chg>> /\ key' = [key EXCEPT ![r] = key[r]]
        /\ cr[r] \in Objects /\ LocalOK
    BY Fields DEF FindExisting, TypeInv, LocalOK
  <2>2. ASSUME NEW o \in Live, cr' = [cr EXCEPT ![r] = Adopted(cr[r], o)],
               PersistName(r, "reuse")
        PROVE  LocalOK'
    <3>1. o \in OrgIds /\ "reuse" \in Callers
      BY DEF Live, Callers
    <3>2. Adopted(cr[r], o) \in Objects /\ Adopted(cr[r], o).ext # None
      BY <2>1, <3>1, AdoptedTypes
    <3>3. key[r] \in OrgIds \cup {None}
      BY Fields
    <3> QED
      BY <2>1, <2>2, <3>1, <3>2, <3>3, PersistNameTyped
  <2>3. CASE Goto(r, "post") /\ UNCHANGED <<cr, ret>>
    BY <2>1, <2>3 DEF Goto, LocalOK, NameKnown, NameNeeded, Labels
  <2>4. CASE CreateFailed(r)
    BY <2>1, <2>4, CreatedTyped DEF CreateFailed
  <2> QED
    BY <2>2, <2>3, <2>4 DEF FindExisting
<1> QED
  BY <1>1, <1>2 DEF FindExisting, TypeInv, ApiOK, AtlasOK, StoresOK, api, atlas, stores

LEMMA CreateOrganizationTyped ==
    ASSUME TypeInv, NEW r \in Replicas, CreateOrganization(r)
    PROVE  TypeInv'
<1>1. BoundsOK'
  BY ReplyTyped DEF CreateOrganization, TypeInv
<1>2. AtlasOK'
  BY Fields DEF CreateOrganization, TypeInv, AtlasOK
<1>3. LocalOK'
  <2>1. UNCHANGED chg /\ cr[r] \in Objects /\ LocalOK
    BY Fields DEF CreateOrganization, TypeInv
  <2>2. ASSUME NEW o \in OrgIds, PersistName(r, "created"),
               cr' = [cr EXCEPT ![r] = [Adopted(cr[r], o) EXCEPT !.st.roles = cr[r].spec.roles]],
               key' = [key EXCEPT ![r] = o]
        PROVE  LocalOK'
    <3>1. Adopted(cr[r], o) \in Objects /\ Adopted(cr[r], o).ext # None
          /\ Adopted(cr[r], o).st \in Statuses /\ cr[r].spec.roles \in SUBSET Roles
      BY <2>1, AdoptedTypes, Fields
    <3>2. [Adopted(cr[r], o).st EXCEPT !.roles = cr[r].spec.roles] \in Statuses
      BY <3>1, StatusTypes
    <3>3. [Adopted(cr[r], o) EXCEPT !.st.roles = cr[r].spec.roles] \in Objects
          /\ [Adopted(cr[r], o) EXCEPT !.st.roles = cr[r].spec.roles].ext # None
      BY <3>1, <3>2 DEF Objects
    <3>4. "created" \in Callers
      BY DEF Callers
    <3> QED
      BY <2>1, <2>2, <3>3, <3>4, PersistNameTyped
  <2>3. CASE CreateFailed(r) /\ UNCHANGED key
    BY <2>1, <2>3, CreatedTyped DEF CreateFailed
  <2> QED
    BY <2>2, <2>3 DEF CreateOrganization
<1> QED
  BY <1>1, <1>2, <1>3 DEF CreateOrganization, TypeInv, ApiOK, StoresOK, api, stores

(* Setting one field of the status leaves a working copy with its name.    *)
Renewed(r, copies) ==
    \E c \in Objects : copies = [cr EXCEPT ![r] = c] /\ c.ext = cr[r].ext

LEMMA StatusFieldTypes ==
    ASSUME TypeInv, NEW r \in Replicas
    PROVE  /\ Renewed(r, cr)
           /\ \A x \in SUBSET IPs : Renewed(r, [cr EXCEPT ![r].st.ips = x])
           /\ \A x \in SUBSET Roles : Renewed(r, [cr EXCEPT ![r].st.roles = x])
           /\ \A x \in {"unset", "on", "off"} : Renewed(r, [cr EXCEPT ![r].st.enf = x])
           /\ \A type \in {"", "AWS", "Kubernetes"}, n \in Names \cup {Unset} :
                 Renewed(r, [cr EXCEPT ![r].st = Recorded(@, type, n)])
<1>1. cr[r] \in Objects /\ cr[r].st \in Statuses /\ cr \in [Replicas -> Objects]
  BY Fields DEF TypeInv, LocalOK
<1>2. \A s \in Statuses : /\ [cr[r] EXCEPT !.st = s] \in Objects
                          /\ [cr[r] EXCEPT !.st = s].ext = cr[r].ext
  BY <1>1 DEF Objects
<1>3. \A s \in Statuses : Renewed(r, [cr EXCEPT ![r] = [cr[r] EXCEPT !.st = s]])
  BY <1>2 DEF Renewed
<1>4. \A x \in SUBSET IPs : [cr[r].st EXCEPT !.ips = x] \in Statuses
  BY <1>1, StatusTypes
<1>5. \A x \in SUBSET Roles : [cr[r].st EXCEPT !.roles = x] \in Statuses
  BY <1>1, StatusTypes
<1>6. \A x \in {"unset", "on", "off"} : [cr[r].st EXCEPT !.enf = x] \in Statuses
  BY <1>1, StatusTypes
<1>7. \A type \in {"", "AWS", "Kubernetes"}, n \in Names \cup {Unset} :
         Recorded(cr[r].st, type, n) \in Statuses
  BY <1>1, StatusTypes
<1>8. Renewed(r, cr)
  BY <1>1 DEF Renewed
<1> QED
  BY <1>3, <1>4, <1>5, <1>6, <1>7, <1>8

LEMMA StoreKeyTyped ==
    ASSUME TypeInv, NEW r \in Replicas, StoreKey(r)
    PROVE  TypeInv'
<1> DEFINE spec == cr[r].spec
           type == StorageType(spec)
           name == IF type = "Kubernetes" THEN spec.k8s ELSE AwsNameFor(spec)
<1>1. spec \in SpecFields /\ cr[r] \in Objects /\ cr[r].ext # None
      /\ key[r] \in OrgIds \cup {None} /\ pc[r] = "store"
  BY Fields DEF StoreKey, TypeInv, LocalOK, NameKnown, NameNeeded
<1>2. type \in {"", "AWS", "Kubernetes"} /\ name \in Names \cup {Unset}
  BY <1>1, SetsAssumption DEF StorageType, AwsNameFor, SpecFields
<1>3. BoundsOK'
  BY OutcomeTyped DEF StoreKey, TypeInv, BoundsOK, limits
<1>4. StoresOK'
  BY <1>1 DEF StoreKey, TypeInv, StoresOK, stores
<1>5. LocalOK'
  <2>1. CASE CreateFailed(r) /\ UNCHANGED key
    BY <2>1, <1>1, CreatedTyped DEF CreateFailed, StoreKey, TypeInv
  <2>2. CASE Idle(r)
    BY <2>2, IdleTyped DEF TypeInv
  <2>3. CASE /\ cr' = [cr EXCEPT ![r].st = Recorded(@, type, name)]
             /\ Goto(r, "ips") /\ UNCHANGED <<ret, key>>
    <3>a. Renewed(r, cr')
      BY <2>3, <1>2, StatusFieldTypes
    <3>1. PICK c \in Objects : cr' = [cr EXCEPT ![r] = c] /\ c.ext = cr[r].ext
      BY <3>a DEF Renewed
    <3> QED
      BY <2>3, <3>1, <1>1 DEF StoreKey, Goto, TypeInv, LocalOK, NameKnown, NameNeeded, Labels
  <2> QED
    BY <2>1, <2>2, <2>3 DEF StoreKey
<1> QED
  BY <1>3, <1>4, <1>5 DEF StoreKey, TypeInv, ApiOK, AtlasOK, api, atlas

LEMMA ProvisionIPsTyped ==
    ASSUME TypeInv, NEW r \in Replicas, ProvisionIPs(r)
    PROVE  TypeInv'
<1>1. cr[r].spec.ips \in SUBSET IPs /\ cr[r].ext # None /\ cr[r] \in Objects
  BY Fields DEF ProvisionIPs, TypeInv, LocalOK, NameKnown, NameNeeded
<1>2. BoundsOK'
  BY ReplyTyped DEF ProvisionIPs, TypeInv, BoundsOK, limits
<1>3. AtlasOK'
  BY <1>1 DEF ProvisionIPs, TypeInv, AtlasOK
<1>4. LocalOK'
  <2>1. PICK c \in Objects : cr' = [cr EXCEPT ![r] = c] /\ c.ext = cr[r].ext
    <3>1. \/ UNCHANGED cr
          \/ cr' = [cr EXCEPT ![r].st.ips = {}]
          \/ cr' = [cr EXCEPT ![r].st.ips = cr[r].spec.ips]
      BY DEF ProvisionIPs
    <3>2. CASE UNCHANGED cr
      BY <3>2, <1>1 DEF TypeInv, LocalOK
    <3>3. CASE \E x \in {{}, cr[r].spec.ips} : cr' = [cr EXCEPT ![r].st.ips = x]
      <4>1. PICK x \in SUBSET IPs : cr' = [cr EXCEPT ![r].st.ips = x]
        BY <3>3, <1>1
      <4>2. Renewed(r, cr')
        BY <4>1, StatusFieldTypes
      <4> QED
        BY <4>2 DEF Renewed
    <3> QED
      BY <3>1, <3>2, <3>3
  <2> QED
    BY <2>1, <1>1 DEF ProvisionIPs, Goto, TypeInv, LocalOK, NameKnown, NameNeeded, Labels
<1> QED
  BY <1>2, <1>3, <1>4 DEF ProvisionIPs, TypeInv, ApiOK, StoresOK, api, stores

LEMMA EnableAPIAccessListRequiredTyped ==
    ASSUME TypeInv, NEW r \in Replicas, EnableAPIAccessListRequired(r)
    PROVE  TypeInv'
<1>1. cr[r].ext \in OrgIds /\ cr[r] \in Objects
  BY Fields DEF EnableAPIAccessListRequired, TypeInv, LocalOK, NameKnown, NameNeeded
<1>2. BoundsOK'
  BY ReplyTyped DEF EnableAPIAccessListRequired, TypeInv, BoundsOK, limits
<1>3. AtlasOK'
  BY <1>1 DEF EnableAPIAccessListRequired, TypeInv, AtlasOK
<1>4. LocalOK'
  <2>1. PICK c \in Objects : cr' = [cr EXCEPT ![r] = c] /\ c.ext = cr[r].ext
    <3>1. UNCHANGED cr \/ cr' = [cr EXCEPT ![r].st.enf = "on"]
      BY DEF EnableAPIAccessListRequired
    <3>2. Renewed(r, cr')
      BY <3>1, <1>1, StatusFieldTypes
    <3> QED
      BY <3>2 DEF Renewed
  <2>2. PutStatus(r, "created") /\ UNCHANGED key /\ "created" \in Callers
        /\ chg' = [chg EXCEPT ![r] = chg[r]] /\ chg[r] \in BOOLEAN
    BY Fields DEF EnableAPIAccessListRequired, Callers, TypeInv, LocalOK
  <2> QED
    BY <2>1, <2>2, PutStatusTyped DEF TypeInv
<1> QED
  BY <1>2, <1>3, <1>4 DEF EnableAPIAccessListRequired, TypeInv, ApiOK, StoresOK, api, stores

-----------------------------------------------------------------------------
(* Update.                                                                 *)

LEMMA CredentialsTypes ==
    ASSUME StoresOK, NEW c, fetchOrgCredentials(c) # None, c.spec \in SpecFields,
           c.st \in Statuses
    PROVE  fetchOrgCredentials(c) \in OrgIds \cup {None}
<1>1. c.spec.k8s \in Names /\ AwsSecretName(c) \in Names
  BY DEF AwsSecretName, SpecFields, Statuses
<1> QED
  BY <1>1 DEF fetchOrgCredentials, StoresOK

(* A replica goes on within Update or Delete with a copy of the same name. *)
LEMMA ProceedTyped ==
    ASSUME LocalOK, NEW r \in Replicas, cr[r].ext # None,
           NEW l \in Labels, Goto(r, l), UNCHANGED ret,
           NEW c \in Objects, cr' = [cr EXCEPT ![r] = c], c.ext = cr[r].ext,
           NEW k \in OrgIds \cup {None}, key' = [key EXCEPT ![r] = k],
           NEW b \in BOOLEAN, chg' = [chg EXCEPT ![r] = b]
    PROVE  LocalOK'
BY DEF Goto, LocalOK, NameKnown

LEMMA Unchanged ==
    ASSUME TypeInv, NEW r \in Replicas
    PROVE  /\ UNCHANGED cr  => cr' = [cr EXCEPT ![r] = cr[r]]
           /\ UNCHANGED key => key' = [key EXCEPT ![r] = key[r]]
           /\ UNCHANGED chg => chg' = [chg EXCEPT ![r] = chg[r]]
           /\ LocalOK /\ cr[r] \in Objects
           /\ key[r] \in OrgIds \cup {None} /\ chg[r] \in BOOLEAN
BY DEF TypeInv, LocalOK

LEMMA FetchCredentialsTyped ==
    ASSUME TypeInv, NEW r \in Replicas, FetchCredentials(r)
    PROVE  TypeInv'
<1>1. cr[r].ext # None
  BY DEF FetchCredentials, TypeInv, LocalOK, NameKnown, NameNeeded
<1>2. BoundsOK'
  BY ErrorTyped DEF FetchCredentials, TypeInv, BoundsOK, limits
<1>3. LocalOK'
  <2>1. PICK k \in OrgIds \cup {None} : key' = [key EXCEPT ![r] = k]
    BY Fields, Unchanged, CredentialsTypes DEF FetchCredentials, TypeInv
  <2>2. PICK l \in Labels : Goto(r, l)
    BY DEF FetchCredentials, Labels
  <2> QED
    BY <1>1, <2>1, <2>2, Unchanged, ProceedTyped DEF FetchCredentials
<1> QED
  BY <1>2, <1>3 DEF FetchCredentials, TypeInv, ApiOK, AtlasOK, StoresOK, api, atlas, stores

LEMMA MovedTypes ==
    ASSUME TypeInv, NEW r \in Replicas, NEW type \in {"AWS", "Kubernetes"},
           NEW n \in Names \cup {Unset}, Moved(r, type, n)
    PROVE  /\ \E c \in Objects : cr' = [cr EXCEPT ![r] = c] /\ c.ext = cr[r].ext
           /\ \E b \in BOOLEAN : chg' = [chg EXCEPT ![r] = b]
<1>1. Renewed(r, cr')
  BY StatusFieldTypes DEF Moved
<1> QED
  BY <1>1 DEF Renewed, Moved

LEMMA MigrateToKubernetesTyped ==
    ASSUME TypeInv, NEW r \in Replicas, MigrateToKubernetes(r)
    PROVE  TypeInv'
<1>1. cr[r].ext # None /\ cr[r].spec.k8s \in Names
  BY Fields DEF MigrateToKubernetes, TypeInv, LocalOK, NameKnown, NameNeeded, SpecFields
<1>2. BoundsOK'
  BY OutcomeTyped DEF MigrateToKubernetes, TypeInv
<1>3. StoresOK'
  BY Fields DEF MigrateToKubernetes, TypeInv, StoresOK
<1>4. LocalOK'
  <2>1. PICK l \in Labels : Goto(r, l)
    BY DEF MigrateToKubernetes, Labels
  <2>2. Moved(r, "Kubernetes", cr[r].spec.k8s) \/ UNCHANGED <<cr, chg>>
    BY DEF MigrateToKubernetes
  <2>3. /\ \E c \in Objects : cr' = [cr EXCEPT ![r] = c] /\ c.ext = cr[r].ext
        /\ \E b \in BOOLEAN : chg' = [chg EXCEPT ![r] = b]
    BY <1>1, <2>2, MovedTypes, Unchanged
  <2> QED
    BY <1>1, <2>1, <2>3, Unchanged, ProceedTyped DEF MigrateToKubernetes
<1> QED
  BY <1>2, <1>3, <1>4 DEF MigrateToKubernetes, TypeInv, ApiOK, AtlasOK, api, atlas

LEMMA MigrateToAWSTyped ==
    ASSUME TypeInv, NEW r \in Replicas, MigrateToAWS(r)
    PROVE  TypeInv'
<1>1. cr[r].ext \in OrgIds /\ cr[r].spec \in SpecFields
  BY Fields DEF MigrateToAWS, TypeInv, LocalOK, NameKnown, NameNeeded
<1>2. BoundsOK'
  BY OutcomeTyped DEF MigrateToAWS, TypeInv, BoundsOK, limits
<1>3. StoresOK'
  BY Fields DEF MigrateToAWS, TypeInv, StoresOK
<1>4. LocalOK'
  <2>1. CASE Idle(r)
    BY <2>1, IdleTyped DEF TypeInv
  <2>2. CASE Goto(r, "finish") /\ UNCHANGED local
    BY <2>2, <1>1, Fields, Unchanged, ProceedTyped, SetsAssumption DEF local, Labels
  <2>3. CASE /\ cr[r].spec.named # None
             /\ UNCHANGED <<ret, key>>
             /\ \/ Moved(r, "AWS", MigratedName(cr[r])) /\ Goto(r, "purge")
                \/ UNCHANGED <<cr, chg>> /\ Goto(r, "finish")
    <3>1. MigratedName(cr[r]) \in Names \cup {Unset}
      BY <2>3, <1>1, SetsAssumption DEF MigratedName, SpecFields
    <3>2. /\ \E c \in Objects : cr' = [cr EXCEPT ![r] = c] /\ c.ext = cr[r].ext
          /\ \E b \in BOOLEAN : chg' = [chg EXCEPT ![r] = b]
      BY <2>3, <3>1, MovedTypes, Unchanged
    <3>3. PICK l \in Labels : Goto(r, l)
      BY <2>3 DEF Labels
    <3> QED
      BY <2>3, <1>1, <3>2, <3>3, Unchanged, ProceedTyped, SetsAssumption
  <2> QED
    BY <2>1, <2>2, <2>3 DEF MigrateToAWS, StorageType
<1> QED
  BY <1>2, <1>3, <1>4 DEF MigrateToAWS, TypeInv, ApiOK, AtlasOK, api, atlas

LEMMA KeepStorageTyped ==
    ASSUME TypeInv, NEW r \in Replicas, KeepStorage(r)
    PROVE  TypeInv'
<1>1. LocalOK'
  BY DEF KeepStorage, Goto, TypeInv, LocalOK, NameKnown, NameNeeded, Labels, local
<1> QED
  BY <1>1 DEF KeepStorage, TypeInv, ApiOK, AtlasOK, StoresOK, BoundsOK,
              api, atlas, stores, limits

LEMMA DeleteOldSecretTyped ==
    ASSUME TypeInv, NEW r \in Replicas, DeleteOldSecret(r)
    PROVE  TypeInv'
<1>1. BoundsOK'
  BY OutcomeTyped DEF DeleteOldSecret, TypeInv
<1>2. StoresOK'
  BY DEF DeleteOldSecret, TypeInv, StoresOK, stores
<1>3. LocalOK'
  BY DEF DeleteOldSecret, Goto, TypeInv, LocalOK, NameKnown, NameNeeded, Labels, local
<1> QED
  BY <1>1, <1>2, <1>3 DEF DeleteOldSecret, TypeInv, ApiOK, AtlasOK, api, atlas

LEMMA DescribeKeyTyped ==
    ASSUME TypeInv, NEW r \in Replicas, DescribeKey(r)
    PROVE  TypeInv'
<1>1. cr[r].ext # None
  BY DEF DescribeKey, TypeInv, LocalOK, NameKnown, NameNeeded
<1>2. BoundsOK'
  BY ReplyTyped DEF DescribeKey, TypeInv
<1>3. LocalOK'
  <2>1. PICK l \in Labels : Goto(r, l)
    BY DEF DescribeKey, Labels
  <2>2. PICK b \in BOOLEAN : chg' = [chg EXCEPT ![r] = b]
    BY Unchanged DEF DescribeKey
  <2> QED
    BY <1>1, <2>1, <2>2, Unchanged, ProceedTyped DEF DescribeKey
<1> QED
  BY <1>2, <1>3 DEF DescribeKey, TypeInv, ApiOK, AtlasOK, StoresOK, api, atlas, stores

LEMMA UpdateRolesTyped ==
    ASSUME TypeInv, NEW r \in Replicas, UpdateRoles(r)
    PROVE  TypeInv'
<1>1. cr[r].ext # None /\ cr[r].spec.roles \in SUBSET Roles
  BY Fields DEF UpdateRoles, TypeInv, LocalOK, NameKnown, NameNeeded
<1>2. BoundsOK'
  BY ReplyTyped DEF UpdateRoles, TypeInv, BoundsOK, limits
<1>3. AtlasOK'
  BY <1>1 DEF UpdateRoles, TypeInv, AtlasOK
<1>4. LocalOK'
  <2>1. Renewed(r, cr')
    <3>1. UNCHANGED cr \/ cr' = [cr EXCEPT ![r].st.roles = cr[r].spec.roles]
      BY DEF UpdateRoles
    <3>2. CASE UNCHANGED cr
      BY <3>2, StatusFieldTypes
    <3>3. CASE cr' = [cr EXCEPT ![r].st.roles = cr[r].spec.roles]
      BY <3>3, <1>1, StatusFieldTypes
    <3> QED
      BY <3>1, <3>2, <3>3
  <2>2. PICK b \in BOOLEAN : chg' = [chg EXCEPT ![r] = b]
    BY Unchanged DEF UpdateRoles
  <2>3. Goto(r, "enforcement") /\ UNCHANGED <<ret, key>> /\ "enforcement" \in Labels
    BY DEF UpdateRoles, Labels
  <2> QED
    BY <1>1, <2>1, <2>2, <2>3, Unchanged, ProceedTyped DEF Renewed
<1> QED
  BY <1>2, <1>3, <1>4 DEF UpdateRoles, TypeInv, ApiOK, StoresOK, api, stores

LEMMA UpdateEnforcementTyped ==
    ASSUME TypeInv, NEW r \in Replicas, UpdateEnforcement(r)
    PROVE  TypeInv'
<1>1. cr[r].ext \in OrgIds /\ cr[r].ext # None
  BY Fields DEF UpdateEnforcement, TypeInv, LocalOK, NameKnown, NameNeeded
<1>2. BoundsOK'
  BY ReplyTyped DEF UpdateEnforcement, TypeInv, BoundsOK, limits
<1>3. AtlasOK'
  BY <1>1 DEF UpdateEnforcement, TypeInv, AtlasOK
<1>4. LocalOK'
  <2>1. Renewed(r, cr')
    <3>1. UNCHANGED cr \/ \E x \in {"on", "off"} : cr' = [cr EXCEPT ![r].st.enf = x]
      BY DEF UpdateEnforcement, Enforcement
    <3>2. CASE UNCHANGED cr
      BY <3>2, StatusFieldTypes
    <3>3. ASSUME NEW x \in {"on", "off"}, cr' = [cr EXCEPT ![r].st.enf = x]
          PROVE  Renewed(r, cr')
      BY <3>3, StatusFieldTypes
    <3> QED
      BY <3>1, <3>2, <3>3
  <2>2. PICK b \in BOOLEAN : chg' = [chg EXCEPT ![r] = b]
    BY Unchanged DEF UpdateEnforcement
  <2>3. Goto(r, "addips") /\ UNCHANGED <<ret, key>> /\ "addips" \in Labels
    BY DEF UpdateEnforcement, Labels
  <2> QED
    BY <1>1, <2>1, <2>2, <2>3, Unchanged, ProceedTyped DEF Renewed
<1> QED
  BY <1>2, <1>3, <1>4 DEF UpdateEnforcement, TypeInv, ApiOK, StoresOK, api, stores

LEMMA UpdateDoneTyped ==
    ASSUME TypeInv, NEW r \in Replicas, NEW changed \in BOOLEAN, UpdateDone(r, changed),
           UNCHANGED key,
           changed \/ UNCHANGED chg, NEW b \in BOOLEAN, chg' = [chg EXCEPT ![r] = b],
           NEW c \in Objects, cr' = [cr EXCEPT ![r] = c]
    PROVE  LocalOK'
<1>1. LocalOK /\ "updated" \in Callers
  BY DEF TypeInv, Callers
<1>2. CASE changed
  BY <1>1, <1>2, PutStatusTyped DEF UpdateDone
<1>3. CASE ~changed
  BY <1>1, <1>3, FinishTyped DEF UpdateDone
<1> QED
  BY <1>2, <1>3

LEMMA AddNewIPsTyped ==
    ASSUME TypeInv, NEW r \in Replicas, AddNewIPs(r)
    PROVE  TypeInv'
<1>1. cr[r].ext # None /\ cr[r].spec.ips \in SUBSET IPs
  BY Fields DEF AddNewIPs, TypeInv, LocalOK, NameKnown, NameNeeded
<1>2. BoundsOK'
  BY ReplyTyped DEF AddNewIPs, TypeInv, BoundsOK, limits
<1>3. AtlasOK'
  BY <1>1 DEF AddNewIPs, TypeInv, AtlasOK
<1>4. LocalOK'
  <2>1. CASE UpdateDone(r, chg[r]) /\ UNCHANGED <<cr, key, chg>>
    BY <2>1, Unchanged, UpdateDoneTyped
  <2>2. CASE Goto(r, "removeips") /\ UNCHANGED <<cr, ret, key>>
    <3>1. PICK b \in BOOLEAN : chg' = [chg EXCEPT ![r] = b]
      BY <2>2, Unchanged DEF AddNewIPs
    <3> QED
      BY <1>1, <2>2, <3>1, Unchanged, ProceedTyped DEF Labels
  <2> QED
    BY <2>1, <2>2 DEF AddNewIPs
<1> QED
  BY <1>2, <1>3, <1>4 DEF AddNewIPs, TypeInv, ApiOK, StoresOK, api, stores

LEMMA RemoveIPsTyped ==
    ASSUME TypeInv, NEW k, NEW o, NEW old, RemoveIPs(k, o, old),
           UNCHANGED <<orgs, enforced, granted, limits>>
    PROVE  AtlasOK' /\ BoundsOK'
<1>1. AtlasOK'
  BY DEF RemoveIPs, TypeInv, AtlasOK
<1>2. BoundsOK'
  BY ErrorTyped DEF RemoveIPs, MayLeave, TypeInv, BoundsOK, limits
<1> QED
  BY <1>1, <1>2

LEMMA RemoveOldIPsTyped ==
    ASSUME TypeInv, NEW r \in Replicas, RemoveOldIPs(r)
    PROVE  TypeInv'
<1>1. AtlasOK' /\ BoundsOK'
  BY RemoveIPsTyped DEF RemoveOldIPs
<1>2. LocalOK'
  <2>1. Renewed(r, cr')
    BY Fields, StatusFieldTypes DEF RemoveOldIPs
  <2>2. PICK c \in Objects : cr' = [cr EXCEPT ![r] = c]
    BY <2>1 DEF Renewed
  <2> QED
    BY <2>2, UpdateDoneTyped DEF RemoveOldIPs
<1> QED
  BY <1>1, <1>2 DEF RemoveOldIPs, TypeInv, ApiOK, StoresOK, api, stores

-----------------------------------------------------------------------------
(* Delete.                                                                 *)

LEMMA CleanupIPsTyped ==
    ASSUME TypeInv, NEW r \in Replicas, CleanupIPs(r)
    PROVE  TypeInv'
<1>1. AtlasOK' /\ BoundsOK'
  <2>1. CASE UNCHANGED <<acl, errors>>
    BY <2>1 DEF CleanupIPs, TypeInv, AtlasOK, BoundsOK, limits
  <2>2. ASSUME NEW k, NEW o, NEW old, RemoveIPs(k, o, old)
        PROVE  AtlasOK' /\ BoundsOK'
    BY <2>2, RemoveIPsTyped DEF CleanupIPs
  <2> QED
    BY <2>1, <2>2 DEF CleanupIPs
<1>2. LocalOK'
  <2>1. cr[r].ext # None /\ "marked" \in Callers
    BY DEF CleanupIPs, TypeInv, LocalOK, NameKnown, NameNeeded, Callers
  <2> QED
    BY <2>1, Unchanged, PutStatusTyped DEF CleanupIPs
<1> QED
  BY <1>1, <1>2 DEF CleanupIPs, TypeInv, ApiOK, StoresOK, api, stores

LEMMA VerifyFirstTyped ==
    ASSUME TypeInv, NEW r \in Replicas, VerifyFirst(r)
    PROVE  TypeInv'
<1>1. cr[r].ext # None
  BY DEF VerifyFirst, TypeInv, LocalOK, NameKnown, NameNeeded
<1>2. BoundsOK'
  BY ReplyTyped DEF VerifyFirst, TypeInv
<1>3. LocalOK'
  <2>1. PICK l \in Labels : Goto(r, l)
    BY DEF VerifyFirst, Labels
  <2> QED
    BY <1>1, <2>1, Unchanged, ProceedTyped DEF VerifyFirst, local
<1> QED
  BY <1>2, <1>3 DEF VerifyFirst, TypeInv, ApiOK, AtlasOK, StoresOK, api, atlas, stores

LEMMA FetchForDeleteTyped ==
    ASSUME TypeInv, NEW r \in Replicas, FetchForDelete(r)
    PROVE  TypeInv'
<1>1. cr[r].ext # None
  BY DEF FetchForDelete, TypeInv, LocalOK, NameKnown, NameNeeded
<1>2. BoundsOK'
  BY ErrorTyped DEF FetchForDelete, TypeInv, BoundsOK, limits
<1>3. LocalOK'
  <2>1. CASE PutStatus(r, "error") /\ UNCHANGED key
    BY <2>1, Unchanged, PutStatusTyped DEF FetchForDelete, Callers
  <2>2. ASSUME UNCHANGED ret, NEW l \in {"delete", "clean"}, Goto(r, l)
        PROVE  LocalOK'
    <3>1. PICK k \in OrgIds \cup {None} : key' = [key EXCEPT ![r] = k]
      BY <2>2, Fields, Unchanged, CredentialsTypes DEF FetchForDelete, TypeInv, PutStatus, Goto
    <3>2. l \in Labels /\ UNCHANGED <<cr, chg>>
      BY DEF FetchForDelete, Labels
    <3> QED
      BY <1>1, <2>2, <3>1, <3>2, Unchanged, ProceedTyped
  <2> QED
    BY <2>1, <2>2 DEF FetchForDelete
<1> QED
  BY <1>2, <1>3 DEF FetchForDelete, TypeInv, ApiOK, AtlasOK, StoresOK, api, atlas, stores

LEMMA DeletedTyped ==
    ASSUME AtlasOK, NEW o, Deleted(o)
    PROVE  AtlasOK'
BY DEF AtlasOK, Deleted

LEMMA DeleteOrganizationTyped ==
    ASSUME TypeInv, NEW r \in Replicas, DeleteOrganization(r)
    PROVE  TypeInv'
<1>1. cr[r].ext # None
  BY DEF DeleteOrganization, TypeInv, LocalOK, NameKnown, NameNeeded
<1>2. BoundsOK'
  BY ReplyTyped DEF DeleteOrganization, TypeInv
<1>3. AtlasOK'
  BY DeletedTyped DEF DeleteOrganization, TypeInv, AtlasOK, atlas
<1>4. LocalOK'
  <2>1. \/ PutStatus(r, "error")
        \/ \E l \in {"clean", "confirm"} : Goto(r, l) /\ UNCHANGED ret
    BY DEF DeleteOrganization
  <2>2. CASE PutStatus(r, "error")
    BY <2>2, Unchanged, PutStatusTyped DEF DeleteOrganization, Callers
  <2>3. ASSUME NEW l \in {"clean", "confirm"}, Goto(r, l), UNCHANGED ret
        PROVE  LocalOK'
    BY <1>1, <2>3, Unchanged, ProceedTyped DEF DeleteOrganization, Labels
  <2> QED
    BY <2>1, <2>2, <2>3
<1> QED
  BY <1>2, <1>3, <1>4 DEF DeleteOrganization, TypeInv, ApiOK, StoresOK, api, stores

LEMMA ConfirmDeletionTyped ==
    ASSUME TypeInv, NEW r \in Replicas, ConfirmDeletion(r)
    PROVE  TypeInv'
<1>1. cr[r].ext # None
  BY DEF ConfirmDeletion, TypeInv, LocalOK, NameKnown, NameNeeded
<1>2. BoundsOK'
  BY ReplyTyped DEF ConfirmDeletion, TypeInv
<1>3. LocalOK'
  <2>1. CASE PutStatus(r, "error")
    BY <2>1, Unchanged, PutStatusTyped DEF ConfirmDeletion, Callers
  <2>2. CASE Goto(r, "clean") /\ UNCHANGED ret
    BY <1>1, <2>2, Unchanged, ProceedTyped DEF ConfirmDeletion, Labels
  <2> QED
    BY <2>1, <2>2 DEF ConfirmDeletion
<1> QED
  BY <1>2, <1>3 DEF ConfirmDeletion, TypeInv, ApiOK, AtlasOK, StoresOK, api, atlas, stores

LEMMA DeleteSecretTyped ==
    ASSUME TypeInv, NEW r \in Replicas, DeleteSecret(r)
    PROVE  TypeInv'
<1>1. BoundsOK'
  BY OutcomeTyped DEF DeleteSecret, TypeInv
<1>2. StoresOK'
  BY DEF DeleteSecret, TypeInv, StoresOK, stores
<1>3. LocalOK'
  BY Unchanged, PutStatusTyped DEF DeleteSecret, Callers
<1> QED
  BY <1>1, <1>2, <1>3 DEF DeleteSecret, TypeInv, ApiOK, AtlasOK, api, atlas

LEMMA GetForReleaseTyped ==
    ASSUME TypeInv, NEW r \in Replicas, GetForRelease(r)
    PROVE  TypeInv'
<1>1. BoundsOK'
  BY ErrorTyped DEF GetForRelease, TypeInv, BoundsOK, limits
<1>2. ApiOK'
  BY GotCopyTyped DEF GetForRelease, TypeInv, ApiOK, api
<1>3. LocalOK'
  BY DEF GetForRelease, Finish, Goto, TypeInv, LocalOK, NameKnown, NameNeeded, Labels, Callers
<1> QED
  BY <1>1, <1>2, <1>3 DEF GetForRelease, TypeInv, AtlasOK, StoresOK, atlas, stores

LEMMA ForceRemoveFinalizerTyped ==
    ASSUME TypeInv, NEW r \in Replicas, ForceRemoveFinalizer(r)
    PROVE  TypeInv'
<1>1. BoundsOK'
  BY OutcomeTyped DEF ForceRemoveFinalizer, TypeInv, BoundsOK, limits
<1>2. ApiOK'
  BY Fields, ObjectTypes, StoreTyped DEF ForceRemoveFinalizer, api, TypeInv, ApiOK
<1>3. LocalOK'
  BY DEF ForceRemoveFinalizer, Finish, Goto, TypeInv, LocalOK, NameKnown, NameNeeded,
         Labels, Callers
<1> QED
  BY <1>1, <1>2, <1>3 DEF ForceRemoveFinalizer, TypeInv, AtlasOK, StoresOK, atlas, stores

-----------------------------------------------------------------------------
(* The environment.                                                        *)

LEMMA EnvironmentTyped ==
    ASSUME TypeInv, Environment
    PROVE  TypeInv'
<1> USE DEF TypeInv
<1>1. CASE UserApply
  <2>1. ApiOK'
    BY <1>1, Constants, EditTyped, ObjectTypes DEF UserApply, ApiOK
  <2>2. BoundsOK'
    BY <1>1, BoundsAssumption DEF UserApply, BoundsOK
  <2> QED
    BY <1>1, <2>1, <2>2 DEF UserApply, LocalOK, NameKnown, AtlasOK, StoresOK,
                            local, atlas, stores
<1>2. CASE UserEdit \/ UserClearName \/ UserDelete
  <2>1. ApiOK'
    BY <1>2, Constants, EditTyped, ObjectTypes DEF UserEdit, UserClearName, UserDelete, ApiOK
  <2> QED
    BY <1>2, <2>1 DEF UserEdit, UserClearName, UserDelete, LocalOK, NameKnown, AtlasOK,
                      StoresOK, BoundsOK, local, atlas, stores, limits
<1>3. ASSUME NEW o \in OrgIds, ConsoleCreate(o) \/ ConsoleDelete(o)
      PROVE  TypeInv'
  <2>1. AtlasOK'
    BY <1>3, DeletedTyped DEF ConsoleCreate, ConsoleDelete, AtlasOK
  <2> QED
    BY <1>3, <2>1 DEF ConsoleCreate, ConsoleDelete, ApiOK, LocalOK, NameKnown, StoresOK,
                      BoundsOK, api, local, stores, limits
<1> QED
  BY <1>1, <1>2, <1>3 DEF Environment

LEMMA CacheSyncTyped ==
    ASSUME TypeInv, NEW r \in Replicas, CacheSync(r)
    PROVE  TypeInv'
<1>1. ApiOK'
  BY DEF CacheSync, TypeInv, ApiOK
<1> QED
  BY <1>1 DEF CacheSync, TypeInv, LocalOK, NameKnown, AtlasOK, StoresOK, BoundsOK,
              local, atlas, stores, limits

LEMMA CrashTyped ==
    ASSUME TypeInv, NEW r \in Replicas, Crash(r)
    PROVE  TypeInv'
<1>1. ApiOK'
  BY DEF Crash, TypeInv, ApiOK
<1>2. LocalOK'
  BY IdleTyped DEF Crash, TypeInv
<1>3. BoundsOK'
  BY BoundsAssumption DEF Crash, TypeInv, BoundsOK
<1> QED
  BY <1>1, <1>2, <1>3 DEF Crash, TypeInv, AtlasOK, StoresOK, atlas, stores

-----------------------------------------------------------------------------
(* The invariant holds at first, and every step of the system keeps it.    *)

LEMMA InitTyped == Init => TypeInv
<1> SUFFICES ASSUME Init PROVE TypeInv
  OBVIOUS
<1>1. Absent \in Objects /\ \A s \in Specs : NewObject(s) \in Objects
  <2>1. (CHOOSE s \in Specs : TRUE) \in Specs
    BY Constants
  <2>2. \A s \in Specs : NewObject(s) \in Objects
    BY DEF NewObject, NoStatus, Objects, Statuses
  <2> QED
    BY <2>1, <2>2 DEF Absent, NewObject, NoStatus, Objects, Statuses
<1>2. ApiOK
  BY <1>1 DEF Init, ApiOK
<1>3. LocalOK
  BY <1>1 DEF Init, LocalOK, NameKnown, NameNeeded, Labels, Callers
<1>4. AtlasOK /\ StoresOK /\ BoundsOK
  BY BoundsAssumption DEF Init, AtlasOK, StoresOK, BoundsOK
<1> QED
  BY <1>2, <1>3, <1>4 DEF TypeInv

LEMMA NextTyped == TypeInv /\ [Next]_vars => TypeInv'
<1> SUFFICES ASSUME TypeInv, [Next]_vars PROVE TypeInv'
  OBVIOUS
<1>1. ASSUME NEW r \in Replicas, ReconcilerStep(r) PROVE TypeInv'
  BY <1>1, StartTyped, AddFinalizerTyped, RemoveFinalizerTyped, MarkPendingTyped,
     UpdateCriticalAnnotationsTyped, UpdateManagedStatusTyped, GetLatestTyped, PutNameTyped,
     AdoptStatusTyped, UpdateStatusTyped, RereadForStatusTyped, RetryStatusTyped
  DEF ReconcilerStep
<1>2. ASSUME NEW r \in Replicas, ObserveStep(r) PROVE TypeInv'
  BY <1>2, RestoreTyped, SearchByNameTyped, ObserveDeletingTyped, ObserveCurrentTyped
  DEF ObserveStep
<1>3. ASSUME NEW r \in Replicas, CreateStep(r) PROVE TypeInv'
  BY <1>3, FindExistingTyped, CreateOrganizationTyped, StoreKeyTyped, ProvisionIPsTyped,
     EnableAPIAccessListRequiredTyped
  DEF CreateStep
<1>4. ASSUME NEW r \in Replicas, UpdateStep(r) PROVE TypeInv'
  BY <1>4, FetchCredentialsTyped, MigrateToKubernetesTyped, MigrateToAWSTyped,
     KeepStorageTyped, DeleteOldSecretTyped, DescribeKeyTyped, UpdateRolesTyped,
     UpdateEnforcementTyped, AddNewIPsTyped, RemoveOldIPsTyped
  DEF UpdateStep
<1>5. ASSUME NEW r \in Replicas, DeleteStep(r) PROVE TypeInv'
  BY <1>5, CleanupIPsTyped, VerifyFirstTyped, FetchForDeleteTyped, DeleteOrganizationTyped,
     ConfirmDeletionTyped, DeleteSecretTyped, GetForReleaseTyped, ForceRemoveFinalizerTyped
  DEF DeleteStep
<1>6. CASE UNCHANGED vars
  BY <1>6 DEF vars, api, local, atlas, stores, limits, TypeInv, ApiOK, LocalOK, NameKnown,
              AtlasOK, StoresOK, BoundsOK
<1> QED
  BY <1>1, <1>2, <1>3, <1>4, <1>5, <1>6, EnvironmentTyped, CacheSyncTyped, CrashTyped
  DEF Next, Reconcile

(* The strengthening holds throughout: Observe has named an organization   *)
(* before anything is asked of Atlas on its behalf.                        *)
THEOREM TypeInvariance == Spec => []TypeInv
BY InitTyped, NextTyped, PTL DEF Spec

(* Every variable stays in its domain, whatever the replicas, identifiers, *)
(* specs, faults and bounds.                                               *)
THEOREM TypeCorrect == Spec => []TypeOK
<1>1. TypeInv => TypeOK
  BY DEF TypeInv, ApiOK, LocalOK, AtlasOK, StoresOK, BoundsOK, TypeOK
<1> QED
  BY <1>1, TypeInvariance, PTL

=============================================================================
