---------------------------- MODULE AccessProofs ----------------------------
(***************************************************************************)
(* What the keys give access to.                                           *)
(*                                                                         *)
(* An organization made in the Atlas console is never touched, although    *)
(* the controller adopts it by its name: for every number of replicas and  *)
(* re-creations of the resource, whatever fails, lags, restarts or is      *)
(* answered wrongly.  A key opens its own organization only, and no key of *)
(* a console organization is ever in the provider's hands (KeysOurs).      *)
(* What Atlas then carries out is never about one.                         *)
(*                                                                         *)
(* When the lists the specs enable all have the provider's own address, it *)
(* stays listed until a deletion cleans up: a reconcile that removes what  *)
(* its status has and its spec has not works on a spec that enables a list *)
(* (Removing), so the address is not among what it removes.                *)
(***************************************************************************)
EXTENDS KeyProofs

-----------------------------------------------------------------------------
(* Console organizations.                                                  *)

KeysOurs ==
    /\ \A r \in Replicas : key[r] \notin Foreign
    /\ \A n \in Names : aws[n] \notin Foreign /\ k8s[n] \notin Foreign

Untouched(o) == UNCHANGED <<orgs[o], acl[o], granted[o], o \in enforced>>

Respects == KeysOurs' /\ \A o \in Foreign : Untouched(o)

LEMMA KeyOpensItsOwn ==
    ASSUME NEW k, NEW o, KeyAnswer(k, o) = "2xx"
    PROVE  k = o
BY DEF KeyAnswer

LEMMA CarriedOut ==
    ASSUME NEW k, NEW o, NEW rep \in Replies(KeyAnswer(k, o)), rep.done
    PROVE  k = o
BY DoneTruly, KeyOpensItsOwn

(* An action at Atlas concerns the working copy's organization only, and   *)
(* that is no console organization when the key at hand opens it.          *)
LEMMA OneTouched ==
    ASSUME TypeInv, KeysOurs, NEW r \in Replicas, NEW k, k \notin Foreign,
           \A o \in OrgIds : o = cr[r].ext \/ Untouched(o),
           k = cr[r].ext \/ UNCHANGED atlas
    PROVE  \A o \in Foreign : Untouched(o)
BY SetsAssumption DEF Untouched, atlas

LEMMA NothingTouched ==
    ASSUME KeysOurs, UNCHANGED <<key, stores, atlas>>
    PROVE  Respects
BY DEF Respects, KeysOurs, stores, atlas, Untouched

LEMMA FetchedOurs ==
    ASSUME TypeInv, KeysOurs, NEW r \in Replicas
    PROVE  fetchOrgCredentials(cr[r]) \notin Foreign
<1>1. cr[r].spec.k8s \in Names /\ AwsSecretName(cr[r]) \in Names
  BY Fields DEF AwsSecretName, SpecFields, Statuses
<1>2. None \notin Foreign
  BY SetsAssumption
<1> QED
  BY <1>1, <1>2 DEF fetchOrgCredentials, KeysOurs

LEMMA OursMove ==
    ASSUME TypeInv, KeysOurs, NEW r \in Replicas,
           \/ UNCHANGED key
           \/ \E k : k \notin Foreign /\ key' = [key EXCEPT ![r] = k],
           \/ UNCHANGED stores
           \/ \E n, k : k \in {key[r], None} /\ aws' = [aws EXCEPT ![n] = k] /\ UNCHANGED k8s
           \/ \E n, k : k \in {key[r], None} /\ k8s' = [k8s EXCEPT ![n] = k] /\ UNCHANGED aws
    PROVE  KeysOurs'
<1>1. None \notin Foreign
  BY SetsAssumption
<1>2. \A q \in Replicas : key'[q] \notin Foreign
  BY DEF KeysOurs, TypeInv, LocalOK
<1>3. \A n \in Names : aws'[n] \notin Foreign /\ k8s'[n] \notin Foreign
  BY <1>1 DEF KeysOurs, stores, TypeInv, StoresOK
<1> QED
  BY <1>2, <1>3 DEF KeysOurs

LEMMA IdleOurs ==
    ASSUME NEW r \in Replicas, Idle(r)
    PROVE  \E k : k \notin Foreign /\ key' = [key EXCEPT ![r] = k]
BY SetsAssumption DEF Idle

-----------------------------------------------------------------------------
(* The steps of a reconcile.                                               *)

LEMMA ReconcilerRespects ==
    ASSUME TypeInv, KeysOurs, NEW r \in Replicas, ReconcilerStep(r) \/ ObserveStep(r)
    PROVE  Respects
<1>1. CASE UpdateManagedStatus(r)
  <2>1. KeysOurs'
    BY <1>1, IdleOurs, OursMove DEF UpdateManagedStatus, stores
  <2> QED
    BY <1>1, <2>1 DEF UpdateManagedStatus, Respects, Untouched, atlas
<1>2. CASE ~UpdateManagedStatus(r)
  <2>1. UNCHANGED <<key, stores, atlas>>
    BY <1>2 DEF ReconcilerStep, Start, AddFinalizer, RemoveFinalizer, MarkPending,
           UpdateCriticalAnnotations, GetLatest, PutName, AdoptStatus, UpdateStatus,
           RereadForStatus, RetryStatus, ObserveStep, Restore, SearchByName, ObserveDeleting,
           ObserveCurrent
  <2> QED
    BY <2>1, NothingTouched
<1> QED
  BY <1>1, <1>2

LEMMA CreateRespects ==
    ASSUME TypeInv, KeysOurs, NEW r \in Replicas, CreateStep(r)
    PROVE  Respects
<1>1. CASE FindExisting(r)
  BY <1>1, NothingTouched DEF FindExisting
<1>2. CASE CreateOrganization(r)
  <2>1. PICK o \in OrgIds \ Foreign :
          /\ orgs' = [orgs EXCEPT ![o] = "live"] \/ UNCHANGED orgs
          /\ (\E x : granted' = [granted EXCEPT ![o] = x]) \/ UNCHANGED granted
          /\ key' = [key EXCEPT ![r] = o] \/ UNCHANGED key
    BY <1>2 DEF CreateOrganization
  <2>2. KeysOurs'
    BY <1>2, <2>1, OursMove DEF CreateOrganization
  <2>3. UNCHANGED <<acl, enforced>>
    BY <1>2 DEF CreateOrganization
  <2>4. \A p \in Foreign : orgs'[p] = orgs[p] /\ granted'[p] = granted[p]
    <3>1. orgs \in [OrgIds -> {"free", "live", "gone"}] /\ granted \in [OrgIds -> SUBSET Roles]
      BY DEF TypeInv, AtlasOK
    <3>2. \A p \in Foreign : p \in OrgIds /\ p # o
      BY SetsAssumption
    <3> QED
      BY <2>1, <3>1, <3>2
  <2>5. \A p \in Foreign : Untouched(p)
    BY <2>3, <2>4 DEF Untouched
  <2> QED
    BY <2>2, <2>5 DEF Respects
<1>3. CASE StoreKey(r)
  <2>1. /\ UNCHANGED key \/ \E k : k \notin Foreign /\ key' = [key EXCEPT ![r] = k]
        /\ \/ UNCHANGED stores
           \/ \E n : aws' = [aws EXCEPT ![n] = key[r]] /\ UNCHANGED k8s
           \/ \E n : k8s' = [k8s EXCEPT ![n] = key[r]] /\ UNCHANGED aws
    BY <1>3, IdleOurs DEF StoreKey, stores
  <2>2. KeysOurs'
    BY <2>1, OursMove
  <2> QED
    BY <1>3, <2>2 DEF StoreKey, Respects, Untouched, atlas
<1>4. CASE ProvisionIPs(r) \/ EnableAPIAccessListRequired(r)
  <2>1. UNCHANGED <<key, stores>>
    BY <1>4 DEF ProvisionIPs, EnableAPIAccessListRequired
  <2>2. \A o \in OrgIds : o = cr[r].ext \/ Untouched(o)
    BY <1>4 DEF ProvisionIPs, EnableAPIAccessListRequired, Untouched, TypeInv, AtlasOK
  <2>3. key[r] = cr[r].ext \/ UNCHANGED atlas
    BY <1>4, CarriedOut DEF ProvisionIPs, EnableAPIAccessListRequired, atlas
  <2>4. \A o \in Foreign : Untouched(o)
    BY <2>2, <2>3, OneTouched DEF KeysOurs
  <2> QED
    BY <2>1, <2>4 DEF Respects, KeysOurs, stores
<1> QED
  BY <1>1, <1>2, <1>3, <1>4 DEF CreateStep

(* Removing addresses that are refused removes none.                       *)
LEMMA RemovedWithOwnKey ==
    ASSUME TypeInv, NEW k, NEW o, NEW old, RemoveIPs(k, o, old),
           UNCHANGED <<orgs, enforced, granted>>
    PROVE  /\ k = o \/ UNCHANGED atlas
           /\ \A p \in OrgIds : p = o \/ Untouched(p)
<1>1. PICK left \in SUBSET old :
         MayLeave(k, o, old, left) /\ acl' = [acl EXCEPT ![o] = @ \ (old \ left)]
  BY DEF RemoveIPs
<1>2. k = o \/ left = old
  BY <1>1, KeyOpensItsOwn DEF MayLeave
<1>3. left = old => acl' = acl
  BY <1>1 DEF TypeInv, AtlasOK
<1> QED
  BY <1>1, <1>2, <1>3 DEF Untouched, atlas, TypeInv, AtlasOK

LEMMA UpdateRespects ==
    ASSUME TypeInv, KeysOurs, NEW r \in Replicas, UpdateStep(r)
    PROVE  Respects
<1>1. CASE FetchCredentials(r)
  <2>1. KeysOurs'
    BY <1>1, FetchedOurs, OursMove DEF FetchCredentials
  <2> QED
    BY <1>1, <2>1 DEF FetchCredentials, Respects, Untouched, atlas
<1>2. CASE MigrateToKubernetes(r) \/ MigrateToAWS(r) \/ DeleteOldSecret(r)
  <2>1. /\ UNCHANGED key \/ \E k : k \notin Foreign /\ key' = [key EXCEPT ![r] = k]
        /\ \/ UNCHANGED stores
           \/ \E n, k : k \in {key[r], None} /\ aws' = [aws EXCEPT ![n] = k] /\ UNCHANGED k8s
           \/ \E n, k : k \in {key[r], None} /\ k8s' = [k8s EXCEPT ![n] = k] /\ UNCHANGED aws
    <3>1. CASE MigrateToKubernetes(r)
      BY <3>1 DEF MigrateToKubernetes, stores
    <3>2. CASE MigrateToAWS(r)
      BY <3>2, IdleOurs DEF MigrateToAWS, stores, local
    <3>3. CASE DeleteOldSecret(r)
      BY <3>3 DEF DeleteOldSecret, stores, local
    <3> QED
      BY <1>2, <3>1, <3>2, <3>3
  <2>2. KeysOurs'
    BY <2>1, OursMove
  <2> QED
    BY <1>2, <2>2 DEF MigrateToKubernetes, MigrateToAWS, DeleteOldSecret, Respects, Untouched,
                      atlas
<1>3. CASE KeepStorage(r) \/ DescribeKey(r)
  BY <1>3, NothingTouched DEF KeepStorage, DescribeKey, local
<1>4. CASE UpdateRoles(r) \/ UpdateEnforcement(r) \/ AddNewIPs(r)
  <2>1. UNCHANGED <<key, stores>>
    BY <1>4 DEF UpdateRoles, UpdateEnforcement, AddNewIPs
  <2>2. \A o \in OrgIds : o = cr[r].ext \/ Untouched(o)
    BY <1>4 DEF UpdateRoles, UpdateEnforcement, AddNewIPs, Untouched, TypeInv, AtlasOK
  <2>3. key[r] = cr[r].ext \/ UNCHANGED atlas
    <3>1. CASE UpdateRoles(r)
      BY <3>1, CarriedOut DEF UpdateRoles, atlas
    <3>2. CASE UpdateEnforcement(r)
      BY <3>2, CarriedOut DEF UpdateEnforcement, atlas
    <3>3. CASE AddNewIPs(r)
      BY <3>3, CarriedOut DEF AddNewIPs, atlas
    <3> QED
      BY <1>4, <3>1, <3>2, <3>3
  <2>4. \A o \in Foreign : Untouched(o)
    BY <2>2, <2>3, OneTouched DEF KeysOurs
  <2> QED
    BY <2>1, <2>4 DEF Respects, KeysOurs, stores
<1>5. CASE RemoveOldIPs(r)
  <2>1. /\ key[r] = cr[r].ext \/ UNCHANGED atlas
        /\ \A o \in OrgIds : o = cr[r].ext \/ Untouched(o)
    BY <1>5, RemovedWithOwnKey DEF RemoveOldIPs
  <2>2. \A o \in Foreign : Untouched(o)
    BY <2>1, OneTouched DEF KeysOurs
  <2> QED
    BY <1>5, <2>2 DEF RemoveOldIPs, Respects, KeysOurs, stores
<1> QED
  BY <1>1, <1>2, <1>3, <1>4, <1>5 DEF UpdateStep

LEMMA DeleteRespects ==
    ASSUME TypeInv, KeysOurs, NEW r \in Replicas, DeleteStep(r)
    PROVE  Respects
<1>1. CASE CleanupIPs(r)
  <2> DEFINE k == fetchOrgCredentials(cr[r])
  <2>1. k \notin Foreign
    BY FetchedOurs
  <2>2. /\ k = cr[r].ext \/ UNCHANGED atlas
        /\ \A o \in OrgIds : o = cr[r].ext \/ Untouched(o)
    <3>1. CASE UNCHANGED acl
      BY <1>1, <3>1 DEF CleanupIPs, atlas, Untouched
    <3>2. CASE RemoveIPs(k, cr[r].ext, cr[r].st.ips)
      BY <1>1, <3>2, RemovedWithOwnKey DEF CleanupIPs
    <3> QED
      BY <1>1, <3>1, <3>2 DEF CleanupIPs
  <2>3. \A o \in Foreign : Untouched(o)
    BY <2>1, <2>2, OneTouched
  <2> QED
    BY <1>1, <2>3 DEF CleanupIPs, Respects, KeysOurs, stores
<1>2. CASE FetchForDelete(r)
  <2>1. KeysOurs'
    BY <1>2, FetchedOurs, OursMove DEF FetchForDelete
  <2> QED
    BY <1>2, <2>1 DEF FetchForDelete, Respects, Untouched, atlas
<1>3. CASE DeleteOrganization(r)
  <2>1. \A o \in OrgIds : o = cr[r].ext \/ Untouched(o)
    BY <1>3 DEF DeleteOrganization, Deleted, Untouched, atlas, TypeInv, AtlasOK
  <2>2. key[r] = cr[r].ext \/ UNCHANGED atlas
    <3>1. PICK truth \in KeyAnswers(key[r], cr[r].ext) :
            \E rep \in Replies(truth) : rep.done \/ UNCHANGED atlas
      BY <1>3 DEF DeleteOrganization
    <3>2. CASE \E rep \in Replies(truth) : rep.done
      BY <3>2, DoneTruly, KeyOpensItsOwn DEF KeyAnswers
    <3> QED
      BY <3>1, <3>2
  <2>3. \A o \in Foreign : Untouched(o)
    BY <2>1, <2>2, OneTouched DEF KeysOurs
  <2> QED
    BY <1>3, <2>3 DEF DeleteOrganization, Respects, KeysOurs, stores
<1>4. CASE DeleteSecret(r)
  <2>1. KeysOurs'
    BY <1>4, OursMove DEF DeleteSecret, stores
  <2> QED
    BY <1>4, <2>1 DEF DeleteSecret, Respects, Untouched, atlas
<1>5. CASE VerifyFirst(r) \/ ConfirmDeletion(r) \/ GetForRelease(r) \/ ForceRemoveFinalizer(r)
  BY <1>5, NothingTouched DEF VerifyFirst, ConfirmDeletion, GetForRelease,
                              ForceRemoveFinalizer, local
<1> QED
  BY <1>1, <1>2, <1>3, <1>4, <1>5 DEF DeleteStep

-----------------------------------------------------------------------------
(* The environment, and the theorem.                                       *)

LEMMA CrashRespects ==
    ASSUME TypeInv, KeysOurs, NEW r \in Replicas, Crash(r)
    PROVE  Respects
<1>1. KeysOurs'
  BY IdleOurs, OursMove DEF Crash
<1> QED
  BY <1>1 DEF Crash, Respects, Untouched, atlas

(* The console does as it likes.                                           *)
LEMMA ConsoleKeeps ==
    ASSUME KeysOurs, NEW o \in OrgIds, ConsoleCreate(o) \/ ConsoleDelete(o)
    PROVE  KeysOurs' /\ UNCHANGED <<pc, obj>>
BY DEF ConsoleCreate, ConsoleDelete, KeysOurs, local, stores, api

LEMMA InitOurs == Init => KeysOurs
BY SetsAssumption DEF Init, KeysOurs

LEMMA NextRespects ==
    TypeInv /\ KeysOurs /\ [Next]_vars
        => /\ KeysOurs'
           /\ (\A o \in Foreign : Untouched(o)) \/ UNCHANGED <<pc, obj>>
<1> SUFFICES ASSUME TypeInv, KeysOurs, [Next]_vars
             PROVE  Respects \/ (KeysOurs' /\ UNCHANGED <<pc, obj>>)
  BY DEF Respects
<1>1. ASSUME NEW r \in Replicas, Reconcile(r) PROVE Respects
  BY <1>1, ReconcilerRespects, CreateRespects, UpdateRespects, DeleteRespects DEF Reconcile
<1>2. CASE UNCHANGED <<key, stores, atlas>>
  BY <1>2, NothingTouched
<1>3. \/ \E r \in Replicas : Reconcile(r) \/ Crash(r)
      \/ \E o \in OrgIds : ConsoleCreate(o) \/ ConsoleDelete(o)
      \/ UNCHANGED <<key, stores, atlas>>
  BY DEF Next, Environment, CacheSync, UserApply, UserEdit, UserClearName, UserDelete,
         vars, local
<1> QED
  BY <1>1, <1>2, <1>3, CrashRespects, ConsoleKeeps

(* Whatever the replicas do, an organization made in the console keeps its *)
(* life, its access list, its roles and its enforcement flag.              *)
THEOREM ForeignUntouchedCorrect == Spec => ForeignUntouched
<1>1. TypeInv /\ KeysOurs /\ [Next]_vars =>
        [\A o \in Foreign :
            \/ UNCHANGED <<orgs[o], acl[o], granted[o], o \in enforced>>
            \/ UNCHANGED <<pc, obj>>]_vars
  BY NextRespects DEF Untouched
<1>2. TypeInv /\ KeysOurs /\ [Next]_vars => KeysOurs'
  BY NextRespects
<1> QED
  BY <1>1, <1>2, InitOurs, TypeInvariance, PTL DEF Spec, ForeignUntouched

-----------------------------------------------------------------------------
(* The access list.                                                        *)

(* Every list that a spec enables has the provider's address.              *)
AllListed == \A s \in Specs : s.enabled => EgressIP \in s.ips

(* Addresses are removed for a spec that enables the list only.            *)
Removing == \A r \in Replicas : pc[r] = "removeips" => cr[r].spec.enabled

LEMMA SharedNotRemoving ==
    ASSUME TypeInv, NEW r \in Replicas,
           \/ Finish(r) \/ Idle(r) \/ Onward(r) \/ CreateFailed(r) \/ (\E c, a : Created(r, c, a))
           \/ PersistFailed(r) \/ NamePersisted(r) \/ (\E next : Observed(r, next))
           \/ (\E ok : StatusPut(r, ok)) \/ (\E caller : PutStatus(r, caller))
           \/ (\E caller : PersistName(r, caller)) \/ (\E changed : UpdateDone(r, changed))
           \/ \E l \in Labels \ {"removeips"} : Goto(r, l)
    PROVE  pc'[r] # "removeips"
<1>1. \A l \in Labels \ {"removeips"} : Goto(r, l) => pc'[r] # "removeips"
  BY DEF Goto, TypeInv, LocalOK
<1>2. Finish(r) \/ Idle(r) \/ Onward(r) \/ (\E c, a : Created(r, c, a)) => pc'[r] # "removeips"
  BY <1>1 DEF Finish, Idle, Onward, Created, Labels
<1>3. CreateFailed(r) \/ PersistFailed(r) => pc'[r] # "removeips"
  BY <1>2 DEF CreateFailed, PersistFailed
<1>4. (\E next : Observed(r, next)) => pc'[r] # "removeips"
  BY <1>1 DEF Observed, Labels
<1>5. (\E ok : StatusPut(r, ok)) \/ (\E caller : PutStatus(r, caller))
      \/ (\E caller : PersistName(r, caller)) => pc'[r] # "removeips"
  BY <1>1, <1>2 DEF StatusPut, PutStatus, PersistName, Labels
<1>6. (\E changed : UpdateDone(r, changed)) => pc'[r] # "removeips"
  BY <1>2, <1>5 DEF UpdateDone
<1>7. NamePersisted(r) => pc'[r] # "removeips"
  BY <1>1, <1>4 DEF NamePersisted, Labels
<1> QED
  BY <1>1, <1>2, <1>3, <1>4, <1>5, <1>6, <1>7

LEMMA ReconcileRemoving ==
    ASSUME TypeInv, NEW r \in Replicas, Reconcile(r), ~AddNewIPs(r)
    PROVE  pc'[r] # "removeips"
<1>1. CASE ReconcilerStep(r)
  BY <1>1, SharedNotRemoving DEF ReconcilerStep, Start, AddFinalizer, RemoveFinalizer,
     MarkPending, UpdateCriticalAnnotations, UpdateManagedStatus, GetLatest, PutName,
     AdoptStatus, UpdateStatus, RereadForStatus, RetryStatus, Labels
<1>2. CASE ObserveStep(r)
  BY <1>2, SharedNotRemoving DEF ObserveStep, Restore, SearchByName, ObserveDeleting,
     ObserveCurrent, Labels
<1>3. CASE CreateStep(r)
  BY <1>3, SharedNotRemoving DEF CreateStep, FindExisting, CreateOrganization, StoreKey,
     ProvisionIPs, EnableAPIAccessListRequired, Labels
<1>4. CASE UpdateStep(r)
  <2>1. CASE FetchCredentials(r) \/ KeepStorage(r) \/ DeleteOldSecret(r) \/ DescribeKey(r)
    BY <2>1, SharedNotRemoving DEF FetchCredentials, KeepStorage, DeleteOldSecret, DescribeKey,
       Labels
  <2>2. CASE MigrateToKubernetes(r) \/ MigrateToAWS(r)
    BY <2>2, SharedNotRemoving DEF MigrateToKubernetes, MigrateToAWS, Labels
  <2>3. CASE UpdateRoles(r) \/ UpdateEnforcement(r) \/ RemoveOldIPs(r)
    BY <2>3, SharedNotRemoving DEF UpdateRoles, UpdateEnforcement, RemoveOldIPs, Labels
  <2> QED
    BY <1>4, <2>1, <2>2, <2>3 DEF UpdateStep
<1>5. CASE DeleteStep(r)
  BY <1>5, SharedNotRemoving DEF DeleteStep, CleanupIPs, VerifyFirst, FetchForDelete,
     DeleteOrganization, ConfirmDeletion, DeleteSecret, GetForRelease, ForceRemoveFinalizer,
     Labels
<1> QED
  BY <1>1, <1>2, <1>3, <1>4, <1>5 DEF Reconcile

LEMMA NextRemoving ==
    ASSUME TypeInv, Removing, [Next]_vars
    PROVE  Removing'
<1>1. ASSUME NEW r \in Replicas, Reconcile(r)
      PROVE  Removing'
  <2>1. OthersRest(r)
    BY <1>1, ReconcileRests
  <2>2. CASE AddNewIPs(r)
    <3>1. UNCHANGED cr /\ (pc'[r] = "removeips" => cr[r].spec.enabled)
      BY <2>2, SharedNotRemoving DEF AddNewIPs
    <3> QED
      BY <2>1, <3>1 DEF OthersRest, Removing
  <2>3. CASE ~AddNewIPs(r)
    BY <1>1, <2>1, <2>3, ReconcileRemoving DEF OthersRest, Removing
  <2> QED
    BY <2>2, <2>3
<1>2. ASSUME NEW r \in Replicas, Crash(r)
      PROVE  Removing'
  BY <1>2 DEF Crash, Idle, Goto, Removing, TypeInv, LocalOK
<1>3. CASE UNCHANGED <<pc, cr>>
  BY <1>3 DEF Removing
<1>4. \/ \E r \in Replicas : Reconcile(r) \/ Crash(r)
      \/ UNCHANGED <<pc, cr>>
  BY DEF Next, Environment, CacheSync, UserApply, UserEdit, UserClearName, UserDelete,
         ConsoleCreate, ConsoleDelete, vars, local
<1> QED
  BY <1>1, <1>2, <1>3, <1>4

(* What a step does to a list that has the address.                        *)
Listing(o) == EgressIP \in acl[o] /\ orgs'[o] = "live" => EgressIP \in acl'[o]

LEMMA GrowsListed ==
    ASSUME TypeInv, NEW o \in OrgIds,
           \/ UNCHANGED acl
           \/ \E p, x : acl' = [acl EXCEPT ![p] = @ \cup x]
    PROVE  Listing(o)
BY DEF Listing, TypeInv, AtlasOK

LEMMA DeletedListed ==
    ASSUME TypeInv, NEW o \in OrgIds, NEW p, Deleted(p)
    PROVE  Listing(o)
BY DEF Deleted, Listing, TypeInv, AtlasOK

LEMMA RemoveOldListed ==
    ASSUME TypeInv, AllListed, Removing, NEW r \in Replicas, RemoveOldIPs(r), NEW o \in OrgIds
    PROVE  Listing(o)
<1>1. cr[r].spec \in Specs /\ cr[r].spec.enabled
  BY Fields DEF RemoveOldIPs, Removing, Objects
<1>2. EgressIP \in cr[r].spec.ips
  BY <1>1 DEF AllListed
<1>3. PICK left : acl' = [acl EXCEPT ![cr[r].ext] = @ \ ((cr[r].st.ips \ cr[r].spec.ips) \ left)]
  BY DEF RemoveOldIPs, RemoveIPs
<1> QED
  BY <1>2, <1>3 DEF Listing, TypeInv, AtlasOK

LEMMA ReconcileListed ==
    ASSUME TypeInv, AllListed, Removing, NEW r \in Replicas, Reconcile(r), ~CleanupIPs(r),
           NEW o \in OrgIds
    PROVE  Listing(o)
<1>1. CASE ReconcilerStep(r) \/ ObserveStep(r)
  BY <1>1, GrowsListed DEF ReconcilerStep, Start, AddFinalizer, RemoveFinalizer, MarkPending,
     UpdateCriticalAnnotations, UpdateManagedStatus, GetLatest, PutName, AdoptStatus,
     UpdateStatus, RereadForStatus, RetryStatus, ObserveStep, Restore, SearchByName,
     ObserveDeleting, ObserveCurrent, atlas
<1>2. CASE CreateStep(r)
  BY <1>2, GrowsListed DEF CreateStep, FindExisting, CreateOrganization, StoreKey, ProvisionIPs,
     EnableAPIAccessListRequired, atlas
<1>3. CASE UpdateStep(r)
  BY <1>3, GrowsListed, RemoveOldListed DEF UpdateStep, FetchCredentials, MigrateToKubernetes,
     MigrateToAWS, KeepStorage, DeleteOldSecret, DescribeKey, UpdateRoles, UpdateEnforcement,
     AddNewIPs, atlas
<1>4. CASE DeleteStep(r)
  BY <1>4, GrowsListed, DeletedListed DEF DeleteStep, VerifyFirst, FetchForDelete,
     DeleteOrganization, ConfirmDeletion, DeleteSecret, GetForRelease, ForceRemoveFinalizer, atlas
<1> QED
  BY <1>1, <1>2, <1>3, <1>4 DEF Reconcile

LEMMA NextListed ==
    ASSUME TypeInv, AllListed, Removing, [Next]_vars, NEW o \in OrgIds
    PROVE  \/ Listing(o)
           \/ \E r \in Replicas : pc[r] = "cleanup" /\ pc'[r] # "cleanup"
<1>1. ASSUME NEW r \in Replicas, CleanupIPs(r)
      PROVE  pc[r] = "cleanup" /\ pc'[r] # "cleanup"
  BY <1>1 DEF CleanupIPs, PutStatus, Goto, TypeInv, LocalOK
<1>2. CASE Environment
  BY <1>2, GrowsListed, DeletedListed DEF Environment, UserApply, UserEdit, UserClearName,
     UserDelete, ConsoleCreate, ConsoleDelete, atlas
<1>3. ASSUME NEW r \in Replicas, CacheSync(r) \/ Crash(r)
      PROVE  Listing(o)
  BY <1>3, GrowsListed DEF CacheSync, Crash, atlas
<1>4. CASE UNCHANGED vars
  BY <1>4, GrowsListed DEF vars, atlas
<1> QED
  BY <1>1, <1>2, <1>3, <1>4, ReconcileListed DEF Next

(* The provider never takes its own address off an access list that every  *)
(* spec wants it on, except to clean up for a deletion: with any number of *)
(* replicas, failed calls, lag, restarts, edits and re-creations.          *)
THEOREM StaysListedCorrect ==
    ASSUME AllListed
    PROVE  Spec => StaysListed
<1>1. Init => Removing
  BY DEF Init, Removing
<1>2. TypeInv /\ Removing /\ [Next]_vars => Removing'
  BY NextRemoving
<1>3. TypeInv /\ Removing /\ [Next]_vars
         => [\A o \in Ours :
               EgressIP \in acl[o] /\ o \in Live' =>
                  \/ EgressIP \in acl'[o]
                  \/ \E r \in Replicas : pc[r] = "cleanup" /\ pc'[r] # "cleanup"]_vars
  BY NextListed DEF Listing, Ours, Live
<1> QED
  BY <1>1, <1>2, <1>3, TypeInvariance, PTL DEF Spec, StaysListed

=============================================================================
