----------------------------- MODULE OnceProofs -----------------------------
(***************************************************************************)
(* One organization for good: at most one is ever made for the resource,   *)
(* not merely one at a time, and every record of an id is of that one.     *)
(* For every number of replicas, with caches that lag, calls that fail and *)
(* replicas that crash, under the assumptions of NoDuplicate.              *)
(*                                                                         *)
(* The argument: an organization is deleted by a replica that has seen the *)
(* resource's deletion.  By then every creation is over (DeletionAfter),   *)
(* and none begins any more, for the write that takes the lock needs a     *)
(* current copy, which would show the deletion (Over).                     *)
(*                                                                         *)
(* The last part is about the records themselves.  A write needs a current *)
(* copy, and a copy that is current has every id the resource has (Held):  *)
(* so a write loses none, but for the retry of updateStatusWithRetry,      *)
(* which puts the status of one copy on another.  That an id is not        *)
(* replaced by another follows from there being only one.                  *)
(***************************************************************************)
EXTENDS LifecycleProofs

(* The organizations that were ever made for the resource.                 *)
Made == {o \in OrgIds \ Foreign : orgs[o] # "free"}

OnlyOne == \A o, p \in Made : o = p

(* The resource is being deleted, or gone.                                 *)
Doomed == obj.present => obj.deleting

Over == (\E o \in Made : orgs[o] = "gone") => NobodyCreates /\ Doomed

OnceInv == OnlyOne /\ Over

(* What OrganizationProofs and LifecycleProofs establish.                  *)
Settled == TypeInv /\ CreationInv /\ DuplicateInv /\ LifeInv

-----------------------------------------------------------------------------
(* Once nobody creates and the resource is doomed, that is so for good.    *)

LEMMA DoomedLocks ==
    ASSUME TypeInv, CreationInv, LifeInv, NEW r \in Replicas, LockStep(r),
           NobodyCreates, Doomed
    PROVE  NobodyCreates' /\ Doomed'
<1>1. CASE Start(r)
  <2>1. OthersRest(r) /\ ~Creating(r)' /\ UNCHANGED obj
    BY <1>1 DEF Start, Goto, OthersRest, Creating, TypeInv, LocalOK
  <2> QED
    BY <2>1 DEF NobodyCreates, Doomed, OthersRest, Creating
<1>2. CASE AddFinalizer(r)
  <2>1. LocalCalm(r)
    BY <1>2, AddFinalizerCalm
  <2>2. obj.present => "cr" \notin fresh[r]
    <3>1. Deciding(r) /\ ~cr[r].deleting
      BY <1>2 DEF AddFinalizer, Deciding, LifeInv, DeletesSeen, OnCourse
    <3> QED
      BY <3>1 DEF Doomed, LifeInv, ForeseesDeletion
  <2>3. UNCHANGED obj
    BY <1>2, <2>2, AddFinalizerCalm DEF api
  <2> QED
    BY <2>1, <2>3 DEF NobodyCreates, Doomed, LocalCalm, OthersRest, Creating
<1>3. CASE RemoveFinalizer(r) \/ ForceRemoveFinalizer(r)
  <2>1. LocalCalm(r) /\ (UNCHANGED obj \/ (obj.present /\ obj' = Unfinalized(obj)))
    BY <1>3, RemoveFinalizerCalm DEF api, Store
  <2>2. Doomed'
    BY <2>1 DEF Doomed, Unfinalized, Absent, NewObject
  <2> QED
    BY <2>1, <2>2 DEF NobodyCreates, LocalCalm, OthersRest, Creating
<1>4. CASE MarkPending(r)
  <2>1. ~Current(r, "cr")
    <3>1. Deciding(r) /\ ~cr[r].deleting
      BY <1>4 DEF MarkPending, Deciding, LifeInv, DeletesSeen, OnCourse
    <3> QED
      BY <3>1 DEF Doomed, LifeInv, ForeseesDeletion, Current
  <2>2. Finish(r) /\ UNCHANGED <<api, cr>>
    BY <1>4, <2>1 DEF MarkPending
  <2> QED
    BY <2>2, FinishCalm DEF NobodyCreates, Doomed, Creating, api
<1>5. ~UpdateCriticalAnnotations(r)
  BY DEF UpdateCriticalAnnotations, NobodyCreates, Creating
<1> QED
  BY <1>1, <1>2, <1>3, <1>4, <1>5 DEF LockStep

LEMMA DoomedLasts ==
    ASSUME TypeInv, CreationInv, LifeInv, MaxApplies = 0, [Next]_vars,
           NobodyCreates, Doomed
    PROVE  NobodyCreates' /\ Doomed'
<1>1. ASSUME NEW r \in Replicas, Reconcile(r), ~LockStep(r)
      PROVE  NobodyCreates' /\ Doomed'
  BY <1>1, QuietSteady DEF NobodyCreates, Doomed, Steady, InPlace
<1>2. ASSUME NEW r \in Replicas, CacheSync(r) \/ Crash(r)
      PROVE  NobodyCreates' /\ Doomed'
  BY <1>2 DEF CacheSync, Crash, Idle, Goto, local, NobodyCreates, Doomed, Creating, TypeInv,
              LocalOK
<1>3. CASE Environment
  <2>1. UNCHANGED <<pc, ret>>
    BY <1>3, CreatedOnce DEF Environment, UserEdit, UserClearName, UserDelete, ConsoleCreate,
                             ConsoleDelete, local
  <2>2. Doomed'
    <3>1. /\ \A s : [obj EXCEPT !.spec = s].deleting = obj.deleting
          /\ [obj EXCEPT !.ext = None].deleting = obj.deleting
          /\ [obj EXCEPT !.deleting = TRUE].deleting
          /\ ~Absent.present
      BY DEF TypeInv, ApiOK, Objects, Absent, NewObject
    <3> QED
      BY <1>3, <3>1, CreatedOnce DEF Environment, UserEdit, UserClearName, UserDelete,
                                     ConsoleCreate, ConsoleDelete, Edit, api, Doomed
  <2> QED
    BY <2>1, <2>2 DEF NobodyCreates, Creating
<1>4. CASE UNCHANGED vars
  BY <1>4 DEF vars, api, local, NobodyCreates, Doomed, Creating
<1> QED
  BY <1>1, <1>2, <1>3, <1>4, DoomedLocks DEF Next

-----------------------------------------------------------------------------
(* Organizations are made and deleted as the life cycle says, and deleted  *)
(* by somebody who has seen the deletion.                                  *)

LEMMA QuietMade ==
    ASSUME TypeInv, NEW r \in Replicas, Reconcile(r), ~CreateOrganization(r),
           ~DeleteOrganization(r)
    PROVE  UNCHANGED orgs
<1>1. CASE CreateStep(r)
  BY <1>1, CreateElsewhere DEF CreateStep, FindExisting, atlas
<1>2. CASE DeleteStep(r)
  BY <1>2 DEF DeleteStep, CleanupIPs, VerifyFirst, FetchForDelete, ConfirmDeletion,
              DeleteSecret, GetForRelease, ForceRemoveFinalizer, atlas
<1> QED
  BY <1>1, <1>2, ReconcilerElsewhere, ObserveElsewhere, UpdateElsewhere DEF Reconcile

LEMMA MadeStep ==
    ASSUME TypeInv, [Next]_vars, ~UNCHANGED madeBar
    PROVE  \E r \in Replicas : CreateOrganization(r) \/ DeleteOrganization(r)
<1>1. ASSUME NEW r \in Replicas, CacheSync(r) \/ Crash(r)
      PROVE  UNCHANGED orgs
  BY <1>1 DEF CacheSync, Crash, atlas
<1>2. CASE Environment
  BY <1>2 DEF Environment, UserApply, UserEdit, UserClearName, UserDelete, ConsoleCreate,
              ConsoleDelete, Deleted, atlas, madeBar, TypeInv, AtlasOK
<1>3. CASE UNCHANGED vars
  BY <1>3 DEF vars, atlas, madeBar
<1> QED
  BY <1>1, <1>2, <1>3, QuietMade DEF Next, madeBar

LEMMA MadeGrows ==
    ASSUME [Lifecycle!Next]_<<phaseBar, madeBar>>
    PROVE  /\ Made \subseteq Made'
           /\ \A o \in Made : orgs'[o] # orgs[o] => orgs[o] = "live" /\ orgs'[o] = "gone"
<1>1. \A o \in OrgIds \ Foreign : /\ madeBar[o] = orgs[o]
                                  /\ madeBar'[o] = orgs'[o]
  BY DEF madeBar
<1>2. \A o \in OrgIds \ Foreign :
         \/ madeBar'[o] = madeBar[o]
         \/ madeBar[o] = "free" /\ madeBar'[o] = "live"
         \/ madeBar[o] = "live" /\ madeBar'[o] = "gone"
  <2>1. ASSUME NEW p \in OrgIds \ Foreign, NEW v, madeBar' = [madeBar EXCEPT ![p] = v]
        PROVE  \A o \in OrgIds \ Foreign : madeBar'[o] = IF o = p THEN v ELSE madeBar[o]
    BY <2>1 DEF madeBar
  <2> QED
    BY <2>1 DEF Lifecycle!Next, Lifecycle!Begin, Lifecycle!End, Lifecycle!Vanish,
                Lifecycle!Make, Lifecycle!Destroy
<1> QED
  BY <1>1, <1>2 DEF Made

LEMMA NextOnlyOne ==
    ASSUME TypeInv, LifeInv, MaxApplies = 0, OnceInv,
           [Next]_vars, [Lifecycle!Next]_<<phaseBar, madeBar>>
    PROVE  OnlyOne'
<1>1. \A o \in OrgIds \ Foreign : madeBar[o] = orgs[o] /\ madeBar'[o] = orgs'[o]
  BY DEF madeBar
<1>2. CASE UNCHANGED madeBar
  BY <1>1, <1>2 DEF OnceInv, OnlyOne, Made
<1>3. ASSUME NEW o \in OrgIds \ Foreign, Lifecycle!Make(o)
      PROVE  OnlyOne'
  <2>1. ~NobodyCreates
    BY <1>3 DEF Lifecycle!Make, phaseBar, NobodyCreates
  <2>2. \A p \in OrgIds \ Foreign : orgs[p] # "live" /\ orgs[p] # "gone"
    BY <1>1, <1>3, <2>1 DEF Lifecycle!Make, Lifecycle!Alive, OnceInv, Over, Made
  <2>3. Made = {}
    BY <2>2 DEF Made, TypeInv, AtlasOK
  <2>4. \A p \in OrgIds \ Foreign : p # o => orgs'[p] = orgs[p]
    BY <1>1, <1>3 DEF Lifecycle!Make, madeBar
  <2> QED
    BY <2>3, <2>4 DEF OnlyOne, Made
<1>4. ASSUME NEW o \in OrgIds \ Foreign, Lifecycle!Destroy(o)
      PROVE  OnlyOne'
  <2>1. o \in Made
    BY <1>1, <1>4 DEF Lifecycle!Destroy, Made
  <2>2. \A p \in OrgIds \ Foreign : p # o => orgs'[p] = orgs[p]
    BY <1>1, <1>4 DEF Lifecycle!Destroy, madeBar
  <2> QED
    BY <2>1, <2>2 DEF OnceInv, OnlyOne, Made
<1> QED
  BY <1>2, <1>3, <1>4 DEF Lifecycle!Next, Lifecycle!Begin, Lifecycle!End, Lifecycle!Vanish

LEMMA NextOver ==
    ASSUME TypeInv, CreationInv, LifeInv, MaxApplies = 0, OnceInv,
           [Next]_vars, [Lifecycle!Next]_<<phaseBar, madeBar>>
    PROVE  Over'
<1>1. CASE \E o \in Made : orgs[o] = "gone"
  <2>1. NobodyCreates /\ Doomed
    BY <1>1 DEF OnceInv, Over
  <2> QED
    BY <2>1, DoomedLasts DEF Over
<1>2. CASE ~\E o \in Made : orgs[o] = "gone"
  <2> SUFFICES ASSUME NEW o \in Made', orgs'[o] = "gone"
               PROVE  NobodyCreates' /\ Doomed'
    BY DEF Over
  <2>1. o \in OrgIds \ Foreign /\ orgs[o] # "gone"
    BY <1>2 DEF Made
  <2>2. o \in OrgIds \ Foreign /\ madeBar[o] = orgs[o] /\ madeBar'[o] = "gone"
    BY <2>1 DEF madeBar
  <2>3. ~UNCHANGED madeBar
    BY <2>1, <2>2
  <2>4. PICK r \in Replicas : CreateOrganization(r) \/ DeleteOrganization(r)
    BY <2>3, MadeStep
  <2>5. ~CreateOrganization(r)
    BY <2>1, <2>2 DEF CreateOrganization, TypeInv, AtlasOK
  <2>6. cr[r].deleting
    BY <2>4, <2>5 DEF DeleteOrganization, LifeInv, DeletesSeen, OnCourse, Deleting
  <2>7. NobodyCreates /\ Doomed
    BY <2>6 DEF LifeInv, DeletionAfter, DeletionKnown, Doomed
  <2> QED
    BY <2>7, DoomedLasts
<1> QED
  BY <1>1, <1>2

LEMMA InitOnlyOne == Init => OnceInv
BY DEF Init, OnceInv, OnlyOne, Over, Made

(* Whoever deletes has seen the deletion, and outlived every creation.     *)
THEOREM LifeInvariance ==
    ASSUME MaxApplies = 0, "404" \notin Faults
    PROVE  Spec => []LifeInv
<1>1. Spec => []DuplicateInv
  BY DuplicateInvariance
<1> QED
  BY <1>1, InitPromised, NextPromised, TypeInvariance, CreationInvariance, PTL DEF Spec

LEMMA SettledInvariance ==
    ASSUME MaxApplies = 0, "404" \notin Faults
    PROVE  Spec => []Settled
<1>1. Spec => []DuplicateInv
  BY DuplicateInvariance
<1>2. Spec => []LifeInv
  BY LifeInvariance
<1>3. TypeInv /\ CreationInv /\ DuplicateInv /\ LifeInv => Settled
  BY DEF Settled
<1> QED
  BY <1>1, <1>2, <1>3, TypeInvariance, CreationInvariance, PTL DEF Spec

LEMMA SettledStep ==
    ASSUME MaxApplies = 0
    PROVE  Settled /\ Settled' /\ [Next]_vars => [Lifecycle!Next]_<<phaseBar, madeBar>>
BY NextPromised DEF Settled

LEMMA NextOnceInv ==
    ASSUME MaxApplies = 0
    PROVE  Settled /\ Settled' /\ OnceInv /\ [Next]_vars => OnceInv'
<1> SUFFICES ASSUME Settled, Settled', OnceInv, [Next]_vars PROVE OnceInv'
  OBVIOUS
<1>1. [Lifecycle!Next]_<<phaseBar, madeBar>>
  BY SettledStep
<1> QED
  BY <1>1, NextOnlyOne, NextOver DEF Settled, OnceInv

(* However many replicas there are and however often a creation is tried,  *)
(* in its whole life the resource gets one organization.                   *)
THEOREM OnceInvariance ==
    ASSUME MaxApplies = 0, "404" \notin Faults
    PROVE  Spec => []OnceInv
<1>1. Spec => []Settled
  BY SettledInvariance
<1> QED
  BY <1>1, InitOnlyOne, NextOnceInv, PTL DEF Spec

-----------------------------------------------------------------------------
(* Every id that is recorded anywhere is the id of an organization that    *)
(* was made, when nobody makes any in the console, and every storage type  *)
(* one that some spec asks for.  So is every secret name, unless the key   *)
(* can move.                                                               *)

Kinds == {""} \cup {StorageType(s) : s \in Specs}

(* Every spec keeps the key in the same kind of store.                     *)
OneType == \A s, t \in Specs : StorageType(s) = StorageType(t)

Asked(name) ==
    \/ ~OneType \/ name = Unset
    \/ \E s \in Specs : name = DesiredSecretName(s) \/ name = AwsNameFor(s)

Within(c, ids) ==
    /\ c.ext \in ids \cup {None}
    /\ c.st.orgID \in ids \cup {None}
    /\ c.st.stype \in Kinds
    /\ Asked(c.st.sname)

RecordsSound ==
    /\ Within(obj, Made)
    /\ \A r \in Replicas : Within(cr[r], Made) /\ Within(cache[r], Made)

(* What is written or kept is put together from what is there.             *)
ApiKnown == Within(obj', Made) /\ \A q \in Replicas : cache'[q] \in {cache[q], obj'}

LocalKnown(r) == UNCHANGED cr \/ \E c : Within(c, Made') /\ cr' = [cr EXCEPT ![r] = c]

LEMMA KnownStep ==
    ASSUME TypeInv, RecordsSound, Made \subseteq Made', NEW r \in Replicas,
           ApiKnown, LocalKnown(r)
    PROVE  RecordsSound'
<1>1. \A c : Within(c, Made) => Within(c, Made')
  BY DEF Within
<1>2. Within(obj', Made') /\ \A q \in Replicas : Within(cache'[q], Made')
  BY <1>1 DEF RecordsSound, ApiKnown
<1>3. \A q \in Replicas : Within(cr'[q], Made')
  BY <1>1 DEF RecordsSound, LocalKnown, TypeInv, LocalOK
<1> QED
  BY <1>2, <1>3 DEF RecordsSound, Within

LEMMA WithinCopies ==
    ASSUME NEW c \in Objects, NEW d \in Objects, NEW ids, Within(c, ids), Within(d, ids)
    PROVE  /\ Within(Absent, ids) /\ Within(Unfinalized(c), ids)
           /\ Within(Annotated(c, d), ids)
           /\ Overlay(c.st, d.st).orgID \in ids \cup {None}
           /\ Overlay(c.st, d.st).stype \in Kinds
           /\ Asked(Overlay(c.st, d.st).sname)
           /\ \A s : Within([c EXCEPT !.spec = s], ids)
           /\ \A b : Within([c EXCEPT !.fin = b], ids) /\ Within([c EXCEPT !.deleting = b], ids)
           /\ \A a : Within([c EXCEPT !.ann = a], ids)
           /\ \A e \in ids \cup {None} : Within([c EXCEPT !.ext = e], ids)
           /\ \A s : s.orgID \in ids \cup {None} /\ s.stype \in Kinds /\ Asked(s.sname)
                     => Within([c EXCEPT !.st = s], ids)
<1>1. Within(Absent, ids)
  BY DEF Within, Absent, NewObject, NoStatus, Kinds, Asked
<1>2. Within(Unfinalized(c), ids)
  BY <1>1 DEF Within, Unfinalized, Objects
<1>3. Within(Annotated(c, d), ids)
  BY DEF Within, Annotated, Objects
<1>4. /\ Overlay(c.st, d.st).orgID \in ids \cup {None}
      /\ Overlay(c.st, d.st).stype \in Kinds /\ Asked(Overlay(c.st, d.st).sname)
  BY DEF Within, Overlay
<1> QED
  BY <1>1, <1>2, <1>3, <1>4 DEF Within, Objects

LEMMA WithinAdopted ==
    ASSUME NEW c \in Objects, NEW ids, NEW o \in ids, c.st.stype \in Kinds,
           Asked(c.st.sname)
    PROVE  /\ Within(Adopted(c, o), ids)
           /\ \A x : Within([Adopted(c, o) EXCEPT !.st.roles = x], ids)
BY DEF Within, Adopted, Objects, Statuses

LEMMA RestKnown ==
    ASSUME TypeInv, RecordsSound, UNCHANGED <<obj, cache>>
    PROVE  ApiKnown
BY DEF ApiKnown, RecordsSound

LEMMA StoreKnown ==
    ASSUME TypeInv, RecordsSound, NEW r, NEW mine, NEW new, Store(r, mine, new), Within(new, Made)
    PROVE  ApiKnown
<1>1. obj' = new
  BY DEF Store
<1>2. \A q \in Replicas : cache'[q] \in {cache[q], new}
  BY DEF Store
<1> QED
  BY <1>1, <1>2 DEF ApiKnown

(* The writes of a status or of a name.                                    *)
LEMMA WriteKnown ==
    ASSUME TypeInv, RecordsSound, NEW r \in Replicas, NEW mine,
           \/ Store(r, mine, [obj EXCEPT !.st = cr[r].st])
           \/ Store(r, mine, [obj EXCEPT !.ext = cr[r].ext])
           \/ Store(r, mine, Unfinalized(obj))
    PROVE  ApiKnown
<1>1. /\ obj \in Objects /\ Within(obj, Made)
      /\ cr[r].ext \in Made \cup {None} /\ cr[r].st.orgID \in Made \cup {None}
      /\ cr[r].st.stype \in Kinds /\ Asked(cr[r].st.sname)
  BY Fields DEF RecordsSound, Within
<1>2. /\ Within([obj EXCEPT !.st = cr[r].st], Made)
      /\ Within([obj EXCEPT !.ext = cr[r].ext], Made)
      /\ Within(Unfinalized(obj), Made)
  BY <1>1, WithinCopies
<1> QED
  BY <1>2, StoreKnown

(* What an action writes into the working copy.                            *)
LEMMA CopyKnown ==
    ASSUME TypeInv, RecordsSound, Made \subseteq Made', NEW r \in Replicas,
           \/ UNCHANGED cr
           \/ Idle(r)
           \/ \E a : cr' = [cr EXCEPT ![r] = [cr[r] EXCEPT !.ann = a]]
           \/ cr' = [cr EXCEPT ![r] = [cr[r] EXCEPT !.ext = cr[r].st.orgID]]
           \/ \E s : /\ s.orgID = cr[r].st.orgID /\ s.stype \in Kinds /\ Asked(s.sname)
                     /\ cr' = [cr EXCEPT ![r] = [cr[r] EXCEPT !.st = s]]
           \/ \E o \in Made' : \/ cr' = [cr EXCEPT ![r] = Adopted(cr[r], o)]
                               \/ \E x : cr' = [cr EXCEPT ![r] = [Adopted(cr[r], o)
                                                                    EXCEPT !.st.roles = x]]
    PROVE  LocalKnown(r)
<1>1. cr[r] \in Objects /\ Within(cr[r], Made')
  BY Fields DEF RecordsSound, Within
<1>2. Within(Absent, Made')
  BY <1>1, WithinCopies
<1>3. \A a : Within([cr[r] EXCEPT !.ann = a], Made')
  BY <1>1, WithinCopies
<1>4. Within([cr[r] EXCEPT !.ext = cr[r].st.orgID], Made')
  BY <1>1, WithinCopies DEF Within
<1>5. \A s : s.orgID = cr[r].st.orgID /\ s.stype \in Kinds /\ Asked(s.sname)
                => Within([cr[r] EXCEPT !.st = s], Made')
  BY <1>1, WithinCopies DEF Within
<1>6. \A o \in Made' : /\ Within(Adopted(cr[r], o), Made')
                       /\ \A x : Within([Adopted(cr[r], o) EXCEPT !.st.roles = x], Made')
  BY <1>1, WithinAdopted DEF Within
<1> HIDE DEF Within
<1> QED
  BY <1>2, <1>3, <1>4, <1>5, <1>6 DEF LocalKnown, Idle

(* A status whose id is left alone, with a storage type that a spec asks   *)
(* for.                                                                    *)
LEMMA StatusKnown ==
    ASSUME TypeInv, RecordsSound, NEW r \in Replicas
    PROVE  /\ \A x : /\ [cr[r].st EXCEPT !.ips = x].orgID = cr[r].st.orgID
                     /\ [cr[r].st EXCEPT !.ips = x].stype \in Kinds
                     /\ Asked([cr[r].st EXCEPT !.ips = x].sname)
                     /\ [cr[r].st EXCEPT !.roles = x].orgID = cr[r].st.orgID
                     /\ [cr[r].st EXCEPT !.roles = x].stype \in Kinds
                     /\ Asked([cr[r].st EXCEPT !.roles = x].sname)
                     /\ [cr[r].st EXCEPT !.enf = x].orgID = cr[r].st.orgID
                     /\ [cr[r].st EXCEPT !.enf = x].stype \in Kinds
                     /\ Asked([cr[r].st EXCEPT !.enf = x].sname)
           /\ \A n : /\ Asked(n) => Asked(Recorded(cr[r].st, StorageType(cr[r].spec), n).sname)
                     /\ Recorded(cr[r].st, StorageType(cr[r].spec), n).orgID = cr[r].st.orgID
                     /\ Recorded(cr[r].st, StorageType(cr[r].spec), n).stype \in Kinds
           /\ \A b : /\ WithSecretMetadata(cr[r], b).orgID = cr[r].st.orgID
                     /\ WithSecretMetadata(cr[r], b).stype \in Kinds
                     /\ Asked(WithSecretMetadata(cr[r], b).sname)
<1>1. cr[r].st \in Statuses /\ cr[r].st.stype \in Kinds /\ Asked(cr[r].st.sname)
  BY Fields DEF RecordsSound, Within
<1>2. StorageType(cr[r].spec) \in Kinds /\ Asked(DesiredSecretName(cr[r].spec))
  BY Fields DEF Objects, Kinds, Asked
<1> QED
  BY <1>1, <1>2 DEF Statuses, Recorded, WithSecretMetadata

LEMMA SpecNames ==
    ASSUME TypeInv, NEW r \in Replicas
    PROVE  /\ Asked(AwsNameFor(cr[r].spec))
           /\ StorageType(cr[r].spec) = "Kubernetes" => Asked(cr[r].spec.k8s)
<1>1. cr[r].spec \in Specs
  BY Fields DEF Objects
<1> QED
  BY <1>1 DEF Asked, StorageType, DesiredSecretName

LEMMA MigratesKinds ==
    ASSUME TypeInv, RecordsSound, NEW r \in Replicas, Migrates(cr[r])
    PROVE  ~OneType
<1>1. cr[r].spec \in Specs /\ cr[r].st.stype \in Kinds
  BY Fields DEF Objects, RecordsSound, Within
<1>2. cr[r].st.stype \notin {"", StorageType(cr[r].spec)}
  BY DEF Migrates
<1> QED
  BY <1>1, <1>2 DEF OneType, Kinds

(* The status says under which name a key is kept.                         *)
KeyNoted(r, n) ==
    /\ Asked(n)
    /\ cr' = [cr EXCEPT ![r] = [cr[r] EXCEPT
                !.st = Recorded(cr[r].st, StorageType(cr[r].spec), n)]]

LEMMA PutKnown ==
    ASSUME TypeInv, RecordsSound, Made \subseteq Made', NEW r \in Replicas, NEW out,
           NEW c \in Objects, c.ext = cr[r].ext, PutManaged(r, out, AsStored(c))
    PROVE  ApiKnown /\ LocalKnown(r)
<1>1. /\ obj \in Objects /\ Within(obj, Made) /\ cr[r] \in Objects /\ Within(cr[r], Made)
      /\ Within(cr[r], Made')
  BY Fields DEF RecordsSound, Within
<1>2. Within(AsStored(c), Made)
  BY <1>1 DEF Within, AsStored, Objects
<1>3. Within([AsStored(c) EXCEPT !.st = Overlay(obj.st, cr[r].st)], Made')
  <2>1. /\ Overlay(obj.st, cr[r].st).orgID \in Made \cup {None}
        /\ Overlay(obj.st, cr[r].st).stype \in Kinds /\ Asked(Overlay(obj.st, cr[r].st).sname)
    BY <1>1, WithinCopies
  <2>2. AsStored(c).ext \in Made \cup {None}
    BY <1>2 DEF Within
  <2>3. AsStored(c) = [AsStored(c) EXCEPT !.st = obj.st]
    BY DEF AsStored, Objects
  <2>4. [AsStored(c) EXCEPT !.st = Overlay(obj.st, cr[r].st)].st = Overlay(obj.st, cr[r].st)
    BY DEF AsStored, Objects
  <2>5. [AsStored(c) EXCEPT !.st = Overlay(obj.st, cr[r].st)].ext = AsStored(c).ext
    BY DEF AsStored, Objects
  <2> QED
    BY <2>1, <2>2, <2>4, <2>5 DEF Within
<1>4. CASE out = "ok"
  BY <1>2, <1>3, <1>4, StoreKnown DEF PutManaged, LocalKnown
<1>5. CASE out = "lost"
  BY <1>2, <1>5, StoreKnown DEF PutManaged, LocalKnown
<1>6. CASE out = "fail"
  BY <1>6, RestKnown DEF PutManaged, LocalKnown, api
<1> QED
  BY <1>4, <1>5, <1>6 DEF PutManaged

LEMMA MetadataKnown ==
    ASSUME TypeInv, RecordsSound, Made \subseteq Made', NEW r \in Replicas,
           \/ AddFinalizer(r) \/ MarkPending(r)
           \/ RemoveFinalizer(r) \/ ForceRemoveFinalizer(r) \/ UpdateCriticalAnnotations(r)
    PROVE  ApiKnown /\ LocalKnown(r)
<1>1. /\ obj \in Objects /\ Within(obj, Made) /\ cr[r] \in Objects /\ Within(cr[r], Made)
      /\ Within(cr[r], Made')
  BY Fields DEF RecordsSound, Within
<1>2. CASE AddFinalizer(r)
  <2>1. CASE UNCHANGED <<api, cr>>
    BY <2>1, RestKnown DEF LocalKnown, api
  <2>2. CASE \E out : PutManaged(r, out, AsStored([cr[r] EXCEPT !.fin = TRUE]))
    <3>1. [cr[r] EXCEPT !.fin = TRUE] \in Objects /\ [cr[r] EXCEPT !.fin = TRUE].ext = cr[r].ext
      BY <1>1 DEF Objects
    <3> QED
      BY <2>2, <3>1, PutKnown
  <2> QED
    BY <1>2, <2>1, <2>2 DEF AddFinalizer
<1>3. CASE MarkPending(r)
  <2>1. CASE UNCHANGED <<api, cr>>
    BY <2>1, RestKnown DEF LocalKnown, api
  <2>2. CASE \E out : PutManaged(r, out, AsStored([cr[r] EXCEPT !.ann = "pending"]))
    <3>1. /\ [cr[r] EXCEPT !.ann = "pending"] \in Objects
          /\ [cr[r] EXCEPT !.ann = "pending"].ext = cr[r].ext
      BY <1>1 DEF Objects
    <3> QED
      BY <2>2, <3>1, PutKnown
  <2> QED
    BY <1>3, <2>1, <2>2 DEF MarkPending
<1>4. CASE RemoveFinalizer(r) \/ ForceRemoveFinalizer(r)
  <2>1. LocalKnown(r)
    BY <1>4 DEF RemoveFinalizer, ForceRemoveFinalizer, LocalKnown
  <2>2. UNCHANGED <<obj, cache>> \/ Store(r, {}, Unfinalized(obj))
    BY <1>4 DEF RemoveFinalizer, ForceRemoveFinalizer, api
  <2> QED
    BY <2>1, <2>2, RestKnown, WriteKnown
<1>5. CASE UpdateCriticalAnnotations(r)
  <2>1. CASE UNCHANGED <<api, cr>>
    BY <2>1, RestKnown DEF LocalKnown, api
  <2>2. CASE /\ Store(r, {"cr"}, Annotated(obj, cr[r]))
             /\ \E s \in {Overlay(obj.st, cr[r].st), obj.st} :
                   cr' = [cr EXCEPT ![r] = [Annotated(obj, cr[r]) EXCEPT !.st = s]]
    <3>1. Within(Annotated(obj, cr[r]), Made) /\ Within(Annotated(obj, cr[r]), Made')
      BY <1>1, WithinCopies DEF Within
    <3>2. \A s \in {Overlay(obj.st, cr[r].st), obj.st} :
              s.orgID \in Made' \cup {None} /\ s.stype \in Kinds /\ Asked(s.sname)
      BY <1>1, WithinCopies DEF Within
    <3>3. \A s : /\ [Annotated(obj, cr[r]) EXCEPT !.st = s].ext = Annotated(obj, cr[r]).ext
                 /\ [Annotated(obj, cr[r]) EXCEPT !.st = s].st = s
      BY <1>1 DEF Annotated, Objects
    <3>4. LocalKnown(r)
      BY <2>2, <3>1, <3>2, <3>3 DEF LocalKnown, Within
    <3> QED
      BY <2>2, <3>1, <3>4, StoreKnown
  <2> QED
    BY <1>5, <2>1, <2>2 DEF UpdateCriticalAnnotations
<1> QED
  BY <1>2, <1>3, <1>4, <1>5

LEMMA StartKnown ==
    ASSUME TypeInv, RecordsSound, Made \subseteq Made', NEW r \in Replicas, Start(r)
    PROVE  ApiKnown /\ LocalKnown(r)
<1>1. Within(cache[r], Made')
  BY DEF RecordsSound, Within
<1> QED
  BY <1>1, RestKnown DEF Start, LocalKnown

LEMMA NameKnownStep ==
    ASSUME TypeInv, RecordsSound, Made \subseteq Made', NEW r \in Replicas,
           GetLatest(r) \/ PutName(r) \/ AdoptStatus(r)
    PROVE  ApiKnown /\ LocalKnown(r)
<1>1. LocalKnown(r)
  <2>1. \/ UNCHANGED cr
        \/ \E a : cr' = [cr EXCEPT ![r] = [cr[r] EXCEPT !.ann = a]]
    BY DEF GetLatest, PutName, AdoptStatus, PersistFailed, NamePersisted, CreateFailed, Created,
           Observed, Finish
  <2> QED
    BY <2>1, CopyKnown
<1>2. \/ UNCHANGED <<obj, cache>>
      \/ \E mine : \/ Store(r, mine, [obj EXCEPT !.st = cr[r].st])
                   \/ Store(r, mine, [obj EXCEPT !.ext = cr[r].ext])
  BY DEF GetLatest, PutName, AdoptStatus, api
<1> QED
  BY <1>1, <1>2, RestKnown, WriteKnown

LEMMA StatusKnownStep ==
    ASSUME TypeInv, RecordsSound, Made \subseteq Made', NEW r \in Replicas,
           UpdateManagedStatus(r) \/ UpdateStatus(r) \/ RereadForStatus(r) \/ RetryStatus(r)
    PROVE  ApiKnown /\ LocalKnown(r)
<1>1. LocalKnown(r)
  <2>1. \/ UNCHANGED cr \/ Idle(r)
        \/ \E a : cr' = [cr EXCEPT ![r] = [cr[r] EXCEPT !.ann = a]]
    BY DEF UpdateManagedStatus, UpdateStatus, RereadForStatus, RetryStatus, StatusPut, Created,
           Finish
  <2> QED
    BY <2>1, CopyKnown
<1>2. \/ UNCHANGED <<obj, cache>>
      \/ \E mine : Store(r, mine, [obj EXCEPT !.st = cr[r].st])
  BY DEF UpdateManagedStatus, UpdateStatus, RereadForStatus, RetryStatus, api
<1> QED
  BY <1>1, <1>2, RestKnown, WriteKnown

LEMMA ObserveKnown ==
    ASSUME TypeInv, RecordsSound, Made \subseteq Made', Foreign = {}, NEW r \in Replicas,
           ObserveStep(r)
    PROVE  ApiKnown /\ LocalKnown(r)
<1>1. UNCHANGED <<obj, cache>>
  BY DEF ObserveStep, Restore, SearchByName, ObserveDeleting, ObserveCurrent, api
<1>2. Live \subseteq Made'
  BY DEF Live, Made
<1>3. ASSUME Restore(r) PROVE LocalKnown(r)
  <2>1. cr' = [cr EXCEPT ![r] = [cr[r] EXCEPT !.ext = cr[r].st.orgID]]
    BY <1>3 DEF Restore
  <2> QED
    BY <2>1, CopyKnown
<1>4. ASSUME SearchByName(r) PROVE LocalKnown(r)
  <2>1. UNCHANGED cr \/ \E o \in Made' : cr' = [cr EXCEPT ![r] = Adopted(cr[r], o)]
    BY <1>2, <1>4 DEF SearchByName
  <2> QED
    BY <2>1, CopyKnown
<1>5. ASSUME ObserveDeleting(r) PROVE LocalKnown(r)
  BY <1>5, CopyKnown DEF ObserveDeleting
<1>6. ASSUME ObserveCurrent(r) PROVE LocalKnown(r)
  <2>1. PICK b : cr' = [cr EXCEPT ![r] = [cr[r] EXCEPT !.st = WithSecretMetadata(cr[r], b)]]
    BY <1>6 DEF ObserveCurrent
  <2> QED
    BY <2>1, StatusKnown, CopyKnown
<1> QED
  BY <1>1, <1>3, <1>4, <1>5, <1>6, RestKnown DEF ObserveStep

LEMMA NilDone ==
    ASSUME NEW rep \in Replies("2xx"), doRequest(rep.answer) = Nil
    PROVE  rep.done
<1>1. CASE rep = Reply("2xx", TRUE, FALSE)
  BY <1>1 DEF Reply
<1>2. CASE \E a \in Faults : rep = Reply(a, TRUE, TRUE)
  BY <1>2 DEF Reply
<1>3. ASSUME NEW a \in Faults, rep = Reply(a, FALSE, TRUE) PROVE FALSE
  <2>1. rep.answer = a /\ a \in Answers \ {"2xx"}
    BY <1>3, BoundsAssumption DEF Reply
  <2>2. TypeOf(a) = "nil"
    BY <2>1 DEF doRequest, Nil
  <2> QED
    BY <2>1, <2>2 DEF TypeOf, Answers
<1> QED
  BY <1>1, <1>2, <1>3 DEF Replies

LEMMA CreateKnown ==
    ASSUME TypeInv, RecordsSound, Made \subseteq Made', Foreign = {}, NEW r \in Replicas,
           CreateStep(r)
    PROVE  ApiKnown /\ LocalKnown(r)
<1>1. UNCHANGED <<obj, cache>>
  BY DEF CreateStep, FindExisting, CreateOrganization, StoreKey, ProvisionIPs,
         EnableAPIAccessListRequired, api
<1>2. Live \subseteq Made'
  BY DEF Live, Made
<1>3. ASSUME FindExisting(r) PROVE LocalKnown(r)
  <2>1. \/ UNCHANGED cr
        \/ \E a : cr' = [cr EXCEPT ![r] = [cr[r] EXCEPT !.ann = a]]
        \/ \E o \in Made' : cr' = [cr EXCEPT ![r] = Adopted(cr[r], o)]
    BY <1>2, <1>3 DEF FindExisting, CreateFailed, Created
  <2> QED
    BY <2>1, CopyKnown
<1>4. ASSUME CreateOrganization(r) PROVE LocalKnown(r)
  <2>1. PICK rep \in Replies("2xx"), o \in OrgIds \ Foreign :
          /\ orgs[o] = "free"
          /\ IF rep.done THEN orgs' = [orgs EXCEPT ![o] = "live"] ELSE UNCHANGED orgs
          /\ IF doRequest(rep.answer) = Nil
             THEN cr' = [cr EXCEPT ![r] = [Adopted(cr[r], o) EXCEPT
                                                 !.st.roles = cr[r].spec.roles]]
             ELSE CreateFailed(r)
    BY <1>4 DEF CreateOrganization
  <2>2. CASE doRequest(rep.answer) = Nil
    <3>1. rep.done
      BY <2>1, <2>2, NilDone
    <3>2. o \in Made'
      BY <2>1, <3>1 DEF Made, TypeInv, AtlasOK
    <3> QED
      BY <2>1, <2>2, <3>2, CopyKnown
  <2>3. CASE doRequest(rep.answer) # Nil
    BY <2>1, <2>3, CopyKnown DEF CreateFailed, Created
  <2> QED
    BY <2>2, <2>3
<1>5. ASSUME StoreKey(r) \/ ProvisionIPs(r) \/ EnableAPIAccessListRequired(r)
      PROVE  LocalKnown(r)
  <2>1. \/ UNCHANGED cr \/ Idle(r)
        \/ \E a : cr' = [cr EXCEPT ![r] = [cr[r] EXCEPT !.ann = a]]
        \/ \E n : KeyNoted(r, n)
        \/ \E x : \/ cr' = [cr EXCEPT ![r] = [cr[r] EXCEPT !.st = [cr[r].st EXCEPT !.ips = x]]]
                  \/ cr' = [cr EXCEPT ![r] = [cr[r] EXCEPT !.st = [cr[r].st EXCEPT !.enf = x]]]
    BY <1>5, SpecNames DEF StoreKey, ProvisionIPs, EnableAPIAccessListRequired, CreateFailed,
                           Created, KeyNoted
  <2>2. ASSUME NEW s, s.orgID = cr[r].st.orgID, s.stype \in Kinds, Asked(s.sname),
               cr' = [cr EXCEPT ![r] = [cr[r] EXCEPT !.st = s]]
        PROVE  LocalKnown(r)
    BY <2>2, CopyKnown
  <2>3. CASE \E n : KeyNoted(r, n)
    <3>1. PICK n : KeyNoted(r, n)
      BY <2>3
    <3>2. /\ Recorded(cr[r].st, StorageType(cr[r].spec), n).orgID = cr[r].st.orgID
          /\ Recorded(cr[r].st, StorageType(cr[r].spec), n).stype \in Kinds
          /\ Asked(Recorded(cr[r].st, StorageType(cr[r].spec), n).sname)
      BY <3>1, StatusKnown DEF KeyNoted
    <3> QED
      BY <2>2, <3>1, <3>2 DEF KeyNoted
  <2>4. CASE \E x : \/ cr' = [cr EXCEPT ![r] = [cr[r] EXCEPT !.st = [cr[r].st EXCEPT !.ips = x]]]
                    \/ cr' = [cr EXCEPT ![r] = [cr[r] EXCEPT !.st = [cr[r].st EXCEPT !.enf = x]]]
    BY <2>2, <2>4, StatusKnown
  <2>5. CASE \/ UNCHANGED cr \/ Idle(r)
             \/ \E a : cr' = [cr EXCEPT ![r] = [cr[r] EXCEPT !.ann = a]]
    BY <2>5, CopyKnown
  <2> QED
    BY <2>1, <2>3, <2>4, <2>5
<1> QED
  BY <1>1, <1>3, <1>4, <1>5, RestKnown DEF CreateStep

LEMMA UpdateDeleteKnown ==
    ASSUME TypeInv, RecordsSound, Made \subseteq Made', NEW r \in Replicas,
           UpdateStep(r) \/ (DeleteStep(r) /\ ~ForceRemoveFinalizer(r))
    PROVE  ApiKnown /\ LocalKnown(r)
<1>1. UNCHANGED <<obj, cache>>
  BY DEF UpdateStep, FetchCredentials, MigrateToKubernetes, MigrateToAWS, KeepStorage,
         DeleteOldSecret, DescribeKey, UpdateRoles, UpdateEnforcement, AddNewIPs, RemoveOldIPs,
         DeleteStep, CleanupIPs, VerifyFirst, FetchForDelete, DeleteOrganization,
         ConfirmDeletion, DeleteSecret, GetForRelease, api
<1>2. ASSUME NEW s, s.orgID = cr[r].st.orgID, s.stype \in Kinds, Asked(s.sname),
               cr' = [cr EXCEPT ![r] = [cr[r] EXCEPT !.st = s]]
      PROVE  LocalKnown(r)
  BY <1>2, CopyKnown
<1>3. ASSUME \/ FetchCredentials(r) \/ KeepStorage(r) \/ DeleteOldSecret(r) \/ DescribeKey(r)
             \/ AddNewIPs(r) \/ DeleteStep(r)
      PROVE  LocalKnown(r)
  BY <1>3 DEF FetchCredentials, KeepStorage, DeleteOldSecret, DescribeKey, AddNewIPs,
              DeleteStep, CleanupIPs, VerifyFirst, FetchForDelete, DeleteOrganization,
              ConfirmDeletion, DeleteSecret, GetForRelease, ForceRemoveFinalizer, local,
              LocalKnown
<1>4. ASSUME MigrateToKubernetes(r) \/ MigrateToAWS(r)
      PROVE  LocalKnown(r)
  <2>1. \/ UNCHANGED cr \/ Idle(r)
        \/ \E n : KeyNoted(r, n)
    BY <1>4, MigratesKinds DEF MigrateToKubernetes, MigrateToAWS, Moved, local, KeyNoted, Asked
  <2>2. CASE UNCHANGED cr \/ Idle(r)
    BY <2>2, CopyKnown
  <2>3. CASE \E n : KeyNoted(r, n)
    <3>1. PICK n : KeyNoted(r, n)
      BY <2>3
    <3>2. /\ Recorded(cr[r].st, StorageType(cr[r].spec), n).orgID = cr[r].st.orgID
          /\ Recorded(cr[r].st, StorageType(cr[r].spec), n).stype \in Kinds
          /\ Asked(Recorded(cr[r].st, StorageType(cr[r].spec), n).sname)
      BY <3>1, StatusKnown DEF KeyNoted
    <3> QED
      BY <1>2, <3>1, <3>2 DEF KeyNoted
  <2> QED
    BY <2>1, <2>2, <2>3
<1>5. ASSUME UpdateRoles(r) \/ UpdateEnforcement(r) \/ RemoveOldIPs(r)
      PROVE  LocalKnown(r)
  <2>1. \/ UNCHANGED cr
        \/ \E x : \/ cr' = [cr EXCEPT ![r] = [cr[r] EXCEPT !.st = [cr[r].st EXCEPT !.ips = x]]]
                  \/ cr' = [cr EXCEPT ![r] = [cr[r] EXCEPT !.st = [cr[r].st EXCEPT !.roles = x]]]
                  \/ cr' = [cr EXCEPT ![r] = [cr[r] EXCEPT !.st = [cr[r].st EXCEPT !.enf = x]]]
    BY <1>5 DEF UpdateRoles, UpdateEnforcement, RemoveOldIPs
  <2>2. CASE UNCHANGED cr
    BY <2>2 DEF LocalKnown
  <2>3. CASE ~UNCHANGED cr
    BY <1>2, <2>1, <2>3, StatusKnown
  <2> QED
    BY <2>2, <2>3
<1> QED
  BY <1>1, <1>3, <1>4, <1>5, RestKnown DEF UpdateStep

LEMMA NextRecordsSound ==
    ASSUME TypeInv, RecordsSound, Made \subseteq Made', Foreign = {}, MaxApplies = 0, [Next]_vars
    PROVE  RecordsSound'
<1>1. ASSUME NEW r \in Replicas, Reconcile(r)
      PROVE  RecordsSound'
  <2>1. CASE ReconcilerStep(r)
    BY <2>1, StartKnown, MetadataKnown, NameKnownStep, StatusKnownStep, KnownStep
       DEF ReconcilerStep
  <2>2. CASE ForceRemoveFinalizer(r)
    BY <2>2, MetadataKnown, KnownStep
  <2> QED
    BY <1>1, <2>1, <2>2, ObserveKnown, CreateKnown, UpdateDeleteKnown, KnownStep DEF Reconcile
<1>2. ASSUME NEW r \in Replicas, CacheSync(r) \/ Crash(r)
      PROVE  RecordsSound'
  <2>1. ApiKnown
    BY <1>2 DEF CacheSync, Crash, ApiKnown, RecordsSound, TypeInv, ApiOK
  <2>2. LocalKnown(r)
    BY <1>2, CopyKnown DEF CacheSync, Crash, local
  <2> QED
    BY <2>1, <2>2, KnownStep
<1>3. CASE Environment
  <2>1. UNCHANGED cr
    BY <1>3, CreatedOnce DEF Environment, UserEdit, UserClearName, UserDelete, ConsoleCreate,
                             ConsoleDelete, local
  <2>2. Within(obj, Made) /\ obj \in Objects
    BY DEF RecordsSound, TypeInv, ApiOK
  <2>3. \A new : Within(new, Made) /\ Edit(new) => ApiKnown
    BY DEF Edit, ApiKnown
  <2>4. /\ \A s : Within([obj EXCEPT !.spec = s], Made)
        /\ Within([obj EXCEPT !.ext = None], Made)
        /\ Within([obj EXCEPT !.deleting = TRUE], Made)
        /\ Within(Absent, Made)
    BY <2>2, WithinCopies
  <2>5. ApiKnown
    BY <1>3, <2>3, <2>4, CreatedOnce, RestKnown
       DEF Environment, UserEdit, UserClearName, UserDelete, ConsoleCreate, ConsoleDelete, api
  <2>6. \A q \in Replicas : Within(cr'[q], Made')
    BY <2>1 DEF RecordsSound, Within
  <2>7. Within(obj', Made') /\ \A q \in Replicas : Within(cache'[q], Made')
    BY <2>5 DEF ApiKnown, RecordsSound, Within
  <2> QED
    BY <2>6, <2>7 DEF RecordsSound
<1>4. CASE UNCHANGED vars
  BY <1>4 DEF vars, api, local, atlas, RecordsSound, Within
<1> QED
  BY <1>1, <1>2, <1>3, <1>4 DEF Next

LEMMA InitRecordsSound == Init => RecordsSound
<1> SUFFICES ASSUME Init PROVE RecordsSound
  OBVIOUS
<1>1. \A s : Within(NewObject(s), Made)
  BY DEF Within, NewObject, NoStatus, Kinds, Asked
<1>2. Within(Absent, Made)
  BY DEF Within, Absent, NewObject, NoStatus, Kinds, Asked
<1>3. PICK s \in Specs : obj = NewObject(s)
  BY DEF Init
<1>4. \A r \in Replicas : cr[r] = Absent /\ cache[r] = obj
  BY DEF Init
<1> QED
  BY <1>1, <1>2, <1>3, <1>4 DEF RecordsSound

(* Nothing ever records the id of an organization that was not made.       *)
LEMMA RecordsSoundInvariance ==
    ASSUME MaxApplies = 0, "404" \notin Faults, Foreign = {}
    PROVE  Spec => []RecordsSound
<1>1. Spec => []Settled
  BY SettledInvariance
<1>2. Settled /\ Settled' /\ RecordsSound /\ [Next]_vars => RecordsSound'
  BY SettledStep, MadeGrows, NextRecordsSound DEF Settled
<1> QED
  BY <1>1, <1>2, InitRecordsSound, PTL DEF Spec

(* The annotation and the status name the same organization: there has     *)
(* only ever been one to name.                                             *)
THEOREM NameMatchesStatusCorrect ==
    ASSUME MaxApplies = 0, "404" \notin Faults, Foreign = {}
    PROVE  Spec => []NameMatchesStatus
<1>1. Spec => []OnceInv
  BY OnceInvariance
<1>2. Spec => []RecordsSound
  BY RecordsSoundInvariance
<1>3. OnceInv /\ RecordsSound => NameMatchesStatus
  BY DEF OnceInv, OnlyOne, RecordsSound, Within, NameMatchesStatus
<1> QED
  BY <1>1, <1>2, <1>3, PTL

-----------------------------------------------------------------------------
(* No record is dropped but by a user and by the retry of the status.      *)

(* d has every id that c has.                                              *)
HasIds(c, d) ==
    /\ c.ext # None => d.ext # None
    /\ c.st.orgID # None => d.st.orgID # None

(* The organization's id is being persisted.                               *)
NameLabels == {"get", "put", "reget", "reput", "adopted"}

Held ==
    \A r \in Replicas :
        /\ pc[r] # "idle" /\ Current(r, "cr") => HasIds(obj, cr[r])
        /\ pc[r] \in NameLabels => cr[r].st.orgID # None

(* What a step of a reconcile leaves behind.                               *)
OthersAway(r) ==
    \A q \in Replicas \ {r} : "cr" \in fresh'[q] => "cr" \in fresh[q] /\ UNCHANGED obj

Retried(r) == pc[r] = "restatus" /\ pc'[r] # "restatus" /\ obj'.ext = obj.ext

Lasts(r) ==
    /\ OthersAway(r)
    /\ pc'[r] # "idle" /\ Current(r, "cr")' => HasIds(obj', cr'[r])
    /\ pc'[r] \in NameLabels => cr'[r].st.orgID # None
    /\ obj.present /\ obj'.present => HasIds(obj, obj') \/ Retried(r)

LEMMA HeldStep ==
    ASSUME TypeInv, Held, NEW r \in Replicas, OthersRest(r), Lasts(r)
    PROVE  Held'
<1>1. ASSUME NEW q \in Replicas \ {r}
      PROVE  /\ pc'[q] # "idle" /\ Current(q, "cr")' => HasIds(obj', cr'[q])
             /\ pc'[q] \in NameLabels => cr'[q].st.orgID # None
  <2>1. pc'[q] = pc[q] /\ cr'[q] = cr[q]
    BY DEF OthersRest
  <2>2. Current(q, "cr")' => Current(q, "cr") /\ UNCHANGED obj
    BY DEF Lasts, OthersAway, Current
  <2> QED
    BY <2>1, <2>2 DEF Held
<1> QED
  BY <1>1 DEF Held, Lasts

(* The steps that write nothing: the working copy keeps what it has.       *)
CopyLasts(r) == pc'[r] = "idle" \/ HasIds(cr[r], cr'[r])

LEMMA RestLasts ==
    ASSUME Held, NEW r \in Replicas, pc[r] # "idle", UNCHANGED obj,
           \A q \in Replicas : "cr" \in fresh'[q] => "cr" \in fresh[q],
           CopyLasts(r), pc'[r] \in NameLabels => cr'[r].st.orgID # None
    PROVE  Lasts(r)
<1>1. "cr" \in fresh'[r] => "cr" \in fresh[r]
  OBVIOUS
<1>2. pc'[r] # "idle" /\ Current(r, "cr")' => HasIds(obj', cr'[r])
  BY <1>1 DEF Held, Current, CopyLasts, HasIds
<1> QED
  BY <1>2 DEF Lasts, OthersAway, HasIds

(* What a write leaves current.                                            *)
LEMMA StoreLeaves ==
    ASSUME TypeInv, NEW r \in Replicas, NEW mine, NEW new, Store(r, mine, new)
    PROVE  /\ obj' = new /\ OthersAway(r)
           /\ "cr" \in fresh'[r] => "cr" \in mine \/ ("cr" \in fresh[r] /\ UNCHANGED obj)
BY DEF Store, OthersAway, TypeInv, ApiOK

(* A write of what the working copy does not lack.                         *)
LEMMA StoreLasts ==
    ASSUME TypeInv, Held, NEW r \in Replicas, NEW mine, NEW new, Store(r, mine, new),
           pc[r] # "idle", pc'[r] \in NameLabels => cr'[r].st.orgID # None,
           IF "cr" \in mine THEN HasIds(new, cr'[r]) ELSE CopyLasts(r),
           new.present => HasIds(obj, new) \/ Retried(r)
    PROVE  Lasts(r)
<1>1. /\ obj' = new /\ OthersAway(r)
      /\ "cr" \in fresh'[r] => "cr" \in mine \/ ("cr" \in fresh[r] /\ UNCHANGED obj)
  BY StoreLeaves
<1>2. pc'[r] # "idle" /\ Current(r, "cr")' => HasIds(obj', cr'[r])
  <2>1. CASE "cr" \in mine
    BY <1>1, <2>1
  <2>2. CASE "cr" \notin mine
    BY <1>1, <2>2 DEF Held, Current, CopyLasts, HasIds
  <2> QED
    BY <2>1, <2>2
<1> QED
  BY <1>1, <1>2 DEF Lasts

(* The id an adoption or a creation brings is in both places.              *)
LEMMA AdoptedHeld ==
    ASSUME TypeInv, NEW r \in Replicas, NEW o \in OrgIds,
           \/ cr' = [cr EXCEPT ![r] = Adopted(cr[r], o)]
           \/ \E x : cr' = [cr EXCEPT ![r] = [Adopted(cr[r], o) EXCEPT !.st.roles = x]]
    PROVE  cr'[r].ext # None /\ cr'[r].st.orgID # None
<1>1. cr[r] \in Objects /\ cr[r].st \in Statuses
  BY Fields
<1>2. \A d : cr' = [cr EXCEPT ![r] = d] => cr'[r] = d
  BY DEF TypeInv, LocalOK
<1>3. o # None
  BY SetsAssumption
<1>4. Adopted(cr[r], o).ext = o /\ Adopted(cr[r], o).st.orgID = o
  BY <1>1 DEF Adopted, Objects, Statuses
<1>5. \A x : /\ [Adopted(cr[r], o) EXCEPT !.st.roles = x].ext = o
             /\ [Adopted(cr[r], o) EXCEPT !.st.roles = x].st.orgID = o
  BY <1>1 DEF Adopted, Objects, Statuses
<1> QED
  BY <1>2, <1>3, <1>4, <1>5

(* Most of what happens to a working copy drops no id.                     *)
LEMMA CopiesLast ==
    ASSUME TypeInv, NEW r \in Replicas,
           \/ UNCHANGED cr \/ Idle(r)
           \/ CreateFailed(r) \/ (\E a : Created(r, cr[r], a))
           \/ (PersistFailed(r) \/ NamePersisted(r)) \/ (\E ok : StatusPut(r, ok))
           \/ (\E e : e # None /\ cr' = [cr EXCEPT ![r] = [cr[r] EXCEPT !.ext = e]])
           \/ (\E s : s.orgID = cr[r].st.orgID
                      /\ cr' = [cr EXCEPT ![r] = [cr[r] EXCEPT !.st = s]])
           \/ \E o \in OrgIds : \/ cr' = [cr EXCEPT ![r] = Adopted(cr[r], o)]
                                \/ \E x : cr' = [cr EXCEPT ![r] = [Adopted(cr[r], o)
                                                                     EXCEPT !.st.roles = x]]
    PROVE  CopyLasts(r)
<1>1. cr[r] \in Objects /\ cr[r].st \in Statuses
  BY Fields
<1>2. \A d : cr' = [cr EXCEPT ![r] = d] => cr'[r] = d
  BY DEF TypeInv, LocalOK
<1>3. \A a : Created(r, cr[r], a) => CopyLasts(r)
  <2>1. ASSUME NEW a, cr' = [cr EXCEPT ![r] = [cr[r] EXCEPT !.ann = a]]
        PROVE  CopyLasts(r)
    BY <1>1, <1>2, <2>1 DEF CopyLasts, HasIds, Objects
  <2> QED
    BY <2>1 DEF Created
<1>4. UNCHANGED cr \/ Idle(r) => CopyLasts(r)
  BY DEF Idle, Goto, CopyLasts, HasIds, TypeInv, LocalOK
<1>5. PersistFailed(r) \/ NamePersisted(r) \/ CreateFailed(r) => CopyLasts(r)
  BY <1>3, <1>4 DEF PersistFailed, NamePersisted, CreateFailed
<1>6. (\E ok : StatusPut(r, ok)) => CopyLasts(r)
  BY <1>3, <1>4 DEF StatusPut
<1>7. ASSUME NEW e, e # None, cr' = [cr EXCEPT ![r] = [cr[r] EXCEPT !.ext = e]]
      PROVE  CopyLasts(r)
  BY <1>1, <1>2, <1>7 DEF CopyLasts, HasIds, Objects
<1>8. ASSUME NEW s, s.orgID = cr[r].st.orgID, cr' = [cr EXCEPT ![r] = [cr[r] EXCEPT !.st = s]]
      PROVE  CopyLasts(r)
  BY <1>1, <1>2, <1>8 DEF CopyLasts, HasIds, Objects
<1>9. ASSUME NEW o \in OrgIds,
             \/ cr' = [cr EXCEPT ![r] = Adopted(cr[r], o)]
             \/ \E x : cr' = [cr EXCEPT ![r] = [Adopted(cr[r], o) EXCEPT !.st.roles = x]]
      PROVE  CopyLasts(r)
  BY <1>9, AdoptedHeld DEF CopyLasts, HasIds
<1> QED
  BY <1>3, <1>4, <1>5, <1>6, <1>7, <1>8, <1>9

(* Where a step goes from which no name is persisted.                      *)
LEMMA NamesAway ==
    ASSUME TypeInv, NEW r \in Replicas,
           \/ Finish(r) \/ Idle(r) \/ Onward(r) \/ CreateFailed(r) \/ (\E c, a : Created(r, c, a))
           \/ PersistFailed(r) \/ (\E next : Observed(r, next))
           \/ (\E ok : StatusPut(r, ok)) \/ (\E caller : PutStatus(r, caller))
           \/ (\E changed : UpdateDone(r, changed))
           \/ \E l \in Labels \ NameLabels : Goto(r, l)
    PROVE  pc'[r] \notin NameLabels
<1>1. \A l \in Labels \ NameLabels : Goto(r, l) => pc'[r] \notin NameLabels
  BY DEF Goto, TypeInv, LocalOK
<1>2. Finish(r) \/ Idle(r) \/ Onward(r) \/ (\E c, a : Created(r, c, a))
         => pc'[r] \notin NameLabels
  BY <1>1 DEF Finish, Idle, Onward, Created, Labels, NameLabels
<1>3. CreateFailed(r) \/ PersistFailed(r) => pc'[r] \notin NameLabels
  BY <1>2 DEF CreateFailed, PersistFailed
<1>4. (\E next : Observed(r, next)) => pc'[r] \notin NameLabels
  BY <1>1 DEF Observed, Labels, NameLabels
<1>5. (\E ok : StatusPut(r, ok)) \/ (\E caller : PutStatus(r, caller))
         => pc'[r] \notin NameLabels
  BY <1>1, <1>2 DEF StatusPut, PutStatus, Labels, NameLabels
<1>6. (\E changed : UpdateDone(r, changed)) => pc'[r] \notin NameLabels
  BY <1>2, <1>5 DEF UpdateDone
<1> QED
  BY <1>1, <1>2, <1>3, <1>4, <1>5, <1>6

-----------------------------------------------------------------------------
(* Every step of a reconcile lasts.                                        *)

LEMMA ReconcileRests ==
    ASSUME TypeInv, NEW r \in Replicas, Reconcile(r)
    PROVE  OthersRest(r)
<1>1. CASE Start(r)
  BY <1>1 DEF Start, Goto, OthersRest, TypeInv, LocalOK
<1>2. CASE AddFinalizer(r) \/ MarkPending(r)
  <2>1. UNCHANGED cr \/ \E d : cr' = [cr EXCEPT ![r] = d]
    BY <1>2 DEF AddFinalizer, MarkPending, PutManaged
  <2>2. Onward(r) \/ Finish(r) \/ (Goto(r, "find") /\ UNCHANGED ret)
    BY <1>2 DEF AddFinalizer, MarkPending
  <2> QED
    BY <2>1, <2>2 DEF Onward, Finish, Goto, OthersRest, TypeInv, LocalOK
<1>3. CASE RemoveFinalizer(r) \/ ForceRemoveFinalizer(r)
  BY <1>3, RemoveFinalizerCalm DEF LocalCalm
<1>4. CASE UpdateCriticalAnnotations(r)
  BY <1>4 DEF UpdateCriticalAnnotations, Finish, Goto, OthersRest, TypeInv, LocalOK
<1>5. CASE ~LockStep(r)
  BY <1>5, ReconcileQuiet DEF IsQuiet, LocalCalm
<1> QED
  BY <1>1, <1>2, <1>3, <1>4, <1>5 DEF LockStep

LEMMA StartLasts ==
    ASSUME TypeInv, CacheExact, NEW r \in Replicas, Start(r)
    PROVE  Lasts(r)
<1>1. /\ UNCHANGED obj /\ cr'[r] = cache[r] /\ pc'[r] = "observe"
      /\ \A q \in Replicas \ {r} : fresh'[q] = fresh[q]
      /\ "cr" \in fresh'[r] => "cache" \in fresh[r]
  BY DEF Start, Holds, Goto, TypeInv, LocalOK, ApiOK
<1>2. Current(r, "cr")' => cr'[r] = obj'
  BY <1>1 DEF CacheExact, Current
<1> QED
  BY <1>1, <1>2 DEF Lasts, OthersAway, HasIds, NameLabels

(* The working copy is written, and takes over the answer.                 *)
LEMMA PutManagedLasts ==
    ASSUME TypeInv, Held, NEW r \in Replicas, pc[r] # "idle", pc'[r] \notin NameLabels,
           Current(r, "cr"), NEW out, NEW c \in Objects, c.ext = cr[r].ext,
           PutManaged(r, out, AsStored(c))
    PROVE  Lasts(r)
<1> DEFINE new == AsStored(c)
<1>1. new.ext = cr[r].ext /\ new.st = obj.st
  BY DEF AsStored, Objects
<1>2. HasIds(obj, cr[r])
  BY DEF Held
<1>3. HasIds(obj, new)
  BY <1>1, <1>2 DEF HasIds
<1>4. CASE out = "ok"
  <2>1. Store(r, {"cr"}, new) /\ cr' = [cr EXCEPT ![r] = [new EXCEPT !.st = Overlay(obj.st, cr[r].st)]]
    BY <1>4 DEF PutManaged
  <2>2. /\ [new EXCEPT !.st = Overlay(obj.st, cr[r].st)].ext = new.ext
        /\ [new EXCEPT !.st = Overlay(obj.st, cr[r].st)].st = Overlay(obj.st, cr[r].st)
    BY DEF AsStored, Objects
  <2>3. Overlay(obj.st, cr[r].st).orgID
          = IF obj.st.orgID # None THEN obj.st.orgID ELSE cr[r].st.orgID
    BY DEF Overlay
  <2>4. cr'[r].ext = new.ext /\ cr'[r].st = Overlay(obj.st, cr[r].st)
    BY <2>1, <2>2 DEF TypeInv, LocalOK
  <2>5. HasIds(new, cr'[r])
    BY <1>1, <2>3, <2>4 DEF HasIds
  <2> HIDE DEF new
  <2> QED
    BY <1>3, <2>1, <2>5, StoreLasts
<1>5. CASE out = "lost"
  <2>1. Store(r, {}, new) /\ UNCHANGED cr
    BY <1>5 DEF PutManaged
  <2> HIDE DEF new
  <2> QED
    BY <1>3, <2>1, CopiesLast, StoreLasts
<1>6. CASE out = "fail"
  BY <1>6, CopiesLast, RestLasts DEF PutManaged, api
<1> QED
  BY <1>4, <1>5, <1>6 DEF PutManaged

LEMMA MetadataLasts ==
    ASSUME TypeInv, Held, NEW r \in Replicas, AddFinalizer(r) \/ MarkPending(r)
    PROVE  Lasts(r)
<1>1. pc[r] # "idle" /\ pc'[r] \notin NameLabels
  BY NamesAway DEF AddFinalizer, MarkPending, Labels, NameLabels
<1>2. /\ [cr[r] EXCEPT !.fin = TRUE] \in Objects
      /\ [cr[r] EXCEPT !.fin = TRUE].ext = cr[r].ext
      /\ [cr[r] EXCEPT !.ann = "pending"] \in Objects
      /\ [cr[r] EXCEPT !.ann = "pending"].ext = cr[r].ext
  <2>1. cr[r] \in Objects
    BY Fields
  <2> QED
    BY <2>1 DEF Objects
<1>3. CASE UNCHANGED <<api, cr>>
  BY <1>1, <1>3, CopiesLast, RestLasts DEF api
<1>4. ASSUME Current(r, "cr"), NEW out,
             \/ PutManaged(r, out, AsStored([cr[r] EXCEPT !.fin = TRUE]))
             \/ PutManaged(r, out, AsStored([cr[r] EXCEPT !.ann = "pending"]))
      PROVE  Lasts(r)
  BY <1>1, <1>2, <1>4, PutManagedLasts
<1> QED
  BY <1>3, <1>4 DEF AddFinalizer, MarkPending

LEMMA AnnotateLasts ==
    ASSUME TypeInv, Held, NEW r \in Replicas, UpdateCriticalAnnotations(r)
    PROVE  Lasts(r)
<1> DEFINE new == Annotated(obj, cr[r])
           old == IF Current(r, "cr") THEN Overlay(obj.st, cr[r].st) ELSE obj.st
<1>1. pc[r] # "idle" /\ pc'[r] \notin NameLabels
  BY NamesAway DEF UpdateCriticalAnnotations
<1>2. CASE UNCHANGED <<api, cr>>
  BY <1>1, <1>2, CopiesLast, RestLasts DEF api
<1>3. CASE Store(r, {"cr"}, new) /\ cr' = [cr EXCEPT ![r] = [new EXCEPT !.st = old]]
  <2>1. new.st = obj.st /\ new.ext = IF cr[r].ext = None THEN obj.ext ELSE cr[r].ext
    BY Fields DEF Annotated, Objects
  <2>2. [new EXCEPT !.st = old].ext = new.ext /\ [new EXCEPT !.st = old].st = old
    BY Fields DEF Annotated, Objects
  <2>3. cr'[r].ext = new.ext /\ cr'[r].st = old
    BY <1>3, <2>2 DEF TypeInv, LocalOK
  <2>4. \A s, t : Overlay(s, t).orgID = IF s.orgID # None THEN s.orgID ELSE t.orgID
    BY DEF Overlay
  <2>5. obj.st.orgID # None => old.orgID # None
    BY <2>4
  <2>6. HasIds(new, cr'[r]) /\ HasIds(obj, new)
    BY <2>1, <2>3, <2>5 DEF HasIds
  <2> HIDE DEF new
  <2> QED
    BY <1>1, <1>3, <2>6, StoreLasts
<1> QED
  BY <1>2, <1>3 DEF UpdateCriticalAnnotations

LEMMA ReleaseLasts ==
    ASSUME TypeInv, Held, NEW r \in Replicas, RemoveFinalizer(r) \/ ForceRemoveFinalizer(r)
    PROVE  Lasts(r)
<1>1. pc[r] # "idle" /\ pc'[r] \notin NameLabels /\ CopyLasts(r)
  BY NamesAway, CopiesLast DEF RemoveFinalizer, ForceRemoveFinalizer
<1>2. CASE UNCHANGED api
  BY <1>1, <1>2, RestLasts DEF api
<1>3. CASE Store(r, {}, Unfinalized(obj))
  <2>1. Unfinalized(obj).present => HasIds(obj, Unfinalized(obj))
    BY Fields DEF Unfinalized, Absent, NewObject, Objects, HasIds
  <2> QED
    BY <1>1, <1>3, <2>1, StoreLasts
<1> QED
  BY <1>2, <1>3 DEF RemoveFinalizer, ForceRemoveFinalizer, api

(* The writes of the status, of the name, and the reads between them.      *)
LEMMA RecordLasts ==
    ASSUME TypeInv, Held, NEW r \in Replicas,
           UpdateManagedStatus(r) \/ UpdateStatus(r) \/ RereadForStatus(r) \/ RetryStatus(r)
    PROVE  Lasts(r)
<1>1. pc[r] # "idle" /\ pc'[r] \notin NameLabels /\ CopyLasts(r)
  BY NamesAway, CopiesLast DEF UpdateManagedStatus, UpdateStatus, RereadForStatus, RetryStatus,
     Labels, NameLabels
<1>2. [obj EXCEPT !.st = cr[r].st].st = cr[r].st /\ [obj EXCEPT !.st = cr[r].st].ext = obj.ext
  BY Fields DEF Objects
<1>3. ASSUME UNCHANGED obj,
             \/ UNCHANGED fresh
             \/ Holds(r, {})
             \/ fresh' = [fresh EXCEPT ![r] = IF "cache" \in @ THEN @ \cup {"latest"}
                                                               ELSE @ \ {"latest"}]
      PROVE  Lasts(r)
  <2>1. \A q \in Replicas : "cr" \in fresh'[q] => "cr" \in fresh[q]
    BY <1>3 DEF Holds, TypeInv, ApiOK
  <2> QED
    BY <1>1, <1>3, <2>1, RestLasts
<1>4. ASSUME NEW mine, Store(r, mine, [obj EXCEPT !.st = cr[r].st]), Current(r, "cr"),
             "cr" \in mine => UNCHANGED cr \/ \E a : cr' = [cr EXCEPT ![r] = [cr[r] EXCEPT !.ann = a]]
      PROVE  Lasts(r)
  <2>1. HasIds(obj, cr[r])
    BY <1>1, <1>4 DEF Held
  <2>2. HasIds(obj, [obj EXCEPT !.st = cr[r].st]) /\ HasIds([obj EXCEPT !.st = cr[r].st], cr[r])
    BY <1>2, <2>1 DEF HasIds
  <2>3. ASSUME "cr" \in mine
        PROVE  cr'[r].ext = cr[r].ext /\ cr'[r].st = cr[r].st
    BY <1>4, <2>3, Fields DEF Objects, TypeInv, LocalOK
  <2>4. "cr" \in mine => HasIds([obj EXCEPT !.st = cr[r].st], cr'[r])
    BY <2>2, <2>3 DEF HasIds
  <2> QED
    BY <1>1, <1>4, <2>2, <2>4, StoreLasts
<1>5. CASE UpdateManagedStatus(r)
  BY <1>3, <1>4, <1>5 DEF UpdateManagedStatus
<1>6. CASE UpdateStatus(r)
  <2>1. UNCHANGED cr \/ \E a : cr' = [cr EXCEPT ![r] = [cr[r] EXCEPT !.ann = a]]
    BY <1>6 DEF UpdateStatus, StatusPut, Created
  <2> QED
    BY <1>3, <1>4, <1>6, <2>1 DEF UpdateStatus, api
<1>7. CASE RereadForStatus(r)
  BY <1>3, <1>7 DEF RereadForStatus, api
<1>8. CASE RetryStatus(r)
  <2>1. CASE UNCHANGED api
    BY <1>3, <2>1 DEF api
  <2>2. CASE Store(r, {}, [obj EXCEPT !.st = cr[r].st])
    <3>1. obj' = [obj EXCEPT !.st = cr[r].st]
      BY <2>2, StoreLeaves
    <3>2. pc'[r] # "restatus"
      BY <1>8 DEF RetryStatus, StatusPut, Created, Finish, Goto, TypeInv, LocalOK
    <3>3. Retried(r)
      BY <1>2, <1>8, <3>1, <3>2 DEF Retried, RetryStatus
    <3> QED
      BY <1>1, <2>2, <3>3, StoreLasts
  <2> QED
    BY <1>8, <2>1, <2>2 DEF RetryStatus
<1> QED
  BY <1>5, <1>6, <1>7, <1>8

LEMMA NameLasts ==
    ASSUME TypeInv, Held, NEW r \in Replicas, GetLatest(r) \/ PutName(r) \/ AdoptStatus(r)
    PROVE  Lasts(r)
<1>1. /\ pc[r] \in NameLabels /\ cr[r].st.orgID # None /\ cr[r].ext # None
      /\ pc[r] # "idle"
  BY DEF GetLatest, PutName, AdoptStatus, NameLabels, Held, TypeInv, LocalOK, NameKnown,
         NameNeeded
<1>2. CopyLasts(r)
  BY CopiesLast DEF GetLatest, PutName, AdoptStatus
<1>3. pc'[r] \in NameLabels => cr'[r].st.orgID # None
  <2>1. pc'[r] \in NameLabels => pc'[r] # "idle"
    BY DEF NameLabels
  <2> QED
    BY <1>1, <1>2, <2>1 DEF CopyLasts, HasIds
<1>4. CASE GetLatest(r)
  <2>1. UNCHANGED obj /\ \A q \in Replicas : "cr" \in fresh'[q] => "cr" \in fresh[q]
    BY <1>4 DEF GetLatest, api, TypeInv, ApiOK
  <2> QED
    BY <1>1, <1>2, <1>3, <2>1, RestLasts
<1>5. CASE PutName(r) \/ AdoptStatus(r)
  <2>1. \/ UNCHANGED api
        \/ \E mine : /\ "cr" \notin mine
                     /\ \/ Store(r, mine, [obj EXCEPT !.st = cr[r].st])
                        \/ Store(r, mine, [obj EXCEPT !.ext = cr[r].ext])
    BY <1>5 DEF PutName, AdoptStatus
  <2>2. CASE UNCHANGED api
    BY <1>1, <1>2, <1>3, <2>2, RestLasts DEF api
  <2>3. ASSUME NEW mine, "cr" \notin mine, NEW new, Store(r, mine, new),
               new = [obj EXCEPT !.st = cr[r].st] \/ new = [obj EXCEPT !.ext = cr[r].ext]
        PROVE  Lasts(r)
    <3>1. HasIds(obj, new)
      BY <1>1, <2>3, Fields DEF HasIds, Objects
    <3> QED
      BY <1>1, <1>2, <1>3, <2>3, <3>1, StoreLasts
  <2> QED
    BY <2>1, <2>2, <2>3
<1> QED
  BY <1>4, <1>5

(* The steps that do not call the API server.                              *)
LEMMA AwayLasts ==
    ASSUME Held, NEW r \in Replicas, pc[r] # "idle", UNCHANGED <<obj, fresh>>, CopyLasts(r),
           pc'[r] \in NameLabels => cr'[r].st.orgID # None
    PROVE  Lasts(r)
BY RestLasts

LEMMA ObserveLasts ==
    ASSUME TypeInv, Held, NEW r \in Replicas, ObserveStep(r)
    PROVE  Lasts(r)
<1>1. UNCHANGED <<obj, fresh>> /\ pc[r] # "idle"
  BY DEF ObserveStep, Restore, SearchByName, ObserveDeleting, ObserveCurrent, api
<1>2. CASE Restore(r)
  <2>1. /\ cr' = [cr EXCEPT ![r] = [cr[r] EXCEPT !.ext = cr[r].st.orgID]]
        /\ cr[r].st.orgID # None
    BY <1>2 DEF Restore
  <2>2. CopyLasts(r)
    BY <2>1, CopiesLast
  <2>3. cr'[r].st.orgID # None
    BY <2>1, Fields DEF Objects, TypeInv, LocalOK
  <2> QED
    BY <1>1, <2>2, <2>3, AwayLasts
<1>3. CASE SearchByName(r)
  <2>1. CASE \E next : Observed(r, next) /\ UNCHANGED cr
    BY <1>1, <2>1, NamesAway, CopiesLast, AwayLasts
  <2>2. CASE Finish(r) /\ UNCHANGED cr
    BY <1>1, <2>2, NamesAway, CopiesLast, AwayLasts
  <2>3. CASE \E o \in Live : cr' = [cr EXCEPT ![r] = Adopted(cr[r], o)]
    <3>1. PICK o \in OrgIds : cr' = [cr EXCEPT ![r] = Adopted(cr[r], o)]
      BY <2>3 DEF Live
    <3> QED
      BY <1>1, <3>1, AdoptedHeld, CopiesLast, AwayLasts
  <2> QED
    BY <1>3, <2>1, <2>2, <2>3 DEF SearchByName
<1>4. CASE ObserveDeleting(r)
  BY <1>1, <1>4, NamesAway, CopiesLast, AwayLasts DEF ObserveDeleting
<1>5. CASE ObserveCurrent(r)
  <2>1. PICK b : cr' = [cr EXCEPT ![r] = [cr[r] EXCEPT !.st = WithSecretMetadata(cr[r], b)]]
    BY <1>5 DEF ObserveCurrent
  <2>2. WithSecretMetadata(cr[r], b).orgID = cr[r].st.orgID
    BY Fields DEF WithSecretMetadata, Statuses
  <2>3. CopyLasts(r) /\ pc'[r] \notin NameLabels
    BY <1>5, <2>1, <2>2, CopiesLast, NamesAway DEF ObserveCurrent
  <2> QED
    BY <1>1, <2>3, AwayLasts
<1> QED
  BY <1>2, <1>3, <1>4, <1>5 DEF ObserveStep

(* What the status records of an organization is not its id.               *)
LEMMA StatusIds ==
    ASSUME NEW s \in Statuses
    PROVE  /\ \A type, name : Recorded(s, type, name).orgID = s.orgID
           /\ \A x : /\ [s EXCEPT !.ips = x].orgID = s.orgID
                     /\ [s EXCEPT !.enf = x].orgID = s.orgID
                     /\ [s EXCEPT !.roles = x].orgID = s.orgID
BY DEF Statuses, Recorded

LEMMA CreateLasts ==
    ASSUME TypeInv, Held, NEW r \in Replicas, CreateStep(r)
    PROVE  Lasts(r)
<1>1. UNCHANGED <<obj, fresh>> /\ pc[r] # "idle" /\ cr[r].st \in Statuses
  BY Fields DEF CreateStep, FindExisting, CreateOrganization, StoreKey, ProvisionIPs,
         EnableAPIAccessListRequired, api
<1>2. CASE FindExisting(r) \/ CreateOrganization(r)
  <2>1. CASE \E o \in OrgIds : \/ cr' = [cr EXCEPT ![r] = Adopted(cr[r], o)]
                               \/ \E x : cr' = [cr EXCEPT ![r] = [Adopted(cr[r], o)
                                                                    EXCEPT !.st.roles = x]]
    BY <1>1, <2>1, AdoptedHeld, CopiesLast, AwayLasts
  <2>2. CASE CreateFailed(r)
    BY <1>1, <2>2, NamesAway, CopiesLast, AwayLasts
  <2>3. CASE Goto(r, "post") /\ UNCHANGED cr
    BY <1>1, <2>3, NamesAway, CopiesLast, AwayLasts DEF Labels, NameLabels
  <2> QED
    BY <1>2, <2>1, <2>2, <2>3 DEF FindExisting, CreateOrganization, Live
<1>3. CASE StoreKey(r) \/ ProvisionIPs(r) \/ EnableAPIAccessListRequired(r)
  <2>1. pc'[r] \notin NameLabels
    BY <1>3, NamesAway DEF StoreKey, ProvisionIPs, EnableAPIAccessListRequired, Labels, NameLabels
  <2>2. \/ UNCHANGED cr \/ Idle(r) \/ CreateFailed(r)
        \/ \E s : s.orgID = cr[r].st.orgID /\ cr' = [cr EXCEPT ![r] = [cr[r] EXCEPT !.st = s]]
    <3>1. CASE StoreKey(r)
      BY <1>1, <3>1, StatusIds DEF StoreKey
    <3>2. CASE ProvisionIPs(r)
      BY <1>1, <3>2, StatusIds DEF ProvisionIPs
    <3>3. CASE EnableAPIAccessListRequired(r)
      BY <1>1, <3>3, StatusIds DEF EnableAPIAccessListRequired
    <3> QED
      BY <1>3, <3>1, <3>2, <3>3
  <2>3. CopyLasts(r)
    BY <2>2, CopiesLast
  <2> QED
    BY <1>1, <2>1, <2>3, AwayLasts
<1> QED
  BY <1>2, <1>3 DEF CreateStep

LEMMA UpdateLasts ==
    ASSUME TypeInv, Held, NEW r \in Replicas, UpdateStep(r)
    PROVE  Lasts(r)
<1>1. UNCHANGED <<obj, fresh>> /\ pc[r] # "idle" /\ cr[r].st \in Statuses
  BY Fields DEF UpdateStep, FetchCredentials, MigrateToKubernetes, MigrateToAWS, KeepStorage,
         DeleteOldSecret, DescribeKey, UpdateRoles, UpdateEnforcement, AddNewIPs, RemoveOldIPs, api
<1>2. pc'[r] \notin NameLabels
  <2>1. CASE FetchCredentials(r) \/ KeepStorage(r) \/ DeleteOldSecret(r) \/ DescribeKey(r)
    BY <2>1, NamesAway DEF FetchCredentials, KeepStorage, DeleteOldSecret, DescribeKey,
                               Labels, NameLabels
  <2>2. CASE MigrateToKubernetes(r) \/ MigrateToAWS(r)
    BY <2>2, NamesAway DEF MigrateToKubernetes, MigrateToAWS, Labels, NameLabels
  <2>3. CASE UpdateRoles(r) \/ UpdateEnforcement(r) \/ AddNewIPs(r) \/ RemoveOldIPs(r)
    BY <2>3, NamesAway DEF UpdateRoles, UpdateEnforcement, AddNewIPs, RemoveOldIPs, Labels,
                           NameLabels
  <2> QED
    BY <2>1, <2>2, <2>3 DEF UpdateStep
<1>3. \/ UNCHANGED cr \/ Idle(r)
      \/ \E s : s.orgID = cr[r].st.orgID /\ cr' = [cr EXCEPT ![r] = [cr[r] EXCEPT !.st = s]]
  <2>1. CASE MigrateToKubernetes(r) \/ MigrateToAWS(r)
    BY <1>1, <2>1, StatusIds DEF MigrateToKubernetes, MigrateToAWS, Moved, local
  <2>2. CASE UpdateRoles(r)
    BY <1>1, <2>2, StatusIds DEF UpdateRoles
  <2>3. CASE UpdateEnforcement(r)
    BY <1>1, <2>3, StatusIds DEF UpdateEnforcement
  <2>4. CASE RemoveOldIPs(r)
    BY <1>1, <2>4, StatusIds DEF RemoveOldIPs
  <2>5. CASE FetchCredentials(r) \/ KeepStorage(r) \/ DeleteOldSecret(r) \/ DescribeKey(r)
             \/ AddNewIPs(r)
    BY <2>5 DEF FetchCredentials, KeepStorage, DeleteOldSecret, DescribeKey, AddNewIPs, local
  <2> QED
    BY <2>1, <2>2, <2>3, <2>4, <2>5 DEF UpdateStep
<1>4. CopyLasts(r)
  BY <1>3, CopiesLast
<1> QED
  BY <1>1, <1>2, <1>4, AwayLasts

LEMMA DeleteLasts ==
    ASSUME TypeInv, Held, NEW r \in Replicas, DeleteStep(r)
    PROVE  Lasts(r)
<1>1. CASE ForceRemoveFinalizer(r)
  BY <1>1, ReleaseLasts
<1>2. CASE ~ForceRemoveFinalizer(r)
  <2>1. UNCHANGED cr
    BY <1>2 DEF DeleteStep, CleanupIPs, VerifyFirst, FetchForDelete, DeleteOrganization,
                ConfirmDeletion, DeleteSecret, GetForRelease, local
  <2>2. pc'[r] \notin NameLabels
    BY <1>2, NamesAway DEF DeleteStep, CleanupIPs, VerifyFirst, FetchForDelete,
       DeleteOrganization, ConfirmDeletion, DeleteSecret, GetForRelease, Labels, NameLabels
  <2>3. /\ UNCHANGED obj /\ pc[r] # "idle"
        /\ \A q \in Replicas : "cr" \in fresh'[q] => "cr" \in fresh[q]
    BY <1>2 DEF DeleteStep, CleanupIPs, VerifyFirst, FetchForDelete,
       DeleteOrganization, ConfirmDeletion, DeleteSecret, GetForRelease, Holds, api, TypeInv, ApiOK
  <2>4. CopyLasts(r)
    BY <2>1, CopiesLast
  <2> QED
    BY <2>2, <2>3, <2>4, RestLasts
<1> QED
  BY <1>1, <1>2

LEMMA ReconcileLasts ==
    ASSUME TypeInv, CacheExact, Held, NEW r \in Replicas, Reconcile(r)
    PROVE  Lasts(r)
BY StartLasts, MetadataLasts, AnnotateLasts, ReleaseLasts, RecordLasts, NameLasts, ObserveLasts,
   CreateLasts, UpdateLasts, DeleteLasts
   DEF Reconcile, ReconcilerStep

-----------------------------------------------------------------------------
(* The environment, and the theorem.                                       *)

NothingDropped ==
    obj.present /\ obj'.present =>
        /\ obj.ext # None => obj'.ext # None \/ UNCHANGED pc
        /\ obj.st.orgID # None =>
              \/ obj'.st.orgID # None
              \/ \E r \in Replicas : pc[r] = "restatus" /\ pc'[r] # "restatus"

LEMMA EnvironmentHeld ==
    ASSUME TypeInv, Held, Environment
    PROVE  Held' /\ NothingDropped
<1>1. UNCHANGED <<pc, cr>>
  BY DEF Environment, UserApply, UserEdit, UserClearName, UserDelete, ConsoleCreate,
         ConsoleDelete, local
<1>2. \/ UNCHANGED <<obj, fresh>>
      \/ \A r \in Replicas : "cr" \notin fresh'[r]
  BY DEF Environment, UserApply, UserEdit, UserClearName, UserDelete, Edit, ConsoleCreate,
         ConsoleDelete, api
<1>3. Held'
  BY <1>1, <1>2 DEF Held, Current
<1>4. obj.present /\ obj'.present => obj'.st = obj.st
  <2>1. /\ \A s : [obj EXCEPT !.spec = s].st = obj.st
        /\ [obj EXCEPT !.ext = None].st = obj.st
        /\ [obj EXCEPT !.deleting = TRUE].st = obj.st
        /\ ~Absent.present
    BY Fields DEF Absent, NewObject, Objects
  <2> QED
    BY <2>1 DEF Environment, UserApply, UserEdit, UserClearName, UserDelete, Edit, ConsoleCreate,
                ConsoleDelete, api
<1> QED
  BY <1>1, <1>3, <1>4 DEF NothingDropped

LEMMA NextHeld ==
    ASSUME TypeInv, CacheExact, Held, [Next]_vars
    PROVE  Held' /\ NothingDropped
<1>1. ASSUME NEW r \in Replicas, Reconcile(r)
      PROVE  Held' /\ NothingDropped
  <2>1. Lasts(r) /\ OthersRest(r)
    BY <1>1, ReconcileLasts, ReconcileRests
  <2> QED
    BY <2>1, HeldStep DEF Lasts, Retried, HasIds, NothingDropped
<1>2. ASSUME NEW r \in Replicas, CacheSync(r) \/ Crash(r)
      PROVE  Held' /\ NothingDropped
  <2>1. /\ UNCHANGED obj
        /\ \A q \in Replicas : \/ pc'[q] = "idle"
                               \/ /\ pc'[q] = pc[q] /\ cr'[q] = cr[q]
                                  /\ "cr" \in fresh'[q] => "cr" \in fresh[q]
    BY <1>2 DEF CacheSync, Crash, Idle, Goto, local, TypeInv, LocalOK, ApiOK
  <2> QED
    BY <2>1 DEF Held, Current, NameLabels, NothingDropped
<1>3. CASE UNCHANGED vars
  BY <1>3 DEF vars, api, local, Held, Current, NothingDropped
<1> QED
  BY <1>1, <1>2, <1>3, EnvironmentHeld DEF Next

LEMMA InitHeld == Init => Held
BY DEF Init, Held, NameLabels

LEMMA HeldInvariance ==
    ASSUME MaxApplies = 0
    PROVE  Spec => []Held
<1>1. TypeInv /\ CreationInv /\ Held /\ [Next]_vars => Held'
  BY NextHeld DEF CreationInv
<1> QED
  BY <1>1, InitHeld, TypeInvariance, CreationInvariance, PTL DEF Spec

LEMMA NextKept ==
    ASSUME MaxApplies = 0, Settled, Settled', OnceInv', RecordsSound, RecordsSound', Held,
           [Next]_vars, obj.present, obj'.present
    PROVE  /\ Kept(obj.ext, obj'.ext, UNCHANGED pc)
           /\ Kept(obj.st.orgID, obj'.st.orgID,
                   \E r \in Replicas : pc[r] = "restatus" /\ pc'[r] # "restatus")
<1>1. NothingDropped
  BY NextHeld DEF Settled, CreationInv
<1>2. Made \subseteq Made'
  BY SettledStep, MadeGrows
<1>3. \A o, p \in Made' : o = p
  BY DEF OnceInv, OnlyOne
<1>4. /\ obj.ext \in Made \cup {None} /\ obj.st.orgID \in Made \cup {None}
      /\ obj'.ext \in Made' \cup {None} /\ obj'.st.orgID \in Made' \cup {None}
  BY DEF RecordsSound, Within
<1> QED
  BY <1>1, <1>2, <1>3, <1>4 DEF NothingDropped, Kept

(* A recorded id is never replaced by another, and lost only where a user  *)
(* clears the name and where the retry of updateStatusWithRetry writes a   *)
(* stale status: with any number of replicas, caches that lag, failed      *)
(* calls, restarts and edits.                                              *)
THEOREM RecordsKeptCorrect ==
    ASSUME MaxApplies = 0, "404" \notin Faults, Foreign = {}
    PROVE  Spec => RecordsKept
<1>1. Spec => []Settled
  BY SettledInvariance
<1>2. Spec => []OnceInv
  BY OnceInvariance
<1>3. Spec => []RecordsSound
  BY RecordsSoundInvariance
<1>4. Spec => []Held
  BY HeldInvariance
<1>5. Settled /\ Settled' /\ OnceInv' /\ RecordsSound /\ RecordsSound' /\ Held /\ [Next]_vars
         => [obj.present /\ obj'.present =>
               /\ Kept(obj.ext, obj'.ext, UNCHANGED pc)
               /\ Kept(obj.st.orgID, obj'.st.orgID,
                       \E r \in Replicas : pc[r] = "restatus" /\ pc'[r] # "restatus")]_vars
  BY NextKept
<1> QED
  BY <1>1, <1>2, <1>3, <1>4, <1>5, PTL DEF Spec, RecordsKept

=============================================================================
