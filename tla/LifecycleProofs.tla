-------------------------- MODULE LifecycleProofs --------------------------
(***************************************************************************)
(* The organization controller implements OrgLifecycle: for every number   *)
(* of replicas, with caches that lag, calls that fail and replicas that    *)
(* crash, under the assumptions of NoDuplicate.                            *)
(*                                                                         *)
(* The creation side follows from the lock (OrganizationProofs).  What is  *)
(* to be added is that the resource outlasts its creation: nobody who      *)
(* removes the finalizer is about while a creation is under way.  Whoever  *)
(* deletes has seen the deletion (DeletesSeen), which is never taken back  *)
(* (DeletionKnown), and nobody takes the lock of a resource that is being  *)
(* deleted, for the write that takes it needs a copy that would show it    *)
(* (ForeseesDeletion).                                                     *)
(***************************************************************************)
EXTENDS OrganizationProofs

(* On the way through Delete.                                              *)
Deleting(r) ==
    \/ pc[r] \in {"unfinalize", "cleanup", "verify", "delcreds", "delete", "confirm", "clean",
                  "release", "unfinal"}
    \/ pc[r] \in {"status", "reread", "restatus"} /\ ret[r] \in {"marked", "cleaned"}

(* Observe parted the ways by the copy's deletion timestamp.               *)
OnCourse(r) ==
    /\ Deleting(r) => cr[r].deleting
    /\ pc[r] \in {"finalizer", "pending"} => ~cr[r].deleting
    /\ pc[r] = "pending" => cr[r].fin

DeletesSeen == \A r \in Replicas : OnCourse(r)

ForeseesDeletion ==
    \A r \in Replicas :
        Deciding(r) /\ "cr" \in fresh[r] /\ obj.present => cr[r].deleting = obj.deleting

DeletionKnown ==
    \A r \in Replicas : obj.present /\ (cr[r].deleting \/ cache[r].deleting) => obj.deleting

NobodyCreates == \A r \in Replicas : ~Creating(r)

(* Who has seen the deletion, or is about to start from a copy that shows  *)
(* it, has outlived every creation.                                        *)
DeletionAfter ==
    \A r \in Replicas :
        cr[r].deleting \/ (cache[r].deleting /\ cache[r].ann # "pending") => NobodyCreates

Outlasts == NobodyCreates \/ (obj.present /\ obj.fin)

LifeInv == DeletesSeen /\ ForeseesDeletion /\ DeletionKnown /\ DeletionAfter /\ Outlasts

-----------------------------------------------------------------------------
(* Steps that leave the resource in place.                                 *)

(* The replica neither begins to create nor comes to decide or to delete.  *)
Steady(r) ==
    /\ Creating(r)' => Creating(r)
    /\ Deciding(r)' => Deciding(r) /\ cr'[r].deleting = cr[r].deleting
    /\ cr'[r].deleting => cr[r].deleting
    /\ OnCourse(r)'

(* The resource stays, and so does a deletion.                             *)
InPlace ==
    /\ obj'.present = obj.present
    /\ obj.deleting => obj'.deleting
    /\ obj.fin => obj'.fin
    /\ \A q \in Replicas : cache'[q] \in {cache[q], obj'}
    /\ \A q \in Replicas : Deciding(q)' /\ "cr" \in fresh'[q]
          => "cr" \in fresh[q] /\ obj'.deleting = obj.deleting

LEMMA InPlaceStep ==
    ASSUME LifeInv, LockHeld', InPlace, \A q \in Replicas : Steady(q)
    PROVE  LifeInv'
<1>1. NobodyCreates => NobodyCreates'
  BY DEF NobodyCreates, Steady
<1>2. DeletesSeen'
  BY DEF DeletesSeen, Steady
<1>3. ForeseesDeletion'
  BY DEF LifeInv, ForeseesDeletion, InPlace, Steady
<1>4. DeletionKnown'
  BY DEF LifeInv, DeletionKnown, InPlace, Steady
<1>5. Outlasts'
  BY <1>1 DEF LifeInv, Outlasts, InPlace
<1>6. DeletionAfter'
  <2> SUFFICES ASSUME NEW q \in Replicas,
                      cr'[q].deleting \/ (cache'[q].deleting /\ cache'[q].ann # "pending")
               PROVE  NobodyCreates'
    BY DEF DeletionAfter
  <2>1. CASE cr'[q].deleting \/ cache'[q] = cache[q]
    BY <1>1, <2>1 DEF LifeInv, DeletionAfter, Steady
  <2>2. CASE cache'[q] = obj' /\ obj'.ann # "pending"
    BY <1>5, <2>2 DEF Outlasts, LockHeld, NobodyCreates
  <2> QED
    BY <2>1, <2>2 DEF InPlace
<1> QED
  BY <1>2, <1>3, <1>4, <1>5, <1>6 DEF LifeInv

(* ... are no step of the life cycle, or the end of a creation.            *)
LEMMA InPlaceLife ==
    ASSUME InPlace, \A q \in Replicas : Steady(q), UNCHANGED madeBar
    PROVE  [Lifecycle!Next]_<<phaseBar, madeBar>>
<1>1. \A q \in Replicas : Creating(q)' => Creating(q)
  BY DEF Steady
<1>2. phaseBar' = phaseBar \/ (phaseBar = "creating" /\ phaseBar' = "settled")
  BY <1>1 DEF phaseBar, InPlace
<1> QED
  BY <1>2 DEF Lifecycle!Next, Lifecycle!End

(* Steps that remove the resource.                                         *)
LEMMA GoneStep ==
    ASSUME NobodyCreates, obj.present, ~obj'.present, \A q \in Replicas : Steady(q),
           UNCHANGED madeBar
    PROVE  LifeInv' /\ Lifecycle!Vanish
<1>1. NobodyCreates'
  BY DEF NobodyCreates, Steady
<1>2. LifeInv'
  BY <1>1 DEF LifeInv, DeletesSeen, Steady, ForeseesDeletion, DeletionKnown, DeletionAfter,
              Outlasts
<1>3. phaseBar = "settled" /\ phaseBar' = "gone"
  BY DEF phaseBar, NobodyCreates
<1> QED
  BY <1>2, <1>3 DEF Lifecycle!Vanish

(* What the step of one replica leaves of the others.                      *)
LEMMA OthersSteady ==
    ASSUME LifeInv, NEW r \in Replicas, OthersRest(r), Steady(r)
    PROVE  \A q \in Replicas : Steady(q)
BY DEF LifeInv, DeletesSeen, OthersRest, Steady, OnCourse, Creating, Deciding, Deleting

-----------------------------------------------------------------------------
(* Quiet steps: the copy keeps its deletion timestamp and its finalizer,   *)
(* and only Observed takes a reconcile to Delete.                          *)

Same(r) == cr'[r].deleting = cr[r].deleting /\ cr'[r].fin = cr[r].fin

StatusLabels == {"status", "reread", "restatus"}

PlainLabels ==
    {"idle", "observe", "finish", "annotate", "get", "put", "reget", "reput", "adopted",
     "find", "post", "store", "ips", "enforce", "creds", "migrate", "purge", "describe",
     "roles", "enforcement", "addips", "removeips"}

Moves(r) ==
    \E l \in Labels \ {"finalizer", "pending"} :
        /\ Goto(r, l)
        /\ \/ l \in PlainLabels \/ Deleting(r)
           \/ l \in StatusLabels /\ ret'[r] \notin {"marked", "cleaned"}

Turns(r) ==
    \/ Idle(r)
    \/ Same(r) /\ (Moves(r) \/ \E next : Observed(r, next))

LEMMA TurnSteady ==
    ASSUME TypeInv, LifeInv, NEW r \in Replicas, LocalCalm(r), Turns(r)
    PROVE  Steady(r)
<1>1. CASE Idle(r)
  BY <1>1 DEF Idle, Goto, LocalCalm, Steady, OnCourse, Creating, Deciding, Deleting, Absent,
              NewObject, TypeInv, LocalOK
<1>2. CASE Same(r) /\ Moves(r)
  <2>1. PICK l \in Labels \ {"finalizer", "pending"} :
          /\ pc'[r] = l
          /\ \/ l \in PlainLabels \/ Deleting(r)
             \/ l \in StatusLabels /\ ret'[r] \notin {"marked", "cleaned"}
    BY <1>2 DEF Moves, Goto, TypeInv, LocalOK
  <2>2. Deleting(r)' => Deleting(r)
    BY <2>1 DEF Deleting, PlainLabels, StatusLabels
  <2>3. OnCourse(r)'
    BY <1>2, <2>1, <2>2 DEF OnCourse, Same, LifeInv, DeletesSeen
  <2> QED
    BY <1>2, <2>3 DEF LocalCalm, Steady, Same
<1>3. CASE Same(r) /\ \E next : Observed(r, next)
  <2>1. IF cr[r].deleting THEN pc'[r] \in {"unfinalize", "cleanup"} ELSE pc'[r] = "finalizer"
    BY <1>3 DEF Observed, Goto, TypeInv, LocalOK
  <2>2. OnCourse(r)'
    BY <1>3, <2>1 DEF OnCourse, Deleting, Same
  <2> QED
    BY <1>3, <2>2 DEF LocalCalm, Steady, Same
<1> QED
  BY <1>1, <1>2, <1>3 DEF Turns

(* What the controller writes into its copy.                               *)
LEMMA SameMarks ==
    ASSUME TypeInv, NEW r \in Replicas,
           \/ UNCHANGED cr
           \/ \E s : cr' = [cr EXCEPT ![r] = [cr[r] EXCEPT !.st = s]]
           \/ \E e : cr' = [cr EXCEPT ![r] = [cr[r] EXCEPT !.ext = e]]
           \/ \E a : cr' = [cr EXCEPT ![r] = [cr[r] EXCEPT !.ann = a]]
           \/ \E o : cr' = [cr EXCEPT ![r] = Adopted(cr[r], o)]
           \/ \E o, s : cr' = [cr EXCEPT ![r] = [Adopted(cr[r], o) EXCEPT !.st.roles = s]]
    PROVE  Same(r)
<1> DEFINE Alike(c) == c.deleting = cr[r].deleting /\ c.fin = cr[r].fin
<1>1. cr[r] \in Objects
  BY Fields
<1>2. /\ \A s : Alike([cr[r] EXCEPT !.st = s])
      /\ \A e : Alike([cr[r] EXCEPT !.ext = e])
      /\ \A a : Alike([cr[r] EXCEPT !.ann = a])
      /\ \A o : Alike(Adopted(cr[r], o))
      /\ \A o, s : Alike([Adopted(cr[r], o) EXCEPT !.st.roles = s])
  BY <1>1 DEF Adopted, Objects
<1> HIDE DEF Alike
<1>3. UNCHANGED cr \/ \E c : Alike(c) /\ cr' = [cr EXCEPT ![r] = c]
  BY <1>2
<1> QED
  BY <1>3 DEF Alike, Same, TypeInv, LocalOK

LEMMA SharedMoves ==
    ASSUME TypeInv, NEW r \in Replicas,
           \/ Finish(r)
           \/ \E caller : PersistName(r, caller)
           \/ \E caller : PutStatus(r, caller) /\ (Deleting(r) \/ caller \in {"created", "updated"})
           \/ \E c, result : Created(r, c, result)
           \/ \E l \in Labels \ {"finalizer", "pending"} :
                 Goto(r, l) /\ (l \in PlainLabels \/ Deleting(r))
    PROVE  Moves(r)
<1>1. CASE Finish(r) \/ \E caller : PersistName(r, caller)
  BY <1>1 DEF Finish, PersistName, Moves, PlainLabels, Labels
<1>2. CASE \E c, result : Created(r, c, result)
  BY <1>2 DEF Created, Moves, PlainLabels, Labels
<1>3. CASE \E caller : PutStatus(r, caller) /\ (Deleting(r) \/ caller \in {"created", "updated"})
  <2>1. /\ Goto(r, "status")
        /\ Deleting(r) \/ ret'[r] \notin {"marked", "cleaned"}
    BY <1>3 DEF PutStatus, TypeInv, LocalOK
  <2> QED
    BY <2>1 DEF Moves, StatusLabels, Labels
<1> QED
  BY <1>1, <1>2, <1>3 DEF Moves

LEMMA CreatedSame ==
    ASSUME TypeInv, NEW r \in Replicas, NEW result, Created(r, cr[r], result)
    PROVE  Turns(r)
<1>1. Same(r)
  BY SameMarks DEF Created
<1> QED
  BY <1>1, SharedMoves DEF Turns

LEMMA ObserveTurns ==
    ASSUME TypeInv, NEW r \in Replicas, ObserveStep(r)
    PROVE  Turns(r)
<1>1. CASE Restore(r)
  <2>1. cr' = [cr EXCEPT ![r] = [cr[r] EXCEPT !.ext = cr[r].st.orgID]]
    BY <1>1 DEF Restore, TypeInv, LocalOK
  <2> QED
    BY <1>1, <2>1, SameMarks, SharedMoves DEF Restore, Turns
<1>2. CASE SearchByName(r)
  <2>1. Same(r)
    BY <1>2, SameMarks DEF SearchByName
  <2>2. Finish(r) \/ PersistName(r, "adopt") \/ Observed(r, "create")
    BY <1>2 DEF SearchByName
  <2> QED
    BY <2>1, <2>2, SharedMoves DEF Turns
<1>3. CASE ObserveDeleting(r)
  BY <1>3, SameMarks DEF ObserveDeleting, Turns
<1>4. CASE ObserveCurrent(r)
  <2>1. \E s : cr' = [cr EXCEPT ![r] = [cr[r] EXCEPT !.st = s]]
    BY <1>4 DEF ObserveCurrent, TypeInv, LocalOK
  <2>2. \E next : Observed(r, next)
    BY <1>4 DEF ObserveCurrent
  <2> QED
    BY <2>1, <2>2, SameMarks DEF Turns
<1> QED
  BY <1>1, <1>2, <1>3, <1>4 DEF ObserveStep

LEMMA CreateTurns ==
    ASSUME TypeInv, NEW r \in Replicas, CreateStep(r)
    PROVE  Turns(r)
<1>1. CASE CreateFailed(r)
  BY <1>1, CreatedSame DEF CreateFailed
<1>2. CASE Idle(r)
  BY <1>2 DEF Turns
<1>3. CASE FindExisting(r) /\ ~CreateFailed(r)
  <2>1. Same(r)
    BY <1>3, SameMarks DEF FindExisting
  <2>2. PersistName(r, "reuse") \/ Goto(r, "post")
    BY <1>3 DEF FindExisting
  <2> QED
    BY <2>1, <2>2, SharedMoves DEF Turns, PlainLabels, Labels
<1>4. CASE CreateOrganization(r) /\ ~CreateFailed(r)
  <2>1. Same(r)
    BY <1>4, SameMarks DEF CreateOrganization
  <2>2. PersistName(r, "created")
    BY <1>4 DEF CreateOrganization
  <2> QED
    BY <2>1, <2>2, SharedMoves DEF Turns
<1>5. CASE StoreKey(r) /\ ~CreateFailed(r) /\ ~Idle(r)
  <2>1. Goto(r, "ips") /\ \E s : cr' = [cr EXCEPT ![r] = [cr[r] EXCEPT !.st = s]]
    BY <1>5 DEF StoreKey, TypeInv, LocalOK
  <2> QED
    BY <2>1, SameMarks, SharedMoves DEF Turns, PlainLabels, Labels
<1>6. CASE ProvisionIPs(r)
  <2>1. UNCHANGED cr \/ \E s : cr' = [cr EXCEPT ![r] = [cr[r] EXCEPT !.st = s]]
    BY <1>6 DEF ProvisionIPs, TypeInv, LocalOK
  <2>2. Goto(r, "enforce")
    BY <1>6 DEF ProvisionIPs
  <2> QED
    BY <2>1, <2>2, SameMarks, SharedMoves DEF Turns, PlainLabels, Labels
<1>7. CASE EnableAPIAccessListRequired(r)
  <2>1. UNCHANGED cr \/ \E s : cr' = [cr EXCEPT ![r] = [cr[r] EXCEPT !.st = s]]
    BY <1>7 DEF EnableAPIAccessListRequired, TypeInv, LocalOK
  <2>2. PutStatus(r, "created")
    BY <1>7 DEF EnableAPIAccessListRequired
  <2> QED
    BY <2>1, <2>2, SameMarks, SharedMoves DEF Turns
<1> QED
  BY <1>1, <1>2, <1>3, <1>4, <1>5, <1>6, <1>7 DEF CreateStep

LEMMA UpdateTurns ==
    ASSUME TypeInv, NEW r \in Replicas, UpdateStep(r)
    PROVE  Turns(r)
<1>1. CASE Idle(r)
  BY <1>1 DEF Turns
<1>2. CASE ~Idle(r)
  <2>1. UNCHANGED cr \/ \E s : cr' = [cr EXCEPT ![r] = [cr[r] EXCEPT !.st = s]]
    <3>1. CASE FetchCredentials(r) \/ KeepStorage(r) \/ DeleteOldSecret(r) \/ DescribeKey(r)
               \/ AddNewIPs(r)
      BY <3>1 DEF FetchCredentials, KeepStorage, DeleteOldSecret, DescribeKey, AddNewIPs, local
    <3>2. CASE MigrateToKubernetes(r) \/ MigrateToAWS(r)
      BY <1>2, <3>2 DEF MigrateToKubernetes, MigrateToAWS, Moved, local, TypeInv, LocalOK
    <3>3. CASE UpdateRoles(r) \/ UpdateEnforcement(r)
      BY <3>3 DEF UpdateRoles, UpdateEnforcement, TypeInv, LocalOK
    <3>4. CASE RemoveOldIPs(r)
      BY <3>4 DEF RemoveOldIPs, TypeInv, LocalOK
    <3> QED
      BY <3>1, <3>2, <3>3, <3>4 DEF UpdateStep
  <2>2. \/ \E l \in PlainLabels : Goto(r, l)
        \/ PutStatus(r, "updated") \/ Finish(r)
    <3>1. CASE FetchCredentials(r) \/ KeepStorage(r) \/ DeleteOldSecret(r) \/ DescribeKey(r)
      BY <3>1 DEF FetchCredentials, KeepStorage, DeleteOldSecret, DescribeKey, PlainLabels
    <3>2. CASE MigrateToKubernetes(r) \/ MigrateToAWS(r)
      BY <1>2, <3>2 DEF MigrateToKubernetes, MigrateToAWS, PlainLabels
    <3>3. CASE UpdateRoles(r) \/ UpdateEnforcement(r)
      BY <3>3 DEF UpdateRoles, UpdateEnforcement, PlainLabels
    <3>4. CASE AddNewIPs(r) \/ RemoveOldIPs(r)
      BY <3>4 DEF AddNewIPs, RemoveOldIPs, UpdateDone, PlainLabels
    <3> QED
      BY <3>1, <3>2, <3>3, <3>4 DEF UpdateStep
  <2>3. PlainLabels \subseteq Labels \ {"finalizer", "pending"}
    BY DEF PlainLabels, Labels
  <2> QED
    BY <2>1, <2>2, <2>3, SameMarks, SharedMoves DEF Turns
<1> QED
  BY <1>1, <1>2

LEMMA DeleteTurns ==
    ASSUME TypeInv, NEW r \in Replicas, DeleteStep(r)
    PROVE  Turns(r)
<1>1. Deleting(r) /\ UNCHANGED cr
  BY DEF DeleteStep, CleanupIPs, VerifyFirst, FetchForDelete, DeleteOrganization,
         ConfirmDeletion, DeleteSecret, GetForRelease, ForceRemoveFinalizer, local, Deleting
<1>2. \/ \E l \in {"clean", "delcreds", "delete", "confirm", "unfinal"} : Goto(r, l)
      \/ (\E caller : PutStatus(r, caller)) \/ Finish(r)
  BY DEF DeleteStep, CleanupIPs, VerifyFirst, FetchForDelete, DeleteOrganization,
         ConfirmDeletion, DeleteSecret, GetForRelease, ForceRemoveFinalizer
<1> QED
  BY <1>1, <1>2, SameMarks, SharedMoves DEF Turns, Labels

LEMMA StatusTurns ==
    ASSUME TypeInv, NEW r \in Replicas,
           UpdateStatus(r) \/ RereadForStatus(r) \/ RetryStatus(r)
    PROVE  Turns(r)
<1>1. pc[r] \in StatusLabels
  BY DEF UpdateStatus, RereadForStatus, RetryStatus, StatusLabels
<1>2. CASE \E ok : StatusPut(r, ok)
  <2>1. CASE ret[r] = "created"
    BY <1>2, <2>1, CreatedSame DEF StatusPut
  <2>2. CASE ret[r] \in {"marked", "cleaned"}
    <3>1. Deleting(r)
      BY <1>1, <2>2 DEF Deleting, StatusLabels
    <3>2. UNCHANGED cr /\ \E l \in {"verify", "release"} : Goto(r, l)
      BY <1>2, <2>2 DEF StatusPut
    <3> QED
      BY <3>1, <3>2, SameMarks, SharedMoves DEF Turns, Labels
  <2>3. CASE ret[r] \notin {"created", "marked", "cleaned"}
    <3>1. Finish(r) /\ UNCHANGED cr
      BY <1>2, <2>3 DEF StatusPut
    <3> QED
      BY <3>1, SameMarks, SharedMoves DEF Turns
  <2> QED
    BY <2>1, <2>2, <2>3
<1>3. CASE UNCHANGED <<cr, ret>> /\ \E l \in {"reread", "restatus"} : Goto(r, l)
  <2>1. Deleting(r) \/ ret'[r] \notin {"marked", "cleaned"}
    BY <1>1, <1>3 DEF Deleting, StatusLabels
  <2>2. Moves(r)
    BY <1>3, <2>1 DEF Moves, StatusLabels, Labels
  <2> QED
    BY <1>3, <2>2, SameMarks DEF Turns
<1> QED
  BY <1>2, <1>3 DEF UpdateStatus, RereadForStatus, RetryStatus

LEMMA NameTurns ==
    ASSUME TypeInv, NEW r \in Replicas, GetLatest(r) \/ PutName(r) \/ AdoptStatus(r)
    PROVE  Turns(r)
<1>1. CASE PersistFailed(r)
  <2>1. CASE CreateFailed(r)
    BY <2>1, CreatedSame DEF CreateFailed
  <2>2. CASE Finish(r) /\ UNCHANGED cr
    BY <2>2, SameMarks, SharedMoves DEF Turns
  <2> QED
    BY <1>1, <2>1, <2>2 DEF PersistFailed
<1>2. CASE UNCHANGED cr /\ \E next : Observed(r, next)
  BY <1>2, SameMarks DEF Turns
<1>3. CASE UNCHANGED cr /\ \E l \in PlainLabels : Goto(r, l)
  <2>1. PlainLabels \subseteq Labels \ {"finalizer", "pending"}
    BY DEF PlainLabels, Labels
  <2> QED
    BY <1>3, <2>1, SameMarks, SharedMoves DEF Turns
<1>4. CASE NamePersisted(r)
  <2>1. \/ UNCHANGED cr /\ \E next : Observed(r, next)
        \/ UNCHANGED cr /\ \E l \in PlainLabels : Goto(r, l)
    BY <1>4 DEF NamePersisted, PlainLabels
  <2> QED
    BY <2>1, <1>2, <1>3
<1>5. CASE Created(r, cr[r], "succeeded")
  BY <1>5, CreatedSame
<1>6. CASE GetLatest(r)
  <2>1. PersistFailed(r) \/ (UNCHANGED cr /\ \E l \in PlainLabels : Goto(r, l))
    BY <1>6 DEF GetLatest, PlainLabels
  <2> QED
    BY <2>1, <1>1, <1>3
<1>7. CASE PutName(r)
  <2>1. \/ PersistFailed(r) \/ NamePersisted(r)
        \/ (UNCHANGED cr /\ \E l \in PlainLabels : Goto(r, l))
    BY <1>7 DEF PutName, PlainLabels
  <2> QED
    BY <2>1, <1>1, <1>3, <1>4
<1>8. CASE AdoptStatus(r)
  <2>1. \/ PersistFailed(r) \/ Created(r, cr[r], "succeeded")
        \/ (UNCHANGED cr /\ \E next : Observed(r, next))
    BY <1>8 DEF AdoptStatus
  <2> QED
    BY <2>1, <1>1, <1>2, <1>5
<1> QED
  BY <1>6, <1>7, <1>8

LEMMA QuietTurns ==
    ASSUME TypeInv, NEW r \in Replicas, Reconcile(r), ~LockStep(r)
    PROVE  Turns(r)
<1>1. CASE ReconcilerStep(r)
  <2>1. CASE UpdateManagedStatus(r)
    BY <2>1 DEF UpdateManagedStatus, Turns
  <2> QED
    BY <1>1, <2>1, StatusTurns, NameTurns DEF ReconcilerStep, LockStep
<1> QED
  BY <1>1, ObserveTurns, CreateTurns, UpdateTurns, DeleteTurns DEF Reconcile

LEMMA QuietInPlace ==
    ASSUME TypeInv, NEW r \in Replicas, IsQuiet(r)
    PROVE  InPlace
<1>1. CASE ApiCalm
  BY <1>1 DEF ApiCalm, InPlace
<1>2. CASE Patch(r)
  <2>1. PICK mine, new :
          /\ mine \in SUBSET {"cr", "latest"}
          /\ Store(r, mine, new)
          /\ new.present /\ new.deleting = obj.deleting /\ new.fin = obj.fin
          /\ "cr" \notin mine \/ ~Deciding(r)'
    BY <1>2 DEF Patch
  <2>2. obj' = new /\ obj.present
    BY <1>2, <2>1 DEF Patch, Store
  <2>3. \A q \in Replicas : cache'[q] \in {cache[q], obj'}
    BY <2>1 DEF Store, TypeInv, ApiOK
  <2>4. \A q \in Replicas : Deciding(q)' /\ "cr" \in fresh'[q] => "cr" \in fresh[q]
    BY <2>1 DEF Store, TypeInv, ApiOK
  <2> QED
    BY <2>1, <2>2, <2>3, <2>4 DEF InPlace, TypeInv, ApiOK, Objects
<1> QED
  BY <1>1, <1>2 DEF IsQuiet

LEMMA QuietSteady ==
    ASSUME TypeInv, LifeInv, NEW r \in Replicas, Reconcile(r), ~LockStep(r)
    PROVE  InPlace /\ \A q \in Replicas : Steady(q)
<1>1. IsQuiet(r)
  BY ReconcileQuiet
<1>2. Steady(r)
  BY <1>1, QuietTurns, TurnSteady DEF IsQuiet
<1> QED
  BY <1>1, <1>2, QuietInPlace, OthersSteady DEF IsQuiet, LocalCalm

-----------------------------------------------------------------------------
(* What the steps do to the organizations.                                 *)

Promised == LifeInv' /\ [Lifecycle!Next]_<<phaseBar, madeBar>>

LEMMA InPlacePromised ==
    ASSUME LifeInv, CreationInv', InPlace, \A q \in Replicas : Steady(q), UNCHANGED madeBar
    PROVE  Promised
BY InPlaceStep, InPlaceLife DEF Promised, CreationInv

(* Make and Destroy leave the phase alone.                                 *)
LEMMA SamePhase ==
    ASSUME UNCHANGED obj, NEW r \in Replicas,
           \A q \in Replicas \ {r} : pc'[q] = pc[q] /\ ret'[q] = ret[q],
           Creating(r)' <=> Creating(r)
    PROVE  UNCHANGED phaseBar
<1>1. \A q \in Replicas : Creating(q)' <=> Creating(q)
  BY DEF Creating
<1> QED
  BY <1>1 DEF phaseBar

LEMMA CreateOrganizationPromised ==
    ASSUME TypeInv, CreationInv, CreationInv', DuplicateInv, LifeInv, NEW r \in Replicas,
           CreateOrganization(r)
    PROVE  Promised
<1>1. InPlace /\ \A q \in Replicas : Steady(q)
  <2>1. Reconcile(r) /\ ~LockStep(r)
    BY DEF Reconcile, CreateStep, CreateOrganization, LockStep, Start, AddFinalizer,
           RemoveFinalizer, ForceRemoveFinalizer, MarkPending, UpdateCriticalAnnotations
  <2> QED
    BY <2>1, QuietSteady
<1>2. PICK o \in OrgIds \ Foreign :
         /\ orgs[o] = "free"
         /\ orgs' = [orgs EXCEPT ![o] = "live"] \/ UNCHANGED orgs
  BY DEF CreateOrganization
<1>3. CASE UNCHANGED orgs
  BY <1>1, <1>3, InPlacePromised DEF madeBar
<1>4. CASE orgs' = [orgs EXCEPT ![o] = "live"]
  <2>1. Creating(r) /\ Creating(r)'
    BY DEF CreateOrganization, PersistName, CreateFailed, Created, Goto, Creating, TypeInv,
           LocalOK
  <2>2. \A q \in Replicas \ {r} : pc'[q] = pc[q] /\ ret'[q] = ret[q]
    BY DEF CreateOrganization, PersistName, CreateFailed, Created, Goto, TypeInv, LocalOK
  <2>3. UNCHANGED phaseBar
    BY <2>1, <2>2, SamePhase DEF CreateOrganization, api
  <2>4. phaseBar = "creating"
    BY <2>1 DEF phaseBar, LifeInv, Outlasts, NobodyCreates
  <2>5. Lifecycle!Alive = {}
    <3>1. Ours = {}
      BY DEF CreateOrganization, DuplicateInv, NothingToDuplicate
    <3> QED
      BY <3>1 DEF Lifecycle!Alive, madeBar, Ours, Live
  <2>6. madeBar[o] = "free" /\ madeBar' = [madeBar EXCEPT ![o] = "live"]
    BY <1>2, <1>4 DEF madeBar, TypeInv, AtlasOK
  <2>7. Lifecycle!Make(o)
    BY <2>3, <2>4, <2>5, <2>6 DEF Lifecycle!Make
  <2>8. LifeInv'
    BY <1>1, InPlaceStep DEF CreationInv
  <2> QED
    BY <2>7, <2>8 DEF Promised, Lifecycle!Next
<1> QED
  BY <1>2, <1>3, <1>4

LEMMA DeleteOrganizationPromised ==
    ASSUME TypeInv, CreationInv, CreationInv', LifeInv, NEW r \in Replicas,
           DeleteOrganization(r)
    PROVE  Promised
<1> DEFINE o == cr[r].ext
<1>1. InPlace /\ \A q \in Replicas : Steady(q)
  <2>1. Reconcile(r) /\ ~LockStep(r)
    BY DEF Reconcile, DeleteStep, DeleteOrganization, LockStep, Start, AddFinalizer,
           RemoveFinalizer, ForceRemoveFinalizer, MarkPending, UpdateCriticalAnnotations
  <2> QED
    BY <2>1, QuietSteady
<1>2. UNCHANGED orgs \/ (orgs[o] = "live" /\ orgs' = [orgs EXCEPT ![o] = "gone"])
  <2>1. PICK truth \in KeyAnswers(key[r], o) :
           \E rep \in Replies(truth) : IF rep.done THEN Deleted(o) ELSE UNCHANGED atlas
    BY DEF DeleteOrganization
  <2>2. CASE UNCHANGED atlas
    BY <2>2 DEF atlas
  <2>3. CASE Deleted(o) /\ \E rep \in Replies(truth) : rep.done
    <3>1. truth = "2xx"
      BY <2>3, DoneTruly
    <3>2. orgs[o] = "live"
      BY <3>1 DEF KeyAnswers, KeyAnswer
    <3> QED
      BY <2>3, <3>2 DEF Deleted
  <2> QED
    BY <2>1, <2>2, <2>3
<1>3. CASE UNCHANGED madeBar
  BY <1>1, <1>3, InPlacePromised
<1>4. CASE ~UNCHANGED madeBar
  <2>1. o \in OrgIds \ Foreign /\ madeBar[o] = "live"
        /\ madeBar' = [madeBar EXCEPT ![o] = "gone"]
    BY <1>2, <1>4 DEF madeBar, TypeInv, AtlasOK
  <2>2. /\ ~Creating(r) /\ ~Creating(r)'
        /\ \A q \in Replicas \ {r} : pc'[q] = pc[q] /\ ret'[q] = ret[q]
    BY DEF DeleteOrganization, PutStatus, Goto, Creating, TypeInv, LocalOK
  <2>3. UNCHANGED phaseBar
    BY <2>2, SamePhase DEF DeleteOrganization, api
  <2>4. Lifecycle!Destroy(o)
    BY <2>1, <2>3 DEF Lifecycle!Destroy
  <2>5. LifeInv'
    BY <1>1, InPlaceStep DEF CreationInv
  <2> QED
    BY <2>1, <2>4, <2>5 DEF Promised, Lifecycle!Next
<1> QED
  BY <1>3, <1>4

LEMMA QuietPromised ==
    ASSUME TypeInv, CreationInv, CreationInv', DuplicateInv, LifeInv, NEW r \in Replicas,
           Reconcile(r), ~LockStep(r)
    PROVE  Promised
<1>1. CASE CreateOrganization(r)
  BY <1>1, CreateOrganizationPromised
<1>2. CASE DeleteOrganization(r)
  BY <1>2, DeleteOrganizationPromised
<1>3. CASE ~CreateOrganization(r) /\ ~DeleteOrganization(r)
  <2>1. UNCHANGED orgs
    <3>1. CASE CreateStep(r)
      BY <1>3, <3>1, CreateElsewhere DEF CreateStep, FindExisting, atlas
    <3>2. CASE DeleteStep(r)
      BY <1>3, <3>2 DEF DeleteStep, CleanupIPs, VerifyFirst, FetchForDelete, ConfirmDeletion,
                        DeleteSecret, GetForRelease, ForceRemoveFinalizer, atlas
    <3> QED
      BY <3>1, <3>2, ReconcilerElsewhere, ObserveElsewhere, UpdateElsewhere DEF Reconcile
  <2> QED
    BY <2>1, QuietSteady, InPlacePromised DEF madeBar
<1> QED
  BY <1>1, <1>2, <1>3

-----------------------------------------------------------------------------
(* The steps that take or release the lock, or touch the finalizer.        *)

LEMMA LockStepMade ==
    ASSUME NEW r \in Replicas, LockStep(r)
    PROVE  UNCHANGED madeBar
BY DEF LockStep, Start, AddFinalizer, RemoveFinalizer, ForceRemoveFinalizer, MarkPending,
       UpdateCriticalAnnotations, atlas, madeBar

(* A reconcile starts from a copy; what that copy shows of a deletion is   *)
(* true, and not shown before every creation is over.                      *)
LEMMA StartPromised ==
    ASSUME TypeInv, CreationInv, CreationInv', LifeInv, NEW r \in Replicas, Start(r)
    PROVE  Promised
<1>1. /\ OthersRest(r) /\ UNCHANGED <<obj, cache>>
      /\ cr'[r] = cache[r] /\ cache[r].ann # "pending" /\ pc'[r] = "observe"
      /\ \A q \in Replicas \ {r} : fresh'[q] = fresh[q]
      /\ "cr" \in fresh'[r] => "cache" \in fresh[r]
      /\ ~Creating(r)
  BY DEF Start, Holds, Goto, Creating, OthersRest, TypeInv, LocalOK, ApiOK
<1>2. \A q \in Replicas : Creating(q)' <=> Creating(q)
  BY <1>1 DEF OthersRest, Creating
<1>3. NobodyCreates' <=> NobodyCreates
  BY <1>2 DEF NobodyCreates
<1>4. \A q \in Replicas : OnCourse(q)'
  BY <1>1 DEF OthersRest, OnCourse, Deleting, LifeInv, DeletesSeen
<1>5. ForeseesDeletion'
  <2>1. \A q \in Replicas \ {r} : Deciding(q)' => Deciding(q)
    BY <1>1 DEF OthersRest, Deciding
  <2> QED
    BY <1>1, <2>1 DEF OthersRest, LifeInv, ForeseesDeletion, CreationInv, CacheExact
<1>6. DeletionKnown'
  BY <1>1 DEF OthersRest, LifeInv, DeletionKnown
<1>7. DeletionAfter' /\ Outlasts'
  BY <1>1, <1>3 DEF OthersRest, LifeInv, DeletionAfter, Outlasts
<1>8. UNCHANGED phaseBar
  BY <1>1, <1>2 DEF phaseBar
<1> QED
  BY <1>4, <1>5, <1>6, <1>7, <1>8, LockStepMade DEF Promised, LifeInv, DeletesSeen, LockStep

(* client.Update of the working copy, as the life cycle sees it.           *)
LEMMA PutManagedMarks ==
    ASSUME TypeInv, NEW r \in Replicas, NEW out \in Outcomes, NEW new \in Objects,
           PutManaged(r, out, new)
    PROVE  /\ out = "ok" => cr'[r].deleting = new.deleting /\ cr'[r].fin = new.fin
           /\ out # "ok" => UNCHANGED cr
           /\ \A q \in Replicas \ {r} : cr'[q] = cr[q]
<1>1. [new EXCEPT !.st = Overlay(obj.st, cr[r].st)].deleting = new.deleting
      /\ [new EXCEPT !.st = Overlay(obj.st, cr[r].st)].fin = new.fin
  BY DEF Objects
<1> QED
  BY <1>1 DEF PutManaged, TypeInv, LocalOK

LEMMA AsStoredMarks ==
    ASSUME TypeInv, NEW r \in Replicas
    PROVE  /\ AsStored([cr[r] EXCEPT !.fin = TRUE]).deleting = cr[r].deleting
           /\ AsStored([cr[r] EXCEPT !.fin = TRUE]).fin = TRUE
           /\ AsStored([cr[r] EXCEPT !.ann = "pending"]).deleting = cr[r].deleting
           /\ AsStored([cr[r] EXCEPT !.ann = "pending"]).fin = cr[r].fin
BY Fields DEF AsStored, Objects

LEMMA AddFinalizerPromised ==
    ASSUME TypeInv, CreationInv, CreationInv', LifeInv, NEW r \in Replicas, AddFinalizer(r)
    PROVE  Promised
<1> DEFINE new == AsStored([cr[r] EXCEPT !.fin = TRUE])
<1>1. pc[r] = "finalizer" /\ Deciding(r) /\ ~cr[r].deleting
  BY DEF AddFinalizer, Deciding, LifeInv, DeletesSeen, OnCourse
<1>2. /\ cr'[r].deleting = cr[r].deleting
      /\ Finish(r) \/ (Onward(r) /\ cr'[r].fin)
  <2>1. CASE UNCHANGED cr /\ (Finish(r) \/ (Onward(r) /\ cr[r].fin))
    BY <2>1
  <2>2. CASE \E out \in Outcomes : PutManaged(r, out, new)
                                   /\ IF out = "ok" THEN Onward(r) ELSE Finish(r)
    <3>1. new \in Objects /\ new.deleting = cr[r].deleting /\ new.fin
      BY AsStoredTypes, AsStoredMarks
    <3> HIDE DEF new
    <3> QED
      BY <2>2, <3>1, PutManagedMarks
  <2> QED
    BY <2>1, <2>2 DEF AddFinalizer
<1>3. Steady(r)
  <2>1. LocalCalm(r)
    BY AddFinalizerCalm
  <2>2. pc'[r] \in {"pending", "creds", "finish"} /\ (pc'[r] = "pending" => cr'[r].fin)
    BY <1>2 DEF Onward, Finish, Goto, TypeInv, LocalOK
  <2> QED
    BY <1>1, <1>2, <2>1, <2>2 DEF LocalCalm, Steady, OnCourse, Deleting
<1>4. InPlace
  <2>1. CASE UNCHANGED api
    BY <2>1 DEF api, InPlace
  <2>2. CASE obj.present /\ "cr" \in fresh[r] /\ \E mine \in SUBSET {"cr"} : Store(r, mine, new)
    <3>1. cr[r].present /\ cr[r].deleting = obj.deleting
      BY <1>1, <2>2 DEF CreationInv, ForeseesNone, LifeInv, ForeseesDeletion
    <3>2. new.present /\ new.deleting = obj.deleting /\ new.fin
      BY <3>1, AsStoredAnn, AsStoredMarks
    <3> HIDE DEF new
    <3>3. PICK mine \in SUBSET {"cr"} : Store(r, mine, new)
      BY <2>2
    <3>4. obj' = new
      BY <3>3 DEF Store
    <3>5. \A q \in Replicas : cache'[q] \in {cache[q], obj'}
      BY <3>3 DEF Store, TypeInv, ApiOK
    <3>6. \A q \in Replicas : "cr" \in fresh'[q] => "cr" \in fresh[q]
      BY <2>2, <3>3 DEF Store, TypeInv, ApiOK
    <3> QED
      BY <2>2, <3>2, <3>4, <3>5, <3>6 DEF InPlace, TypeInv, ApiOK, Objects
  <2> QED
    BY <2>1, <2>2, AddFinalizerCalm
<1>5. OthersRest(r)
  BY AddFinalizerCalm DEF LocalCalm
<1> QED
  BY <1>3, <1>4, <1>5, OthersSteady, InPlacePromised, LockStepMade DEF LockStep

(* Whoever removes the finalizer has seen the deletion: nobody creates.    *)
LEMMA RemoveFinalizerPromised ==
    ASSUME TypeInv, CreationInv, CreationInv', LifeInv, NEW r \in Replicas,
           RemoveFinalizer(r) \/ ForceRemoveFinalizer(r)
    PROVE  Promised
<1>1. Deleting(r) /\ cr[r].deleting
  BY DEF RemoveFinalizer, ForceRemoveFinalizer, Deleting, LifeInv, DeletesSeen, OnCourse
<1>2. \A q \in Replicas : Steady(q)
  <2>1. LocalCalm(r) /\ Finish(r) /\ UNCHANGED cr
    BY RemoveFinalizerCalm DEF RemoveFinalizer, ForceRemoveFinalizer
  <2>2. Turns(r)
    BY <2>1, SameMarks, SharedMoves DEF Turns
  <2> QED
    BY <2>1, <2>2, TurnSteady, OthersSteady DEF LocalCalm
<1>3. UNCHANGED madeBar
  BY LockStepMade DEF LockStep
<1>4. CASE UNCHANGED api
  <2>1. InPlace
    BY <1>4 DEF api, InPlace
  <2> QED
    BY <1>2, <1>3, <2>1, InPlacePromised
<1>5. CASE obj.present /\ Store(r, {}, Unfinalized(obj))
  <2>1. NobodyCreates /\ obj.deleting
    BY <1>1, <1>5 DEF LifeInv, DeletionAfter, DeletionKnown
  <2>2. ~obj'.present
    BY <1>5, <2>1 DEF Store, Unfinalized, Absent, NewObject
  <2> QED
    BY <1>2, <1>3, <1>5, <2>1, <2>2, GoneStep DEF Promised, Lifecycle!Next
<1> QED
  BY <1>4, <1>5, RemoveFinalizerCalm

(* The lock is taken: nobody has seen a deletion, nobody creates.          *)
LEMMA MarkPendingPromised ==
    ASSUME TypeInv, CreationInv, CreationInv', LifeInv, NEW r \in Replicas, MarkPending(r)
    PROVE  Promised
<1> DEFINE new == AsStored([cr[r] EXCEPT !.ann = "pending"])
<1>1. pc[r] = "pending" /\ Deciding(r) /\ ~Creating(r) /\ ~cr[r].deleting /\ cr[r].fin
  BY DEF MarkPending, Deciding, Creating, LifeInv, DeletesSeen, OnCourse
<1>2. /\ \A q \in Replicas \ {r} : pc'[q] = pc[q] /\ ret'[q] = ret[q]
      /\ pc'[r] = "find" \/ (Finish(r) /\ pc'[r] = "finish")
  BY DEF MarkPending, Finish, Goto, TypeInv, LocalOK
<1>3. UNCHANGED madeBar
  BY LockStepMade DEF LockStep
<1>4. CASE UNCHANGED <<api, cr>> /\ Finish(r)
  <2>1. InPlace
    BY <1>4 DEF api, InPlace
  <2>2. LocalCalm(r) /\ Turns(r)
    BY <1>2, <1>4, FinishCalm, SameMarks, SharedMoves DEF LocalCalm, OthersRest, Turns
  <2> QED
    BY <1>3, <2>1, <2>2, TurnSteady, OthersSteady, InPlacePromised DEF LocalCalm
<1>5. CASE /\ obj.present /\ "cr" \in fresh[r]
           /\ \E out \in Outcomes \ {"fail"} : PutManaged(r, out, new)
  <2>1. /\ cr[r].present /\ obj.ann # "pending"
        /\ ~obj.deleting
    BY <1>1, <1>5 DEF CreationInv, ForeseesNone, LifeInv, ForeseesDeletion
  <2>2. new \in Objects /\ new.present /\ ~new.deleting /\ new.fin /\ new # obj
    BY <1>1, <2>1, AsStoredTypes, AsStoredAnn, AsStoredMarks
  <2>3. PICK mine \in SUBSET {"cr"} :
          /\ Store(r, mine, new)
          /\ ~cr'[r].deleting
          /\ \A q \in Replicas \ {r} : cr'[q] = cr[q]
    <3> HIDE DEF new
    <3>1. PICK out \in Outcomes \ {"fail"} : PutManaged(r, out, new)
      BY <1>5
    <3>2. \E mine \in SUBSET {"cr"} : Store(r, mine, new)
      BY <3>1 DEF PutManaged
    <3>3. ~cr'[r].deleting /\ \A q \in Replicas \ {r} : cr'[q] = cr[q]
      BY <1>1, <2>2, <3>1, PutManagedMarks
    <3> QED
      BY <3>2, <3>3
  <2>4. /\ obj' = new
        /\ \A q \in Replicas \ {r} : "cr" \notin fresh'[q]
        /\ \A q \in Replicas : cache'[q] \in {cache[q], new}
    BY <2>2, <2>3 DEF Store, TypeInv, ApiOK
  <2>5. \A q \in Replicas : ~cr'[q].deleting /\ ~cache'[q].deleting
    BY <1>5, <2>1, <2>2, <2>3, <2>4 DEF LifeInv, DeletionKnown
  <2>6. DeletesSeen'
    BY <1>2, <2>3 DEF LifeInv, DeletesSeen, OnCourse, Deleting
  <2>7. ForeseesDeletion'
    BY <1>2, <2>4 DEF ForeseesDeletion, Deciding
  <2>8. DeletionKnown' /\ DeletionAfter' /\ Outlasts'
    BY <2>2, <2>4, <2>5 DEF DeletionKnown, DeletionAfter, Outlasts
  <2>9. \A q \in Replicas : ~Creating(q)
    BY <1>5, <2>1 DEF CreationInv, LockHeld
  <2>10. phaseBar = "settled" /\ phaseBar' \in {"settled", "creating"}
    BY <1>5, <2>2, <2>4, <2>9 DEF phaseBar
  <2> QED
    BY <1>3, <2>6, <2>7, <2>8, <2>10 DEF Promised, LifeInv, Lifecycle!Next, Lifecycle!Begin
<1>6. \/ UNCHANGED <<api, cr>> /\ Finish(r)
      \/ /\ obj.present /\ "cr" \in fresh[r]
         /\ \E out \in Outcomes \ {"fail"} : PutManaged(r, out, new)
  <2> HIDE DEF new
  <2>1. \/ UNCHANGED <<api, cr>> /\ Finish(r)
        \/ /\ obj.present /\ "cr" \in fresh[r]
           /\ \E out \in Outcomes :
                 PutManaged(r, out, new) /\ (out = "fail" => Finish(r))
    BY DEF MarkPending, Current, new
  <2>2. ASSUME PutManaged(r, "fail", new) PROVE UNCHANGED <<api, cr>>
    BY <2>2 DEF PutManaged
  <2> QED
    BY <2>1, <2>2
<1> QED
  BY <1>4, <1>5, <1>6

(* The lock is released.                                                   *)
LEMMA UpdateCriticalAnnotationsPromised ==
    ASSUME TypeInv, CreationInv, CreationInv', LifeInv, NEW r \in Replicas,
           UpdateCriticalAnnotations(r)
    PROVE  Promised
<1>1. Creating(r) /\ Finish(r) /\ obj.present /\ obj.fin
  BY DEF UpdateCriticalAnnotations, Creating, LifeInv, Outlasts, NobodyCreates
<1>2. /\ ~Creating(r)' /\ ~Deciding(r)' /\ pc'[r] = "finish"
      /\ \A q \in Replicas \ {r} : pc'[q] = pc[q] /\ ret'[q] = ret[q] /\ cr'[q] = cr[q]
  BY <1>1, FinishCalm DEF UpdateCriticalAnnotations, Finish, Goto, TypeInv, LocalOK
<1>3. UNCHANGED madeBar
  BY LockStepMade DEF LockStep
<1>4. CASE UNCHANGED <<api, cr>>
  <2>1. InPlace
    BY <1>4 DEF api, InPlace
  <2>2. LocalCalm(r) /\ Turns(r)
    BY <1>1, <1>2, <1>4, SameMarks, SharedMoves DEF LocalCalm, OthersRest, Turns
  <2> QED
    BY <1>3, <2>1, <2>2, TurnSteady, OthersSteady, InPlacePromised DEF LocalCalm
<1>5. CASE /\ Store(r, {"cr"}, Annotated(obj, cr[r]))
           /\ cr'[r].deleting = obj.deleting
  <2>1. /\ obj'.present /\ obj'.deleting = obj.deleting
        /\ \A q \in Replicas : cache'[q] \in {cache[q], obj'}
        /\ \A q \in Replicas \ {r} : "cr" \in fresh'[q] => "cr" \in fresh[q]
    BY <1>1, <1>5 DEF Store, Annotated, TypeInv, ApiOK, Objects
  <2>2. NobodyCreates'
    BY <1>1, <1>2 DEF NobodyCreates, CreationInv, OneCreator, Creating
  <2>3. DeletesSeen'
    BY <1>2 DEF LifeInv, DeletesSeen, OnCourse, Deleting
  <2>4. ForeseesDeletion'
    BY <1>1, <1>2, <2>1 DEF LifeInv, ForeseesDeletion, Deciding
  <2>5. DeletionKnown'
    BY <1>1, <1>2, <1>5, <2>1 DEF LifeInv, DeletionKnown
  <2>6. DeletionAfter' /\ Outlasts'
    BY <2>2 DEF DeletionAfter, Outlasts
  <2>7. phaseBar = "creating" /\ phaseBar' = "settled"
    BY <1>1, <2>1, <2>2 DEF phaseBar, NobodyCreates
  <2> QED
    BY <1>3, <2>3, <2>4, <2>5, <2>6, <2>7 DEF Promised, LifeInv, Lifecycle!Next, Lifecycle!End
<1>6. \A s : [Annotated(obj, cr[r]) EXCEPT !.st = s].deleting = obj.deleting
  BY DEF Annotated, TypeInv, ApiOK, Objects
<1>7. \/ UNCHANGED <<api, cr>>
      \/ /\ Store(r, {"cr"}, Annotated(obj, cr[r]))
         /\ \E s : cr' = [cr EXCEPT ![r] = [Annotated(obj, cr[r]) EXCEPT !.st = s]]
  BY DEF UpdateCriticalAnnotations
<1> QED
  BY <1>4, <1>5, <1>6, <1>7 DEF TypeInv, LocalOK

LEMMA ReconcilePromised ==
    ASSUME TypeInv, CreationInv, CreationInv', DuplicateInv, LifeInv, NEW r \in Replicas,
           Reconcile(r)
    PROVE  Promised
BY QuietPromised, StartPromised, AddFinalizerPromised, RemoveFinalizerPromised,
   MarkPendingPromised, UpdateCriticalAnnotationsPromised
DEF LockStep

-----------------------------------------------------------------------------
(* The environment, and the theorem.                                       *)

LEMMA RestSteady ==
    ASSUME LifeInv, UNCHANGED <<pc, ret, cr>>
    PROVE  \A q \in Replicas : Steady(q)
BY DEF LifeInv, DeletesSeen, Steady, OnCourse, Creating, Deciding, Deleting

LEMMA EnvironmentPromised ==
    ASSUME TypeInv, CreationInv, CreationInv', LifeInv, MaxApplies = 0, Environment
    PROVE  Promised
<1>1. \A q \in Replicas : Steady(q)
  BY RestSteady, CreatedOnce DEF Environment, UserEdit, UserClearName, UserDelete,
     ConsoleCreate, ConsoleDelete, local
<1>2. CASE UserEdit \/ UserClearName \/ (UserDelete /\ obj.fin)
  <2>1. UNCHANGED madeBar
    BY <1>2 DEF UserEdit, UserClearName, UserDelete, atlas, madeBar
  <2>2. PICK new : /\ Edit(new)
                   /\ new.present = obj.present /\ new.fin = obj.fin
                   /\ obj.deleting => new.deleting
    <3>1. /\ \A s \in Specs : LET new == [obj EXCEPT !.spec = s] IN
                /\ new.present = obj.present /\ new.fin = obj.fin
                /\ new.deleting = obj.deleting
          /\ LET new == [obj EXCEPT !.ext = None] IN
                /\ new.present = obj.present /\ new.fin = obj.fin
                /\ new.deleting = obj.deleting
          /\ LET new == [obj EXCEPT !.deleting = TRUE] IN
                /\ new.present = obj.present /\ new.fin = obj.fin
                /\ new.deleting
      BY DEF TypeInv, ApiOK, Objects
    <3> QED
      BY <1>2, <3>1 DEF UserEdit, UserClearName, UserDelete
  <2>3. InPlace
    BY <2>2 DEF Edit, InPlace
  <2> QED
    BY <1>1, <2>1, <2>3, InPlacePromised
<1>3. CASE UserDelete /\ ~obj.fin
  <2>1. NobodyCreates
    BY <1>3 DEF LifeInv, Outlasts
  <2>2. obj.present /\ ~obj'.present /\ UNCHANGED madeBar
    BY <1>3 DEF UserDelete, Edit, Absent, NewObject, atlas, madeBar
  <2> QED
    BY <1>1, <2>1, <2>2, GoneStep DEF Promised, Lifecycle!Next
<1>4. ASSUME NEW o \in OrgIds, ConsoleCreate(o) \/ ConsoleDelete(o)
      PROVE  Promised
  <2>1. InPlace
    BY <1>4 DEF ConsoleCreate, ConsoleDelete, api, InPlace
  <2>2. UNCHANGED madeBar
    BY <1>4 DEF ConsoleCreate, ConsoleDelete, Deleted, madeBar, TypeInv, AtlasOK
  <2> QED
    BY <1>1, <2>1, <2>2, InPlacePromised
<1> QED
  BY <1>2, <1>3, <1>4, CreatedOnce DEF Environment

LEMMA CacheSyncPromised ==
    ASSUME TypeInv, CreationInv', LifeInv, NEW r \in Replicas, CacheSync(r)
    PROVE  Promised
<1>1. InPlace
  BY DEF CacheSync, InPlace, TypeInv, ApiOK
<1>2. UNCHANGED madeBar /\ \A q \in Replicas : Steady(q)
  BY RestSteady DEF CacheSync, local, atlas, madeBar
<1> QED
  BY <1>1, <1>2, InPlacePromised

LEMMA CrashPromised ==
    ASSUME TypeInv, CreationInv', LifeInv, NEW r \in Replicas, Crash(r)
    PROVE  Promised
<1>1. /\ OthersRest(r) /\ pc'[r] = "idle" /\ ~cr'[r].deleting
      /\ \A q \in Replicas \ {r} : fresh'[q] = fresh[q]
      /\ cache' = [cache EXCEPT ![r] = obj]
      /\ UNCHANGED <<obj, madeBar>>
  BY DEF Crash, Idle, Goto, OthersRest, Absent, NewObject, atlas, madeBar, TypeInv, LocalOK,
         ApiOK
<1>2. Steady(r)
  BY <1>1 DEF Steady, OnCourse, Creating, Deciding, Deleting
<1>3. InPlace
  BY <1>1 DEF InPlace, Deciding, OthersRest, TypeInv, ApiOK
<1> QED
  BY <1>1, <1>2, <1>3, OthersSteady, InPlacePromised

LEMMA InitPromised == Init => LifeInv /\ Lifecycle!Init
<1> SUFFICES ASSUME Init PROVE LifeInv /\ Lifecycle!Init
  OBVIOUS
<1>1. obj.present /\ ~obj.deleting /\ \A r \in Replicas : cache[r] = obj
  BY DEF Init, NewObject
<1>2. \A r \in Replicas : pc[r] = "idle" /\ ~cr[r].deleting
  BY DEF Init, Absent, NewObject
<1>3. NobodyCreates
  BY <1>2 DEF NobodyCreates, Creating
<1>4. LifeInv
  BY <1>1, <1>2, <1>3 DEF LifeInv, DeletesSeen, OnCourse, Deleting, ForeseesDeletion, Deciding,
                          DeletionKnown, DeletionAfter, Outlasts
<1>5. phaseBar = "settled"
  BY <1>1, <1>3 DEF phaseBar, NobodyCreates
<1>6. madeBar = [o \in OrgIds \ Foreign |-> "free"]
  BY DEF Init, madeBar
<1> QED
  BY <1>4, <1>5, <1>6 DEF Lifecycle!Init

LEMMA NextPromised ==
    ASSUME MaxApplies = 0
    PROVE  TypeInv /\ CreationInv /\ CreationInv' /\ DuplicateInv /\ LifeInv /\ [Next]_vars
              => LifeInv' /\ [Lifecycle!Next]_<<phaseBar, madeBar>>
<1> SUFFICES ASSUME TypeInv, CreationInv, CreationInv', DuplicateInv, LifeInv, [Next]_vars
             PROVE  Promised
  BY DEF Promised
<1>1. CASE UNCHANGED vars
  <2>1. InPlace /\ UNCHANGED madeBar /\ \A q \in Replicas : Steady(q)
    BY <1>1, RestSteady DEF vars, api, local, atlas, InPlace, madeBar
  <2> QED
    BY <2>1, InPlacePromised
<1> QED
  BY <1>1, ReconcilePromised, CacheSyncPromised, CrashPromised, EnvironmentPromised DEF Next

(* Every behaviour of the controller, its replicas and their environment,  *)
(* is a life cycle.                                                        *)
THEOREM LifecycleImplemented ==
    ASSUME MaxApplies = 0, "404" \notin Faults
    PROVE  Spec => ImplementsLifecycle
<1>1. Spec => []DuplicateInv
  BY DuplicateInvariance
<1> QED
  BY <1>1, InitPromised, NextPromised, TypeInvariance, CreationInvariance, PTL
  DEF Spec, ImplementsLifecycle, Lifecycle!Spec

=============================================================================
