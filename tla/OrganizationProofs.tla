------------------------- MODULE OrganizationProofs -------------------------
(***************************************************************************)
(* One creator, one organization: for every number of replicas, with       *)
(* caches that lag, calls that fail and replicas that crash, as long as    *)
(* the resource is not created again under the same name (MaxApplies = 0)  *)
(* and Atlas does not answer a search with a false 404.                    *)
(*                                                                         *)
(* The argument: the pending annotation is a lock.  It is taken by a write *)
(* that needs a current copy, of a reconcile whose copy did not carry it   *)
(* (ForeseesNone), and while a replica is creating the stored resource     *)
(* carries it (LockHeld).  Nobody else can then have a current copy that   *)
(* lacks it.  The search that finds nothing is made under the lock, so     *)
(* POST /orgs is reached only while there is nothing to duplicate.         *)
(*                                                                         *)
(* A single replica needs no lock: NoDuplicate then holds however often    *)
(* the resource is created again.                                          *)
(***************************************************************************)
EXTENDS OrganizationTypes

(* Where a reconcile that may still announce a creation stands.            *)
Deciding(r) ==
    \/ pc[r] \in {"observe", "finalizer", "pending"}
    \/ pc[r] \in {"get", "put", "reget", "reput"} /\ ret[r] \notin {"reuse", "created"}
    \/ pc[r] = "adopted" /\ ret[r] # "reuse"

LockHeld == \A r \in Replicas : Creating(r) /\ obj.present => obj.ann = "pending"

ForeseesNone ==
    \A r \in Replicas :
        Deciding(r) /\ "cr" \in fresh[r] /\ obj.present
            => cr[r].present /\ cr[r].ann = obj.ann /\ obj.ann # "pending"

CacheExact == \A r \in Replicas : "cache" \in fresh[r] => cache[r] = obj

CreationInv == LockHeld /\ ForeseesNone /\ CacheExact /\ OneCreator

-----------------------------------------------------------------------------
(* What an action does to the lock, by its effect on the API server and on *)
(* its replica.                                                            *)

OthersRest(r) ==
    \A q \in Replicas \ {r} : pc'[q] = pc[q] /\ ret'[q] = ret[q] /\ cr'[q] = cr[q]

(* The replica neither begins to create nor comes to decide.               *)
LocalCalm(r) ==
    /\ OthersRest(r)
    /\ Creating(r)' => Creating(r)
    /\ Deciding(r)' => Deciding(r) /\ cr'[r].ann = cr[r].ann /\ cr'[r].present = cr[r].present

(* Nothing is written, and no copy becomes current but a latest one.       *)
ApiCalm ==
    /\ UNCHANGED <<obj, cache>>
    /\ \A q \in Replicas : /\ "cr" \in fresh'[q] => "cr" \in fresh[q]
                           /\ "cache" \in fresh'[q] => "cache" \in fresh[q]

LEMMA CalmStep ==
    ASSUME CreationInv, NEW r \in Replicas, LocalCalm(r), ApiCalm
    PROVE  CreationInv'
<1>1. \A q \in Replicas : Creating(q)' => Creating(q)
  BY DEF LocalCalm, OthersRest, Creating
<1>2. \A q \in Replicas : Deciding(q)' => Deciding(q) /\ cr'[q].ann = cr[q].ann
                                          /\ cr'[q].present = cr[q].present
  BY DEF LocalCalm, OthersRest, Deciding
<1>3. LockHeld'
  BY <1>1 DEF CreationInv, LockHeld, ApiCalm
<1>4. ForeseesNone'
  BY <1>2 DEF CreationInv, ForeseesNone, ApiCalm
<1>5. CacheExact'
  BY DEF CreationInv, CacheExact, ApiCalm
<1>6. OneCreator'
  BY <1>1 DEF CreationInv, OneCreator
<1> QED
  BY <1>3, <1>4, <1>5, <1>6 DEF CreationInv

(* A write that leaves the annotation alone, or removes the resource.      *)
LEMMA StoreStep ==
    ASSUME CreationInv, ApiOK, NEW r \in Replicas, LocalCalm(r),
           NEW mine \in SUBSET {"cr", "latest"}, NEW new, Store(r, mine, new),
           obj.present, new.present => new.ann = obj.ann,
           "cr" \notin mine \/ ~Deciding(r)' \/ "cr" \in fresh[r]
    PROVE  CreationInv'
<1>1. \A q \in Replicas : Creating(q)' => Creating(q)
  BY DEF LocalCalm, OthersRest, Creating
<1>2. \A q \in Replicas : Deciding(q)' => Deciding(q) /\ cr'[q].ann = cr[q].ann
                                          /\ cr'[q].present = cr[q].present
  BY DEF LocalCalm, OthersRest, Deciding
<1>3. \A q \in Replicas : Deciding(q)' /\ "cr" \in fresh'[q] => "cr" \in fresh[q]
  BY DEF Store, ApiOK
<1>4. \A q \in Replicas : "cache" \in fresh'[q] =>
         cache'[q] = obj' \/ (obj' = obj /\ cache' = cache /\ "cache" \in fresh[q])
  BY DEF Store, ApiOK
<1>5. obj' = new
  BY DEF Store
<1>6. LockHeld'
  BY <1>1, <1>5 DEF CreationInv, LockHeld
<1>7. ForeseesNone'
  BY <1>2, <1>3, <1>5 DEF CreationInv, ForeseesNone
<1>8. CacheExact'
  BY <1>4 DEF CreationInv, CacheExact
<1>9. OneCreator'
  BY <1>1 DEF CreationInv, OneCreator
<1> QED
  BY <1>6, <1>7, <1>8, <1>9 DEF CreationInv

(* A write of the name or the status.                                      *)
Patch(r) ==
    /\ obj.present
    /\ \E mine, new :
          /\ mine \in SUBSET {"cr", "latest"}
          /\ Store(r, mine, new)
          /\ new.present /\ new.ann = obj.ann
          /\ new.deleting = obj.deleting /\ new.fin = obj.fin
          /\ "cr" \notin mine \/ ~Deciding(r)'

(* What most actions amount to.                                            *)
IsQuiet(r) == LocalCalm(r) /\ (ApiCalm \/ Patch(r))

LEMMA QuietStep ==
    ASSUME TypeInv, CreationInv, NEW r \in Replicas, IsQuiet(r)
    PROVE  CreationInv'
<1>1. CASE ApiCalm
  BY <1>1, CalmStep DEF IsQuiet
<1>2. CASE Patch(r)
  BY <1>2, StoreStep DEF IsQuiet, Patch, TypeInv
<1> QED
  BY <1>1, <1>2 DEF IsQuiet

(* The writes Patch stands for.                                            *)
LEMMA Patches ==
    ASSUME TypeInv, NEW r \in Replicas, obj.present, NEW mine \in SUBSET {"cr", "latest"},
           "cr" \notin mine \/ ~Deciding(r)',
           \/ \E s : Store(r, mine, [obj EXCEPT !.st = s])
           \/ \E e : Store(r, mine, [obj EXCEPT !.ext = e])
    PROVE  Patch(r)
<1>1. /\ \A s : /\ [obj EXCEPT !.st = s].present = obj.present
               /\ [obj EXCEPT !.st = s].ann = obj.ann
               /\ [obj EXCEPT !.st = s].deleting = obj.deleting
               /\ [obj EXCEPT !.st = s].fin = obj.fin
      /\ \A e : /\ [obj EXCEPT !.ext = e].present = obj.present
               /\ [obj EXCEPT !.ext = e].ann = obj.ann
               /\ [obj EXCEPT !.ext = e].deleting = obj.deleting
               /\ [obj EXCEPT !.ext = e].fin = obj.fin
  BY DEF TypeInv, ApiOK, Objects
<1> QED
  BY <1>1 DEF Patch

LEMMA EditStep ==
    ASSUME CreationInv, ApiOK, NEW new, Edit(new), UNCHANGED <<pc, ret, cr>>,
           obj.present, new.present => new.ann = obj.ann
    PROVE  CreationInv'
<1>1. LockHeld'
  BY DEF CreationInv, LockHeld, Creating, Edit
<1>2. ForeseesNone'
  BY DEF ForeseesNone, Edit
<1>3. CacheExact'
  BY DEF CacheExact, Edit, ApiOK
<1>4. OneCreator'
  BY DEF CreationInv, OneCreator, Creating
<1> QED
  BY <1>1, <1>2, <1>3, <1>4 DEF CreationInv

-----------------------------------------------------------------------------
(* The reconciler.                                                         *)

LEMMA StartSafe ==
    ASSUME TypeInv, CreationInv, NEW r \in Replicas, Start(r)
    PROVE  CreationInv'
<1>1. /\ OthersRest(r) /\ ~Creating(r)' /\ cr'[r] = cache[r]
      /\ \A q \in Replicas \ {r} : fresh'[q] = fresh[q]
      /\ "cr" \in fresh'[r] => "cache" \in fresh[r]
      /\ "cache" \in fresh'[r] => "cache" \in fresh[r]
      /\ UNCHANGED <<obj, cache>>
  BY DEF Start, Holds, Goto, Creating, OthersRest, TypeInv, LocalOK, ApiOK
<1>2. \A q \in Replicas : Creating(q)' => Creating(q)
  BY <1>1 DEF OthersRest, Creating
<1>3. \A q \in Replicas \ {r} : Deciding(q)' => Deciding(q) /\ cr'[q] = cr[q]
  BY <1>1 DEF OthersRest, Deciding
<1>4. LockHeld' /\ OneCreator'
  BY <1>1, <1>2 DEF CreationInv, LockHeld, OneCreator
<1>5. ForeseesNone'
  BY <1>1, <1>3 DEF CreationInv, ForeseesNone, CacheExact, Start
<1>6. CacheExact'
  BY <1>1 DEF CreationInv, CacheExact
<1> QED
  BY <1>4, <1>5, <1>6 DEF CreationInv

(* client.Update of the working copy changes obj and cr alike.             *)
LEMMA PutManagedSafe ==
    ASSUME TypeInv, NEW r \in Replicas, NEW out, NEW new \in Objects,
           PutManaged(r, out, new)
    PROVE  \/ UNCHANGED <<api, cr>>
           \/ /\ Store(r, {"cr"}, new)
              /\ cr'[r].ann = new.ann /\ cr'[r].present = new.present
              /\ \A q \in Replicas \ {r} : cr'[q] = cr[q]
           \/ Store(r, {}, new) /\ UNCHANGED cr
<1>1. CASE out = "ok"
  <2>1. [new EXCEPT !.st = Overlay(obj.st, cr[r].st)].ann = new.ann
        /\ [new EXCEPT !.st = Overlay(obj.st, cr[r].st)].present = new.present
    BY DEF Objects
  <2> QED
    BY <1>1, <2>1 DEF PutManaged, TypeInv, LocalOK
<1> QED
  BY <1>1 DEF PutManaged

LEMMA AsStoredAnn ==
    ASSUME TypeInv, NEW r \in Replicas
    PROVE  /\ AsStored([cr[r] EXCEPT !.fin = TRUE]).ann = cr[r].ann
           /\ AsStored([cr[r] EXCEPT !.fin = TRUE]).present = cr[r].present
           /\ AsStored([cr[r] EXCEPT !.ann = "pending"]).ann = "pending"
           /\ AsStored([cr[r] EXCEPT !.ann = "pending"]).present = cr[r].present
BY Fields DEF AsStored, Objects

LEMMA AddFinalizerCalm ==
    ASSUME TypeInv, CreationInv, NEW r \in Replicas, AddFinalizer(r)
    PROVE  /\ LocalCalm(r)
           /\ \/ UNCHANGED <<api, cr>>
              \/ /\ obj.present /\ "cr" \in fresh[r]
                 /\ \E mine \in SUBSET {"cr"} :
                       Store(r, mine, AsStored([cr[r] EXCEPT !.fin = TRUE]))
<1> DEFINE new == AsStored([cr[r] EXCEPT !.fin = TRUE])
<1>1. Deciding(r) /\ ~Creating(r)
  BY DEF AddFinalizer, Deciding, Creating
<1>2. Onward(r) \/ Finish(r)
  BY DEF AddFinalizer
<1>3. /\ ~Creating(r)'
      /\ \A q \in Replicas \ {r} : pc'[q] = pc[q] /\ ret'[q] = ret[q]
  BY <1>2 DEF Onward, Finish, Goto, Creating, TypeInv, LocalOK
<1>4. CASE UNCHANGED <<api, cr>>
  BY <1>1, <1>3, <1>4 DEF LocalCalm, OthersRest
<1>5. CASE ~UNCHANGED <<api, cr>>
  <2>1. /\ obj.present /\ "cr" \in fresh[r]
        /\ \E out \in Outcomes : PutManaged(r, out, new)
    BY <1>5 DEF AddFinalizer, Current
  <2>2. new \in Objects /\ new.ann = cr[r].ann /\ new.present = cr[r].present
    BY AsStoredTypes, AsStoredAnn
  <2>3. PICK mine \in SUBSET {"cr"} :
          /\ Store(r, mine, new)
          /\ cr'[r].ann = cr[r].ann /\ cr'[r].present = cr[r].present
          /\ \A q \in Replicas \ {r} : cr'[q] = cr[q]
    <3> HIDE DEF new
    <3>1. PICK out \in Outcomes : PutManaged(r, out, new)
      BY <2>1
    <3>2. CASE Store(r, {"cr"}, new) /\ cr'[r].ann = new.ann /\ cr'[r].present = new.present
               /\ \A q \in Replicas \ {r} : cr'[q] = cr[q]
      BY <2>2, <3>2
    <3>3. CASE Store(r, {}, new) /\ UNCHANGED cr
      BY <3>3
    <3> QED
      BY <1>5, <2>2, <3>1, <3>2, <3>3, PutManagedSafe
  <2>4. LocalCalm(r)
    BY <1>1, <1>3, <2>3 DEF LocalCalm, OthersRest
  <2> QED
    BY <2>1, <2>3, <2>4
<1> QED
  BY <1>4, <1>5

LEMMA AddFinalizerSafe ==
    ASSUME TypeInv, CreationInv, NEW r \in Replicas, AddFinalizer(r)
    PROVE  CreationInv'
<1> DEFINE new == AsStored([cr[r] EXCEPT !.fin = TRUE])
<1>1. LocalCalm(r)
  BY AddFinalizerCalm
<1>2. CASE UNCHANGED <<api, cr>>
  BY <1>1, <1>2, CalmStep DEF ApiCalm, api
<1>3. CASE obj.present /\ "cr" \in fresh[r] /\ \E mine \in SUBSET {"cr"} : Store(r, mine, new)
  <2>1. Deciding(r)
    BY DEF AddFinalizer, Deciding
  <2>2. cr[r].ann = obj.ann /\ obj.ann # "pending"
    BY <1>3, <2>1 DEF CreationInv, ForeseesNone
  <2>3. new.ann = obj.ann
    BY <2>2, AsStoredAnn
  <2> HIDE DEF new
  <2> QED
    BY <1>1, <1>3, <2>3, StoreStep DEF TypeInv
<1> QED
  BY <1>2, <1>3, AddFinalizerCalm

LEMMA FinishCalm ==
    ASSUME TypeInv, NEW r \in Replicas, Finish(r)
    PROVE  /\ ~Creating(r)' /\ ~Deciding(r)'
           /\ \A q \in Replicas \ {r} : pc'[q] = pc[q] /\ ret'[q] = ret[q]
BY DEF Finish, Goto, Creating, Deciding, TypeInv, LocalOK

LEMMA UnfinalizedAnn ==
    ASSUME TypeInv
    PROVE  Unfinalized(obj).present => Unfinalized(obj).ann = obj.ann
BY DEF Unfinalized, Absent, NewObject, TypeInv, ApiOK, Objects

LEMMA RemoveFinalizerCalm ==
    ASSUME TypeInv, NEW r \in Replicas, RemoveFinalizer(r) \/ ForceRemoveFinalizer(r)
    PROVE  /\ LocalCalm(r)
           /\ UNCHANGED api \/ (obj.present /\ Store(r, {}, Unfinalized(obj)))
<1>1. LocalCalm(r)
  BY FinishCalm DEF RemoveFinalizer, ForceRemoveFinalizer, LocalCalm, OthersRest
<1>2. UNCHANGED api \/ (obj.present /\ Store(r, {}, Unfinalized(obj)))
  BY DEF RemoveFinalizer, ForceRemoveFinalizer, Current, api
<1> QED
  BY <1>1, <1>2

LEMMA RemoveFinalizerSafe ==
    ASSUME TypeInv, CreationInv, NEW r \in Replicas,
           RemoveFinalizer(r) \/ ForceRemoveFinalizer(r)
    PROVE  CreationInv'
<1>1. LocalCalm(r)
  BY RemoveFinalizerCalm
<1>2. CASE UNCHANGED api
  BY <1>1, <1>2, CalmStep DEF ApiCalm, api
<1>3. CASE obj.present /\ Store(r, {}, Unfinalized(obj))
  BY <1>1, <1>3, UnfinalizedAnn, StoreStep DEF TypeInv
<1> QED
  BY <1>2, <1>3, RemoveFinalizerCalm

(* The lock is taken: it was free, and every other copy is stale by now.   *)
LEMMA MarkPendingSafe ==
    ASSUME TypeInv, CreationInv, NEW r \in Replicas, MarkPending(r)
    PROVE  CreationInv'
<1> DEFINE new == AsStored([cr[r] EXCEPT !.ann = "pending"])
<1>1. Deciding(r) /\ ~Creating(r)
  BY DEF MarkPending, Deciding, Creating
<1>2. /\ Finish(r) \/ (Goto(r, "find") /\ UNCHANGED ret)
      /\ \A q \in Replicas \ {r} : pc'[q] = pc[q] /\ ret'[q] = ret[q]
      /\ ~Deciding(r)'
  BY DEF MarkPending, Finish, Goto, Deciding, TypeInv, LocalOK
<1>3. CASE UNCHANGED <<api, cr>>
  <2>1. CASE Finish(r)
    <3>1. LocalCalm(r) /\ ApiCalm
      BY <1>2, <1>3, <2>1, FinishCalm DEF LocalCalm, OthersRest, ApiCalm, api
    <3> QED
      BY <3>1, CalmStep
  <2>2. CASE ~Finish(r)
    <3>1. /\ obj.present /\ "cr" \in fresh[r]
          /\ PutManaged(r, "ok", new)
      BY <2>2 DEF MarkPending, Current
    <3>2. obj.ann # "pending"
      BY <1>1, <3>1 DEF CreationInv, ForeseesNone
    <3>3. obj' = new /\ new.ann = "pending"
      BY <3>1, AsStoredAnn DEF PutManaged, Store
    <3> QED
      BY <1>3, <3>2, <3>3 DEF api
  <2> QED
    BY <2>1, <2>2
<1>4. CASE ~UNCHANGED <<api, cr>>
  <2>1. /\ obj.present /\ "cr" \in fresh[r]
        /\ \E out \in Outcomes : PutManaged(r, out, new)
    BY <1>4 DEF MarkPending, Current
  <2>2. cr[r].present /\ cr[r].ann = obj.ann /\ obj.ann # "pending"
    BY <1>1, <2>1 DEF CreationInv, ForeseesNone
  <2>3. new \in Objects /\ new.ann = "pending" /\ new # obj
    BY <2>2, AsStoredTypes, AsStoredAnn
  <2>4. PICK mine \in SUBSET {"cr"} :
          /\ Store(r, mine, new)
          /\ \A q \in Replicas \ {r} : cr'[q] = cr[q]
    BY <1>4, <2>1, <2>3, PutManagedSafe
  <2>5. /\ obj' = new
        /\ \A q \in Replicas \ {r} : "cr" \notin fresh'[q]
        /\ \A q \in Replicas : "cache" \in fresh'[q] => cache'[q] = obj'
    BY <2>3, <2>4 DEF Store, TypeInv, ApiOK
  <2>6. \A q \in Replicas : ~Creating(q)
    BY <2>1, <2>2 DEF CreationInv, LockHeld
  <2>7. \A q \in Replicas : Creating(q)' => q = r
    BY <1>2, <2>6 DEF Creating
  <2>8. LockHeld' /\ OneCreator'
    BY <2>3, <2>5, <2>7 DEF LockHeld, OneCreator
  <2>9. ForeseesNone' /\ CacheExact'
    BY <1>2, <2>5 DEF ForeseesNone, CacheExact
  <2> QED
    BY <2>8, <2>9 DEF CreationInv
<1> QED
  BY <1>3, <1>4

(* The lock is released by the one that holds it.                          *)
LEMMA UpdateCriticalAnnotationsSafe ==
    ASSUME TypeInv, CreationInv, NEW r \in Replicas, UpdateCriticalAnnotations(r)
    PROVE  CreationInv'
<1>1. Creating(r) /\ Finish(r)
  BY DEF UpdateCriticalAnnotations, Creating
<1>2. /\ ~Creating(r)' /\ ~Deciding(r)'
      /\ \A q \in Replicas \ {r} : pc'[q] = pc[q] /\ ret'[q] = ret[q] /\ cr'[q] = cr[q]
  BY <1>1, FinishCalm DEF UpdateCriticalAnnotations, TypeInv, LocalOK
<1>3. CASE UNCHANGED api
  BY <1>2, <1>3, CalmStep DEF LocalCalm, OthersRest, ApiCalm, api
<1>4. CASE Store(r, {"cr"}, Annotated(obj, cr[r])) /\ obj.present
  <2>1. \A q \in Replicas : ~Creating(q)'
    BY <1>1, <1>2 DEF CreationInv, OneCreator, Creating
  <2>2. LockHeld' /\ OneCreator'
    BY <2>1 DEF LockHeld, OneCreator
  <2>3. CASE Annotated(obj, cr[r]) = obj
    <3>1. /\ obj' = obj /\ cache' = cache
          /\ \A q \in Replicas \ {r} : fresh'[q] = fresh[q]
          /\ "cache" \in fresh'[r] => "cache" \in fresh[r]
      BY <1>4, <2>3 DEF Store, TypeInv, ApiOK
    <3>2. \A q \in Replicas : Deciding(q)' => q # r /\ Deciding(q)
      BY <1>2 DEF Deciding
    <3>3. ForeseesNone'
      BY <1>2, <3>1, <3>2 DEF CreationInv, ForeseesNone
    <3> QED
      BY <2>2, <3>1, <3>3 DEF CreationInv, CacheExact
  <2>4. CASE Annotated(obj, cr[r]) # obj
    <3>1. /\ \A q \in Replicas \ {r} : "cr" \notin fresh'[q]
          /\ \A q \in Replicas : "cache" \in fresh'[q] => cache'[q] = obj'
      BY <1>4, <2>4 DEF Store, TypeInv, ApiOK
    <3> QED
      BY <1>2, <2>2, <3>1 DEF CreationInv, ForeseesNone, CacheExact
  <2> QED
    BY <2>3, <2>4
<1> QED
  BY <1>3, <1>4 DEF UpdateCriticalAnnotations, Current, api

LEMMA UpdateManagedStatusQuiet ==
    ASSUME TypeInv, NEW r \in Replicas, UpdateManagedStatus(r)
    PROVE  IsQuiet(r)
<1>1. LocalCalm(r)
  BY DEF UpdateManagedStatus, Idle, Goto, LocalCalm, OthersRest, Creating, Deciding,
         TypeInv, LocalOK
<1>2. CASE Holds(r, {}) /\ UNCHANGED <<obj, cache>>
  BY <1>1, <1>2 DEF IsQuiet, ApiCalm, Holds, TypeInv, ApiOK
<1>3. CASE obj.present /\ Store(r, {}, [obj EXCEPT !.st = cr[r].st])
  <2>1. Patch(r)
    BY <1>3, Patches, {} \in SUBSET {"cr", "latest"}
  <2> QED
    BY <1>1, <2>1 DEF IsQuiet
<1> QED
  BY <1>2, <1>3 DEF UpdateManagedStatus, Current

LEMMA PersistFailedCalm ==
    ASSUME TypeInv, NEW r \in Replicas, PersistFailed(r),
           pc[r] \in {"get", "put", "reget", "reput", "adopted"}
    PROVE  LocalCalm(r)
<1>1. CASE CreateFailed(r) /\ ret[r] \in {"reuse", "created"}
  BY <1>1 DEF CreateFailed, Created, Goto, LocalCalm, OthersRest, Creating, Deciding,
              TypeInv, LocalOK
<1>2. CASE Finish(r) /\ UNCHANGED cr
  BY <1>2, FinishCalm DEF LocalCalm, OthersRest
<1> QED
  BY <1>1, <1>2 DEF PersistFailed

LEMMA NamePersistedCalm ==
    ASSUME TypeInv, NEW r \in Replicas, NamePersisted(r), pc[r] \in {"put", "reput"}
    PROVE  LocalCalm(r)
<1>1. CASE ret[r] = "restore"
  <2>1. /\ Deciding(r) /\ UNCHANGED cr
        /\ \/ Goto(r, "cleanup") /\ ret' = [ret EXCEPT ![r] = "none"]
           \/ Goto(r, "finalizer") /\ ret' = [ret EXCEPT ![r] = "update"]
    BY <1>1 DEF NamePersisted, Observed, Deciding
  <2> QED
    BY <2>1 DEF Goto, LocalCalm, OthersRest, Creating, TypeInv, LocalOK
<1>2. CASE ret[r] = "created"
  BY <1>2 DEF NamePersisted, Goto, LocalCalm, OthersRest, Creating, Deciding, TypeInv, LocalOK
<1>3. CASE ret[r] \notin {"restore", "created"}
  <2>1. Goto(r, "adopted") /\ UNCHANGED <<ret, cr>>
    BY <1>3 DEF NamePersisted
  <2>2. pc'[r] = "adopted" /\ ret'[r] = ret[r] /\ OthersRest(r)
    BY <2>1 DEF Goto, OthersRest, TypeInv, LocalOK
  <2>3. Creating(r)' => Creating(r)
    BY <2>2 DEF Creating
  <2>4. Deciding(r)' => Deciding(r)
    BY <1>3, <2>2 DEF Deciding
  <2> QED
    BY <2>1, <2>2, <2>3, <2>4 DEF LocalCalm
<1> QED
  BY <1>1, <1>2, <1>3

LEMMA StatusPutCalm ==
    ASSUME TypeInv, NEW r \in Replicas, NEW ok, StatusPut(r, ok),
           pc[r] \in {"status", "reread", "restatus"}
    PROVE  LocalCalm(r)
<1>1. CASE ret[r] = "created"
  BY <1>1 DEF StatusPut, Created, Goto, LocalCalm, OthersRest, Creating, Deciding,
              TypeInv, LocalOK
<1>2. CASE ret[r] \in {"marked", "cleaned"}
  <2>1. \E l \in {"verify", "release"} : Goto(r, l) /\ UNCHANGED <<cr, ret>>
    BY <1>2 DEF StatusPut
  <2> QED
    BY <2>1 DEF Goto, LocalCalm, OthersRest, Creating, Deciding, TypeInv, LocalOK
<1>3. CASE ret[r] \notin {"created", "marked", "cleaned"}
  BY <1>3, FinishCalm DEF StatusPut, LocalCalm, OthersRest
<1> QED
  BY <1>1, <1>2, <1>3

(* Moving on within the same loop.                                         *)
LEMMA LoopCalm ==
    ASSUME TypeInv, NEW r \in Replicas, NEW l, Goto(r, l), UNCHANGED <<cr, ret>>,
           \/ /\ pc[r] \in {"get", "put", "reget", "reput"}
              /\ l \in {"get", "put", "reget", "reput"}
           \/ /\ pc[r] \in {"status", "reread", "restatus"}
              /\ l \in {"status", "reread", "restatus"}
    PROVE  LocalCalm(r)
BY DEF Goto, LocalCalm, OthersRest, Creating, Deciding, TypeInv, LocalOK

LEMMA GotCopyCalm ==
    ASSUME ApiOK, NEW r \in Replicas,
           fresh' = [fresh EXCEPT ![r] = IF "cache" \in @ THEN @ \cup {"latest"}
                                                           ELSE @ \ {"latest"}],
           UNCHANGED <<obj, cache>>
    PROVE  ApiCalm
BY DEF ApiOK, ApiCalm

LEMMA GetLatestQuiet ==
    ASSUME TypeInv, NEW r \in Replicas, GetLatest(r)
    PROVE  IsQuiet(r)
<1>1. LocalCalm(r)
  BY PersistFailedCalm, LoopCalm DEF GetLatest
<1>2. ApiCalm
  BY GotCopyCalm DEF GetLatest, TypeInv, ApiCalm, api
<1> QED
  BY <1>1, <1>2 DEF IsQuiet

LEMMA PutNameQuiet ==
    ASSUME TypeInv, NEW r \in Replicas, PutName(r)
    PROVE  IsQuiet(r)
<1>1. LocalCalm(r)
  BY PersistFailedCalm, NamePersistedCalm, LoopCalm DEF PutName
<1>2. CASE UNCHANGED api
  BY <1>1, <1>2 DEF IsQuiet, ApiCalm, api
<1>3. CASE obj.present /\ \E mine \in SUBSET {"latest"} :
                             Store(r, mine, [obj EXCEPT !.ext = cr[r].ext])
  BY <1>1, <1>3, Patches DEF IsQuiet
<1> QED
  BY <1>2, <1>3 DEF PutName, Current

LEMMA AdoptStatusQuiet ==
    ASSUME TypeInv, NEW r \in Replicas, AdoptStatus(r)
    PROVE  IsQuiet(r)
<1>1. LocalCalm(r)
  <2>1. CASE PersistFailed(r)
    BY <2>1, PersistFailedCalm DEF AdoptStatus
  <2>2. CASE Created(r, cr[r], "succeeded") /\ ret[r] = "reuse"
    BY <2>2 DEF AdoptStatus, Created, Goto, LocalCalm, OthersRest, Creating, Deciding,
                TypeInv, LocalOK
  <2>3. CASE Observed(r, "update") /\ UNCHANGED cr /\ ret[r] # "reuse"
    <3>1. \/ Goto(r, "cleanup") /\ ret' = [ret EXCEPT ![r] = "none"]
          \/ Goto(r, "finalizer") /\ ret' = [ret EXCEPT ![r] = "update"]
      BY <2>3 DEF Observed
    <3>2. ~Creating(r)' /\ OthersRest(r)
      BY <2>3, <3>1 DEF Goto, OthersRest, Creating, TypeInv, LocalOK
    <3>3. Deciding(r)
      BY <2>3 DEF AdoptStatus, Deciding
    <3> QED
      BY <2>3, <3>2, <3>3 DEF LocalCalm
  <2> QED
    BY <2>1, <2>2, <2>3 DEF AdoptStatus
<1>2. CASE UNCHANGED api
  BY <1>1, <1>2 DEF IsQuiet, ApiCalm, api
<1>3. CASE obj.present /\ Store(r, {}, [obj EXCEPT !.st = cr[r].st])
  <2>1. Patch(r)
    BY <1>3, Patches, {} \in SUBSET {"cr", "latest"}
  <2> QED
    BY <1>1, <2>1 DEF IsQuiet
<1> QED
  BY <1>2, <1>3 DEF AdoptStatus, Current

LEMMA UpdateStatusQuiet ==
    ASSUME TypeInv, NEW r \in Replicas,
           UpdateStatus(r) \/ RereadForStatus(r) \/ RetryStatus(r)
    PROVE  IsQuiet(r)
<1>1. LocalCalm(r)
  BY StatusPutCalm, LoopCalm DEF UpdateStatus, RereadForStatus, RetryStatus
<1>2. CASE UNCHANGED api
  BY <1>1, <1>2 DEF IsQuiet, ApiCalm, api
<1>3. CASE RereadForStatus(r)
  <2>1. ApiCalm
    BY <1>3, GotCopyCalm DEF RereadForStatus, TypeInv, ApiCalm, api
  <2> QED
    BY <1>1, <2>1 DEF IsQuiet
<1>4. CASE obj.present /\ \E mine \in SUBSET {"cr"} :
                             Store(r, mine, [obj EXCEPT !.st = cr[r].st])
  <2>1. ~Deciding(r)'
    BY <1>1 DEF LocalCalm, Deciding, UpdateStatus, RereadForStatus, RetryStatus
  <2> QED
    BY <1>1, <1>4, <2>1, Patches DEF IsQuiet
<1> QED
  BY <1>2, <1>3, <1>4 DEF UpdateStatus, RetryStatus, Current

-----------------------------------------------------------------------------
(* Observe, Create, Update and Delete: only their replica moves, and only  *)
(* along the labels below.                                                 *)

LEMMA CalmMove ==
    ASSUME NEW r \in Replicas, UNCHANGED api, LocalCalm(r)
    PROVE  IsQuiet(r)
BY DEF IsQuiet, ApiCalm, api

LEMMA SameAnn ==
    ASSUME NEW c \in Objects
    PROVE  /\ \A s \in Statuses : /\ [c EXCEPT !.st = s] \in Objects
                                 /\ [c EXCEPT !.st = s].ann = c.ann
                                 /\ [c EXCEPT !.st = s].present = c.present
           /\ \A o \in OrgIds : /\ Adopted(c, o).ann = c.ann
                               /\ Adopted(c, o).present = c.present
BY DEF Adopted, Objects

LEMMA ObserveQuiet ==
    ASSUME TypeInv, NEW r \in Replicas, ObserveStep(r)
    PROVE  IsQuiet(r)
<1>1. UNCHANGED api /\ pc[r] = "observe"
  BY DEF ObserveStep, Restore, SearchByName, ObserveDeleting, ObserveCurrent
<1>2. PICK c \in Objects :
         cr' = [cr EXCEPT ![r] = c] /\ c.ann = cr[r].ann /\ c.present = cr[r].present
  <2>1. CASE Restore(r)
    <3>1. [cr[r] EXCEPT !.ext = cr[r].st.orgID] \in Objects
      BY Fields DEF Objects
    <3> QED
      BY <2>1, <3>1, Fields DEF Restore, Objects
  <2>2. CASE SearchByName(r)
    <3>1. ASSUME NEW o \in OrgIds
          PROVE  /\ Adopted(cr[r], o) \in Objects
                 /\ Adopted(cr[r], o).ann = cr[r].ann
                 /\ Adopted(cr[r], o).present = cr[r].present
      <4>1. cr[r] \in Objects
        BY Fields
      <4> QED
        BY <4>1, AdoptedTypes, SameAnn
    <3>2. UNCHANGED cr \/ \E o \in OrgIds : cr' = [cr EXCEPT ![r] = Adopted(cr[r], o)]
      BY <2>2 DEF SearchByName, Live
    <3> QED
      BY <3>1, <3>2, Unchanged
  <2>3. CASE ObserveDeleting(r)
    BY <2>3, Unchanged DEF ObserveDeleting
  <2>4. CASE ObserveCurrent(r)
    <3>1. PICK found \in BOOLEAN :
            cr' = [cr EXCEPT ![r] = [cr[r] EXCEPT !.st = WithSecretMetadata(cr[r], found)]]
      BY <2>4, BoundsAssumption DEF ObserveCurrent
    <3>2. WithSecretMetadata(cr[r], found) \in Statuses
      BY SecretMetadataTypes
    <3>3. cr[r] \in Objects
      BY Fields
    <3> QED
      BY <3>1, <3>2, <3>3, SameAnn
  <2> QED
    BY <2>1, <2>2, <2>3, <2>4 DEF ObserveStep
<1>3. \/ \E next \in {"create", "update", "finish"} : Observed(r, next)
      \/ \E caller \in {"restore", "adopt"} : PersistName(r, caller)
      \/ Finish(r)
  <2>1. CASE ObserveCurrent(r)
    BY <2>1 DEF ObserveCurrent
  <2> QED
    BY <2>1 DEF ObserveStep, Restore, SearchByName, ObserveDeleting
<1>4. /\ \A q \in Replicas \ {r} : pc'[q] = pc[q] /\ ret'[q] = ret[q]
      /\ ~Creating(r)' /\ Deciding(r)
  BY <1>1, <1>3 DEF Observed, PersistName, Finish, Goto, Creating, Deciding, TypeInv, LocalOK
<1>5. cr'[r].ann = cr[r].ann /\ cr'[r].present = cr[r].present
      /\ \A q \in Replicas \ {r} : cr'[q] = cr[q]
  BY <1>2 DEF TypeInv, LocalOK
<1>6. LocalCalm(r)
  BY <1>4, <1>5 DEF LocalCalm, OthersRest
<1> QED
  BY <1>1, <1>6, CalmMove

(* Create keeps the lock until its outcome is to be recorded.              *)
CreateLabels == {"find", "post", "store", "ips", "enforce"}

LEMMA CreateQuiet ==
    ASSUME TypeInv, NEW r \in Replicas, CreateStep(r)
    PROVE  IsQuiet(r)
<1>1. UNCHANGED api /\ pc[r] \in CreateLabels
  BY DEF CreateStep, FindExisting, CreateOrganization, StoreKey, ProvisionIPs,
         EnableAPIAccessListRequired, CreateLabels
<1>2. Creating(r)
  BY <1>1 DEF Creating, CreateLabels
<1>3. \/ \E l \in CreateLabels : Goto(r, l) /\ UNCHANGED ret
      \/ \E caller \in {"reuse", "created"} : PersistName(r, caller)
      \/ PutStatus(r, "created")
      \/ CreateFailed(r)
      \/ Idle(r)
  <2>1. CASE FindExisting(r)
    BY <2>1 DEF FindExisting, CreateLabels
  <2>2. CASE CreateOrganization(r)
    BY <2>2 DEF CreateOrganization
  <2>3. CASE StoreKey(r)
    BY <2>3 DEF StoreKey, CreateLabels
  <2>4. CASE ProvisionIPs(r) \/ EnableAPIAccessListRequired(r)
    BY <2>4 DEF ProvisionIPs, EnableAPIAccessListRequired, CreateLabels
  <2> QED
    BY <2>1, <2>2, <2>3, <2>4 DEF CreateStep
<1>4. \A q \in Replicas \ {r} : cr'[q] = cr[q]
  <2>1. \E c : cr' = [cr EXCEPT ![r] = c] \/ UNCHANGED cr
    <3>1. CASE FindExisting(r)
      BY <3>1 DEF FindExisting, CreateFailed, Created
    <3>2. CASE CreateOrganization(r)
      BY <3>2 DEF CreateOrganization, CreateFailed, Created
    <3>3. CASE StoreKey(r)
      BY <3>3 DEF StoreKey, CreateFailed, Created, Idle
    <3>4. CASE ProvisionIPs(r)
      BY <3>4 DEF ProvisionIPs
    <3>5. CASE EnableAPIAccessListRequired(r)
      BY <3>5 DEF EnableAPIAccessListRequired
    <3> QED
      BY <3>1, <3>2, <3>3, <3>4, <3>5 DEF CreateStep
  <2> QED
    BY <2>1 DEF TypeInv, LocalOK
<1>5. /\ \A q \in Replicas \ {r} : pc'[q] = pc[q] /\ ret'[q] = ret[q]
      /\ ~Deciding(r)'
  BY <1>3 DEF PersistName, PutStatus, CreateFailed, Created, Idle, Goto, Deciding,
              CreateLabels, TypeInv, LocalOK
<1>6. LocalCalm(r)
  BY <1>2, <1>4, <1>5 DEF LocalCalm, OthersRest
<1> QED
  BY <1>1, <1>6, CalmMove

(* Update and Delete begin to create nothing, and decide nothing.          *)
WorkLabels ==
    {"creds", "migrate", "purge", "describe", "roles", "enforcement", "addips", "removeips",
     "cleanup", "verify", "delcreds", "delete", "confirm", "clean", "release", "unfinal",
     "finish"}

LEMMA WorkCalm ==
    ASSUME TypeInv, NEW r \in Replicas,
           \/ \E l \in WorkLabels : Goto(r, l) /\ UNCHANGED ret
           \/ \E caller \in {"updated", "marked", "error", "cleaned"} : PutStatus(r, caller)
           \/ Finish(r)
           \/ Idle(r),
           UNCHANGED cr \/ \E c : cr' = [cr EXCEPT ![r] = c]
    PROVE  LocalCalm(r)
<1>1. /\ \A q \in Replicas \ {r} : pc'[q] = pc[q] /\ ret'[q] = ret[q]
      /\ ~Creating(r)' /\ ~Deciding(r)'
  BY DEF PutStatus, Finish, Idle, Goto, Creating, Deciding, WorkLabels, TypeInv, LocalOK
<1>2. \A q \in Replicas \ {r} : cr'[q] = cr[q]
  BY DEF TypeInv, LocalOK
<1> QED
  BY <1>1, <1>2 DEF LocalCalm, OthersRest

LEMMA UpdateQuiet ==
    ASSUME TypeInv, NEW r \in Replicas, UpdateStep(r)
    PROVE  IsQuiet(r)
<1>1. CASE FetchCredentials(r) \/ KeepStorage(r) \/ DeleteOldSecret(r) \/ DescribeKey(r)
  <2>1. /\ UNCHANGED <<api, cr, ret>>
        /\ \E l \in WorkLabels : Goto(r, l)
    BY <1>1 DEF FetchCredentials, KeepStorage, DeleteOldSecret, DescribeKey, local, WorkLabels
  <2> QED
    BY <2>1, WorkCalm, CalmMove
<1>2. CASE MigrateToKubernetes(r)
  <2>1. /\ UNCHANGED <<api, ret>>
        /\ \E l \in WorkLabels : Goto(r, l)
        /\ UNCHANGED cr \/ \E c : cr' = [cr EXCEPT ![r] = c]
    BY <1>2 DEF MigrateToKubernetes, Moved, WorkLabels
  <2> QED
    BY <2>1, WorkCalm, CalmMove
<1>3. CASE MigrateToAWS(r)
  <2>1. /\ UNCHANGED api
        /\ Idle(r) \/ \E l \in WorkLabels : Goto(r, l) /\ UNCHANGED ret
        /\ UNCHANGED cr \/ \E c : cr' = [cr EXCEPT ![r] = c]
    BY <1>3 DEF MigrateToAWS, Moved, Idle, WorkLabels, local
  <2> QED
    BY <2>1, WorkCalm, CalmMove
<1>4. CASE UpdateRoles(r) \/ UpdateEnforcement(r)
  <2>1. /\ UNCHANGED <<api, ret>>
        /\ \E l \in WorkLabels : Goto(r, l)
        /\ UNCHANGED cr \/ \E c : cr' = [cr EXCEPT ![r] = c]
    BY <1>4 DEF UpdateRoles, UpdateEnforcement, WorkLabels
  <2> QED
    BY <2>1, WorkCalm, CalmMove
<1>5. CASE AddNewIPs(r)
  <2>1. /\ UNCHANGED <<api, cr>>
        /\ \/ \E l \in WorkLabels : Goto(r, l) /\ UNCHANGED ret
           \/ PutStatus(r, "updated")
           \/ Finish(r)
    BY <1>5 DEF AddNewIPs, UpdateDone, WorkLabels
  <2> QED
    BY <2>1, WorkCalm, CalmMove
<1>6. CASE RemoveOldIPs(r)
  <2>1. /\ UNCHANGED api
        /\ PutStatus(r, "updated")
        /\ \E c : cr' = [cr EXCEPT ![r] = c]
    BY <1>6 DEF RemoveOldIPs, UpdateDone
  <2> QED
    BY <2>1, WorkCalm, CalmMove
<1> QED
  BY <1>1, <1>2, <1>3, <1>4, <1>5, <1>6 DEF UpdateStep

LEMMA DeleteQuiet ==
    ASSUME TypeInv, NEW r \in Replicas, DeleteStep(r), ~ForceRemoveFinalizer(r)
    PROVE  IsQuiet(r)
<1>1. CASE CleanupIPs(r) \/ VerifyFirst(r) \/ FetchForDelete(r) \/ ConfirmDeletion(r)
           \/ DeleteSecret(r)
  <2>1. /\ UNCHANGED <<api, cr>>
        /\ \/ \E l \in WorkLabels : Goto(r, l) /\ UNCHANGED ret
           \/ \E caller \in {"marked", "error", "cleaned"} : PutStatus(r, caller)
    BY <1>1 DEF CleanupIPs, VerifyFirst, FetchForDelete, ConfirmDeletion, DeleteSecret,
                local, WorkLabels
  <2> QED
    BY <2>1, WorkCalm, CalmMove
<1>2. CASE DeleteOrganization(r)
  <2>1. /\ UNCHANGED <<api, cr>>
        /\ \/ \E l \in WorkLabels : Goto(r, l) /\ UNCHANGED ret
           \/ PutStatus(r, "error")
    BY <1>2 DEF DeleteOrganization, WorkLabels
  <2> QED
    BY <2>1, WorkCalm, CalmMove
<1>3. CASE GetForRelease(r)
  <2>1. LocalCalm(r)
    BY <1>3, WorkCalm DEF GetForRelease, WorkLabels
  <2>2. ApiCalm
    BY <1>3, GotCopyCalm DEF GetForRelease, TypeInv, ApiCalm, api
  <2> QED
    BY <2>1, <2>2 DEF IsQuiet
<1> QED
  BY <1>1, <1>2, <1>3 DEF DeleteStep

-----------------------------------------------------------------------------
(* The environment, and the theorem.                                       *)

LEMMA CreatedOnce == TypeInv /\ MaxApplies = 0 => ~UserApply
BY DEF TypeInv, BoundsOK, UserApply

LEMMA EnvironmentSafe ==
    ASSUME TypeInv, CreationInv, MaxApplies = 0, Environment
    PROVE  CreationInv'
<1>1. CASE UserEdit \/ UserClearName
  <2>1. PICK new : /\ Edit(new) /\ obj.present /\ UNCHANGED <<pc, ret, cr>>
                   /\ new.ann = obj.ann
    <3>1. /\ \A s \in Specs : [obj EXCEPT !.spec = s].ann = obj.ann
          /\ [obj EXCEPT !.ext = None].ann = obj.ann
      BY Fields DEF TypeInv, ApiOK, Objects
    <3> QED
      BY <1>1, <3>1 DEF UserEdit, UserClearName, local
  <2> QED
    BY <2>1, EditStep DEF TypeInv
<1>2. CASE UserDelete
  <2>1. PICK new : /\ Edit(new) /\ obj.present /\ UNCHANGED <<pc, ret, cr>>
                   /\ new.present => new.ann = obj.ann
    <3>1. [obj EXCEPT !.deleting = TRUE].ann = obj.ann
      BY DEF TypeInv, ApiOK, Objects
    <3>2. ~Absent.present
      BY DEF Absent, NewObject
    <3> QED
      BY <1>2, <3>1, <3>2 DEF UserDelete, local
  <2> QED
    BY <2>1, EditStep DEF TypeInv
<1>3. ASSUME NEW o \in OrgIds, ConsoleCreate(o) \/ ConsoleDelete(o)
      PROVE  CreationInv'
  BY <1>3 DEF ConsoleCreate, ConsoleDelete, api, local, CreationInv, LockHeld, ForeseesNone,
              CacheExact, OneCreator, Creating, Deciding
<1> QED
  BY <1>1, <1>2, <1>3, CreatedOnce DEF Environment

LEMMA CacheSyncSafe ==
    ASSUME TypeInv, CreationInv, NEW r \in Replicas, CacheSync(r)
    PROVE  CreationInv'
<1>1. /\ UNCHANGED <<obj, pc, ret, cr>>
      /\ \A q \in Replicas : "cr" \in fresh'[q] => "cr" \in fresh[q]
      /\ \A q \in Replicas \ {r} : fresh'[q] = fresh[q] /\ cache'[q] = cache[q]
      /\ cache'[r] = obj
  BY DEF CacheSync, local, TypeInv, ApiOK
<1>2. \A q \in Replicas : (Creating(q)' <=> Creating(q)) /\ (Deciding(q)' <=> Deciding(q))
  BY <1>1 DEF Creating, Deciding
<1> QED
  BY <1>1, <1>2 DEF CreationInv, LockHeld, ForeseesNone, CacheExact, OneCreator

LEMMA CrashSafe ==
    ASSUME TypeInv, CreationInv, NEW r \in Replicas, Crash(r)
    PROVE  CreationInv'
<1>1. /\ UNCHANGED obj
      /\ \A q \in Replicas \ {r} : /\ pc'[q] = pc[q] /\ ret'[q] = ret[q] /\ cr'[q] = cr[q]
                                   /\ fresh'[q] = fresh[q] /\ cache'[q] = cache[q]
      /\ cache'[r] = obj
      /\ ~Creating(r)' /\ ~Deciding(r)'
  BY DEF Crash, Idle, Goto, Creating, Deciding, TypeInv, LocalOK, ApiOK
<1>2. \A q \in Replicas : /\ Creating(q)' => q # r /\ Creating(q)
                          /\ Deciding(q)' => q # r /\ Deciding(q)
  BY <1>1 DEF Creating, Deciding
<1> QED
  BY <1>1, <1>2 DEF CreationInv, LockHeld, ForeseesNone, CacheExact, OneCreator

LEMMA InitSafe == Init => CreationInv
BY DEF Init, CreationInv, LockHeld, ForeseesNone, CacheExact, OneCreator, Creating, Deciding

(* The steps of a reconcile that take or release the lock, or touch the    *)
(* finalizer.                                                              *)
LockStep(r) ==
    \/ Start(r) \/ AddFinalizer(r) \/ RemoveFinalizer(r) \/ ForceRemoveFinalizer(r)
    \/ MarkPending(r) \/ UpdateCriticalAnnotations(r)

LEMMA ReconcileQuiet ==
    ASSUME TypeInv, NEW r \in Replicas, Reconcile(r), ~LockStep(r)
    PROVE  IsQuiet(r)
<1>1. CASE ReconcilerStep(r)
  BY <1>1, UpdateManagedStatusQuiet, GetLatestQuiet, PutNameQuiet, AdoptStatusQuiet,
     UpdateStatusQuiet
  DEF ReconcilerStep, LockStep
<1> QED
  BY <1>1, ObserveQuiet, CreateQuiet, UpdateQuiet, DeleteQuiet DEF Reconcile, LockStep

LEMMA ReconcileSafe ==
    ASSUME TypeInv, CreationInv, NEW r \in Replicas, Reconcile(r)
    PROVE  CreationInv'
<1>1. CASE LockStep(r)
  BY <1>1, StartSafe, AddFinalizerSafe, RemoveFinalizerSafe, MarkPendingSafe,
     UpdateCriticalAnnotationsSafe
  DEF LockStep
<1> QED
  BY <1>1, ReconcileQuiet, QuietStep

LEMMA NextSafe ==
    ASSUME MaxApplies = 0
    PROVE  TypeInv /\ CreationInv /\ [Next]_vars => CreationInv'
<1> SUFFICES ASSUME TypeInv, CreationInv, [Next]_vars PROVE CreationInv'
  OBVIOUS
<1>1. CASE UNCHANGED vars
  BY <1>1 DEF vars, api, local, CreationInv, LockHeld, ForeseesNone, CacheExact, OneCreator,
              Creating, Deciding
<1> QED
  BY <1>1, ReconcileSafe, CacheSyncSafe, CrashSafe, EnvironmentSafe DEF Next

(* The strengthening holds throughout: whoever creates holds the pending   *)
(* annotation, and no other replica has a current copy without it.         *)
THEOREM CreationInvariance ==
    ASSUME MaxApplies = 0
    PROVE  Spec => []CreationInv
BY InitSafe, NextSafe, TypeInvariance, PTL DEF Spec

(* However many replicas run without leader election, and whatever fails,  *)
(* crashes or lags, a creation belongs to one of them at a time.           *)
THEOREM OneCreatorAtATime ==
    ASSUME MaxApplies = 0
    PROVE  Spec => []OneCreator
<1>1. CreationInv => OneCreator
  BY DEF CreationInv
<1> QED
  BY <1>1, CreationInvariance, PTL

-----------------------------------------------------------------------------
(* No duplicate organization.                                              *)

NothingToDuplicate == \A r \in Replicas : pc[r] = "post" => Ours = {}

DuplicateInv == NothingToDuplicate /\ NoDuplicateOrg

(* A step that neither posts nor reaches POST leaves what is ours, or less.*)
LEMMA NoNewOrg ==
    ASSUME DuplicateInv, Ours' \subseteq Ours,
           \A q \in Replicas : pc'[q] = "post" => pc[q] = "post"
    PROVE  DuplicateInv'
BY DEF DuplicateInv, NothingToDuplicate, NoDuplicateOrg

LEMMA FindExistingOnce ==
    ASSUME TypeInv, DuplicateInv, "404" \notin Faults, NEW r \in Replicas, FindExisting(r)
    PROVE  DuplicateInv'
<1>1. Ours' = Ours /\ \A q \in Replicas \ {r} : pc'[q] = pc[q]
  BY DEF FindExisting, atlas, Ours, Live, PersistName, Goto, CreateFailed, Created,
         TypeInv, LocalOK
<1>2. pc'[r] = "post" => Ours = {}
  <2>1. ASSUME pc'[r] = "post" PROVE Live = {}
    <3>1. PICK rep \in Replies("2xx") : NoneFound(doRequest(rep.answer))
      BY <2>1 DEF FindExisting, PersistName, CreateFailed, Created, Goto, TypeInv, LocalOK
    <3>2. rep.answer # "404"
      BY DEF Replies, Reply, Ambiguous
    <3>3. ~IsNotFoundError(doRequest(rep.answer))
      BY <3>2, BoundsAssumption DEF Replies, Reply, Answers, Ambiguous, IsNotFoundError,
                                    doRequest, TypeOf
    <3> QED
      BY <3>1, <3>3 DEF NoneFound
  <2> QED
    BY <2>1 DEF Ours
<1> QED
  BY <1>1, <1>2 DEF DuplicateInv, NothingToDuplicate, NoDuplicateOrg

LEMMA CreateOrganizationOnce ==
    ASSUME TypeInv, OneCreator, DuplicateInv, NEW r \in Replicas, CreateOrganization(r)
    PROVE  DuplicateInv'
<1>1. \A q \in Replicas : pc[q] = "post" => q = r
  BY DEF CreateOrganization, OneCreator, Creating
<1>2. \A q \in Replicas : pc'[q] # "post"
  BY <1>1 DEF CreateOrganization, PersistName, CreateFailed, Created, Goto, TypeInv, LocalOK
<1>3. Ours = {}
  BY DEF CreateOrganization, DuplicateInv, NothingToDuplicate
<1>4. PICK o \in OrgIds : orgs' = [orgs EXCEPT ![o] = "live"] \/ UNCHANGED orgs
  BY DEF CreateOrganization
<1>5. \A p \in Ours' : p = o
  BY <1>3, <1>4 DEF Ours, Live, TypeInv, AtlasOK
<1> QED
  BY <1>2, <1>5 DEF DuplicateInv, NothingToDuplicate, NoDuplicateOrg

(* Every other step of a reconcile goes elsewhere than to POST /orgs.      *)
GoesElsewhere(r) == \E l \in Labels \ {"post"} : Goto(r, l)

LEMMA ElsewhereOnce ==
    ASSUME TypeInv, DuplicateInv, NEW r \in Replicas, GoesElsewhere(r), Ours' \subseteq Ours
    PROVE  DuplicateInv'
BY NoNewOrg DEF GoesElsewhere, Goto, TypeInv, LocalOK

LEMMA SharedElsewhere ==
    ASSUME NEW r \in Replicas,
           \/ Finish(r) \/ Idle(r) \/ CreateFailed(r) \/ PersistFailed(r) \/ NamePersisted(r)
           \/ (pc[r] = "finalizer" /\ Onward(r))
           \/ (\E c, result : Created(r, c, result)) \/ (\E next : Observed(r, next))
           \/ (\E ok : StatusPut(r, ok))
           \/ (\E caller : PutStatus(r, caller) \/ PersistName(r, caller))
    PROVE  GoesElsewhere(r)
<1>1. CASE pc[r] = "finalizer" /\ Onward(r)
  BY <1>1 DEF GoesElsewhere, Onward, Goto, Labels
<1>2. CASE \E next : Observed(r, next)
  BY <1>2 DEF GoesElsewhere, Observed, Labels
<1>3. CASE \/ Finish(r) \/ Idle(r) \/ CreateFailed(r) \/ PersistFailed(r)
           \/ (\E c, result : Created(r, c, result))
           \/ (\E caller : PutStatus(r, caller) \/ PersistName(r, caller))
  BY <1>3 DEF GoesElsewhere, Finish, Idle, CreateFailed, PersistFailed, Created, PutStatus,
              PersistName, Labels
<1>4. CASE NamePersisted(r)
  <2>1. Observed(r, "update") \/ Goto(r, "store") \/ Goto(r, "adopted")
    BY <1>4 DEF NamePersisted
  <2> QED
    BY <2>1, <1>2 DEF GoesElsewhere, Labels
<1>5. CASE \E ok : StatusPut(r, ok)
  <2>1. \/ \E c, result : Created(r, c, result)
        \/ Goto(r, "verify") \/ Goto(r, "release") \/ Finish(r)
    BY <1>5 DEF StatusPut
  <2> QED
    BY <2>1, <1>3 DEF GoesElsewhere, Labels
<1> QED
  BY <1>1, <1>2, <1>3, <1>4, <1>5

LEMMA ReconcilerElsewhere ==
    ASSUME NEW r \in Replicas, ReconcilerStep(r)
    PROVE  GoesElsewhere(r) /\ UNCHANGED orgs
<1>1. UNCHANGED orgs
  BY DEF ReconcilerStep, Start, AddFinalizer, RemoveFinalizer, MarkPending,
         UpdateCriticalAnnotations, UpdateManagedStatus, GetLatest, PutName, AdoptStatus,
         UpdateStatus, RereadForStatus, RetryStatus, atlas
<1>2. CASE Start(r) \/ AddFinalizer(r) \/ RemoveFinalizer(r) \/ MarkPending(r)
  <2>1. \/ Goto(r, "observe") \/ Goto(r, "find") \/ Finish(r)
        \/ (pc[r] = "finalizer" /\ Onward(r))
    BY <1>2 DEF Start, AddFinalizer, RemoveFinalizer, MarkPending
  <2> QED
    BY <1>1, <2>1, SharedElsewhere DEF GoesElsewhere, Labels
<1>3. CASE UpdateCriticalAnnotations(r) \/ UpdateManagedStatus(r)
  BY <1>1, <1>3, SharedElsewhere DEF UpdateCriticalAnnotations, UpdateManagedStatus
<1>4. CASE GetLatest(r) \/ PutName(r)
  <2>1. \/ \E l \in {"put", "reput", "reget"} : Goto(r, l)
        \/ PersistFailed(r) \/ NamePersisted(r)
    BY <1>4 DEF GetLatest, PutName
  <2> QED
    BY <1>1, <2>1, SharedElsewhere DEF GoesElsewhere, Labels
<1>5. CASE AdoptStatus(r)
  <2>1. \/ PersistFailed(r) \/ (\E c, result : Created(r, c, result))
        \/ (\E next : Observed(r, next))
    BY <1>5 DEF AdoptStatus
  <2> QED
    BY <1>1, <2>1, SharedElsewhere
<1>6. CASE UpdateStatus(r) \/ RereadForStatus(r) \/ RetryStatus(r)
  <2>1. \/ \E l \in {"reread", "restatus"} : Goto(r, l)
        \/ \E ok : StatusPut(r, ok)
    BY <1>6 DEF UpdateStatus, RereadForStatus, RetryStatus
  <2> QED
    BY <1>1, <2>1, SharedElsewhere DEF GoesElsewhere, Labels
<1> QED
  BY <1>1, <1>2, <1>3, <1>4, <1>5, <1>6 DEF ReconcilerStep

LEMMA ObserveElsewhere ==
    ASSUME NEW r \in Replicas, ObserveStep(r)
    PROVE  GoesElsewhere(r) /\ UNCHANGED orgs
<1>1. CASE ObserveCurrent(r)
  <2>1. UNCHANGED orgs /\ \E next : Observed(r, next)
    BY <1>1 DEF ObserveCurrent, atlas
  <2> QED
    BY <2>1, SharedElsewhere
<1>2. CASE Restore(r) \/ SearchByName(r) \/ ObserveDeleting(r)
  <2>1. UNCHANGED orgs /\ (\/ Finish(r) \/ (\E next : Observed(r, next))
                          \/ (\E caller : PersistName(r, caller)))
    BY <1>2 DEF Restore, SearchByName, ObserveDeleting, atlas
  <2> QED
    BY <2>1, SharedElsewhere
<1> QED
  BY <1>1, <1>2 DEF ObserveStep

LEMMA CreateElsewhere ==
    ASSUME NEW r \in Replicas, StoreKey(r) \/ ProvisionIPs(r) \/ EnableAPIAccessListRequired(r)
    PROVE  GoesElsewhere(r) /\ UNCHANGED orgs
<1>1. CASE StoreKey(r)
  <2>1. UNCHANGED orgs /\ (CreateFailed(r) \/ Idle(r) \/ Goto(r, "ips"))
    BY <1>1 DEF StoreKey, atlas
  <2> QED
    BY <2>1, SharedElsewhere DEF GoesElsewhere, Labels
<1>2. CASE ProvisionIPs(r) \/ EnableAPIAccessListRequired(r)
  <2>1. UNCHANGED orgs /\ (Goto(r, "enforce") \/ PutStatus(r, "created"))
    BY <1>2 DEF ProvisionIPs, EnableAPIAccessListRequired
  <2> QED
    BY <2>1, SharedElsewhere DEF GoesElsewhere, Labels
<1> QED
  BY <1>1, <1>2

LEMMA WorkElsewhere ==
    ASSUME NEW r \in Replicas,
           \/ \E l \in WorkLabels : Goto(r, l)
           \/ \E caller : PutStatus(r, caller)
           \/ Finish(r) \/ Idle(r)
    PROVE  GoesElsewhere(r)
BY SharedElsewhere DEF GoesElsewhere, WorkLabels, Labels

LEMMA UpdateElsewhere ==
    ASSUME NEW r \in Replicas, UpdateStep(r)
    PROVE  GoesElsewhere(r) /\ UNCHANGED orgs
<1>1. UNCHANGED orgs
  BY DEF UpdateStep, FetchCredentials, MigrateToKubernetes, MigrateToAWS, KeepStorage,
         DeleteOldSecret, DescribeKey, UpdateRoles, UpdateEnforcement, AddNewIPs,
         RemoveOldIPs, atlas
<1>2. \/ \E l \in WorkLabels : Goto(r, l)
      \/ PutStatus(r, "updated") \/ Finish(r) \/ Idle(r)
  <2>1. CASE FetchCredentials(r) \/ KeepStorage(r) \/ DeleteOldSecret(r) \/ DescribeKey(r)
    BY <2>1 DEF FetchCredentials, KeepStorage, DeleteOldSecret, DescribeKey, WorkLabels
  <2>2. CASE MigrateToKubernetes(r) \/ MigrateToAWS(r)
    BY <2>2 DEF MigrateToKubernetes, MigrateToAWS, WorkLabels
  <2>3. CASE UpdateRoles(r) \/ UpdateEnforcement(r)
    BY <2>3 DEF UpdateRoles, UpdateEnforcement, WorkLabels
  <2>4. CASE AddNewIPs(r) \/ RemoveOldIPs(r)
    BY <2>4 DEF AddNewIPs, RemoveOldIPs, UpdateDone, WorkLabels
  <2> QED
    BY <2>1, <2>2, <2>3, <2>4 DEF UpdateStep
<1> QED
  BY <1>1, <1>2, WorkElsewhere

LEMMA DeletedOurs ==
    ASSUME AtlasOK, NEW o, Deleted(o)
    PROVE  Ours' \subseteq Ours
BY DEF AtlasOK, Deleted, Ours, Live

LEMMA DeleteElsewhere ==
    ASSUME TypeInv, NEW r \in Replicas, DeleteStep(r)
    PROVE  GoesElsewhere(r) /\ Ours' \subseteq Ours
<1>1. CASE DeleteOrganization(r)
  <2>1. PutStatus(r, "error") \/ \E l \in WorkLabels : Goto(r, l)
    BY <1>1 DEF DeleteOrganization, WorkLabels
  <2>2. Ours' \subseteq Ours
    BY <1>1, DeletedOurs DEF DeleteOrganization, atlas, Ours, Live, TypeInv
  <2> QED
    BY <2>1, <2>2, WorkElsewhere
<1>2. CASE ~DeleteOrganization(r)
  <2>1. UNCHANGED orgs
    BY <1>2 DEF DeleteStep, CleanupIPs, VerifyFirst, FetchForDelete, ConfirmDeletion,
                DeleteSecret, GetForRelease, ForceRemoveFinalizer, atlas
  <2>2. \/ \E l \in WorkLabels : Goto(r, l)
        \/ (\E caller : PutStatus(r, caller)) \/ Finish(r)
    BY <1>2 DEF DeleteStep, CleanupIPs, VerifyFirst, FetchForDelete, ConfirmDeletion,
                DeleteSecret, GetForRelease, ForceRemoveFinalizer, WorkLabels
  <2> QED
    BY <2>1, <2>2, WorkElsewhere DEF Ours, Live
<1> QED
  BY <1>1, <1>2

LEMMA ReconcileOnce ==
    ASSUME TypeInv, OneCreator, DuplicateInv, "404" \notin Faults,
           NEW r \in Replicas, Reconcile(r)
    PROVE  DuplicateInv'
<1>1. CASE FindExisting(r)
  BY <1>1, FindExistingOnce
<1>2. CASE CreateOrganization(r)
  BY <1>2, CreateOrganizationOnce
<1>3. CASE ~FindExisting(r) /\ ~CreateOrganization(r)
  <2>1. GoesElsewhere(r) /\ (UNCHANGED orgs \/ Ours' \subseteq Ours)
    BY <1>3, ReconcilerElsewhere, ObserveElsewhere, CreateElsewhere, UpdateElsewhere,
       DeleteElsewhere
    DEF Reconcile, CreateStep
  <2>2. Ours' \subseteq Ours
    BY <2>1 DEF Ours, Live
  <2> QED
    BY <2>1, <2>2, ElsewhereOnce
<1> QED
  BY <1>1, <1>2, <1>3

LEMMA ConsoleOurs ==
    ASSUME TypeInv, NEW o \in OrgIds, ConsoleCreate(o) \/ ConsoleDelete(o)
    PROVE  Ours' \subseteq Ours /\ UNCHANGED pc
BY DEF ConsoleCreate, ConsoleDelete, Deleted, Ours, Live, TypeInv, AtlasOK

LEMMA NextOnce ==
    ASSUME "404" \notin Faults
    PROVE  TypeInv /\ OneCreator /\ DuplicateInv /\ [Next]_vars => DuplicateInv'
<1> SUFFICES ASSUME TypeInv, OneCreator, DuplicateInv, [Next]_vars PROVE DuplicateInv'
  OBVIOUS
<1>1. ASSUME NEW r \in Replicas, Reconcile(r) PROVE DuplicateInv'
  BY <1>1, ReconcileOnce
<1>2. ASSUME NEW r \in Replicas, Crash(r) PROVE DuplicateInv'
  BY <1>2, SharedElsewhere, ElsewhereOnce DEF Crash, atlas, Ours, Live
<1>3. ASSUME NEW o \in OrgIds, ConsoleCreate(o) \/ ConsoleDelete(o) PROVE DuplicateInv'
  BY <1>3, ConsoleOurs, NoNewOrg
<1>4. CASE UNCHANGED <<pc, orgs>>
  BY <1>4, NoNewOrg DEF Ours, Live
<1>5. \/ \E r \in Replicas : Reconcile(r) \/ Crash(r)
      \/ \E o \in OrgIds : ConsoleCreate(o) \/ ConsoleDelete(o)
      \/ UNCHANGED <<pc, orgs>>
  BY DEF Next, Environment, CacheSync, UserApply, UserEdit, UserClearName, UserDelete,
         vars, atlas
<1> QED
  BY <1>1, <1>2, <1>3, <1>4, <1>5

LEMMA InitOnce == Init => DuplicateInv
BY DEF Init, DuplicateInv, NothingToDuplicate, NoDuplicateOrg, Ours, Live

(* A single replica needs no lock, however often the resource is applied.  *)
OneReplica == \A q, r \in Replicas : q = r

(* While one replica is about to POST, there is nothing to duplicate.      *)
THEOREM DuplicateInvariance ==
    ASSUME MaxApplies = 0 \/ OneReplica, "404" \notin Faults
    PROVE  Spec => []DuplicateInv
<1>1. Spec => []OneCreator
  <2>1. CASE MaxApplies = 0
    BY <2>1, OneCreatorAtATime
  <2>2. CASE OneReplica
    <3>1. OneReplica => OneCreator
      BY DEF OneReplica, OneCreator
    <3>2. OneCreator
      BY <2>2, <3>1
    <3> QED
      BY <3>2, PTL
  <2> QED
    BY <2>1, <2>2
<1> QED
  BY <1>1, InitOnce, NextOnce, TypeInvariance, PTL DEF Spec

(* At most one organization is ever alive that was created for the         *)
(* resource: the lock covers the search and the POST alike, of any number  *)
(* of replicas while the resource is not re-created, of one in any case.   *)
THEOREM NoDuplicate ==
    ASSUME MaxApplies = 0 \/ OneReplica, "404" \notin Faults
    PROVE  Spec => []NoDuplicateOrg
<1>1. DuplicateInv => NoDuplicateOrg
  BY DEF DuplicateInv
<1> QED
  BY <1>1, DuplicateInvariance, PTL

=============================================================================
