----------------------------- MODULE KeyProofs -----------------------------
(***************************************************************************)
(* The organization's only key survives the moves between the stores, and  *)
(* what outlives the resource is at most an organization nobody has a key  *)
(* for: both as long as no answer of Atlas is taken for a deletion it does *)
(* not confirm.                                                            *)
(*                                                                         *)
(* The argument: all keys are keys of the one organization (OnceProofs),   *)
(* so that writing one over another loses nothing (KeysMade); a copy is    *)
(* deleted when another was just written (PurgeSafe), or the organization  *)
(* is gone, or no copy was there (CleanSafe).                              *)
(***************************************************************************)
EXTENDS OnceProofs

(* The answers that never pass for a deletion.                             *)
PlainFaults == Faults \subseteq {"400", "401", "403", "409"} /\ OpaqueIds = {}

-----------------------------------------------------------------------------
(* The inductive invariant.                                                *)

KeysMade ==
    /\ \A r \in Replicas : key[r] \in Made \cup {None}
    /\ \A n \in Names : aws[n] \in Made \cup {None} /\ k8s[n] \in Made \cup {None}

(* Where a replica has the key that it is about to write.                  *)
Carries(label, caller) ==
    \/ label \in {"store", "migrate", "purge"}
    \/ label \in {"get", "put", "reget", "reput"} /\ caller = "created"

KeyHeld(r) == Carries(pc[r], ret[r]) => key[r] # None

(* The resource's organization is deleted.                                 *)
Dead == \E o \in Made : orgs[o] = "gone"

(* The old copy of the key is deleted where the new one is written.        *)
PurgeSafe(r) ==
    pc[r] = "purge" =>
        /\ OneReplica
        /\ IF cr[r].st.stype = "AWS" THEN \E n \in Names : aws[n] = key[r]
                                     ELSE \E n \in Names : k8s[n] = key[r]

(* The key is deleted when it is of no use, or not there.                  *)
CleanSafe(r) ==
    pc[r] = "clean" =>
        Dead \/ (cr[r].st.stype # "Kubernetes" /\ aws[AwsSecretName(cr[r])] = None)

ConfirmSafe(r) == pc[r] = "confirm" => Dead

KeyHere(r) == KeyHeld(r) /\ PurgeSafe(r) /\ CleanSafe(r) /\ ConfirmSafe(r)

KeyInv == KeysMade /\ \A r \in Replicas : KeyHere(r)

-----------------------------------------------------------------------------
(* What a step leaves of the other replicas.                               *)

Elsewhere(r) == OthersRest(r) /\ \A q \in Replicas \ {r} : key'[q] = key[q]

(* What most actions do to the keys.                                       *)
Keyless(r) ==
    /\ UNCHANGED stores
    /\ key'[r] \in {key[r], None}
    /\ \A q \in Replicas \ {r} : key'[q] = key[q]

LEMMA IdleKeyless ==
    ASSUME TypeInv, NEW r \in Replicas, Idle(r), UNCHANGED stores
    PROVE  Keyless(r)
BY DEF Idle, Keyless, TypeInv, LocalOK

LEMMA SameKeyless ==
    ASSUME TypeInv, NEW r \in Replicas, UNCHANGED <<key, stores>>
    PROVE  Keyless(r)
BY DEF Keyless

LEMMA LockElsewhere ==
    ASSUME TypeInv, CreationInv, NEW r \in Replicas, LockStep(r)
    PROVE  OthersRest(r) /\ UNCHANGED <<key, stores>>
<1>1. CASE AddFinalizer(r) \/ RemoveFinalizer(r) \/ ForceRemoveFinalizer(r)
  <2>1. OthersRest(r)
    <3>1. LocalCalm(r)
      BY <1>1, AddFinalizerCalm, RemoveFinalizerCalm
    <3> QED
      BY <3>1 DEF LocalCalm
  <2> QED
    BY <1>1, <2>1 DEF AddFinalizer, RemoveFinalizer, ForceRemoveFinalizer
<1>2. CASE Start(r)
  BY <1>2 DEF Start, Goto, OthersRest, TypeInv, LocalOK
<1>3. CASE MarkPending(r)
  <2>1. UNCHANGED cr \/ \E c : cr' = [cr EXCEPT ![r] = c]
    BY <1>3 DEF MarkPending, PutManaged
  <2>2. Finish(r) \/ (Goto(r, "find") /\ UNCHANGED ret)
    BY <1>3 DEF MarkPending
  <2> QED
    BY <1>3, <2>1, <2>2 DEF MarkPending, Finish, Goto, OthersRest, TypeInv, LocalOK
<1>4. CASE UpdateCriticalAnnotations(r)
  BY <1>4 DEF UpdateCriticalAnnotations, Finish, Goto, OthersRest, TypeInv, LocalOK
<1> QED
  BY <1>1, <1>2, <1>3, <1>4 DEF LockStep

(* The steps that write, delete or take up a key.                          *)
KeyStep(r) ==
    \/ CreateOrganization(r) \/ StoreKey(r) \/ FetchCredentials(r)
    \/ MigrateToKubernetes(r) \/ MigrateToAWS(r) \/ DeleteOldSecret(r)
    \/ FetchForDelete(r) \/ DeleteSecret(r)

LEMMA ReconcileKeyless ==
    ASSUME TypeInv, CreationInv, NEW r \in Replicas, Reconcile(r), ~KeyStep(r)
    PROVE  Keyless(r)
<1>1. CASE LockStep(r)
  BY <1>1, LockElsewhere, SameKeyless
<1>2. CASE UpdateManagedStatus(r)
  BY <1>2, IdleKeyless DEF UpdateManagedStatus
<1>3. CASE ReconcilerStep(r) /\ ~LockStep(r) /\ ~UpdateManagedStatus(r)
  BY <1>3, SameKeyless DEF ReconcilerStep, LockStep, GetLatest, PutName, AdoptStatus,
                           UpdateStatus, RereadForStatus, RetryStatus
<1>4. CASE ObserveStep(r)
  BY <1>4, SameKeyless DEF ObserveStep, Restore, SearchByName, ObserveDeleting, ObserveCurrent
<1>5. CASE CreateStep(r)
  BY <1>5, SameKeyless DEF KeyStep, CreateStep, FindExisting, ProvisionIPs,
                           EnableAPIAccessListRequired
<1>6. CASE UpdateStep(r)
  BY <1>6, SameKeyless DEF KeyStep, UpdateStep, KeepStorage, DescribeKey, UpdateRoles,
                           UpdateEnforcement, AddNewIPs, RemoveOldIPs, local
<1>7. CASE DeleteStep(r)
  BY <1>1, <1>7, SameKeyless DEF KeyStep, LockStep, DeleteStep, CleanupIPs, VerifyFirst,
                           DeleteOrganization, ConfirmDeletion, GetForRelease, local
<1> QED
  BY <1>1, <1>2, <1>3, <1>4, <1>5, <1>6, <1>7 DEF Reconcile

LEMMA ReconcileElsewhere ==
    ASSUME TypeInv, CreationInv, NEW r \in Replicas, Reconcile(r)
    PROVE  Elsewhere(r)
<1>1. OthersRest(r)
  BY LockElsewhere, ReconcileQuiet DEF IsQuiet, LocalCalm
<1>2. CASE ~KeyStep(r)
  BY <1>1, <1>2, ReconcileKeyless DEF Keyless, Elsewhere
<1>3. CASE KeyStep(r)
  <2>1. UNCHANGED key \/ \E k : key' = [key EXCEPT ![r] = k]
    BY <1>3 DEF KeyStep, CreateOrganization, StoreKey, FetchCredentials, MigrateToKubernetes,
                MigrateToAWS, DeleteOldSecret, FetchForDelete, DeleteSecret, local, Idle
  <2> QED
    BY <1>1, <2>1 DEF Elsewhere, TypeInv, LocalOK
<1> QED
  BY <1>2, <1>3

-----------------------------------------------------------------------------
(* Where the steps lead.                                                   *)

(* Nowhere that KeyHere says anything of.                                  *)
Harmless(r) ==
    /\ ~Carries(pc'[r], ret'[r])
    /\ pc'[r] \notin {"clean", "confirm"}

LEMMA HarmlessHere ==
    ASSUME NEW r \in Replicas, Harmless(r)
    PROVE  KeyHere(r)'
BY DEF Harmless, Carries, KeyHere, KeyHeld, PurgeSafe, CleanSafe, ConfirmSafe

LEMMA SharedHarmless ==
    ASSUME TypeInv, NEW r \in Replicas,
           \/ Finish(r) \/ Idle(r) \/ CreateFailed(r) \/ (\E c, a : Created(r, c, a))
           \/ PersistFailed(r)
           \/ (pc[r] = "finalizer" /\ Onward(r)) \/ (\E next : Observed(r, next))
           \/ (\E ok : StatusPut(r, ok)) \/ (\E caller : PutStatus(r, caller))
           \/ PersistName(r, "restore") \/ PersistName(r, "adopt") \/ PersistName(r, "reuse")
           \/ \E l \in {"observe", "find", "reread", "restatus", "adopted", "post", "ips",
                        "enforce", "describe", "roles", "enforcement", "addips", "removeips",
                        "verify", "delcreds", "delete", "release", "unfinal", "finish"} :
                 Goto(r, l)
    PROVE  Harmless(r)
<1>1. \A l \in Labels \ {"store", "migrate", "purge", "clean", "confirm", "get", "put", "reget",
                         "reput"} : Goto(r, l) => Harmless(r)
  BY DEF Harmless, Carries, Goto, TypeInv, LocalOK
<1>2. CASE pc[r] = "finalizer" /\ Onward(r)
  BY <1>1, <1>2 DEF Onward, Labels
<1>3. CASE \E next : Observed(r, next)
  BY <1>1, <1>3 DEF Observed, Labels
<1>4. CASE \E ok : StatusPut(r, ok)
  BY <1>1, <1>4 DEF StatusPut, Created, Finish, Labels
<1>5. CASE \E caller : PutStatus(r, caller)
  BY <1>1, <1>5 DEF PutStatus, Labels
<1>6. CASE PersistName(r, "restore") \/ PersistName(r, "adopt") \/ PersistName(r, "reuse")
  BY <1>6 DEF PersistName, Harmless, Carries, Goto, TypeInv, LocalOK
<1>7. CASE \/ Finish(r) \/ Idle(r) \/ CreateFailed(r) \/ (\E c, a : Created(r, c, a))
           \/ PersistFailed(r)
  BY <1>1, <1>7 DEF Finish, Idle, CreateFailed, Created, PersistFailed, Labels
<1>8. CASE \E l \in {"observe", "find", "reread", "restatus", "adopted", "post", "ips",
                     "enforce", "describe", "roles", "enforcement", "addips", "removeips",
                     "verify", "delcreds", "delete", "release", "unfinal", "finish"} :
              Goto(r, l)
  BY <1>1, <1>8 DEF Labels
<1> QED
  BY <1>2, <1>3, <1>4, <1>5, <1>6, <1>7, <1>8

(* The steps that lead to a label KeyHere speaks of, the key's own apart.  *)
NameStep(r) == GetLatest(r) \/ PutName(r)
GoneStepOf(r) == VerifyFirst(r) \/ DeleteOrganization(r) \/ ConfirmDeletion(r)

LEMMA ReconcileHarmless ==
    ASSUME TypeInv, NEW r \in Replicas, Reconcile(r), ~KeyStep(r), ~NameStep(r),
           ~GoneStepOf(r)
    PROVE  Harmless(r)
<1>1. CASE ReconcilerStep(r)
  <2>1. CASE Start(r) \/ AddFinalizer(r) \/ RemoveFinalizer(r) \/ MarkPending(r)
    BY <2>1, SharedHarmless DEF Start, AddFinalizer, RemoveFinalizer, MarkPending
  <2>2. CASE UpdateCriticalAnnotations(r) \/ UpdateManagedStatus(r) \/ AdoptStatus(r)
    BY <2>2, SharedHarmless DEF UpdateCriticalAnnotations, UpdateManagedStatus, AdoptStatus
  <2>3. CASE UpdateStatus(r) \/ RereadForStatus(r) \/ RetryStatus(r)
    BY <2>3, SharedHarmless DEF UpdateStatus, RereadForStatus, RetryStatus
  <2> QED
    BY <1>1, <2>1, <2>2, <2>3 DEF ReconcilerStep, NameStep
<1>2. CASE ObserveStep(r)
  BY <1>2, SharedHarmless DEF ObserveStep, Restore, SearchByName, ObserveDeleting,
                              ObserveCurrent
<1>3. CASE CreateStep(r)
  BY <1>3, SharedHarmless DEF KeyStep, CreateStep, FindExisting, ProvisionIPs,
                              EnableAPIAccessListRequired
<1>4. CASE UpdateStep(r)
  BY <1>4, SharedHarmless DEF KeyStep, UpdateStep, KeepStorage, DescribeKey, UpdateRoles,
                              UpdateEnforcement, AddNewIPs, RemoveOldIPs, UpdateDone
<1>5. CASE DeleteStep(r)
  BY <1>5, SharedHarmless DEF KeyStep, GoneStepOf, DeleteStep, CleanupIPs, GetForRelease,
                              ForceRemoveFinalizer
<1> QED
  BY <1>1, <1>2, <1>3, <1>4, <1>5 DEF Reconcile

-----------------------------------------------------------------------------
(* Where the key leads: the labels KeyHere speaks of.                      *)

LEMMA NameHere ==
    ASSUME TypeInv, NEW r \in Replicas, KeyHeld(r), NameStep(r)
    PROVE  KeyHere(r)'
<1>1. UNCHANGED key
  BY DEF NameStep, GetLatest, PutName
<1>2. \/ Harmless(r)
      \/ /\ UNCHANGED ret /\ pc[r] \in {"get", "put", "reget", "reput"}
         /\ \E l \in {"put", "reget", "reput"} : Goto(r, l)
      \/ /\ UNCHANGED ret /\ pc[r] \in {"get", "put", "reget", "reput"} /\ ret[r] = "created"
         /\ Goto(r, "store")
  <2>1. CASE GetLatest(r)
    BY <2>1, SharedHarmless DEF GetLatest
  <2>2. CASE PutName(r)
    <3>1. NamePersisted(r) => \/ Harmless(r)
                              \/ UNCHANGED ret /\ ret[r] = "created" /\ Goto(r, "store")
      BY SharedHarmless DEF NamePersisted
    <3> QED
      BY <2>2, <3>1, SharedHarmless DEF PutName
  <2> QED
    BY <2>1, <2>2 DEF NameStep
<1>3. CASE ~Harmless(r)
  BY <1>1, <1>2, <1>3 DEF Goto, KeyHeld, Carries, KeyHere, PurgeSafe, CleanSafe, ConfirmSafe,
                          TypeInv, LocalOK
<1> QED
  BY <1>3, HarmlessHere

(* What the answers of Atlas say of the organization, when no error passes *)
(* for its deletion.                                                       *)
LEMMA PlainReplies ==
    ASSUME PlainFaults, NEW truth, NEW rep \in Replies(truth),
           rep.answer \notin {"400", "401", "403", "409"}
    PROVE  rep.answer = truth /\ (truth = "2xx" => rep.done)
<1>1. rep = Reply(truth, truth = "2xx", FALSE) \/ rep.answer \in Faults
  BY DEF Replies, Reply
<1>2. rep = Reply(truth, truth = "2xx", FALSE)
  BY <1>1 DEF PlainFaults
<1>3. CASE truth = "2xx"
  <2>1. rep = Reply(truth, TRUE, FALSE)
    BY <1>2, <1>3
  <2> QED
    BY <2>1 DEF Reply
<1>4. CASE truth # "2xx"
  BY <1>2, <1>4 DEF Reply
<1> QED
  BY <1>3, <1>4

LEMMA PlainErrors ==
    ASSUME NEW a \in {"400", "401", "403", "403ip", "409"}, NEW id
    PROVE  /\ doRequest(a) # Nil /\ ~IsNotFoundError(doRequest(a))
           /\ \/ isUnauthorizedError(doRequest(a))
              \/ ~isAtlasTransientOrOpaqueDeleteErr(doRequest(a))
           /\ a # "403ip" => ~TakenAsDeleted(VerifyOrganizationDeletion(a, id))
BY DEF doRequest, TypeOf, TextOf, Nil, Wrap, IsNotFoundError, isUnauthorizedError,
       isAtlasTransientOrOpaqueDeleteErr, TakenAsDeleted, VerifyOrganizationDeletion

LEMMA NamedMade ==
    ASSUME TypeInv, RecordsSound, NEW r \in Replicas, NameNeeded(pc[r], ret[r])
    PROVE  cr[r].ext \in Made
BY DEF RecordsSound, Within, TypeInv, LocalOK, NameKnown

(* Atlas, or a key that is refused, says that the organization is gone.    *)
LEMMA GoneHere ==
    ASSUME TypeInv, RecordsSound, PlainFaults, OnlyOne, Dead => Dead', NEW r \in Replicas,
           ConfirmSafe(r), GoneStepOf(r)
    PROVE  KeyHere(r)'
<1>1. cr[r].ext \in Made /\ cr[r].ext \in OrgIds
  BY NamedMade DEF GoneStepOf, VerifyFirst, DeleteOrganization, ConfirmDeletion, NameNeeded,
                   Made
<1>2. orgs[cr[r].ext] # "live" => Dead
  BY <1>1 DEF Dead, Made, TypeInv, AtlasOK
<1>3. ASSUME NEW l \in {"clean", "confirm"}, Goto(r, l), Dead'
      PROVE  KeyHere(r)'
  BY <1>3 DEF Goto, KeyHere, KeyHeld, Carries, PurgeSafe, CleanSafe, ConfirmSafe, TypeInv,
              LocalOK
<1>4. ASSUME NEW l \in {"delcreds"}, Goto(r, l)
      PROVE  KeyHere(r)'
  BY <1>4, SharedHarmless, HarmlessHere
<1>5. ASSUME \E caller : PutStatus(r, caller)
      PROVE  KeyHere(r)'
  BY <1>5, SharedHarmless, HarmlessHere
<1>6. CASE VerifyFirst(r)
  <2>1. PICK rep \in Replies(IF orgs[cr[r].ext] = "live" THEN "2xx" ELSE "404") :
           Goto(r, IF TakenAsDeleted(VerifyOrganizationDeletion(rep.answer, cr[r].ext))
                   THEN "clean" ELSE "delcreds")
    BY <1>6 DEF VerifyFirst
  <2>2. CASE TakenAsDeleted(VerifyOrganizationDeletion(rep.answer, cr[r].ext))
    <3>1. rep.answer \notin {"400", "401", "403", "409"}
      BY <2>2, PlainErrors
    <3>2. rep.answer # "2xx"
      BY <2>2 DEF PlainFaults, VerifyOrganizationDeletion, TakenAsDeleted, Nil,
                  IsNotFoundError, isAtlasTransientOrOpaqueDeleteErr
    <3>3. orgs[cr[r].ext] # "live"
      BY <3>1, <3>2, PlainReplies
    <3> QED
      BY <1>2, <1>3, <2>1, <2>2, <3>3
  <2> QED
    BY <1>4, <2>1, <2>2
<1>7. CASE DeleteOrganization(r)
  <2>1. PICK truth, rep :
          /\ truth \in KeyAnswers(key[r], cr[r].ext) /\ rep \in Replies(truth)
          /\ IF rep.done THEN Deleted(cr[r].ext) ELSE UNCHANGED atlas
          /\ LET err == doRequest(rep.answer) IN
             CASE IsNotFoundError(err) -> Goto(r, "clean") /\ UNCHANGED ret
               [] err = Nil            -> Goto(r, "confirm") /\ UNCHANGED ret
               [] ~IsNotFoundError(err) /\ ~isUnauthorizedError(err)
                    /\ isAtlasTransientOrOpaqueDeleteErr(err) ->
                                          Goto(r, "clean") /\ UNCHANGED ret
               [] OTHER                -> PutStatus(r, "error")
    BY <1>7 DEF DeleteOrganization
  <2>2. truth \in {"401", "403", "403ip", "2xx", "404"}
    BY <2>1 DEF KeyAnswers, KeyAnswer
  <2>3. truth = "404" => orgs[cr[r].ext] = "gone"
    BY <2>1 DEF KeyAnswers, KeyAnswer
  <2>4. rep.done => Dead'
    BY <1>1, <2>1 DEF Deleted, Dead, Made, TypeInv, AtlasOK
  <2>5. CASE rep.answer \in {"400", "401", "403", "403ip", "409"}
    BY <1>5, <2>1, <2>5, PlainErrors
  <2>6. CASE rep.answer \notin {"400", "401", "403", "403ip", "409"}
    <3>1. rep.answer = truth /\ (truth = "2xx" => rep.done)
      BY <2>1, <2>6, PlainReplies
    <3>2. Dead'
      BY <1>2, <2>2, <2>3, <2>4, <2>6, <3>1
    <3>3. truth \in {"2xx", "404"}
      BY <2>2, <2>6, <3>1
    <3>4. Goto(r, "clean") \/ Goto(r, "confirm")
      BY <2>1, <3>1, <3>3 DEF doRequest, TypeOf, TextOf, Nil, IsNotFoundError
    <3> QED
      BY <1>3, <3>2, <3>4
  <2> QED
    BY <2>5, <2>6
<1>8. CASE ConfirmDeletion(r)
  <2>1. Dead'
    BY <1>8 DEF ConfirmDeletion, ConfirmSafe
  <2> QED
    BY <1>3, <1>5, <1>8, <2>1 DEF ConfirmDeletion
<1> QED
  BY <1>6, <1>7, <1>8 DEF GoneStepOf

-----------------------------------------------------------------------------
(* What the key's own steps do to the stores.                              *)

Writes(r) ==
    \E n \in Names : \/ aws' = [aws EXCEPT ![n] = key[r]] /\ UNCHANGED k8s
                     \/ k8s' = [k8s EXCEPT ![n] = key[r]] /\ UNCHANGED aws

Erases ==
    \E n \in Names : \/ aws' = [aws EXCEPT ![n] = None] /\ UNCHANGED k8s
                     \/ k8s' = [k8s EXCEPT ![n] = None] /\ UNCHANGED aws

LEMMA KeysMove ==
    ASSUME TypeInv, KeysMade, Made \subseteq Made', NEW r \in Replicas,
           key'[r] \in Made' \cup {None},
           \A q \in Replicas \ {r} : key'[q] = key[q],
           UNCHANGED stores \/ Writes(r) \/ Erases
    PROVE  KeysMade'
<1>1. \A q \in Replicas : key'[q] \in Made' \cup {None}
  BY DEF KeysMade
<1>2. key[r] \in Made' \cup {None}
  BY DEF KeysMade
<1>3. \A n \in Names : aws'[n] \in Made' \cup {None} /\ k8s'[n] \in Made' \cup {None}
  BY <1>2 DEF KeysMade, Writes, Erases, stores, TypeInv, StoresOK
<1> QED
  BY <1>1, <1>3 DEF KeysMade

LEMMA FetchedMade ==
    ASSUME TypeInv, KeysMade, NEW r \in Replicas
    PROVE  fetchOrgCredentials(cr[r]) \in Made \cup {None}
<1>1. cr[r].spec.k8s \in Names /\ AwsSecretName(cr[r]) \in Names
  BY Fields DEF AwsSecretName, SpecFields, Statuses
<1> QED
  BY <1>1 DEF fetchOrgCredentials, KeysMade

(* Where Create and the moves write, and the clean-ups delete.             *)
LEMMA SecretNames ==
    ASSUME TypeInv, NEW r \in Replicas
    PROVE  /\ cr[r].spec.k8s \in Names /\ AwsSecretName(cr[r]) \in Names
           /\ AwsNameFor(cr[r].spec) \in Names
           /\ cr[r].spec.named # None /\ cr[r].ext # None => MigratedName(cr[r]) \in Names
<1>1. cr[r].spec \in SpecFields /\ cr[r].st \in Statuses /\ cr[r].ext \in OrgIds \cup {None}
  BY Fields
<1>2. cr[r].spec.k8s \in Names /\ AwsSecretName(cr[r]) \in Names
  BY <1>1 DEF AwsSecretName, SpecFields, Statuses
<1>3. AwsNameFor(cr[r].spec) \in Names
  BY <1>1, SetsAssumption DEF AwsNameFor, SpecFields
<1>4. cr[r].spec.named # None /\ cr[r].ext # None => MigratedName(cr[r]) \in Names
  BY <1>1, SetsAssumption DEF MigratedName, SpecFields
<1> QED
  BY <1>2, <1>3, <1>4

(* What the keys' invariant asks of a step of r, and what follows for the  *)
(* stores.                                                                 *)
KeySafe(r) == KeysMade' /\ KeyHere(r)'

LEMMA CreateKeySafe ==
    ASSUME TypeInv, CreationInv, KeysMade, Made \subseteq Made', NEW r \in Replicas,
           CreateOrganization(r)
    PROVE  KeySafe(r) /\ UNCHANGED stores
<1>1. PICK rep \in Replies("2xx"), o \in OrgIds \ Foreign :
        /\ orgs[o] = "free"
        /\ IF rep.done THEN orgs' = [orgs EXCEPT ![o] = "live"] ELSE UNCHANGED orgs
        /\ IF doRequest(rep.answer) = Nil
           THEN key' = [key EXCEPT ![r] = o] /\ PersistName(r, "created")
           ELSE CreateFailed(r) /\ UNCHANGED key
  BY DEF CreateOrganization
<1>2. UNCHANGED stores /\ Elsewhere(r)
  BY ReconcileElsewhere DEF CreateOrganization, Reconcile, CreateStep
<1>3. CASE doRequest(rep.answer) = Nil
  <2>1. o \in Made'
    BY <1>1, <1>3, NilDone DEF Made, TypeInv, AtlasOK
  <2>2. key'[r] = o /\ pc'[r] = "get" /\ o # None
    BY <1>1, <1>3, SetsAssumption DEF PersistName, Goto, TypeInv, LocalOK
  <2>3. KeyHere(r)'
    BY <2>2 DEF KeyHere, KeyHeld, PurgeSafe, CleanSafe, ConfirmSafe
  <2> QED
    BY <1>2, <2>1, <2>2, <2>3, KeysMove DEF KeySafe, Elsewhere
<1>4. CASE doRequest(rep.answer) # Nil
  <2>1. KeyHere(r)'
    BY <1>1, <1>4, SharedHarmless, HarmlessHere
  <2>2. key'[r] \in Made' \cup {None}
    BY <1>1, <1>4 DEF KeysMade
  <2> QED
    BY <1>2, <2>1, <2>2, KeysMove DEF KeySafe, Elsewhere
<1> QED
  BY <1>3, <1>4

LEMMA StoreKeySafe ==
    ASSUME TypeInv, CreationInv, KeysMade, Made \subseteq Made', NEW r \in Replicas, StoreKey(r)
    PROVE  KeySafe(r) /\ (UNCHANGED stores \/ Writes(r))
<1>1. UNCHANGED stores \/ Writes(r)
  BY SecretNames DEF StoreKey, Writes, stores
<1>2. Elsewhere(r)
  BY ReconcileElsewhere DEF Reconcile, CreateStep
<1>3. key'[r] \in Made' \cup {None}
  BY DEF StoreKey, Idle, KeysMade, TypeInv, LocalOK
<1>4. KeyHere(r)'
  <2>1. CreateFailed(r) \/ Idle(r) \/ Goto(r, "ips")
    BY DEF StoreKey
  <2> QED
    BY <2>1, SharedHarmless, HarmlessHere
<1> QED
  BY <1>1, <1>2, <1>3, <1>4, KeysMove DEF KeySafe, Elsewhere

LEMMA FetchKeySafe ==
    ASSUME TypeInv, CreationInv, KeysMade, Made \subseteq Made', NEW r \in Replicas,
           FetchCredentials(r)
    PROVE  KeySafe(r) /\ UNCHANGED stores
<1>1. UNCHANGED stores /\ Elsewhere(r)
  BY ReconcileElsewhere DEF FetchCredentials, Reconcile, UpdateStep
<1>2. key'[r] \in Made' \cup {None}
  BY FetchedMade DEF FetchCredentials, KeysMade, TypeInv, LocalOK
<1>3. KeyHere(r)'
  <2>1. CASE Goto(r, "finish")
    BY <2>1, SharedHarmless, HarmlessHere
  <2>2. CASE key'[r] # None /\ Goto(r, "migrate")
    BY <2>2 DEF Goto, KeyHere, KeyHeld, PurgeSafe, CleanSafe, ConfirmSafe, TypeInv, LocalOK
  <2> QED
    BY <2>1, <2>2 DEF FetchCredentials, TypeInv, LocalOK
<1> QED
  BY <1>1, <1>2, <1>3, KeysMove DEF KeySafe, Elsewhere

LEMMA FetchForDeleteSafe ==
    ASSUME TypeInv, CreationInv, KeysMade, Made \subseteq Made', NEW r \in Replicas,
           FetchForDelete(r)
    PROVE  KeySafe(r) /\ UNCHANGED stores
<1>1. UNCHANGED stores /\ Elsewhere(r)
  BY ReconcileElsewhere DEF FetchForDelete, Reconcile, DeleteStep
<1>2. key'[r] \in Made' \cup {None}
  BY FetchedMade DEF FetchForDelete, KeysMade, TypeInv, LocalOK
<1>3. KeyHere(r)'
  <2>1. CASE Goto(r, "delete") \/ PutStatus(r, "error")
    BY <2>1, SharedHarmless, HarmlessHere
  <2>2. CASE /\ fetchOrgCredentials(cr[r]) = None /\ cr[r].st.stype # "Kubernetes" /\ HasAWS
             /\ Goto(r, "clean") /\ UNCHANGED <<cr, stores>>
    BY <2>2 DEF Goto, KeyHere, KeyHeld, Carries, PurgeSafe, CleanSafe, ConfirmSafe,
                AwsSecretName, fetchOrgCredentials, stores, TypeInv, LocalOK
  <2> QED
    BY <2>1, <2>2 DEF FetchForDelete
<1> QED
  BY <1>1, <1>2, <1>3, KeysMove DEF KeySafe, Elsewhere

LEMMA EraseSafe ==
    ASSUME TypeInv, CreationInv, KeysMade, Made \subseteq Made', NEW r \in Replicas,
           DeleteOldSecret(r) \/ DeleteSecret(r)
    PROVE  KeySafe(r) /\ UNCHANGED key
<1>1. UNCHANGED key /\ Elsewhere(r)
  BY ReconcileElsewhere DEF DeleteOldSecret, DeleteSecret, Reconcile, UpdateStep, DeleteStep,
                            local
<1>2. KeyHere(r)'
  BY SharedHarmless, HarmlessHere DEF DeleteOldSecret, DeleteSecret
<1>3. \A n : aws' = [aws EXCEPT ![n] = None] /\ n \notin Names => aws' = aws
  BY DEF TypeInv, StoresOK
<1>4. UNCHANGED stores \/ Erases
  BY <1>3, SecretNames DEF DeleteOldSecret, DeleteSecret, Erases, stores
<1> QED
  BY <1>1, <1>2, <1>4, KeysMove DEF KeySafe, KeysMade, Elsewhere

LEMMA MigratesAlone ==
    ASSUME TypeInv, RecordsSound, OneReplica \/ OneType, NEW r \in Replicas, Migrates(cr[r])
    PROVE  OneReplica
BY MigratesKinds

(* A move that has written the new copy, and recorded where.               *)
LEMMA MovedSafe ==
    ASSUME TypeInv, OneReplica, NEW r \in Replicas, KeyHeld(r),
           pc[r] = "migrate", UNCHANGED key, Goto(r, "purge"),
           NEW type, NEW n \in Names, NEW name, Moved(r, type, name),
           \/ type = "AWS" /\ aws'[n] = key[r]
           \/ type = "Kubernetes" /\ k8s'[n] = key[r]
    PROVE  KeyHere(r)'
<1>1. cr[r] \in Objects /\ cr[r].st \in Statuses
  BY Fields
<1>2. cr'[r].st.stype = type
  BY <1>1 DEF Moved, Recorded, Objects, Statuses, TypeInv, LocalOK
<1>3. pc'[r] = "purge" /\ key'[r] = key[r] /\ key[r] # None
  BY DEF Goto, KeyHeld, Carries, TypeInv, LocalOK
<1>4. PurgeSafe(r)'
  BY <1>2, <1>3 DEF PurgeSafe, OneReplica
<1> QED
  BY <1>3, <1>4 DEF KeyHere, KeyHeld, CleanSafe, ConfirmSafe

LEMMA MigrateSafe ==
    ASSUME TypeInv, CreationInv, RecordsSound, OneReplica \/ OneType, KeysMade,
           Made \subseteq Made', NEW r \in Replicas, KeyHeld(r),
           MigrateToKubernetes(r) \/ MigrateToAWS(r)
    PROVE  KeySafe(r) /\ OneReplica /\ (UNCHANGED stores \/ Writes(r))
<1>1. OneReplica
  BY MigratesAlone DEF MigrateToKubernetes, MigrateToAWS
<1>2. Elsewhere(r)
  BY ReconcileElsewhere DEF Reconcile, UpdateStep
<1>3. cr[r].ext # None
  BY DEF MigrateToKubernetes, MigrateToAWS, TypeInv, LocalOK, NameKnown, NameNeeded
<1>4. CASE MigrateToKubernetes(r)
  <2>1. pc[r] = "migrate" /\ UNCHANGED <<key, aws>>
    BY <1>4 DEF MigrateToKubernetes
  <2>2. \/ UNCHANGED k8s /\ Goto(r, "finish")
        \/ /\ k8s' = [k8s EXCEPT ![cr[r].spec.k8s] = key[r]]
           /\ \/ Goto(r, "finish")
              \/ Moved(r, "Kubernetes", cr[r].spec.k8s) /\ Goto(r, "purge")
    BY <1>4 DEF MigrateToKubernetes, Outcomes
  <2>3. KeyHere(r)'
    <3>1. CASE Goto(r, "finish")
      BY <3>1, SharedHarmless, HarmlessHere
    <3>2. CASE ~Goto(r, "finish")
      BY <1>1, <2>1, <2>2, <3>2, SecretNames, MovedSafe DEF TypeInv, StoresOK
    <3> QED
      BY <3>1, <3>2
  <2>4. UNCHANGED stores \/ Writes(r)
    BY <2>1, <2>2, SecretNames DEF Writes, stores
  <2> QED
    BY <1>1, <1>2, <2>1, <2>3, <2>4, KeysMove DEF KeySafe, KeysMade, Elsewhere
<1>5. CASE MigrateToAWS(r)
  <2>1. pc[r] = "migrate" /\ UNCHANGED k8s
    BY <1>5 DEF MigrateToAWS
  <2>2. \/ UNCHANGED aws /\ Idle(r)
        \/ UNCHANGED <<aws, key>> /\ Goto(r, "finish")
        \/ /\ cr[r].spec.named # None /\ UNCHANGED key
           /\ aws' = [aws EXCEPT ![MigratedName(cr[r])] = key[r]]
           /\ \/ Goto(r, "finish")
              \/ Moved(r, "AWS", MigratedName(cr[r])) /\ Goto(r, "purge")
    <3>1. StorageType(cr[r].spec) = "AWS" /\ cr[r].spec \in SpecFields
      BY <1>5, Fields DEF MigrateToAWS
    <3>2. cr[r].spec.storage \in {"nil", "AWS"}
      BY <3>1 DEF StorageType, SpecFields
    <3> QED
      BY <1>5, <3>2, BoundsAssumption DEF MigrateToAWS, Outcomes, local
  <2>3. key'[r] \in Made' \cup {None}
    BY <2>2 DEF Idle, KeysMade, TypeInv, LocalOK
  <2>4. KeyHere(r)'
    <3>1. CASE Goto(r, "finish") \/ Idle(r)
      BY <3>1, SharedHarmless, HarmlessHere
    <3>2. CASE ~(Goto(r, "finish") \/ Idle(r))
      BY <1>1, <1>3, <2>1, <2>2, <3>2, SecretNames, MovedSafe DEF TypeInv, StoresOK
    <3> QED
      BY <3>1, <3>2
  <2>5. UNCHANGED stores \/ Writes(r)
    BY <1>3, <2>1, <2>2, SecretNames DEF Writes, stores
  <2> QED
    BY <1>1, <1>2, <2>3, <2>4, <2>5, KeysMove DEF KeySafe, Elsewhere
<1> QED
  BY <1>4, <1>5

-----------------------------------------------------------------------------
(* What happens to the others, and all together.                           *)

(* Nobody puts a key into AWS while another replica cleans up.             *)
LEMMA OthersHere ==
    ASSUME TypeInv, KeyInv, LifeInv, NEW r \in Replicas, Elsewhere(r), Dead => Dead',
           \/ OneReplica
           \/ ~NobodyCreates
           \/ \A n \in Names : aws'[n] \in {aws[n], None}
    PROVE  \A q \in Replicas \ {r} : KeyHere(q)'
<1> SUFFICES ASSUME NEW q \in Replicas \ {r} PROVE KeyHere(q)'
  OBVIOUS
<1>1. pc'[q] = pc[q] /\ ret'[q] = ret[q] /\ cr'[q] = cr[q] /\ key'[q] = key[q]
  BY DEF Elsewhere, OthersRest
<1>2. ~OneReplica /\ KeyHere(q)
  BY DEF OneReplica, KeyInv
<1>3. pc[q] = "clean" => NobodyCreates
  BY DEF LifeInv, DeletesSeen, OnCourse, Deleting, DeletionAfter
<1>4. CleanSafe(q)'
  BY <1>1, <1>2, <1>3, SecretNames DEF KeyHere, CleanSafe, AwsSecretName
<1>5. KeyHeld(q)' /\ PurgeSafe(q)' /\ ConfirmSafe(q)'
  BY <1>1, <1>2 DEF KeyHere, KeyHeld, PurgeSafe, ConfirmSafe
<1> QED
  BY <1>4, <1>5 DEF KeyHere

(* What the keys' invariant rests on.                                      *)
Grounds == Settled /\ OnceInv /\ RecordsSound

LEMMA DeadStays ==
    ASSUME [Lifecycle!Next]_<<phaseBar, madeBar>>
    PROVE  Made \subseteq Made' /\ (Dead => Dead')
BY MadeGrows DEF Dead

LEMMA ReconcileKeySafe ==
    ASSUME Grounds, PlainFaults, OneReplica \/ OneType, KeyInv,
           Made \subseteq Made', Dead => Dead', NEW r \in Replicas, Reconcile(r)
    PROVE  KeyInv'
<1>1. /\ TypeInv /\ CreationInv /\ LifeInv /\ RecordsSound /\ OnlyOne
      /\ KeysMade /\ KeyHere(r) /\ KeyHeld(r) /\ ConfirmSafe(r)
  BY DEF Grounds, Settled, OnceInv, KeyInv, KeyHere
<1>2. Elsewhere(r)
  BY <1>1, ReconcileElsewhere
<1>3. ASSUME KeySafe(r),
             OneReplica \/ ~NobodyCreates \/ \A n \in Names : aws'[n] \in {aws[n], None}
      PROVE  KeyInv'
  BY <1>1, <1>2, <1>3, OthersHere DEF KeyInv, KeySafe
<1>4. UNCHANGED stores \/ Erases => \A n \in Names : aws'[n] \in {aws[n], None}
  BY <1>1 DEF stores, Erases, TypeInv, StoresOK
<1>5. CASE CreateOrganization(r) \/ FetchCredentials(r) \/ FetchForDelete(r)
  BY <1>1, <1>3, <1>4, <1>5, CreateKeySafe, FetchKeySafe, FetchForDeleteSafe
<1>6. CASE StoreKey(r)
  <2>1. ~NobodyCreates
    BY <1>6 DEF StoreKey, NobodyCreates, Creating
  <2> QED
    BY <1>1, <1>3, <1>6, <2>1, StoreKeySafe
<1>7. CASE MigrateToKubernetes(r) \/ MigrateToAWS(r)
  BY <1>1, <1>3, <1>7, MigrateSafe
<1>8. CASE DeleteOldSecret(r) \/ DeleteSecret(r)
  <2>1. KeySafe(r)
    BY <1>1, <1>8, EraseSafe
  <2>2. \A n \in Names : aws'[n] \in {aws[n], None}
    BY <1>1, <1>8 DEF DeleteOldSecret, DeleteSecret, TypeInv, StoresOK, stores
  <2> QED
    BY <1>3, <2>1, <2>2
<1>9. CASE ~KeyStep(r)
  <2>1. Keyless(r)
    BY <1>1, <1>9, ReconcileKeyless
  <2>2. KeysMade'
    <3>1. key'[r] \in Made' \cup {None}
      BY <1>1, <2>1 DEF Keyless, KeysMade
    <3> QED
      BY <1>1, <2>1, <3>1, KeysMove DEF Keyless
  <2>3. KeyHere(r)'
    BY <1>1, <1>9, ReconcileHarmless, HarmlessHere, NameHere, GoneHere
  <2> QED
    BY <1>3, <1>4, <2>1, <2>2, <2>3 DEF Keyless, KeySafe
<1> QED
  BY <1>5, <1>6, <1>7, <1>8, <1>9 DEF KeyStep

LEMMA NextKeyInv ==
    ASSUME Grounds, PlainFaults, OneReplica \/ OneType, KeyInv, MaxApplies = 0,
           Made \subseteq Made', Dead => Dead', [Next]_vars
    PROVE  KeyInv'
<1>1. TypeInv /\ KeysMade /\ \A q \in Replicas : KeyHere(q)
  BY DEF Grounds, Settled, KeyInv
<1>2. ASSUME UNCHANGED <<pc, local, stores>>
      PROVE  KeyInv'
  BY <1>1, <1>2 DEF KeyInv, KeysMade, KeyHere, KeyHeld, PurgeSafe, CleanSafe, ConfirmSafe,
                    AwsSecretName, local, stores
<1>3. ASSUME NEW r \in Replicas, Crash(r)
      PROVE  KeyInv'
  <2>1. Keyless(r)
    BY <1>1, <1>3, IdleKeyless DEF Crash
  <2>2. KeyHere(r)'
    BY <1>1, <1>3, SharedHarmless, HarmlessHere DEF Crash
  <2>3. Elsewhere(r)
    BY <1>1, <1>3, <2>1 DEF Crash, Idle, Goto, Keyless, Elsewhere, OthersRest, TypeInv, LocalOK
  <2>4. \A q \in Replicas \ {r} : KeyHere(q)'
    BY <1>3, <2>3, OthersHere DEF Grounds, Settled, Crash, stores
  <2>5. KeysMade'
    <3>1. key'[r] \in Made' \cup {None}
      BY <1>1, <2>1 DEF Keyless, KeysMade
    <3> QED
      BY <1>1, <2>1, <3>1, KeysMove DEF Keyless
  <2> QED
    BY <2>2, <2>4, <2>5 DEF KeyInv
<1>4. ASSUME NEW r \in Replicas, CacheSync(r)
      PROVE  KeyInv'
  BY <1>2, <1>4 DEF CacheSync
<1>5. CASE Environment
  BY <1>1, <1>2, <1>5, CreatedOnce DEF Environment, UserEdit, UserClearName, UserDelete,
                                       ConsoleCreate, ConsoleDelete
<1>6. CASE UNCHANGED vars
  BY <1>2, <1>6 DEF vars
<1> QED
  BY <1>3, <1>4, <1>5, <1>6, ReconcileKeySafe DEF Next

LEMMA InitKeyInv == Init => KeyInv
BY SetsAssumption DEF Init, KeyInv, KeysMade, KeyHere, KeyHeld, Carries, PurgeSafe, CleanSafe,
                      ConfirmSafe

(* Every key is one of the resource's organization, and no copy of it is   *)
(* deleted that is needed.                                                 *)
THEOREM KeyInvariance ==
    ASSUME MaxApplies = 0, Foreign = {}, PlainFaults, OneReplica \/ OneType
    PROVE  Spec => [](Grounds /\ KeyInv)
<1>1. "404" \notin Faults
  BY DEF PlainFaults
<1>2. Spec => []Settled
  BY <1>1, SettledInvariance
<1>3. Spec => []OnceInv
  BY <1>1, OnceInvariance
<1>4. Spec => []RecordsSound
  BY <1>1, RecordsSoundInvariance
<1>5. Grounds /\ Grounds' /\ KeyInv /\ [Next]_vars => KeyInv'
  BY SettledStep, DeadStays, NextKeyInv DEF Grounds
<1>6. Settled /\ OnceInv /\ RecordsSound => Grounds
  BY DEF Grounds
<1> QED
  BY <1>2, <1>3, <1>4, <1>5, <1>6, InitKeyInv, PTL DEF Spec

-----------------------------------------------------------------------------
(* A stored key of a live organization stays stored.                       *)

(* Keys are written over each other, but they are all the same.            *)
LEMMA WritesKeep ==
    ASSUME TypeInv, OnlyOne, KeysMade, NEW r \in Replicas, key[r] # None, Writes(r),
           NEW o \in Made, Stored(o)
    PROVE  Stored(o)'
<1>1. key[r] = o
  BY DEF KeysMade, OnlyOne
<1> QED
  BY <1>1 DEF Writes, Stored, TypeInv, StoresOK

LEMMA PurgeKeeps ==
    ASSUME TypeInv, OnlyOne, KeysMade, NEW r \in Replicas, KeyHeld(r), PurgeSafe(r),
           DeleteOldSecret(r), NEW o \in Made, Stored(o)
    PROVE  Stored(o)'
<1>1. key[r] = o
  BY DEF DeleteOldSecret, KeyHeld, Carries, KeysMade, OnlyOne
<1>2. IF cr[r].st.stype = "AWS" THEN \E n \in Names : aws[n] = o
                                ELSE \E n \in Names : k8s[n] = o
  BY <1>1 DEF DeleteOldSecret, PurgeSafe
<1>3. \/ UNCHANGED stores
      \/ cr[r].st.stype = "AWS" /\ UNCHANGED aws
      \/ cr[r].st.stype # "AWS" /\ UNCHANGED k8s
  BY DEF DeleteOldSecret
<1> QED
  BY <1>2, <1>3 DEF Stored, stores

LEMMA CleanKeeps ==
    ASSUME TypeInv, ~Dead, NEW r \in Replicas, CleanSafe(r), DeleteSecret(r), NEW o \in OrgIds,
           Stored(o)
    PROVE  Stored(o)'
<1>1. cr[r].st.stype # "Kubernetes" /\ aws[AwsSecretName(cr[r])] = None
  BY DEF DeleteSecret, CleanSafe
<1>2. UNCHANGED stores
  BY <1>1 DEF DeleteSecret, stores, TypeInv, StoresOK
<1> QED
  BY <1>2 DEF Stored, stores

LEMMA StepRetains ==
    ASSUME Grounds, OneReplica \/ OneType, KeyInv, MaxApplies = 0,
           [Lifecycle!Next]_<<phaseBar, madeBar>>, [Next]_vars,
           NEW o \in OrgIds, Stored(o), o \in Live'
    PROVE  Stored(o)'
<1>1. TypeInv /\ CreationInv /\ OnlyOne /\ RecordsSound /\ KeysMade
  BY DEF Grounds, Settled, OnceInv, KeyInv
<1>2. o \in Made
  BY <1>1, SetsAssumption DEF KeysMade, Stored
<1>3. orgs[o] = "live"
  BY <1>2, MadeGrows DEF Live
<1>4. ~Dead
  BY <1>1, <1>2, <1>3 DEF Dead, OnlyOne
<1>5. ASSUME UNCHANGED stores PROVE Stored(o)'
  BY <1>5 DEF Stored, stores
<1>6. ASSUME NEW r \in Replicas, Reconcile(r)
      PROVE  Stored(o)'
  <2>1. KeyHeld(r) /\ PurgeSafe(r) /\ CleanSafe(r)
    BY DEF KeyInv, KeyHere
  <2>2. CASE StoreKey(r) \/ MigrateToKubernetes(r) \/ MigrateToAWS(r)
    <3>1. key[r] # None
      BY <2>1, <2>2 DEF StoreKey, MigrateToKubernetes, MigrateToAWS, KeyHeld, Carries
    <3>2. UNCHANGED stores \/ Writes(r)
      <4>1. CASE StoreKey(r)
        BY <4>1, SecretNames, <1>1 DEF StoreKey, Writes, stores
      <4>2. CASE MigrateToKubernetes(r) \/ MigrateToAWS(r)
        BY <1>1, <2>1, <4>2, MadeGrows, MigrateSafe
      <4> QED
        BY <2>2, <4>1, <4>2
    <3> QED
      BY <1>1, <1>2, <1>5, <3>1, <3>2, WritesKeep
  <2>3. CASE DeleteOldSecret(r)
    BY <1>1, <1>2, <2>1, <2>3, PurgeKeeps
  <2>4. CASE DeleteSecret(r)
    BY <1>1, <1>4, <2>1, <2>4, CleanKeeps
  <2>5. CASE CreateOrganization(r) \/ FetchCredentials(r) \/ FetchForDelete(r)
    BY <1>5, <2>5 DEF CreateOrganization, FetchCredentials, FetchForDelete
  <2>6. CASE ~KeyStep(r)
    BY <1>1, <1>5, <1>6, <2>6, ReconcileKeyless DEF Keyless
  <2> QED
    BY <2>2, <2>3, <2>4, <2>5, <2>6 DEF KeyStep
<1>7. ASSUME NEW r \in Replicas, CacheSync(r) \/ Crash(r)
      PROVE  Stored(o)'
  BY <1>5, <1>7 DEF CacheSync, Crash
<1>8. CASE Environment
  BY <1>1, <1>5, <1>8, CreatedOnce DEF Environment, UserEdit, UserClearName, UserDelete,
                                       ConsoleCreate, ConsoleDelete
<1>9. CASE UNCHANGED vars
  BY <1>5, <1>9 DEF vars
<1> QED
  BY <1>6, <1>7, <1>8, <1>9 DEF Next

(* Moves between the stores, repeated writes and clean-ups leave the live  *)
(* organization a copy of its key, for any number of replicas as long as   *)
(* the specs agree on the kind of store, and for one replica whatever they *)
(* say.                                                                    *)
THEOREM KeyRetainedCorrect ==
    ASSUME MaxApplies = 0, Foreign = {}, PlainFaults, OneReplica \/ OneType
    PROVE  Spec => KeyRetained
<1>1. Spec => [](Grounds /\ KeyInv)
  BY KeyInvariance
<1>2. /\ Grounds /\ KeyInv /\ (Grounds /\ KeyInv)' /\ [Next]_vars
      => [\A o \in OrgIds : Stored(o) /\ o \in Live' => Stored(o)']_vars
  <2> SUFFICES ASSUME Grounds, Grounds', KeyInv, [Next]_vars, NEW o \in OrgIds, Stored(o),
                      o \in Live'
               PROVE  Stored(o)'
    OBVIOUS
  <2>1. [Lifecycle!Next]_<<phaseBar, madeBar>>
    BY SettledStep DEF Grounds
  <2> QED
    BY <2>1, StepRetains
<1> QED
  BY <1>1, <1>2, PTL DEF Spec, KeyRetained

-----------------------------------------------------------------------------
(* What outlives the resource.                                             *)

(* Every spec keeps the key in AWS, under the one name n.                  *)
OneSecret(n) ==
    \A s \in Specs : s.storage # "Kubernetes" /\ s.final = n /\ AwsNameFor(s) = n

(* The key is nowhere else.                                                *)
OnePlace(n) == \A m \in Names : k8s[m] = None /\ (m # n => aws[m] = None)

(* Whoever is about to remove the finalizer has deleted the organization   *)
(* and its key, or found neither.                                          *)
Cleaned(r) ==
    \/ pc[r] \in {"clean", "release", "unfinal", "unfinalize"}
    \/ pc[r] \in {"status", "reread", "restatus"} /\ ret[r] = "cleaned"

Lost == \A o \in Live : ~Stored(o)

LostSafe == (\E r \in Replicas : Cleaned(r)) => Lost

(* An organization is made for a resource that has the finalizer.          *)
MadeFin == Made # {} /\ obj.present => obj.fin

OrphanInv(n) == OnePlace(n) /\ LostSafe /\ MadeFin

LEMMA OneSecretType == ASSUME NEW n, OneSecret(n) PROVE OneType
<1>1. \A s \in Specs : s.storage \in {"nil", "AWS"}
  BY Constants DEF OneSecret, SpecFields
<1> QED
  BY <1>1 DEF OneType, StorageType

LEMMA OneSecretNames ==
    ASSUME TypeInv, RecordsSound, NEW n \in Names, OneSecret(n), NEW r \in Replicas
    PROVE  AwsSecretName(cr[r]) = n /\ AwsNameFor(cr[r].spec) = n
           /\ StorageType(cr[r].spec) = "AWS"
<1>1. cr[r].spec \in Specs /\ Asked(cr[r].st.sname) /\ cr[r].spec \in SpecFields
  BY Fields DEF Objects, RecordsSound, Within
<1>2. cr[r].st.sname = Unset \/ cr[r].st.sname = n
  BY <1>1, OneSecretType DEF Asked, OneSecret, DesiredSecretName
<1>3. cr[r].spec.storage \in {"nil", "AWS"}
  BY <1>1 DEF OneSecret, SpecFields
<1> QED
  BY <1>1, <1>2, <1>3 DEF OneSecret, AwsSecretName, StorageType

LEMMA DeadLost ==
    ASSUME OnlyOne, Foreign = {}, Dead
    PROVE  Live = {} /\ Lost
<1>1. Live \subseteq Made
  BY DEF Live, Made
<1>2. Live = {}
  BY <1>1 DEF Dead, OnlyOne, Live
<1> QED
  BY <1>2 DEF Lost

(* Where the secret is about to be deleted, there is none, or the          *)
(* organization is gone.                                                   *)
LEMMA CleanLost ==
    ASSUME Grounds, KeyInv, Foreign = {}, NEW n \in Names, OneSecret(n), OnePlace(n),
           NEW r \in Replicas, pc[r] = "clean"
    PROVE  Lost
<1>1. CASE Dead
  BY <1>1, DeadLost DEF Grounds, OnceInv
<1>2. CASE ~Dead
  <2>1. aws[AwsSecretName(cr[r])] = None
    BY <1>2 DEF KeyInv, KeyHere, CleanSafe
  <2>2. aws[n] = None
    BY <2>1, OneSecretNames DEF Grounds, Settled
  <2> QED
    BY <2>2, SetsAssumption DEF OnePlace, Lost, Live, Stored
<1> QED
  BY <1>1, <1>2

(* The steps that add to the stores, or to the organizations.              *)
LEMMA NextOnePlace ==
    ASSUME Grounds, MaxApplies = 0, NEW n \in Names, OneSecret(n), OnePlace(n), [Next]_vars
    PROVE  /\ OnePlace(n)'
           /\ NobodyCreates => \A m \in Names : aws'[m] \in {aws[m], None}
<1>1. TypeInv /\ CreationInv /\ RecordsSound /\ OneType
  BY OneSecretType DEF Grounds, Settled
<1>2. ASSUME UNCHANGED stores
      PROVE  OnePlace(n)' /\ \A m \in Names : aws'[m] \in {aws[m], None}
  BY <1>2 DEF OnePlace, stores
<1>3. ASSUME Erases
      PROVE  OnePlace(n)' /\ \A m \in Names : aws'[m] \in {aws[m], None}
  BY <1>1, <1>3 DEF OnePlace, Erases, TypeInv, StoresOK
<1>4. ASSUME NEW r \in Replicas, StoreKey(r)
      PROVE  OnePlace(n)' /\ ~NobodyCreates
  <2>1. UNCHANGED stores \/ (aws' = [aws EXCEPT ![n] = key[r]] /\ UNCHANGED k8s)
    BY <1>1, <1>4, OneSecretNames DEF StoreKey, stores
  <2> QED
    BY <1>1, <1>4, <2>1 DEF OnePlace, stores, TypeInv, StoresOK, StoreKey, NobodyCreates, Creating
<1>5. ASSUME NEW r \in Replicas, Reconcile(r), ~StoreKey(r)
      PROVE  UNCHANGED stores \/ Erases
  <2>1. ~MigrateToKubernetes(r) /\ ~MigrateToAWS(r)
    BY <1>1, MigratesKinds DEF MigrateToKubernetes, MigrateToAWS
  <2>2. CASE DeleteOldSecret(r) \/ DeleteSecret(r)
    <3>1. \A m : aws' = [aws EXCEPT ![m] = None] /\ m \notin Names => aws' = aws
      BY <1>1 DEF TypeInv, StoresOK
    <3> QED
      BY <1>1, <2>2, <3>1, SecretNames DEF DeleteOldSecret, DeleteSecret, Erases, stores
  <2>3. CASE CreateOrganization(r) \/ FetchCredentials(r) \/ FetchForDelete(r)
    BY <2>3 DEF CreateOrganization, FetchCredentials, FetchForDelete
  <2>4. CASE ~KeyStep(r)
    BY <1>1, <1>5, <2>4, ReconcileKeyless DEF Keyless
  <2> QED
    BY <1>5, <2>1, <2>2, <2>3, <2>4 DEF KeyStep
<1>6. ASSUME NEW r \in Replicas, CacheSync(r) \/ Crash(r)
      PROVE  UNCHANGED stores
  BY <1>6 DEF CacheSync, Crash
<1>7. CASE Environment
  BY <1>1, <1>2, <1>7, CreatedOnce DEF Environment, UserEdit, UserClearName, UserDelete,
                                       ConsoleCreate, ConsoleDelete
<1>8. CASE UNCHANGED vars
  BY <1>2, <1>8 DEF vars
<1> QED
  BY <1>2, <1>3, <1>4, <1>5, <1>6, <1>7, <1>8 DEF Next

(* How a replica comes to remove the finalizer.                            *)
Uncleaned(r) == Cleaned(r)' => Cleaned(r) \/ pc'[r] = "clean"

LEMMA SharedUncleaned ==
    ASSUME TypeInv, NEW r \in Replicas,
           \/ Finish(r) \/ Idle(r) \/ CreateFailed(r) \/ (\E c, a : Created(r, c, a))
           \/ PersistFailed(r) \/ NamePersisted(r)
           \/ (pc[r] = "finalizer" /\ Onward(r)) \/ Observed(r, "update") \/ Observed(r, "finish")
           \/ pc[r] \in {"status", "reread", "restatus"} /\ \E ok : StatusPut(r, ok)
           \/ pc[r] \in {"status", "reread"} /\ UNCHANGED ret
                /\ (Goto(r, "reread") \/ Goto(r, "restatus"))
           \/ (\E caller : caller # "cleaned" /\ PutStatus(r, caller))
           \/ (\E caller : PersistName(r, caller))
           \/ \E l \in Labels \ {"release", "unfinal", "unfinalize", "status", "reread",
                                 "restatus"} : Goto(r, l)
    PROVE  Uncleaned(r)
<1>1. \A l \in Labels \ {"release", "unfinal", "unfinalize", "status", "reread",
                         "restatus"} : Goto(r, l) => Uncleaned(r)
  BY DEF Uncleaned, Cleaned, Goto, TypeInv, LocalOK
<1>2. CASE pc[r] = "finalizer" /\ Onward(r)
  BY <1>1, <1>2 DEF Onward, Labels
<1>3. CASE Observed(r, "update") \/ Observed(r, "finish")
  BY <1>1, <1>3 DEF Observed, Labels
<1>4. CASE pc[r] \in {"status", "reread", "restatus"} /\ \E ok : StatusPut(r, ok)
  <2>1. \/ (\E c, a : Created(r, c, a)) \/ Goto(r, "verify") \/ Finish(r) \/ ret[r] = "cleaned"
    BY <1>4 DEF StatusPut
  <2> QED
    BY <1>1, <1>4, <2>1 DEF Created, Finish, Labels, Uncleaned, Cleaned
<1>5. CASE pc[r] \in {"status", "reread"} /\ UNCHANGED ret
             /\ (Goto(r, "reread") \/ Goto(r, "restatus"))
  BY <1>5 DEF Uncleaned, Cleaned, Goto, TypeInv, LocalOK
<1>6. CASE \E caller : caller # "cleaned" /\ PutStatus(r, caller)
  BY <1>6 DEF PutStatus, Uncleaned, Cleaned, Goto, TypeInv, LocalOK
<1>7. CASE \E caller : PersistName(r, caller)
  BY <1>1, <1>7 DEF PersistName, Labels
<1>8. CASE NamePersisted(r)
  BY <1>1, <1>3, <1>8 DEF NamePersisted, Labels
<1>9. CASE \/ Finish(r) \/ Idle(r) \/ CreateFailed(r) \/ (\E c, a : Created(r, c, a))
           \/ PersistFailed(r)
  BY <1>1, <1>9 DEF Finish, Idle, CreateFailed, Created, PersistFailed, Labels
<1> QED
  BY <1>1, <1>2, <1>3, <1>4, <1>5, <1>6, <1>7, <1>8, <1>9

LEMMA ReconcileUncleaned ==
    ASSUME TypeInv, PlainFaults, NEW r \in Replicas, Reconcile(r)
    PROVE  Uncleaned(r) \/ (Live = {} /\ UNCHANGED orgs)
<1>1. CASE ReconcilerStep(r)
  <2>1. CASE Start(r) \/ AddFinalizer(r) \/ RemoveFinalizer(r) \/ MarkPending(r)
    BY <2>1, SharedUncleaned DEF Start, AddFinalizer, RemoveFinalizer, MarkPending, Labels
  <2>2. CASE UpdateCriticalAnnotations(r) \/ UpdateManagedStatus(r) \/ AdoptStatus(r)
    BY <2>2, SharedUncleaned DEF UpdateCriticalAnnotations, UpdateManagedStatus, AdoptStatus
  <2>3. CASE UpdateStatus(r) \/ RereadForStatus(r) \/ RetryStatus(r)
    BY <2>3, SharedUncleaned DEF UpdateStatus, RereadForStatus, RetryStatus
  <2>4. CASE GetLatest(r) \/ PutName(r)
    BY <2>4, SharedUncleaned DEF GetLatest, PutName, Labels
  <2> QED
    BY <1>1, <2>1, <2>2, <2>3, <2>4 DEF ReconcilerStep
<1>2. CASE ObserveStep(r)
  <2>1. CASE SearchByName(r)
    <3>1. PICK rep \in Replies("2xx") :
            \/ PersistName(r, "adopt")
            \/ NoneFound(doRequest(rep.answer))
            \/ Finish(r)
      BY <2>1 DEF SearchByName
    <3>2. ~IsNotFoundError(doRequest(rep.answer))
      <4>1. rep.answer = "2xx" => ~IsNotFoundError(doRequest(rep.answer))
        BY DEF doRequest, TypeOf, IsNotFoundError
      <4> QED
        BY <4>1, PlainReplies, PlainErrors
    <3>3. UNCHANGED orgs
      BY <2>1 DEF SearchByName, atlas
    <3> QED
      BY <3>1, <3>2, <3>3, SharedUncleaned DEF NoneFound
  <2> QED
    BY <1>2, <2>1, SharedUncleaned DEF ObserveStep, Restore, ObserveDeleting, ObserveCurrent
<1>3. CASE CreateStep(r)
  BY <1>3, SharedUncleaned DEF CreateStep, FindExisting, CreateOrganization, StoreKey,
                               ProvisionIPs, EnableAPIAccessListRequired, Labels
<1>4. CASE UpdateStep(r)
  <2>1. CASE FetchCredentials(r) \/ KeepStorage(r) \/ DeleteOldSecret(r) \/ DescribeKey(r)
    BY <2>1, SharedUncleaned DEF FetchCredentials, KeepStorage, DeleteOldSecret, DescribeKey,
                                 Labels
  <2>2. CASE MigrateToKubernetes(r) \/ MigrateToAWS(r)
    BY <2>2, SharedUncleaned DEF MigrateToKubernetes, MigrateToAWS, Labels
  <2>3. CASE UpdateRoles(r) \/ UpdateEnforcement(r) \/ AddNewIPs(r) \/ RemoveOldIPs(r)
    BY <2>3, SharedUncleaned DEF UpdateRoles, UpdateEnforcement, AddNewIPs, RemoveOldIPs,
                                 UpdateDone, Labels
  <2> QED
    BY <1>4, <2>1, <2>2, <2>3 DEF UpdateStep
<1>5. CASE DeleteStep(r)
  <2>1. CASE CleanupIPs(r) \/ VerifyFirst(r) \/ FetchForDelete(r)
    BY <2>1, SharedUncleaned DEF CleanupIPs, VerifyFirst, FetchForDelete, Labels
  <2>2. CASE DeleteOrganization(r) \/ ConfirmDeletion(r)
    BY <2>2, SharedUncleaned DEF DeleteOrganization, ConfirmDeletion, Labels
  <2>3. CASE DeleteSecret(r) \/ GetForRelease(r) \/ ForceRemoveFinalizer(r)
    BY <2>3 DEF DeleteSecret, GetForRelease, ForceRemoveFinalizer, Uncleaned, Cleaned
  <2> QED
    BY <1>5, <2>1, <2>2, <2>3 DEF DeleteStep
<1> QED
  BY <1>1, <1>2, <1>3, <1>4, <1>5 DEF Reconcile

CleansLost == \A r \in Replicas : pc[r] = "clean" => Lost

LEMMA CleanedAfter ==
    ASSUME LifeInv, NEW r \in Replicas, Cleaned(r)
    PROVE  NobodyCreates
BY DEF Cleaned, LifeInv, DeletesSeen, OnCourse, Deleting, DeletionAfter

LEMMA NoneMade ==
    ASSUME NobodyCreates, Foreign = {}, [Lifecycle!Next]_<<phaseBar, madeBar>>
    PROVE  Live' \subseteq Live
<1>1. \A o \in OrgIds : madeBar[o] = orgs[o] /\ madeBar'[o] = orgs'[o]
  BY DEF madeBar
<1>2. \A o : ~Lifecycle!Make(o)
  BY DEF Lifecycle!Make, phaseBar, NobodyCreates
<1>3. \/ UNCHANGED madeBar
      \/ \E p \in OrgIds : madeBar' = [madeBar EXCEPT ![p] = "gone"]
  BY <1>2 DEF Lifecycle!Next, Lifecycle!Begin, Lifecycle!End, Lifecycle!Vanish,
              Lifecycle!Destroy
<1>4. ASSUME NEW p \in OrgIds, madeBar' = [madeBar EXCEPT ![p] = "gone"]
      PROVE  \A o \in OrgIds : madeBar'[o] = IF o = p THEN "gone" ELSE madeBar[o]
  BY <1>4 DEF madeBar
<1> QED
  BY <1>1, <1>3, <1>4 DEF Live

(* Once there is nothing left to lose, that is so for good.                *)
LEMMA NextLostSafe ==
    ASSUME Grounds, PlainFaults, Foreign = {}, MaxApplies = 0,
           [Lifecycle!Next]_<<phaseBar, madeBar>>,
           NEW n \in Names, OneSecret(n), OnePlace(n), LostSafe, CleansLost', [Next]_vars
    PROVE  LostSafe'
<1>1. TypeInv /\ CreationInv /\ LifeInv
  BY DEF Grounds, Settled
<1>2. ASSUME NEW r \in Replicas, Cleaned(r)
      PROVE  Lost'
  <2>1. NobodyCreates /\ Lost
    BY <1>1, <1>2, CleanedAfter DEF LostSafe
  <2>2. OnePlace(n)' /\ \A m \in Names : aws'[m] \in {aws[m], None}
    BY <2>1, NextOnePlace
  <2>3. Live' \subseteq Live
    BY <2>1, NoneMade
  <2> QED
    BY <2>1, <2>2, <2>3, SetsAssumption DEF Lost, Stored, OnePlace, Live
<1> SUFFICES ASSUME NEW q \in Replicas, Cleaned(q)', ~Cleaned(q)
             PROVE  Lost'
  BY <1>2 DEF LostSafe
<1>3. ASSUME NEW r \in Replicas, Reconcile(r)
      PROVE  Lost'
  <2>1. Elsewhere(r)
    BY <1>1, <1>3, ReconcileElsewhere
  <2>2. q = r
    BY <2>1 DEF Elsewhere, OthersRest, Cleaned
  <2>3. CASE Uncleaned(r)
    BY <2>2, <2>3 DEF Uncleaned, CleansLost
  <2>4. CASE Live = {} /\ UNCHANGED orgs
    BY <2>4 DEF Lost, Live
  <2> QED
    BY <1>1, <1>3, <2>3, <2>4, ReconcileUncleaned
<1>4. ASSUME NEW r \in Replicas, CacheSync(r) \/ Crash(r)
      PROVE  FALSE
  BY <1>1, <1>4 DEF CacheSync, Crash, Idle, Goto, Cleaned, local, TypeInv, LocalOK
<1>5. ~Environment
  BY <1>1, CreatedOnce DEF Environment, UserEdit, UserClearName, UserDelete, ConsoleCreate,
                           ConsoleDelete, Cleaned, local
<1>6. ~UNCHANGED vars
  BY DEF vars, local, Cleaned
<1> QED
  BY <1>3, <1>4, <1>5, <1>6 DEF Next

(* The finalizer, once an organization was made, goes with the resource,   *)
(* and the resource goes when nothing is left that a key is stored for.    *)
FinKept ==
    /\ obj.fin /\ obj'.present => obj'.fin
    /\ obj.present /\ ~obj'.present => Made = {} \/ Lost
    /\ ~obj.present => ~obj'.present

LEMMA LockFinKept ==
    ASSUME TypeInv, CreationInv, LifeInv, LostSafe, NEW r \in Replicas, LockStep(r)
    PROVE  FinKept
<1>1. obj \in Objects /\ cr[r] \in Objects
  BY Fields
<1>2. ASSUME UNCHANGED obj PROVE FinKept
  BY <1>2 DEF FinKept
<1>3. CASE Start(r)
  BY <1>2, <1>3 DEF Start
<1>4. CASE AddFinalizer(r)
  <2>1. CASE UNCHANGED api
    BY <1>2, <2>1 DEF api
  <2>2. CASE /\ obj.present /\ "cr" \in fresh[r]
             /\ obj' = AsStored([cr[r] EXCEPT !.fin = TRUE])
    <3>1. cr[r].present
      BY <1>4, <2>2 DEF AddFinalizer, Deciding, CreationInv, ForeseesNone
    <3> QED
      BY <1>1, <2>2, <3>1 DEF FinKept, AsStored, Objects
  <2> QED
    BY <1>4, <2>1, <2>2, AddFinalizerCalm DEF Store
<1>5. CASE MarkPending(r)
  <2>1. CASE UNCHANGED api
    BY <1>2, <2>1 DEF api
  <2>2. CASE /\ obj.present /\ "cr" \in fresh[r]
             /\ obj' = AsStored([cr[r] EXCEPT !.ann = "pending"])
    <3>1. cr[r].present /\ cr[r].fin
      BY <1>5, <2>2 DEF MarkPending, Deciding, CreationInv, ForeseesNone, LifeInv, DeletesSeen,
                        OnCourse
    <3> QED
      BY <1>1, <2>2, <3>1 DEF FinKept, AsStored, Objects
  <2> QED
    BY <1>5, <2>1, <2>2 DEF MarkPending, PutManaged, Store, Current
<1>6. CASE UpdateCriticalAnnotations(r)
  <2>1. UNCHANGED obj \/ obj' = Annotated(obj, cr[r])
    BY <1>6 DEF UpdateCriticalAnnotations, Store, api
  <2> QED
    BY <1>1, <2>1 DEF FinKept, Annotated, Objects
<1>7. CASE RemoveFinalizer(r) \/ ForceRemoveFinalizer(r)
  <2>1. Lost /\ cr[r].deleting
    BY <1>7 DEF RemoveFinalizer, ForceRemoveFinalizer, LostSafe, Cleaned, LifeInv, DeletesSeen,
                OnCourse, Deleting
  <2>2. CASE UNCHANGED api
    BY <1>2, <2>2 DEF api
  <2>3. CASE obj.present /\ obj' = Unfinalized(obj)
    <3>1. obj.deleting
      BY <2>1, <2>3 DEF LifeInv, DeletionKnown
    <3> QED
      BY <2>1, <2>3, <3>1 DEF FinKept, Unfinalized, Absent, NewObject
  <2> QED
    BY <1>7, <2>2, <2>3, RemoveFinalizerCalm DEF Store
<1> QED
  BY <1>3, <1>4, <1>5, <1>6, <1>7 DEF LockStep

LEMMA NextFinKept ==
    ASSUME TypeInv, CreationInv, LifeInv, LostSafe, MadeFin, MaxApplies = 0, [Next]_vars
    PROVE  FinKept
<1>1. ASSUME UNCHANGED obj PROVE FinKept
  BY <1>1 DEF FinKept
<1>2. ASSUME NEW r \in Replicas, Reconcile(r), ~LockStep(r)
      PROVE  FinKept
  BY <1>2, QuietSteady DEF InPlace, FinKept
<1>3. ASSUME NEW r \in Replicas, CacheSync(r) \/ Crash(r)
      PROVE  FinKept
  BY <1>1, <1>3 DEF CacheSync, Crash
<1>4. CASE Environment
  <2>1. obj \in Objects
    BY DEF TypeInv, ApiOK
  <2>2. CASE UserEdit \/ UserClearName \/ (UserDelete /\ obj.fin)
    BY <2>1, <2>2 DEF UserEdit, UserClearName, UserDelete, Edit, FinKept, Objects
  <2>3. CASE UserDelete /\ ~obj.fin
    BY <2>3 DEF UserDelete, Edit, FinKept, MadeFin, Absent, NewObject
  <2>4. CASE \E o \in OrgIds : ConsoleCreate(o) \/ ConsoleDelete(o)
    BY <1>1, <2>4 DEF ConsoleCreate, ConsoleDelete, api
  <2> QED
    BY <1>4, <2>2, <2>3, <2>4, CreatedOnce DEF Environment
<1>5. CASE UNCHANGED vars
  BY <1>1, <1>5 DEF vars, api
<1> QED
  BY <1>2, <1>3, <1>4, <1>5, LockFinKept DEF Next

LEMMA NextMadeFin ==
    ASSUME LifeInv, FinKept, MadeFin, [Lifecycle!Next]_<<phaseBar, madeBar>>
    PROVE  MadeFin'
<1> SUFFICES ASSUME Made' # {}, obj'.present PROVE obj'.fin
  BY DEF MadeFin
<1>1. obj.present
  BY DEF FinKept
<1>2. CASE \E o \in OrgIds \ Foreign : Lifecycle!Make(o)
  <2>1. ~NobodyCreates
    BY <1>2 DEF Lifecycle!Make, phaseBar, NobodyCreates
  <2> QED
    BY <2>1 DEF LifeInv, Outlasts, FinKept
<1>3. CASE ~\E o \in OrgIds \ Foreign : Lifecycle!Make(o)
  <2>1. \A o \in OrgIds \ Foreign : madeBar[o] = orgs[o] /\ madeBar'[o] = orgs'[o]
    BY DEF madeBar
  <2>2. \/ UNCHANGED madeBar
        \/ \E p \in OrgIds \ Foreign :
              madeBar[p] = "live" /\ madeBar' = [madeBar EXCEPT ![p] = "gone"]
    BY <1>3 DEF Lifecycle!Next, Lifecycle!Begin, Lifecycle!End, Lifecycle!Vanish,
                Lifecycle!Destroy
  <2>3. ASSUME NEW p \in OrgIds \ Foreign, madeBar' = [madeBar EXCEPT ![p] = "gone"]
        PROVE  \A o \in OrgIds \ Foreign : madeBar'[o] = IF o = p THEN "gone" ELSE madeBar[o]
    BY <2>3 DEF madeBar
  <2>4. Made # {}
    BY <2>1, <2>2, <2>3 DEF Made
  <2> QED
    BY <1>1, <2>4 DEF MadeFin, FinKept
<1> QED
  BY <1>2, <1>3

LEMMA InitOrphanInv == ASSUME NEW n PROVE Init => OrphanInv(n)
BY SetsAssumption DEF Init, OrphanInv, OnePlace, LostSafe, MadeFin, Cleaned, Made

(* When the resource goes, no live organization has its key in a store.    *)
LEMMA StepOrphans ==
    ASSUME TypeInv, FinKept, [Lifecycle!Next]_<<phaseBar, madeBar>>,
           obj.present, ~obj'.present, NEW o \in Ours'
    PROVE  ~Stored(o)
<1>1. phaseBar # "gone" /\ phaseBar' = "gone"
  BY DEF phaseBar
<1>2. UNCHANGED madeBar
  BY <1>1 DEF Lifecycle!Next, Lifecycle!Begin, Lifecycle!End, Lifecycle!Vanish,
              Lifecycle!Make, Lifecycle!Destroy
<1>3. /\ o \in OrgIds \ Foreign /\ orgs'[o] = "live"
      /\ madeBar[o] = orgs[o] /\ madeBar'[o] = orgs'[o]
  BY DEF Ours, Live, madeBar
<1>4. orgs[o] = "live"
  BY <1>2, <1>3
<1> QED
  BY <1>3, <1>4 DEF FinKept, Made, Lost, Live

(* With the secret's only name known, the finalizer of a resource that has *)
(* an organization goes when nothing is left that a key is stored for.     *)
LEMMA LostInvariance ==
    ASSUME MaxApplies = 0, Foreign = {}, PlainFaults, NEW n \in Names, OneSecret(n)
    PROVE  Spec => [](Grounds /\ LostSafe /\ MadeFin)
<1>1. Spec => [](Grounds /\ KeyInv)
  BY OneSecretType, KeyInvariance
<1>2. Grounds /\ Grounds' /\ [Next]_vars => [Lifecycle!Next]_<<phaseBar, madeBar>>
  BY SettledStep DEF Grounds
<1>3. Spec => []OnePlace(n)
  <2>1. Grounds /\ OnePlace(n) /\ [Next]_vars => OnePlace(n)'
    BY NextOnePlace
  <2>2. Init => OnePlace(n)
    BY InitOrphanInv DEF OrphanInv
  <2> QED
    BY <1>1, <2>1, <2>2, PTL DEF Spec
<1>4. Spec => []CleansLost
  <2>1. Grounds /\ KeyInv /\ OnePlace(n) => CleansLost
    BY CleanLost DEF CleansLost
  <2> QED
    BY <1>1, <1>3, <2>1, PTL
<1>5. Spec => []LostSafe
  <2>1. Grounds /\ Grounds' /\ OnePlace(n) /\ CleansLost' /\ LostSafe /\ [Next]_vars => LostSafe'
    BY <1>2, NextLostSafe
  <2>2. Init => LostSafe
    BY InitOrphanInv DEF OrphanInv
  <2> QED
    BY <1>1, <1>3, <1>4, <2>1, <2>2, PTL DEF Spec
<1>6. Spec => []MadeFin
  <2>1. Grounds /\ LostSafe /\ MadeFin /\ [Next]_vars => FinKept
    BY NextFinKept DEF Grounds, Settled
  <2>2. Grounds /\ Grounds' /\ LostSafe /\ MadeFin /\ [Next]_vars => MadeFin'
    BY <1>2, <2>1, NextMadeFin DEF Grounds, Settled
  <2>3. Init => MadeFin
    BY InitOrphanInv DEF OrphanInv
  <2> QED
    BY <1>1, <1>5, <2>2, <2>3, PTL DEF Spec
<1> QED
  BY <1>1, <1>5, <1>6, PTL

(* With one secret and faults that are what they seem, for any number of   *)
(* replicas, the operator who finds an organization left behind finds no   *)
(* key of it: the resource goes when the organization or the key is gone.  *)
THEOREM OrphanOnlyWithoutKeyCorrect ==
    ASSUME MaxApplies = 0, Foreign = {}, PlainFaults, NEW n \in Names, OneSecret(n)
    PROVE  Spec => OrphanOnlyWithoutKey
<1>1. Grounds /\ Grounds' /\ LostSafe /\ MadeFin /\ [Next]_vars
      => [obj.present /\ ~obj'.present => \A o \in Ours' : ~Stored(o)]_vars
  <2>1. Grounds /\ Grounds' /\ [Next]_vars => [Lifecycle!Next]_<<phaseBar, madeBar>>
    BY SettledStep DEF Grounds
  <2>2. Grounds /\ LostSafe /\ MadeFin /\ [Next]_vars => FinKept
    BY NextFinKept DEF Grounds, Settled
  <2> QED
    BY <2>1, <2>2, StepOrphans DEF Grounds, Settled
<1> QED
  BY <1>1, LostInvariance, PTL DEF Spec, OrphanOnlyWithoutKey

=============================================================================
