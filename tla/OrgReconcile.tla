---------------------------- MODULE OrgReconcile ----------------------------
(***************************************************************************)
(* The managed-resource reconciler that drives the organization controller *)
(* (crossplane-runtime, a dependency: modelled from how Setup, Observe,    *)
(* Create, Update and Delete are called by it), and the two subroutines    *)
(* those four share: persisting the external name, and writing the status  *)
(* with one retry.  One action per call to the API server.                 *)
(***************************************************************************)
EXTENDS OrgBase

(* Fault: a creation that was begun elsewhere does not hold it back.       *)
StartDespitePending(r) ==
    /\ pc[r] = "idle" /\ cache[r].present
    /\ cr' = [cr EXCEPT ![r] = cache[r]]
    /\ Holds(r, IF "cache" \in fresh[r] THEN {"cr"} ELSE {})
    /\ Goto(r, "observe")
    /\ UNCHANGED <<obj, cache, ret, key, chg, atlas, stores, errors, limits>>

(* A reconcile starts from the informer's copy.  It refuses a resource     *)
(* whose creation was begun and neither completed nor failed.  Connect     *)
(* only reads: a reconcile it fails has not started.                       *)
Start(r) ==
    /\ pc[r] = "idle"
    /\ cache[r].present
    /\ cache[r].ann # "pending"
    /\ cr' = [cr EXCEPT ![r] = cache[r]]
    /\ Holds(r, IF "cache" \in fresh[r] THEN {"cr"} ELSE {})
    /\ Goto(r, "observe")
    /\ UNCHANGED <<obj, cache, ret, key, chg, atlas, stores, errors, limits>>

(* Where the reconcile goes once Observe has reported what exists: to      *)
(* Delete, or past AddFinalizer to what remains to be done.                *)
Observed(r, next) ==
    IF cr[r].deleting
    THEN /\ Goto(r, IF next = "create" THEN "unfinalize" ELSE "cleanup")
         /\ ret' = [ret EXCEPT ![r] = "none"]
    ELSE /\ Goto(r, "finalizer")
         /\ ret' = [ret EXCEPT ![r] = next]

(* What AddFinalizer leaves to be done.                                    *)
Onward(r) ==
    /\ Goto(r, CASE ret[r] = "create" -> "pending"
                 [] ret[r] = "update" -> "creds"
                 [] OTHER -> "finish")
    /\ ret' = [ret EXCEPT ![r] = "none"]

Finish(r) == Goto(r, "finish") /\ ret' = [ret EXCEPT ![r] = "none"]

(* client.Update of r's working copy: metadata and status are the copy's,  *)
(* the status subresource ignores the status.                              *)
PutManaged(r, out, new) ==
    \/ out = "ok"   /\ Store(r, {"cr"}, new)
                    /\ cr' = [cr EXCEPT ![r] = [new EXCEPT !.st = Overlay(obj.st, cr[r].st)]]
    \/ out = "lost" /\ Store(r, {}, new) /\ UNCHANGED cr
    \/ out = "fail" /\ UNCHANGED <<api, cr>>

(* The copy as the API server would store it, with its own status.         *)
AsStored(c) == [c EXCEPT !.st = obj.st]

AddFinalizer(r) ==
    /\ pc[r] = "finalizer"
    /\ UNCHANGED <<key, chg, atlas, stores, limits>>
    /\ \/ /\ cr[r].fin
          /\ Onward(r)
          /\ UNCHANGED <<api, cr, errors>>
       \/ /\ ~cr[r].fin /\ Current(r, "cr")
          /\ \E out \in Outcomes :
                /\ PutManaged(r, out, AsStored([cr[r] EXCEPT !.fin = TRUE]))
                /\ Outcome(out)
                /\ IF out = "ok" THEN Onward(r) ELSE Finish(r)
       \/ /\ ~cr[r].fin /\ ~Current(r, "cr")      \* conflict, or not found
          /\ Finish(r)
          /\ UNCHANGED <<api, cr, errors>>

(* The resource is being deleted and nothing external exists.              *)
RemoveFinalizer(r) ==
    /\ pc[r] = "unfinalize"
    /\ Finish(r)
    /\ IF Current(r, "cr")
       THEN \E out \in Outcomes :
               /\ IF out = "fail" THEN UNCHANGED api
                                  ELSE Store(r, {}, Unfinalized(obj))
               /\ Outcome(out)
       ELSE UNCHANGED <<api, errors>>
    /\ UNCHANGED <<cr, key, chg, atlas, stores, limits>>

(* The creation is announced before it is attempted, by a write that any   *)
(* concurrent change of the resource makes fail.                           *)
MarkPending(r) ==
    /\ pc[r] = "pending"
    /\ IF Current(r, "cr")
       THEN \E out \in Outcomes :
               /\ PutManaged(r, out, AsStored([cr[r] EXCEPT !.ann = "pending"]))
               /\ Outcome(out)
               /\ IF out = "ok" THEN Goto(r, "find") /\ UNCHANGED ret ELSE Finish(r)
       ELSE Finish(r) /\ UNCHANGED <<api, cr, errors>>
    /\ UNCHANGED <<key, chg, atlas, stores, limits>>

(* Create returned: its outcome and the external name are to be recorded.  *)
Created(r, c, result) ==
    /\ cr' = [cr EXCEPT ![r] = [c EXCEPT !.ann = result]]
    /\ Goto(r, "annotate")
    /\ ret' = [ret EXCEPT ![r] = "none"]

CreateFailed(r) == Created(r, cr[r], "failed")

(* UpdateCriticalAnnotations: up to five attempts, each after a conflict   *)
(* with the annotations on the informer's copy of the resource; given up   *)
(* when that copy is stale too.                                            *)
Annotated(o, c) == [o EXCEPT !.ann = c.ann,
                             !.ext = IF c.ext = None THEN o.ext ELSE c.ext]
UpdateCriticalAnnotations(r) ==
    /\ pc[r] = "annotate"
    /\ Finish(r)
    /\ UNCHANGED <<key, chg, atlas, stores, limits>>
    /\ \/ /\ Current(r, "cr") \/ Current(r, "cache")
          /\ Store(r, {"cr"}, Annotated(obj, cr[r]))
          /\ cr' = [cr EXCEPT ![r] =
                       [Annotated(obj, cr[r]) EXCEPT
                          !.st = IF Current(r, "cr") THEN Overlay(obj.st, cr[r].st) ELSE obj.st]]
          /\ UNCHANGED errors
       \/ /\ ~(Current(r, "cr") \/ Current(r, "cache"))
          /\ UNCHANGED <<api, cr, errors>>
       \/ /\ errors < MaxErrors /\ errors' = errors + 1
          /\ UNCHANGED <<api, cr>>

(* Whatever happened, the reconciler ends by writing the status of its     *)
(* copy; a conflict only requeues.                                         *)
UpdateManagedStatus(r) ==
    /\ pc[r] = "finish"
    /\ Idle(r)
    /\ \/ /\ Current(r, "cr") /\ obj.st # cr[r].st
          /\ \E out \in Outcomes :
                /\ IF out = "fail" THEN Holds(r, {}) /\ UNCHANGED <<obj, cache>>
                                   ELSE Store(r, {}, [obj EXCEPT !.st = cr[r].st])
                /\ Outcome(out)
       \/ /\ ~(Current(r, "cr") /\ obj.st # cr[r].st)
          /\ Holds(r, {}) /\ UNCHANGED <<obj, cache, errors>>
    /\ UNCHANGED <<atlas, stores, limits>>

-----------------------------------------------------------------------------
(* Persisting the external name: Get the latest copy, set the name, PUT;   *)
(* on a conflict both once more.  The code has this sequence four times;   *)
(* ret says which one is running.                                          *)

PersistName(r, caller) ==
    /\ Goto(r, "get")
    /\ ret' = [ret EXCEPT ![r] = caller]

PersistFailed(r) ==
    IF ret[r] \in {"reuse", "created"} THEN CreateFailed(r)
                                       ELSE Finish(r) /\ UNCHANGED cr

NamePersisted(r) ==
    CASE ret[r] = "restore" -> Observed(r, "update") /\ UNCHANGED cr
      [] ret[r] = "created" -> Goto(r, "store") /\ UNCHANGED <<ret, cr>>
      [] OTHER              -> Goto(r, "adopted") /\ UNCHANGED <<ret, cr>>

(* Get reads the informer's copy.                                          *)
GetLatest(r) ==
    /\ pc[r] \in {"get", "reget"}
    /\ UNCHANGED <<key, chg, atlas, stores, limits>>
    /\ \/ /\ cache[r].present
          /\ fresh' = [fresh EXCEPT ![r] = IF "cache" \in @ THEN @ \cup {"latest"}
                                                           ELSE @ \ {"latest"}]
          /\ Goto(r, IF pc[r] = "get" THEN "put" ELSE "reput")
          /\ UNCHANGED <<obj, cache, cr, ret, errors>>
       \/ /\ ~cache[r].present
          /\ PersistFailed(r)
          /\ UNCHANGED <<api, errors>>
       \/ /\ errors < MaxErrors /\ errors' = errors + 1
          /\ PersistFailed(r)
          /\ UNCHANGED api

PutName(r) ==
    /\ pc[r] \in {"put", "reput"}
    /\ UNCHANGED <<key, chg, atlas, stores, limits>>
    /\ \/ /\ Current(r, "latest")
          /\ \E out \in Outcomes :
                /\ IF out = "fail" THEN UNCHANGED api
                   ELSE Store(r, IF out = "ok" THEN {"latest"} ELSE {},
                              [obj EXCEPT !.ext = cr[r].ext])
                /\ Outcome(out)
                /\ IF out = "ok" THEN NamePersisted(r) ELSE PersistFailed(r)
       \/ /\ ~Current(r, "latest")
          /\ IF pc[r] = "put" /\ obj.present
             THEN Goto(r, "reget") /\ UNCHANGED <<cr, ret>>       \* conflict
             ELSE PersistFailed(r)
          /\ UNCHANGED <<api, errors>>

(* After an adoption the status follows, on the copy just written.         *)
AdoptStatus(r) ==
    /\ pc[r] = "adopted"
    /\ UNCHANGED <<key, chg, atlas, stores, limits>>
    /\ \/ /\ Current(r, "latest")
          /\ \E out \in Outcomes :
                /\ IF out = "fail" THEN UNCHANGED api
                                   ELSE Store(r, {}, [obj EXCEPT !.st = cr[r].st])
                /\ Outcome(out)
                /\ CASE out # "ok"        -> PersistFailed(r)
                     [] out = "ok" /\ ret[r] = "reuse" -> Created(r, cr[r], "succeeded")
                     [] OTHER              -> Observed(r, "update") /\ UNCHANGED cr
       \/ /\ ~Current(r, "latest")
          /\ PersistFailed(r)
          /\ UNCHANGED <<api, errors>>

-----------------------------------------------------------------------------
(* updateStatusWithRetry: write the status of the working copy; on a       *)
(* conflict put that same status on the informer's copy and try once more. *)

PutStatus(r, caller) ==
    /\ Goto(r, "status")
    /\ ret' = [ret EXCEPT ![r] = caller]

(* Fault: the finalizers go after a deletion that failed, too.             *)
StatusPutThenRelease(r, ok) ==
    CASE ret[r] = "created" -> Created(r, cr[r], IF ok THEN "succeeded" ELSE "failed")
      [] ret[r] = "marked"  -> Goto(r, "verify") /\ UNCHANGED <<cr, ret>>
      [] ret[r] \in {"cleaned", "error"} -> Goto(r, "release") /\ UNCHANGED <<cr, ret>>
      [] OTHER              -> Finish(r) /\ UNCHANGED cr

(* What its caller does with the result.                                   *)
StatusPut(r, ok) ==
    CASE ret[r] = "created" -> Created(r, cr[r], IF ok THEN "succeeded" ELSE "failed")
      [] ret[r] = "marked"  -> Goto(r, "verify") /\ UNCHANGED <<cr, ret>>
      [] ret[r] = "cleaned" -> Goto(r, "release") /\ UNCHANGED <<cr, ret>>
      [] OTHER              -> Finish(r) /\ UNCHANGED cr

(* Fault: the status is patched over whatever the resource has by now.     *)
PatchStatus(r) ==
    /\ pc[r] = "status"
    /\ UNCHANGED <<key, chg, atlas, stores, limits>>
    /\ \/ /\ obj.present
          /\ \E out \in Outcomes :
                /\ IF out = "fail" THEN UNCHANGED api
                   ELSE Store(r, IF out = "ok" THEN {"cr"} ELSE {}, [obj EXCEPT !.st = cr[r].st])
                /\ Outcome(out)
                /\ StatusPut(r, out = "ok")
       \/ /\ ~obj.present
          /\ StatusPut(r, FALSE)
          /\ UNCHANGED <<api, errors>>

UpdateStatus(r) ==
    /\ pc[r] = "status"
    /\ UNCHANGED <<key, chg, atlas, stores, limits>>
    /\ \/ /\ Current(r, "cr")
          /\ \E out \in Outcomes :
                /\ IF out = "fail" THEN UNCHANGED api
                   ELSE Store(r, IF out = "ok" THEN {"cr"} ELSE {}, [obj EXCEPT !.st = cr[r].st])
                /\ Outcome(out)
                /\ StatusPut(r, out = "ok")
       \/ /\ ~Current(r, "cr")
          /\ IF obj.present THEN Goto(r, "reread") /\ UNCHANGED <<cr, ret>>
                            ELSE StatusPut(r, FALSE)
          /\ UNCHANGED <<api, errors>>

RereadForStatus(r) ==
    /\ pc[r] = "reread"
    /\ UNCHANGED <<key, chg, atlas, stores, limits>>
    /\ \/ /\ cache[r].present
          /\ fresh' = [fresh EXCEPT ![r] = IF "cache" \in @ THEN @ \cup {"latest"}
                                                           ELSE @ \ {"latest"}]
          /\ Goto(r, "restatus")
          /\ UNCHANGED <<obj, cache, cr, ret, errors>>
       \/ /\ ~cache[r].present
          /\ StatusPut(r, FALSE)
          /\ UNCHANGED <<api, errors>>
       \/ /\ errors < MaxErrors /\ errors' = errors + 1
          /\ StatusPut(r, FALSE)
          /\ UNCHANGED api

RetryStatus(r) ==
    /\ pc[r] = "restatus"
    /\ UNCHANGED <<key, chg, atlas, stores, limits>>
    /\ \/ /\ Current(r, "latest")
          /\ \E out \in Outcomes :
                /\ IF out = "fail" THEN UNCHANGED api
                                   ELSE Store(r, {}, [obj EXCEPT !.st = cr[r].st])
                /\ Outcome(out)
                /\ StatusPut(r, out = "ok")
       \/ /\ ~Current(r, "latest")
          /\ StatusPut(r, FALSE)
          /\ UNCHANGED <<api, errors>>

ReconcilerStep(r) ==
    \/ Start(r) \/ AddFinalizer(r) \/ RemoveFinalizer(r) \/ MarkPending(r)
    \/ UpdateCriticalAnnotations(r) \/ UpdateManagedStatus(r)
    \/ GetLatest(r) \/ PutName(r) \/ AdoptStatus(r)
    \/ UpdateStatus(r) \/ RereadForStatus(r) \/ RetryStatus(r)

=============================================================================
