----------------------------- MODULE OrgDelete -----------------------------
(***************************************************************************)
(* Delete of the organization controller: the access list is cleaned up,   *)
(* the organization verified, deleted with its own key and verified again, *)
(* then its secret is deleted and the finalizer removed.                   *)
(***************************************************************************)
EXTENDS OrgUpdate

(* Errors of the clean-up are ignored; the attempt is then recorded.       *)
CleanupIPs(r) ==
    /\ pc[r] = "cleanup"
    /\ PutStatus(r, "marked")
    /\ UNCHANGED <<api, cr, key, chg, orgs, enforced, granted, stores, limits>>
    /\ LET old == cr[r].st.ips
           k   == fetchOrgCredentials(cr[r])
       IN \/ /\ ~cr[r].spec.cleanup \/ old = {} \/ k = None
             /\ UNCHANGED <<acl, errors>>
          \/ /\ cr[r].spec.cleanup /\ old # {} /\ k # None
             /\ RemoveIPs(k, cr[r].ext, old)

(* The parent's key asks whether the organization is still there.          *)
VerifyFirst(r) ==
    /\ pc[r] = "verify"
    /\ \E rep \in Replies(IF orgs[cr[r].ext] = "live" THEN "2xx" ELSE "404") :
          /\ Replied(rep)
          /\ Goto(r, IF TakenAsDeleted(VerifyOrganizationDeletion(rep.answer, cr[r].ext))
                     THEN "clean" ELSE "delcreds")
    /\ UNCHANGED <<api, local, atlas, stores, limits>>

Deleted(o) ==
    /\ orgs' = [orgs EXCEPT ![o] = "gone"]
    /\ enforced' = enforced \ {o}
    /\ acl' = [acl EXCEPT ![o] = {}]
    /\ granted' = [granted EXCEPT ![o] = {}]

(* Fault: the parent's key deletes, and it opens every organization. *)
DeleteAsParent(r) ==
    /\ pc[r] = "delcreds"
    /\ orgs[cr[r].ext] = "live"
    /\ Deleted(cr[r].ext)
    /\ Goto(r, "clean")
    /\ UNCHANGED <<api, local, stores, errors, limits>>

(* A missing AWS secret counts as cleaned up already; a missing Kubernetes *)
(* secret, or no AWS client, is an error.                                  *)
FetchForDelete(r) ==
    /\ pc[r] = "delcreds"
    /\ UNCHANGED <<api, cr, chg, atlas, stores, limits>>
    /\ LET k == fetchOrgCredentials(cr[r]) IN
       \/ /\ k # None
          /\ key' = [key EXCEPT ![r] = k]
          /\ Goto(r, "delete")
          /\ UNCHANGED <<ret, errors>>
       \/ /\ k = None /\ cr[r].st.stype # "Kubernetes" /\ HasAWS
          /\ Goto(r, "clean")
          /\ UNCHANGED <<key, ret, errors>>
       \/ /\ k = None /\ (cr[r].st.stype = "Kubernetes" \/ ~HasAWS)
          /\ PutStatus(r, "error")
          /\ UNCHANGED <<key, errors>>
       \/ /\ errors < MaxErrors /\ errors' = errors + 1
          /\ PutStatus(r, "error")
          /\ UNCHANGED key

(* The key of an organization that is gone meets 401 or 404.               *)
KeyAnswers(k, o) ==
    {KeyAnswer(k, o)} \cup (IF orgs[o] = "gone" THEN {"404"} ELSE {})

DeleteOrganization(r) ==
    /\ pc[r] = "delete"
    /\ UNCHANGED <<api, cr, key, chg, stores, limits>>
    /\ \E truth \in KeyAnswers(key[r], cr[r].ext) : \E rep \in Replies(truth) :
          /\ Replied(rep)
          /\ IF rep.done THEN Deleted(cr[r].ext) ELSE UNCHANGED atlas
          /\ LET err == doRequest(rep.answer) IN
             CASE IsNotFoundError(err) -> Goto(r, "clean") /\ UNCHANGED ret
               [] err = Nil            -> Goto(r, "confirm") /\ UNCHANGED ret
               [] ~IsNotFoundError(err) /\ ~isUnauthorizedError(err)
                    /\ isAtlasTransientOrOpaqueDeleteErr(err) ->
                                          Goto(r, "clean") /\ UNCHANGED ret
               [] OTHER                -> PutStatus(r, "error")

(* The organization's own key asks again.                                  *)
ConfirmDeletion(r) ==
    /\ pc[r] = "confirm"
    /\ UNCHANGED <<api, cr, key, chg, atlas, stores, limits>>
    /\ \E truth \in KeyAnswers(key[r], cr[r].ext) : \E rep \in Replies(truth) :
          /\ Replied(rep)
          /\ IF TakenAsDeleted(VerifyOrganizationDeletion(rep.answer, cr[r].ext))
             THEN Goto(r, "clean") /\ UNCHANGED ret
             ELSE PutStatus(r, "error")

(* cleanupSecretsAfterDelete: the secret goes, errors ignored, ...         *)
DeleteSecret(r) ==
    /\ pc[r] = "clean"
    /\ PutStatus(r, "cleaned")
    /\ UNCHANGED <<api, cr, key, chg, atlas, limits>>
    /\ \E out \in Outcomes :
          /\ Outcome(out)
          /\ CASE out = "fail" \/ (cr[r].st.stype # "Kubernetes" /\ ~HasAWS) ->
                     UNCHANGED stores
               [] out # "fail" /\ cr[r].st.stype = "Kubernetes" ->
                     k8s' = [k8s EXCEPT ![cr[r].spec.k8s] = None] /\ UNCHANGED aws
               [] OTHER ->
                     aws' = [aws EXCEPT ![AwsSecretName(cr[r])] = None] /\ UNCHANGED k8s

(* ... the status is written, and the finalizer is taken off whatever now  *)
(* has the resource's name.                                                *)
GetForRelease(r) ==
    /\ pc[r] = "release"
    /\ \/ /\ cache[r].present /\ cache[r].fin
          /\ fresh' = [fresh EXCEPT ![r] = IF "cache" \in @ THEN @ \cup {"latest"}
                                                           ELSE @ \ {"latest"}]
          /\ Goto(r, "unfinal")
          /\ UNCHANGED <<obj, cache, ret, errors>>
       \/ /\ ~(cache[r].present /\ cache[r].fin)
          /\ Finish(r)
          /\ UNCHANGED <<api, errors>>
       \/ /\ errors < MaxErrors /\ errors' = errors + 1
          /\ Finish(r)
          /\ UNCHANGED api
    /\ UNCHANGED <<cr, key, chg, atlas, stores, limits>>

ForceRemoveFinalizer(r) ==
    /\ pc[r] = "unfinal"
    /\ Finish(r)
    /\ IF Current(r, "latest")
       THEN \E out \in Outcomes :
               /\ IF out = "fail" THEN UNCHANGED api ELSE Store(r, {}, Unfinalized(obj))
               /\ Outcome(out)
       ELSE UNCHANGED <<api, errors>>
    /\ UNCHANGED <<cr, key, chg, atlas, stores, limits>>

DeleteStep(r) ==
    \/ CleanupIPs(r) \/ VerifyFirst(r) \/ FetchForDelete(r) \/ DeleteOrganization(r)
    \/ ConfirmDeletion(r) \/ DeleteSecret(r) \/ GetForRelease(r) \/ ForceRemoveFinalizer(r)

=============================================================================
