----------------------------- MODULE OrgObserve -----------------------------
(***************************************************************************)
(* Observe of the organization controller: is there an organization for    *)
(* this resource, and is it as the spec wants it?  One action per branch.  *)
(***************************************************************************)
EXTENDS OrgReconcile

(* The external name was cleared (a manifest with an empty one was applied *)
(* again) but the status still has the id.                                 *)
Restore(r) ==
    /\ pc[r] = "observe"
    /\ cr[r].ext = None /\ cr[r].st.orgID # None
    /\ cr' = [cr EXCEPT ![r].ext = cr[r].st.orgID]
    /\ PersistName(r, "restore")
    /\ UNCHANGED <<api, key, chg, atlas, stores, errors, limits>>

(* GetOrganizationByName: the first result, whichever that is; no result   *)
(* and 404 both mean that there is none.                                   *)
NoneFound(err) == IsNotFoundError(err) \/ (err = Nil /\ Live = {})
Adopted(c, o) == [c EXCEPT !.ext = o, !.st.orgID = o]

(* Fault: the search comes before the restoration from the status.         *)
SearchByNameFirst(r) ==
    /\ pc[r] = "observe" /\ cr[r].ext = None
    /\ UNCHANGED <<api, key, chg, atlas, stores, limits>>
    /\ \E rep \in Replies("2xx") :
          /\ Replied(rep)
          /\ \/ /\ rep.answer = "2xx"
                /\ \E o \in Live : cr' = [cr EXCEPT ![r] = Adopted(cr[r], o)]
                /\ PersistName(r, "adopt")
             \/ NoneFound(doRequest(rep.answer)) /\ Observed(r, "create") /\ UNCHANGED cr
             \/ rep.answer # "2xx" /\ Finish(r) /\ UNCHANGED cr

(* No external name: an organization with the resource's name is adopted.  *)
SearchByName(r) ==
    /\ pc[r] = "observe"
    /\ cr[r].ext = None /\ cr[r].st.orgID = None
    /\ UNCHANGED <<api, key, chg, atlas, stores, limits>>
    /\ \E rep \in Replies("2xx") :
          /\ Replied(rep)
          /\ LET err == doRequest(rep.answer) IN
             \/ /\ err = Nil
                /\ \E o \in Live : cr' = [cr EXCEPT ![r] = Adopted(cr[r], o)]
                /\ PersistName(r, "adopt")
             \/ /\ NoneFound(err)
                /\ Observed(r, "create")
                /\ UNCHANGED cr
             \/ /\ err # Nil /\ ~IsNotFoundError(err)
                /\ Finish(r)
                /\ UNCHANGED cr

ObserveDeleting(r) ==
    /\ pc[r] = "observe"
    /\ cr[r].ext # None /\ cr[r].deleting
    /\ Observed(r, "update")
    /\ UNCHANGED <<api, cr, key, chg, atlas, stores, errors, limits>>

(* Fault: a spec without SecretStorageConfig gets no default.              *)
StorageTypeAsWritten(spec) == spec.storage

StorageType(spec) == IF spec.storage = "nil" THEN "AWS" ELSE spec.storage

DesiredSecretName(spec) ==
    IF spec.storage = "Kubernetes" THEN spec.k8s ELSE spec.final

(* The status is made to say where the spec wants the key to be; the name  *)
(* of an AWS secret only once that secret is found.                        *)
WithSecretMetadata(c, found) ==
    [c.st EXCEPT
       !.stype = StorageType(c.spec),
       !.sname = IF c.spec.storage = "Kubernetes" \/ found
                 THEN DesiredSecretName(c.spec) ELSE @]

Enforcement(required) == IF required THEN "on" ELSE "off"

UpToDate(spec, st) ==
    /\ st.sname \in {Unset, DesiredSecretName(spec)}
    /\ st.enf = Enforcement(spec.required)
    /\ spec.enabled => st.ips = spec.ips

ObserveCurrent(r) ==
    /\ pc[r] = "observe"
    /\ cr[r].ext # None /\ ~cr[r].deleting
    /\ LET described == HasAWS /\ aws[cr[r].spec.final] # None
           asks      == HasAWS /\ cr[r].spec.storage # "Kubernetes"
       IN \E found \in {described, FALSE} :
             LET st == WithSecretMetadata(cr[r], found) IN
             /\ IF asks /\ found # described
                THEN errors < MaxErrors /\ errors' = errors + 1
                ELSE found = described /\ UNCHANGED errors
             /\ cr' = [cr EXCEPT ![r].st = st]
             /\ Observed(r, IF UpToDate(cr[r].spec, st) THEN "finish" ELSE "update")
    /\ UNCHANGED <<api, key, chg, atlas, stores, limits>>

ObserveStep(r) ==
    \/ Restore(r) \/ SearchByName(r) \/ ObserveDeleting(r) \/ ObserveCurrent(r)

=============================================================================
