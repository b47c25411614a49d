----------------------------- MODULE OrgUpdate -----------------------------
(***************************************************************************)
(* Update of the organization controller, in the order of the code: the    *)
(* organization's key is fetched, moved when the storage type changed, its *)
(* roles, the enforcement flag and the access list brought in line, and    *)
(* the status written if anything was recorded.                            *)
(***************************************************************************)
EXTENDS OrgCreate

FetchCredentials(r) ==
    /\ pc[r] = "creds"
    /\ UNCHANGED <<api, cr, ret, chg, atlas, stores, limits>>
    /\ \/ /\ fetchOrgCredentials(cr[r]) # None
          /\ key' = [key EXCEPT ![r] = fetchOrgCredentials(cr[r])]
          /\ Goto(r, "migrate")
          /\ UNCHANGED errors
       \/ /\ fetchOrgCredentials(cr[r]) = None
          /\ Goto(r, "finish")
          /\ UNCHANGED <<key, errors>>
       \/ /\ errors < MaxErrors /\ errors' = errors + 1
          /\ Goto(r, "finish")
          /\ UNCHANGED key

Moved(r, type, name) ==
    /\ cr'  = [cr EXCEPT ![r].st = Recorded(@, type, name)]
    /\ chg' = [chg EXCEPT ![r] = TRUE]

Migrates(c) == c.st.stype \notin {"", StorageType(c.spec)}

(* The name of the secret in AWS after a move there.                       *)
MigratedName(c) == IF c.spec.named = Unset THEN NameOfId[c.ext] ELSE c.spec.named

MigrateToKubernetes(r) ==
    /\ pc[r] = "migrate"
    /\ Migrates(cr[r]) /\ StorageType(cr[r].spec) = "Kubernetes"
    /\ UNCHANGED <<api, ret, key, atlas, aws, limits>>
    /\ \E out \in Outcomes :
          /\ Outcome(out)
          /\ k8s' = IF out = "fail" THEN k8s ELSE [k8s EXCEPT ![cr[r].spec.k8s] = key[r]]
          /\ IF out = "ok"
             THEN Moved(r, "Kubernetes", cr[r].spec.k8s) /\ Goto(r, "purge")
             ELSE UNCHANGED <<cr, chg>> /\ Goto(r, "finish")

(* Fault: a secret that could not be written is taken to be in AWS.        *)
MigrateToAWSBlindly(r) ==
    /\ pc[r] = "migrate"
    /\ Migrates(cr[r]) /\ StorageType(cr[r].spec) = "AWS"
    /\ cr[r].spec.storage = "AWS" /\ cr[r].spec.named # None
    /\ \E out \in Outcomes :
          /\ Outcome(out)
          /\ aws' = IF out = "fail" THEN aws ELSE [aws EXCEPT ![MigratedName(cr[r])] = key[r]]
    /\ Moved(r, "AWS", MigratedName(cr[r]))
    /\ Goto(r, "purge")
    /\ UNCHANGED <<api, ret, key, atlas, k8s, limits>>

MigrateToAWS(r) ==
    /\ pc[r] = "migrate"
    /\ Migrates(cr[r]) /\ StorageType(cr[r].spec) = "AWS"
    /\ UNCHANGED <<api, atlas, k8s, limits>>
    /\ LET spec   == cr[r].spec
           panics == HasAWS /\ spec.storage = "nil"  \* SecretStorageConfig is dereferenced
           noAWS  == ~HasAWS \/ (spec.storage = "AWS" /\ spec.named = None)
       IN \/ panics /\ Idle(r) /\ UNCHANGED <<aws, errors>>
          \/ noAWS /\ Goto(r, "finish") /\ UNCHANGED <<aws, local, errors>>
          \/ /\ ~panics /\ ~noAWS
             /\ UNCHANGED <<ret, key>>
             /\ \E out \in Outcomes :
                   /\ Outcome(out)
                   /\ aws' = IF out = "fail" THEN aws
                             ELSE [aws EXCEPT ![MigratedName(cr[r])] = key[r]]
                   /\ IF out = "ok"
                      THEN Moved(r, "AWS", MigratedName(cr[r])) /\ Goto(r, "purge")
                      ELSE UNCHANGED <<cr, chg>> /\ Goto(r, "finish")

KeepStorage(r) ==
    /\ pc[r] = "migrate"
    /\ ~Migrates(cr[r])
    /\ Goto(r, "describe")
    /\ UNCHANGED <<api, local, atlas, stores, errors, limits>>

(* After a move the old copy is deleted, errors ignored.  After a move to  *)
(* Kubernetes the name deleted in AWS is the one the status has by now,    *)
(* the new one.                                                            *)
DeleteOldSecret(r) ==
    /\ pc[r] = "purge"
    /\ Goto(r, "describe")
    /\ UNCHANGED <<api, local, atlas, limits>>
    /\ \E out \in Outcomes :
          /\ Outcome(out)
          /\ CASE out = "fail" \/ (cr[r].st.stype = "Kubernetes" /\ ~HasAWS) ->
                     UNCHANGED stores
               [] out # "fail" /\ cr[r].st.stype = "AWS" ->
                     k8s' = [k8s EXCEPT ![cr[r].spec.k8s] = None] /\ UNCHANGED aws
               [] OTHER ->
                     aws' = [aws EXCEPT ![cr[r].st.sname] = None] /\ UNCHANGED k8s

(* The key's id is looked up; without it key and roles are skipped.  A     *)
(* description that cannot be written is recorded as an error.             *)
DescribeKey(r) ==
    /\ pc[r] = "describe"
    /\ UNCHANGED <<api, cr, ret, key, atlas, stores, limits>>
    /\ LET truth == KeyAnswer(key[r], cr[r].ext) IN
       \/ /\ \E rep \in Replies(truth) : doRequest(rep.answer) # Nil /\ Replied(rep)
          /\ Goto(r, "enforcement")
          /\ UNCHANGED chg
       \/ /\ truth = "2xx"
          /\ \E rep \in Replies(truth) :
                /\ Replied(rep)
                /\ chg' = [chg EXCEPT ![r] = @ \/ doRequest(rep.answer) # Nil]
          /\ Goto(r, "roles")

UpdateRoles(r) ==
    /\ pc[r] = "roles"
    /\ Goto(r, "enforcement")
    /\ UNCHANGED <<api, ret, key, orgs, enforced, acl, stores, limits>>
    /\ LET want == cr[r].spec.roles IN
       \/ /\ want = {} \/ want = cr[r].st.roles
          /\ UNCHANGED <<cr, chg, granted, errors>>
       \/ /\ want # {} /\ want # cr[r].st.roles
          /\ chg' = [chg EXCEPT ![r] = TRUE]
          /\ \E rep \in Replies(KeyAnswer(key[r], cr[r].ext)) :
                /\ Replied(rep)
                /\ granted' = IF rep.done THEN [granted EXCEPT ![cr[r].ext] = want] ELSE granted
                /\ cr' = IF doRequest(rep.answer) = Nil
                         THEN [cr EXCEPT ![r].st.roles = want] ELSE cr

NeedsEnforcementUpdate(spec, st) ==
    IF st.enf = "unset" THEN spec.required ELSE st.enf # Enforcement(spec.required)

UpdateEnforcement(r) ==
    /\ pc[r] = "enforcement"
    /\ Goto(r, "addips")
    /\ UNCHANGED <<api, ret, key, orgs, acl, granted, stores, limits>>
    /\ LET on == cr[r].spec.required IN
       \/ /\ ~NeedsEnforcementUpdate(cr[r].spec, cr[r].st)
          /\ UNCHANGED <<cr, chg, enforced, errors>>
       \/ /\ NeedsEnforcementUpdate(cr[r].spec, cr[r].st)
          /\ chg' = [chg EXCEPT ![r] = TRUE]
          /\ \E rep \in Replies(KeyAnswer(key[r], cr[r].ext)) :
                /\ Replied(rep)
                /\ enforced' = CASE ~rep.done      -> enforced
                                 [] rep.done /\ on -> enforced \cup {cr[r].ext}
                                 [] OTHER          -> enforced \ {cr[r].ext}
                /\ cr' = IF doRequest(rep.answer) = Nil
                         THEN [cr EXCEPT ![r].st.enf = Enforcement(on)] ELSE cr

(* The end of Update: the status is written if statusChanged.              *)
UpdateDone(r, changed) ==
    IF changed THEN PutStatus(r, "updated") ELSE Finish(r)

AddNewIPs(r) ==
    /\ pc[r] = "addips"
    /\ UNCHANGED <<api, cr, key, orgs, enforced, granted, stores, limits>>
    /\ LET truth == KeyAnswer(key[r], cr[r].ext)
           toAdd == cr[r].spec.ips \ cr[r].st.ips
       IN \/ /\ ~cr[r].spec.enabled
             /\ UpdateDone(r, chg[r])
             /\ UNCHANGED <<chg, acl, errors>>
          \/ /\ cr[r].spec.enabled
             /\ \E rep \in Replies(truth) : doRequest(rep.answer) # Nil /\ Replied(rep)
             /\ UpdateDone(r, chg[r])              \* the key's id is not resolved
             /\ UNCHANGED <<chg, acl>>
          \/ /\ cr[r].spec.enabled /\ truth = "2xx"
             /\ Goto(r, "removeips")
             /\ \/ /\ toAdd = {}
                   /\ UNCHANGED <<ret, chg, acl, errors>>
                \/ /\ toAdd # {}
                   /\ \E rep \in Replies(truth) :
                         /\ Replied(rep)
                         /\ acl' = IF rep.done THEN [acl EXCEPT ![cr[r].ext] = @ \cup toAdd]
                                               ELSE acl
                         /\ chg' = [chg EXCEPT ![r] = @ \/ doRequest(rep.answer) # Nil]
                   /\ UNCHANGED ret

(* Addresses are removed one call each, in any order, errors ignored: what *)
(* is left of them afterwards.  Once the provider's own address is off an  *)
(* access list that is enforced, the calls that follow are refused.        *)
MayLeave(k, o, old, left) ==
    LET refused == KeyAnswer(k, o) # "2xx" IN
    \/ /\ IF refused THEN left = old
                      ELSE left = {} \/ (o \in enforced /\ EgressIP \in old \ left)
       /\ UNCHANGED errors
    \/ ~refused /\ left # {} /\ errors < MaxErrors /\ errors' = errors + 1

RemoveIPs(k, o, old) ==
    \E left \in SUBSET old :
        /\ MayLeave(k, o, old, left)
        /\ acl' = [acl EXCEPT ![o] = @ \ (old \ left)]

(* Fault: what the spec still lists is removed, too.                       *)
RemoveAllIPs(r) ==
    /\ pc[r] = "removeips"
    /\ RemoveIPs(key[r], cr[r].ext, cr[r].st.ips)
    /\ cr' = [cr EXCEPT ![r].st.ips = cr[r].spec.ips]
    /\ chg' = [chg EXCEPT ![r] = TRUE]
    /\ UpdateDone(r, TRUE)
    /\ UNCHANGED <<api, key, orgs, enforced, granted, stores, limits>>

RemoveOldIPs(r) ==
    /\ pc[r] = "removeips"
    /\ RemoveIPs(key[r], cr[r].ext, cr[r].st.ips \ cr[r].spec.ips)
    /\ cr' = [cr EXCEPT ![r].st.ips = cr[r].spec.ips]
    /\ chg' = [chg EXCEPT ![r] = TRUE]
    /\ UpdateDone(r, TRUE)
    /\ UNCHANGED <<api, key, orgs, enforced, granted, stores, limits>>

UpdateStep(r) ==
    \/ FetchCredentials(r)
    \/ MigrateToKubernetes(r) \/ MigrateToAWS(r) \/ KeepStorage(r) \/ DeleteOldSecret(r)
    \/ DescribeKey(r) \/ UpdateRoles(r) \/ UpdateEnforcement(r)
    \/ AddNewIPs(r) \/ RemoveOldIPs(r)

=============================================================================
