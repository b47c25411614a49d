----------------------------- MODULE OrgCreate -----------------------------
(***************************************************************************)
(* Create of the organization controller.  Its guards on an external name  *)
(* or an id already present never fire: the pending annotation was written *)
(* on the current resource, whose copy Observe found without either.       *)
(***************************************************************************)
EXTENDS OrgObserve

FindExisting(r) ==
    /\ pc[r] = "find"
    /\ UNCHANGED <<api, key, chg, atlas, stores, limits>>
    /\ \E rep \in Replies("2xx") :
          /\ Replied(rep)
          /\ LET err == doRequest(rep.answer) IN
             \/ /\ err = Nil
                /\ \E o \in Live : cr' = [cr EXCEPT ![r] = Adopted(cr[r], o)]
                /\ PersistName(r, "reuse")
             \/ /\ NoneFound(err)
                /\ Goto(r, "post")
                /\ UNCHANGED <<cr, ret>>
             \/ /\ err # Nil /\ ~IsNotFoundError(err)
                /\ CreateFailed(r)

(* Fault: a POST that fails is sent again.                                 *)
CreateOrganizationRetrying(r) ==
    /\ pc[r] = "post"
    /\ UNCHANGED <<api, chg, enforced, acl, stores, limits>>
    /\ \E rep \in Replies("2xx"), o \in OrgIds \ Foreign :
          /\ Replied(rep)
          /\ orgs[o] = "free"
          /\ orgs' = IF rep.done THEN [orgs EXCEPT ![o] = "live"] ELSE orgs
          /\ granted' = IF rep.done THEN [granted EXCEPT ![o] = cr[r].spec.roles] ELSE granted
          /\ IF doRequest(rep.answer) = Nil
             THEN /\ cr' = [cr EXCEPT ![r] = [Adopted(cr[r], o) EXCEPT
                                                 !.st.roles = cr[r].spec.roles]]
                  /\ key' = [key EXCEPT ![r] = o]
                  /\ PersistName(r, "created")
             ELSE UNCHANGED <<pc, ret, cr, key>>

(* POST /orgs.  Atlas hands out the id and the only copy of the API key.   *)
CreateOrganization(r) ==
    /\ pc[r] = "post"
    /\ UNCHANGED <<api, chg, enforced, acl, stores, limits>>
    /\ \E rep \in Replies("2xx"), o \in OrgIds \ Foreign :
          /\ Replied(rep)
          /\ orgs[o] = "free"
          /\ IF rep.done THEN /\ orgs' = [orgs EXCEPT ![o] = "live"]
                              /\ granted' = [granted EXCEPT ![o] = cr[r].spec.roles]
                         ELSE UNCHANGED <<orgs, granted>>
          /\ IF doRequest(rep.answer) = Nil
             THEN /\ cr' = [cr EXCEPT ![r] = [Adopted(cr[r], o) EXCEPT
                                                 !.st.roles = cr[r].spec.roles]]
                  /\ key' = [key EXCEPT ![r] = o]
                  /\ PersistName(r, "created")
             ELSE CreateFailed(r) /\ UNCHANGED key

(* Where the new key goes, and what the status says about it.              *)
Recorded(st, type, name) == [st EXCEPT !.stype = type, !.sname = name]

AwsNameFor(spec) ==
    CASE spec.storage = "nil"  -> spec.final
      [] spec.named \in Names /\ spec.storage # "nil" -> spec.named
      [] OTHER                 -> DefaultName

StoreKey(r) ==
    /\ pc[r] = "store"
    /\ UNCHANGED <<api, chg, atlas, limits>>
    /\ LET spec   == cr[r].spec
           type   == StorageType(spec)
           name   == IF type = "Kubernetes" THEN spec.k8s ELSE AwsNameFor(spec)
           noAWS  == type = "AWS" /\ (~HasAWS \/ (spec.storage = "AWS" /\ spec.named = None))
           panics == spec.storage = "nil" /\ HasAWS /\ ~spec.legacy
       IN \/ /\ noAWS
             /\ CreateFailed(r)
             /\ UNCHANGED <<key, stores, errors>>
          \/ /\ panics                   \* AWSSecretsConfig is nil: it is dereferenced
             /\ Idle(r)
             /\ UNCHANGED <<stores, errors>>
          \/ /\ ~noAWS /\ ~panics
             /\ UNCHANGED key
             /\ \E out \in Outcomes :
                   /\ Outcome(out)
                   /\ IF out = "fail" THEN UNCHANGED stores
                      ELSE IF type = "AWS"
                           THEN aws' = [aws EXCEPT ![name] = key[r]] /\ UNCHANGED k8s
                           ELSE k8s' = [k8s EXCEPT ![name] = key[r]] /\ UNCHANGED aws
                   /\ IF out = "ok"
                      THEN /\ cr' = [cr EXCEPT ![r].st = Recorded(@, type, name)]
                           /\ Goto(r, "ips") /\ UNCHANGED ret
                      ELSE CreateFailed(r)

(* provisionIPAccess: a key id that cannot be resolved is no error, and    *)
(* then nothing is provisioned.                                            *)
ProvisionIPs(r) ==
    /\ pc[r] = "ips"
    /\ Goto(r, "enforce")
    /\ UNCHANGED <<api, ret, key, chg, orgs, enforced, granted, stores, limits>>
    /\ LET spec  == cr[r].spec
           truth == KeyAnswer(key[r], cr[r].ext)
       IN \/ /\ ~(spec.enabled /\ spec.ips # {})
             /\ UNCHANGED <<cr, acl, errors>>
          \/ /\ spec.enabled /\ spec.ips # {}
             /\ \E rep \in Replies(truth) :
                   /\ doRequest(rep.answer) # Nil          \* FindAPIKeyID
                   /\ Replied(rep)
             /\ cr' = [cr EXCEPT ![r].st.ips = {}]
             /\ UNCHANGED acl
          \/ /\ spec.enabled /\ spec.ips # {} /\ truth = "2xx"
             /\ \E rep \in Replies(truth) :                \* AddIPsToAPIKeyAccessList
                   /\ Replied(rep)
                   /\ acl' = IF rep.done THEN [acl EXCEPT ![cr[r].ext] = @ \cup spec.ips]
                                         ELSE acl
                   /\ cr' = IF doRequest(rep.answer) = Nil
                            THEN [cr EXCEPT ![r].st.ips = spec.ips] ELSE cr

(* enableAPIAccessListRequired; a failure is left to a later reconcile.    *)
EnableAPIAccessListRequired(r) ==
    /\ pc[r] = "enforce"
    /\ PutStatus(r, "created")
    /\ UNCHANGED <<api, key, chg, orgs, acl, granted, stores, limits>>
    /\ \/ /\ ~cr[r].spec.required
          /\ UNCHANGED <<cr, enforced, errors>>
       \/ /\ cr[r].spec.required
          /\ \E rep \in Replies(KeyAnswer(key[r], cr[r].ext)) :
                /\ Replied(rep)
                /\ enforced' = IF rep.done THEN enforced \cup {cr[r].ext} ELSE enforced
                /\ cr' = IF doRequest(rep.answer) = Nil
                         THEN [cr EXCEPT ![r].st.enf = "on"] ELSE cr

CreateStep(r) ==
    \/ FindExisting(r) \/ CreateOrganization(r) \/ StoreKey(r)
    \/ ProvisionIPs(r) \/ EnableAPIAccessListRequired(r)

=============================================================================
