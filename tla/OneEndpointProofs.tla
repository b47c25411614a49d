-------------------------- MODULE OneEndpointProofs --------------------------
(***************************************************************************)
(* Proofs about VPCEndpoint: a resource never has two endpoints, nor is it *)
(* gone before its endpoint, and it implements EndpointLifecycle, as long  *)
(* as Describe answers and no answer to Create is lost.                    *)
(*                                                                         *)
(* The pending annotation is a lock.  It is put on the resource through a  *)
(* current copy, which makes every other copy stale; no reconcile starts   *)
(* while it is there, and only the reconcile that put it there takes it    *)
(* off.  So at most one reconcile is at Create, the resource has nothing   *)
(* then, and what it creates is recorded before the lock is taken off.     *)
(* While it is being created a resource has a finalizer, which is only     *)
(* taken off through a current copy without the lock: so it is there until *)
(* the creation ends (Attached).                                           *)
(***************************************************************************)
EXTENDS VPCEndpointProofs

Creating == {"create", "annotate"}
Before   == Working \ Creating

Own(m) == {i \in Up : owner[i] = m}

Named(i) == i \in Ids => ec2[i] # "free"

(* The reconcile holds the lock, and knows every endpoint there is.        *)
Holds(w) ==
    /\ Present(on[w]) => mr[on[w]].ann = "pending" /\ mr[on[w]].fin
    /\ pc[w] = "create" => Own(on[w]) = {}
    /\ pc[w] = "annotate" => Own(on[w]) \subseteq {cr[w].ext}

SafeWorker(w) ==
    /\ pc[w] # "idle" => on[w] \in Resources /\ mr[on[w]].life # "unborn"
    /\ pc[w] \in Before \cup {"create"} /\ Current(w) => cr[w] = mr[on[w]]
    /\ pc[w] \in Before => cr[w].ann # "pending"
    /\ Named(cr[w].ext)
    /\ pc[w] \in {"unfinalize", "finalizeNew", "pending"} => cr[w].ext \notin Up
    /\ pc[w] \in {"pending"} \cup Creating => cr[w].fin
    /\ pc[w] \in Creating => Holds(w)

(* What a resource has, it names, unless its creation is pending; and what *)
(* has something has a finalizer.                                          *)
SafeResource(m) ==
    /\ Named(mr[m].ext)
    /\ mr[m].life = "unborn" => Own(m) = {}
    /\ mr[m].life # "gone" =>
          /\ mr[m].ann # "pending" => Own(m) \subseteq {mr[m].ext}
          /\ Own(m) # {} => mr[m].fin

OneCreating ==
    \A v, w \in Workers : pc[v] \in Creating /\ pc[w] \in Creating /\ on[v] = on[w] => v = w

SafeInv ==
    /\ VPCTypeOK
    /\ \A w \in Workers : SafeWorker(w)
    /\ \A m \in Resources : SafeResource(m)
    /\ OneCreating
    /\ OneEndpoint

-----------------------------------------------------------------------------
LEMMA SafeInit == Init => SafeInv
<1> SUFFICES ASSUME Init PROVE SafeInv
  OBVIOUS
<1>1. VPCTypeOK
  BY InitTyped DEF VPCTypeInv
<1>2. Up = {} /\ \A i : ~(i \in Ids /\ ec2[i] # "free")
  BY DEF Init, Up
<1>3. \A w \in Workers : SafeWorker(w)
  BY Parameters DEF Init, SafeWorker, Working, Before, Creating, Named, Unborn
<1>4. \A m \in Resources : SafeResource(m)
  BY <1>2, Parameters DEF Init, SafeResource, Own, Named, Unborn
<1>5. OneCreating
  BY DEF Init, OneCreating, Creating
<1> QED
  BY <1>1, <1>2, <1>3, <1>4, <1>5 DEF SafeInv, OneEndpoint

LEMMA SafeTyped ==
    ASSUME SafeInv, [Next]_vars
    PROVE  VPCTypeOK'
<1>1. Bound
  BY DEF SafeInv, SafeWorker, Bound
<1> QED
  BY <1>1, NextTyped DEF SafeInv, VPCTypeInv

-----------------------------------------------------------------------------
(* EC2 only loses endpoints, unless something is created.                  *)
CloudShrinks ==
    /\ UNCHANGED owner
    /\ \A i \in Ids :
          /\ ec2'[i] \in {"pending", "available"} => ec2[i] \in {"pending", "available"}
          /\ ec2[i] # "free" => ec2'[i] # "free"

LEMMA ShrinkingCloud ==
    ASSUME CloudShrinks
    PROVE  /\ Up' \subseteq Up
           /\ \A m : Own(m)' \subseteq Own(m)
           /\ \A i : Named(i) => (i \in Ids => ec2'[i] # "free")
BY DEF CloudShrinks, Up, Own, Named

LEMMA SameCloud == UNCHANGED cloud => CloudShrinks
BY DEF CloudShrinks, cloud

(* The other workers are safe if the resource does not change but for w,   *)
(* and nobody else holds its lock then.                                    *)
ResourceStep(w) ==
    \/ UNCHANGED mr /\ fresh' \subseteq fresh \cup {w}
    \/ /\ \E mine \in SUBSET {w}, new \in Managed : new.life # "unborn" /\ Store(w, mine, new)
       /\ Present(on[w])
       /\ \A v \in Workers \ {w} : on[v] = on[w] => pc[v] \notin Creating

LEMMA LivesGoOn ==
    ASSUME SafeInv, NEW w \in Workers, pc[w] # "idle" \/ UNCHANGED mr, ResourceStep(w)
    PROVE  LifeGoesOn
<1>1. VPCTypeOK /\ (pc[w] # "idle" => on[w] \in Resources)
  BY DEF SafeInv, SafeWorker
<1> QED
  BY <1>1 DEF VPCTypeOK, ResourceStep, Store, LifeGoesOn, Present

LEMMA OthersSafe ==
    ASSUME SafeInv, NEW w \in Workers, OthersRest(w), CloudShrinks,
           pc[w] # "idle" \/ UNCHANGED mr, ResourceStep(w),
           NEW v \in Workers \ {w}
    PROVE  SafeWorker(v)'
<1>1. SafeWorker(v) /\ (pc[w] # "idle" => on[w] \in Resources)
  BY DEF SafeInv, SafeWorker
<1>2. pc'[v] = pc[v] /\ on'[v] = on[v] /\ cr'[v] = cr[v]
  BY DEF OthersRest
<1>3. LifeGoesOn
  BY LivesGoOn
<1>4. /\ pc[v] # "idle" => on[v] \in Resources /\ mr'[on[v]].life # "unborn"
      /\ Named(cr[v].ext)'
      /\ pc[v] \in {"unfinalize", "finalizeNew", "pending"} => cr[v].ext \notin Up'
  BY <1>1, <1>2, <1>3, ShrinkingCloud DEF SafeWorker, LifeGoesOn, Named
<1>5. pc[v] # "idle" /\ v \in fresh' => v \in fresh /\ mr'[on[v]] = mr[on[v]]
  BY <1>1 DEF ResourceStep, Store, Others, SafeWorker, SafeInv, VPCTypeOK
<1>6. pc[v] \in Creating => mr'[on[v]] = mr[on[v]]
  BY <1>1 DEF ResourceStep, Store, SafeWorker, SafeInv, VPCTypeOK, Creating
<1>7. pc[v] \in Creating => Holds(v)'
  <2>1. \A m : Own(m)' \subseteq Own(m)
    BY ShrinkingCloud
  <2> QED
    BY <1>1, <1>2, <1>6, <2>1 DEF SafeWorker, Holds, Present
<1>8. pc[v] \in Before \cup {"create"} /\ Current(v)' => cr[v] = mr'[on[v]]
  BY <1>1, <1>2, <1>5 DEF SafeWorker, Current, Present, Before, Working, Creating
<1> QED
  BY <1>1, <1>2, <1>4, <1>7, <1>8 DEF SafeWorker

(* The other resources are safe if w leaves its own safe.                  *)
LEMMA ResourcesSafe ==
    ASSUME SafeInv, NEW w \in Workers, CloudShrinks,
           \/ UNCHANGED mr
           \/ /\ \E mine, new : Store(w, mine, new)
              /\ \A n \in Resources : n = on[w] => SafeResource(n)',
           NEW m \in Resources
    PROVE  SafeResource(m)'
<1>1. SafeResource(m) /\ \A n : Own(n)' \subseteq Own(n)
  BY ShrinkingCloud DEF SafeInv
<1>2. CASE mr'[m] = mr[m]
  BY <1>1, <1>2, ShrinkingCloud DEF SafeResource, Named
<1>3. CASE mr'[m] # mr[m]
  BY <1>3 DEF Store, SafeInv, VPCTypeOK
<1> QED
  BY <1>2, <1>3

LEMMA OneEndpointShrinks ==
    ASSUME OneEndpoint, CloudShrinks
    PROVE  OneEndpoint'
BY DEF OneEndpoint, CloudShrinks, Up

(* A step of w that creates nothing.                                       *)
LEMMA SafeByWorker ==
    ASSUME SafeInv, VPCTypeOK', NEW w \in Workers, OthersRest(w), CloudShrinks,
           pc[w] # "idle" \/ UNCHANGED mr, ResourceStep(w),
           SafeWorker(w)',
           UNCHANGED mr \/ \A m \in Resources : m = on[w] => SafeResource(m)',
           pc'[w] \in Creating =>
               \A v \in Workers \ {w} : pc[v] \in Creating => on[v] # on'[w]
    PROVE  SafeInv'
<1>1. \A v \in Workers : SafeWorker(v)'
  BY OthersSafe
<1>2. \A m \in Resources : SafeResource(m)'
  BY ResourcesSafe DEF ResourceStep
<1>3. OneCreating'
  BY DEF SafeInv, OneCreating, OthersRest
<1>4. OneEndpoint'
  BY OneEndpointShrinks DEF SafeInv
<1> QED
  BY <1>1, <1>2, <1>3, <1>4 DEF SafeInv

-----------------------------------------------------------------------------
(* A reconcile ends.                                                       *)
LEMMA EndsSafe ==
    ASSUME SafeInv, VPCTypeOK', NEW w \in Workers, pc[w] # "idle",
           Idle(w) \/ (Ending(w) /\ UNCHANGED on), CloudShrinks, ResourceStep(w),
           UNCHANGED mr \/ \A m \in Resources : m = on[w] => SafeResource(m)'
    PROVE  SafeInv'
<1>1. SafeWorker(w) /\ VPCTypeOK
  BY DEF SafeInv
<1>2. OthersRest(w)
  BY <1>1 DEF VPCTypeOK, Idle, Ending, Goto, OthersRest
<1>3. /\ pc'[w] \in {"idle", "finish"} /\ cr'[w] = Unborn
      /\ pc'[w] = "finish" => on'[w] = on[w]
  BY <1>1 DEF VPCTypeOK, Idle, Ending, Goto
<1>4. pc'[w] = "finish" => mr'[on[w]].life # "unborn" /\ on[w] \in Resources
  <2>1. on[w] \in Resources /\ LifeGoesOn
    BY <1>1, LivesGoOn DEF SafeWorker
  <2> QED
    BY <1>1, <2>1 DEF SafeWorker, LifeGoesOn
<1>5. SafeWorker(w)' /\ pc'[w] \notin Creating
  BY <1>3, <1>4, Parameters DEF SafeWorker, Working, Before, Creating, Labels, Named, Unborn
<1> QED
  BY <1>2, <1>5, SafeByWorker

(* Whoever has a current copy before the lock is taken knows that nobody   *)
(* holds it.                                                               *)
LEMMA NobodyCreating ==
    ASSUME SafeInv, NEW w \in Workers, pc[w] \in Before, Current(w)
    PROVE  /\ cr[w] = mr[on[w]] /\ mr[on[w]].ann # "pending" /\ Present(on[w])
           /\ \A v \in Workers : pc[v] \in Creating => on[v] # on[w]
<1>1. cr[w] = mr[on[w]] /\ mr[on[w]].ann # "pending" /\ Present(on[w])
  BY DEF SafeInv, SafeWorker, Current
<1> QED
  BY <1>1 DEF SafeInv, SafeWorker, Holds

LEMMA PutSafe ==
    ASSUME SafeInv, VPCTypeOK', NEW w \in Workers, pc[w] \in Before,
           NEW new \in Managed, new.ext = cr[w].ext, new.ann \in {cr[w].ann, "pending"},
           Current(w) => new.life # "unborn", new.life # "gone" /\ cr[w].fin => new.fin,
           NEW next \in {"finish", "pending", "create"},
           next = "pending" => pc[w] = "finalizeNew" /\ new.fin /\ new.ann = cr[w].ann,
           next = "create" => pc[w] = "pending" /\ new.fin /\ new.ann = "pending",
           Put(w, new, next), UNCHANGED <<on, cloud>>
    PROVE  SafeInv'
<1> USE SameCloud
<1>1. SafeWorker(w) /\ VPCTypeOK /\ pc[w] # "idle" /\ on[w] \in Resources
  BY DEF SafeInv, SafeWorker, Before, Working
<1>2. CASE Ending(w) /\ UNCHANGED resource
  BY <1>1, <1>2, EndsSafe DEF ResourceStep, resource
<1>3. ASSUME Current(w), NEW mine \in SUBSET {w}, Store(w, mine, new)
      PROVE  ResourceStep(w) /\ \A m \in Resources : m = on[w] => SafeResource(m)'
  <2>1. ResourceStep(w)
    BY <1>3, NobodyCreating DEF ResourceStep
  <2>2. mr'[on[w]] = new
    BY <1>1, <1>3 DEF VPCTypeOK, Store
  <2>3. SafeResource(on[w]) /\ mr[on[w]].life = "present"
    BY <1>1, <1>3, NobodyCreating DEF SafeInv, Present
  <2>4. \A m : Own(m)' = Own(m)
    BY DEF Own, Up, cloud
  <2>5. \A m \in Resources : m = on[w] => SafeResource(m)'
    BY <1>3, <2>2, <2>3, <2>4, NobodyCreating DEF SafeResource, Named, cloud
  <2> QED
    BY <2>1, <2>5
<1>4. CASE Ending(w) /\ Current(w) /\ \E mine \in SUBSET {w} : Store(w, mine, new)
  BY <1>1, <1>3, <1>4, EndsSafe
<1>5. CASE Continue(w, new, next) /\ ~Ending(w) /\ Current(w) /\ Store(w, {w}, new)
  <2>1. /\ next \in {"pending", "create"} /\ pc' = [pc EXCEPT ![w] = next]
        /\ cr' = [cr EXCEPT ![w] = new]
    BY <1>5 DEF Continue, Goto
  <2>2. OthersRest(w) /\ pc'[w] = next /\ cr'[w] = new /\ mr'[on[w]] = new
        /\ new.life # "unborn"
    BY <1>1, <1>5, <2>1 DEF VPCTypeOK, OthersRest, Store
  <2>3. CASE next = "pending"
    <3>1. SafeWorker(w)' /\ pc'[w] \notin Creating
      BY <1>1, <2>2, <2>3
         DEF SafeWorker, Named, Up, cloud, Creating, Before, Working, Labels
    <3> QED
      BY <1>1, <1>3, <1>5, <2>2, <3>1, SafeByWorker
  <2>4. CASE next = "create"
    <3>1. Own(on[w]) = {}
      BY <1>1, <1>5, <2>4, NobodyCreating DEF SafeInv, SafeResource, SafeWorker, Own, Present
    <3>2. Own(on[w])' = {}
      BY <3>1 DEF Own, Up, cloud
    <3>3. Holds(w)'
      BY <2>2, <2>4, <3>2 DEF Holds
    <3>4. SafeWorker(w)'
      BY <1>1, <2>2, <2>4, <3>3
         DEF SafeWorker, Named, Up, cloud, Creating, Before, Working, Labels
    <3> QED
      BY <1>1, <1>3, <1>5, <2>2, <3>4, NobodyCreating, SafeByWorker
  <2> QED
    BY <2>1, <2>3, <2>4
<1> QED
  BY <1>2, <1>4, <1>5 DEF Put, Outcomes

-----------------------------------------------------------------------------
(* Connect.                                                                *)

LEMMA StartSafe ==
    ASSUME SafeInv, VPCTypeOK', NEW w \in Workers, NEW m \in Resources, Start(w, m),
           UNCHANGED cloud
    PROVE  SafeInv'
<1> USE SameCloud
<1>1. VPCTypeOK /\ SafeResource(m)
  BY DEF SafeInv
<1>2. /\ OthersRest(w) /\ ResourceStep(w)
      /\ pc'[w] = "track" /\ on'[w] = m /\ cr'[w] = mr[m]
  BY <1>1 DEF VPCTypeOK, Start, Goto, OthersRest, ResourceStep
<1>3. SafeWorker(w)' /\ pc'[w] \notin Creating
  BY <1>1, <1>2 DEF Start, SafeWorker, SafeResource, Named, cloud, Present, Current, Creating,
                    Before, Working, Labels
<1> QED
  BY <1>2, <1>3, SafeByWorker DEF Start

(* Most steps before Create change nothing but where the worker is.        *)
LEMMA MovesSafe ==
    ASSUME SafeInv, VPCTypeOK', NEW w \in Workers, NEW next \in Before, pc[w] \in Before,
           next \in {"unfinalize", "finalizeNew", "pending"} => cr[w].ext \notin Up,
           next = "pending" => cr[w].fin,
           pc' = [pc EXCEPT ![w] = next],
           UNCHANGED <<resource, on, cr, cloud>>
    PROVE  SafeInv'
<1> USE SameCloud
<1>1. SafeWorker(w) /\ VPCTypeOK
  BY DEF SafeInv
<1>2. OthersRest(w) /\ ResourceStep(w) /\ pc'[w] = next
  BY <1>1 DEF VPCTypeOK, OthersRest, ResourceStep, resource
<1>3. SafeWorker(w)' /\ pc'[w] \notin Creating
  BY <1>1, <1>2 DEF SafeWorker, Named, Up, cloud, resource, Present, Current, Creating, Before,
                    Working
<1>4. pc[w] # "idle"
  BY DEF Before, Working
<1> QED
  BY <1>2, <1>3, <1>4, SafeByWorker DEF resource

LEMMA TrackSafe ==
    ASSUME SafeInv, VPCTypeOK', NEW w \in Workers, Track(w), UNCHANGED cloud
    PROVE  SafeInv'
<1>1. CASE Ending(w)
  BY <1>1, SameCloud, EndsSafe DEF Track, ResourceStep, resource
<1>2. CASE Goto(w, "config") /\ UNCHANGED cr
  BY <1>2, MovesSafe DEF Track, Goto, Before, Working, Creating, Labels
<1> QED
  BY <1>1, <1>2 DEF Track

LEMMA GetConfigSafe ==
    ASSUME SafeInv, VPCTypeOK', NEW w \in Workers, GetConfig(w), UNCHANGED cloud
    PROVE  SafeInv'
<1>1. CASE Idle(w) \/ (Ending(w) /\ UNCHANGED on)
  <2>1. ResourceStep(w)
    BY DEF GetConfig, ResourceStep
  <2> QED
    BY <1>1, <2>1, SameCloud, EndsSafe DEF GetConfig
<1>2. CASE Goto(w, "connected") /\ UNCHANGED <<fresh, on, cr>>
  BY <1>2, MovesSafe DEF GetConfig, Goto, Before, Working, Creating, Labels, resource
<1> QED
  BY <1>1, <1>2 DEF GetConfig

LEMMA FinishSafe ==
    ASSUME SafeInv, VPCTypeOK', NEW w \in Workers, Finish(w) \/ Crash(w), UNCHANGED cloud
    PROVE  SafeInv'
<1>1. ResourceStep(w) /\ pc[w] # "idle" /\ Idle(w) /\ UNCHANGED mr
  BY DEF Finish, Crash, ResourceStep, Others
<1> QED
  BY <1>1, SameCloud, EndsSafe

LEMMA WorkOnOrganizationSafe ==
    ASSUME SafeInv, VPCTypeOK', NEW w \in Workers, WorkOnOrganization(w), UNCHANGED cloud
    PROVE  SafeInv'
<1>1. /\ SafeWorker(w) /\ VPCTypeOK /\ pc[w] \in Before /\ pc[w] # "idle"
      /\ Ending(w) /\ UNCHANGED on /\ on[w] \in Resources
  BY DEF SafeInv, SafeWorker, WorkOnOrganization, Before, Working, Creating, Labels
<1>2. CASE UNCHANGED resource
  BY <1>1, <1>2, SameCloud, EndsSafe DEF ResourceStep, resource
<1>3. ASSUME NEW new \in Managed, Current(w), NEW mine \in SUBSET {w}, Store(w, mine, new),
             new = [cr[w] EXCEPT !.fin = TRUE] \/ new = [cr[w] EXCEPT !.life = "gone"]
      PROVE  SafeInv'
  <2>1. /\ cr[w] = mr[on[w]] /\ cr[w].life = "present" /\ cr[w] \in Managed
        /\ \A v \in Workers : pc[v] \in Creating => on[v] # on[w]
    BY <1>1, <1>3, NobodyCreating DEF Present, VPCTypeOK
  <2>2. /\ new.life # "unborn" /\ new.ext = cr[w].ext /\ new.ann = cr[w].ann
        /\ new.life # "gone" => new.fin
    BY <1>3, <2>1 DEF Managed
  <2>3. ResourceStep(w)
    BY <1>3, <2>1, <2>2 DEF ResourceStep, Current
  <2>4. mr'[on[w]] = new /\ \A m : Own(m)' = Own(m)
    BY <1>1, <1>3 DEF VPCTypeOK, Store, Own, Up, cloud
  <2>5. \A m \in Resources : m = on[w] => SafeResource(m)'
    BY <1>1, <2>1, <2>2, <2>4 DEF SafeInv, SafeResource, Named, cloud
  <2> QED
    BY <1>1, <2>3, <2>5, SameCloud, EndsSafe
<1>4. [cr[w] EXCEPT !.fin = TRUE] \in Managed /\ [cr[w] EXCEPT !.life = "gone"] \in Managed
  BY <1>1, ManagedTypes DEF VPCTypeOK
<1> QED
  BY <1>2, <1>3, <1>4 DEF WorkOnOrganization

-----------------------------------------------------------------------------
(* The endpoint controller; Describe answers, as nothing is in Faults.     *)

LEMMA ObserveSafe ==
    ASSUME SafeInv, VPCTypeOK', Faults = {}, NEW w \in Workers, Observe(w)
    PROVE  SafeInv'
<1>1. PICK next \in {"delete", "unfinalize", "finalizeNew", "finalizer"} :
         /\ Goto(w, next)
         /\ next \in {"unfinalize", "finalizeNew"} => ~Exists(cr[w].ext)
  BY DEF Observe, Observed
<1>2. cr[w].ext \in Up => Exists(cr[w].ext)
  BY Parameters DEF Up, Exists
<1> QED
  BY <1>1, <1>2, MovesSafe DEF Observe, Goto, Before, Working, Creating, Labels

LEMMA AddFinalizerSafe ==
    ASSUME SafeInv, VPCTypeOK', NEW w \in Workers, AddFinalizer(w)
    PROVE  SafeInv'
<1>1. /\ SafeWorker(w) /\ VPCTypeOK /\ pc[w] \in Before /\ pc[w] # "idle"
  BY DEF SafeInv, AddFinalizer, Before, Working, Creating, Labels
<1>2. PICK next \in {"finish", "pending"} :
         /\ next = "pending" => pc[w] = "finalizeNew"
         /\ \/ cr[w].fin /\ Continue(w, cr[w], next) /\ UNCHANGED <<resource, errors>>
            \/ Put(w, [cr[w] EXCEPT !.fin = TRUE], next)
  BY DEF AddFinalizer
<1>3. CASE cr[w].fin /\ Continue(w, cr[w], next) /\ UNCHANGED resource
  <2>1. CASE next = "finish"
    BY <1>1, <1>3, <2>1, SameCloud, EndsSafe DEF AddFinalizer, Continue, ResourceStep, resource
  <2>2. CASE next = "pending"
    <3>1. pc' = [pc EXCEPT ![w] = "pending"] /\ UNCHANGED cr
      BY <1>1, <1>3, <2>2 DEF Continue, Goto, VPCTypeOK
    <3> QED
      BY <1>1, <1>2, <1>3, <2>2, <3>1, MovesSafe
         DEF AddFinalizer, SafeWorker, Before, Working, Creating, Labels
  <2> QED
    BY <2>1, <2>2
<1>4. PICK new \in Managed : new = [cr[w] EXCEPT !.fin = TRUE]
  BY <1>1, ManagedTypes DEF VPCTypeOK
<1>5. CASE Put(w, new, next)
  <2>1. cr[w] \in Managed /\ new.ext = cr[w].ext /\ new.ann = cr[w].ann /\ new.fin
        /\ new.life = cr[w].life
    BY <1>1, <1>4 DEF VPCTypeOK, Managed
  <2>2. Current(w) => new.life # "unborn"
    BY <1>1, <2>1, NobodyCreating DEF Present
  <2> QED
    BY <1>1, <1>2, <1>5, <2>1, <2>2, PutSafe DEF AddFinalizer
<1> QED
  BY <1>2, <1>3, <1>4, <1>5

LEMMA MarkPendingSafe ==
    ASSUME SafeInv, VPCTypeOK', NEW w \in Workers, MarkPending(w)
    PROVE  SafeInv'
<1>1. /\ SafeWorker(w) /\ VPCTypeOK /\ pc[w] = "pending" /\ pc[w] \in Before /\ cr[w].fin
  BY DEF SafeInv, SafeWorker, MarkPending, Before, Working, Creating, Labels
<1>2. PICK new \in Managed : new = [cr[w] EXCEPT !.ann = "pending"]
  BY <1>1, ManagedTypes DEF VPCTypeOK
<1>3. /\ new.ext = cr[w].ext /\ new.ann = "pending" /\ new.fin
      /\ Current(w) => new.life # "unborn"
  BY <1>1, <1>2, NobodyCreating DEF VPCTypeOK, Managed, Present
<1> QED
  BY <1>1, <1>2, <1>3, PutSafe DEF MarkPending

LEMMA RemoveFinalizerSafe ==
    ASSUME SafeInv, VPCTypeOK', NEW w \in Workers, RemoveFinalizer(w)
    PROVE  SafeInv'
<1>1. VPCTypeOK /\ pc[w] \in Before
  BY DEF SafeInv, RemoveFinalizer, Before, Working, Creating, Labels
<1>2. PICK new \in Managed : new = [cr[w] EXCEPT !.fin = FALSE, !.life = "gone"]
  BY <1>1, ManagedTypes DEF VPCTypeOK
<1>3. new.ext = cr[w].ext /\ new.ann = cr[w].ann /\ new.life = "gone"
  BY <1>1, <1>2 DEF VPCTypeOK, Managed
<1> QED
  BY <1>1, <1>2, <1>3, PutSafe DEF RemoveFinalizer

(* EC2 may or may not have created; with the lock held there was nothing.  *)
LEMMA CreateSafe ==
    ASSUME SafeInv, VPCTypeOK', Faults = {}, NEW w \in Workers, Create(w)
    PROVE  SafeInv'
<1>1. /\ SafeWorker(w) /\ VPCTypeOK /\ pc[w] = "create" /\ pc[w] \in Creating
      /\ on[w] \in Resources /\ cr[w] \in Managed /\ UNCHANGED <<resource, on>>
  BY DEF SafeInv, SafeWorker, Create, CreateVPCEndpoint, Creating, VPCTypeOK
<1>2. Holds(w) /\ Own(on[w]) = {} /\ cr[w].fin
  BY <1>1 DEF SafeWorker, Holds
<1>3. OneCreating
  BY DEF SafeInv
<1>4. ASSUME NEW copy, Continue(w, copy, "annotate")
      PROVE  OthersRest(w) /\ pc'[w] = "annotate" /\ cr'[w] = copy /\ OneCreating'
  <2>1. /\ pc' = [pc EXCEPT ![w] = "annotate"] /\ cr' = [cr EXCEPT ![w] = copy]
    BY <1>4 DEF Continue, Goto
  <2> QED
    BY <1>1, <1>3, <2>1 DEF VPCTypeOK, OthersRest, OneCreating, Creating
<1>5. CASE Continue(w, [cr[w] EXCEPT !.ann = "failed"], "annotate") /\ UNCHANGED cloud
  <2>1. PICK new \in Managed : new = [cr[w] EXCEPT !.ann = "failed"]
    BY <1>1, ManagedTypes
  <2>2. new.ext = cr[w].ext /\ new.fin = cr[w].fin
    BY <1>1, <2>1 DEF Managed
  <2>3. OthersRest(w) /\ pc'[w] = "annotate" /\ cr'[w] = new /\ OneCreating'
    BY <1>4, <1>5, <2>1
  <2>4. Own(on[w])' = {}
    BY <1>1, <1>2, <1>5 DEF Own, Up, cloud
  <2>5. Holds(w)'
    BY <1>1, <1>2, <2>3, <2>4 DEF Holds, Present, resource
  <2>6. SafeWorker(w)'
    BY <1>1, <1>2, <1>5, <2>2, <2>3, <2>5
       DEF SafeWorker, Named, cloud, resource, Before, Working, Creating, Labels
  <2>7. \A v \in Workers \ {w} : pc[v] \in Creating => on[v] # on'[w]
    BY <1>1, <1>3 DEF OneCreating
  <2> QED
    BY <1>1, <1>5, <2>3, <2>6, <2>7, SameCloud, SafeByWorker DEF ResourceStep, resource
<1>6. ASSUME NEW i \in Ids, ec2[i] = "free", ec2' = [ec2 EXCEPT ![i] = "pending"],
             owner' = [owner EXCEPT ![i] = on[w]],
             Continue(w, [cr[w] EXCEPT !.ann = "succeeded", !.ext = i], "annotate")
      PROVE  SafeInv'
  <2>1. PICK new \in Managed : new = [cr[w] EXCEPT !.ann = "succeeded", !.ext = i]
    BY <1>1, ManagedTypes
  <2>2. new.ext = i /\ new.fin = cr[w].fin
    BY <1>1, <2>1 DEF Managed
  <2>3. OthersRest(w) /\ pc'[w] = "annotate" /\ cr'[w] = new /\ OneCreating'
    BY <1>4, <1>6, <2>1
  <2>4. /\ i \notin Up /\ Up' = Up \cup {i} /\ owner'[i] = on[w]
        /\ \A j \in Ids \ {i} : owner'[j] = owner[j] /\ ec2'[j] = ec2[j]
        /\ ec2'[i] = "pending"
    BY <1>1, <1>6 DEF VPCTypeOK, Up
  <2>5. Own(on[w])' = {i} /\ \A m : m # on[w] => Own(m)' = Own(m)
    <3>1. Up \subseteq Ids
      BY DEF Up
    <3>2. \A j \in Ids : j \in Own(on[w])' <=> j = i
      BY <1>1, <1>2, <1>6, <2>4, <3>1 DEF Own
    <3>3. \A m : m # on[w] => Own(m)' = Own(m)
      BY <1>6, <2>4, <3>1 DEF Own
    <3>4. Own(on[w])' \subseteq Ids
      BY <1>6, <2>4, <3>1 DEF Own
    <3> QED
      BY <1>6, <3>2, <3>3, <3>4
  <2>6. \A j : Named(j) => (j \in Ids => ec2'[j] # "free")
    BY <1>6, <2>4 DEF Named
  <2>7. Holds(w)'
    BY <1>1, <1>2, <2>2, <2>3, <2>5 DEF Holds, Present, resource
  <2>8. SafeWorker(w)'
    BY <1>1, <1>2, <1>6, <2>2, <2>3, <2>4, <2>7
       DEF SafeWorker, Named, resource, Before, Working, Creating, Labels
  <2>9. ASSUME NEW v \in Workers \ {w}
        PROVE  SafeWorker(v)'
    <3>1. SafeWorker(v) /\ pc'[v] = pc[v] /\ cr'[v] = cr[v] /\ on'[v] = on[v]
      BY <2>3 DEF SafeInv, OthersRest
    <3>2. cr[v].ext # i
      BY <1>6, <3>1 DEF SafeWorker, Named
    <3>3. pc[v] \in Creating => Holds(v)'
      BY <1>1, <1>3, <2>5, <3>1 DEF SafeWorker, OneCreating, Holds, Present, resource
    <3> QED
      BY <1>1, <2>4, <2>6, <3>1, <3>2, <3>3
         DEF SafeWorker, Named, Present, Current, resource
  <2>10. ASSUME NEW m \in Resources
         PROVE  SafeResource(m)'
    <3>1. SafeResource(m)
      BY DEF SafeInv
    <3>2. m = on[w] => /\ mr[m].life # "unborn"
                       /\ mr[m].life # "gone" => mr[m].ann = "pending" /\ mr[m].fin
      BY <1>1, <1>2 DEF Holds, SafeWorker, Present, VPCTypeOK, Managed
    <3> QED
      BY <1>1, <2>5, <2>6, <3>1, <3>2 DEF SafeResource, Named, resource
  <2>11. OneEndpoint'
    BY <1>2, <1>6, <2>4 DEF SafeInv, OneEndpoint, Own, Up
  <2> QED
    BY <2>3, <2>8, <2>9, <2>10, <2>11 DEF SafeInv
<1> QED
  BY <1>5, <1>6 DEF Create, CreateVPCEndpoint

(* What was created is recorded with the lock, or never.                   *)
LEMMA AnnotateSafe ==
    ASSUME SafeInv, VPCTypeOK', NEW w \in Workers, Annotate(w)
    PROVE  SafeInv'
<1>1. /\ SafeWorker(w) /\ VPCTypeOK /\ pc[w] = "annotate" /\ pc[w] \in Creating
      /\ on[w] \in Resources /\ cr[w] \in Managed /\ mr[on[w]] \in Managed
      /\ pc[w] # "idle" /\ Ending(w) /\ UNCHANGED on
  BY DEF SafeInv, SafeWorker, Annotate, Creating, VPCTypeOK
<1>2. Holds(w) /\ Own(on[w]) \subseteq {cr[w].ext} /\ Named(cr[w].ext)
  BY <1>1 DEF SafeWorker, Holds
<1>3. PICK new \in Managed : new = [mr[on[w]] EXCEPT !.ann = cr[w].ann, !.ext = cr[w].ext]
  BY <1>1, ManagedTypes
<1>4. /\ new.ext = cr[w].ext /\ new.fin = mr[on[w]].fin /\ new.life = mr[on[w]].life
  BY <1>1, <1>3 DEF Managed
<1>5. CASE Present(on[w]) /\ Store(w, {w}, new)
  <2>1. ResourceStep(w)
    BY <1>1, <1>4, <1>5 DEF ResourceStep, Present, SafeInv, OneCreating
  <2>2. mr'[on[w]] = new /\ \A m : Own(m)' = Own(m)
    BY <1>1, <1>5 DEF VPCTypeOK, Store, Own, Up, cloud, Annotate
  <2>3. \A m \in Resources : m = on[w] => SafeResource(m)'
    BY <1>2, <1>4, <1>5, <2>2 DEF SafeResource, Named, Holds, Annotate, cloud, Present
  <2> QED
    BY <1>1, <2>1, <2>3, SameCloud, EndsSafe DEF Annotate
<1>6. CASE UNCHANGED resource
  BY <1>1, <1>6, SameCloud, EndsSafe DEF Annotate, ResourceStep, resource
<1> QED
  BY <1>3, <1>5, <1>6 DEF Annotate, resource

LEMMA DeleteSafe ==
    ASSUME SafeInv, VPCTypeOK', NEW w \in Workers, Delete(w)
    PROVE  SafeInv'
<1>1. CloudShrinks
  BY DEF SafeInv, VPCTypeOK, Delete, DeleteVPCEndpoint, CloudShrinks
<1> QED
  BY <1>1, EndsSafe DEF Delete, DeleteVPCEndpoint, ResourceStep, resource

-----------------------------------------------------------------------------
(* Everyone else.                                                          *)

(* A step that is no worker's.                                             *)
LEMMA SafeByOthers ==
    ASSUME SafeInv, VPCTypeOK', UNCHANGED worker, CloudShrinks,
           \/ UNCHANGED resource
           \/ \E m \in Resources, new \in Managed :
                 /\ mr' = [mr EXCEPT ![m] = new] /\ fresh' = Others(m)
                 /\ new.ann = mr[m].ann /\ new.ext = mr[m].ext /\ new.fin = mr[m].fin
                 /\ Present(m) /\ new.life # "unborn"
    PROVE  SafeInv'
<1>1. VPCTypeOK /\ OneCreating' /\ OneEndpoint'
  BY OneEndpointShrinks DEF SafeInv, OneCreating, worker
<1>2. /\ \A n : Own(n)' \subseteq Own(n)
      /\ \A i : Named(i) => (i \in Ids => ec2'[i] # "free")
      /\ Up' \subseteq Up
  BY ShrinkingCloud
<1>3. /\ \A n \in Resources :
            /\ mr'[n].ann = mr[n].ann /\ mr'[n].ext = mr[n].ext /\ mr'[n].fin = mr[n].fin
            /\ mr[n].life # "unborn" => mr'[n].life # "unborn"
            /\ mr'[n].life # "gone" => mr[n].life # "gone"
            /\ Present(n)' => Present(n)
      /\ \A w \in Workers : w \in fresh' /\ on[w] \in Resources =>
                              w \in fresh /\ mr'[on[w]] = mr[on[w]]
  <2>1. CASE UNCHANGED resource
    BY <2>1 DEF resource, Present
  <2>2. ASSUME NEW m \in Resources, NEW new \in Managed,
               mr' = [mr EXCEPT ![m] = new], fresh' = Others(m),
               new.ann = mr[m].ann, new.ext = mr[m].ext, new.fin = mr[m].fin,
               Present(m), new.life # "unborn"
        PROVE  <1>3!1 /\ <1>3!2
    <3>1. mr'[m] = new /\ \A n \in Resources \ {m} : mr'[n] = mr[n]
      BY <1>1, <2>2 DEF VPCTypeOK
    <3>2. \A w \in fresh' : w \in fresh /\ on[w] # m
      BY <2>2 DEF Others
    <3> QED
      BY <2>2, <3>1, <3>2 DEF Present
  <2> QED
    BY <2>1, <2>2
<1>4. ASSUME NEW w \in Workers
      PROVE  SafeWorker(w)'
  <2>1. SafeWorker(w) /\ pc'[w] = pc[w] /\ on'[w] = on[w] /\ cr'[w] = cr[w]
    BY DEF SafeInv, worker
  <2>2. pc[w] \in Creating => Holds(w)'
    BY <1>2, <1>3, <2>1 DEF SafeWorker, Holds, Creating
  <2>3. pc[w] \in Before \cup {"create"} /\ Current(w)' => cr[w] = mr'[on[w]]
    BY <1>3, <2>1 DEF SafeWorker, Current, Present, Before, Working
  <2> QED
    BY <1>2, <1>3, <2>1, <2>2, <2>3 DEF SafeWorker, Named
<1>5. ASSUME NEW m \in Resources
      PROVE  SafeResource(m)'
  BY <1>2, <1>3 DEF SafeInv, SafeResource, Named
<1> QED
  BY <1>1, <1>4, <1>5 DEF SafeInv

LEMMA ApplySafe ==
    ASSUME SafeInv, VPCTypeOK', NEW m \in Resources, UserApply(m), UNCHANGED cloud
    PROVE  SafeInv'
<1>1. VPCTypeOK /\ OneCreating' /\ OneEndpoint' /\ UNCHANGED <<pc, on, cr, fresh>>
  BY SameCloud, OneEndpointShrinks DEF SafeInv, OneCreating, UserApply, worker
<1>2. /\ mr[m].life = "unborn" /\ mr'[m].ext = None
      /\ \A n \in Resources \ {m} : mr'[n] = mr[n]
  BY <1>1 DEF VPCTypeOK, Managed, UserApply, Unborn
<1>3. /\ \A n : Own(n)' = Own(n) /\ Named(n)' = Named(n)
      /\ Up' = Up
  BY DEF Own, Up, Named, cloud
<1>4. ASSUME NEW w \in Workers
      PROVE  SafeWorker(w)'
  <2>1. SafeWorker(w) /\ (pc[w] # "idle" => on[w] \in Resources \ {m})
    BY DEF SafeInv, SafeWorker, UserApply
  <2>2. pc[w] # "idle" => mr'[on[w]] = mr[on[w]]
    BY <1>2, <2>1
  <2>3. pc[w] \in Before \cup Creating => pc[w] # "idle"
    BY DEF Before, Working, Creating
  <2>4. pc[w] \in Creating => Holds(w)'
    BY <1>1, <1>3, <2>1, <2>2, <2>3 DEF SafeWorker, Holds, Present
  <2>5. Named(cr[w].ext)'
    BY <1>1, <1>3, <2>1 DEF SafeWorker, Named, cloud
  <2> QED
    BY <1>1, <1>3, <2>1, <2>2, <2>3, <2>4, <2>5 DEF SafeWorker, Current, Present, Creating
<1>5. ASSUME NEW n \in Resources
      PROVE  SafeResource(n)'
  <2>1. SafeResource(n) /\ Own(n)' = Own(n) /\ (n = m => Own(n) = {} /\ mr'[n].life = "present")
    BY <1>1, <1>2, <1>3 DEF SafeInv, SafeResource, UserApply, VPCTypeOK, Unborn
  <2> QED
    BY <1>2, <2>1, Parameters DEF SafeResource, Named, cloud
<1> QED
  BY <1>1, <1>4, <1>5 DEF SafeInv

LEMMA UserSafe ==
    ASSUME SafeInv, VPCTypeOK', UNCHANGED cloud,
           \/ ControllerStep \/ ConfigCached \/ UserSetCredentials \/ UserDeleteConfig
           \/ \E m \in Resources : CollectUsage(m) \/ UsageCached(m) \/ UserApply(m) \/ UserDelete(m)
    PROVE  SafeInv'
<1>1. CASE UNCHANGED <<resource, worker>>
  BY <1>1, SameCloud, SafeByOthers
<1>2. ASSUME NEW m \in Resources, UserDelete(m)
      PROVE  SafeInv'
  <2>1. mr[m] \in Managed
    BY DEF SafeInv, VPCTypeOK
  <2>2. PICK new \in Managed :
           new = IF mr[m].fin THEN [mr[m] EXCEPT !.deleting = TRUE]
                              ELSE [mr[m] EXCEPT !.life = "gone"]
    BY <2>1, ManagedTypes
  <2>3. /\ new.ann = mr[m].ann /\ new.ext = mr[m].ext /\ new.fin = mr[m].fin
        /\ new.life \in {"gone", mr[m].life}
    BY <2>1, <2>2 DEF Managed
  <2>4. mr' = [mr EXCEPT ![m] = new] /\ fresh' = Others(m) /\ UNCHANGED worker /\ Present(m)
    BY <1>2, <2>2 DEF UserDelete
  <2> QED
    BY <2>3, <2>4, SameCloud, SafeByOthers DEF Present
<1> QED
  BY <1>1, <1>2, ApplySafe DEF ControllerStep, ConfigList, ConfigAct, CollectUsage,
     UsageCached, ConfigCached, UserSetCredentials, UserDeleteConfig

LEMMA CloudSafe ==
    ASSUME SafeInv, VPCTypeOK', NEW i \in Ids, Progress(i) \/ ConsoleDelete(i)
    PROVE  SafeInv'
<1>1. CloudShrinks
  BY DEF SafeInv, VPCTypeOK, Progress, ConsoleDelete, CloudShrinks
<1>2. UNCHANGED <<resource, worker>>
  BY DEF Progress, ConsoleDelete
<1> QED
  BY <1>1, <1>2, SafeByOthers

LEMMA SafeUnchanged == SafeInv /\ UNCHANGED vars => SafeInv'
<1> SUFFICES ASSUME SafeInv, UNCHANGED vars PROVE SafeInv'
  OBVIOUS
<1>1. VPCTypeOK'
  BY SafeTyped
<1> QED
  BY <1>1, SameCloud, SafeByOthers DEF vars

LEMMA SafeNext == SafeInv /\ Faults = {} /\ [Next]_vars => SafeInv'
<1> SUFFICES ASSUME SafeInv, Faults = {}, [Next]_vars PROVE SafeInv'
  OBVIOUS
<1> USE SafeTyped
<1>1. ASSUME NEW w \in Workers, EndpointStep(w) PROVE SafeInv'
  BY <1>1, ObserveSafe, AddFinalizerSafe, MarkPendingSafe, CreateSafe, AnnotateSafe, DeleteSafe,
     RemoveFinalizerSafe DEF EndpointStep
<1>2. ASSUME NEW w \in Workers, ConnectStep(w) \/ Crash(w), UNCHANGED cloud PROVE SafeInv'
  BY <1>2, StartSafe, TrackSafe, GetConfigSafe, FinishSafe, WorkOnOrganizationSafe DEF ConnectStep
<1> QED
  BY <1>1, <1>2, SafeUnchanged, UserSafe, CloudSafe DEF Next, Reconcile

(* A resource never has two endpoints, for all workers of all replicas,    *)
(* resources, ids, failed calls, restarts and deletions in the console, as *)
(* long as Describe answers and no answer to Create is lost.               *)
THEOREM OneEndpointCorrect ==
    ASSUME Faults = {}
    PROVE  Spec => []OneEndpoint
<1>1. SafeInv /\ [Next]_vars => SafeInv'
  BY SafeNext
<1>2. SafeInv => OneEndpoint
  BY DEF SafeInv
<1> QED
  BY <1>1, <1>2, SafeInit, PTL DEF Spec

-----------------------------------------------------------------------------
(* Nothing is left behind.                                                 *)

LeavesNothing ==
    \A m \in VPCEndpoints : Present(m) /\ mr'[m].life = "gone" => \A i \in Up' : owner'[i] # m

(* A resource that has nothing leaves nothing.                             *)
LEMMA NothingLeft ==
    ASSUME UNCHANGED cloud,
           \A m \in VPCEndpoints : Present(m) /\ mr'[m].life = "gone" => Own(m) = {}
    PROVE  LeavesNothing
BY DEF LeavesNothing, Own, Up, cloud

LEMMA StaysLeavesNothing ==
    ASSUME \A m \in VPCEndpoints : Present(m) => mr'[m].life # "gone"
    PROVE  LeavesNothing
BY DEF LeavesNothing

LEMMA SameLeavesNothing == UNCHANGED mr => LeavesNothing
BY DEF LeavesNothing, Present

LEMMA PutLife ==
    ASSUME SafeInv, NEW w \in Workers, pc[w] \in Before, NEW new, NEW next, Put(w, new, next),
           new.life = cr[w].life
    PROVE  LeavesNothing
<1>1. VPCTypeOK /\ on[w] \in Resources
  BY DEF SafeInv, SafeWorker, Before, Working
<1>2. \A m \in VPCEndpoints : Present(m) => mr'[m].life # "gone"
  <2>1. CASE UNCHANGED mr
    BY <2>1 DEF Present
  <2>2. CASE Current(w) /\ \E mine : Store(w, mine, new)
    <3>1. mr' = [mr EXCEPT ![on[w]] = new] /\ cr[w] = mr[on[w]]
      BY <2>2, NobodyCreating DEF Store
    <3> QED
      BY <1>1, <3>1 DEF VPCTypeOK, Present, VPCEndpoints
  <2> QED
    BY <2>1, <2>2 DEF Put, Outcomes, resource
<1> QED
  BY <1>2, StaysLeavesNothing

LEMMA RemoveFinalizerLeavesNothing ==
    ASSUME SafeInv, NEW w \in Workers, RemoveFinalizer(w)
    PROVE  LeavesNothing
<1>1. /\ VPCTypeOK /\ on[w] \in Resources /\ pc[w] \in Before /\ cr[w].ext \notin Up
  BY DEF SafeInv, SafeWorker, RemoveFinalizer, Before, Working, Creating, Labels
<1>2. CASE UNCHANGED mr
  BY <1>2, SameLeavesNothing
<1>3. CASE Current(w) /\ \E mine, new : Store(w, mine, new)
  <2>1. /\ Own(on[w]) \subseteq {cr[w].ext} /\ UNCHANGED cloud
    BY <1>1, <1>3, NobodyCreating DEF SafeInv, SafeResource, Present, RemoveFinalizer
  <2>2. Own(on[w]) = {}
    BY <1>1, <2>1 DEF Own
  <2>3. \A m \in Resources \ {on[w]} : mr'[m] = mr[m]
    BY <1>1, <1>3 DEF VPCTypeOK, Store
  <2> QED
    BY <2>1, <2>2, <2>3, NothingLeft DEF VPCEndpoints, Present
<1> QED
  BY <1>2, <1>3 DEF RemoveFinalizer, Put, Outcomes, resource

LEMMA WorkerLeavesNothing ==
    ASSUME SafeInv, NEW w \in Workers,
           EndpointStep(w) \/ ((ConnectStep(w) \/ Crash(w)) /\ UNCHANGED cloud)
    PROVE  LeavesNothing
<1>1. VPCTypeOK
  BY DEF SafeInv
<1>2. CASE AddFinalizer(w)
  <2>1. /\ pc[w] \in Before /\ cr[w] \in Managed
    BY <1>1, <1>2 DEF VPCTypeOK, AddFinalizer, Before, Working, Creating, Labels
  <2>2. CASE \E next : Put(w, [cr[w] EXCEPT !.fin = TRUE], next)
    BY <2>1, <2>2, PutLife DEF Managed
  <2> QED
    BY <1>2, <2>2, SameLeavesNothing DEF AddFinalizer, resource
<1>3. CASE MarkPending(w)
  <2>1. /\ pc[w] \in Before /\ cr[w] \in Managed
    BY <1>1, <1>3 DEF VPCTypeOK, MarkPending, Before, Working, Creating, Labels
  <2> QED
    BY <1>3, <2>1, PutLife DEF MarkPending, Managed
<1>4. CASE Annotate(w)
  <2>1. on[w] \in Resources /\ mr[on[w]] \in Managed
    BY <1>1, <1>4 DEF SafeInv, SafeWorker, VPCTypeOK, Annotate
  <2>2. CASE Store(w, {w}, [mr[on[w]] EXCEPT !.ann = cr[w].ann, !.ext = cr[w].ext])
    <3>1. \A m \in Resources : mr'[m].life = mr[m].life
      BY <1>1, <2>1, <2>2 DEF VPCTypeOK, Store, Managed
    <3> QED
      BY <3>1, StaysLeavesNothing DEF VPCEndpoints, Present
  <2> QED
    BY <1>4, <2>2, SameLeavesNothing DEF Annotate, resource
<1>5. CASE WorkOnOrganization(w) /\ UNCHANGED cloud
  <2>1. CASE \E mine, new : Store(w, mine, new)
    BY <1>1, <1>5, <2>1, StaysLeavesNothing
       DEF WorkOnOrganization, VPCEndpoints, Store, VPCTypeOK, Present
  <2> QED
    BY <1>5, <2>1, SameLeavesNothing DEF WorkOnOrganization, resource
<1> QED
  BY <1>2, <1>3, <1>4, <1>5, RemoveFinalizerLeavesNothing, SameLeavesNothing
     DEF EndpointStep, ConnectStep, Observe, Create, CreateVPCEndpoint, Delete,
         DeleteVPCEndpoint, Start, Track, GetConfig, Finish, Crash,
         resource

LEMMA UserLeavesNothing ==
    ASSUME SafeInv, NEW m \in Resources, UserDelete(m) \/ UserApply(m), UNCHANGED cloud
    PROVE  LeavesNothing
<1>1. mr \in [Resources -> Managed] /\ SafeResource(m) /\ mr[m] \in Managed
  BY DEF SafeInv, VPCTypeOK
<1>2. \A n \in Resources \ {m} : mr'[n] = mr[n]
  BY <1>1 DEF UserDelete, UserApply
<1>3. Present(m) /\ mr'[m].life = "gone" => ~mr[m].fin
  BY <1>1 DEF UserDelete, UserApply, Present, Managed
<1>4. Present(m) /\ mr'[m].life = "gone" => Own(m) = {}
  BY <1>1, <1>3 DEF SafeResource, Present
<1> QED
  BY <1>2, <1>4, NothingLeft DEF VPCEndpoints, Present

(* A VPCEndpoint does not disappear before its endpoint, for all workers,  *)
(* resources, ids, failed calls, restarts and deletions in the console, as *)
(* long as Describe answers and no answer to Create is lost.               *)
THEOREM NoOrphanEndpointCorrect ==
    ASSUME Faults = {}
    PROVE  Spec => NoOrphanEndpoint
<1>1. SafeInv /\ [Next]_vars => SafeInv'
  BY SafeNext
<1>2. SafeInv /\ Next => LeavesNothing
  <2> SUFFICES ASSUME SafeInv, Next PROVE LeavesNothing
    OBVIOUS
  <2>1. CASE \E w \in Workers : Reconcile(w) \/ (Crash(w) /\ UNCHANGED cloud)
    BY <2>1, WorkerLeavesNothing DEF Reconcile
  <2>2. CASE \E m \in Resources : (UserApply(m) \/ UserDelete(m)) /\ UNCHANGED cloud
    BY <2>2, UserLeavesNothing
  <2> QED
    BY <2>1, <2>2, SameLeavesNothing
       DEF Next, ControllerStep, ConfigList, ConfigAct, CollectUsage, UsageCached, ConfigCached,
           UserSetCredentials, UserDeleteConfig, Progress, ConsoleDelete, resource
<1>3. SafeInv /\ [Next]_vars => [LeavesNothing]_vars
  BY <1>2
<1>4. Spec => [][LeavesNothing]_vars
  BY <1>1, <1>3, SafeInit, PTL DEF Spec
<1> QED
  BY <1>4 DEF NoOrphanEndpoint, LeavesNothing

-----------------------------------------------------------------------------
(* The life cycle.                                                         *)

Managing == {"unfinalize", "delete", "finalizer", "finalizeNew", "pending"} \cup Creating

(* Only VPCEndpoints are managed here, and they outlast their creation.    *)
Attached(w) ==
    /\ pc[w] \in Managing => on[w] \in VPCEndpoints
    /\ pc[w] \in Creating => Present(on[w])

AttachedInv == \A w \in Workers : Attached(w)

LifeStep == [Lifecycle!Next]_<<phaseBar, hasBar, usedBar>>

KeepsLives == \A m \in VPCEndpoints : mr'[m].life = mr[m].life

Ongoing == AttachedInv' /\ LifeStep

LEMMA SameBars == UNCHANGED cloud => hasBar' = hasBar /\ usedBar' = usedBar
BY DEF cloud, hasBar, usedBar, Up

LEMMA SameCreations ==
    ASSUME NEW w \in Workers, OthersRest(w), NEW m,
           on[w] # m \/ pc[w] \notin Creating, on'[w] # m \/ pc'[w] \notin Creating
    PROVE  BeingCreated(m)' <=> BeingCreated(m)
BY DEF OthersRest, BeingCreated, Creating

LEMMA PhaseMoves ==
    ASSUME NEW m \in VPCEndpoints, NEW next, phaseBar'[m] = next,
           \A n \in VPCEndpoints \ {m} :
               mr'[n].life = mr[n].life /\ (BeingCreated(n)' <=> BeingCreated(n))
    PROVE  phaseBar' = [phaseBar EXCEPT ![m] = next]
BY DEF phaseBar, Present

LEMMA PhaseStays ==
    ASSUME KeepsLives, \A m \in VPCEndpoints : BeingCreated(m)' <=> BeingCreated(m)
    PROVE  phaseBar' = phaseBar
BY DEF KeepsLives, phaseBar, Present

LEMMA AttachedByWorker ==
    ASSUME AttachedInv, NEW w \in Workers, OthersRest(w), Attached(w)',
           \A v \in Workers \ {w} : pc[v] \in Creating /\ Present(on[v]) => Present(on[v])'
    PROVE  AttachedInv'
BY DEF AttachedInv, Attached, OthersRest, Present

LEMMA OthersOutlast ==
    ASSUME AttachedInv, NEW w \in Workers, OthersRest(w), KeepsLives
    PROVE  \A v \in Workers \ {w} : pc[v] \in Creating /\ Present(on[v]) => Present(on[v])'
BY DEF AttachedInv, Attached, OthersRest, KeepsLives, Present, Managing

(* A step of a worker that neither begins, ends nor carries out a creation.*)
LEMMA CalmOngoing ==
    ASSUME AttachedInv, NEW w \in Workers, OthersRest(w), KeepsLives, Attached(w)',
           pc'[w] \in Creating <=> pc[w] \in Creating, pc[w] \in Creating => on'[w] = on[w],
           UNCHANGED <<hasBar, usedBar>>
    PROVE  Ongoing
<1>1. \A m \in VPCEndpoints : BeingCreated(m)' <=> BeingCreated(m)
  BY DEF OthersRest, BeingCreated, Creating
<1>2. phaseBar' = phaseBar
  BY <1>1, PhaseStays
<1>3. AttachedInv'
  BY OthersOutlast, AttachedByWorker
<1> QED
  BY <1>2, <1>3 DEF Ongoing, LifeStep

LEMMA EndOngoing ==
    ASSUME SafeInv, AttachedInv, NEW w \in Workers, pc[w] \in Creating, OthersRest(w),
           KeepsLives, pc'[w] \in {"idle", "finish"}, UNCHANGED cloud
    PROVE  Ongoing
<1>1. PICK m \in VPCEndpoints : m = on[w] /\ Present(m) /\ BeingCreated(m)
  BY DEF AttachedInv, Attached, Managing, Creating, BeingCreated
<1>2. ~BeingCreated(m)'
  BY <1>1 DEF SafeInv, OneCreating, OthersRest, BeingCreated, Creating
<1>3. \A n \in VPCEndpoints \ {m} : BeingCreated(n)' <=> BeingCreated(n)
  BY <1>1, SameCreations DEF Creating
<1>4. phaseBar[m] = "creating" /\ phaseBar'[m] = "settled"
  BY <1>1, <1>2 DEF phaseBar, KeepsLives, Present
<1>5. Lifecycle!End(m)
  BY <1>1, <1>3, <1>4, PhaseMoves, SameBars DEF Lifecycle!End, Lifecycle!Becomes, KeepsLives
<1>6. AttachedInv'
  BY OthersOutlast, AttachedByWorker DEF Attached, Managing, Creating
<1> QED
  BY <1>1, <1>4, <1>5, <1>6 DEF Ongoing, LifeStep, Lifecycle!Next

(* A resource goes that has nothing and is not being created.              *)
LEMMA VanishStep ==
    ASSUME NEW m \in VPCEndpoints, Present(m), mr'[m].life = "gone", Own(m) = {},
           ~BeingCreated(m),
           \A n \in VPCEndpoints \ {m} :
               mr'[n].life = mr[n].life /\ (BeingCreated(n)' <=> BeingCreated(n)),
           UNCHANGED cloud
    PROVE  LifeStep
<1>1. phaseBar[m] = "settled" /\ phaseBar'[m] = "gone" /\ hasBar[m] = {}
  BY DEF phaseBar, Present, hasBar, Own
<1>2. phaseBar' = [phaseBar EXCEPT ![m] = "gone"]
  BY <1>1, PhaseMoves
<1>3. Lifecycle!Vanish(m)
  BY <1>1, <1>2, SameBars DEF Lifecycle!Vanish, Lifecycle!Becomes
<1> QED
  BY <1>1, <1>3 DEF LifeStep, Lifecycle!Next

(* An endpoint is lost by the one resource that has it.                    *)
LEMMA LoseStep ==
    ASSUME SafeInv, UNCHANGED <<owner, phaseBar, usedBar>>, NEW i \in Ids,
           Up' = Up \ {i}
    PROVE  LifeStep
<1>1. CASE UNCHANGED hasBar
  BY <1>1 DEF LifeStep
<1>2. CASE hasBar' # hasBar
  <2>1. hasBar' = [m \in VPCEndpoints |-> hasBar[m] \ {i}]
    BY DEF hasBar
  <2>2. PICK m \in VPCEndpoints : i \in hasBar[m]
    BY <1>2, <2>1 DEF hasBar
  <2>3. hasBar[m] = {i} /\ \A n \in VPCEndpoints \ {m} : i \notin hasBar[n]
    BY <2>2 DEF SafeInv, OneEndpoint, hasBar
  <2>4. hasBar' = [hasBar EXCEPT ![m] = {}]
    <3>1. \A n \in VPCEndpoints : hasBar[n] \ {i} = IF n = m THEN {} ELSE hasBar[n]
      BY <2>3
    <3>2. hasBar = [n \in VPCEndpoints |-> hasBar[n]]
      BY DEF hasBar
    <3> QED
      BY <2>1, <3>1, <3>2
  <2>5. hasBar'[m] = {}
    BY <2>1, <2>3
  <2> QED
    BY <2>3, <2>4, <2>5 DEF LifeStep, Lifecycle!Next, Lifecycle!Lose
<1> QED
  BY <1>1, <1>2

-----------------------------------------------------------------------------
(* ... action by action.                                                   *)

LEMMA EndsOngoing ==
    ASSUME SafeInv, AttachedInv, NEW w \in Workers,
           Idle(w) \/ (Ending(w) /\ UNCHANGED on), KeepsLives, UNCHANGED cloud
    PROVE  Ongoing
<1>1. OthersRest(w) /\ pc'[w] \in {"idle", "finish"}
  BY DEF SafeInv, VPCTypeOK, Idle, Ending, Goto, OthersRest
<1>2. Attached(w)' /\ pc'[w] \notin Creating
  BY <1>1 DEF Attached, Managing, Creating
<1> QED
  BY <1>1, <1>2, EndOngoing, CalmOngoing, SameBars

(* A worker that goes on, but neither to nor from a creation.              *)
LEMMA MovesOngoing ==
    ASSUME SafeInv, AttachedInv, NEW w \in Workers, NEW next \in Before, pc[w] \notin Creating,
           pc' = [pc EXCEPT ![w] = next], OthersRest(w), KeepsLives, UNCHANGED cloud,
           next \in Managing => on'[w] \in VPCEndpoints
    PROVE  Ongoing
<1>1. pc'[w] = next /\ next \notin Creating
  BY DEF SafeInv, VPCTypeOK, Before
<1>2. Attached(w)'
  BY <1>1 DEF Attached
<1> QED
  BY <1>1, <1>2, CalmOngoing, SameBars

LEMMA BeginOngoing ==
    ASSUME SafeInv, AttachedInv, NEW w \in Workers, pc[w] \in Before, pc[w] \in Managing,
           Current(w), OthersRest(w), pc'[w] = "create", UNCHANGED <<on, cloud>>, KeepsLives
    PROVE  Ongoing
<1>1. PICK m \in VPCEndpoints : m = on[w] /\ Present(m)
  BY DEF AttachedInv, Attached, Current
<1>2. ~BeingCreated(m) /\ BeingCreated(m)'
  BY <1>1, NobodyCreating DEF BeingCreated, Creating
<1>3. \A n \in VPCEndpoints \ {m} : BeingCreated(n)' <=> BeingCreated(n)
  BY <1>1, SameCreations
<1>4. phaseBar[m] = "settled" /\ phaseBar'[m] = "creating"
  BY <1>1, <1>2 DEF phaseBar, KeepsLives, Present
<1>5. Lifecycle!Begin(m)
  BY <1>1, <1>3, <1>4, PhaseMoves, SameBars DEF Lifecycle!Begin, Lifecycle!Becomes, KeepsLives
<1>6. Attached(w)'
  BY <1>1 DEF Attached, KeepsLives, Present
<1>7. AttachedInv'
  BY <1>6, OthersOutlast, AttachedByWorker
<1> QED
  BY <1>4, <1>5, <1>7 DEF Ongoing, LifeStep, Lifecycle!Next

LEMMA PutOngoing ==
    ASSUME SafeInv, AttachedInv, NEW w \in Workers, pc[w] \in Before, pc[w] \in Managing,
           NEW new, new.life = cr[w].life, NEW next \in {"finish", "pending", "create"},
           Put(w, new, next), UNCHANGED <<on, cloud>>
    PROVE  Ongoing
<1>1. VPCTypeOK /\ on[w] \in VPCEndpoints /\ pc[w] \notin Creating
  BY DEF SafeInv, AttachedInv, Attached, Before
<1>2. KeepsLives
  <2>1. CASE UNCHANGED resource
    BY <2>1 DEF resource, KeepsLives
  <2>2. CASE Current(w) /\ \E mine : Store(w, mine, new)
    <3>1. mr' = [mr EXCEPT ![on[w]] = new] /\ cr[w] = mr[on[w]]
      BY <2>2, NobodyCreating DEF Store
    <3> QED
      BY <1>1, <3>1 DEF VPCTypeOK, KeepsLives, VPCEndpoints
  <2> QED
    BY <2>1, <2>2 DEF Put, Outcomes
<1>3. CASE Ending(w)
  BY <1>2, <1>3, EndsOngoing
<1>4. CASE ~Ending(w)
  <2>1. Continue(w, new, next) /\ next # "finish" /\ Current(w)
    BY <1>4 DEF Put, Outcomes, Continue
  <2>2. pc' = [pc EXCEPT ![w] = next] /\ OthersRest(w) /\ pc'[w] = next
    BY <1>1, <2>1 DEF VPCTypeOK, Continue, Goto, OthersRest
  <2>3. CASE next = "pending"
    BY <1>1, <1>2, <2>2, <2>3, MovesOngoing DEF Before, Working, Creating, Labels
  <2>4. CASE next = "create"
    BY <1>2, <2>1, <2>2, <2>4, BeginOngoing
  <2> QED
    BY <2>1, <2>3, <2>4
<1> QED
  BY <1>3, <1>4

LEMMA AddFinalizerOngoing ==
    ASSUME SafeInv, AttachedInv, NEW w \in Workers, AddFinalizer(w)
    PROVE  Ongoing
<1>1. /\ VPCTypeOK /\ pc[w] \in Before /\ pc[w] \in Managing /\ pc[w] \notin Creating
      /\ on[w] \in VPCEndpoints /\ cr[w] \in Managed
  BY DEF SafeInv, AddFinalizer, VPCTypeOK, AttachedInv, Attached, Before, Working, Creating,
         Managing, Labels
<1>2. PICK next \in {"finish", "pending"} :
         \/ cr[w].fin /\ Continue(w, cr[w], next) /\ UNCHANGED <<resource, errors>>
         \/ Put(w, [cr[w] EXCEPT !.fin = TRUE], next)
  BY DEF AddFinalizer
<1>3. CASE Continue(w, cr[w], next) /\ UNCHANGED resource
  <2>1. KeepsLives
    BY <1>3 DEF KeepsLives, resource
  <2>2. CASE next = "finish"
    BY <1>3, <2>1, <2>2, EndsOngoing DEF AddFinalizer, Continue
  <2>3. CASE next = "pending"
    <3>1. pc' = [pc EXCEPT ![w] = "pending"] /\ OthersRest(w)
      BY <1>1, <1>3, <2>3 DEF Continue, Goto, VPCTypeOK, OthersRest, AddFinalizer
    <3> QED
      BY <1>1, <2>1, <3>1, MovesOngoing DEF AddFinalizer, Before, Working, Creating, Labels
  <2> QED
    BY <2>2, <2>3
<1>4. CASE Put(w, [cr[w] EXCEPT !.fin = TRUE], next)
  BY <1>1, <1>4, PutOngoing DEF AddFinalizer, Managed
<1> QED
  BY <1>2, <1>3, <1>4

LEMMA MarkPendingOngoing ==
    ASSUME SafeInv, AttachedInv, NEW w \in Workers, MarkPending(w)
    PROVE  Ongoing
<1>1. pc[w] \in Before /\ pc[w] \in Managing /\ cr[w] \in Managed
  BY DEF SafeInv, MarkPending, VPCTypeOK, Before, Working, Creating, Managing, Labels
<1> QED
  BY <1>1, PutOngoing DEF MarkPending, Managed

LEMMA RemoveFinalizerOngoing ==
    ASSUME SafeInv, AttachedInv, NEW w \in Workers, RemoveFinalizer(w)
    PROVE  Ongoing
<1>1. /\ VPCTypeOK /\ pc[w] \in Before /\ pc[w] \in Managing /\ pc[w] = "unfinalize"
      /\ on[w] \in VPCEndpoints /\ cr[w] \in Managed /\ cr[w].ext \notin Up
  BY DEF SafeInv, SafeWorker, RemoveFinalizer, VPCTypeOK, AttachedInv, Attached, Before, Working,
         Creating, Managing, Labels
<1>2. Ending(w) /\ UNCHANGED <<on, cloud>>
  BY DEF RemoveFinalizer, Put, Continue, Outcomes
<1>3. CASE UNCHANGED resource
  BY <1>2, <1>3, EndsOngoing DEF KeepsLives, resource
<1>4. CASE Current(w) /\ \E mine : Store(w, mine, [cr[w] EXCEPT !.fin = FALSE, !.life = "gone"])
  <2>1. PICK m \in VPCEndpoints : m = on[w]
    BY <1>1
  <2>2. Present(m) /\ ~BeingCreated(m) /\ Own(m) \subseteq {cr[w].ext}
    BY <1>1, <1>4, <2>1, NobodyCreating
       DEF BeingCreated, Creating, SafeInv, SafeResource, Present, VPCEndpoints
  <2>3. Own(m) = {}
    BY <1>1, <2>2 DEF Own
  <2>4. mr' = [mr EXCEPT ![m] = [cr[w] EXCEPT !.fin = FALSE, !.life = "gone"]]
    BY <1>4, <2>1 DEF Store
  <2>5. mr'[m].life = "gone" /\ \A n \in VPCEndpoints \ {m} : mr'[n].life = mr[n].life
    BY <1>1, <2>4 DEF VPCTypeOK, Managed, VPCEndpoints
  <2>6. OthersRest(w) /\ pc'[w] = "finish"
    BY <1>1, <1>2 DEF VPCTypeOK, Ending, Goto, OthersRest
  <2>7. LifeStep
    <3>1. \A n \in VPCEndpoints \ {m} : BeingCreated(n)' <=> BeingCreated(n)
      BY <1>2, <2>1, <2>6, SameCreations
    <3> QED
      BY <1>2, <2>2, <2>3, <2>5, <3>1, VanishStep
  <2>8. AttachedInv'
    <3>1. \A v \in Workers \ {w} : pc[v] \in Creating /\ Present(on[v]) => Present(on[v])'
      BY <1>1, <2>1, <2>2, <2>5, <2>6
         DEF OthersRest, BeingCreated, Creating, AttachedInv, Attached, Managing, Present
    <3>2. Attached(w)'
      BY <2>6 DEF Attached, Managing, Creating
    <3> QED
      BY <2>6, <3>1, <3>2, AttachedByWorker
  <2> QED
    BY <2>7, <2>8 DEF Ongoing
<1> QED
  BY <1>3, <1>4 DEF RemoveFinalizer, Put, Outcomes

LEMMA CreateOngoing ==
    ASSUME SafeInv, AttachedInv, NEW w \in Workers, Create(w)
    PROVE  Ongoing
<1>1. PICK m \in VPCEndpoints : m = on[w] /\ Present(m) /\ BeingCreated(m) /\ Own(m) = {}
  BY DEF SafeInv, SafeWorker, Holds, AttachedInv, Attached, Managing, Creating, BeingCreated,
         Create
<1>2. /\ OthersRest(w) /\ KeepsLives /\ pc[w] \in Creating /\ pc'[w] \in Creating
      /\ UNCHANGED on
  BY DEF SafeInv, VPCTypeOK, Create, Continue, Goto, OthersRest, Creating, KeepsLives, resource
<1>3. Attached(w)'
  BY <1>1, <1>2 DEF Attached, KeepsLives, Present
<1>4. CASE UNCHANGED cloud
  BY <1>2, <1>3, <1>4, CalmOngoing, SameBars
<1>5. CASE \E i \in Ids : CreateVPCEndpoint(i, on[w])
  <2>1. PICK i \in Ids : CreateVPCEndpoint(i, m)
    BY <1>1, <1>5
  <2>2. /\ ec2[i] = "free" /\ Up' = Up \cup {i} /\ owner'[i] = m
        /\ \A j \in Ids \ {i} : owner'[j] = owner[j] /\ ec2'[j] = ec2[j]
        /\ ec2'[i] = "pending"
    BY <2>1 DEF CreateVPCEndpoint, SafeInv, VPCTypeOK, Up
  <2>3. /\ hasBar[m] = {} /\ hasBar'[m] = {i} /\ i \in Ids \ usedBar
        /\ usedBar' = usedBar \cup {i}
    BY <1>1, <2>2 DEF hasBar, usedBar, Own, Up
  <2>4. hasBar' = [hasBar EXCEPT ![m] = {i}]
    <3>1. \A n \in VPCEndpoints \ {m} : hasBar'[n] = hasBar[n]
      BY <2>2 DEF hasBar, Up
    <3> QED
      BY <2>3, <3>1 DEF hasBar
  <2>5. phaseBar[m] = "creating"
    BY <1>1 DEF phaseBar
  <2>6. phaseBar' = phaseBar
    <3>1. \A n \in VPCEndpoints : BeingCreated(n)' <=> BeingCreated(n)
      BY <1>2 DEF OthersRest, BeingCreated, Creating
    <3> QED
      BY <1>2, <3>1, PhaseStays
  <2>7. LifeStep
    BY <2>3, <2>4, <2>5, <2>6 DEF LifeStep, Lifecycle!Next, Lifecycle!Make
  <2>8. AttachedInv'
    BY <1>2, <1>3, OthersOutlast, AttachedByWorker
  <2> QED
    BY <2>7, <2>8 DEF Ongoing
<1> QED
  BY <1>4, <1>5 DEF Create

LEMMA AnnotateOngoing ==
    ASSUME SafeInv, AttachedInv, NEW w \in Workers, Annotate(w)
    PROVE  Ongoing
<1>1. /\ VPCTypeOK /\ on[w] \in VPCEndpoints /\ Ending(w) /\ UNCHANGED <<on, cloud>>
      /\ mr[on[w]] \in Managed
  BY DEF SafeInv, VPCTypeOK, Annotate, AttachedInv, Attached, Managing, Creating, VPCEndpoints
<1>2. KeepsLives
  <2>1. CASE Store(w, {w}, [mr[on[w]] EXCEPT !.ann = cr[w].ann, !.ext = cr[w].ext])
    BY <1>1, <2>1 DEF VPCTypeOK, Store, Managed, KeepsLives, VPCEndpoints
  <2> QED
    BY <2>1 DEF Annotate, KeepsLives, resource
<1> QED
  BY <1>1, <1>2, EndsOngoing

LEMMA LosesOne ==
    ASSUME SafeInv, NEW i \in Ids, ec2' = [ec2 EXCEPT ![i] = "deleting"], UNCHANGED owner,
           ec2[i] \in {"pending", "available"}
    PROVE  Up' = Up \ {i} /\ usedBar' = usedBar
BY DEF SafeInv, VPCTypeOK, Up, usedBar

LEMMA DeleteOngoing ==
    ASSUME SafeInv, AttachedInv, NEW w \in Workers, Delete(w)
    PROVE  Ongoing
<1>1. /\ VPCTypeOK /\ Ending(w) /\ UNCHANGED <<on, owner, mr>> /\ pc[w] = "delete"
  BY DEF SafeInv, Delete, resource
<1>2. OthersRest(w) /\ KeepsLives /\ pc[w] \notin Creating /\ pc'[w] = "finish"
  BY <1>1 DEF VPCTypeOK, Ending, Goto, OthersRest, KeepsLives, Creating
<1>3. CASE UNCHANGED ec2
  BY <1>1, <1>2, <1>3, EndsOngoing DEF cloud
<1>4. CASE ec2' # ec2
  <2>1. PICK i \in Ids : /\ ec2' = [ec2 EXCEPT ![i] = "deleting"]
                         /\ ec2[i] \in {"pending", "available"}
    BY <1>1, <1>4 DEF Delete, DeleteVPCEndpoint, VPCTypeOK
  <2>2. \A m \in VPCEndpoints : BeingCreated(m)' <=> BeingCreated(m)
    BY <1>2, SameCreations DEF Creating
  <2>3. LifeStep
    BY <1>1, <1>2, <2>1, <2>2, PhaseStays, LosesOne, LoseStep
  <2>4. Attached(w)'
    BY <1>2 DEF Attached, Managing, Creating
  <2> QED
    BY <1>2, <2>3, <2>4, OthersOutlast, AttachedByWorker DEF Ongoing
<1> QED
  BY <1>3, <1>4

LEMMA ObserveOngoing ==
    ASSUME SafeInv, AttachedInv, NEW w \in Workers, Observe(w)
    PROVE  Ongoing
<1>1. VPCTypeOK /\ on[w] \in VPCEndpoints /\ pc[w] \notin Creating
  BY DEF SafeInv, SafeWorker, Observe, VPCEndpoints, Creating
<1>2. PICK next \in {"delete", "unfinalize", "finalizer", "finalizeNew"} :
          pc' = [pc EXCEPT ![w] = next]
  BY DEF Observe, Observed, Goto
<1>3. OthersRest(w) /\ KeepsLives /\ next \in Before /\ UNCHANGED <<on, cloud>>
  BY <1>1, <1>2 DEF Observe, VPCTypeOK, OthersRest, KeepsLives, resource, Before, Working,
                    Creating, Labels
<1> QED
  BY <1>1, <1>2, <1>3, MovesOngoing

(* Connecting, and what module Organization does, is no concern of it.     *)
LEMMA ConnectOngoing ==
    ASSUME SafeInv, AttachedInv, NEW w \in Workers, ConnectStep(w) \/ Crash(w), UNCHANGED cloud
    PROVE  Ongoing
<1>1. VPCTypeOK
  BY DEF SafeInv
<1>2. KeepsLives
  <2>1. CASE UNCHANGED mr
    BY <2>1 DEF KeepsLives
  <2>2. CASE WorkOnOrganization(w) /\ mr' # mr
    <3>1. on[w] \notin VPCEndpoints /\ \E new : mr' = [mr EXCEPT ![on[w]] = new]
      BY <2>2 DEF WorkOnOrganization, Store, VPCEndpoints, resource
    <3> QED
      BY <1>1, <3>1 DEF VPCTypeOK, KeepsLives, VPCEndpoints
  <2> QED
    BY <2>1, <2>2 DEF ConnectStep, Start, Track, GetConfig, Finish, Crash, resource
<1>3. CASE Idle(w) \/ (Ending(w) /\ UNCHANGED on)
  BY <1>2, <1>3, EndsOngoing
<1>4. CASE \E m \in Resources : Start(w, m)
  <2>1. /\ pc' = [pc EXCEPT ![w] = "track"] /\ OthersRest(w) /\ pc[w] = "idle"
    BY <1>1, <1>4 DEF Start, Goto, VPCTypeOK, OthersRest
  <2> QED
    BY <1>2, <2>1, MovesOngoing DEF Before, Working, Creating, Labels, Managing
<1>5. ASSUME NEW next \in {"config", "connected"}, pc[w] \in {"track", "config"}, Goto(w, next),
             UNCHANGED <<on, cr>>
      PROVE  Ongoing
  <2>1. pc' = [pc EXCEPT ![w] = next] /\ OthersRest(w)
    BY <1>1, <1>5 DEF Goto, VPCTypeOK, OthersRest
  <2> QED
    BY <1>2, <1>5, <2>1, MovesOngoing DEF Before, Working, Creating, Labels, Managing
<1>6. CASE Track(w)
  BY <1>3, <1>5, <1>6 DEF Track
<1>7. CASE GetConfig(w)
  BY <1>1, <1>3, <1>5, <1>7 DEF GetConfig, VPCTypeOK
<1> QED
  BY <1>3, <1>4, <1>6, <1>7 DEF ConnectStep, Finish, WorkOnOrganization, Crash

-----------------------------------------------------------------------------
(* Everyone else, and the theorem.                                         *)

LEMMA RestOngoing ==
    ASSUME AttachedInv, KeepsLives, UNCHANGED worker
    PROVE  AttachedInv' /\ phaseBar' = phaseBar
<1>1. \A m \in VPCEndpoints : BeingCreated(m)' <=> BeingCreated(m)
  BY DEF worker, BeingCreated
<1> QED
  BY <1>1, PhaseStays DEF AttachedInv, Attached, KeepsLives, Present, worker, Managing

LEMMA CloudOngoing ==
    ASSUME SafeInv, AttachedInv, NEW i \in Ids, Progress(i) \/ ConsoleDelete(i)
    PROVE  Ongoing
<1>1. AttachedInv' /\ phaseBar' = phaseBar /\ UNCHANGED owner
  BY RestOngoing DEF Progress, ConsoleDelete, KeepsLives, resource
<1>2. CASE Progress(i)
  <2>1. Up' = Up /\ usedBar' = usedBar
    BY <1>2 DEF Progress, SafeInv, VPCTypeOK, Up, usedBar
  <2> QED
    BY <1>1, <2>1 DEF Ongoing, LifeStep, hasBar
<1>3. CASE ConsoleDelete(i)
  BY <1>1, <1>3, LosesOne, LoseStep DEF ConsoleDelete, Ongoing
<1> QED
  BY <1>2, <1>3

LEMMA ApplyOngoing ==
    ASSUME SafeInv, AttachedInv, NEW m \in Resources, UserApply(m), UNCHANGED cloud
    PROVE  Ongoing
<1>1. /\ mr[m] \in Managed /\ mr[m].life = "unborn" /\ mr'[m].life = "present"
      /\ \A n \in Resources \ {m} : mr'[n] = mr[n]
      /\ UNCHANGED worker
  BY DEF SafeInv, VPCTypeOK, UserApply, Managed
<1>2. ~BeingCreated(m)
  BY <1>1 DEF SafeInv, SafeWorker, BeingCreated
<1>3. \A n : BeingCreated(n)' <=> BeingCreated(n)
  BY <1>1 DEF worker, BeingCreated
<1>4. AttachedInv'
  BY <1>1, <1>2 DEF AttachedInv, Attached, Present, worker, VPCEndpoints, Managing
<1>5. LifeStep
  <2>1. CASE m \in VPCEndpoints
    <3>1. phaseBar[m] = "unborn" /\ phaseBar'[m] = "settled"
      BY <1>1, <1>2, <1>3, <2>1 DEF phaseBar, Present
    <3>2. Lifecycle!Appear(m)
      BY <1>1, <1>3, <2>1, <3>1, PhaseMoves, SameBars
         DEF Lifecycle!Appear, Lifecycle!Becomes, VPCEndpoints
    <3> QED
      BY <2>1, <3>1, <3>2 DEF LifeStep, Lifecycle!Next
  <2>2. CASE m \notin VPCEndpoints
    BY <1>1, <1>3, <2>2, PhaseStays, SameBars DEF LifeStep, KeepsLives, VPCEndpoints
  <2> QED
    BY <2>1, <2>2
<1> QED
  BY <1>4, <1>5 DEF Ongoing

LEMMA DeletionOngoing ==
    ASSUME SafeInv, AttachedInv, NEW m \in Resources, UserDelete(m), UNCHANGED cloud
    PROVE  Ongoing
<1>1. /\ mr[m] \in Managed /\ Present(m) /\ UNCHANGED worker
      /\ mr'[m].life = IF mr[m].fin THEN "present" ELSE "gone"
      /\ \A n \in Resources \ {m} : mr'[n] = mr[n]
  BY DEF SafeInv, VPCTypeOK, UserDelete, Managed, Present
<1>2. CASE KeepsLives
  BY <1>1, <1>2, RestOngoing, SameBars DEF Ongoing, LifeStep
<1>3. CASE ~KeepsLives
  <2>1. m \in VPCEndpoints /\ mr'[m].life = "gone" /\ ~mr[m].fin
    BY <1>1, <1>3 DEF KeepsLives, VPCEndpoints, Present
  <2>2. Own(m) = {} /\ ~BeingCreated(m)
    BY <1>1, <2>1 DEF SafeInv, SafeResource, SafeWorker, Holds, BeingCreated, Creating, Present
  <2>3. \A n : BeingCreated(n)' <=> BeingCreated(n)
    BY <1>1 DEF worker, BeingCreated
  <2>4. LifeStep
    BY <1>1, <2>1, <2>2, <2>3, VanishStep DEF VPCEndpoints
  <2>5. AttachedInv'
    BY <1>1, <2>2 DEF AttachedInv, Attached, Present, worker, VPCEndpoints, Managing,
                      BeingCreated, Creating
  <2> QED
    BY <2>4, <2>5 DEF Ongoing
<1> QED
  BY <1>2, <1>3

LEMMA NextOngoing ==
    ASSUME SafeInv, AttachedInv, [Next]_vars
    PROVE  Ongoing
<1>1. ASSUME NEW w \in Workers, EndpointStep(w) PROVE Ongoing
  BY <1>1, ObserveOngoing, AddFinalizerOngoing, MarkPendingOngoing, CreateOngoing,
     AnnotateOngoing, DeleteOngoing, RemoveFinalizerOngoing DEF EndpointStep
<1>2. CASE UNCHANGED <<resource, worker, cloud>>
  BY <1>2, RestOngoing, SameBars DEF Ongoing, LifeStep, KeepsLives, resource
<1>3. ASSUME NEW m \in Resources, UNCHANGED cloud,
             CollectUsage(m) \/ UsageCached(m) \/ UserApply(m) \/ UserDelete(m)
      PROVE  Ongoing
  BY <1>2, <1>3, ApplyOngoing, DeletionOngoing DEF CollectUsage, UsageCached
<1>4. CASE (ControllerStep \/ ConfigCached \/ UserSetCredentials \/ UserDeleteConfig) /\ UNCHANGED cloud
  BY <1>2, <1>4 DEF ControllerStep, ConfigList, ConfigAct, ConfigCached, UserSetCredentials,
                    UserDeleteConfig
<1>5. CASE UNCHANGED vars
  BY <1>2, <1>5 DEF vars
<1> QED
  BY <1>1, <1>3, <1>4, <1>5, ConnectOngoing, CloudOngoing DEF Next, Reconcile

LEMMA InitOngoing == Init => AttachedInv /\ Lifecycle!Init
<1> SUFFICES ASSUME Init PROVE AttachedInv /\ Lifecycle!Init
  OBVIOUS
<1>1. AttachedInv
  BY DEF Init, AttachedInv, Attached, Managing, Creating
<1>2. \A m \in VPCEndpoints : mr[m].life = "unborn"
  BY DEF Init, Unborn, VPCEndpoints
<1>3. phaseBar = [m \in VPCEndpoints |-> "unborn"]
  BY <1>2 DEF phaseBar, Present
<1>4. hasBar = [m \in VPCEndpoints |-> {}] /\ usedBar = {}
  BY DEF Init, hasBar, usedBar, Up
<1> QED
  BY <1>1, <1>3, <1>4 DEF Lifecycle!Init

(* Every behaviour of the workers, the users and EC2 is a life cycle of    *)
(* the VPCEndpoints, for all workers, resources, ids, failed calls,        *)
(* restarts and deletions in the console, as long as Describe answers and  *)
(* no answer to Create is lost.                                            *)
THEOREM EndpointLifecycleImplemented ==
    ASSUME Faults = {}
    PROVE  Spec => ImplementsEndpointLifecycle
<1>1. SafeInv /\ [Next]_vars => SafeInv'
  BY SafeNext
<1>2. SafeInv /\ AttachedInv /\ [Next]_vars
         => AttachedInv' /\ [Lifecycle!Next]_<<phaseBar, hasBar, usedBar>>
  BY NextOngoing DEF Ongoing, LifeStep
<1> QED
  BY <1>1, <1>2, SafeInit, InitOngoing, PTL
  DEF Spec, ImplementsEndpointLifecycle, Lifecycle!Spec

=============================================================================
