---------------------------- MODULE OrgLifecycle ----------------------------
(***************************************************************************)
(* What the organization controller promises about one Organization        *)
(* resource, with replicas, calls, caches and failures left out: a         *)
(* creation is begun and ended, an organization is made only while one is  *)
(* under way and no other is alive, a deleted organization never returns,  *)
(* and the resource does not vanish under a creation.                      *)
(***************************************************************************)
CONSTANT Ids          \* the ids of the organizations made for the resource

VARIABLES
    phase,            \* of the resource: "settled", "creating", "gone"
    made              \* made[o]: "free", "live" or "gone"

Alive == {o \in Ids : made[o] = "live"}

Init == phase = "settled" /\ made = [o \in Ids |-> "free"]

Begin  == phase = "settled"  /\ phase' = "creating" /\ UNCHANGED made
End    == phase = "creating" /\ phase' = "settled"  /\ UNCHANGED made
Vanish == phase = "settled"  /\ phase' = "gone"     /\ UNCHANGED made

Make(o) ==
    /\ phase = "creating" /\ Alive = {}
    /\ made[o] = "free"
    /\ made' = [made EXCEPT ![o] = "live"]
    /\ UNCHANGED phase

Destroy(o) ==
    /\ made[o] = "live"
    /\ made' = [made EXCEPT ![o] = "gone"]
    /\ UNCHANGED phase

Next == Begin \/ End \/ Vanish \/ \E o \in Ids : Make(o) \/ Destroy(o)

Spec == Init /\ [][Next]_<<phase, made>>

=============================================================================
