-------------------------- MODULE EndpointLifecycle --------------------------
(***************************************************************************)
(* What the VPC endpoint controller promises about the VPCEndpoints of a   *)
(* cluster, with workers, calls, copies and EC2's progress left out: an    *)
(* endpoint is made for a resource in the one creation that is under way   *)
(* for it, and when it has no other; one that is lost never returns; and a *)
(* resource goes when it has none, and never under a creation.             *)
(***************************************************************************)
CONSTANTS
    Resources,
    Ids               \* the ids of endpoints

VARIABLES
    phase,            \* phase[m]: "unborn", "settled", "creating", "gone"
    has,              \* has[m]: the endpoints that m has
    used              \* the endpoints that were ever made

Init ==
    /\ phase = [m \in Resources |-> "unborn"]
    /\ has = [m \in Resources |-> {}] /\ used = {}

Becomes(m, next) ==
    /\ phase' = [phase EXCEPT ![m] = next]
    /\ UNCHANGED <<has, used>>

Appear(m) == phase[m] = "unborn"   /\ Becomes(m, "settled")
Begin(m)  == phase[m] = "settled"  /\ Becomes(m, "creating")
End(m)    == phase[m] = "creating" /\ Becomes(m, "settled")
Vanish(m) == phase[m] = "settled"  /\ has[m] = {} /\ Becomes(m, "gone")

Make(m) ==
    /\ phase[m] = "creating" /\ has[m] = {}
    /\ \E i \in Ids \ used :
          has' = [has EXCEPT ![m] = {i}] /\ used' = used \cup {i}
    /\ UNCHANGED phase

Lose(m) ==
    /\ has[m] # {}
    /\ has' = [has EXCEPT ![m] = {}]
    /\ UNCHANGED <<phase, used>>

(* A step moves a phase, or changes what a resource has.                   *)
Next == \E m \in Resources :
            \/ phase'[m] # phase[m] /\ (Appear(m) \/ Begin(m) \/ End(m) \/ Vanish(m))
            \/ has'[m] # has[m] /\ (Make(m) \/ Lose(m))

Spec == Init /\ [][Next]_<<phase, has, used>>

=============================================================================
