--------------------------- MODULE MCOrganization ---------------------------
(***************************************************************************)
(* Instances of Organization for TLC.                                      *)
(***************************************************************************)
EXTENDS Organization, TLC

Symmetry == Permutations(Replicas)

\* Secret names: the default, one named after each id, one in Kubernetes.
MCNames == {"aws", "aws-o1", "aws-o2", "k8s"}
MCNameOfId == [o \in OrgIds |-> IF o = "o1" THEN "aws-o1" ELSE "aws-o2"]

Plain == [storage |-> "AWS", final |-> "aws", legacy |-> TRUE, named |-> "(unset)",
          k8s |-> "k8s", enabled |-> FALSE, ips |-> {}, cleanup |-> FALSE,
          required |-> FALSE, roles |-> {"owner"}]

InK8s   == [Plain EXCEPT !.storage = "Kubernetes"]
Legacy  == [Plain EXCEPT !.storage = "nil", !.enabled = TRUE, !.ips = {"egress"},
                         !.cleanup = TRUE]
Bare    == [Legacy EXCEPT !.legacy = FALSE]
NoAWS   == [Plain EXCEPT !.named = None]
Listed  == [Plain EXCEPT !.enabled = TRUE, !.ips = {"egress"}]
Wider   == [Listed EXCEPT !.ips = {"egress", "other"}, !.roles = {"owner", "reader"}]
Guarded == [Listed EXCEPT !.required = TRUE]
Tidy    == [Guarded EXCEPT !.cleanup = TRUE]
Walled  == [Wider EXCEPT !.storage = "Kubernetes", !.required = TRUE]

OnePlain    == {Plain}
OneTidy     == {Tidy}
ThreeKept   == {Plain, Legacy, Bare}
TwoStores   == {Plain, InK8s}
AllStores   == {Plain, Legacy, NoAWS, Walled}
AllLists    == {Listed, Wider, Guarded}

=============================================================================
