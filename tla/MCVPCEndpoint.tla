--------------------------- MODULE MCVPCEndpoint ---------------------------
(***************************************************************************)
(* Instances of VPCEndpoint for TLC.                                       *)
(***************************************************************************)
EXTENDS VPCEndpoint, TLC

Symmetry == Permutations(Workers) \cup Permutations(Ids)

=============================================================================
