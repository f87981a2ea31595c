------------------------- MODULE MCPeeringLifecycle -------------------------
(* Instances of PeeringLifecycle.  v1 and v3 belong to one account, v2 to   *)
(* another: {v1, v3} is auto-accepted, the other pairs need consent, and    *)
(* v2 and v3 have overlapping CIDR blocks.                                  *)
EXTENDS PeeringLifecycle, TLC

CONSTANTS v1, v2, v3, a1, a2

MCTwoOwner == (v1 :> a1) @@ (v2 :> a2)
MCSameOwner == (v1 :> a1) @@ (v3 :> a1)
MCOwner == (v1 :> a1) @@ (v2 :> a2) @@ (v3 :> a1)
MCOverlaps == {{v2, v3}}
MCNoOverlaps == {}

(* Requests are interchangeable handler goroutines, peering identifiers are *)
(* fresh UUIDs: renaming either changes nothing.                            *)
MCRequestSymmetry == Permutations(Requests)
MCPeeringSymmetry == Permutations(Peerings)
MCSymmetry == MCRequestSymmetry \cup MCPeeringSymmetry
=============================================================================
