------------------------------ MODULE MCFabric ------------------------------
(* Two peerings with the same accepter, one of them in both directions. *)
EXTENDS Fabric, TLC

CONSTANTS v1, v2, v3, p1, p2

MCVPCs == {v1, v2, v3}
MCPeerings == {p1, p2}
MCRequester == (p1 :> v1) @@ (p2 :> v3)
MCAccepter == (p1 :> v2) @@ (p2 :> v2)
MCExporting == {p1}
=============================================================================
