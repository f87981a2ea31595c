---------------------------- MODULE MCRouteTable ----------------------------
(* Addresses of three bits.  Under the restrictive policy the accepter's    *)
(* first block is filtered as not allowed, its second one is denied, its    *)
(* third one accepted, and the requester's block is one too many.           *)
EXTENDS RouteTable, TLC

P(b1, b2, b3, bits) == [addr |-> <<b1, b2, b3>>, bits |-> bits]

MCAccepterBlocks == [p \in Peerings |-> <<P(1, 0, 0, 2), P(1, 1, 0, 2), P(0, 0, 0, 2)>>]
MCRequesterBlocks == [p \in Peerings |-> <<P(0, 1, 0, 2)>>]
MCOverridePrefixes == {P(0, 0, 0, 2)}

MCZeroPolicy == [denied |-> {}, allowed |-> {}, maxPrefixes |-> 0]
MCRestrictive ==
    [denied |-> {P(1, 1, 1, 2)}, allowed |-> {P(0, 1, 1, 1)}, maxPrefixes |-> 1]
MCPolicies == {MCZeroPolicy, MCRestrictive}

MCBodies == [{"direction"} -> Directions] \cup [{"policy"} -> Policies]

MCSymmetry == Permutations(Requests)
=============================================================================
