------------------------- MODULE MCAgentReconciler -------------------------
(* Instances of AgentReconciler.  The controller sends a VRF with a route    *)
(* and an ACL; then two VRFs with other routes; a VRF whose last route is    *)
(* gone, without an entry for it in the map; and an entry for a VRF that is  *)
(* not desired, whose routes can never be added.                             *)
EXTENDS AgentReconciler

MCOne ==
    [vrfs   |-> {[name |-> "n1", vni |-> 1]},
     keys   |-> {"n1"},
     routes |-> {[vrf |-> "n1", prefix |-> "x", hop |-> "h1"]},
     acls   |-> {[vrf |-> "n1", peering |-> "p1", rules |-> "deny"]}]

MCTwo ==
    [vrfs   |-> {[name |-> "n1", vni |-> 1], [name |-> "n2", vni |-> 2]},
     keys   |-> {"n1", "n2"},
     routes |-> {[vrf |-> "n1", prefix |-> "y", hop |-> "h1"],
                 [vrf |-> "n2", prefix |-> "x", hop |-> "h1"]},
     acls   |-> {}]

MCNoEntry ==
    [vrfs |-> {[name |-> "n1", vni |-> 1]}, keys |-> {}, routes |-> {}, acls |-> {}]

MCOrphanEntry ==
    [vrfs   |-> {[name |-> "n1", vni |-> 1]},
     keys   |-> {"n1", "n2"},
     routes |-> {[vrf |-> "n1", prefix |-> "x", hop |-> "h1"],
                 [vrf |-> "n2", prefix |-> "x", hop |-> "h1"]},
     acls   |-> {}]

MCDesiredStates == {MCOne, MCTwo, MCNoEntry, MCOrphanEntry}
=============================================================================
