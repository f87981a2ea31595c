--------------------------- MODULE MCVPCLifecycle ---------------------------
(* Instances of VPCLifecycle.  Two shards of two sequence numbers make      *)
(* four VNIs per region; MinVNI = 1 reserves the first of region 0 and      *)
(* MaxVNI cuts off the last of region 1, as 16,000,000 does in region 15.   *)
EXTENDS VPCLifecycle, TLC

CONSTANTS a1, b1, b2

MCOneShard == (a1 :> 0)
MCOverlaps == {{b1}, {b2}}

(* VPC identifiers, handler goroutines, names and blocks that only overlap *)
(* themselves are interchangeable.                                         *)
MCSymmetry ==
    Permutations(VPCIds) \cup Permutations(Requests)
      \cup Permutations(Names) \cup Permutations(Blocks)
=============================================================================
