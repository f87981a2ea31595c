------------------------------ MODULE VNIPool -------------------------------
(***************************************************************************)
(* What VPC handlers and VNI allocator promise together: every VNI is free,*)
(* or has exactly one owner, or was abandoned by a failed request.  A VNI  *)
(* is taken only while it is free and goes from owner to owner one at a    *)
(* time.  Owners are VPCs and the requests that create or delete them.     *)
(* The pool is in memory: losing it is the end of the promise.             *)
(***************************************************************************)
CONSTANTS
    VNIs,
    Owners,
    Abandoned,  \* marks a VNI that is never given out again
    Lost        \* what is left of the pool once its owners are forgotten

VARIABLE owners     \* owners[v]: the set of those who use v

Free(s) == s = {}

Owned(s) == \E o \in Owners : s = {o}

Init == owners = [v \in VNIs |-> {}]

(* VNIAllocator.Allocate. *)
Take(v) == Free(owners[v]) /\ Owned(owners'[v])

(* The VPC is stored, or a request has deleted it and is about to release. *)
Pass(v) == Owned(owners[v]) /\ Owned(owners'[v])

(* A request fails and keeps its VNI from everybody else. *)
Abandon(v) == Owned(owners[v]) /\ owners'[v] = {Abandoned}

(* VNIAllocator.Release. *)
Return(v) == Owned(owners[v]) /\ Free(owners'[v])

(* The process that keeps the pool is restarted. *)
Lose == owners' = Lost

Next ==
    \/ \E v \in VNIs :
          /\ owners # Lost /\ owners' # Lost
          /\ owners'[v] # owners[v]
          /\ owners' = [owners EXCEPT ![v] = owners'[v]]
          /\ Take(v) \/ Pass(v) \/ Abandon(v) \/ Return(v)
    \/ Lose

Spec == Init /\ [][Next]_owners
=============================================================================
