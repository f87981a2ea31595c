--------------------------- MODULE MCRateLimiter ----------------------------
(* Three accounts for two entries of the map, two requests at a time. *)
EXTENDS RateLimiter, TLC

CONSTANTS a1, a2, a3, r1, r2, b1, b2, b3, b4

MCAccounts == {a1, a2, a3}
MCRequests == {r1, r2}
MCBuckets == {b1, b2, b3, b4}

MCBurst == [c \in {"read", "mutate"} |-> IF c = "read" THEN 2 ELSE 1]
MCPerTick == [c \in {"read", "mutate"} |-> 1]

Symmetry ==
    Permutations(MCAccounts) \cup Permutations(MCRequests) \cup Permutations(MCBuckets)
=============================================================================
