------------------------------ MODULE Prefixes ------------------------------
(***************************************************************************)
(* CIDR prefixes, their validation (internal/model/cidr.go) and the        *)
(* evaluation of route policies (internal/model/policy.go).                *)
(*                                                                         *)
(* An address is a string of Width bits, most significant bit first.  The  *)
(* code computes with the first bits of addresses only; Addresses is the   *)
(* meaning of a prefix, a set of addresses, which the code never builds    *)
(* and against which the code is checked.                                  *)
(***************************************************************************)
EXTENDS Naturals, Sequences, FiniteSets

CONSTANTS
    Width,          \* bits of an address: 32
    MinBits,        \* the shortest and
    MaxBits,        \* the longest prefix a VPC may have: 16 and 28
    MaxBlocks,      \* blocks per VPC: 5
    PrivateRanges   \* rfc1918Ranges

Addr == [1..Width -> {0, 1}]
Prefix == [addr : Addr, bits : 0..Width]

ASSUME WidthAssumption == Width \in Nat
ASSUME BitsAssumption == MinBits \in 0..Width /\ MaxBits \in 0..Width
ASSUME MaxBlocksAssumption == MaxBlocks \in Nat
(* 10/8, 172.16/12 and 192.168/16 are no longer than /16. *)
ASSUME PrivateAssumption ==
    /\ PrivateRanges \subseteq Prefix
    /\ \A range \in PrivateRanges : range.bits <= MinBits

(* netip.Prefix. *)
Contains(p, a) == \A i \in 1..p.bits : a[i] = p.addr[i]

Masked(p) ==
    [addr |-> [i \in 1..Width |-> IF i <= p.bits THEN p.addr[i] ELSE 0], bits |-> p.bits]

(* What a prefix, and a list of prefixes, means. *)
Addresses(p) == {a \in Addr : Contains(p, a)}
AddressesOf(blocks) == {a \in Addr : \E i \in DOMAIN blocks : Contains(blocks[i], a)}

(* Overlaps compares as many bits as the shorter prefix has. *)
prefixesOverlap(p, q) ==
    \A i \in 1..Width : i <= p.bits /\ i <= q.bits => p.addr[i] = q.addr[i]

(* Fault: only the first blocks are compared. *)
CIDRsOverlapFirst(xs, ys) == prefixesOverlap(xs[1], ys[1])

CIDRsOverlap(xs, ys) ==
    \E i \in DOMAIN xs, j \in DOMAIN ys : prefixesOverlap(xs[i], ys[j])

prefixContains(outer, inner) ==
    outer = inner \/ (outer.bits <= inner.bits /\ Contains(outer, inner.addr))

isRFC1918(p) == \E range \in PrivateRanges : Contains(range, p.addr)

(* ValidateCIDR accepts p; what it then returns is Masked(p). *)
ValidateCIDR(p) ==
    /\ p.bits >= MinBits
    /\ p.bits <= MaxBits
    /\ isRFC1918(Masked(p))

Normalized(blocks) == [i \in DOMAIN blocks |-> Masked(blocks[i])]

(* ValidateCIDRBlocks accepts blocks; it returns Normalized(blocks). *)
ValidateCIDRBlocks(blocks) ==
    /\ Len(blocks) >= 1 /\ Len(blocks) <= MaxBlocks
    /\ \A i \in DOMAIN blocks : ValidateCIDR(blocks[i])
    /\ \A i, j \in DOMAIN blocks :
          i < j => ~prefixesOverlap(Normalized(blocks)[i], Normalized(blocks)[j])

(* The policy's lists are only searched: they are sets here. *)
RoutePolicy == [denied : SUBSET Prefix, allowed : SUBSET Prefix, maxPrefixes : Nat]

EvaluatePrefix(policy, prefix, currentCount) ==
    IF \E d \in policy.denied : prefixContains(d, prefix) THEN "deny"
    ELSE IF policy.allowed # {} /\ ~\E a \in policy.allowed : prefixContains(a, prefix)
         THEN "filtered"
    ELSE IF policy.maxPrefixes > 0 /\ currentCount >= policy.maxPrefixes THEN "filtered"
    ELSE "accept"
=============================================================================
