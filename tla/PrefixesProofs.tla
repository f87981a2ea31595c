--------------------------- MODULE PrefixesProofs ---------------------------
(* What the prefix operations of internal/model mean, for addresses of any *)
(* width: each comparison of leading bits is a relation of address sets.   *)
EXTENDS Prefixes, SequenceTheorems, TLAPS

(* A prefix contains its own address and has the addresses of its *)
(* canonical form.                                                *)
LEMMA OwnAddress ==
    ASSUME NEW p \in Prefix
    PROVE  p.addr \in Addresses(p)
  BY DEF Addresses, Contains, Prefix

(* Masking clears the host bits and leaves the others alone. *)
LEMMA MaskedType ==
    ASSUME NEW p \in Prefix
    PROVE  /\ Masked(p) \in Prefix
           /\ Masked(p).bits = p.bits
           /\ \A i \in 1..p.bits : Masked(p).addr[i] = p.addr[i]
<1>1. p.bits \in 0..Width /\ p.addr \in Addr
  BY DEF Prefix
<1>2. \A i \in 1..Width : p.addr[i] \in {0, 1}
  BY <1>1 DEF Addr
<1>3. [i \in 1..Width |-> IF i <= p.bits THEN p.addr[i] ELSE 0] \in Addr
  BY <1>2 DEF Addr
<1>4. 1..p.bits \subseteq 1..Width
  BY <1>1, WidthAssumption
<1> QED
  BY <1>1, <1>3, <1>4 DEF Masked, Prefix

(* Masking twice is masking once: what ValidateCIDR returns is canonical. *)
LEMMA MaskedIdempotent ==
    ASSUME NEW p \in Prefix
    PROVE  Masked(Masked(p)) = Masked(p)
<1>1. p.bits \in 0..Width
  BY DEF Prefix
<1>2. \A i \in 1..Width : i <= p.bits => i \in 1..p.bits
  BY <1>1, WidthAssumption
<1> QED
  BY <1>1, <1>2, MaskedType DEF Masked

(* A masked prefix has the same addresses. *)
LEMMA MaskedAddresses ==
    ASSUME NEW p \in Prefix
    PROVE  Addresses(Masked(p)) = Addresses(p)
  BY MaskedType DEF Addresses, Contains

(* prefixesOverlap, which compares as many bits as the shorter prefix has, *)
(* is true exactly if the prefixes share an address.                       *)
THEOREM OverlapMeansSharedAddress ==
    ASSUME NEW p \in Prefix, NEW q \in Prefix
    PROVE  prefixesOverlap(p, q) <=> Addresses(p) \cap Addresses(q) # {}
<1>1. p.bits \in 0..Width /\ q.bits \in 0..Width /\ p.addr \in Addr /\ q.addr \in Addr
  BY DEF Prefix
<1>2. 1..p.bits \subseteq 1..Width /\ 1..q.bits \subseteq 1..Width
  BY <1>1, WidthAssumption
<1>3. ASSUME prefixesOverlap(p, q)
      PROVE  Addresses(p) \cap Addresses(q) # {}
  <2>1. CASE p.bits <= q.bits
    <3>1. Contains(p, q.addr)
      BY <1>1, <1>2, <1>3, <2>1, WidthAssumption DEF prefixesOverlap, Contains
    <3> QED
      BY <1>1, <3>1, OwnAddress DEF Addresses
  <2>2. CASE q.bits <= p.bits
    <3>1. Contains(q, p.addr)
      BY <1>1, <1>2, <1>3, <2>2, WidthAssumption DEF prefixesOverlap, Contains
    <3> QED
      BY <1>1, <3>1, OwnAddress DEF Addresses
  <2> QED
    BY <1>1, <2>1, <2>2, WidthAssumption
<1>4. ASSUME Addresses(p) \cap Addresses(q) # {}
      PROVE  prefixesOverlap(p, q)
  <2>1. PICK a \in Addr : Contains(p, a) /\ Contains(q, a)
    BY <1>4 DEF Addresses
  <2> QED
    BY <1>1, <2>1, WidthAssumption DEF prefixesOverlap, Contains
<1> QED
  BY <1>3, <1>4

(* CIDRsOverlap of two lists of prefixes is true exactly if some address is *)
(* covered by both.                                                         *)
THEOREM CIDRsOverlapMeansSharedAddress ==
    ASSUME NEW xs \in Seq(Prefix), NEW ys \in Seq(Prefix)
    PROVE  CIDRsOverlap(xs, ys) <=> AddressesOf(xs) \cap AddressesOf(ys) # {}
<1>1. \A i \in DOMAIN xs : xs[i] \in Prefix
  BY LenProperties, ElementOfSeq
<1>2. \A j \in DOMAIN ys : ys[j] \in Prefix
  BY LenProperties, ElementOfSeq
<1>3. CIDRsOverlap(xs, ys) <=>
          \E i \in DOMAIN xs, j \in DOMAIN ys : Addresses(xs[i]) \cap Addresses(ys[j]) # {}
  BY <1>1, <1>2, OverlapMeansSharedAddress DEF CIDRsOverlap
<1> QED
  BY <1>3 DEF AddressesOf, Addresses

(* prefixContains, which policy evaluation is built on, is inclusion: no *)
(* covered prefix escapes a denied one, and none is hit by mistake.      *)
THEOREM ContainsMeansSubset ==
    ASSUME NEW outer \in Prefix, NEW inner \in Prefix
    PROVE  prefixContains(outer, inner) <=> Addresses(inner) \subseteq Addresses(outer)
<1>1. /\ outer.bits \in 0..Width /\ inner.bits \in 0..Width
      /\ outer.addr \in Addr /\ inner.addr \in Addr
  BY DEF Prefix
<1>2. ASSUME outer.bits <= inner.bits, Contains(outer, inner.addr)
      PROVE  Addresses(inner) \subseteq Addresses(outer)
  <2>1. 1..outer.bits \subseteq 1..inner.bits
    BY <1>1, <1>2, WidthAssumption
  <2> QED
    BY <1>2, <2>1 DEF Addresses, Contains
<1>3. ASSUME Addresses(inner) \subseteq Addresses(outer)
      PROVE  prefixContains(outer, inner)
  <2>1. Contains(outer, inner.addr)
    BY <1>3, OwnAddress DEF Addresses
  <2>2. ASSUME outer.bits > inner.bits
        PROVE  FALSE
    <3> DEFINE k == outer.bits
               a == [inner.addr EXCEPT ![k] = 1 - outer.addr[k]]
    <3>1. k \in 1..Width /\ k \notin 1..inner.bits
      BY <1>1, <2>2, WidthAssumption
    <3>2. outer.addr[k] \in {0, 1}
      BY <1>1, <3>1 DEF Addr
    <3>3. 1 - outer.addr[k] \in {0, 1} /\ 1 - outer.addr[k] # outer.addr[k]
      BY <3>2
    <3>4. a \in Addr /\ a[k] # outer.addr[k]
      BY <1>1, <3>1, <3>3 DEF Addr
    <3>5. Contains(inner, a)
      BY <1>1, <3>1, WidthAssumption DEF Contains, Addr
    <3>6. a \in Addresses(outer)
      BY <1>3, <3>4, <3>5 DEF Addresses
    <3>7. k \in 1..outer.bits
      BY <1>1, <3>1, WidthAssumption
    <3> QED
      BY <3>4, <3>6, <3>7 DEF Addresses, Contains
  <2> QED
    BY <1>1, <2>1, <2>2, WidthAssumption DEF prefixContains
<1> QED
  BY <1>2, <1>3 DEF prefixContains

(* A block that ValidateCIDR accepts lies in a private range as a whole, *)
(* although only its first address is looked up.                         *)
THEOREM ValidMeansPrivate ==
    ASSUME NEW p \in Prefix, ValidateCIDR(p)
    PROVE  \E range \in PrivateRanges : Addresses(Masked(p)) \subseteq Addresses(range)
<1>1. PICK range \in PrivateRanges : Contains(range, Masked(p).addr)
  BY DEF ValidateCIDR, isRFC1918
<1>2. range \in Prefix /\ Masked(p) \in Prefix /\ range.bits <= MinBits
  BY PrivateAssumption, MaskedType
<1>3. range.bits <= Masked(p).bits
  BY <1>2, MaskedType, BitsAssumption, WidthAssumption DEF ValidateCIDR, Prefix
<1>4. prefixContains(range, Masked(p))
  BY <1>1, <1>3 DEF prefixContains
<1> QED
  BY <1>2, <1>4, ContainsMeansSubset
=============================================================================
