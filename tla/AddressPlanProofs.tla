------------------------- MODULE AddressPlanProofs -------------------------
(* Proofs of the address plan, for any number of VPCs, requests and blocks *)
(* and any page size.                                                      *)
EXTENDS AddressPlan, PrefixesProofs

(* Blocks as ValidateCIDRBlocks returns them. *)
GoodBlocks(blocks) ==
    /\ blocks \in Seq(Prefix)
    /\ AddressesOf(blocks) \subseteq PrivateAddresses
    /\ \A i, j \in DOMAIN blocks : i # j => Addresses(blocks[i]) \cap Addresses(blocks[j]) = {}
    /\ \A i \in DOMAIN blocks : Masked(blocks[i]) = blocks[i]

BlocksInv ==
    /\ \A x \in VPCIds : Exists(x) => GoodBlocks(vpcs[x].blocks)
    /\ \A r \in Requests : reqs[r] # NoRequest => GoodBlocks(reqs[r].blocks)

(* A UUID belongs to one row or to one request about to insert. *)
IdsInv ==
    /\ clock # 0
    /\ \A x \in VPCIds : Exists(x) => createdAt[x] # 0
    /\ \A r \in Requests : At(r, "insert") =>
          /\ reqs[r].id \in VPCIds
          /\ ~Exists(reqs[r].id)
          /\ createdAt[reqs[r].id] # 0
    /\ \A r, s \in Requests :
          At(r, "insert") /\ At(s, "insert") /\ r # s => reqs[r].id # reqs[s].id

(* The VPCs in S were there when blocks was checked: each of them is apart *)
(* from blocks, or the check did not see it.                               *)
Checked(S, blocks) ==
    \A y \in S :
        /\ y \in VPCIds
        /\ Exists(y)
        /\ createdAt[y] # 0
        /\ AddressesOf(vpcs[y].blocks) \cap AddressesOf(blocks) # {}
               => Backend = "postgres" /\ y \notin Page(S)

CheckedInv ==
    /\ \A x \in VPCIds : Exists(x) => Checked(present[x], vpcs[x].blocks)
    /\ \A r \in Requests :
          At(r, "stamp") \/ At(r, "insert") => Checked(reqs[r].present, reqs[r].blocks)

PeeredInv ==
    \A x, y \in VPCIds :
        {x, y} \in peered => Exists(x) /\ Exists(y) /\ (x # y => ~ShareAddress(x, y))

IInv == TypeOK /\ BlocksInv /\ IdsInv /\ CheckedInv /\ PeeredInv

-----------------------------------------------------------------------------
(* What ValidateCIDRBlocks accepts and Normalized returns is well formed. *)
LEMMA ValidatedIsGood ==
    ASSUME NEW input \in Seq(Prefix), ValidateCIDRBlocks(input)
    PROVE  GoodBlocks(Normalized(input))
<1> DEFINE out == Normalized(input)
<1>1. DOMAIN input = 1..Len(input) /\ Len(input) \in Nat
  BY LenProperties
<1>2. \A i \in DOMAIN input : input[i] \in Prefix
  BY <1>1, ElementOfSeq
<1>3. DOMAIN out = DOMAIN input /\ \A i \in DOMAIN input : out[i] = Masked(input[i])
  BY DEF Normalized
<1>4. \A i \in DOMAIN input : out[i] \in Prefix
  BY <1>2, <1>3, MaskedType
<1>5. out \in Seq(Prefix)
  <2>1. out \in [1..Len(input) -> Prefix]
    BY <1>1, <1>4 DEF Normalized
  <2> QED
    BY <1>1, <2>1, SeqDef
<1>6. AddressesOf(out) \subseteq PrivateAddresses
  <2> SUFFICES ASSUME NEW a \in Addr, NEW i \in DOMAIN input, Contains(out[i], a)
               PROVE  \E range \in PrivateRanges : Contains(range, a)
    BY <1>3 DEF AddressesOf, PrivateAddresses
  <2>1. ValidateCIDR(input[i])
    BY DEF ValidateCIDRBlocks
  <2>2. PICK range \in PrivateRanges : Addresses(Masked(input[i])) \subseteq Addresses(range)
    BY <1>2, <2>1, ValidMeansPrivate
  <2> QED
    BY <1>3, <2>2 DEF Addresses
<1>7. \A i, j \in DOMAIN out : i # j => Addresses(out[i]) \cap Addresses(out[j]) = {}
  <2> SUFFICES ASSUME NEW i \in DOMAIN input, NEW j \in DOMAIN input, i # j
               PROVE  Addresses(out[i]) \cap Addresses(out[j]) = {}
    BY <1>3
  <2>1. i < j \/ j < i
    BY <1>1
  <2>2. ~prefixesOverlap(out[i], out[j]) \/ ~prefixesOverlap(out[j], out[i])
    BY <2>1 DEF ValidateCIDRBlocks
  <2> QED
    BY <1>4, <2>2, OverlapMeansSharedAddress
<1>8. \A i \in DOMAIN out : Masked(out[i]) = out[i]
  BY <1>2, <1>3, MaskedIdempotent
<1> HIDE DEF out
<1>9. GoodBlocks(out)
  BY <1>5, <1>6, <1>7, <1>8 DEF GoodBlocks
<1> QED
  BY <1>9 DEF out

(* The invariant holds initially. *)
LEMMA Initial == Init => IInv
<1> SUFFICES ASSUME Init PROVE IInv
  OBVIOUS
<1> USE DEF Init
<1>1. TypeOK
  BY DEF TypeOK
<1>2. BlocksInv
  BY DEF BlocksInv, Exists
<1>3. IdsInv
  BY DEF IdsInv, Exists, At
<1>4. CheckedInv
  BY DEF CheckedInv, Exists, At
<1>5. PeeredInv
  BY DEF PeeredInv
<1> QED
  BY <1>1, <1>2, <1>3, <1>4, <1>5 DEF IInv

(* What no step takes back: a row exists with its blocks, and a UUID that  *)
(* was drawn has its time.                                                 *)
Stable ==
    /\ \A x \in VPCIds : Exists(x) => Exists(x)' /\ vpcs'[x].blocks = vpcs[x].blocks
    /\ \A x \in VPCIds : createdAt[x] # 0 => createdAt'[x] = createdAt[x]

(* A check of two VPCs' blocks stays true while the blocks stay. *)
LEMMA CheckedStable ==
    ASSUME Stable, NEW S, NEW blocks, Checked(S, blocks)
    PROVE  Checked(S, blocks)'
<1>1. \A y \in S : y \in VPCIds /\ createdAt'[y] = createdAt[y]
  BY DEF Checked, Stable
<1>2. \A y \in S : Newer(S, y)' = Newer(S, y)
  BY <1>1 DEF Newer
<1>3. Page(S)' = Page(S)
  BY <1>2 DEF Page
<1> QED
  BY <1>1, <1>3 DEF Checked, Stable

-----------------------------------------------------------------------------
(* Every step keeps the types. *)
LEMMA StepType ==
    ASSUME IInv, Next
    PROVE  TypeOK'
<1> USE DEF TypeOK
<1>0. TypeOK
  BY DEF IInv
<1>1. ASSUME NEW r \in Requests, NEW a \in Accounts, NEW input \in Inputs,
             CreateValidate(r, a, input)
      PROVE  TypeOK'
  <2>1. Normalized(input) \in Seq(Prefix)
    BY <1>1, InputsAssumption, ValidatedIsGood DEF CreateValidate, GoodBlocks
  <2>2. [step |-> "check", account |-> a, blocks |-> Normalized(input),
         id |-> NoId, present |-> {}] \in Request
    BY <2>1 DEF Request
  <2> QED
    BY <1>0, <1>1, <2>2 DEF CreateValidate
<1>2. ASSUME NEW r \in Requests, CreateCheck(r)
      PROVE  TypeOK'
  <2>1. reqs[r] \in Request
    BY <1>0, <1>2 DEF CreateCheck, At
  <2>2. AccountVPCs(reqs[r].account) \subseteq VPCIds
    BY DEF AccountVPCs
  <2>3. [reqs[r] EXCEPT !.step = "stamp", !.present = AccountVPCs(reqs[r].account)] \in Request
    BY <2>1, <2>2 DEF Request
  <2> QED
    BY <1>0, <1>2, <2>3 DEF CreateCheck
<1>3. ASSUME NEW r \in Requests, CreateInsert(r)
      PROVE  TypeOK'
  <2>1. reqs[r] \in Request
    BY <1>0, <1>3 DEF CreateInsert, At
  <2>2. [account |-> reqs[r].account, blocks |-> reqs[r].blocks, live |-> TRUE] \in Row
    BY <2>1 DEF Request, Row
  <2>3. reqs[r].present \in SUBSET VPCIds
    BY <2>1 DEF Request
  <2> QED
    BY <1>0, <1>3, <2>2, <2>3 DEF CreateInsert
<1>4. ASSUME NEW r \in Requests, CreateFail(r)
      PROVE  TypeOK'
  BY <1>0, <1>4 DEF CreateFail
<1>5. ASSUME NEW r \in Requests, NEW x \in VPCIds, CreateStamp(r, x)
      PROVE  TypeOK'
  <2>1. reqs[r] \in Request
    BY <1>0, <1>5 DEF CreateStamp, At
  <2>2. [reqs[r] EXCEPT !.step = "insert", !.id = x] \in Request
    BY <2>1 DEF Request
  <2> QED
    BY <1>0, <1>5, <2>2 DEF CreateStamp
<1>6. ASSUME NEW x \in VPCIds, Delete(x)
      PROVE  TypeOK'
  <2>1. vpcs[x] \in Row
    BY <1>0, <1>6 DEF Delete, Live, Exists
  <2>2. [vpcs[x] EXCEPT !.live = FALSE] \in Row
    BY <2>1 DEF Row
  <2> QED
    BY <1>0, <1>6, <2>2 DEF Delete
<1>7. ASSUME NEW x \in VPCIds, NEW y \in VPCIds, CreatePeering(x, y)
      PROVE  TypeOK'
  BY <1>0, <1>7 DEF CreatePeering
<1> QED
  BY <1>1, <1>2, <1>3, <1>4, <1>5, <1>6, <1>7 DEF Next

(* No step changes the blocks of a VPC, or the time of an identifier. *)
LEMMA StepStable ==
    ASSUME IInv, Next
    PROVE  Stable
<1>0. TypeOK /\ IdsInv
  BY DEF IInv
<1>1. ASSUME NEW r \in Requests, CreateInsert(r)
      PROVE  Stable
  <2>1. /\ reqs[r].id \in VPCIds /\ ~Exists(reqs[r].id)
        /\ vpcs' = [vpcs EXCEPT ![reqs[r].id] = [account |-> reqs[r].account,
                                                blocks |-> reqs[r].blocks, live |-> TRUE]]
        /\ createdAt' = createdAt
    BY <1>0, <1>1 DEF CreateInsert, IdsInv
  <2> QED
    BY <1>0, <2>1 DEF Stable, Exists, TypeOK
<1>2. ASSUME NEW x \in VPCIds, Delete(x)
      PROVE  Stable
  <2>1. /\ vpcs[x] \in Row
        /\ vpcs' = [vpcs EXCEPT ![x] = [vpcs[x] EXCEPT !.live = FALSE]]
        /\ createdAt' = createdAt
    BY <1>0, <1>2 DEF Delete, Live, Exists, TypeOK
  <2>2. /\ [vpcs[x] EXCEPT !.live = FALSE] \in Row
        /\ [vpcs[x] EXCEPT !.live = FALSE].blocks = vpcs[x].blocks
    BY <2>1 DEF Row
  <2> QED
    BY <1>0, <2>1, <2>2, NoRowAssumption DEF Stable, Exists, TypeOK
<1>3. ASSUME NEW r \in Requests, NEW x \in VPCIds, CreateStamp(r, x)
      PROVE  Stable
  BY <1>0, <1>3 DEF CreateStamp, Stable, Exists, TypeOK
<1>4. ASSUME UNCHANGED <<vpcs, createdAt>>
      PROVE  Stable
  BY <1>4 DEF Stable, Exists
<1> QED
  BY <1>1, <1>2, <1>3, <1>4
     DEF Next, CreateValidate, CreateCheck, CreateFail, CreatePeering

(* A row that appears is the one a request had ready. *)
LEMMA NewRows ==
    ASSUME IInv, Next, NEW x \in VPCIds, Exists(x)', ~Exists(x)
    PROVE  \E r \in Requests :
              /\ At(r, "insert") /\ reqs[r].id = x
              /\ vpcs'[x].blocks = reqs[r].blocks
              /\ present'[x] = reqs[r].present
<1>0. TypeOK
  BY DEF IInv
<1>1. ASSUME NEW y \in VPCIds, Delete(y)
      PROVE  FALSE
  BY <1>0, <1>1 DEF Delete, Live, Exists, TypeOK
<1>2. vpcs' # vpcs
  BY DEF Exists
<1>3. PICK r \in Requests : CreateInsert(r)
  BY <1>1, <1>2 DEF Next, CreateValidate, CreateCheck, CreateFail, CreateStamp, CreatePeering
<1>4. x = reqs[r].id
  BY <1>0, <1>3 DEF CreateInsert, Exists, TypeOK
<1> QED
  BY <1>0, <1>3, <1>4 DEF CreateInsert, TypeOK

(* A request keeps its blocks, and after its check what it was checked *)
(* against, until it ends.                                             *)
LEMMA RequestsKeep ==
    ASSUME IInv, Next, NEW r \in Requests, reqs'[r] # NoRequest
    PROVE  \/ \E a \in Accounts, input \in Inputs :
                 /\ ValidateCIDRBlocks(input)
                 /\ reqs'[r] = [step |-> "check", account |-> a,
                               blocks |-> Normalized(input), id |-> NoId, present |-> {}]
           \/ CreateCheck(r)
           \/ /\ At(r, "stamp") /\ At(r, "insert")'
              /\ reqs'[r].blocks = reqs[r].blocks /\ reqs'[r].present = reqs[r].present
           \/ reqs'[r] = reqs[r]
<1>0. TypeOK
  BY DEF IInv
<1>1. ASSUME NEW s \in Requests, NEW a \in Accounts, NEW input \in Inputs,
             CreateValidate(s, a, input)
      PROVE  \/ /\ ValidateCIDRBlocks(input)
                /\ reqs'[r] = [step |-> "check", account |-> a,
                              blocks |-> Normalized(input), id |-> NoId, present |-> {}]
             \/ reqs'[r] = reqs[r]
  BY <1>0, <1>1 DEF CreateValidate, TypeOK
<1>2. ASSUME NEW s \in Requests, CreateCheck(s)
      PROVE  r = s \/ reqs'[r] = reqs[r]
  BY <1>0, <1>2 DEF CreateCheck, TypeOK
<1>3. ASSUME NEW s \in Requests, CreateInsert(s) \/ CreateFail(s)
      PROVE  reqs'[r] = reqs[r]
  BY <1>0, <1>3 DEF CreateInsert, CreateFail, TypeOK
<1>4. ASSUME NEW s \in Requests, NEW x \in VPCIds, CreateStamp(s, x)
      PROVE  \/ /\ At(r, "stamp") /\ At(r, "insert")'
                /\ reqs'[r].blocks = reqs[r].blocks /\ reqs'[r].present = reqs[r].present
             \/ reqs'[r] = reqs[r]
  <2>1. reqs[s] \in Request /\ reqs[s].step = "stamp"
    BY <1>0, <1>4 DEF CreateStamp, At, TypeOK
  <2>2. reqs' = [reqs EXCEPT ![s] = [reqs[s] EXCEPT !.step = "insert", !.id = x]]
    BY <1>0, <1>4, <2>1 DEF CreateStamp, TypeOK
  <2>3. CASE s = r
    <3>1. reqs'[r] = [reqs[r] EXCEPT !.step = "insert", !.id = x]
      BY <1>0, <2>2, <2>3 DEF TypeOK
    <3>2. /\ reqs'[r].step = "insert" /\ reqs'[r].blocks = reqs[r].blocks
          /\ reqs'[r].present = reqs[r].present
      BY <2>1, <2>3, <3>1 DEF Request
    <3> QED
      BY <1>4, <2>3, <3>2 DEF At, CreateStamp
  <2>4. CASE s # r
    BY <1>0, <2>2, <2>4 DEF TypeOK
  <2> QED
    BY <2>3, <2>4
<1>5. ASSUME reqs' = reqs
      PROVE  reqs'[r] = reqs[r]
  BY <1>5
<1> QED
  BY <1>1, <1>2, <1>3, <1>4, <1>5 DEF Next, Delete, CreatePeering

(* Every step keeps all blocks, stored or about to be, well formed. *)
LEMMA StepBlocks ==
    ASSUME IInv, Next
    PROVE  BlocksInv'
<1>0. TypeOK /\ BlocksInv
  BY DEF IInv
<1>1. ASSUME NEW x \in VPCIds, Exists(x)'
      PROVE  GoodBlocks(vpcs'[x].blocks)
  <2>1. CASE Exists(x)
    BY <1>0, <2>1, StepStable DEF Stable, BlocksInv
  <2>2. CASE ~Exists(x)
    <3>1. PICK r \in Requests : At(r, "insert") /\ vpcs'[x].blocks = reqs[r].blocks
      BY <1>1, <2>2, NewRows
    <3> QED
      BY <1>0, <3>1 DEF BlocksInv, At
  <2> QED
    BY <2>1, <2>2
<1>2. ASSUME NEW r \in Requests, reqs'[r] # NoRequest
      PROVE  GoodBlocks(reqs'[r].blocks)
  <2>1. ASSUME NEW a \in Accounts, NEW input \in Inputs, ValidateCIDRBlocks(input),
               reqs'[r] = [step |-> "check", account |-> a, blocks |-> Normalized(input),
                           id |-> NoId, present |-> {}]
        PROVE  GoodBlocks(reqs'[r].blocks)
    BY <2>1, InputsAssumption, ValidatedIsGood
  <2>2. CASE CreateCheck(r)
    <3>1. reqs[r] \in Request /\ reqs[r] # NoRequest
      BY <1>0, <2>2 DEF CreateCheck, At, TypeOK
    <3>2. reqs'[r] = [reqs[r] EXCEPT !.step = "stamp",
                                     !.present = AccountVPCs(reqs[r].account)]
      BY <1>0, <2>2 DEF CreateCheck, TypeOK
    <3>3. reqs'[r].blocks = reqs[r].blocks
      BY <3>1, <3>2 DEF Request
    <3> QED
      BY <1>0, <3>1, <3>3 DEF BlocksInv
  <2>3. CASE At(r, "stamp") /\ reqs'[r].blocks = reqs[r].blocks
    BY <1>0, <2>3 DEF BlocksInv, At
  <2>4. CASE reqs'[r] = reqs[r]
    BY <1>0, <1>2, <2>4 DEF BlocksInv
  <2> QED
    BY <1>2, <2>1, <2>2, <2>3, <2>4, RequestsKeep
<1> QED
  BY <1>1, <1>2 DEF BlocksInv, GoodBlocks

(* Every step keeps the identifiers accounted for. *)
LEMMA StepIds ==
    ASSUME IInv, Next
    PROVE  IdsInv'
<1>0. TypeOK /\ IdsInv
  BY DEF IInv
<1>1. ASSUME NEW r \in Requests, CreateInsert(r)
      PROVE  IdsInv'
  <2>1. /\ reqs[r].id \in VPCIds /\ createdAt[reqs[r].id] # 0 /\ At(r, "insert")
        /\ createdAt' = createdAt /\ clock' = clock
        /\ reqs' = [reqs EXCEPT ![r] = NoRequest]
    BY <1>0, <1>1 DEF CreateInsert, IdsInv
  <2>2. \A x \in VPCIds : Exists(x)' => Exists(x) \/ x = reqs[r].id
    BY <1>0, <1>1 DEF CreateInsert, Exists, TypeOK
  <2>3. \A s \in Requests : At(s, "insert")' => s # r /\ At(s, "insert") /\ reqs'[s] = reqs[s]
    BY <1>0, <2>1 DEF At, TypeOK
  <2> QED
    BY <1>0, <2>1, <2>2, <2>3 DEF IdsInv
<1>2. ASSUME NEW r \in Requests, NEW x \in VPCIds, CreateStamp(r, x)
      PROVE  IdsInv'
  <2>1. /\ createdAt[x] = 0 /\ ~Exists(x)
        /\ createdAt' = [createdAt EXCEPT ![x] = clock]
        /\ clock' = clock + 1 /\ clock \in Nat /\ clock # 0
        /\ vpcs' = vpcs
    BY <1>0, <1>2 DEF CreateStamp, IdsInv, TypeOK
  <2>2. reqs[r] \in Request /\ reqs' = [reqs EXCEPT ![r] = [reqs[r] EXCEPT !.step = "insert", !.id = x]]
    BY <1>0, <1>2 DEF CreateStamp, At, TypeOK
  <2>3. reqs'[r].id = x
    BY <1>0, <2>2 DEF TypeOK, Request
  <2>4. \A s \in Requests : s # r => reqs'[s] = reqs[s]
    BY <1>0, <2>2 DEF TypeOK
  <2>5. \A y \in VPCIds : createdAt[y] # 0 => createdAt'[y] # 0 /\ y # x
    BY <1>0, <2>1 DEF TypeOK
  <2>6. createdAt'[x] # 0 /\ clock' # 0
    BY <1>0, <2>1 DEF TypeOK
  <2>7. \A y \in VPCIds : Exists(y)' <=> Exists(y)
    BY <2>1 DEF Exists
  <2>8. \A s \in Requests : s # r => (At(s, "insert")' <=> At(s, "insert"))
    BY <2>4 DEF At
  <2> QED
    BY <1>0, <2>1, <2>3, <2>4, <2>5, <2>6, <2>7, <2>8 DEF IdsInv
<1>3. ASSUME NEW x \in VPCIds, Delete(x)
      PROVE  IdsInv'
  <2>1. \A y \in VPCIds : Exists(y)' => Exists(y)
    BY <1>0, <1>3 DEF Delete, Live, Exists, TypeOK
  <2>2. reqs' = reqs /\ createdAt' = createdAt /\ clock' = clock
    BY <1>3 DEF Delete
  <2>3. \A s \in Requests : At(s, "insert")' <=> At(s, "insert")
    BY <2>2 DEF At
  <2> QED
    BY <1>0, <2>1, <2>2, <2>3 DEF IdsInv
<1>4. ASSUME UNCHANGED <<vpcs, createdAt, clock>>,
             \A s \in Requests : At(s, "insert")' => At(s, "insert") /\ reqs'[s] = reqs[s]
      PROVE  IdsInv'
  BY <1>0, <1>4 DEF IdsInv, Exists
<1>5. ASSUME NEW r \in Requests, NEW a \in Accounts, NEW input \in Inputs,
             CreateValidate(r, a, input)
      PROVE  IdsInv'
  BY <1>0, <1>4, <1>5 DEF CreateValidate, At, TypeOK
<1>6. ASSUME NEW r \in Requests, CreateCheck(r)
      PROVE  IdsInv'
  <2>1. reqs[r] \in Request /\ reqs' = [reqs EXCEPT ![r] = [reqs[r] EXCEPT
            !.step = "stamp", !.present = AccountVPCs(reqs[r].account)]]
    BY <1>0, <1>6 DEF CreateCheck, At, TypeOK
  <2>2. reqs'[r].step = "stamp"
    BY <1>0, <2>1 DEF TypeOK, Request
  <2>3. \A s \in Requests : s # r => reqs'[s] = reqs[s]
    BY <1>0, <2>1 DEF TypeOK
  <2> QED
    BY <1>4, <1>6, <2>2, <2>3 DEF CreateCheck, At
<1>7. ASSUME NEW r \in Requests, CreateFail(r)
      PROVE  IdsInv'
  BY <1>0, <1>4, <1>7 DEF CreateFail, At, TypeOK
<1>8. ASSUME NEW x \in VPCIds, NEW y \in VPCIds, CreatePeering(x, y)
      PROVE  IdsInv'
  BY <1>4, <1>8 DEF CreatePeering, At
<1> QED
  BY <1>1, <1>2, <1>3, <1>5, <1>6, <1>7, <1>8 DEF Next

(* The check itself: what is there and shares an address is beyond the page. *)
LEMMA CheckChecks ==
    ASSUME IInv, NEW r \in Requests, CreateCheck(r)
    PROVE  Checked(AccountVPCs(reqs[r].account), reqs[r].blocks)
<1>0. TypeOK /\ BlocksInv /\ IdsInv
  BY DEF IInv
<1> DEFINE S == AccountVPCs(reqs[r].account)
<1> SUFFICES ASSUME NEW y \in S
             PROVE  /\ y \in VPCIds /\ Exists(y) /\ createdAt[y] # 0
                    /\ AddressesOf(vpcs[y].blocks) \cap AddressesOf(reqs[r].blocks) # {}
                           => Backend = "postgres" /\ y \notin Page(S)
  BY DEF Checked
<1>1. y \in VPCIds /\ Exists(y) /\ createdAt[y] # 0
  BY <1>0 DEF AccountVPCs, Live, IdsInv
<1>2. vpcs[y].blocks \in Seq(Prefix) /\ reqs[r].blocks \in Seq(Prefix)
  BY <1>0, <1>1 DEF BlocksInv, GoodBlocks, CreateCheck, At
<1>3. ASSUME AddressesOf(vpcs[y].blocks) \cap AddressesOf(reqs[r].blocks) # {}
      PROVE  Backend = "postgres" /\ y \notin Page(S)
  <2>1. CIDRsOverlap(vpcs[y].blocks, reqs[r].blocks)
    BY <1>2, <1>3, CIDRsOverlapMeansSharedAddress
  <2>2. y \notin Searched(reqs[r].account)
    BY <2>1 DEF CreateCheck, FindOverlappingCIDR
  <2> QED
    BY <2>2 DEF Searched
<1> QED
  BY <1>1, <1>3

(* Every step keeps what the requests in flight have checked true. *)
LEMMA StepChecked ==
    ASSUME IInv, Next
    PROVE  CheckedInv'
<1>0. TypeOK /\ CheckedInv /\ IdsInv /\ Stable
  BY StepStable DEF IInv
<1>1. ASSUME NEW x \in VPCIds, Exists(x)'
      PROVE  Checked(present[x], vpcs[x].blocks)'
  <2>1. CASE Exists(x)
    <3>1. PICK S, b : S = present[x] /\ b = vpcs[x].blocks
      OBVIOUS
    <3>2. Checked(S, b)'
      BY <1>0, <2>1, <3>1, CheckedStable DEF CheckedInv
    <3>3. present'[x] = present[x]
      <4>1. ASSUME NEW r \in Requests, CreateInsert(r)
            PROVE  present'[x] = present[x]
        BY <1>0, <2>1, <4>1 DEF CreateInsert, IdsInv, TypeOK
      <4> QED
        BY <4>1 DEF Next, CreateValidate, CreateCheck, CreateFail, CreateStamp, Delete,
                    CreatePeering
    <3>4. present'[x] = S /\ vpcs'[x].blocks = b
      BY <1>0, <2>1, <3>1, <3>3 DEF Stable
    <3> QED
      BY <3>2, <3>4
  <2>2. CASE ~Exists(x)
    <3>1. PICK r \in Requests : /\ At(r, "insert")
                                /\ vpcs'[x].blocks = reqs[r].blocks
                                /\ present'[x] = reqs[r].present
      BY <1>1, <2>2, NewRows
    <3>2. PICK S, b : S = reqs[r].present /\ b = reqs[r].blocks
      OBVIOUS
    <3>3. Checked(S, b)'
      BY <1>0, <3>1, <3>2, CheckedStable DEF CheckedInv
    <3> QED
      BY <3>1, <3>2, <3>3
  <2> QED
    BY <2>1, <2>2
<1>2. ASSUME NEW r \in Requests, At(r, "stamp")' \/ At(r, "insert")'
      PROVE  Checked(reqs[r].present, reqs[r].blocks)'
  <2>0. reqs'[r] # NoRequest /\ reqs'[r].step # "check"
    BY <1>2 DEF At
  <2>1. CASE CreateCheck(r)
    <3>1. PICK S, b : S = AccountVPCs(reqs[r].account) /\ b = reqs[r].blocks
      OBVIOUS
    <3>2. Checked(S, b)'
      BY <1>0, <2>1, <3>1, CheckChecks, CheckedStable
    <3>3. reqs[r] \in Request /\ reqs'[r] = [reqs[r] EXCEPT !.step = "stamp", !.present = S]
      BY <1>0, <2>1, <3>1 DEF CreateCheck, At, TypeOK
    <3>4. reqs'[r].present = S /\ reqs'[r].blocks = b
      BY <3>1, <3>3 DEF Request
    <3> QED
      BY <3>2, <3>4
  <2>2. CASE /\ At(r, "stamp") \/ At(r, "insert")
             /\ reqs'[r].blocks = reqs[r].blocks /\ reqs'[r].present = reqs[r].present
    <3>1. PICK S, b : S = reqs[r].present /\ b = reqs[r].blocks
      OBVIOUS
    <3>2. Checked(S, b)'
      BY <1>0, <2>2, <3>1, CheckedStable DEF CheckedInv
    <3> QED
      BY <2>2, <3>1, <3>2
  <2>3. CASE reqs'[r] = reqs[r]
    <3>1. At(r, "stamp") \/ At(r, "insert")
      BY <1>2, <2>3 DEF At
    <3> QED
      BY <2>2, <2>3, <3>1
  <2>4. ASSUME NEW a, NEW input,
               reqs'[r] = [step |-> "check", account |-> a, blocks |-> Normalized(input),
                           id |-> NoId, present |-> {}]
        PROVE  FALSE
    BY <2>0, <2>4
  <2>5. CASE At(r, "stamp") /\ At(r, "insert")' /\ reqs'[r].blocks = reqs[r].blocks
                 /\ reqs'[r].present = reqs[r].present
    BY <2>2, <2>5
  <2> QED
    BY <2>0, <2>1, <2>3, <2>4, <2>5, RequestsKeep
<1> QED
  BY <1>1, <1>2 DEF CheckedInv

(* Every step keeps the stored peerings checked. *)
LEMMA StepPeered ==
    ASSUME IInv, Next
    PROVE  PeeredInv'
<1>0. TypeOK /\ PeeredInv /\ BlocksInv /\ Stable
  BY StepStable DEF IInv
<1>1. ASSUME NEW x \in VPCIds, NEW y \in VPCIds, {x, y} \in peered
      PROVE  Exists(x)' /\ Exists(y)' /\ (x # y => ~ShareAddress(x, y)')
  BY <1>0, <1>1 DEF PeeredInv, Stable, ShareAddress
<1>2. ASSUME NEW u \in VPCIds, NEW v \in VPCIds, CreatePeering(u, v),
             NEW x \in VPCIds, NEW y \in VPCIds, {x, y} = {u, v}
      PROVE  Exists(x)' /\ Exists(y)' /\ (x # y => ~ShareAddress(x, y)')
  <2>1. Exists(u) /\ Exists(v) /\ ~CIDRsOverlap(vpcs[u].blocks, vpcs[v].blocks)
    BY <1>2 DEF CreatePeering, Live
  <2>2. vpcs[u].blocks \in Seq(Prefix) /\ vpcs[v].blocks \in Seq(Prefix)
    BY <1>0, <2>1 DEF BlocksInv, GoodBlocks
  <2>3. AddressesOf(vpcs[u].blocks) \cap AddressesOf(vpcs[v].blocks) = {}
    BY <2>1, <2>2, CIDRsOverlapMeansSharedAddress
  <2>4. (x = u /\ y = v) \/ (x = v /\ y = u) \/ x = y
    BY <1>2
  <2>5. x # y => ~ShareAddress(x, y)
    BY <2>3, <2>4 DEF ShareAddress
  <2>6. Exists(x) /\ Exists(y)
    <3>1. x \in {u, v} /\ y \in {u, v}
      BY <1>2
    <3> QED
      BY <2>1, <3>1
  <2> QED
    BY <1>0, <2>5, <2>6 DEF Stable, ShareAddress
<1>3. ASSUME NEW x \in VPCIds, NEW y \in VPCIds, {x, y} \in peered', {x, y} \notin peered
      PROVE  Exists(x)' /\ Exists(y)' /\ (x # y => ~ShareAddress(x, y)')
  <2>1. PICK u \in VPCIds, v \in VPCIds : CreatePeering(u, v)
    BY <1>3 DEF Next, CreateValidate, CreateCheck, CreateFail, CreateStamp, CreateInsert, Delete
  <2>2. {x, y} = {u, v}
    BY <1>3, <2>1 DEF CreatePeering
  <2> QED
    BY <1>2, <2>1, <2>2
<1> QED
  BY <1>1, <1>3 DEF PeeredInv

(* The inductive invariant: requests and rows have good blocks, and each   *)
(* was checked against what was there, whatever has happened since.        *)
THEOREM Inductive == Spec => []IInv
<1>1. IInv /\ [Next]_vars => IInv'
  <2> SUFFICES ASSUME IInv, [Next]_vars PROVE IInv'
    OBVIOUS
  <2>1. CASE Next
    BY <2>1, StepType, StepBlocks, StepIds, StepChecked, StepPeered DEF IInv
  <2>2. CASE UNCHANGED vars
    <3> USE <2>2 DEF vars
    <3>1. TypeOK' /\ IdsInv' /\ BlocksInv'
      BY DEF IInv, TypeOK, BlocksInv, IdsInv, Exists, At
    <3>2. CheckedInv'
      <4>1. Stable
        BY DEF Stable, Exists
      <4>2. ASSUME NEW S, NEW b, Checked(S, b)
            PROVE  Checked(S, b)'
        BY <4>1, <4>2, CheckedStable
      <4>3. ASSUME NEW x \in VPCIds, Exists(x)'
            PROVE  Checked(present[x], vpcs[x].blocks)'
        <5>1. PICK S, b : S = present[x] /\ b = vpcs[x].blocks
          OBVIOUS
        <5>2. Checked(S, b)'
          BY <4>2, <4>3, <5>1 DEF IInv, CheckedInv, Exists
        <5> QED
          BY <5>1, <5>2
      <4>4. ASSUME NEW r \in Requests, At(r, "stamp")' \/ At(r, "insert")'
            PROVE  Checked(reqs[r].present, reqs[r].blocks)'
        <5>1. PICK S, b : S = reqs[r].present /\ b = reqs[r].blocks
          OBVIOUS
        <5>2. Checked(S, b)'
          BY <4>2, <4>4, <5>1 DEF IInv, CheckedInv, At
        <5> QED
          BY <5>1, <5>2
      <4> QED
        BY <4>3, <4>4 DEF CheckedInv
    <3>3. PeeredInv'
      BY DEF IInv, PeeredInv, Exists, ShareAddress
    <3> QED
      BY <3>1, <3>2, <3>3 DEF IInv
  <2> QED
    BY <2>1, <2>2
<1> QED
  BY Initial, <1>1, PTL DEF Spec

(* The state of Create handlers and of the VPC store has its type. *)
THEOREM TypeCorrect == Spec => []TypeOK
<1>1. IInv => TypeOK
  BY DEF IInv
<1> QED
  BY <1>1, Inductive, PTL

(* The blocks of every VPC are canonical, private and disjoint, for any     *)
(* input to Create.                                                         *)
THEOREM BlocksWellFormedHolds == Spec => []BlocksWellFormed
<1>1. IInv => BlocksWellFormed
  BY DEF IInv, BlocksInv, GoodBlocks, BlocksWellFormed
<1> QED
  BY <1>1, Inductive, PTL

(* FindOverlappingCIDR fails to keep VPCs of one account apart only for   *)
(* Creates that run at the same time and beyond the PostgreSQL page.      *)
THEOREM PlanDisjointHolds == Spec => []PlanDisjoint
<1>1. ASSUME IInv PROVE PlanDisjoint
  <2> SUFFICES ASSUME NEW x \in VPCIds, NEW y \in VPCIds, Clash(x, y), ~Raced(x, y)
               PROVE  Crowded(x, y) \/ Crowded(y, x)
    BY DEF PlanDisjoint
  <2>1. Checked(present[x], vpcs[x].blocks) /\ Checked(present[y], vpcs[y].blocks)
    BY <1>1 DEF IInv, CheckedInv, Clash, Live
  <2>2. y \in present[x] \/ x \in present[y]
    BY DEF Raced
  <2> QED
    BY <2>1, <2>2 DEF Checked, Crowded, Clash, ShareAddress
<1> QED
  BY <1>1, Inductive, PTL

(* The two VPCs of a peering share no address. *)
THEOREM PeeredDisjointHolds == Spec => []PeeredDisjoint
<1>1. IInv => PeeredDisjoint
  BY DEF IInv, PeeredInv, PeeredDisjoint
<1> QED
  BY <1>1, Inductive, PTL
=============================================================================
