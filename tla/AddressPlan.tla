---------------------------- MODULE AddressPlan ----------------------------
(***************************************************************************)
(* The address plan of an account: which CIDR blocks its VPCs have.        *)
(*                                                                         *)
(* A Create validates its blocks, asks the store for an overlapping VPC,   *)
(* and inserts its VPC a few calls later.  The PostgreSQL store answers    *)
(* from the newest PageSize VPCs of the account.  VPCLifecycle models the  *)
(* names and VNIs of the same handlers; here a Create may fail for such    *)
(* reasons at any time after the check.                                    *)
(***************************************************************************)
EXTENDS Prefixes

CONSTANTS
    VPCIds,     \* UUIDs available for VPCs (bounds their number)
    Accounts,
    Requests,   \* Create handlers that may run at the same time
    Inputs,     \* sequences of prefixes that clients send
    PageSize,   \* the largest page of PostgresVPCStore.List: 1000
    Backend,    \* which store implementation is in use
    NoRow, NoId, NoRequest

ASSUME InputsAssumption == Inputs \subseteq Seq(Prefix)
ASSUME PageSizeAssumption == PageSize \in Nat
ASSUME BackendAssumption == Backend \in {"memory", "postgres"}

Row == [account : Accounts, blocks : Seq(Prefix), live : BOOLEAN]

ASSUME NoRowAssumption == NoRow \notin Row
ASSUME NoIdAssumption == NoId \notin VPCIds

VARIABLES
    vpcs,       \* the VPC store
    createdAt,  \* when the Create that drew this UUID made its row; 0 if none has
    clock,      \* a time later than all of these
    peered,     \* the sets of two VPCs for which a peering was created
    reqs,       \* Create handlers past their validation
    present     \* history: the account's live VPCs when this VPC was checked

vars == <<vpcs, createdAt, clock, peered, reqs, present>>

Request == [step : {"check", "stamp", "insert"}, account : Accounts, blocks : Seq(Prefix),
            id : VPCIds \cup {NoId}, present : SUBSET VPCIds]

ASSUME NoRequestAssumption == NoRequest \notin Request

-----------------------------------------------------------------------------
(* The VPC store. *)

Exists(x) == vpcs[x] # NoRow
Live(x) == Exists(x) /\ vpcs[x].live
AccountVPCs(a) == {x \in VPCIds : Live(x) /\ vpcs[x].account = a}

Newer(S, x) == {y \in S : createdAt[y] > createdAt[x]}

(* List with its largest page: newest first, cut off after PageSize rows. *)
Page(S) == {x \in S : Cardinality(Newer(S, x)) < PageSize}

Searched(a) == IF Backend = "postgres" THEN Page(AccountVPCs(a)) ELSE AccountVPCs(a)

FindOverlappingCIDR(a, blocks) ==
    {x \in Searched(a) : CIDRsOverlap(vpcs[x].blocks, blocks)}

-----------------------------------------------------------------------------
(* VPCHandler.Create. *)

At(r, step) == reqs[r] # NoRequest /\ reqs[r].step = step

(* Fault: the blocks are validated in canonical form and used as sent. *)
CreateValidateKeepsInput(r, a, input) ==
    /\ reqs[r] = NoRequest
    /\ ValidateCIDRBlocks(input)
    /\ reqs' = [reqs EXCEPT ![r] = [step |-> "check", account |-> a, blocks |-> input,
                                    id |-> NoId, present |-> {}]]
    /\ UNCHANGED <<vpcs, createdAt, clock, peered, present>>

CreateValidate(r, a, input) ==
    /\ reqs[r] = NoRequest
    /\ ValidateCIDRBlocks(input)
    /\ reqs' = [reqs EXCEPT ![r] = [step |-> "check", account |-> a,
                                    blocks |-> Normalized(input),
                                    id |-> NoId, present |-> {}]]
    /\ UNCHANGED <<vpcs, createdAt, clock, peered, present>>

CreateCheck(r) ==
    /\ At(r, "check")
    /\ FindOverlappingCIDR(reqs[r].account, reqs[r].blocks) = {}
    /\ reqs' = [reqs EXCEPT ![r].step = "stamp",
                            ![r].present = AccountVPCs(reqs[r].account)]
    /\ UNCHANGED <<vpcs, createdAt, clock, peered, present>>

(* uuid.New and time.Now: the UUID is fresh, and later is later. *)
CreateStamp(r, x) ==
    /\ At(r, "stamp")
    /\ createdAt[x] = 0
    /\ reqs' = [reqs EXCEPT ![r].step = "insert", ![r].id = x]
    /\ createdAt' = [createdAt EXCEPT ![x] = clock]
    /\ clock' = clock + 1
    /\ UNCHANGED <<vpcs, peered, present>>

(* Fault: the VPC is stored without its AccountID, under the zero UUID. *)
CreateInsertUnowned(r) ==
    /\ At(r, "insert")
    /\ vpcs' = [vpcs EXCEPT ![reqs[r].id] = [account |-> NoId,
                                             blocks |-> reqs[r].blocks, live |-> TRUE]]
    /\ present' = [present EXCEPT ![reqs[r].id] = reqs[r].present]
    /\ reqs' = [reqs EXCEPT ![r] = NoRequest]
    /\ UNCHANGED <<createdAt, clock, peered>>

CreateInsert(r) ==
    /\ At(r, "insert")
    /\ vpcs' = [vpcs EXCEPT ![reqs[r].id] = [account |-> reqs[r].account,
                                             blocks |-> reqs[r].blocks, live |-> TRUE]]
    /\ present' = [present EXCEPT ![reqs[r].id] = reqs[r].present]
    /\ reqs' = [reqs EXCEPT ![r] = NoRequest]
    /\ UNCHANGED <<createdAt, clock, peered>>

(* The check finds an overlap or the name is taken, VNIs have run out, or  *)
(* the insert is refused.                                                  *)
CreateFail(r) ==
    /\ reqs[r] # NoRequest
    /\ reqs' = [reqs EXCEPT ![r] = NoRequest]
    /\ UNCHANGED <<vpcs, createdAt, clock, peered, present>>

Delete(x) ==
    /\ Live(x)
    /\ vpcs' = [vpcs EXCEPT ![x].live = FALSE]
    /\ UNCHANGED <<createdAt, clock, peered, reqs, present>>

(* Fault: only VPCs of one account are compared. *)
CreatePeeringOneAccount(x, y) ==
    /\ x # y
    /\ Live(x) /\ Live(y)
    /\ vpcs[x].account = vpcs[y].account => ~CIDRsOverlap(vpcs[x].blocks, vpcs[y].blocks)
    /\ {x, y} \notin peered
    /\ peered' = peered \cup {{x, y}}
    /\ UNCHANGED <<vpcs, createdAt, clock, reqs, present>>

(* PeeringHandler.Create, of whose checks only the one on blocks matters    *)
(* here.  The blocks of a VPC never change, so that reading both VPCs and   *)
(* inserting the peering are one step.                                      *)
CreatePeering(x, y) ==
    /\ x # y
    /\ Live(x) /\ Live(y)
    /\ ~CIDRsOverlap(vpcs[x].blocks, vpcs[y].blocks)
    /\ {x, y} \notin peered
    /\ peered' = peered \cup {{x, y}}
    /\ UNCHANGED <<vpcs, createdAt, clock, reqs, present>>

Init ==
    /\ vpcs = [x \in VPCIds |-> NoRow]
    /\ createdAt = [x \in VPCIds |-> 0]
    /\ clock = 1
    /\ peered = {}
    /\ reqs = [r \in Requests |-> NoRequest]
    /\ present = [x \in VPCIds |-> {}]

Next ==
    \/ \E r \in Requests, a \in Accounts, input \in Inputs : CreateValidate(r, a, input)
    \/ \E r \in Requests : CreateCheck(r) \/ CreateInsert(r) \/ CreateFail(r)
    \/ \E r \in Requests, x \in VPCIds : CreateStamp(r, x)
    \/ \E x \in VPCIds : Delete(x)
    \/ \E x, y \in VPCIds : CreatePeering(x, y)

Spec == Init /\ [][Next]_vars

-----------------------------------------------------------------------------
(* Properties. *)

(* Every variable has its type. *)
TypeOK ==
    /\ vpcs \in [VPCIds -> Row \cup {NoRow}]
    /\ createdAt \in [VPCIds -> Nat]
    /\ clock \in Nat
    /\ peered \subseteq SUBSET VPCIds
    /\ reqs \in [Requests -> Request \cup {NoRequest}]
    /\ present \in [VPCIds -> SUBSET VPCIds]

PrivateAddresses == {a \in Addr : \E range \in PrivateRanges : Contains(range, a)}

(* What a VPC stores is what it was validated for, whatever host bits the   *)
(* client sent: every address of every block is private, not only the       *)
(* first, no address is in two blocks, and blocks are in canonical form.    *)
BlocksWellFormed ==
    \A x \in VPCIds : Exists(x) =>
        /\ AddressesOf(vpcs[x].blocks) \subseteq PrivateAddresses
        /\ \A i, j \in DOMAIN vpcs[x].blocks :
              i # j => Addresses(vpcs[x].blocks[i]) \cap Addresses(vpcs[x].blocks[j]) = {}
        /\ \A i \in DOMAIN vpcs[x].blocks : Masked(vpcs[x].blocks[i]) = vpcs[x].blocks[i]

ShareAddress(x, y) == AddressesOf(vpcs[x].blocks) \cap AddressesOf(vpcs[y].blocks) # {}

(* Two VPCs of one account that must not be. *)
Clash(x, y) ==
    /\ x # y
    /\ Live(x) /\ Live(y)
    /\ vpcs[x].account = vpcs[y].account
    /\ ShareAddress(x, y)

(* Neither VPC was stored when the other was checked. *)
Raced(x, y) == x \notin present[y] /\ y \notin present[x]

(* When x was checked, y was there but beyond the page of newest VPCs. *)
Crowded(x, y) == Backend = "postgres" /\ y \in present[x] \ Page(present[x])

(* Two VPCs of one account share an address only if their Creates ran at   *)
(* the same time, or on PostgreSQL if the account had grown beyond the     *)
(* page of 1000 VPCs when the second was checked.  Nothing else, such as   *)
(* the order of the blocks, of the Creates or of their timestamps,         *)
(* deletions in between or host bits in the input, defeats the check.      *)
PlanDisjoint ==
    \A x, y \in VPCIds :
        Clash(x, y) => Raced(x, y) \/ Crowded(x, y) \/ Crowded(y, x)

(* The two VPCs of a peering share no address, whosever they are and       *)
(* however they got their blocks, so that neither imports a route for an   *)
(* address of its own.  Of two peers of one VPC nothing is said: Create    *)
(* compares requester and accepter only, and a VPC may import routes for   *)
(* the same address from both of its peers.                                *)
PeeredDisjoint == \A x, y \in VPCIds : x # y /\ {x, y} \in peered => ~ShareAddress(x, y)
=============================================================================
