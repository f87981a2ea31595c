---------------------------- MODULE VPCLifecycle ----------------------------
(***************************************************************************)
(* The life of VPCs and of the VNIs they own: the API's VPC handlers, the  *)
(* VPC store and the VNI allocator.  The allocator is a map in the memory  *)
(* of the API process; the store may outlive that process.  Handlers run   *)
(* concurrently and every store or allocator call is one atomic step.      *)
(***************************************************************************)
EXTENDS Naturals, FiniteSets

CONSTANTS
    VPCIds,           \* the UUIDs available for VPCs (bounds their number)
    Accounts,
    Shard,            \* Shard[a]: accountShard, a hash of the account's UUID
    Regions,          \* the region numbers registered with the allocator
    Names,            \* VPC names that clients ask for
    Blocks,           \* sets of CIDR blocks that clients ask for
    Overlaps,         \* the sets {b, c} of overlapping, or equal, elements of Blocks
    RegionCount, ShardCount, SeqCount,
                      \* 1 << regionBits, 1 << tenantBits, 1 << vpcBits
    MinVNI, MaxVNI,   \* the usable VNIs are MinVNI .. MaxVNI - 1
    Requests,         \* API handler goroutines that may run at the same time
    Backend,          \* which store implementation is in use
    NoVPC, NoId

Row == [account : Accounts,
        region  : Regions,
        name    : Names,
        block   : Blocks,
        vni     : Nat,
        state   : {"active", "deleted"}]

ASSUME LayoutAssumption ==
    /\ RegionCount \in Nat \ {0} /\ ShardCount \in Nat \ {0} /\ SeqCount \in Nat \ {0}
    /\ MinVNI \in Nat /\ MaxVNI \in Nat
ASSUME ShardAssumption == Shard \in [Accounts -> 0 .. ShardCount - 1]
ASSUME RegionsAssumption == Regions \subseteq 0 .. RegionCount - 1
ASSUME BackendAssumption == Backend \in {"memory", "postgres"}
ASSUME NoVPCAssumption == NoVPC \notin Row
ASSUME NoIdAssumption == NoId \notin VPCIds

VARIABLES
    vpcs,       \* the VPC store; a deleted VPC stays as a tombstone
    allocated,  \* the allocator: VNIs in use, as far as it knows
    reqs,       \* the API requests in flight
    restarted,  \* history: has the API process been restarted?
    refused     \* history: VNIs that Creates were refused with since the last restart

vars == <<vpcs, allocated, reqs, restarted, refused>>

-----------------------------------------------------------------------------
(* The VNI layout: region, tenant shard and sequence number side by side. *)

EncodeVNI(region, shard, seq) ==
    (region * ShardCount + shard) * SeqCount + seq

DecodedRegion(vni) == ((vni \div SeqCount) \div ShardCount) % RegionCount

Usable(vni) == MinVNI <= vni /\ vni < MaxVNI

(* Fault: the scan does not skip the reserved VNIs. *)
ShardVNIsReservedToo(region, shard) ==
    {EncodeVNI(region, shard, seq) : seq \in 0 .. SeqCount - 1}

ShardVNIs(region, shard) ==
    {vni \in {EncodeVNI(region, shard, seq) : seq \in 0 .. SeqCount - 1} : Usable(vni)}

RegionVNIs(region) == UNION {ShardVNIs(region, shard) : shard \in 0 .. ShardCount - 1}

(* Where Allocate looks: the account's own shard, else the whole region. *)
Candidates(region, a) ==
    LET own == ShardVNIs(region, Shard[a]) \ allocated
    IN  IF own # {} THEN own ELSE RegionVNIs(region) \ allocated

-----------------------------------------------------------------------------
(* The VPC store. *)

Exists(id) == vpcs[id] # NoVPC

Live(id) == Exists(id) /\ vpcs[id].state # "deleted"

FindByName(a, region, name) ==
    {id \in VPCIds : Live(id) /\ vpcs[id].account = a /\ vpcs[id].region = region
                       /\ vpcs[id].name = name}

FindOverlappingCIDR(a, block) ==
    {id \in VPCIds : Live(id) /\ vpcs[id].account = a /\ {vpcs[id].block, block} \in Overlaps}

(* The schema's UNIQUE(vni) and UNIQUE(account_id, region_id, name); both  *)
(* count tombstones.                                                       *)
UniqueViolation(row) ==
    \E id \in VPCIds :
        /\ Exists(id)
        /\ \/ vpcs[id].vni = row.vni
           \/ /\ vpcs[id].account = row.account
              /\ vpcs[id].region = row.region
              /\ vpcs[id].name = row.name

-----------------------------------------------------------------------------
(* API requests. *)

IdleRequest == [op |-> "idle", step |-> "none", id |-> NoId, row |-> NoVPC]

Become(r, op, step, id, row) ==
    reqs' = [reqs EXCEPT ![r] = [op |-> op, step |-> step, id |-> id, row |-> row]]

Begin(r, op, step, id, row) == reqs[r] = IdleRequest /\ Become(r, op, step, id, row)

At(r, op, step) == reqs[r].op = op /\ reqs[r].step = step

Goto(r, step) == reqs' = [reqs EXCEPT ![r].step = step]

Finish(r) == reqs' = [reqs EXCEPT ![r] = IdleRequest]

(* Create, once the request is validated. *)
CreateBegin(r, a, region, name, block) ==
    /\ Begin(r, "create", "name", NoId,
             [account |-> a, region |-> region, name |-> name, block |-> block,
              vni |-> 0, state |-> "active"])
    /\ UNCHANGED <<vpcs, allocated>>

CreateNameCheck(r) ==
    /\ At(r, "create", "name")
    /\ IF FindByName(reqs[r].row.account, reqs[r].row.region, reqs[r].row.name) = {}
       THEN Goto(r, "overlap")
       ELSE Finish(r)
    /\ UNCHANGED <<vpcs, allocated>>

CreateOverlapCheck(r) ==
    /\ At(r, "create", "overlap")
    /\ IF FindOverlappingCIDR(reqs[r].row.account, reqs[r].row.block) = {}
       THEN Goto(r, "allocate")
       ELSE Finish(r)
    /\ UNCHANGED <<vpcs, allocated>>

(* Allocate takes the first free VNI of its scan and marks it. *)
CreateAllocate(r) ==
    /\ At(r, "create", "allocate")
    /\ \E vni \in Candidates(reqs[r].row.region, reqs[r].row.account) :
          /\ \A other \in Candidates(reqs[r].row.region, reqs[r].row.account) : vni <= other
          /\ allocated' = allocated \cup {vni}
          /\ Become(r, "create", "insert", NoId, [reqs[r].row EXCEPT !.vni = vni])
    /\ UNCHANGED vpcs

CreateExhausted(r) ==
    /\ At(r, "create", "allocate")
    /\ Candidates(reqs[r].row.region, reqs[r].row.account) = {}
    /\ Finish(r)
    /\ UNCHANGED <<vpcs, allocated>>

CreateInsert(r, id) ==
    /\ At(r, "create", "insert")
    /\ ~Exists(id)
    /\ Backend = "postgres" => ~UniqueViolation(reqs[r].row)
    /\ vpcs' = [vpcs EXCEPT ![id] = reqs[r].row]
    /\ Finish(r)
    /\ UNCHANGED allocated

(* Fault: a refused Create gives its VNI back. *)
CreateRefusedReleases(r) ==
    /\ At(r, "create", "insert")
    /\ Backend = "postgres"
    /\ UniqueViolation(reqs[r].row)
    /\ Finish(r)
    /\ refused' = refused \cup {reqs[r].row.vni}
    /\ allocated' = allocated \ {reqs[r].row.vni}
    /\ UNCHANGED vpcs

(* The INSERT is refused; the handler returns and keeps the VNI allocated. *)
CreateRefused(r) ==
    /\ At(r, "create", "insert")
    /\ Backend = "postgres"
    /\ UniqueViolation(reqs[r].row)
    /\ Finish(r)
    /\ refused' = refused \cup {reqs[r].row.vni}
    /\ UNCHANGED <<vpcs, allocated>>

(* Fault: the VNI is released before the VPC is deleted. *)
DeleteReadReleases(r, a, id) ==
    /\ Live(id)
    /\ vpcs[id].account = a
    /\ Begin(r, "delete", "write", id, vpcs[id])
    /\ allocated' = allocated \ {vpcs[id].vni}
    /\ UNCHANGED vpcs

(* Delete: the VPC as read, its owner the caller, and no peerings (which is *)
(* PeeringLifecycle's business: here the check may pass at any time).       *)
DeleteRead(r, a, id) ==
    /\ Live(id)
    /\ vpcs[id].account = a
    /\ Begin(r, "delete", "write", id, vpcs[id])
    /\ UNCHANGED <<vpcs, allocated>>

(* Fault: the SQL of Delete without its condition on the state. *)
DeleteWriteUnguarded(r) ==
    /\ At(r, "delete", "write")
    /\ vpcs' = [vpcs EXCEPT ![reqs[r].id] = [@ EXCEPT !.state = "deleted"]]
    /\ Goto(r, "release")
    /\ UNCHANGED allocated

(* Fault: Delete stores "deleting", a state that no store looks for. *)
DeleteWriteDeleting(r) ==
    /\ At(r, "delete", "write")
    /\ IF Backend = "memory" \/ Live(reqs[r].id)
       THEN /\ vpcs' = [vpcs EXCEPT ![reqs[r].id] = [@ EXCEPT !.state = "deleting"]]
            /\ Goto(r, "release")
       ELSE UNCHANGED vpcs /\ Finish(r)
    /\ UNCHANGED allocated

(* The in-memory store deletes a deleted VPC once more; PostgreSQL reports *)
(* that no row was updated and the handler returns.                        *)
DeleteWrite(r) ==
    /\ At(r, "delete", "write")
    /\ IF Backend = "memory" \/ Live(reqs[r].id)
       THEN /\ vpcs' = [vpcs EXCEPT ![reqs[r].id] = [@ EXCEPT !.state = "deleted"]]
            /\ Goto(r, "release")
       ELSE UNCHANGED vpcs /\ Finish(r)
    /\ UNCHANGED allocated

DeleteRelease(r) ==
    /\ At(r, "delete", "release")
    /\ allocated' = allocated \ {reqs[r].row.vni}
    /\ Finish(r)
    /\ UNCHANGED vpcs

(* The API process is restarted: its requests die and NewAllocator starts *)
(* empty.  A store in the process starts empty too, which is Init again;  *)
(* PostgreSQL keeps its rows.                                             *)
Restart ==
    /\ Backend = "postgres"
    /\ allocated' = {}
    /\ reqs' = [r \in Requests |-> IdleRequest]
    /\ restarted' = TRUE
    /\ refused' = {}
    /\ UNCHANGED vpcs

-----------------------------------------------------------------------------
Init ==
    /\ vpcs = [id \in VPCIds |-> NoVPC]
    /\ allocated = {}
    /\ reqs = [r \in Requests |-> IdleRequest]
    /\ restarted = FALSE
    /\ refused = {}

CreateNext(r) ==
    \/ \E a \in Accounts, region \in Regions, name \in Names, block \in Blocks :
          CreateBegin(r, a, region, name, block)
    \/ CreateNameCheck(r)
    \/ CreateOverlapCheck(r)
    \/ CreateAllocate(r)
    \/ CreateExhausted(r)
    \/ \E id \in VPCIds : CreateInsert(r, id)

DeleteNext(r) ==
    \/ \E a \in Accounts, id \in VPCIds : DeleteRead(r, a, id)
    \/ DeleteWrite(r)
    \/ DeleteRelease(r)

Next ==
    \/ (\E r \in Requests : CreateNext(r) \/ DeleteNext(r)) /\ UNCHANGED <<restarted, refused>>
    \/ (\E r \in Requests : CreateRefused(r)) /\ UNCHANGED restarted
    \/ Restart

Spec == Init /\ [][Next]_vars

-----------------------------------------------------------------------------
(* Properties. *)

RequestType ==
    [op   : {"idle", "create", "delete"},
     step : {"none", "name", "overlap", "allocate", "insert", "write", "release"},
     id   : VPCIds \cup {NoId},
     row  : Row \cup {NoVPC}]

HistoryType == restarted \in BOOLEAN

(* Every variable has its type. *)
TypeOK ==
    /\ vpcs \in [VPCIds -> Row \cup {NoVPC}]
    /\ allocated \subseteq Nat
    /\ reqs \in [Requests -> RequestType]
    /\ HistoryType
    /\ refused \subseteq Nat

(* Until a restart the allocator never thinks that the VNI of a live VPC,  *)
(* or one a Create is about to insert, is free: no Release comes twice or  *)
(* too late.                                                               *)
LiveVNIAllocated ==
    ~restarted =>
        /\ \A id \in VPCIds : Live(id) => vpcs[id].vni \in allocated
        /\ \A r \in Requests : At(r, "create", "insert") => reqs[r].row.vni \in allocated

(* After a restart the allocator offers VNIs in use, and a Create that     *)
(* gets one is refused.  This happens once for each live VPC and restart:  *)
(* the VNI stays allocated after the refusal, and no other Create is given *)
(* it as long as the VPC lives, whatever Creates and Deletes are under     *)
(* way.  (So the VNIs that failing Creates leave allocated are what the    *)
(* allocator recovers by; a handler that released them would be given the  *)
(* same VNI again and again.)                                              *)
RefusedOnce ==
    \A id \in VPCIds :
        Live(id) /\ vpcs[id].vni \in refused =>
            /\ vpcs[id].vni \in allocated
            /\ \A r \in Requests :
                  At(r, "create", "insert") => reqs[r].row.vni # vpcs[id].vni

(* A VNI lies outside the reserved ranges and names the region of its VPC, *)
(* also when the account's shard is full and the whole region is searched. *)
VNIWellPlaced ==
    \A id \in VPCIds :
        Exists(id) => Usable(vpcs[id].vni) /\ DecodedRegion(vpcs[id].vni) = vpcs[id].region

-----------------------------------------------------------------------------
(* The pool of VNIs that handlers and allocator implement. *)

(* A request owns a VNI between Allocate and the insert, and between the *)
(* delete and Release.                                                   *)
Holding(r) == At(r, "create", "insert") \/ At(r, "delete", "release")

PoolVNIs == UNION {RegionVNIs(region) : region \in Regions}

PoolOwners == ({"vpc"} \X VPCIds) \cup ({"request"} \X Requests)

PoolAbandoned == <<"none", NoId>>

PoolLost == [vni \in {} |-> {}]

(* Who uses a VNI: all of them, so that no sharing is hidden. *)
Users(vni) ==
    {<<"vpc", id>> : id \in {i \in VPCIds : Live(i) /\ vpcs[i].vni = vni}}
      \cup {<<"request", r>> : r \in {q \in Requests : Holding(q) /\ reqs[q].row.vni = vni}}

OwnersOf(vni) ==
    IF Users(vni) = {} /\ vni \in allocated THEN {PoolAbandoned} ELSE Users(vni)

poolOwners == IF restarted THEN PoolLost ELSE [vni \in PoolVNIs |-> OwnersOf(vni)]

Pool == INSTANCE VNIPool
    WITH VNIs <- PoolVNIs, Owners <- PoolOwners, Abandoned <- PoolAbandoned,
         Lost <- PoolLost, owners <- poolOwners

(* Handlers and allocator implement the pool: in every interleaving each   *)
(* step of theirs moves at most one VNI from one owner to the next, and    *)
(* Allocate takes only what nobody owns, until a restart loses the pool.   *)
ImplementsVNIPool == Pool!Spec

=============================================================================
