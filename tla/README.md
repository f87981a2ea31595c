# VPC-ROUTING: a TLA+ model

This directory specifies the control logic of the VPC interconnect in TLA+,
model-checks it with TLC on small instances and proves its main properties with
TLAPS for instances of any size. The code is the reference; where the design
documents and the code disagree, the model follows the code and a run shows the
disagreement.

## 1. The system

| Component | State | Operations that change it | Modelled in |
|---|---|---|---|
| VPC handlers (`internal/api/vpc_handler.go`) | none | Create, Delete | `VPCLifecycle` (names, VNIs), `AddressPlan` (CIDRs); Delete also in `PeeringLifecycle` |
| Peering handlers (`internal/api/peering_handler.go`) | none | Create, Update, Delete, Accept, Reject, OverrideRoute | `PeeringLifecycle`; OverrideRoute, Update's fields and GetEffectiveRoutes in `RouteTable` |
| VPC store, peering store (`internal/store`) | rows by UUID, in memory or in PostgreSQL | Create, Update, Delete | all of the above |
| Route store | routes by peering and prefix | Upsert, Delete | `RouteTable` |
| Event store | append-only log | Append | not modelled |
| VNI allocator (`internal/vni`) | VNIs in use, in the API's memory | Allocate, Release | `VPCLifecycle`, abstractly `VNIPool` |
| Controller reconciler, provisioner (`internal/controller`) | the position in a pass | reconcileAll, ProvisionPeering, DeprovisionPeering | `PeeringLifecycle` against the API, `Fabric` against the BGP service |
| BGP service (`internal/bgp`) | imported route targets per VRF, injected routes per VPC | ConfigureRT, InjectRoutes, WithdrawRoutes | `Fabric` |
| Agent reconciler (`internal/agent/reconciler.go`) | desired state | SetDesiredState, AddDesired*, reconcile | `AgentReconciler` |
| Netlink manager (`internal/agent/netlink.go`) | VRFs, routes, ACLs of a host | Create/Delete VRF, Add/Delete route, Program/Clear ACL | `AgentReconciler` |
| Rate limiter (`internal/auth/ratelimit.go`), router | limiter per account | lookup, eviction, taking a token | `RateLimiter`, abstractly `AccountLimits` |
| Authentication (`internal/auth`) | none | | ownership checks, in the handlers' guards |
| CIDR and policy functions (`internal/model`) | none | pure functions | `Prefixes` |
| Responses, configuration, `cmd/` | none | | not modelled |

**Interaction.** Handlers run in goroutines of their own and call the stores and
the allocator; each such call takes a lock, or is one SQL statement, and is
atomic. The controller polls the peering store on a ticker, calls the BGP
service and writes the peering back. Agents poll their host in the same way. No
lock, transaction or version number spans two calls, so everything that is hard
here is what happens *between* two calls:

* a handler or the controller reads a peering, edits the copy and later writes
  the whole copy back (lost updates, revived peerings);
* a check and the insert that relies on it are apart (duplicates, quota,
  overlap, deletion of a VPC in use);
* a VNI is released after the deletion and apart from it; the allocator forgets
  everything in a restart while the table does not;
* fabric and netlink calls fail half-way and passes are repeated; the fabric's
  lists do not say for which peering an entry is there;
* the provisioner and OverrideRoute write the same routes, Update and the
  provisioner the same settings;
* a rate-limiter entry may be evicted between its lookup and its use;
* the agent works from a copied desired state and from lists that are out of
  date, and starts with an empty desired state.

In `cmd/` every process makes its own in-memory stores; API and controller share
a store when both use one database, or when they run in one process as in the
tests. The model is about a shared store.

What makes each component correct is listed with the runs below; every hazard is
in `PROJECT.json` with its line.

## 2. Modules

### PeeringLifecycle

| State | In the code |
|---|---|
| `peerings` | the peering store: requester, accepter, direction, state, policy, provisionedAt of each peering |
| `liveVPCs`, `vpcDeletes` | VPCs not deleted; VPC deletions between CountByVPC and vpcs.Delete |
| `reqs` | one record per handler goroutine: the handler, the next store call, its private copy |
| `pc`, `todo`, `job`, `snap` | reconcileAll: position, listed provisioning peerings, the copy in ProvisionPeering, listed pending copies |
| `imports`, `injected`, `routes` | BGP service and route store, by VPC instead of by prefix |
| `aged`, `consents` | which peerings are older than seven days; history of passed Accept checks |

One action is one store or fabric call with the code around it: `CreateBegin`,
`CreateDuplicateCheck`, `CreateQuotaRequester`, `CreateQuotaAccepter`,
`CreateInsert`; `UpdateRead`, `AcceptRead`, `RejectRead` and the common
`WriteBack`; `DeleteRead`, `DeleteWrite`; `DeleteVPCCheck`, `DeleteVPCWrite`; for
the controller `ReconcileStart`, `ProvisionBegin` or `ProvisionSkip`,
`ConfigureRTRequester`, `ConfigureRTAccepter`, `InjectAccepter`,
`InjectRequester`, `UpsertRoutes`, `Activate`, `ListPending`, `ExpireVisit`,
`ReconcileEnd`. `FabricError` is the error return of the BGP service interface
(the in-memory service never fails).

`Backend` selects the store. They differ where it matters: the in-memory `Get`
hides deleted peerings and the PostgreSQL one does not, and the PostgreSQL
`ListByState` does not select the route policy, so that the expiry write erases
it.

Abstractions: RouteCount, CrossRegion, health and timestamps other than "older
than seven days" feed responses only. A VPC's CIDRs are its identity; whether two
VPCs overlap is the constant `Overlaps`. ConfigureRT appends duplicates; imports
are a set. The vpcs.Get calls of a handler are merged with the step before them:
a VPC never comes back, so an earlier check is the weaker one. Directions are not
validated by Update, hence `DirectionInputs` may hold unknown ones. The events
that follow a write are never read by the logic. Failing store calls are left out
but for one: VPCHandler.Delete drops the error of CountByVPC and takes the count for
zero (`CountFails`, on PostgreSQL). The others end their handler early, or leave the
store as it is until a later pass tries again. Steps 2 and 4
of reconcileAll act on peerings in `deleting` and `failed`; no code stores these
states (lemma `StepsLeftOut`), so the steps are left out here and are in `Fabric`.

### VPCLifecycle

`vpcs` is the VPC table with its tombstones, `allocated` the allocator, `reqs`
the handlers. Actions are `CreateBegin` (validation), `CreateNameCheck`,
`CreateOverlapCheck`, `CreateAllocate` or `CreateExhausted`, `CreateInsert` or
`CreateRefused` (a unique constraint of migration 001; the VNI stays allocated),
`DeleteRead`, `DeleteWrite`, `DeleteRelease`, and `Restart`, which empties the
allocator and drops the requests. The VNI layout has its real form, with the
number of regions, shards and sequence numbers as parameters: 16, 1024 and 1024
in the code, which is 24 bits of a uint32 and cannot overflow. Whether a VPC has
peerings is left open here; `PeeringLifecycle` has that check. `refused` is history:
the VNIs with which an insert was refused since the last restart.

`VNIPool` is what handlers and allocator promise together: each VNI is free, has
exactly one owner (a VPC or a request), or was abandoned by a failed Create; it is
taken only while free and passed on from one owner to the next. The refinement
mapping takes a VNI's owners to be the live VPCs with that VNI and the requests
between allocation and insert or between deletion and release; an allocated VNI
without any is abandoned. A restart is the end of the promise: the abstract pool
is lost.

### Prefixes and AddressPlan

`Prefixes` has the functions of `cidr.go` and `policy.go` on addresses of `Width`
bits (32 in the code), with netip's Contains, Masked and Overlaps by what they do
to bits. Lists of a policy, which are only searched, are sets.

`AddressPlan` has the blocks of VPCs: `CreateValidate`, `CreateCheck`
(FindOverlappingCIDR, which on PostgreSQL searches the newest `PageSize` VPCs of
the account), `CreateStamp` (UUID and CreatedAt), `CreateInsert`, `CreateFail`
(any of the other refusals, which `VPCLifecycle` has), `Delete` and
`CreatePeering` with its overlap check, which is between requester and accepter.
`present` is history: the account's VPCs
when a Create was checked. Timestamps are taken to be distinct.

### RouteTable

`peerings` holds state and settings (direction and policy), `routes` the entries
of each peering in their order, `job` the provisioner between its Get and its
Update, `reqs` the handlers. Actions: `UpdateRead`, `UpdateWrite`,
`DeletePeering`, `OverrideRead` and then `AddStatic` or `Withdraw`;
`EffectiveList`, `EffectiveVisit`, `EffectiveEnd` (GetEffectiveRoutes lists once
and then reads the routes of each peering); `ProvisionBegin`, `Announce`,
`ProvisionError`, `UpsertNext` for each route, `Activate`. `acked`, `overrun` and
`withdrawn` are history. The list of GetEffectiveRoutes has the newest 200 peerings,
not deleted, of the VPC that the VPC's own account requested; the module's peerings
are among those, and one that another account requested shows no routes. The next hop, VNI and preference of a route follow from
its origin; Create and Accept, which come before, are in `PeeringLifecycle`.

### RateLimiter

`limiters` is the map with the age of each entry, `buckets` the token buckets by
the identity of their object, `reqs` the requests between getLimiter and Allow,
`asked` history. Time goes by in ticks. `Hit` and `Miss` are getLimiter under its
lock, with evictOldest in `Miss`; `Allow` is the rate.Limiter's, outside the lock;
`EvictIdle` is a round of evictLoop, at any time. `MaxDelay` bounds the time from
getLimiter to Allow. With it, an idle entry's buckets are full again: they fill in
a minute and entries stay for five (`IdleAssumption`).

`AccountLimits` is the promise: one bucket per account and category for good,
except that an account may be forgotten, with full buckets when it is back, if at
least `MaxEntries` others were seen since. Under the mapping an account without an
entry has full buckets. Nothing is promised for a request whose account was
forgotten between its lookup and its token; such a request takes its token from
buckets nobody else will get.

### Fabric

The controller's passes, steps 1, 2 and 4, against the BGP service. `recent` are the
peerings created less than ten minutes ago, which is what step 4 asks for. `imports` and
`injected` count entries, since ConfigureRT and InjectRoutes append, removing an
import removes one and withdrawing removes all. A visit of a peering is a `job`
with the calls left to make: `VisitProvisioning`, `VisitDeleting` or
`VisitFailed` (with `RetryRead`), then `MakeCall` or `CallFails`, then `JobDone`.
The states `deleting` and `failed` are stored by an external party here
(`MarkDeleting`, `MarkFailed`), as the functional specification and the
controller's tests have it: the module says what these steps of the controller do
once somebody makes use of them. Step 3 and the API's races are in
`PeeringLifecycle`. The entries of the RIB that GetRouteTable shows are not
modelled; WithdrawRoutes does not remove them.

### AgentReconciler

`desired` is the agent's desired state, `vrfs`, `routes` and `acls` the kernel,
the other variables the position of a pass: its copy `snap` and what each loop
has yet to do. One action is one netlink call. `Drift` is any netlink call of
somebody else, `ListError` and `CallError` are failing calls, `AgentRestart`
starts over with the kernel as it is. Slices are sets: an equal second entry only
causes a call that fails, and visiting entries in any order covers the order of
the slice. Table numbers and VTEP addresses go with the VNI.

### The others

The `MC` modules give the constants values, the `Proofs` modules hold the
theorems. Operators marked *Fault* are mutations of the definition below them, used
to show that a property can fail.

## 3. Runs

Passing runs:

| Run | Instance | Shows |
|---|---|---|
| `PeeringRaces` | 3 VPCs of 2 accounts, 1 overlapping pair, 1 peering, 2 handlers, controller, fabric errors, ageing, in-memory store | `Consent`: provisioning or active only if the accepter's owner agreed; `ActiveIsProgrammed`: active only after the fabric has it; `RouteIsolation`: imports, injections and route entries go back to a consented, overlap-free peering that is not pending; `NeverPendingAgain` |
| `PeeringRacesPostgres` | 1 cross-account peering on PostgreSQL, 2 handlers, controller, ageing, a one-way and an unknown direction | `QuietDeletionIsFinal`: nobody takes a fresh copy of a deleted peering; `PolicyGiven`: the policy a listed copy lacks is lost to expired peerings only |
| `PeeringLiveness` | 3 VPCs, 2 accounts, 1 overlapping pair, 2 peerings, VPC deletion, failing counts, ageing, PostgreSQL, fair | `ProvisioningEnds`, `OldPendingEnds` |
| `PeeringQuota` | 3 VPCs, 4 peerings, quota 2, 2 handlers | `QuotaOverrunBounded`, `DuplicatesBounded`: what check and insert being apart can do at most |
| `VPC` | 3 VPCs, 3 usable VNIs in region 1, 2 handlers, restarts, PostgreSQL | `ImplementsVNIPool`, `LiveVNIAllocated`, `VNIWellPlaced`, including exhaustion of shard and region and leaked VNIs; `RefusedOnce`: the allocator that forgot a VNI in use offers it once, not for ever |
| `AddressPlan` | 2 accounts, 3 VPCs, page of 1, 4-bit addresses, 7 inputs | `BlocksWellFormed`; `PlanDisjoint`: overlap within an account only by a race or beyond the page; `PeeredDisjoint`: no overlap between the two ends of a peering |
| `RouteTable` | 1 peering, 2 handlers, 2 policies, 4 blocks, in-memory store | `OneRoutePerPrefix`, `SettingsKept`, `ActiveHasRoutes`, `EffectiveFollowsPolicy` against a reference by addresses |
| `RateLimiter` | 3 accounts, 2 entries, 2 requests, bursts 1 and 2 | `MapBounded`, `ImplementsAccountLimits` |
| `Fabric` | 2 peerings with a common VPC, 1 failing call, 2 external writes, fair | `ActiveReachable`: the imports and announcements of an active peering survive unrelated tear-downs; `TearDownCompletes`: imports and announced routes of a peering in `deleting` all go; `FailedRecovers`, for peerings of less than ten minutes |
| `Agent` | 2 VRFs, 2 prefixes, 2 next hops, 4 disturbances of any kind, fair | `KernelConsistent`, `MatchedHostUntouched`, `Converges` |

Runs that find a disagreement, each with a finding in `PROJECT.json`:

| Run | What happens |
|---|---|
| `DeletionIsPermanent` | a peering deleted during provisioning becomes active |
| `DeniedNeverExchanged` | the provisioner announces blocks that the policy denies |

Other disagreements with the documents can be seen in the same modules and have no
run of their own:

* README, Peering Lifecycle: "Pending peerings not accepted within 7 days are
  automatically expired by the reconciler." The expiry loop writes its listed
  copy, also over an acceptance that came in time.
* functional-spec FR-2.5: in `deleting` the "Controller instructs BGP service to
  remove RT import/export and withdraw all routes for this peering". Delete stores
  `deleted` at once, and nothing is removed. Even with `deleting`, tearing down one
  peering withdraws its VPCs' routes from all their other peerings, and repeated
  tear-downs remove imports that another peering of the same pair needs
  (`ActiveReachable` says when an active peering is safe).
* functional-spec, partial failure: "The controller retries failed peerings with
  **exponential backoff** [...] (10 retries total)". Step 4 retries without backoff
  or count, and its condition, for which the code says "only retry recent failures",
  is the age of the peering: one that fails more than ten minutes after its creation
  is never retried. `FailedRecovers` promises only what is left. Nor does anything
  store `failed`: a peering whose provisioning fails stays `provisioning` and step 1
  visits it in every pass.
* migration 002: "FindByName partial unique index (excludes deleted)". The
  constraints of migration 001 stay and count deleted rows, so that a Create may
  be refused for a deleted VPC's name or VNI, and its own VNI is then lost
  (abandoned, in `VNIPool`).
* architecture, availability: "Existing VRF/routes/iptables persist (kernel state
  is durable)." A restarted agent starts from an empty desired state, and a pass
  before the controller's first word deletes every VRF.
* Check and insert being apart allows two peerings of one pair of VPCs, more
  peerings than the quota, a peering of a deleted VPC (also because Delete goes on
  when its count fails), and overlapping VPCs of one account. `QuotaOverrunBounded`, `DuplicatesBounded` and `PlanDisjoint` say how far
  this can go.
* Create compares the blocks of a peering's two VPCs. Two peers of one VPC may
  overlap each other, and then its VRF imports two routes for one address;
  `PeeredDisjoint` does not exclude it.
* An Update that read a `provisioning` peering writes that state over `active`, so
  it is provisioned again; settings confirmed since are lost (`SettingsKept` says
  when they are not).
* In the in-memory VPC store, whose Delete succeeds twice, two Deletes both release
  a VNI, the second after it was given away again, and nothing refuses an insert with
  a name or VNI in use; `LiveVNIAllocated`, `RefusedOnce` and `ImplementsVNIPool` are
  checked for PostgreSQL for this reason. There the constraints keep names and VNIs
  unique, and the question is how the allocator gets along with them.
* The agent compares routes by prefix, only for VRFs with an entry in its map, and
  never clears an ACL: `Converges` claims no more than that.
* README, Rate Limits: "60/min per account". A token bucket with a burst of 60 and
  60 per minute admits up to 120 in a minute, and a forgotten account starts anew.

**Bounds.** Races here are between one writer and one other writer of the same
row, so two handlers and the controller on one peering show them; isolation needs a
third VPC that overlaps one of the others, starvation a second peering. The sets of UUIDs bound the
number of VPCs and peerings ever created. `VPC` has as many VPCs as usable
VNIs, so that shard and region run out. `MaxDisturbances` bounds what happens to
an agent; four are enough for a desired state, its replacement, drift and a
failure or restart. A page of one VPC makes the second VPC of an account the last
one that is looked for. Three accounts for two entries are the least with which one
is evicted that comes back. In `Fabric`, one failing call leaves an import twice,
and two external writes are a failure and a tear-down, or two tear-downs.
`RouteTable` leaves out the one-way directions, which only shorten the list of
routes, and PostgreSQL, where a list lacks the policy; the properties say the same
of both. Requests and UUIDs are interchangeable, hence the symmetry
sets, which no liveness run uses.

**Deadlock** is checked except in `VPC`, `AddressPlan` and `PeeringQuota`: there all
UUIDs may be used up and no request be under way, an API that nobody calls.

**Fairness.** `FairSpec` assumes weak fairness of the controller's, or the
agent's, next step only: both are loops on a ticker that run as long as their
process. Handlers get none, since clients need not call and a goroutine may hang
on its connection. The liveness runs exclude an endless series of fabric errors
and of disturbances; nothing could converge under them.

## 4. Proofs

TLAPS checks the following for any values of the constants that satisfy the
named assumptions: types of the constants, sentinels outside their sets, and
where something is counted that the counted things are finite
(`FiniteAssumption`: peerings and requests; `AccountsAssumption`: accounts) and
that a quota is at least one (`QuotaAssumption`; 125 in the code). Every
invariant and every action property that a passing run checks is also proved,
and so are both refinements. `LiveVNIAllocated`, `RefusedOnce` and the refinement of
`VNIPool` are proved for PostgreSQL, the first and the last until a restart, as the
runs have it.

*PeeringLifecycleProofs.* `TypeCorrect`, `ConsentHolds`, `RouteIsolationHolds`,
`ActiveIsProgrammedHolds`, `PolicyGivenHolds`, `NeverPendingAgainHolds`,
`QuietDeletionIsFinalHolds`. None of the invariants is inductive: a write
installs a copy that somebody took earlier, so the invariant must speak of the
copies. `GoodCopy(p, row)` says that row could be stored under p now: it has p's
endpoints, they differ and do not overlap, it is in an expected state, consented and
with a client's policy if provisioning or active, and programmed if active. `IInv` says that the stored
rows (`StoredInv`), the handlers' copies (`RequestInv`), the provisioner's copy
(`JobInv`, with how far its fabric calls have got) and the expiry list
(`SnapInv`) are all good. Copies stay good because everything `GoodCopy` depends
on only grows: endpoints never change, consents and fabric entries are never
taken back, and a peering once decided is not pending again (`Stable`, `CopyStable`).
The policy needs more care: listed copies lack it on PostgreSQL, so `SnapInv` says that
they are pending, which makes them good, and `StoredInv` that a pending peering in the
store has one. For `RouteIsolation` the provisioner's copy must be of a peering that is
not pending by now (`JobInv`). Should the code start to withdraw routes,
this is the argument that will need a new idea, and the place where the revival
of a deleted peering will start to hurt.

`QuotaOverrunBoundedHolds` and `DuplicatesBoundedHolds` rest on a count,
`BoundInv`, for each group X of VPCs that Create counts the peerings of (one VPC
for the quota, a pair for the duplicate check). `Touched(X)` are the peerings of X
that count, and those that do not but of which a handler or the provisioner holds a
copy that could bring them back; `Creators(X)` are the Creates past the check
of X and before their insert. Together they are at most what the check lets pass
plus `Writers`. An insert moves one from `Creators` to `Touched`; a new copy is only
taken of a peering that counts, so a revival adds nothing; and when a Create passes
the check, what counts is within the limit, and everything else belongs to some
other writer, one each (`RoomLeft`). The quota or the number of peerings alone would
not be inductive: the next insert is already decided.

*VPCLifecycleProofs.* `TypeCorrect` and `VNIWellPlacedHolds` (from `DecodeEncode`,
about the layout) for either backend; for PostgreSQL `RefusedOnceWithPostgres` and,
until a restart, `LiveVNIAllocatedWithPostgres` and `ImplementsVNIPoolWithPostgres`.

The last two follow from `HoldersInv`: live VPCs, Creates before their insert and
Deletes before their Release hold a VNI, all of them allocated, no two the same. Each
action then changes the owners of at most one VNI, from one allowed set to the next.
A restart breaks `HoldersInv`, and after it Creates and live VPCs do share VNIs.
`RefusedOnce` therefore rests on tombstones (`FreshInv`): whoever releases a VNI has
written a tombstone with it before, so a VNI without one (not `Spent`) that was given
to a Create, or with which one was refused, is still allocated and is not given to
another. The VNI of a live VPC has no tombstone, since the constraint on the table
counts deleted rows as well (`RowsUniqueWithPostgres`).

*PrefixesProofs.* What the functions on bits mean for sets of addresses of any
width: `OverlapMeansSharedAddress`, `CIDRsOverlapMeansSharedAddress`,
`ContainsMeansSubset`, `ValidMeansPrivate`. The witness of an overlap is an address
that agrees with the longer prefix.

*AddressPlanProofs.* `TypeCorrect`, `BlocksWellFormedHolds`, `PlanDisjointHolds`,
`PeeredDisjointHolds`, for any page size, inputs and numbers. The invariant relates
what a request carries to the store: its VPCs seen at the check are still rows with
the same blocks and time stamps, none of those within the page shares an address
with its blocks, and its UUID is nobody else's.

*AgentReconcilerProofs.* `TypeCorrect`, `KernelConsistentHolds`,
`MatchedHostUntouchedHolds`, from `PassInv`: the work lists agree with the pass's
copy of the desired state. They need not agree with the kernel, and the proof
shows that each outdated call then fails.

*RouteTableProofs.* `TypeCorrect`, `OneRoutePerPrefixHolds`, `SettingsKeptHolds`,
`ActiveHasRoutesHolds`, `EffectiveFollowsPolicyHolds`, and `WithdrawRemoves`: Delete
stops at the first entry of a prefix, and no other is left behind it. `RoutedInv`
says of every block of an accepter that the provisioner has stored it, has yet to,
or that a client withdrew it, and that whoever holds a copy that says active read
it with the routes in place. `CopyInv` says that a copy which nobody wrote over
has the settings of the store but for what its client gives; this needs no
assumption about who runs when, and holds for both stores. `EffectiveMeansVerdict`
is about every policy and every list of routes. The loop's counter is a recursive
function; that one exists is shown by giving it (`CountExists`: the number of
eligible entries, but at most the limit), and that the counter is this one by its
least place where it would not be (`CountMeaning`, `LeastElement`).

*RateLimiterProofs.* `TypeCorrect`, `MapBoundedHolds` and
`ImplementsAccountLimitsHolds`. The refinement needs to know that evictLoop drops
full buckets only. For this `BucketsInv` says that a bucket in the map has one
account and that only its requests hold it, `SeenInv` that an entry's age is at
most the wait of each request that holds its bucket, and `FilledInv` that a bucket
older than `MaxDelay` has filled for the rest of its age. With `IdleAssumption` an
idle bucket is then full, as is that of an account without an entry. For
evictOldest, the entries in the map are `MaxEntries` accounts seen since.

*FabricProofs.* `TypeCorrect` and `ActiveReachableHolds`. `CallsInv` says that the
calls left in a tear-down are about its own two VPCs and that a provisioning takes
nothing away, `TornInv` that a peering once torn down is in no list of the other
two steps, and `UpInv` that an active peering has everything it needs, and one
being provisioned all but the calls left, unless a tear-down of a peering with the
same pair, or the same VPC, could have taken it.

Only model-checked, since liveness under fairness is outside the prover:
`ProvisioningEnds`, `OldPendingEnds`, `TearDownCompletes`, `FailedRecovers` and
`Converges`. The two properties of the runs that find a disagreement are false.

`RoutedInv`, `CopyInv` and `BoundInv` were checked with TLC on the instances of the
runs `RouteTable`, `PeeringQuota` and `PeeringRaces` before they were proved.

## 5. Plan

1. A peering abstractly as request, consent, link and end, implemented by
   `PeeringLifecycle`: the specification, a run and the proof.
2. Lemmas behind the liveness properties that are plain invariants: what a pass has
   done when it ends, for the controller and for the agent.

Not modelled: events and responses, since no decision depends on them; the RIB and
the sessions the BGP service shows; configuration, the gRPC definitions and
deployment files; the truncation of UUIDs to 32 bits in VRF names and route
targets, where only chance matters.
