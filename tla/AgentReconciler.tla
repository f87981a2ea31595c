--------------------------- MODULE AgentReconciler ---------------------------
(***************************************************************************)
(* The per-host agent: the desired state that the controller hands it, the *)
(* VRFs, routes and ACLs of the kernel behind NetlinkManager, and the loop *)
(* that compares the two.                                                  *)
(*                                                                         *)
(* A pass copies the desired state under the lock and then makes one       *)
(* netlink call after the other without it.  Meanwhile the controller may  *)
(* change the desired state, somebody else may change the kernel, a        *)
(* netlink call may fail, and the agent may be restarted.                  *)
(*                                                                         *)
(* Slices and maps of configurations are sets here: an equal second entry  *)
(* only makes a call that fails, and the loops visit different entries in  *)
(* any order, which covers the order of the slice.                         *)
(***************************************************************************)
EXTENDS Naturals

CONSTANTS
    Names,           \* VRF names
    VNIs,            \* what a VRF is configured with
    Prefixes, Hops,  \* route destinations and their next hops
    PeeringIds, Rules,
    DesiredStates,   \* the states the controller sends in this instance
    MaxDisturbances, \* bound: steps that are not the loop's
    Stimuli,         \* what happens besides the loop in this instance
    NoName

VRFConfig == [name : Names, vni : VNIs]
RouteConfig == [vrf : Names, prefix : Prefixes, hop : Hops]
ACLConfig == [vrf : Names, peering : PeeringIds, rules : Rules]

(* keys are the VRFs that have an entry, perhaps an empty one, in the map *)
(* desired.Routes.                                                        *)
DesiredState == [vrfs   : SUBSET VRFConfig,
                 keys   : SUBSET Names,
                 routes : SUBSET RouteConfig,
                 acls   : SUBSET ACLConfig]

ASSUME BoundAssumption == MaxDisturbances \in Nat
ASSUME StimuliAssumption ==
    Stimuli \subseteq {"set", "add", "drift", "netlink_error", "restart"}
ASSUME NoNameAssumption == NoName \notin Names
ASSUME DesiredAssumption ==
    \A d \in DesiredStates :
        /\ d \in DesiredState
        /\ \A rt \in d.routes : rt.vrf \in d.keys

VARIABLES
    desired,   \* Reconciler.desired
    vrfs,      \* the kernel: VRFs
    routes,    \* ... routes in VRFs
    acls,      \* ... ACLs
    pc,        \* where the pass is
    snap,      \* its copy of the desired state
    toCreate,  \* the VRFs it has yet to create
    toDelete,  \* ... the names of VRFs it has yet to delete
    toVisit,   \* ... the keys of Routes it has yet to visit
    cur,       \* ... the key it is at
    toAdd,     \* ... the routes it has yet to add there
    toRemove,  \* ... the prefixes it has yet to remove there
    toProgram, \* ... the ACLs it has yet to program
    budget     \* how many disturbances are left

kernel == <<vrfs, routes, acls>>
loopVars == <<pc, snap, toCreate, toDelete, toVisit, cur, toAdd, toRemove, toProgram>>
vars == <<desired, kernel, loopVars, budget>>

NamesOf(S) == {c.name : c \in S}

PrefixesIn(S, n) == {rt.prefix : rt \in {x \in S : x.vrf = n}}

NothingDesired == [vrfs |-> {}, keys |-> {}, routes |-> {}, acls |-> {}]

-----------------------------------------------------------------------------
(* The netlink calls.  A call that reports an error changes nothing. *)

(* Fault: CreateVRF without the check for an existing VRF. *)
CreateVRFUnchecked(c) ==
    /\ vrfs' = vrfs \cup {c}
    /\ UNCHANGED <<routes, acls>>

CreateVRF(c) ==
    /\ vrfs' = IF c.name \in NamesOf(vrfs) THEN vrfs ELSE vrfs \cup {c}
    /\ UNCHANGED <<routes, acls>>

(* Fault: DeleteVRF leaves the routes of the VRF behind. *)
DeleteVRFKeepsRoutes(n) ==
    /\ vrfs' = {c \in vrfs : c.name # n}
    /\ acls' = IF n \in NamesOf(vrfs) THEN {a \in acls : a.vrf # n} ELSE acls
    /\ UNCHANGED routes

DeleteVRF(n) ==
    IF n \in NamesOf(vrfs)
    THEN /\ vrfs' = {c \in vrfs : c.name # n}
         /\ routes' = {rt \in routes : rt.vrf # n}
         /\ acls' = {a \in acls : a.vrf # n}
    ELSE UNCHANGED kernel

(* The VRF must exist and must not have a route to the prefix. *)
RouteFits(rt) == rt.vrf \in NamesOf(vrfs) /\ rt.prefix \notin PrefixesIn(routes, rt.vrf)

(* Fault: AddRoute replaces a route to the same prefix. *)
AddRouteReplaces(rt) ==
    /\ routes' = IF rt.vrf \in NamesOf(vrfs)
                 THEN {x \in routes : ~(x.vrf = rt.vrf /\ x.prefix = rt.prefix)} \cup {rt}
                 ELSE routes
    /\ UNCHANGED <<vrfs, acls>>

AddRoute(rt) ==
    /\ routes' = IF RouteFits(rt) THEN routes \cup {rt} ELSE routes
    /\ UNCHANGED <<vrfs, acls>>

DeleteRoute(n, prefix) ==
    /\ routes' = {rt \in routes : ~(rt.vrf = n /\ rt.prefix = prefix)}
    /\ UNCHANGED <<vrfs, acls>>

(* The VRF need not exist. *)
ProgramACL(a) ==
    /\ acls' = {x \in acls : ~(x.vrf = a.vrf /\ x.peering = a.peering)} \cup {a}
    /\ UNCHANGED <<vrfs, routes>>

ClearACL(n, p) ==
    /\ acls' = {x \in acls : ~(x.vrf = n /\ x.peering = p)}
    /\ UNCHANGED <<vrfs, routes>>

-----------------------------------------------------------------------------
(* One pass of reconcile. *)

Snapshot ==
    /\ pc = "idle"
    /\ snap' = desired
    /\ pc' = "list_vrfs"
    /\ UNCHANGED <<desired, kernel, toCreate, toDelete, toVisit, cur, toAdd, toRemove,
                   toProgram, budget>>

(* The two VRF loops visit what is missing from, and what is superfluous in, *)
(* the list; every later loop is known from the copy.                        *)
PlanVRFs(seen) ==
    /\ toCreate' = {c \in snap.vrfs : c.name \notin seen}
    /\ toDelete' = seen \ NamesOf(snap.vrfs)
    /\ toVisit' = snap.keys
    /\ toProgram' = snap.acls
    /\ pc' = "vrfs"

ListVRFs ==
    /\ pc = "list_vrfs"
    /\ PlanVRFs(NamesOf(vrfs))
    /\ UNCHANGED <<desired, kernel, snap, cur, toAdd, toRemove, budget>>

CreateMissingVRF(c) ==
    /\ pc = "vrfs"
    /\ c \in toCreate
    /\ CreateVRF(c)
    /\ toCreate' = toCreate \ {c}
    /\ UNCHANGED <<desired, pc, snap, toDelete, toVisit, cur, toAdd, toRemove, toProgram, budget>>

DeleteStaleVRF(n) ==
    /\ pc = "vrfs"
    /\ toCreate = {}
    /\ n \in toDelete
    /\ DeleteVRF(n)
    /\ toDelete' = toDelete \ {n}
    /\ UNCHANGED <<desired, pc, snap, toCreate, toVisit, cur, toAdd, toRemove, toProgram, budget>>

VRFsDone ==
    /\ pc = "vrfs"
    /\ toCreate = {} /\ toDelete = {}
    /\ pc' = "routes"
    /\ UNCHANGED <<desired, kernel, snap, toCreate, toDelete, toVisit, cur, toAdd, toRemove,
                   toProgram, budget>>

(* The next VRF of the map: routes are compared by their prefix alone. *)
PlanRoutes(n, seen) ==
    /\ cur' = n
    /\ toVisit' = toVisit \ {n}
    /\ toAdd' = {rt \in snap.routes : rt.vrf = n /\ rt.prefix \notin seen}
    /\ toRemove' = seen \ PrefixesIn(snap.routes, n)

RouteLoopFree == pc = "routes" /\ toAdd = {} /\ toRemove = {}

ListRoutes(n) ==
    /\ RouteLoopFree
    /\ n \in toVisit
    /\ PlanRoutes(n, PrefixesIn(routes, n))
    /\ UNCHANGED <<desired, kernel, pc, snap, toCreate, toDelete, toProgram, budget>>

(* Fault: the pass ends with the first route that cannot be added. *)
AddMissingRouteOrReturn(rt) ==
    /\ pc = "routes"
    /\ rt \in toAdd
    /\ AddRoute(rt)
    /\ toAdd' = IF RouteFits(rt) THEN toAdd \ {rt} ELSE {}
    /\ toVisit' = IF RouteFits(rt) THEN toVisit ELSE {}
    /\ toRemove' = IF RouteFits(rt) THEN toRemove ELSE {}
    /\ UNCHANGED <<desired, pc, snap, toCreate, toDelete, cur, toProgram, budget>>

AddMissingRoute(rt) ==
    /\ pc = "routes"
    /\ rt \in toAdd
    /\ AddRoute(rt)
    /\ toAdd' = toAdd \ {rt}
    /\ UNCHANGED <<desired, pc, snap, toCreate, toDelete, toVisit, cur, toRemove, toProgram, budget>>

DeleteStaleRoute(prefix) ==
    /\ pc = "routes"
    /\ toAdd = {}
    /\ prefix \in toRemove
    /\ DeleteRoute(cur, prefix)
    /\ toRemove' = toRemove \ {prefix}
    /\ UNCHANGED <<desired, pc, snap, toCreate, toDelete, toVisit, cur, toAdd, toProgram, budget>>

RoutesDone ==
    /\ RouteLoopFree
    /\ toVisit = {}
    /\ cur' = NoName
    /\ pc' = "acls"
    /\ UNCHANGED <<desired, kernel, snap, toCreate, toDelete, toVisit, toAdd, toRemove,
                   toProgram, budget>>

ProgramDesiredACL(a) ==
    /\ pc = "acls"
    /\ a \in toProgram
    /\ ProgramACL(a)
    /\ toProgram' = toProgram \ {a}
    /\ UNCHANGED <<desired, pc, snap, toCreate, toDelete, toVisit, cur, toAdd, toRemove, budget>>

PassDone ==
    /\ pc = "acls"
    /\ toProgram = {}
    /\ pc' = "idle"
    /\ snap' = NothingDesired
    /\ UNCHANGED <<desired, kernel, toCreate, toDelete, toVisit, cur, toAdd, toRemove,
                   toProgram, budget>>

-----------------------------------------------------------------------------
(* What happens to the agent. *)

Disturb(what) == what \in Stimuli /\ budget > 0 /\ budget' = budget - 1

SetDesiredState(d) ==
    /\ Disturb("set")
    /\ desired' = d
    /\ UNCHANGED <<kernel, loopVars>>

AddDesiredVRF(c) ==
    /\ Disturb("add")
    /\ desired' = [desired EXCEPT !.vrfs = @ \cup {c}]
    /\ UNCHANGED <<kernel, loopVars>>

(* Callers name one VRF in the argument and in the routes. *)
AddDesiredRoutes(n, S) ==
    /\ Disturb("add")
    /\ desired' = [desired EXCEPT !.keys = @ \cup {n}, !.routes = @ \cup S]
    /\ UNCHANGED <<kernel, loopVars>>

(* Somebody else makes a netlink call. *)
Drift ==
    /\ Disturb("drift")
    /\ \/ \E c \in VRFConfig : CreateVRF(c)
       \/ \E n \in Names : DeleteVRF(n)
       \/ \E rt \in RouteConfig : AddRoute(rt)
       \/ \E n \in Names, prefix \in Prefixes : DeleteRoute(n, prefix)
       \/ \E n \in Names, p \in PeeringIds : ClearACL(n, p)
    /\ UNCHANGED <<desired, loopVars>>

(* The loop drops the error of a List call and sees an empty list. *)
ListError ==
    /\ Disturb("netlink_error")
    /\ \/ /\ pc = "list_vrfs"
          /\ PlanVRFs({})
          /\ UNCHANGED <<cur, toAdd, toRemove>>
       \/ /\ RouteLoopFree
          /\ \E n \in toVisit : PlanRoutes(n, {})
          /\ UNCHANGED <<pc, toCreate, toDelete, toProgram>>
    /\ UNCHANGED <<desired, kernel, snap>>

(* It reports the error of any other call and goes on. *)
CallError ==
    /\ Disturb("netlink_error")
    /\ \/ /\ pc = "vrfs"
          /\ \E c \in toCreate : toCreate' = toCreate \ {c}
          /\ UNCHANGED <<toDelete, toAdd, toRemove, toProgram>>
       \/ /\ pc = "vrfs" /\ toCreate = {}
          /\ \E n \in toDelete : toDelete' = toDelete \ {n}
          /\ UNCHANGED <<toCreate, toAdd, toRemove, toProgram>>
       \/ /\ pc = "routes"
          /\ \E rt \in toAdd : toAdd' = toAdd \ {rt}
          /\ UNCHANGED <<toCreate, toDelete, toRemove, toProgram>>
       \/ /\ pc = "routes" /\ toAdd = {}
          /\ \E prefix \in toRemove : toRemove' = toRemove \ {prefix}
          /\ UNCHANGED <<toCreate, toDelete, toAdd, toProgram>>
       \/ /\ pc = "acls"
          /\ \E a \in toProgram : toProgram' = toProgram \ {a}
          /\ UNCHANGED <<toCreate, toDelete, toAdd, toRemove>>
    /\ UNCHANGED <<desired, kernel, pc, snap, toVisit, cur>>

(* A new agent process starts with NewReconciler; the kernel keeps its state. *)
AgentRestart ==
    /\ Disturb("restart")
    /\ desired' = NothingDesired
    /\ pc' = "idle"
    /\ snap' = NothingDesired
    /\ toCreate' = {} /\ toDelete' = {} /\ toVisit' = {}
    /\ cur' = NoName
    /\ toAdd' = {} /\ toRemove' = {} /\ toProgram' = {}
    /\ UNCHANGED kernel

-----------------------------------------------------------------------------
Init ==
    /\ desired = NothingDesired
    /\ pc = "idle"
    /\ snap = NothingDesired
    /\ toCreate = {} /\ toDelete = {} /\ toVisit = {}
    /\ cur = NoName
    /\ toAdd = {} /\ toRemove = {} /\ toProgram = {}
    /\ vrfs = {} /\ routes = {} /\ acls = {}
    /\ budget = MaxDisturbances

LoopNext ==
    \/ Snapshot
    \/ ListVRFs
    \/ \E c \in VRFConfig : CreateMissingVRF(c)
    \/ \E n \in Names : DeleteStaleVRF(n) \/ ListRoutes(n)
    \/ VRFsDone
    \/ \E rt \in RouteConfig : AddMissingRoute(rt)
    \/ \E prefix \in Prefixes : DeleteStaleRoute(prefix)
    \/ RoutesDone
    \/ \E a \in ACLConfig : ProgramDesiredACL(a)
    \/ PassDone

Next ==
    \/ LoopNext
    \/ \E d \in DesiredStates : SetDesiredState(d)
    \/ \E c \in VRFConfig : AddDesiredVRF(c)
    \/ \E rt \in RouteConfig : AddDesiredRoutes(rt.vrf, {rt})
    \/ Drift
    \/ ListError
    \/ CallError
    \/ AgentRestart

Spec == Init /\ [][Next]_vars

(* The ticker fires and the loop's goroutine runs. *)
FairSpec == Spec /\ WF_vars(LoopNext)

-----------------------------------------------------------------------------
(* Properties. *)

(* Every variable has its type; vrfs is a map from names. *)
TypeOK ==
    /\ desired \in DesiredState
    /\ vrfs \subseteq VRFConfig
    /\ \A c1, c2 \in vrfs : c1.name = c2.name => c1 = c2
    /\ routes \subseteq RouteConfig
    /\ acls \subseteq ACLConfig
    /\ pc \in {"idle", "list_vrfs", "vrfs", "routes", "acls"}
    /\ snap \in DesiredState
    /\ toCreate \subseteq VRFConfig
    /\ toDelete \subseteq Names
    /\ toVisit \subseteq Names
    /\ cur \in Names \cup {NoName}
    /\ toAdd \subseteq RouteConfig
    /\ toRemove \subseteq Prefixes
    /\ toProgram \subseteq ACLConfig
    /\ budget \in 0 .. MaxDisturbances

(* The kernel never has a route in a VRF that is gone, nor two routes of a  *)
(* VRF to one prefix, although the loop adds routes by a list that may be   *)
(* out of date and VRFs vanish under it.                                    *)
KernelConsistent ==
    /\ \A rt \in routes : rt.vrf \in NamesOf(vrfs)
    /\ \A r1, r2 \in routes : r1.vrf = r2.vrf /\ r1.prefix = r2.prefix => r1 = r2

(* The host has the VRFs of d, and in them the prefixes of d. *)
Matches(d) ==
    /\ NamesOf(vrfs) = NamesOf(d.vrfs)
    /\ \A n \in d.keys \cap NamesOf(vrfs) : PrefixesIn(routes, n) = PrefixesIn(d.routes, n)

(* A pass never disturbs the VRFs and routes of a host that already has what *)
(* the pass wants, even if it came to have it after the pass had listed it:  *)
(* every call that the outdated list suggests then fails.                    *)
MatchedHostUntouched ==
    [][Matches(snap) /\ LoopNext => UNCHANGED <<vrfs, routes>>]_vars

(* The host matches and enforces every desired ACL. *)
Converged == Matches(desired) /\ desired.acls \subseteq acls

(* After the last change of the desired state, drift, failed call or restart *)
(* the host comes to match the desired state and stays so: a route that      *)
(* cannot be added, in whatever pass, does not keep others from being added. *)
Converges == <>[]Converged
=============================================================================
