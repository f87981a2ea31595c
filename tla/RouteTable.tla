----------------------------- MODULE RouteTable -----------------------------
(***************************************************************************)
(* The routes and the settings (direction and route policy) of peerings:   *)
(* the route store, which the provisioner and the OverrideRoute handler    *)
(* write and GetEffectiveRoutes reads, and the settings, which Update and  *)
(* the provisioner write.                                                  *)
(*                                                                         *)
(* PeeringLifecycle has how peerings come, are accepted and expire; here   *)
(* they start out provisioning, as Create or Accept leave them.  Callers   *)
(* have passed the ownership checks.                                       *)
(*                                                                         *)
(* GetEffectiveRoutes lists the newest 200 peerings, in any state but      *)
(* deleted, of the VPC asked for that its owner's account requested; those *)
(* another account requested are not found.  The peerings of this module   *)
(* are such that the list has them: a VPC's quota is 125.                  *)
(***************************************************************************)
EXTENDS Prefixes

CONSTANTS
    Peerings,
    Requests,           \* API handler goroutines that may run at the same time
    RequesterBlocks,    \* RequesterBlocks[p]: CIDRBlocks of p's requester VPC
    AccepterBlocks,     \* ... and of its accepter VPC
    Directions,         \* directions that clients send
    Policies,           \* route policies that clients send, and the zero policy
    ZeroPolicy,         \* the zero value of model.RoutePolicy
    Bodies,             \* bodies of Update requests: values for some of the fields
    OverridePrefixes,   \* prefixes that clients send to OverrideRoute
    Backend,            \* which peering store is in use
    NoRow, NoJob, NoRequest

ASSUME BlocksAssumption ==
    /\ RequesterBlocks \in [Peerings -> Seq(Prefix)]
    /\ AccepterBlocks \in [Peerings -> Seq(Prefix)]
ASSUME PolicyAssumption == Policies \subseteq RoutePolicy /\ ZeroPolicy \in Policies
ASSUME OverrideAssumption == OverridePrefixes \subseteq Prefix
ASSUME BackendAssumption == Backend \in {"memory", "postgres"}

Settings == [direction : Directions, policy : Policies]
Fields == {"direction", "policy"}

ASSUME BodiesAssumption ==
    \A given \in Bodies : \E F \in SUBSET Fields, s \in Settings : given = [f \in F |-> s[f]]

Row == [state : {"provisioning", "active", "deleted"}, settings : Settings]

(* A route; its preference and next hop follow from its origin. *)
RouteEntry == [prefix : Prefix, vpc : {"requester", "accepter", "none"},
               origin : {"direct", "static"}]

VARIABLES
    peerings,   \* the peering store
    routes,     \* routes[p]: the entries of peering p in the route store, in order
    announced,  \* announced[p]: prefixes the provisioner injected into the fabric for p
    job,        \* the provisioner: its copy and the routes it has yet to store
    reqs,       \* the API requests in flight
    acked,      \* history: acked[p], the settings last confirmed to a client
    overrun,    \* history: fields last written from a copy older than the store
    withdrawn   \* history: <<p, prefix>> withdrawn by OverrideRoute

vars == <<peerings, routes, announced, job, reqs, acked, overrun, withdrawn>>

Values(s) == {s[i] : i \in DOMAIN s}

-----------------------------------------------------------------------------
(* The stores. *)

Get(p) ==
    IF Backend = "memory" /\ peerings[p].state = "deleted" THEN NoRow ELSE peerings[p]

(* The PostgreSQL List does not select the route policy. *)
ListedPolicy(p) == IF Backend = "postgres" THEN ZeroPolicy ELSE peerings[p].settings.policy

Has(s, prefix) == \E i \in DOMAIN s : s[i].prefix = prefix

(* The first entry for prefix. *)
IndexOf(s, prefix) ==
    CHOOSE i \in DOMAIN s : s[i].prefix = prefix /\ \A j \in 1..(i - 1) : s[j].prefix # prefix

(* Fault: entries are told apart by their origin too. *)
UpsertByOrigin(s, e) ==
    IF \E i \in DOMAIN s : s[i].prefix = e.prefix /\ s[i].origin = e.origin
    THEN [s EXCEPT ![IndexOf(s, e.prefix)] = e] ELSE Append(s, e)

(* Replace the entry for the prefix where it is, or append. *)
Upsert(s, e) ==
    IF Has(s, e.prefix) THEN [s EXCEPT ![IndexOf(s, e.prefix)] = e] ELSE Append(s, e)

DeleteRoute(s, prefix) ==
    IF Has(s, prefix)
    THEN LET k == IndexOf(s, prefix) IN SubSeq(s, 1, k - 1) \o SubSeq(s, k + 1, Len(s))
    ELSE s

-----------------------------------------------------------------------------
(* Requests.  A request about to write keeps its copy, and whether the    *)
(* store has been written since the copy was taken (history).             *)

Free(r) == reqs[r] = NoRequest
At(r, op) == ~Free(r) /\ reqs[r].op = op
Finish(r) == reqs' = [reqs EXCEPT ![r] = NoRequest]

(* Overwritten: every other copy of p is outdated from now on. *)
FinishAndOutdate(r, p) ==
    /\ reqs' = [q \in Requests |->
                  IF q = r THEN NoRequest
                  ELSE IF At(q, "update") /\ reqs[q].p = p THEN [reqs[q] EXCEPT !.stale = TRUE]
                  ELSE reqs[q]]
    /\ job' = IF job # NoJob /\ job.p = p THEN [job EXCEPT !.stale = TRUE] ELSE job

(* given: the fields present in the request's body. *)
Edited(settings, given) ==
    [f \in Fields |-> IF f \in DOMAIN given THEN given[f] ELSE settings[f]]

(* Fault: Update stores a state that is not one of the model's. *)
UpdateReadNewState(r, p, given) ==
    /\ Free(r)
    /\ Get(p) # NoRow
    /\ Get(p).state \in {"active", "provisioning"}
    /\ reqs' = [reqs EXCEPT ![r] =
                  [op |-> "update", p |-> p, stale |-> FALSE, given |-> given,
                   row |-> [state |-> "updating", settings |-> Edited(Get(p).settings, given)]]]
    /\ UNCHANGED <<peerings, routes, announced, job, acked, overrun, withdrawn>>

(* Fault: an absent policy is parsed, too, into the default one. *)
UpdateReadDefaultPolicy(r, p, given) ==
    /\ Free(r)
    /\ Get(p) # NoRow
    /\ Get(p).state \in {"active", "provisioning"}
    /\ reqs' = [reqs EXCEPT ![r] =
                  [op |-> "update", p |-> p, stale |-> FALSE, given |-> given,
                   row |-> [Get(p) EXCEPT !.settings =
                              Edited([@ EXCEPT !.policy = ZeroPolicy], given)]]]
    /\ UNCHANGED <<peerings, routes, announced, job, acked, overrun, withdrawn>>

UpdateRead(r, p, given) ==
    /\ Free(r)
    /\ Get(p) # NoRow
    /\ Get(p).state \in {"active", "provisioning"}
    /\ reqs' = [reqs EXCEPT ![r] =
                  [op |-> "update", p |-> p, stale |-> FALSE, given |-> given,
                   row |-> [Get(p) EXCEPT !.settings = Edited(@, given)]]]
    /\ UNCHANGED <<peerings, routes, announced, job, acked, overrun, withdrawn>>

UpdateWrite(r) ==
    /\ At(r, "update")
    /\ LET p == reqs[r].p IN
       /\ peerings' = [peerings EXCEPT ![p] = reqs[r].row]
       /\ acked' = [acked EXCEPT ![p] = Edited(@, reqs[r].given)]
       /\ overrun' = [overrun EXCEPT ![p] =
                        (IF reqs[r].stale THEN Fields ELSE @) \ DOMAIN reqs[r].given]
       /\ FinishAndOutdate(r, p)
    /\ UNCHANGED <<routes, announced, withdrawn>>

DeletePeering(p) ==
    /\ Get(p) # NoRow
    /\ peerings[p].state # "deleted"
    /\ peerings' = [peerings EXCEPT ![p].state = "deleted"]
    /\ UNCHANGED <<routes, announced, job, reqs, acked, overrun, withdrawn>>

(* OverrideRoute up to its write; the state of the peering is not checked. *)
OverrideRead(r, p, action, prefix) ==
    /\ Free(r)
    /\ Get(p) # NoRow
    /\ reqs' = [reqs EXCEPT ![r] = [op |-> action, p |-> p, prefix |-> prefix]]
    /\ UNCHANGED <<peerings, routes, announced, job, acked, overrun, withdrawn>>

AddStatic(r) ==
    /\ At(r, "add_static")
    /\ routes' = [routes EXCEPT ![reqs[r].p] =
                    Upsert(@, [prefix |-> reqs[r].prefix, vpc |-> "none", origin |-> "static"])]
    /\ Finish(r)
    /\ UNCHANGED <<peerings, announced, job, acked, overrun, withdrawn>>

Withdraw(r) ==
    /\ At(r, "withdraw")
    /\ routes' = [routes EXCEPT ![reqs[r].p] = DeleteRoute(@, reqs[r].prefix)]
    /\ withdrawn' = withdrawn \cup {<<reqs[r].p, reqs[r].prefix>>}
    /\ Finish(r)
    /\ UNCHANGED <<peerings, announced, job, acked, overrun>>

-----------------------------------------------------------------------------
(* GetEffectiveRoutes: one List, then ListByPeering for each listed peering *)
(* that was active, under the policy the list had.                          *)

(* Fault: filtered routes count towards the limit as well. *)
AcceptedBeforeCountsAll(policy, s) ==
    LET count[i \in 0..Len(s)] ==
          IF i = 0 THEN 0
          ELSE count[i - 1]
                 + IF EvaluatePrefix(policy, s[i].prefix, count[i - 1]) = "deny" THEN 0 ELSE 1
    IN  count

(* peeringAccepted, after the first i routes. *)
AcceptedBefore(policy, s) ==
    LET count[i \in 0..Len(s)] ==
          IF i = 0 THEN 0
          ELSE count[i - 1]
                 + IF EvaluatePrefix(policy, s[i].prefix, count[i - 1]) = "accept" THEN 1 ELSE 0
    IN  count

(* What the response says of each route; denied routes are left out of it. *)
EffectiveRoutes(policy, s) ==
    [i \in DOMAIN s |->
        EvaluatePrefix(policy, s[i].prefix, AcceptedBefore(policy, s)[i - 1])]

(* Of the listed peerings the active ones are visited, under the policies  *)
(* the list had.                                                           *)
EffectiveList(r) ==
    /\ Free(r)
    /\ reqs' = [reqs EXCEPT ![r] =
                  [op |-> "effective",
                   listed |-> [p \in {q \in Peerings : peerings[q].state = "active"} |->
                                 ListedPolicy(p)]]]
    /\ UNCHANGED <<peerings, routes, announced, job, acked, overrun, withdrawn>>

(* EffectiveRoutes(listed[p], routes[p]) goes into the response. *)
EffectiveVisit(r, p) ==
    /\ At(r, "effective")
    /\ p \in DOMAIN reqs[r].listed
    /\ reqs' = [reqs EXCEPT ![r].listed =
                  [q \in DOMAIN reqs[r].listed \ {p} |-> reqs[r].listed[q]]]
    /\ UNCHANGED <<peerings, routes, announced, job, acked, overrun, withdrawn>>

EffectiveEnd(r) ==
    /\ At(r, "effective")
    /\ DOMAIN reqs[r].listed = {}
    /\ Finish(r)
    /\ UNCHANGED <<peerings, routes, announced, job, acked, overrun, withdrawn>>

-----------------------------------------------------------------------------
(* The provisioner, from its Get to its Update. *)

Direct(vpc, blocks) ==
    [i \in DOMAIN blocks |-> [prefix |-> blocks[i], vpc |-> vpc, origin |-> "direct"]]

(* The entries for the prefixes it injects, in the order of its loops. *)
Exported(p, direction) ==
    Direct("accepter", AccepterBlocks[p])
      \o IF direction \in {"bidirectional", "accepter_to_requester"}
         THEN Direct("requester", RequesterBlocks[p]) ELSE <<>>

ProvisionBegin(p) ==
    /\ job = NoJob
    /\ Get(p) # NoRow
    /\ Get(p).state = "provisioning"
    /\ job' = [p |-> p, row |-> Get(p), stale |-> FALSE, announce |-> TRUE,
               left |-> Exported(p, Get(p).settings.direction)]
    /\ UNCHANGED <<peerings, routes, announced, reqs, acked, overrun, withdrawn>>

(* InjectRoutes for both VPCs: the policy is not consulted. *)
Announce ==
    /\ job # NoJob
    /\ job.announce
    /\ announced' = [announced EXCEPT ![job.p] = @ \cup {e.prefix : e \in Values(job.left)}]
    /\ job' = [job EXCEPT !.announce = FALSE]
    /\ UNCHANGED <<peerings, routes, reqs, acked, overrun, withdrawn>>

(* A fabric call fails: ProvisionPeering returns, to be called again. *)
ProvisionError ==
    /\ job # NoJob
    /\ job.announce
    /\ job' = NoJob
    /\ UNCHANGED <<peerings, routes, announced, reqs, acked, overrun, withdrawn>>

UpsertNext ==
    /\ job # NoJob
    /\ ~job.announce
    /\ job.left # <<>>
    /\ routes' = [routes EXCEPT ![job.p] = Upsert(@, Head(job.left))]
    /\ job' = [job EXCEPT !.left = Tail(@)]
    /\ UNCHANGED <<peerings, announced, reqs, acked, overrun, withdrawn>>

(* Fault: the peering becomes active before its routes are stored. *)
ActivateEarly ==
    /\ job # NoJob
    /\ ~job.announce
    /\ peerings' = [peerings EXCEPT ![job.p] = [job.row EXCEPT !.state = "active"]]
    /\ overrun' = [overrun EXCEPT ![job.p] = IF job.stale THEN Fields ELSE @]
    /\ reqs' = [q \in Requests |->
                  IF At(q, "update") /\ reqs[q].p = job.p
                  THEN [reqs[q] EXCEPT !.stale = TRUE] ELSE reqs[q]]
    /\ job' = NoJob
    /\ UNCHANGED <<routes, announced, acked, withdrawn>>

Activate ==
    /\ job # NoJob
    /\ ~job.announce
    /\ job.left = <<>>
    /\ peerings' = [peerings EXCEPT ![job.p] = [job.row EXCEPT !.state = "active"]]
    /\ overrun' = [overrun EXCEPT ![job.p] = IF job.stale THEN Fields ELSE @]
    /\ reqs' = [q \in Requests |->
                  IF At(q, "update") /\ reqs[q].p = job.p
                  THEN [reqs[q] EXCEPT !.stale = TRUE] ELSE reqs[q]]
    /\ job' = NoJob
    /\ UNCHANGED <<routes, announced, acked, withdrawn>>

-----------------------------------------------------------------------------
Init ==
    /\ peerings \in [Peerings -> [state : {"provisioning"}, settings : Settings]]
    /\ routes = [p \in Peerings |-> <<>>]
    /\ announced = [p \in Peerings |-> {}]
    /\ job = NoJob
    /\ reqs = [r \in Requests |-> NoRequest]
    /\ acked = [p \in Peerings |-> peerings[p].settings]
    /\ overrun = [p \in Peerings |-> {}]
    /\ withdrawn = {}

RequestNext(r) ==
    \/ \E p \in Peerings, given \in Bodies : UpdateRead(r, p, given)
    \/ UpdateWrite(r)
    \/ \E p \in Peerings, action \in {"add_static", "withdraw"}, prefix \in OverridePrefixes :
          OverrideRead(r, p, action, prefix)
    \/ AddStatic(r)
    \/ Withdraw(r)
    \/ EffectiveList(r)
    \/ \E p \in Peerings : EffectiveVisit(r, p)
    \/ EffectiveEnd(r)

Next ==
    \/ \E r \in Requests : RequestNext(r)
    \/ \E p \in Peerings : DeletePeering(p) \/ ProvisionBegin(p)
    \/ Announce
    \/ ProvisionError
    \/ UpsertNext
    \/ Activate

Spec == Init /\ [][Next]_vars

-----------------------------------------------------------------------------
(* Properties. *)

UpdateRequest == [op : {"update"}, p : Peerings, stale : BOOLEAN, given : Bodies, row : Row]
OverrideRequest == [op : {"add_static", "withdraw"}, p : Peerings, prefix : OverridePrefixes]
EffectiveRequest ==
    [op : {"effective"}, listed : UNION {[S -> Policies] : S \in SUBSET Peerings}]
Job == [p : Peerings, row : Row, stale : BOOLEAN, announce : BOOLEAN, left : Seq(RouteEntry)]

ASSUME SentinelAssumption ==
    /\ NoRow \notin Row
    /\ NoJob \notin Job
    /\ NoRequest \notin UpdateRequest \cup OverrideRequest \cup EffectiveRequest

(* Every variable has its type. *)
TypeOK ==
    /\ peerings \in [Peerings -> Row]
    /\ routes \in [Peerings -> Seq(RouteEntry)]
    /\ announced \in [Peerings -> SUBSET Prefix]
    /\ job \in Job \cup {NoJob}
    /\ reqs \in [Requests ->
                   UpdateRequest \cup OverrideRequest \cup EffectiveRequest \cup {NoRequest}]
    /\ acked \in [Peerings -> Settings]
    /\ overrun \in [Peerings -> SUBSET Fields]
    /\ withdrawn \subseteq Peerings \X Prefix

(* One route per peering and prefix, although the provisioner and any     *)
(* number of OverrideRoute calls write the same prefixes: withdrawing a   *)
(* prefix really removes it.                                              *)
OneRoutePerPrefix ==
    \A p \in Peerings : \A i, j \in DOMAIN routes[p] :
        i # j => routes[p][i].prefix # routes[p][j].prefix

(* A confirmed direction or policy stays in force until a client gives    *)
(* another one, or until somebody who read the peering before it was      *)
(* confirmed writes his copy back.  Reading and writing alone, which the  *)
(* provisioner and an Update of the other field do all the time, loses    *)
(* nothing: not even on PostgreSQL, whose lists lack the policy.          *)
SettingsKept ==
    \A p \in Peerings, f \in Fields :
        f \notin overrun[p] => peerings[p].settings[f] = acked[p][f]

(* An active peering has a route for every block of its accepter, except   *)
(* those a client withdrew: repeated provisioning, overrides of the same   *)
(* prefixes and stale writes in between leave no gap.                      *)
ActiveHasRoutes ==
    \A p \in Peerings : peerings[p].state = "active" =>
        \A b \in Values(AccepterBlocks[p]) : Has(routes[p], b) \/ <<p, b>> \in withdrawn

(* The reference for effective routes: a route is denied if a denied       *)
(* prefix covers all of its addresses; else it is accepted if it is within *)
(* an allowed prefix, or none is given, and among the first maxPrefixes    *)
(* such routes; the rest is filtered.                                      *)
Covered(e, prefixes) == \E q \in prefixes : Addresses(e.prefix) \subseteq Addresses(q)

Eligible(policy, e) ==
    ~Covered(e, policy.denied) /\ (policy.allowed = {} \/ Covered(e, policy.allowed))

Verdict(policy, s, i) ==
    CASE Covered(s[i], policy.denied) -> "deny"
      [] /\ Eligible(policy, s[i])
         /\ \/ policy.maxPrefixes = 0
            \/ Cardinality({j \in 1..(i - 1) : Eligible(policy, s[j])}) < policy.maxPrefixes
         -> "accept"
      [] OTHER -> "filtered"

(* GetEffectiveRoutes gives every route the verdict of the policy it      *)
(* listed, on whatever the route store holds when it gets there.          *)
EffectiveFollowsPolicy ==
    \A r \in Requests : At(r, "effective") =>
        \A p \in DOMAIN reqs[r].listed : \A i \in DOMAIN routes[p] :
            EffectiveRoutes(reqs[r].listed[p], routes[p])[i]
                = Verdict(reqs[r].listed[p], routes[p], i)

-----------------------------------------------------------------------------
(* functional-spec FR-5.1 on denied prefixes: "These prefixes are never *)
(* exchanged".  The provisioner injects every block of the VPCs.        *)
DeniedNeverExchanged ==
    \A p \in Peerings : peerings[p].state = "active" =>
        \A q \in announced[p] :
            ~\E d \in peerings[p].settings.policy.denied : prefixContains(d, q)
=============================================================================
