-------------------------- MODULE PeeringLifecycle --------------------------
(***************************************************************************)
(* The life of VPC peerings: the API's peering handlers, the peering store *)
(* they share with the controller, the controller's reconcile loop with    *)
(* its provisioner, and the route targets and routes the provisioner puts  *)
(* into the BGP fabric.                                                    *)
(*                                                                         *)
(* Every store call takes the store's lock (or is one SQL statement), so a *)
(* store call is one atomic step; a handler is several of them.  A handler *)
(* first reads a peering into a private copy, checks and edits the copy,   *)
(* and then writes the WHOLE copy back.  Everything interesting happens    *)
(* between the read and the write.                                         *)
(***************************************************************************)
EXTENDS Naturals, FiniteSets

CONSTANTS
    VPCs,             \* VPC identifiers; all are registered initially
    Accounts,
    Owner,            \* Owner[v]: the account VPC v belongs to
    Overlaps,         \* the sets {v, w} of two VPCs whose CIDR blocks overlap
    Peerings,         \* the UUIDs available for peerings (bounds their number)
    Requests,         \* API handler goroutines that may run at the same time
    DirectionInputs,  \* direction strings that clients send
    Policies,         \* route policies that clients send
    ZeroPolicy,       \* the zero value of model.RoutePolicy
    MaxPeerings,      \* defaultMaxPeerings
    Backend,          \* which store implementation is in use
    Stimuli,          \* what the environment does in this instance
    NoRow, NoPeering  \* "no such peering", "no identifier yet"

(* The states and directions of internal/model/peering.go. *)
PeeringStates == {"pending_acceptance", "provisioning", "active", "degraded",
                  "deleting", "deleted", "failed", "rejected", "expired"}

Directions == {"bidirectional", "requester_to_accepter", "accepter_to_requester"}

(* A stored peering.  AccountID is Owner[requester]; RouteCount, CrossRegion *)
(* and the timestamps other than ProvisionedAt only feed responses.          *)
Row == [requester     : VPCs,
        accepter      : VPCs,
        direction     : DirectionInputs,
        state         : PeeringStates,
        policy        : Policies \cup {ZeroPolicy},
        provisionedAt : {"nil", "set"}]

(* API calls, the ticks of a running controller, the passing of seven days, *)
(* and errors of the fabric and of the database.                            *)
AllStimuli == {"create", "update", "delete", "accept", "reject", "delete_vpc",
               "reconcile", "age", "fabric_error", "store_error"}

ASSUME OwnerAssumption == Owner \in [VPCs -> Accounts]
ASSUME OverlapsAssumption == Overlaps \subseteq SUBSET VPCs
ASSUME QuotaAssumption == MaxPeerings \in Nat \ {0}
ASSUME FiniteAssumption == IsFiniteSet(Peerings) /\ IsFiniteSet(Requests)
ASSUME BackendAssumption == Backend \in {"memory", "postgres"}
ASSUME StimuliAssumption == Stimuli \subseteq AllStimuli
ASSUME NoRowAssumption == NoRow \notin Row
ASSUME NoPeeringAssumption == NoPeering \notin Peerings

VARIABLES
    peerings,   \* the peering store
    liveVPCs,   \* VPCs whose stored state is not "deleted"
    vpcDeletes, \* VPCs a DELETE handler takes to be free of peerings
    reqs,       \* the API requests in flight, with their private copies
    pc,         \* the controller: where reconcileAll is
    todo,       \* ... the listed provisioning peerings not yet visited
    job,        \* ... the peering ProvisionPeering works on, and its copy
    snap,       \* ... the listed pending peerings not yet visited, as copies
    imports,    \* imports[v]: the VPCs whose export RT the VRF of v imports
    injected,   \* the VPCs whose CIDRs are advertised as Type-5 routes
    routes,     \* routes[p]: VPCs whose CIDRs are route entries of peering p
    aged,       \* peerings created more than seven days ago
    consents    \* history: <<p, a>> when account a passed Accept's checks on p

apiVars == <<vpcDeletes, liveVPCs, reqs>>
ctlVars == <<pc, todo, job, snap>>
fabricVars == <<imports, injected, routes>>
vars == <<peerings, liveVPCs, vpcDeletes, reqs, pc, todo, job, snap,
          imports, injected, routes, aged, consents>>

-----------------------------------------------------------------------------
(* The peering store. *)

Exists(p) == peerings[p] # NoRow

(* The in-memory Get hides deleted peerings, the PostgreSQL one does not. *)
Get(p) ==
    IF Exists(p) /\ (Backend = "memory" => peerings[p].state # "deleted")
    THEN peerings[p] ELSE NoRow

Endpoints(row) == {row.requester, row.accepter}

(* The peerings that FindByVPCs and CountByVPC look at. *)
Counted(p) == Exists(p) /\ peerings[p].state \notin {"deleted", "rejected", "expired"}

FindByVPCs(v, w) == {p \in Peerings : Counted(p) /\ Endpoints(peerings[p]) = {v, w}}

CountByVPC(v) == Cardinality({p \in Peerings : Counted(p) /\ v \in Endpoints(peerings[p])})

ListByState(state) == {p \in Peerings : Exists(p) /\ peerings[p].state = state}

(* The PostgreSQL ListByState does not select the route policy. *)
ListedRow(p) ==
    IF Backend = "postgres" THEN [peerings[p] EXCEPT !.policy = ZeroPolicy]
    ELSE peerings[p]

(* Update overwrites the stored peering with the caller's copy, whatever *)
(* has happened to it since the copy was taken.                          *)
Update(p, row) == peerings' = [peerings EXCEPT ![p] = row]

-----------------------------------------------------------------------------
(* API requests. *)

IdleRequest == [op |-> "idle", step |-> "none", p |-> NoPeering, row |-> NoRow]

Idle(r) == reqs[r] = IdleRequest

Finish(r) == reqs' = [reqs EXCEPT ![r] = IdleRequest]

Begin(r, op, step, p, row) ==
    /\ Idle(r)
    /\ op \in Stimuli
    /\ reqs' = [reqs EXCEPT ![r] = [op |-> op, step |-> step, p |-> p, row |-> row]]

At(r, op, step) == reqs[r].op = op /\ reqs[r].step = step

Goto(r, step) == reqs' = [reqs EXCEPT ![r].step = step]

(* Fault: a state literal that is not one of the model's. *)
NewRowUnknownState(v, w, dir, pol) ==
    [requester |-> v, accepter |-> w, direction |-> dir, policy |-> pol,
     state |-> IF Owner[v] = Owner[w] THEN "provisioning" ELSE "pending",
     provisionedAt |-> "nil"]

(* The peering that Create builds: auto-accepted within one account. *)
NewRow(v, w, dir, pol) ==
    [requester |-> v, accepter |-> w, direction |-> dir, policy |-> pol,
     state |-> IF Owner[v] = Owner[w] THEN "provisioning" ELSE "pending_acceptance",
     provisionedAt |-> "nil"]

(* Fault: Create without its overlap check. *)
CreateBeginOverlapping(r, a, v, w, dir, pol) ==
    /\ v # w
    /\ {v, w} \subseteq liveVPCs
    /\ Owner[v] = a
    /\ dir \in Directions
    /\ Begin(r, "create", "duplicate", NoPeering, NewRow(v, w, dir, pol))
    /\ UNCHANGED <<peerings, liveVPCs, vpcDeletes, ctlVars, fabricVars, aged, consents>>

(* Create up to the first look at the peering store: the caller owns the  *)
(* requester VPC, both VPCs exist and do not overlap, the direction is a  *)
(* known one.  A VPC, once deleted, stays so: the two vpcs.Get are one    *)
(* step without loss.                                                     *)
CreateBegin(r, a, v, w, dir, pol) ==
    /\ v # w
    /\ {v, w} \subseteq liveVPCs
    /\ Owner[v] = a
    /\ {v, w} \notin Overlaps
    /\ dir \in Directions
    /\ Begin(r, "create", "duplicate", NoPeering, NewRow(v, w, dir, pol))
    /\ UNCHANGED <<peerings, liveVPCs, vpcDeletes, ctlVars, fabricVars, aged, consents>>

(* Fault: the duplicate check looks at active peerings only. *)
CreateDuplicateCheckActive(r) ==
    /\ At(r, "create", "duplicate")
    /\ IF \A p \in FindByVPCs(reqs[r].row.requester, reqs[r].row.accepter) :
             peerings[p].state # "active"
       THEN Goto(r, "count_requester")
       ELSE Finish(r)
    /\ UNCHANGED <<peerings, liveVPCs, vpcDeletes, ctlVars, fabricVars, aged, consents>>

CreateDuplicateCheck(r) ==
    /\ At(r, "create", "duplicate")
    /\ IF FindByVPCs(reqs[r].row.requester, reqs[r].row.accepter) = {}
       THEN Goto(r, "count_requester")
       ELSE Finish(r)
    /\ UNCHANGED <<peerings, liveVPCs, vpcDeletes, ctlVars, fabricVars, aged, consents>>

(* Fault: only the accepter's quota is looked at. *)
CreateQuotaRequesterSkipped(r) ==
    /\ At(r, "create", "count_requester")
    /\ Goto(r, "count_accepter")
    /\ UNCHANGED <<peerings, liveVPCs, vpcDeletes, ctlVars, fabricVars, aged, consents>>

CreateQuotaRequester(r) ==
    /\ At(r, "create", "count_requester")
    /\ IF CountByVPC(reqs[r].row.requester) < MaxPeerings
       THEN Goto(r, "count_accepter")
       ELSE Finish(r)
    /\ UNCHANGED <<peerings, liveVPCs, vpcDeletes, ctlVars, fabricVars, aged, consents>>

CreateQuotaAccepter(r) ==
    /\ At(r, "create", "count_accepter")
    /\ IF CountByVPC(reqs[r].row.accepter) < MaxPeerings
       THEN Goto(r, "insert")
       ELSE Finish(r)
    /\ UNCHANGED <<peerings, liveVPCs, vpcDeletes, ctlVars, fabricVars, aged, consents>>

(* uuid.New yields an identifier that no peering has. *)
CreateInsert(r, p) ==
    /\ At(r, "create", "insert")
    /\ ~Exists(p)
    /\ Update(p, reqs[r].row)
    /\ Finish(r)
    /\ UNCHANGED <<liveVPCs, vpcDeletes, ctlVars, fabricVars, aged, consents>>

(* Fault: Update without its state check. *)
UpdateReadAnyState(r, a, p, dir, pol) ==
    /\ Get(p) # NoRow
    /\ Get(p).requester \in liveVPCs
    /\ Owner[Get(p).requester] = a
    /\ Begin(r, "update", "write", p, [Get(p) EXCEPT !.direction = dir, !.policy = pol])
    /\ UNCHANGED <<peerings, liveVPCs, vpcDeletes, ctlVars, fabricVars, aged, consents>>

(* Update: the requester's owner edits a copy.  The new direction is not  *)
(* validated.                                                             *)
UpdateRead(r, a, p, dir, pol) ==
    /\ Get(p) # NoRow
    /\ Get(p).requester \in liveVPCs
    /\ Owner[Get(p).requester] = a
    /\ Get(p).state \in {"active", "provisioning"}
    /\ Begin(r, "update", "write", p, [Get(p) EXCEPT !.direction = dir, !.policy = pol])
    /\ UNCHANGED <<peerings, liveVPCs, vpcDeletes, ctlVars, fabricVars, aged, consents>>

(* Fault: Accept and Reject by anyone. *)
DecidableByAnyone(a, p) ==
    /\ Get(p) # NoRow
    /\ Get(p).state = "pending_acceptance"
    /\ Get(p).accepter \in liveVPCs

(* Accept and Reject share their checks. *)
Decidable(a, p) ==
    /\ Get(p) # NoRow
    /\ Get(p).state = "pending_acceptance"
    /\ Get(p).accepter \in liveVPCs
    /\ Owner[Get(p).accepter] = a

AcceptRead(r, a, p) ==
    /\ Decidable(a, p)
    /\ Begin(r, "accept", "write", p, [Get(p) EXCEPT !.state = "provisioning"])
    /\ consents' = consents \cup {<<p, a>>}
    /\ UNCHANGED <<peerings, liveVPCs, vpcDeletes, ctlVars, fabricVars, aged>>

RejectRead(r, a, p) ==
    /\ Decidable(a, p)
    /\ Begin(r, "reject", "write", p, [Get(p) EXCEPT !.state = "rejected"])
    /\ UNCHANGED <<peerings, liveVPCs, vpcDeletes, ctlVars, fabricVars, aged, consents>>

(* The Update call that ends the Update, Accept and Reject handlers. *)
WriteBack(r) ==
    /\ At(r, "update", "write") \/ At(r, "accept", "write") \/ At(r, "reject", "write")
    /\ Update(reqs[r].p, reqs[r].row)
    /\ Finish(r)
    /\ UNCHANGED <<liveVPCs, vpcDeletes, ctlVars, fabricVars, aged, consents>>

(* The caller owns a VPC on either side; a deleted VPC has no owner. *)
RequirePeeringAccess(a, row) == \E v \in Endpoints(row) \cap liveVPCs : Owner[v] = a

DeleteRead(r, a, p) ==
    /\ Get(p) # NoRow
    /\ RequirePeeringAccess(a, Get(p))
    /\ Begin(r, "delete", "write", p, NoRow)
    /\ UNCHANGED <<peerings, liveVPCs, vpcDeletes, ctlVars, fabricVars, aged, consents>>

(* Straight to "deleted".  PostgreSQL reports a second Delete as not found; *)
(* either way the stored state is "deleted".                                *)
DeleteWrite(r) ==
    /\ At(r, "delete", "write")
    /\ Update(reqs[r].p, [peerings[reqs[r].p] EXCEPT !.state = "deleted"])
    /\ Finish(r)
    /\ UNCHANGED <<liveVPCs, vpcDeletes, ctlVars, fabricVars, aged, consents>>

(* A SELECT may fail.  Create returns the error, which is as if its client *)
(* had not called; VPCHandler.Delete drops it and goes on with a count of 0. *)
CountFails == Backend = "postgres" /\ "store_error" \in Stimuli

(* VPCHandler.Delete up to CountByVPC, and its vpcs.Delete. *)
DeleteVPCCheck(a, v) ==
    /\ "delete_vpc" \in Stimuli
    /\ v \in liveVPCs \ vpcDeletes
    /\ Owner[v] = a
    /\ CountByVPC(v) = 0 \/ CountFails
    /\ vpcDeletes' = vpcDeletes \cup {v}
    /\ UNCHANGED <<peerings, liveVPCs, reqs, ctlVars, fabricVars, aged, consents>>

DeleteVPCWrite(v) ==
    /\ v \in vpcDeletes
    /\ liveVPCs' = liveVPCs \ {v}
    /\ vpcDeletes' = vpcDeletes \ {v}
    /\ UNCHANGED <<peerings, reqs, ctlVars, fabricVars, aged, consents>>

-----------------------------------------------------------------------------
(* The controller.  One goroutine runs reconcileAll on every tick.  No code *)
(* stores the states "deleting" and "failed", so the lists of its steps 2   *)
(* and 4 are empty and those steps do nothing.                              *)

NoJob == [p |-> NoPeering, row |-> NoRow]
NoSnap == [p \in Peerings |-> NoRow]

(* reconcileAll, step 1: list the provisioning peerings. *)
ReconcileStart ==
    /\ "reconcile" \in Stimuli
    /\ pc = "idle"
    /\ todo' = ListByState("provisioning")
    /\ pc' = "provision"
    /\ UNCHANGED <<peerings, job, snap, apiVars, fabricVars, aged, consents>>

(* What ProvisionPeering requires before it touches the fabric. *)
Provisionable(p) ==
    /\ Get(p) # NoRow
    /\ Get(p).state = "provisioning"
    /\ Endpoints(Get(p)) \subseteq liveVPCs

(* Fault: the provisioner takes its copy from the list instead of Get. *)
ProvisionBeginListed(p) ==
    /\ pc = "provision"
    /\ p \in todo
    /\ Provisionable(p)
    /\ todo' = todo \ {p}
    /\ job' = [p |-> p, row |-> ListedRow(p)]
    /\ pc' = "rt_requester"
    /\ UNCHANGED <<peerings, snap, apiVars, fabricVars, aged, consents>>

ProvisionBegin(p) ==
    /\ pc = "provision"
    /\ p \in todo
    /\ Provisionable(p)
    /\ todo' = todo \ {p}
    /\ job' = [p |-> p, row |-> Get(p)]
    /\ pc' = "rt_requester"
    /\ UNCHANGED <<peerings, snap, apiVars, fabricVars, aged, consents>>

(* Fault: reconcileAll returns on the first peering it cannot provision. *)
ProvisionSkipReturns(p) ==
    /\ pc = "provision"
    /\ p \in todo
    /\ ~Provisionable(p)
    /\ todo' = {}
    /\ pc' = "idle"
    /\ UNCHANGED <<peerings, job, snap, apiVars, fabricVars, aged, consents>>

(* ProvisionPeering returns an error; the loop logs it and goes on. *)
ProvisionSkip(p) ==
    /\ pc = "provision"
    /\ p \in todo
    /\ ~Provisionable(p)
    /\ todo' = todo \ {p}
    /\ UNCHANGED <<peerings, pc, job, snap, apiVars, fabricVars, aged, consents>>

(* ConfigureRT appends; a repeated import is one import of the VRF. *)
AddImport(v, w) == imports' = [imports EXCEPT ![v] = @ \cup {w}]

ConfigureRTRequester ==
    /\ pc = "rt_requester"
    /\ AddImport(job.row.requester, job.row.accepter)
    /\ pc' = "rt_accepter"
    /\ UNCHANGED <<peerings, todo, job, snap, apiVars, injected, routes, aged, consents>>

ConfigureRTAccepter ==
    /\ pc = "rt_accepter"
    /\ AddImport(job.row.accepter, job.row.requester)
    /\ pc' = "inject_accepter"
    /\ UNCHANGED <<peerings, todo, job, snap, apiVars, injected, routes, aged, consents>>

(* The directions in which the requester's prefixes are advertised too. *)
ExportsRequester(dir) == dir \in {"bidirectional", "accepter_to_requester"}

InjectAccepter ==
    /\ pc = "inject_accepter"
    /\ injected' = injected \cup {job.row.accepter}
    /\ pc' = IF ExportsRequester(job.row.direction) THEN "inject_requester" ELSE "upsert"
    /\ UNCHANGED <<peerings, todo, job, snap, apiVars, imports, routes, aged, consents>>

InjectRequester ==
    /\ pc = "inject_requester"
    /\ injected' = injected \cup {job.row.requester}
    /\ pc' = "upsert"
    /\ UNCHANGED <<peerings, todo, job, snap, apiVars, imports, routes, aged, consents>>

(* Fault: errors of the fabric calls are ignored. *)
FabricErrorIgnored ==
    /\ "fabric_error" \in Stimuli
    /\ pc \in {"rt_requester", "rt_accepter", "inject_accepter", "inject_requester"}
    /\ pc' = "upsert"
    /\ UNCHANGED <<peerings, todo, job, snap, apiVars, fabricVars, aged, consents>>

(* A fabric call fails: ProvisionPeering returns and undoes nothing. *)
FabricError ==
    /\ "fabric_error" \in Stimuli
    /\ pc \in {"rt_requester", "rt_accepter", "inject_accepter", "inject_requester"}
    /\ pc' = "provision"
    /\ job' = NoJob
    /\ UNCHANGED <<peerings, todo, snap, apiVars, fabricVars, aged, consents>>

StoredOrigins(row) ==
    IF ExportsRequester(row.direction) THEN Endpoints(row) ELSE {row.accepter}

UpsertRoutes ==
    /\ pc = "upsert"
    /\ routes' = [routes EXCEPT ![job.p] = @ \cup StoredOrigins(job.row)]
    /\ pc' = "activate"
    /\ UNCHANGED <<peerings, todo, job, snap, apiVars, imports, injected, aged, consents>>

(* Fault: Activate sets the time but forgets the state. *)
ActivateKeepsState ==
    /\ pc = "activate"
    /\ Update(job.p, [job.row EXCEPT !.provisionedAt = "set"])
    /\ job' = NoJob
    /\ pc' = "provision"
    /\ UNCHANGED <<todo, snap, apiVars, fabricVars, aged, consents>>

(* The last step writes the copy read before all the fabric calls. *)
Activate ==
    /\ pc = "activate"
    /\ Update(job.p, [job.row EXCEPT !.state = "active", !.provisionedAt = "set"])
    /\ job' = NoJob
    /\ pc' = "provision"
    /\ UNCHANGED <<todo, snap, apiVars, fabricVars, aged, consents>>

(* reconcileAll, step 3: list the pending peerings, as copies. *)
ListPending ==
    /\ pc = "provision"
    /\ todo = {}
    /\ snap' = [p \in Peerings |->
                  IF p \in ListByState("pending_acceptance") THEN ListedRow(p) ELSE NoRow]
    /\ pc' = "expire"
    /\ UNCHANGED <<peerings, todo, job, apiVars, fabricVars, aged, consents>>

(* Fault: the expiry loop writes every listed peering back. *)
ExpireVisitWritesAll(p) ==
    /\ pc = "expire"
    /\ snap[p] # NoRow
    /\ Update(p, IF p \in aged THEN [snap[p] EXCEPT !.state = "expired"] ELSE snap[p])
    /\ snap' = [snap EXCEPT ![p] = NoRow]
    /\ UNCHANGED <<pc, todo, job, apiVars, fabricVars, aged, consents>>

(* The loop body of step 3: an old peering is written back as expired. *)
ExpireVisit(p) ==
    /\ pc = "expire"
    /\ snap[p] # NoRow
    /\ IF p \in aged THEN Update(p, [snap[p] EXCEPT !.state = "expired"])
                     ELSE UNCHANGED peerings
    /\ snap' = [snap EXCEPT ![p] = NoRow]
    /\ UNCHANGED <<pc, todo, job, apiVars, fabricVars, aged, consents>>

ReconcileEnd ==
    /\ pc = "expire"
    /\ snap = NoSnap
    /\ pc' = "idle"
    /\ UNCHANGED <<peerings, todo, job, snap, apiVars, fabricVars, aged, consents>>

(* Seven days pass since the creation of p. *)
Age(p) ==
    /\ "age" \in Stimuli
    /\ Exists(p)
    /\ p \notin aged
    /\ aged' = aged \cup {p}
    /\ UNCHANGED <<peerings, apiVars, ctlVars, fabricVars, consents>>

-----------------------------------------------------------------------------
Init ==
    /\ peerings = [p \in Peerings |-> NoRow]
    /\ liveVPCs = VPCs
    /\ vpcDeletes = {}
    /\ reqs = [r \in Requests |-> IdleRequest]
    /\ pc = "idle"
    /\ todo = {}
    /\ job = NoJob
    /\ snap = NoSnap
    /\ imports = [v \in VPCs |-> {}]
    /\ injected = {}
    /\ routes = [p \in Peerings |-> {}]
    /\ aged = {}
    /\ consents = {}

CreateNext(r) ==
    \/ \E a \in Accounts, v \in VPCs, w \in VPCs, dir \in DirectionInputs, pol \in Policies :
          CreateBegin(r, a, v, w, dir, pol)
    \/ CreateDuplicateCheck(r)
    \/ CreateQuotaRequester(r)
    \/ CreateQuotaAccepter(r)
    \/ \E p \in Peerings : CreateInsert(r, p)

MutateNext(r) ==
    \/ \E a \in Accounts, p \in Peerings, dir \in DirectionInputs, pol \in Policies :
          UpdateRead(r, a, p, dir, pol)
    \/ \E a \in Accounts, p \in Peerings :
          AcceptRead(r, a, p) \/ RejectRead(r, a, p) \/ DeleteRead(r, a, p)
    \/ WriteBack(r)
    \/ DeleteWrite(r)

VPCNext(v) == (\E a \in Accounts : DeleteVPCCheck(a, v)) \/ DeleteVPCWrite(v)

ControllerNext ==
    \/ ReconcileStart
    \/ \E p \in Peerings : ProvisionBegin(p) \/ ProvisionSkip(p) \/ ExpireVisit(p)
    \/ ConfigureRTRequester
    \/ ConfigureRTAccepter
    \/ InjectAccepter
    \/ InjectRequester
    \/ UpsertRoutes
    \/ Activate
    \/ ListPending
    \/ ReconcileEnd

Next ==
    \/ \E r \in Requests : CreateNext(r) \/ MutateNext(r)
    \/ \E v \in VPCs : VPCNext(v)
    \/ ControllerNext
    \/ FabricError
    \/ \E p \in Peerings : Age(p)

Spec == Init /\ [][Next]_vars

(* The reconcile loop runs as long as the controller does; nobody has to *)
(* call the API, and a handler may hang in a slow client or connection.  *)
FairSpec == Spec /\ WF_vars(ControllerNext)

-----------------------------------------------------------------------------
(* Properties. *)

RequestSteps == {"none", "duplicate", "count_requester", "count_accepter", "insert", "write"}
FabricSteps == {"rt_requester", "rt_accepter", "inject_accepter", "inject_requester"}
JobSteps == FabricSteps \cup {"upsert", "activate"}

(* Every variable has its type. *)
TypeOK ==
    /\ peerings \in [Peerings -> Row \cup {NoRow}]
    /\ liveVPCs \subseteq VPCs
    /\ vpcDeletes \subseteq VPCs
    /\ reqs \in [Requests -> [op   : {"idle", "create", "update", "delete", "accept", "reject"},
                              step : RequestSteps,
                              p    : Peerings \cup {NoPeering},
                              row  : Row \cup {NoRow}]]
    /\ pc \in {"idle", "provision", "expire"} \cup JobSteps
    /\ todo \subseteq Peerings
    /\ job \in [p : Peerings \cup {NoPeering}, row : Row \cup {NoRow}]
    /\ snap \in [Peerings -> Row \cup {NoRow}]
    /\ imports \in [VPCs -> SUBSET VPCs]
    /\ injected \subseteq VPCs
    /\ routes \in [Peerings -> SUBSET VPCs]
    /\ aged \subseteq Peerings
    /\ consents \subseteq Peerings \X Accounts

(* Peering p, between the VPCs of row, is within one account or the owner of *)
(* the accepter VPC has called Accept on it.                                 *)
Consented(p, row) ==
    Owner[row.requester] = Owner[row.accepter] \/ <<p, Owner[row.accepter]>> \in consents

(* Consent: however handlers and controller interleave, and whatever stale *)
(* copy is written last, a stored peering is provisioning or active only   *)
(* with the accepter's consent (Create's auto-accept, Accept's owner and   *)
(* state checks, the provisioner's state check).                           *)
Consent ==
    \A p \in Peerings :
        Exists(p) /\ peerings[p].state \in {"provisioning", "active"}
            => Consented(p, peerings[p])

(* Peering p connects exactly the VPCs in S, lawfully, and is decided.  It  *)
(* need not be active any more: Delete, Reject and the expiry may overtake  *)
(* the provisioner, and none of them takes anything out of the fabric.      *)
Lawful(p, S) ==
    /\ Exists(p)
    /\ peerings[p].state # "pending_acceptance"
    /\ Endpoints(peerings[p]) = S
    /\ peerings[p].requester # peerings[p].accepter
    /\ S \notin Overlaps
    /\ Consented(p, peerings[p])

(* Route isolation: a VRF imports another VPC's routes, a VPC is announced *)
(* to the fabric, and a route entry is stored, only on account of a        *)
(* peering between two different VPCs without overlapping CIDRs that has   *)
(* the accepter's consent and is not (or no longer) pending.  This is      *)
(* about ProvisionPeering's fabric calls, which use a copy that may be out *)
(* of date, may fail half-way, and race Accept, Reject and the expiry.     *)
RouteIsolation ==
    /\ \A v \in VPCs : \A w \in imports[v] : \E p \in Peerings : Lawful(p, {v, w})
    /\ \A v \in injected : \E p \in Peerings, w \in VPCs : Lawful(p, {v, w})
    /\ \A p \in Peerings : \A v \in routes[p] : \E w \in VPCs : Lawful(p, {v, w})

(* What the fabric must hold for a peering with these endpoints to carry *)
(* traffic towards the accepter.                                         *)
Programmed(row) ==
    /\ row.accepter \in imports[row.requester]
    /\ row.requester \in imports[row.accepter]
    /\ row.accepter \in injected

(* A peering reported active is in the fabric: ProvisionPeering stores    *)
(* "active" after its last fabric call, and no stale copy with "active"   *)
(* can be written back before the fabric calls of that peering were made, *)
(* whichever of them failed and were retried.                             *)
ActiveIsProgrammed ==
    \A p \in Peerings :
        Exists(p) /\ peerings[p].state = "active"
            => Programmed(peerings[p]) /\ peerings[p].provisionedAt = "set"

(* A peering that is pending, provisioning or active has a route policy    *)
(* that one of its clients sent.  PostgreSQL's ListByState leaves the      *)
(* policy out, so the copies of the expiry loop lack it and erase it when  *)
(* they are written; but they are written as expired only, and nobody      *)
(* takes a fresh copy of an expired peering back into one of these states. *)
PolicyGiven ==
    \A p \in Peerings :
        Exists(p) /\ peerings[p].state \in {"pending_acceptance", "provisioning", "active"}
            => peerings[p].policy \in Policies

(* A decided peering is never offered for acceptance again: no write of a *)
(* stale copy, the expiry loop's included, brings back                    *)
(* "pending_acceptance".                                                  *)
NeverPendingAgain ==
    [][\A p \in Peerings :
          Exists(p) /\ peerings[p].state # "pending_acceptance"
              => peerings'[p].state # "pending_acceptance"]_vars

(* A copy of p is in somebody's hands and may still be written. *)
CopyInFlight(p) ==
    \/ \E r \in Requests : reqs[r].p = p /\ reqs[r].op # "delete"
    \/ job.p = p
    \/ snap[p] # NoRow

(* Once nobody holds a copy of a deleted peering, it stays deleted: no     *)
(* handler and no controller pass takes a fresh copy of a deleted peering  *)
(* that it would write back, not even with the PostgreSQL Get, which       *)
(* returns deleted rows.                                                   *)
QuietDeletionIsFinal ==
    [][\A p \in Peerings :
          Exists(p) /\ peerings[p].state = "deleted" /\ ~CopyInFlight(p)
              => peerings'[p].state = "deleted" /\ ~CopyInFlight(p)']_vars

(* Who may write a peering at the same time: handlers and provisioner. *)
Writers == Cardinality(Requests) + IF "reconcile" \in Stimuli THEN 1 ELSE 0

(* The quota is only as good as its timing: the counts and the insert are  *)
(* calls apart, and a write of an older copy can bring a deleted peering   *)
(* back.  Still a VPC exceeds its quota by at most one peering per further *)
(* writer that runs at the same time: overruns do not add up over time.    *)
QuotaOverrunBounded ==
    \A v \in VPCs : CountByVPC(v) <= MaxPeerings + Writers - 1

(* In the same way two VPCs never have more peerings than there are writers. *)
DuplicatesBounded ==
    \A v, w \in VPCs : Cardinality(FindByVPCs(v, w)) <= Writers

InState(p, state) == Exists(p) /\ peerings[p].state = state

(* A provisioning peering whose VPCs stay is eventually settled, however    *)
(* often handlers interfere: the reconcile loop visits every one of them.   *)
ProvisioningEnds ==
    \A p \in Peerings :
        InState(p, "provisioning")
            ~> (~InState(p, "provisioning") \/ ~(Endpoints(peerings[p]) \subseteq liveVPCs))

(* A pending peering older than seven days does not stay pending: the loop *)
(* of step 3 reaches it whatever the provisioning steps before it do.      *)
OldPendingEnds ==
    \A p \in Peerings :
        (InState(p, "pending_acceptance") /\ p \in aged) ~> ~InState(p, "pending_acceptance")

-----------------------------------------------------------------------------
(* What the documentation promises and the interleavings break. *)

(* functional-spec FR-2.7: "Deletion is permanent." *)
DeletionIsPermanent ==
    [][\A p \in Peerings :
          Exists(p) /\ peerings[p].state = "deleted" => peerings'[p].state = "deleted"]_vars
=============================================================================
