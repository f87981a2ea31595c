------------------------------- MODULE Fabric -------------------------------
(***************************************************************************)
(* The controller against the BGP service: provisioning, tearing down and  *)
(* retrying peerings, call by call, with failing calls.  The BGP service   *)
(* keeps lists: importing a route target twice or injecting routes twice   *)
(* leaves two entries, removing an import removes one of them, withdrawing *)
(* a prefix all of them.  Peerings share VPCs, and so these lists.         *)
(*                                                                         *)
(* The controller looks for peerings in the states deleting and failed,    *)
(* which no code of the repository stores (StepsLeftOut, proved in         *)
(* PeeringLifecycleProofs).                                                *)
(* Whoever is to store them is external: MarkDeleting and MarkFailed.      *)
(***************************************************************************)
EXTENDS Naturals, Sequences

CONSTANTS
    VPCs,
    Peerings,
    Requester, Accepter,    \* the VPCs of a peering
    Exporting,              \* peerings whose direction also exports the requester's routes
    Backend,                \* which peering store is in use
    MaxErrors,              \* bound on failing calls of the BGP service
    MaxMarks,               \* bound on the steps of the external party
    NoJob

ASSUME PeeringAssumption ==
    /\ Requester \in [Peerings -> VPCs]
    /\ Accepter \in [Peerings -> VPCs]
    /\ \A p \in Peerings : Requester[p] # Accepter[p]
ASSUME BoundAssumption == MaxErrors \in Nat /\ MaxMarks \in Nat
ASSUME BackendAssumption == Backend \in {"memory", "postgres"}

(* Those a peering may have once it is accepted. *)
PeeringStates == {"provisioning", "active", "failed", "deleting", "deleted"}

Between(p) == {Requester[p], Accepter[p]}

VARIABLES
    state,      \* state[p] in the peering store
    recent,     \* peerings created less than ten minutes ago
    vpcs,       \* VPCs that exist
    imports,    \* imports[v][w]: how often the VRF of v imports the RT of w
    injected,   \* injected[v]: how often the routes of v are injected
    step,       \* step of reconcileAll the controller is in, or "wait"
    left,       \* peerings listed for the step and not visited yet
    job,        \* the calls of the visit of a peering that are left to make
    errors, marks,
    torn        \* history: peerings whose tear-down was begun

vars == <<state, recent, vpcs, imports, injected, step, left, job, errors, marks, torn>>
store == <<state, recent, vpcs, marks>>
fabric == <<imports, injected>>

-----------------------------------------------------------------------------
(* The calls of a visit, in the order of the code. *)

Call(op, v, w) == [op |-> op, vpc |-> v, of |-> w]

BuildPeeringRTConfigs(p, action) ==
    <<Call(action, Requester[p], Accepter[p]), Call(action, Accepter[p], Requester[p])>>

InjectCalls(p) ==
    <<Call("inject", Accepter[p], Accepter[p])>>
      \o IF p \in Exporting THEN <<Call("inject", Requester[p], Requester[p])>> ELSE <<>>

ProvisionCalls(p) == BuildPeeringRTConfigs(p, "add_import") \o InjectCalls(p)

WithdrawCall(v) == IF v \in vpcs THEN <<Call("withdraw", v, v)>> ELSE <<>>

(* Fault: only the accepter's routes are withdrawn. *)
DeprovisionCallsAccepterOnly(p) ==
    WithdrawCall(Accepter[p])
      \o IF Between(p) \subseteq vpcs THEN BuildPeeringRTConfigs(p, "remove_import") ELSE <<>>

(* Withdrawals for the VPCs that are left, imports if both are. *)
DeprovisionCalls(p) ==
    WithdrawCall(Accepter[p]) \o WithdrawCall(Requester[p])
      \o IF Between(p) \subseteq vpcs THEN BuildPeeringRTConfigs(p, "remove_import") ELSE <<>>

-----------------------------------------------------------------------------
(* The BGP service. *)

(* Fault: the last entry is removed, whether there is one or not. *)
RemoveImportUnchecked(v, w) == imports' = [imports EXCEPT ![v][w] = @ - 1]

(* Fault: removing an import clears the list of the VRF. *)
RemoveImportAll(v, w) == imports' = [imports EXCEPT ![v] = [x \in VPCs |-> 0]]

(* The first matching entry goes, if there is one. *)
RemoveImport(v, w) == imports' = [imports EXCEPT ![v][w] = IF @ > 0 THEN @ - 1 ELSE 0]

ConfigureRT(c) ==
    /\ \/ c.op = "add_import" /\ imports' = [imports EXCEPT ![c.vpc][c.of] = @ + 1]
       \/ c.op = "remove_import" /\ RemoveImport(c.vpc, c.of)
    /\ UNCHANGED injected

InjectRoutes(c) ==
    /\ c.op = "inject"
    /\ injected' = [injected EXCEPT ![c.vpc] = @ + 1]
    /\ UNCHANGED imports

WithdrawRoutes(c) ==
    /\ c.op = "withdraw"
    /\ injected' = [injected EXCEPT ![c.vpc] = 0]
    /\ UNCHANGED imports

-----------------------------------------------------------------------------
(* The controller: reconcileAll. *)

ListByState(s) == {p \in Peerings : state[p] = s}

(* A pass begins with the list for step 1. *)
PassStart ==
    /\ step = "wait"
    /\ step' = "provision"
    /\ left' = ListByState("provisioning")
    /\ UNCHANGED <<store, fabric, job, errors, torn>>

(* Fault: the comparison is turned round, so that old peerings are retried. *)
RetriedOld(p) == p \notin recent

(* Only a peering created less than ten minutes ago is retried, whenever it *)
(* failed.                                                                  *)
Retried(p) == p \in recent

(* The loop of a step is over, and the next list is read. *)
NextStep ==
    /\ job = NoJob
    /\ left = {}
    /\ \/ step = "provision" /\ step' = "deprovision" /\ left' = ListByState("deleting")
       \/ step = "deprovision" /\ step' = "retry" /\ left' = ListByState("failed")
       \/ step = "retry" /\ step' = "wait" /\ left' = {}
    /\ UNCHANGED <<store, fabric, job, errors, torn>>

(* What the visit of p has to do; first, maybe, ProvisionPeering's reads. *)
Work(p, calls) == [p |-> p, reads |-> FALSE, calls |-> calls]
WorkAfterReads(p) == [p |-> p, reads |-> TRUE, calls |-> <<>>]

(* ProvisionPeering's checks on what it reads from the stores. *)
Provisionable(p) == state[p] = "provisioning" /\ Between(p) \subseteq vpcs

ProvisionPeering(p) ==
    job' = IF Provisionable(p) THEN Work(p, ProvisionCalls(p)) ELSE NoJob

Visit(p, s) ==
    /\ step = s
    /\ job = NoJob
    /\ p \in left
    /\ left' = left \ {p}
    /\ UNCHANGED <<recent, vpcs, marks, fabric, step, errors>>

VisitProvisioning(p) ==
    /\ Visit(p, "provision")
    /\ ProvisionPeering(p)
    /\ UNCHANGED <<state, torn>>

(* The in-memory Get does not find a deleted peering. *)
Found(p) == Backend = "postgres" \/ state[p] # "deleted"

VisitDeleting(p) ==
    /\ Visit(p, "deprovision")
    /\ job' = IF Found(p) THEN Work(p, DeprovisionCalls(p)) ELSE NoJob
    /\ torn' = IF Found(p) THEN torn \cup {p} ELSE torn
    /\ UNCHANGED state

(* The listed copy is written with the new state, then read again. *)
VisitFailed(p) ==
    /\ Visit(p, "retry")
    /\ \/ /\ Retried(p)
          /\ state' = [state EXCEPT ![p] = "provisioning"]
          /\ job' = WorkAfterReads(p)
       \/ ~Retried(p) /\ UNCHANGED <<state, job>>
    /\ UNCHANGED torn

RetryRead ==
    /\ job # NoJob
    /\ job.reads
    /\ ProvisionPeering(job.p)
    /\ UNCHANGED <<store, fabric, step, left, errors, torn>>

MakeCall ==
    /\ job # NoJob
    /\ job.calls # <<>>
    /\ ConfigureRT(Head(job.calls)) \/ InjectRoutes(Head(job.calls)) \/ WithdrawRoutes(Head(job.calls))
    /\ job' = [job EXCEPT !.calls = Tail(@)]
    /\ UNCHANGED <<store, step, left, errors, torn>>

(* ProvisionPeering returns the error, DeprovisionPeering drops it. *)
CallFails ==
    /\ job # NoJob
    /\ job.calls # <<>>
    /\ errors < MaxErrors
    /\ errors' = errors + 1
    /\ job' = IF step = "deprovision" THEN [job EXCEPT !.calls = Tail(@)] ELSE NoJob
    /\ UNCHANGED <<store, fabric, step, left, torn>>

(* The copy read at the start is written as active; a tear-down writes nothing. *)
JobDone ==
    /\ job # NoJob
    /\ ~job.reads /\ job.calls = <<>>
    /\ state' = IF step = "deprovision" THEN state ELSE [state EXCEPT ![job.p] = "active"]
    /\ job' = NoJob
    /\ UNCHANGED <<recent, vpcs, marks, fabric, step, left, errors, torn>>

-----------------------------------------------------------------------------
(* Everybody else. *)

Store(p, from, to) ==
    /\ state[p] \in from
    /\ state' = [state EXCEPT ![p] = to]
    /\ UNCHANGED <<recent, vpcs, fabric, step, left, job, errors, torn>>

(* The Delete handler checks who calls it, but no state. *)
Delete(p) == Store(p, PeeringStates \ {"deleted"}, "deleted") /\ UNCHANGED marks

Marked == marks < MaxMarks /\ marks' = marks + 1

MarkDeleting(p) == Marked /\ Store(p, {"active", "provisioning", "failed"}, "deleting")
MarkFailed(p) == Marked /\ Store(p, {"provisioning", "active"}, "failed")

(* On PostgreSQL the count of the VPC's peerings may fail, which is taken   *)
(* for a count of 0.                                                        *)
DeleteVPC(v) ==
    /\ v \in vpcs
    /\ \/ \A p \in Peerings : v \in Between(p) => state[p] = "deleted"
       \/ Backend = "postgres"
    /\ vpcs' = vpcs \ {v}
    /\ UNCHANGED <<state, recent, marks, fabric, step, left, job, errors, torn>>

(* Ten minutes have passed since p was created. *)
Aged(p) ==
    /\ p \in recent
    /\ recent' = recent \ {p}
    /\ UNCHANGED <<state, vpcs, marks, fabric, step, left, job, errors, torn>>

-----------------------------------------------------------------------------
Init ==
    /\ state = [p \in Peerings |-> "provisioning"]
    /\ recent = Peerings
    /\ vpcs = VPCs
    /\ imports = [v \in VPCs |-> [w \in VPCs |-> 0]]
    /\ injected = [v \in VPCs |-> 0]
    /\ step = "wait"
    /\ left = {}
    /\ job = NoJob
    /\ errors = 0
    /\ marks = 0
    /\ torn = {}

ControllerNext ==
    \/ PassStart
    \/ NextStep
    \/ \E p \in Peerings : VisitProvisioning(p) \/ VisitDeleting(p) \/ VisitFailed(p)
    \/ RetryRead
    \/ MakeCall
    \/ JobDone

Next ==
    \/ ControllerNext
    \/ CallFails
    \/ \E p \in Peerings :
          Delete(p) \/ MarkDeleting(p) \/ MarkFailed(p) \/ Aged(p)
    \/ \E v \in VPCs : DeleteVPC(v)

Spec == Init /\ [][Next]_vars

(* The ticker keeps the loop going, and every pass comes to its end. *)
FairSpec == Spec /\ WF_vars(ControllerNext)

-----------------------------------------------------------------------------
(* Properties. *)

Calls ==
    [op : {"add_import", "remove_import", "inject", "withdraw"}, vpc : VPCs, of : VPCs]
Job == [p : Peerings, reads : BOOLEAN, calls : Seq(Calls)]

ASSUME SentinelAssumption == NoJob \notin Job

(* Every variable has its type. *)
TypeOK ==
    /\ state \in [Peerings -> PeeringStates]
    /\ recent \subseteq Peerings
    /\ vpcs \subseteq VPCs
    /\ imports \in [VPCs -> [VPCs -> Nat]]
    /\ injected \in [VPCs -> Nat]
    /\ step \in {"wait", "provision", "deprovision", "retry"}
    /\ left \subseteq Peerings
    /\ job \in Job \cup {NoJob}
    /\ errors \in 0..MaxErrors
    /\ marks \in 0..MaxMarks
    /\ torn \subseteq Peerings

SamePair(p, q) == Between(p) = Between(q)

(* The VPCs whose routes the peering needs. *)
Announced(p) == IF p \in Exporting THEN Between(p) ELSE {Accepter[p]}

(* Nobody loses an active peering by the tear-down of an unrelated one,    *)
(* with any retries and failing calls: its two imports stay unless another *)
(* peering of the same two VPCs is torn down, the routes of a VPC unless   *)
(* another one of that VPC is.  (These two do happen: the lists of the     *)
(* BGP service do not say which peering an entry is for.)                  *)
ActiveReachable ==
    \A p \in Peerings : state[p] = "active" =>
        /\ (\A q \in torn \ {p} : ~SamePair(p, q))
             => /\ imports[Requester[p]][Accepter[p]] > 0
                /\ imports[Accepter[p]][Requester[p]] > 0
        /\ \A v \in Announced(p) :
              (\A q \in torn \ {p} : v \notin Between(q)) => injected[v] > 0

TornDown(p) ==
    /\ imports[Requester[p]][Accepter[p]] = 0
    /\ imports[Accepter[p]][Requester[p]] = 0
    /\ \A v \in Announced(p) : injected[v] = 0

(* A peering that stays in deleting is gone from the fabric in the end,    *)
(* with both imports and the routes of every VPC it announced, unless one  *)
(* of its VPCs is deleted before: each pass removes one import, so also    *)
(* those that retries left behind twice go, and a failed call is made      *)
(* again in the next pass.                                                 *)
TearDownCompletes ==
    \A p \in Peerings :
        state[p] = "deleting"
            ~> TornDown(p) \/ state[p] # "deleting" \/ ~(Between(p) \subseteq vpcs)

(* A peering that failed is brought up again, however often its            *)
(* provisioning fails on the way, as long as the peering is younger than   *)
(* ten minutes, its VPCs exist and nobody gives it another state.  It is   *)
(* the age of the peering that counts (reconciler.go:125), not that of its *)
(* failure: nothing is promised to a peering that fails when it is older,  *)
(* which is never retried, where the functional specification has ten      *)
(* retries with backoff for it.                                            *)
FailedRecovers ==
    \A p \in Peerings :
        (state[p] = "failed" /\ p \in recent)
            ~> \/ state[p] \notin {"failed", "provisioning"}
               \/ p \notin recent
               \/ ~(Between(p) \subseteq vpcs)
=============================================================================
