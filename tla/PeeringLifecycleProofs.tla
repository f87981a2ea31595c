----------------------- MODULE PeeringLifecycleProofs -----------------------
(***************************************************************************)
(* Proofs about PeeringLifecycle, for any number of VPCs, accounts,        *)
(* peerings and concurrent requests, and for both stores.                  *)
(*                                                                         *)
(* The argument.  Every write to the store installs some private copy.  A  *)
(* copy may be stale in its state, direction and policy, but what matters  *)
(* of it only grows: the endpoints of a stored peering never change, a     *)
(* consent is never taken back, and nothing leaves the fabric.  So a copy  *)
(* that was good when it was taken (GoodCopy) is good when it is written,  *)
(* whatever happened in between.                                           *)
(***************************************************************************)
EXTENDS PeeringLifecycle, FiniteSetTheorems, Integers, TLAPS

-----------------------------------------------------------------------------
(* The inductive invariant. *)

(* The row may be stored under p without harm. *)
GoodCopy(p, row) ==
    /\ row \in Row
    /\ Exists(p)
    /\ row.requester = peerings[p].requester
    /\ row.accepter = peerings[p].accepter
    /\ row.requester # row.accepter
    /\ Endpoints(row) \notin Overlaps
    /\ row.state \in {"provisioning", "active"} => Consented(p, row)
    /\ row.state \in {"provisioning", "active"} => row.policy \in Policies
    /\ row.state = "active" => Programmed(row) /\ row.provisionedAt = "set"
    /\ row.state \notin {"degraded", "deleting", "failed"}

(* A pending peering in the store has its policy; a listed copy may not. *)
StoredInv ==
    \A p \in Peerings :
        Exists(p) => /\ GoodCopy(p, peerings[p])
                     /\ peerings[p].state = "pending_acceptance" => peerings[p].policy \in Policies

(* What Create is about to insert is good once its identifier exists. *)
NewRowInv(row) ==
    /\ row \in Row
    /\ row.requester # row.accepter
    /\ Endpoints(row) \notin Overlaps
    /\ row.state \in {"provisioning", "pending_acceptance"}
    /\ row.state = "provisioning" => Owner[row.requester] = Owner[row.accepter]
    /\ row.policy \in Policies

RequestInv ==
    \A r \in Requests :
        /\ reqs[r].op = "create" => NewRowInv(reqs[r].row)
        /\ reqs[r].op \in {"update", "accept", "reject"} =>
              /\ reqs[r].p \in Peerings
              /\ GoodCopy(reqs[r].p, reqs[r].row)
              /\ reqs[r].row.state # "pending_acceptance"
        /\ reqs[r].op = "delete" => reqs[r].p \in Peerings /\ Exists(reqs[r].p)

(* How far the fabric has got with the peering at hand. *)
JobInv ==
    /\ pc \in JobSteps =>
         /\ job.p \in Peerings
         /\ GoodCopy(job.p, job.row)
         /\ job.row.state = "provisioning"
         /\ peerings[job.p].state # "pending_acceptance"
    /\ pc \in JobSteps \ {"rt_requester"} =>
         job.row.accepter \in imports[job.row.requester]
    /\ pc \in JobSteps \ {"rt_requester", "rt_accepter"} =>
         job.row.requester \in imports[job.row.accepter]
    /\ pc \in {"inject_requester", "upsert", "activate"} =>
         job.row.accepter \in injected

SnapInv ==
    \A p \in Peerings :
        snap[p] # NoRow => GoodCopy(p, snap[p]) /\ snap[p].state = "pending_acceptance"

IInv == TypeOK /\ StoredInv /\ RequestInv /\ JobInv /\ SnapInv /\ RouteIsolation

-----------------------------------------------------------------------------
(* What only grows. *)

Stable ==
    /\ \A p \in Peerings :
          Exists(p) => /\ peerings'[p] # NoRow
                       /\ peerings'[p].requester = peerings[p].requester
                       /\ peerings'[p].accepter = peerings[p].accepter
                       /\ peerings[p].state # "pending_acceptance"
                            => peerings'[p].state # "pending_acceptance"
    /\ consents \subseteq consents'
    /\ \A v \in VPCs : imports[v] \subseteq imports'[v]
    /\ injected \subseteq injected'

(* A good copy stays good through any step that keeps endpoints, consents *)
(* and fabric: the heart of the argument about stale writes.              *)
LEMMA CopyStable ==
    ASSUME Stable, NEW p \in Peerings, NEW row, GoodCopy(p, row)
    PROVE  GoodCopy(p, row)'
<1>1. row.requester \in VPCs /\ row.accepter \in VPCs
  BY DEF GoodCopy, Row
<1>2. Exists(p)' /\ row.requester = peerings'[p].requester /\ row.accepter = peerings'[p].accepter
  BY DEF GoodCopy, Stable, Exists
<1>3. (row.state \in {"provisioning", "active"} => Consented(p, row))'
  BY DEF GoodCopy, Stable, Consented
<1>4. (row.state = "active" => Programmed(row) /\ row.provisionedAt = "set")'
  BY <1>1 DEF GoodCopy, Stable, Programmed
<1>. QED  BY <1>2, <1>3, <1>4 DEF GoodCopy, Endpoints

(* A lawful connection stays lawful. *)
LEMMA LawfulStable ==
    ASSUME Stable, NEW p \in Peerings, NEW S, Lawful(p, S)
    PROVE  Lawful(p, S)'
BY DEF Lawful, Stable, Exists, Endpoints, Consented

(* Steps that leave the store, the consents and the fabric alone. *)
LEMMA UnchangedStable ==
    ASSUME UNCHANGED <<peerings, consents, imports, injected>>
    PROVE  Stable
BY DEF Stable, Exists

(* A write of a good copy keeps the endpoints and reopens nothing. *)
LEMMA WriteStable ==
    ASSUME TypeOK, NEW p \in Peerings, NEW row, row \in Row, Exists(p),
           row.requester = peerings[p].requester, row.accepter = peerings[p].accepter,
           row.state # "pending_acceptance",
           peerings' = [peerings EXCEPT ![p] = row],
           UNCHANGED <<consents, imports, injected>>
    PROVE  Stable
BY NoRowAssumption DEF TypeOK, Stable, Exists

(* Storing a good copy keeps every stored peering good. *)
LEMMA WriteStored ==
    ASSUME TypeOK, StoredInv, NEW p \in Peerings, NEW row, GoodCopy(p, row),
           row.state # "pending_acceptance", peerings' = [peerings EXCEPT ![p] = row],
           UNCHANGED <<consents, imports, injected>>
    PROVE  StoredInv' /\ Stable
<1>1. Stable
  BY WriteStable DEF GoodCopy
<1>2. ASSUME NEW q \in Peerings, Exists(q)'
      PROVE  /\ GoodCopy(q, peerings[q])'
             /\ peerings'[q].state = "pending_acceptance" => peerings'[q].policy \in Policies
  <2>1. CASE q = p
    <3>1. peerings'[q] = row
      BY <2>1 DEF TypeOK
    <3>2. GoodCopy(p, row)'
      BY <1>1, CopyStable
    <3>. QED  BY <2>1, <3>1, <3>2 DEF GoodCopy, Exists, Endpoints, Consented, Programmed
  <2>2. CASE q # p
    <3>1. peerings'[q] = peerings[q]
      BY <2>2 DEF TypeOK
    <3>2. /\ GoodCopy(q, peerings[q])
          /\ peerings[q].state = "pending_acceptance" => peerings[q].policy \in Policies
      BY <1>2, <3>1 DEF StoredInv, Exists
    <3>. QED  BY <1>1, <3>1, <3>2 DEF GoodCopy, Exists, Endpoints, Consented, Programmed, Stable, Row
  <2>. QED  BY <2>1, <2>2
<1>. QED  BY <1>1, <1>2 DEF StoredInv

(* Parts of the invariant that a step leaves alone stay true. *)
LEMMA StoredKept ==
    ASSUME StoredInv, Stable, UNCHANGED peerings
    PROVE  StoredInv'
BY DEF StoredInv, GoodCopy, Exists, Endpoints, Consented, Programmed, Stable, Row

(* The private copies of requests that stay where they are stay good. *)
LEMMA RequestsKept ==
    ASSUME RequestInv, Stable, UNCHANGED reqs
    PROVE  RequestInv'
<1>1. ASSUME NEW r \in Requests, reqs[r].p \in Peerings, GoodCopy(reqs[r].p, reqs[r].row)
      PROVE  GoodCopy(reqs[r].p, reqs[r].row)'
  BY <1>1 DEF GoodCopy, Exists, Endpoints, Consented, Programmed, Stable, Row
<1>. QED  BY <1>1 DEF RequestInv, Stable, Exists, NewRowInv, Endpoints

(* One request moves on to req; the others keep theirs. *)
RequestGood(req) ==
    /\ req.op = "create" => NewRowInv(req.row)
    /\ req.op \in {"update", "accept", "reject"} =>
          /\ req.p \in Peerings
          /\ GoodCopy(req.p, req.row)
          /\ req.row.state # "pending_acceptance"
    /\ req.op = "delete" => req.p \in Peerings /\ Exists(req.p)

(* If the request that moves has a good copy, then all requests have. *)
LEMMA RequestMoves ==
    ASSUME TypeOK, RequestInv, Stable, NEW r \in Requests, NEW req, RequestGood(req)',
           reqs' = [reqs EXCEPT ![r] = req]
    PROVE  RequestInv'
<1>1. ASSUME NEW q \in Requests
      PROVE  RequestGood(reqs[q])
  BY DEF RequestInv, RequestGood
<1>2. ASSUME NEW c, RequestGood(c)
      PROVE  RequestGood(c)'
  BY <1>2, CopyStable DEF RequestGood, Stable, Exists, NewRowInv, Endpoints
<1>3. ASSUME NEW q \in Requests
      PROVE  reqs'[q] = req \/ reqs'[q] = reqs[q]
  BY DEF TypeOK
<1>4. ASSUME NEW q \in Requests
      PROVE  RequestGood(reqs[q])'
  <2>1. PICK c : c = reqs'[q] /\ RequestGood(c)'
    BY <1>1, <1>2, <1>3
  <2>. QED  BY <2>1 DEF RequestGood, NewRowInv, GoodCopy, Exists, Endpoints, Consented, Programmed
<1>. QED  BY <1>4 DEF RequestInv, RequestGood

(* The controller's copy stays good and the fabric keeps what it has got. *)
LEMMA JobKept ==
    ASSUME TypeOK, JobInv, Stable, UNCHANGED <<pc, job>>
    PROVE  JobInv'
BY DEF JobInv, GoodCopy, Exists, Endpoints, Consented, Programmed, Stable, Row, TypeOK, JobSteps, FabricSteps

(* The listed copies of the expiry loop stay good, and pending. *)
LEMMA SnapKept ==
    ASSUME SnapInv, Stable, UNCHANGED snap
    PROVE  SnapInv'
BY DEF SnapInv, GoodCopy, Exists, Endpoints, Consented, Programmed, Stable, Row

(* Route isolation survives every step that adds nothing to the fabric. *)
LEMMA IsolationKept ==
    ASSUME RouteIsolation, Stable, UNCHANGED <<imports, injected, routes>>
    PROVE  RouteIsolation'
BY LawfulStable DEF RouteIsolation

-----------------------------------------------------------------------------
(* Small facts about rows and requests. *)

RequestType ==
    [op   : {"idle", "create", "update", "delete", "accept", "reject"},
     step : RequestSteps,
     p    : Peerings \cup {NoPeering},
     row  : Row \cup {NoRow}]

(* Editing the state of a row gives a row with the same endpoints. *)
LEMMA EditState ==
    ASSUME NEW row \in Row, NEW s \in PeeringStates
    PROVE  /\ [row EXCEPT !.state = s] \in Row
           /\ [row EXCEPT !.state = s].state = s
           /\ [row EXCEPT !.state = s].requester = row.requester
           /\ [row EXCEPT !.state = s].accepter = row.accepter
           /\ [row EXCEPT !.state = s].provisionedAt = row.provisionedAt
BY DEF Row

(* Editing a good copy into a state that claims no more keeps it good. *)
LEMMA EditGood ==
    ASSUME NEW p \in Peerings, NEW row, GoodCopy(p, row),
           NEW s \in {"pending_acceptance", "rejected", "expired", "deleted"}
    PROVE  GoodCopy(p, [row EXCEPT !.state = s])
<1>1. s \in PeeringStates
  BY DEF PeeringStates
<1>. QED  BY <1>1, EditState DEF GoodCopy, Endpoints

(* Get returns a stored peering or nothing. *)
LEMMA GetStored ==
    ASSUME NEW p \in Peerings, Get(p) # NoRow
    PROVE  Exists(p) /\ Get(p) = peerings[p]
BY DEF Get

(* A stored peering is a row. *)
LEMMA StoredRow ==
    ASSUME TypeOK, NEW p \in Peerings, Exists(p)
    PROVE  peerings[p] \in Row
BY DEF TypeOK, Exists

(* A goroutine without a request has no copy that could do harm. *)
LEMMA IdleGood ==
    IdleRequest \in RequestType /\ RequestGood(IdleRequest) /\ RequestGood(IdleRequest)'
BY DEF IdleRequest, RequestType, RequestGood, RequestSteps

-----------------------------------------------------------------------------
(* The invariant holds initially. *)
LEMMA InitIInv == Init => IInv
<1>. SUFFICES ASSUME Init PROVE IInv
  OBVIOUS
<1>1. TypeOK
  BY DEF Init, TypeOK, IdleRequest, NoJob, NoSnap, RequestSteps, JobSteps, FabricSteps
<1>2. StoredInv /\ SnapInv
  BY DEF Init, StoredInv, SnapInv, Exists, NoSnap
<1>3. RequestInv
  BY DEF Init, RequestInv, IdleRequest
<1>4. JobInv
  BY DEF Init, JobInv, JobSteps, FabricSteps
<1>5. RouteIsolation
  BY DEF Init, RouteIsolation
<1>. QED  BY <1>1, <1>2, <1>3, <1>4, <1>5 DEF IInv

-----------------------------------------------------------------------------
(* Handler steps that only move their request on (and may record a consent). *)
LEMMA RequestStep ==
    ASSUME IInv, NEW r \in Requests, NEW req \in RequestType, RequestGood(req)',
           reqs' = [reqs EXCEPT ![r] = req],
           consents \subseteq consents', consents' \subseteq Peerings \X Accounts,
           UNCHANGED <<peerings, liveVPCs, vpcDeletes, ctlVars, fabricVars, aged>>
    PROVE  IInv'
<1>. USE DEF IInv
<1>1. TypeOK'
  BY DEF TypeOK, RequestType, ctlVars, fabricVars
<1>2. Stable
  BY DEF Stable, Exists, fabricVars
<1>3. StoredInv'
  BY <1>2, StoredKept
<1>4. RequestInv'
  BY <1>2, RequestMoves
<1>5. JobInv' /\ SnapInv'
  BY <1>2, JobKept, SnapKept DEF ctlVars
<1>6. RouteIsolation'
  BY <1>2, IsolationKept DEF fabricVars
<1>. QED  BY <1>1, <1>3, <1>4, <1>5, <1>6

(* A handler that returns without a write keeps the invariant. *)
LEMMA FinishStep ==
    ASSUME IInv, NEW r \in Requests, Finish(r),
           UNCHANGED <<peerings, liveVPCs, vpcDeletes, ctlVars, fabricVars, aged, consents>>
    PROVE  IInv'
<1>1. consents' \subseteq Peerings \X Accounts
  BY DEF IInv, TypeOK
<1>. QED  BY <1>1, IdleGood, RequestStep DEF Finish

(* Create's row connects two different VPCs without overlapping CIDRs, and *)
(* is provisioning only if both belong to one account.                     *)
LEMMA CreateBeginInv ==
    ASSUME IInv, NEW r \in Requests, NEW a \in Accounts, NEW v \in VPCs, NEW w \in VPCs,
           NEW dir \in DirectionInputs, NEW pol \in Policies, CreateBegin(r, a, v, w, dir, pol)
    PROVE  IInv'
<1>. DEFINE row == NewRow(v, w, dir, pol)
            req == [op |-> "create", step |-> "duplicate", p |-> NoPeering, row |-> row]
<1>1. row \in Row /\ NewRowInv(row)
  BY DEF CreateBegin, NewRow, Row, NewRowInv, PeeringStates, Endpoints
<1>2. req \in RequestType /\ RequestGood(req)'
  BY <1>1 DEF RequestType, RequestSteps, RequestGood, NewRowInv, Endpoints
<1>3. reqs' = [reqs EXCEPT ![r] = req] /\ UNCHANGED <<peerings, liveVPCs, vpcDeletes, ctlVars, fabricVars, aged, consents>>
  BY DEF CreateBegin, Begin
<1>4. consents' \subseteq Peerings \X Accounts
  BY <1>3 DEF IInv, TypeOK
<1>. HIDE DEF req
<1>. QED  BY <1>2, <1>3, <1>4, RequestStep

(* A Create that passes one more check. *)
LEMMA GotoInv ==
    ASSUME IInv, NEW r \in Requests, NEW step \in RequestSteps, reqs[r].op = "create", Goto(r, step),
           UNCHANGED <<peerings, liveVPCs, vpcDeletes, ctlVars, fabricVars, aged, consents>>
    PROVE  IInv'
<1>. DEFINE req == [reqs[r] EXCEPT !.step = step]
<1>1. reqs[r] \in RequestType
  BY DEF IInv, TypeOK, RequestType
<1>2. req \in RequestType /\ req.op = "create" /\ req.row = reqs[r].row
  BY <1>1 DEF RequestType
<1>3. NewRowInv(reqs[r].row)
  BY DEF IInv, RequestInv
<1>4. PICK c : c = req
  OBVIOUS
<1>5. RequestGood(c)'
  BY <1>2, <1>3, <1>4 DEF RequestGood, NewRowInv, Endpoints
<1>6. reqs' = [reqs EXCEPT ![r] = c] /\ consents' \subseteq Peerings \X Accounts
  BY <1>4 DEF Goto, IInv, TypeOK
<1>. QED  BY <1>2, <1>4, <1>5, <1>6, RequestStep

(* The duplicate and quota checks let Create go on or return. *)
LEMMA CreateChecksInv ==
    ASSUME IInv, NEW r \in Requests,
           CreateDuplicateCheck(r) \/ CreateQuotaRequester(r) \/ CreateQuotaAccepter(r)
    PROVE  IInv'
<1>1. reqs[r].op = "create" /\ UNCHANGED <<peerings, liveVPCs, vpcDeletes, ctlVars, fabricVars, aged, consents>>
  BY DEF CreateDuplicateCheck, CreateQuotaRequester, CreateQuotaAccepter, At
<1>2. Finish(r) \/ \E step \in RequestSteps : Goto(r, step)
  BY DEF CreateDuplicateCheck, CreateQuotaRequester, CreateQuotaAccepter, RequestSteps
<1>. QED  BY <1>1, <1>2, FinishStep, GotoInv

(* Update takes a good copy: it edits neither state nor endpoints. *)
LEMMA UpdateReadInv ==
    ASSUME IInv, NEW r \in Requests, NEW a \in Accounts, NEW p \in Peerings,
           NEW dir \in DirectionInputs, NEW pol \in Policies, UpdateRead(r, a, p, dir, pol)
    PROVE  IInv'
<1>1. Exists(p) /\ Get(p) = peerings[p] /\ peerings[p] \in Row /\ GoodCopy(p, peerings[p])
  BY GetStored, StoredRow DEF UpdateRead, IInv, StoredInv
<1>2. PICK row : row = [peerings[p] EXCEPT !.direction = dir, !.policy = pol]
  OBVIOUS
<1>3. /\ row \in Row
      /\ row.state = peerings[p].state
      /\ row.requester = peerings[p].requester
      /\ row.accepter = peerings[p].accepter
      /\ row.provisionedAt = peerings[p].provisionedAt
      /\ row.policy = pol
  BY <1>1, <1>2 DEF Row
<1>4. GoodCopy(p, row) /\ row.state # "pending_acceptance"
  BY <1>1, <1>3 DEF GoodCopy, Endpoints, Consented, Programmed, UpdateRead
<1>5. PICK req : req = [op |-> "update", step |-> "write", p |-> p, row |-> row]
  OBVIOUS
<1>6. /\ reqs' = [reqs EXCEPT ![r] = req]
      /\ UNCHANGED <<peerings, liveVPCs, vpcDeletes, ctlVars, fabricVars, aged, consents>>
  BY <1>1, <1>2, <1>5 DEF UpdateRead, Begin
<1>7. Stable
  BY <1>6, UnchangedStable DEF fabricVars
<1>8. GoodCopy(p, row)'
  BY <1>4, <1>7, CopyStable
<1>9. req \in RequestType /\ RequestGood(req)'
  BY <1>3, <1>4, <1>5, <1>8 DEF RequestType, RequestSteps, RequestGood
<1>10. consents' \subseteq Peerings \X Accounts
  BY <1>6 DEF IInv, TypeOK
<1>. QED  BY <1>6, <1>9, <1>10, RequestStep

(* Accept's edited copy, in provisioning, is good because the accepter's *)
(* owner has now consented.                                              *)
LEMMA AcceptReadInv ==
    ASSUME IInv, NEW r \in Requests, NEW a \in Accounts, NEW p \in Peerings, AcceptRead(r, a, p)
    PROVE  IInv'
<1>1. /\ Exists(p) /\ Get(p) = peerings[p] /\ peerings[p] \in Row /\ GoodCopy(p, peerings[p])
      /\ peerings[p].policy \in Policies
  BY GetStored, StoredRow DEF AcceptRead, Decidable, IInv, StoredInv
<1>2. PICK row : row = [peerings[p] EXCEPT !.state = "provisioning"]
  OBVIOUS
<1>3. /\ row \in Row
      /\ row.state = "provisioning"
      /\ row.requester = peerings[p].requester
      /\ row.accepter = peerings[p].accepter
      /\ row.policy \in Policies
  BY <1>1, <1>2 DEF Row, PeeringStates
<1>4. PICK req : req = [op |-> "accept", step |-> "write", p |-> p, row |-> row]
  OBVIOUS
<1>5. /\ reqs' = [reqs EXCEPT ![r] = req]
      /\ consents' = consents \cup {<<p, a>>}
      /\ Owner[peerings[p].accepter] = a
      /\ UNCHANGED <<peerings, liveVPCs, vpcDeletes, ctlVars, fabricVars, aged>>
  BY <1>1, <1>2, <1>4 DEF AcceptRead, Begin, Decidable
<1>6. Consented(p, row)'
  BY <1>3, <1>5 DEF Consented
<1>7. GoodCopy(p, row)'
  BY <1>1, <1>3, <1>5, <1>6 DEF GoodCopy, Endpoints, Exists
<1>8. req \in RequestType /\ RequestGood(req)'
  BY <1>3, <1>4, <1>7 DEF RequestType, RequestSteps, RequestGood
<1>9. consents \subseteq consents' /\ consents' \subseteq Peerings \X Accounts
  BY <1>5 DEF IInv, TypeOK
<1>. QED  BY <1>5, <1>8, <1>9, RequestStep

(* Reject's edited copy claims nothing. *)
LEMMA RejectReadInv ==
    ASSUME IInv, NEW r \in Requests, NEW a \in Accounts, NEW p \in Peerings, RejectRead(r, a, p)
    PROVE  IInv'
<1>1. Exists(p) /\ Get(p) = peerings[p] /\ peerings[p] \in Row /\ GoodCopy(p, peerings[p])
  BY GetStored, StoredRow DEF RejectRead, Decidable, IInv, StoredInv
<1>2. PICK row : row = [peerings[p] EXCEPT !.state = "rejected"]
  OBVIOUS
<1>3. row \in Row /\ row.state = "rejected" /\ GoodCopy(p, row)
  BY <1>1, <1>2, EditGood, EditState DEF PeeringStates
<1>4. PICK req : req = [op |-> "reject", step |-> "write", p |-> p, row |-> row]
  OBVIOUS
<1>5. /\ reqs' = [reqs EXCEPT ![r] = req]
      /\ UNCHANGED <<peerings, liveVPCs, vpcDeletes, ctlVars, fabricVars, aged, consents>>
  BY <1>1, <1>2, <1>4 DEF RejectRead, Begin
<1>6. GoodCopy(p, row)'
  BY <1>3, <1>5, CopyStable, UnchangedStable DEF fabricVars
<1>7. req \in RequestType /\ RequestGood(req)'
  BY <1>3, <1>4, <1>6 DEF RequestType, RequestSteps, RequestGood
<1>8. consents' \subseteq Peerings \X Accounts
  BY <1>5 DEF IInv, TypeOK
<1>. QED  BY <1>5, <1>7, <1>8, RequestStep

(* Delete takes no copy of the peering. *)
LEMMA DeleteReadInv ==
    ASSUME IInv, NEW r \in Requests, NEW a \in Accounts, NEW p \in Peerings, DeleteRead(r, a, p)
    PROVE  IInv'
<1>1. Exists(p)
  BY GetStored DEF DeleteRead
<1>2. PICK req : req = [op |-> "delete", step |-> "write", p |-> p, row |-> NoRow]
  OBVIOUS
<1>3. /\ reqs' = [reqs EXCEPT ![r] = req]
      /\ UNCHANGED <<peerings, liveVPCs, vpcDeletes, ctlVars, fabricVars, aged, consents>>
  BY <1>2 DEF DeleteRead, Begin
<1>4. req \in RequestType /\ RequestGood(req)'
  BY <1>1, <1>2, <1>3 DEF RequestType, RequestSteps, RequestGood, Exists
<1>5. consents' \subseteq Peerings \X Accounts
  BY <1>3 DEF IInv, TypeOK
<1>. QED  BY <1>3, <1>4, <1>5, RequestStep

(* Handler steps that store a good copy and end. *)
LEMMA HandlerWrite ==
    ASSUME IInv, NEW r \in Requests, NEW p \in Peerings, NEW row, GoodCopy(p, row),
           row.state # "pending_acceptance", Update(p, row), Finish(r),
           UNCHANGED <<liveVPCs, vpcDeletes, ctlVars, fabricVars, aged, consents>>
    PROVE  IInv'
<1>. USE DEF IInv
<1>1. StoredInv' /\ Stable
  BY WriteStored DEF Update, fabricVars
<1>2. TypeOK'
  BY IdleGood DEF TypeOK, Update, Finish, GoodCopy, RequestType, ctlVars, fabricVars
<1>3. RequestInv'
  BY <1>1, IdleGood, RequestMoves DEF Finish
<1>4. JobInv' /\ SnapInv'
  BY <1>1, JobKept, SnapKept DEF ctlVars
<1>5. RouteIsolation'
  BY <1>1, IsolationKept DEF fabricVars
<1>. QED  BY <1>1, <1>2, <1>3, <1>4, <1>5

(* Update, Accept and Reject store their good, perhaps stale, copy. *)
LEMMA WriteBackInv ==
    ASSUME IInv, NEW r \in Requests, WriteBack(r)
    PROVE  IInv'
<1>1. reqs[r].op \in {"update", "accept", "reject"}
  BY DEF WriteBack, At
<1>2. PICK p, row : p \in Peerings /\ p = reqs[r].p /\ row = reqs[r].row /\ GoodCopy(p, row)
                          /\ row.state # "pending_acceptance"
  BY <1>1 DEF IInv, RequestInv
<1>. QED  BY <1>2, HandlerWrite DEF WriteBack

(* Delete stores the current row as deleted. *)
LEMMA DeleteWriteInv ==
    ASSUME IInv, NEW r \in Requests, DeleteWrite(r)
    PROVE  IInv'
<1>1. PICK p \in Peerings : p = reqs[r].p /\ Exists(p)
  BY DEF DeleteWrite, At, IInv, RequestInv
<1>2. GoodCopy(p, [peerings[p] EXCEPT !.state = "deleted"])
  BY <1>1, EditGood DEF IInv, StoredInv
<1>3. peerings[p] \in Row
  BY <1>1, StoredRow DEF IInv
<1>4. [peerings[p] EXCEPT !.state = "deleted"].state # "pending_acceptance"
  BY <1>3 DEF Row
<1>. QED  BY <1>1, <1>2, <1>4, HandlerWrite DEF DeleteWrite

(* Create stores its row under an identifier nobody has a copy of. *)
LEMMA CreateInsertInv ==
    ASSUME IInv, NEW r \in Requests, NEW p \in Peerings, CreateInsert(r, p)
    PROVE  IInv'
<1>. USE DEF IInv
<1>1. PICK row : row = reqs[r].row /\ NewRowInv(row)
  BY DEF CreateInsert, At, RequestInv
<1>2. /\ peerings' = [peerings EXCEPT ![p] = row]
      /\ ~Exists(p)
      /\ Finish(r)
      /\ UNCHANGED <<liveVPCs, vpcDeletes, ctlVars, fabricVars, aged, consents>>
  BY <1>1 DEF CreateInsert, Update
<1>3. TypeOK'
  BY <1>1, <1>2, IdleGood DEF TypeOK, Finish, NewRowInv, RequestType, ctlVars, fabricVars
<1>4. Stable
  BY <1>2 DEF Stable, Exists, TypeOK, fabricVars
<1>5. peerings'[p] = row /\ row # NoRow
  BY <1>1, <1>2, NoRowAssumption DEF TypeOK, NewRowInv
<1>6. GoodCopy(p, row)'
  BY <1>1, <1>5 DEF GoodCopy, NewRowInv, Exists, Endpoints, Consented
<1>7. StoredInv'
  <2>1. ASSUME NEW q \in Peerings, Exists(q)', q # p
        PROVE  GoodCopy(q, peerings[q])'
    <3>1. peerings'[q] = peerings[q] /\ GoodCopy(q, peerings[q])
      BY <1>2, <2>1 DEF TypeOK, StoredInv, Exists
    <3>2. PICK c : c = peerings[q]
      OBVIOUS
    <3>3. GoodCopy(q, c)'
      BY <1>4, <3>1, <3>2, CopyStable
    <3>. QED  BY <3>1, <3>2, <3>3 DEF GoodCopy, Exists, Endpoints, Consented, Programmed
  <2>2. GoodCopy(p, peerings[p])' /\ peerings'[p].policy \in Policies
    BY <1>1, <1>5, <1>6 DEF GoodCopy, Exists, Endpoints, Consented, Programmed, NewRowInv
  <2>3. ASSUME NEW q \in Peerings, Exists(q)', q # p, peerings'[q].state = "pending_acceptance"
        PROVE  peerings'[q].policy \in Policies
    BY <1>2, <2>3 DEF TypeOK, StoredInv, Exists
  <2>. QED  BY <2>1, <2>2, <2>3 DEF StoredInv
<1>8. RequestInv'
  BY <1>2, <1>4, IdleGood, RequestMoves DEF Finish
<1>9. JobInv' /\ SnapInv'
  BY <1>2, <1>4, JobKept, SnapKept DEF ctlVars
<1>10. RouteIsolation'
  BY <1>2, <1>4, IsolationKept DEF fabricVars
<1>. QED  BY <1>3, <1>7, <1>8, <1>9, <1>10

-----------------------------------------------------------------------------
(* Steps that touch neither the store nor the fabric nor the requests. *)
LEMMA BackgroundStep ==
    ASSUME IInv, TypeOK', JobInv', SnapInv',
           UNCHANGED <<peerings, reqs, fabricVars, consents>>
    PROVE  IInv'
<1>. USE DEF IInv
<1>1. Stable
  BY UnchangedStable DEF fabricVars
<1>2. StoredInv' /\ RequestInv' /\ RouteIsolation'
  BY <1>1, StoredKept, RequestsKept, IsolationKept DEF fabricVars
<1>. QED  BY <1>2

(* The deletion of VPCs and the passing of time touch no peering. *)
LEMMA VPCAndAgeInv ==
    ASSUME IInv,
           \/ \E v \in VPCs : VPCNext(v)
           \/ \E p \in Peerings : Age(p)
    PROVE  IInv'
<1>1. UNCHANGED <<peerings, reqs, ctlVars, fabricVars, consents>>
  BY DEF VPCNext, DeleteVPCCheck, DeleteVPCWrite, Age, apiVars
<1>2. liveVPCs' \subseteq VPCs /\ vpcDeletes' \subseteq VPCs /\ aged' \subseteq Peerings
  BY DEF IInv, TypeOK, VPCNext, DeleteVPCCheck, DeleteVPCWrite, Age, apiVars
<1>3. TypeOK'
  BY <1>1, <1>2 DEF IInv, TypeOK, ctlVars, fabricVars
<1>4. JobInv' /\ SnapInv'
  BY <1>1, UnchangedStable, JobKept, SnapKept DEF IInv, ctlVars, fabricVars
<1>. QED  BY <1>1, <1>3, <1>4, BackgroundStep

(* Listing the provisioning peerings takes identifiers, not copies. *)
LEMMA ReconcileStartInv == ASSUME IInv, ReconcileStart PROVE IInv'
<1>. USE DEF IInv
<1>1. UNCHANGED <<peerings, reqs, fabricVars, consents, job, snap>>
  BY DEF ReconcileStart, apiVars
<1>2. TypeOK'
  BY <1>1 DEF ReconcileStart, TypeOK, ListByState, apiVars, fabricVars
<1>3. JobInv' /\ SnapInv'
  BY <1>1, UnchangedStable, SnapKept DEF ReconcileStart, JobInv, JobSteps, FabricSteps, fabricVars
<1>. QED  BY <1>1, <1>2, <1>3, BackgroundStep

(* ProvisionPeering takes a good copy of a consented peering. *)
LEMMA ProvisionBeginInv ==
    ASSUME IInv, NEW p \in Peerings, ProvisionBegin(p)
    PROVE  IInv'
<1>. USE DEF IInv
<1>1. Exists(p) /\ Get(p) = peerings[p] /\ GoodCopy(p, peerings[p]) /\ peerings[p] \in Row
  BY GetStored, StoredRow DEF ProvisionBegin, Provisionable, StoredInv
<1>2. UNCHANGED <<peerings, reqs, fabricVars, consents, snap>>
  BY DEF ProvisionBegin, apiVars
<1>3. pc' = "rt_requester" /\ job' = [p |-> p, row |-> peerings[p]] /\ peerings[p].state = "provisioning"
  BY <1>1 DEF ProvisionBegin, Provisionable
<1>4. TypeOK'
  BY <1>1, <1>2, <1>3 DEF ProvisionBegin, TypeOK, JobSteps, FabricSteps, apiVars, fabricVars
<1>5. GoodCopy(job.p, job.row)'
  BY <1>1, <1>2, <1>3 DEF GoodCopy, Exists, Endpoints, Consented, Programmed, fabricVars
<1>6. JobInv' /\ SnapInv'
  BY <1>2, <1>3, <1>5, UnchangedStable, SnapKept DEF JobInv, JobSteps, FabricSteps, fabricVars
<1>. QED  BY <1>2, <1>4, <1>6, BackgroundStep

(* A peering that cannot be provisioned is left out. *)
LEMMA ProvisionSkipInv ==
    ASSUME IInv, NEW p \in Peerings, ProvisionSkip(p)
    PROVE  IInv'
<1>. USE DEF IInv
<1>1. UNCHANGED <<peerings, reqs, fabricVars, consents, pc, job, snap>>
  BY DEF ProvisionSkip, apiVars
<1>2. TypeOK'
  BY <1>1 DEF ProvisionSkip, TypeOK, apiVars, fabricVars
<1>3. JobInv' /\ SnapInv'
  BY <1>1, UnchangedStable, JobKept, SnapKept DEF fabricVars
<1>. QED  BY <1>1, <1>2, <1>3, BackgroundStep

(* A fabric error drops the copy; what is in the fabric already stays *)
(* lawful.                                                            *)
LEMMA ReconcileEndOrErrorInv ==
    ASSUME IInv, FabricError \/ ReconcileEnd
    PROVE  IInv'
<1>. USE DEF IInv
<1>1. UNCHANGED <<peerings, reqs, fabricVars, consents, snap>> /\ pc' \in {"provision", "idle"}
  BY DEF FabricError, ReconcileEnd, apiVars
<1>2. TypeOK'
  BY DEF FabricError, ReconcileEnd, TypeOK, NoJob, apiVars, fabricVars
<1>3. JobInv' /\ SnapInv'
  BY <1>1, UnchangedStable, SnapKept DEF JobInv, JobSteps, FabricSteps, fabricVars
<1>. QED  BY <1>1, <1>2, <1>3, BackgroundStep

(* The expiry loop's copies are good, also without their policies. *)
LEMMA ListPendingInv == ASSUME IInv, ListPending PROVE IInv'
<1>. USE DEF IInv
<1>1. UNCHANGED <<peerings, reqs, fabricVars, consents, job>> /\ pc' = "expire"
  BY DEF ListPending, apiVars
<1>2. ASSUME NEW p \in Peerings, p \in ListByState("pending_acceptance")
      PROVE  ListedRow(p) \in Row /\ GoodCopy(p, ListedRow(p)) /\ ListedRow(p).state = "pending_acceptance"
  <2>1. Exists(p) /\ peerings[p].state = "pending_acceptance" /\ peerings[p] \in Row /\ GoodCopy(p, peerings[p])
    BY <1>2, StoredRow DEF ListByState, StoredInv
  <2>2. PICK row : row = ListedRow(p)
    OBVIOUS
  <2>3. row \in Row /\ row.requester = peerings[p].requester /\ row.accepter = peerings[p].accepter
          /\ row.state = peerings[p].state
    BY <2>1, <2>2 DEF ListedRow, Row
  <2>. QED  BY <2>1, <2>2, <2>3 DEF GoodCopy, Endpoints
<1>3. snap' \in [Peerings -> Row \cup {NoRow}]
  BY <1>2 DEF ListPending
<1>4. TypeOK'
  BY <1>1, <1>3 DEF ListPending, TypeOK, apiVars, fabricVars
<1>5. SnapInv'
  <2>1. SUFFICES ASSUME NEW p \in Peerings, snap'[p] # NoRow
                 PROVE  GoodCopy(p, snap[p])' /\ snap'[p].state = "pending_acceptance"
    BY DEF SnapInv
  <2>2. PICK row : row = ListedRow(p)
    OBVIOUS
  <2>3. snap'[p] = row /\ p \in ListByState("pending_acceptance")
    BY <2>1, <2>2 DEF ListPending
  <2>4. GoodCopy(p, row)' /\ row.state = "pending_acceptance"
    BY <1>1, <1>2, <2>2, <2>3, CopyStable, UnchangedStable DEF fabricVars
  <2>. QED  BY <2>3, <2>4 DEF GoodCopy, Exists, Endpoints, Consented, Programmed
<1>6. JobInv'
  BY <1>1 DEF JobInv, JobSteps, FabricSteps
<1>. QED  BY <1>1, <1>4, <1>5, <1>6, BackgroundStep

(* Controller steps that store a good copy. *)
LEMMA ControllerWrite ==
    ASSUME IInv, NEW p \in Peerings, NEW row, GoodCopy(p, row),
           row.state # "pending_acceptance", Update(p, row),
           TypeOK', Stable => JobInv' /\ SnapInv',
           UNCHANGED <<reqs, fabricVars, consents>>
    PROVE  IInv'
<1>. USE DEF IInv
<1>1. StoredInv' /\ Stable
  BY WriteStored DEF Update, fabricVars
<1>2. RequestInv' /\ RouteIsolation'
  BY <1>1, RequestsKept, IsolationKept DEF fabricVars
<1>. QED  BY <1>1, <1>2

(* After the last fabric call the copy may be stored as active. *)
LEMMA ActivateInv == ASSUME IInv, Activate PROVE IInv'
<1>. USE DEF IInv
<1>1. PICK p, old : /\ p \in Peerings /\ p = job.p /\ old = job.row
                    /\ GoodCopy(p, old) /\ Programmed(old)
                    /\ old.state = "provisioning"
  BY DEF Activate, JobInv, JobSteps, FabricSteps, Programmed
<1>2. PICK row : row = [old EXCEPT !.state = "active", !.provisionedAt = "set"]
  OBVIOUS
<1>3. /\ row \in Row
      /\ row.state = "active"
      /\ row.provisionedAt = "set"
      /\ row.requester = old.requester
      /\ row.accepter = old.accepter
      /\ row.policy = old.policy
  BY <1>1, <1>2 DEF GoodCopy, Row, PeeringStates
<1>4. GoodCopy(p, row)
  BY <1>1, <1>3 DEF GoodCopy, Endpoints, Consented, Programmed
<1>5. Update(p, row) /\ UNCHANGED <<reqs, fabricVars, consents, snap>> /\ pc' = "provision"
  BY <1>1, <1>2 DEF Activate, apiVars
<1>6. TypeOK'
  BY <1>3, <1>5 DEF Activate, TypeOK, Update, NoJob, apiVars, fabricVars
<1>7. Stable => JobInv' /\ SnapInv'
  BY <1>5, SnapKept DEF JobInv, JobSteps, FabricSteps
<1>. QED  BY <1>1, <1>3, <1>4, <1>5, <1>6, <1>7, ControllerWrite

(* An old pending copy is stored as expired, which claims nothing. *)
LEMMA ExpireVisitInv ==
    ASSUME IInv, NEW p \in Peerings, ExpireVisit(p)
    PROVE  IInv'
<1>. USE DEF IInv
<1>1. PICK old : old = snap[p] /\ GoodCopy(p, old)
  BY DEF ExpireVisit, SnapInv
<1>2. /\ UNCHANGED <<reqs, fabricVars, consents, pc, job>>
      /\ snap' = [snap EXCEPT ![p] = NoRow]
      /\ pc' = "expire"
  BY DEF ExpireVisit, apiVars
<1>3. Stable => JobInv' /\ SnapInv'
  <2>. SUFFICES ASSUME Stable PROVE JobInv' /\ SnapInv'
    OBVIOUS
  <2>1. JobInv'
    BY <1>2 DEF JobInv, JobSteps, FabricSteps
  <2>2. ASSUME NEW q \in Peerings, snap'[q] # NoRow
        PROVE  GoodCopy(q, snap[q])' /\ snap'[q].state = "pending_acceptance"
    <3>1. PICK c : c = snap[q] /\ snap'[q] = c /\ GoodCopy(q, c) /\ c.state = "pending_acceptance"
      BY <1>2, <2>2 DEF SnapInv, TypeOK
    <3>2. GoodCopy(q, c)'
      BY <3>1, CopyStable
    <3>. QED  BY <3>1, <3>2 DEF GoodCopy, Exists, Endpoints, Consented, Programmed
  <2>. QED  BY <2>1, <2>2 DEF SnapInv
<1>4. CASE p \in aged
  <2>1. PICK row : row = [old EXCEPT !.state = "expired"] /\ GoodCopy(p, row)
    BY <1>1, EditGood
  <2>2. Update(p, row) /\ row.state # "pending_acceptance"
    BY <1>1, <1>4, <2>1 DEF ExpireVisit, GoodCopy, Row
  <2>3. TypeOK'
    BY <1>2, <2>1, <2>2 DEF ExpireVisit, TypeOK, Update, GoodCopy, apiVars, fabricVars
  <2>. QED  BY <1>2, <1>3, <2>1, <2>2, <2>3, ControllerWrite
<1>5. CASE p \notin aged
  <2>1. UNCHANGED peerings
    BY <1>5 DEF ExpireVisit
  <2>2. TypeOK'
    BY <1>2, <2>1 DEF ExpireVisit, TypeOK, apiVars, fabricVars
  <2>. QED  BY <1>2, <1>3, <2>1, <2>2, UnchangedStable, BackgroundStep DEF fabricVars
<1>. QED  BY <1>4, <1>5

-----------------------------------------------------------------------------
(* The peering at hand makes its own connection lawful. *)
LEMMA JobLawful ==
    ASSUME IInv, pc \in JobSteps
    PROVE  /\ job.p \in Peerings
           /\ job.row.requester \in VPCs
           /\ job.row.accepter \in VPCs
           /\ Lawful(job.p, {job.row.requester, job.row.accepter})
BY DEF IInv, JobInv, GoodCopy, Lawful, Endpoints, Consented, Exists, Row

(* Fabric calls: the store, the requests and the listed copies stay. *)
LEMMA FabricStep ==
    ASSUME IInv, TypeOK', RouteIsolation',
           \A v \in VPCs : imports[v] \subseteq imports'[v], injected \subseteq injected',
           Stable => JobInv',
           UNCHANGED <<peerings, reqs, snap, consents>>
    PROVE  IInv'
<1>. USE DEF IInv
<1>1. Stable
  BY DEF Stable, Exists
<1>. QED  BY <1>1, StoredKept, RequestsKept, SnapKept

(* An import between the ends of a lawful peering keeps the isolation. *)
LEMMA AddImportInv ==
    ASSUME IInv, NEW v \in VPCs, NEW w \in VPCs, NEW p \in Peerings, Lawful(p, {v, w}),
           AddImport(v, w), UNCHANGED <<peerings, consents, injected, routes>>
    PROVE  /\ imports' \in [VPCs -> SUBSET VPCs]
           /\ \A u \in VPCs : imports[u] \subseteq imports'[u]
           /\ w \in imports'[v]
           /\ RouteIsolation'
<1>. USE DEF IInv
<1>1. imports' = [imports EXCEPT ![v] = imports[v] \cup {w}] /\ imports \in [VPCs -> SUBSET VPCs]
  BY DEF AddImport, TypeOK
<1>2. imports' \in [VPCs -> SUBSET VPCs] /\ (\A u \in VPCs : imports[u] \subseteq imports'[u]) /\ w \in imports'[v]
  BY <1>1
<1>3. Stable
  BY <1>2 DEF Stable, Exists
<1>4. Lawful(p, {v, w})'
  BY <1>3, LawfulStable
<1>5. ASSUME NEW u \in VPCs, NEW x \in imports'[u]
      PROVE  \E q \in Peerings : Lawful(q, {u, x})'
  <2>1. CASE x \in imports[u]
    BY <1>3, <2>1, LawfulStable DEF RouteIsolation
  <2>2. CASE x \notin imports[u]
    <3>1. u = v /\ x = w
      BY <1>1, <2>2
    <3>. QED  BY <1>4, <3>1
  <2>. QED  BY <2>1, <2>2
<1>6. RouteIsolation'
  BY <1>3, <1>5, LawfulStable DEF RouteIsolation
<1>. QED  BY <1>2, <1>6

(* The requester's VRF imports from the accepter. *)
LEMMA ConfigureRTRequesterInv == ASSUME IInv, ConfigureRTRequester PROVE IInv'
<1>. USE DEF IInv
<1>1. UNCHANGED <<peerings, todo, job, snap, apiVars, injected, routes, aged, consents>>
      /\ pc = "rt_requester" /\ pc' = "rt_accepter" /\ pc \in JobSteps
  BY DEF ConfigureRTRequester, JobSteps, FabricSteps
<1>2. PICK v \in VPCs, w \in VPCs, p \in Peerings :
          v = job.row.requester /\ w = job.row.accepter /\ p = job.p /\ Lawful(p, {v, w})
  BY <1>1, JobLawful
<1>3. AddImport(v, w)
  BY <1>2 DEF ConfigureRTRequester
<1>4. /\ imports' \in [VPCs -> SUBSET VPCs]
      /\ \A u \in VPCs : imports[u] \subseteq imports'[u]
      /\ w \in imports'[v]
      /\ RouteIsolation'
  BY <1>1, <1>2, <1>3, AddImportInv
<1>5. TypeOK'
  BY <1>1, <1>4 DEF TypeOK, JobSteps, FabricSteps, apiVars
<1>6. Stable => JobInv'
  BY <1>1, <1>2, <1>4, CopyStable
  DEF JobInv, JobSteps, FabricSteps, GoodCopy, Exists, Endpoints, Consented, Programmed
<1>. QED  BY <1>1, <1>4, <1>5, <1>6, FabricStep DEF apiVars

(* The accepter's VRF imports from the requester. *)
LEMMA ConfigureRTAccepterInv == ASSUME IInv, ConfigureRTAccepter PROVE IInv'
<1>. USE DEF IInv
<1>1. UNCHANGED <<peerings, todo, job, snap, apiVars, injected, routes, aged, consents>>
      /\ pc = "rt_accepter" /\ pc' = "inject_accepter" /\ pc \in JobSteps
  BY DEF ConfigureRTAccepter, JobSteps, FabricSteps
<1>2. PICK v \in VPCs, w \in VPCs, p \in Peerings :
          v = job.row.accepter /\ w = job.row.requester /\ p = job.p /\ Lawful(p, {w, v})
  BY <1>1, JobLawful
<1>3. AddImport(v, w) /\ {w, v} = {v, w}
  BY <1>2 DEF ConfigureRTAccepter
<1>4. /\ imports' \in [VPCs -> SUBSET VPCs]
      /\ \A u \in VPCs : imports[u] \subseteq imports'[u]
      /\ w \in imports'[v]
      /\ RouteIsolation'
  BY <1>1, <1>2, <1>3, AddImportInv
<1>5. TypeOK'
  BY <1>1, <1>4 DEF TypeOK, JobSteps, FabricSteps, apiVars
<1>6. Stable => JobInv'
  BY <1>1, <1>2, <1>4, CopyStable
  DEF JobInv, JobSteps, FabricSteps, GoodCopy, Exists, Endpoints, Consented, Programmed
<1>. QED  BY <1>1, <1>4, <1>5, <1>6, FabricStep DEF apiVars

(* One endpoint of the peering at hand is announced. *)
LEMMA InjectInv ==
    ASSUME IInv, InjectAccepter \/ InjectRequester
    PROVE  IInv'
<1>. USE DEF IInv
<1>1. UNCHANGED <<peerings, todo, job, snap, apiVars, imports, routes, aged, consents>>
      /\ pc \in JobSteps \ {"rt_requester", "rt_accepter"} /\ pc' \in {"inject_requester", "upsert"}
      /\ pc \in JobSteps
  BY DEF InjectAccepter, InjectRequester, JobSteps, FabricSteps
<1>2. PICK v \in VPCs, w \in VPCs, p \in Peerings :
          /\ {v, w} = {job.row.requester, job.row.accepter}
          /\ injected' = injected \cup {v}
          /\ Lawful(p, {v, w})
  <2>1. CASE InjectAccepter
    <3>1. {job.row.accepter, job.row.requester} = {job.row.requester, job.row.accepter}
      OBVIOUS
    <3>. QED  BY <1>1, <2>1, <3>1, JobLawful DEF InjectAccepter
  <2>2. CASE InjectRequester
    BY <1>1, <2>2, JobLawful DEF InjectRequester
  <2>. QED  BY <2>1, <2>2
<1>3. job.row.accepter \in injected'
  BY <1>2 DEF InjectAccepter, InjectRequester, JobInv
<1>4. Stable
  BY <1>1, <1>2 DEF Stable, Exists
<1>5. Lawful(p, {v, w})'
  BY <1>2, <1>4, LawfulStable
<1>6. RouteIsolation'
  BY <1>1, <1>2, <1>4, <1>5, LawfulStable DEF RouteIsolation
<1>7. TypeOK'
  BY <1>1, <1>2 DEF TypeOK, JobSteps, FabricSteps, apiVars
<1>8. JobInv'
  BY <1>1, <1>3, <1>4, CopyStable
  DEF JobInv, JobSteps, FabricSteps, GoodCopy, Exists, Endpoints, Consented, Programmed
<1>. QED  BY <1>1, <1>2, <1>6, <1>7, <1>8, FabricStep DEF apiVars

(* Route entries are stored for the ends of the peering at hand. *)
LEMMA UpsertRoutesInv == ASSUME IInv, UpsertRoutes PROVE IInv'
<1>. USE DEF IInv
<1>1. UNCHANGED <<peerings, todo, job, snap, apiVars, imports, injected, aged, consents>>
      /\ pc = "upsert" /\ pc' = "activate" /\ pc \in JobSteps
  BY DEF UpsertRoutes, JobSteps, FabricSteps
<1>2. PICK v \in VPCs, w \in VPCs, p \in Peerings :
          v = job.row.requester /\ w = job.row.accepter /\ p = job.p /\ Lawful(p, {v, w})
  BY <1>1, JobLawful
<1>3. PICK S : S \subseteq {v, w} /\ routes' = [routes EXCEPT ![p] = routes[p] \cup S]
  BY <1>2 DEF UpsertRoutes, StoredOrigins, Endpoints
<1>4. Stable
  BY <1>1, UnchangedStable
<1>5. Lawful(p, {v, w})' /\ {v, w} = {w, v}
  BY <1>2, <1>4, LawfulStable
<1>6. ASSUME NEW q \in Peerings, NEW u \in routes'[q]
      PROVE  \E x \in VPCs : Lawful(q, {u, x})'
  <2>1. CASE u \in routes[q]
    BY <1>4, <2>1, LawfulStable DEF RouteIsolation
  <2>2. CASE u \notin routes[q]
    <3>1. q = p /\ u \in {v, w}
      BY <1>3, <1>6, <2>2 DEF TypeOK
    <3>. QED  BY <1>5, <3>1
  <2>. QED  BY <2>1, <2>2
<1>7. RouteIsolation'
  BY <1>1, <1>4, <1>6, LawfulStable DEF RouteIsolation
<1>8. TypeOK'
  BY <1>1, <1>3 DEF TypeOK, JobSteps, FabricSteps, apiVars
<1>9. JobInv'
  BY <1>1, <1>4, CopyStable
  DEF JobInv, JobSteps, FabricSteps, GoodCopy, Exists, Endpoints, Consented, Programmed
<1>. QED  BY <1>1, <1>7, <1>8, <1>9, FabricStep DEF apiVars

-----------------------------------------------------------------------------
(* Every step, and the stuttering step, preserves the invariant. *)
LEMMA NextIInv == IInv /\ [Next]_vars => IInv'
<1>. SUFFICES ASSUME IInv, [Next]_vars PROVE IInv'
  OBVIOUS
<1>1. CASE \E r \in Requests : CreateNext(r)
  BY <1>1, CreateBeginInv, CreateChecksInv, CreateInsertInv DEF CreateNext
<1>2. CASE \E r \in Requests : MutateNext(r)
  BY <1>2, UpdateReadInv, AcceptReadInv, RejectReadInv, DeleteReadInv, WriteBackInv, DeleteWriteInv
  DEF MutateNext
<1>3. CASE ControllerNext
  BY <1>3, ReconcileStartInv, ProvisionBeginInv, ProvisionSkipInv, ExpireVisitInv,
     ConfigureRTRequesterInv, ConfigureRTAccepterInv, InjectInv, UpsertRoutesInv, ActivateInv,
     ListPendingInv, ReconcileEndOrErrorInv
  DEF ControllerNext
<1>4. CASE FabricError
  BY <1>4, ReconcileEndOrErrorInv
<1>5. CASE (\E v \in VPCs : VPCNext(v)) \/ \E p \in Peerings : Age(p)
  BY <1>5, VPCAndAgeInv
<1>6. CASE UNCHANGED vars
  <2>1. UNCHANGED <<peerings, reqs, ctlVars, fabricVars, consents>> /\ TypeOK'
    BY <1>6 DEF vars, IInv, TypeOK, ctlVars, fabricVars
  <2>2. JobInv' /\ SnapInv'
    BY <2>1, UnchangedStable, JobKept, SnapKept DEF IInv, ctlVars, fabricVars
  <2>. QED  BY <2>1, <2>2, BackgroundStep
<1>. QED  BY <1>1, <1>2, <1>3, <1>4, <1>5, <1>6 DEF Next

(* The inductive invariant holds in every reachable state: every copy of a *)
(* peering, in the store or in somebody's hands, may be stored safely.     *)
THEOREM Inductive == Spec => []IInv
<1>1. Init => IInv
  BY InitIInv
<1>2. IInv /\ [Next]_vars => IInv'
  BY NextIInv
<1>. QED  BY <1>1, <1>2, PTL DEF Spec

(* Every variable of the handlers, the store, the controller and the fabric *)
(* keeps its type.                                                          *)
THEOREM TypeCorrect == Spec => []TypeOK
<1>1. IInv => TypeOK
  BY DEF IInv
<1>. QED  BY <1>1, Inductive, PTL

(* No interleaving of the handlers' and the controller's stale writes makes *)
(* a peering provisioning or active without the accepter's consent.         *)
THEOREM ConsentHolds == Spec => []Consent
<1>1. IInv => Consent
  BY DEF IInv, StoredInv, GoodCopy, Consent
<1>. QED  BY <1>1, Inductive, PTL

(* Whatever is imported, announced or stored as a route is there because of *)
(* a consented and decided peering between two distinct VPCs without        *)
(* overlapping CIDRs.                                                       *)
THEOREM RouteIsolationHolds == Spec => []RouteIsolation
<1>1. IInv => RouteIsolation
  BY DEF IInv
<1>. QED  BY <1>1, Inductive, PTL

(* A peering stored as active has its route targets and its accepter's *)
(* routes in the fabric, however often provisioning failed or raced.   *)
THEOREM ActiveIsProgrammedHolds == Spec => []ActiveIsProgrammed
<1>1. IInv => ActiveIsProgrammed
  BY DEF IInv, StoredInv, GoodCopy, ActiveIsProgrammed
<1>. QED  BY <1>1, Inductive, PTL

(* A pending, provisioning or active peering has a policy that a client    *)
(* sent, although PostgreSQL hands the expiry loop copies without any.     *)
THEOREM PolicyGivenHolds == Spec => []PolicyGiven
<1>1. IInv => PolicyGiven
  BY DEF IInv, StoredInv, GoodCopy, PolicyGiven
<1>. QED  BY <1>1, Inductive, PTL

(* No interleaving stores "degraded", "deleting" or "failed", so steps 2 *)
(* (deprovision) and 4 (retry) of reconcileAll never find a peering and  *)
(* may be left out of the model.                                         *)
LEMMA StepsLeftOut ==
    Spec => [](\A p \in Peerings :
                  Exists(p) => peerings[p].state \notin {"degraded", "deleting", "failed"})
<1>1. IInv => \A p \in Peerings :
                 Exists(p) => peerings[p].state \notin {"degraded", "deleting", "failed"}
  BY DEF IInv, StoredInv, GoodCopy
<1>. QED  BY <1>1, Inductive, PTL

-----------------------------------------------------------------------------
(* Action properties. *)

(* The only writes to the store are writes of one peering, and none of them *)
(* stores "pending_acceptance" for a peering that exists.                   *)
LEMMA StoreStep ==
    ASSUME IInv, [Next]_vars
    PROVE  \/ UNCHANGED peerings
           \/ \E p \in Peerings : \E row :
                 /\ peerings' = [peerings EXCEPT ![p] = row]
                 /\ Exists(p) => row.state # "pending_acceptance"
<1>1. CASE UNCHANGED peerings
  BY <1>1
<1>2. ASSUME NEW r \in Requests, NEW p \in Peerings, CreateInsert(r, p)
      PROVE  \E row : peerings' = [peerings EXCEPT ![p] = row] /\ ~Exists(p)
  BY <1>2 DEF CreateInsert, Update
<1>3. ASSUME NEW r \in Requests, WriteBack(r)
      PROVE  \E p \in Peerings : \E row :
                peerings' = [peerings EXCEPT ![p] = row] /\ row.state # "pending_acceptance"
  BY <1>3 DEF WriteBack, At, Update, IInv, RequestInv
<1>4. ASSUME NEW r \in Requests, DeleteWrite(r)
      PROVE  \E p \in Peerings : \E row :
                peerings' = [peerings EXCEPT ![p] = row] /\ row.state # "pending_acceptance"
  <2>1. PICK p \in Peerings : p = reqs[r].p /\ Exists(p)
    BY <1>4 DEF DeleteWrite, At, IInv, RequestInv
  <2>2. [peerings[p] EXCEPT !.state = "deleted"].state = "deleted"
    BY <2>1, StoredRow, EditState DEF IInv, PeeringStates
  <2>. QED  BY <1>4, <2>1, <2>2 DEF DeleteWrite, Update
<1>5. ASSUME Activate
      PROVE  \E p \in Peerings : \E row :
                peerings' = [peerings EXCEPT ![p] = row] /\ row.state # "pending_acceptance"
  <2>1. job.p \in Peerings /\ job.row \in Row
    BY <1>5 DEF Activate, IInv, JobInv, JobSteps, GoodCopy
  <2>2. [job.row EXCEPT !.state = "active", !.provisionedAt = "set"].state = "active"
    BY <2>1 DEF Row
  <2>. QED  BY <1>5, <2>1, <2>2 DEF Activate, Update
<1>6. ASSUME NEW p \in Peerings, ExpireVisit(p), ~UNCHANGED peerings
      PROVE  \E row : peerings' = [peerings EXCEPT ![p] = row] /\ row.state # "pending_acceptance"
  <2>1. snap[p] \in Row
    BY <1>6 DEF ExpireVisit, IInv, SnapInv, GoodCopy
  <2>2. [snap[p] EXCEPT !.state = "expired"].state = "expired"
    BY <2>1, EditState DEF PeeringStates
  <2>. QED  BY <1>6, <2>2 DEF ExpireVisit, Update
<1>7. CASE ~UNCHANGED peerings
  <2>1. \/ \E r \in Requests : WriteBack(r) \/ DeleteWrite(r) \/ \E p \in Peerings : CreateInsert(r, p)
        \/ Activate
        \/ \E p \in Peerings : ExpireVisit(p)
    BY <1>7
    DEF Next, CreateNext, MutateNext, VPCNext, ControllerNext, vars, CreateBegin, CreateDuplicateCheck,
        CreateQuotaRequester, CreateQuotaAccepter, UpdateRead, AcceptRead, RejectRead, DeleteRead,
        DeleteVPCCheck, DeleteVPCWrite, ReconcileStart, ProvisionBegin, ProvisionSkip,
        ConfigureRTRequester, ConfigureRTAccepter, InjectAccepter, InjectRequester, FabricError,
        UpsertRoutes, ListPending, ReconcileEnd, Age
  <2>. QED  BY <1>2, <1>3, <1>4, <1>5, <1>6, <1>7, <2>1
<1>. QED  BY <1>1, <1>7

(* No stale write offers a decided peering for acceptance again. *)
THEOREM NeverPendingAgainHolds == Spec => NeverPendingAgain
<1>1. IInv /\ [Next]_vars =>
        [\A p \in Peerings :
            Exists(p) /\ peerings[p].state # "pending_acceptance"
                => peerings'[p].state # "pending_acceptance"]_vars
  <2>. SUFFICES ASSUME IInv, [Next]_vars, NEW p \in Peerings, Exists(p),
                       peerings[p].state # "pending_acceptance"
                PROVE  peerings'[p].state # "pending_acceptance"
    OBVIOUS
  <2>1. CASE UNCHANGED peerings
    BY <2>1
  <2>2. CASE \E q \in Peerings : \E row :
                 /\ peerings' = [peerings EXCEPT ![q] = row]
                 /\ Exists(q) => row.state # "pending_acceptance"
    BY <2>2 DEF IInv, TypeOK
  <2>. QED  BY <2>1, <2>2, StoreStep
<1>. QED  BY <1>1, Inductive, PTL DEF Spec, NeverPendingAgain

(* Nobody takes a copy of a deleted peering that it would write back. *)
Quiet(p) == Exists(p) /\ peerings[p].state = "deleted" /\ ~CopyInFlight(p)

(* No handler has a copy of p after the step. *)
LEMMA QuietRequests ==
    ASSUME IInv, NEW p \in Peerings, Quiet(p), NEW r \in Requests, CreateNext(r) \/ MutateNext(r)
    PROVE  \A q \in Requests : ~(reqs'[q].p = p /\ reqs'[q].op # "delete")
<1>. SUFFICES ASSUME NEW q \in Requests
              PROVE  ~(reqs'[q].p = p /\ reqs'[q].op # "delete")
  OBVIOUS
<1>. USE NoPeeringAssumption
<1>1. reqs \in [Requests -> RequestType] /\ ~(reqs[q].p = p /\ reqs[q].op # "delete")
  BY DEF IInv, TypeOK, RequestType, Quiet, CopyInFlight
<1>2. ASSUME NEW x \in Peerings, Get(x) # NoRow, Get(x).state # "deleted"
      PROVE  x # p
  BY <1>2, GetStored DEF Quiet
<1>3. CASE Finish(r)
  BY <1>1, <1>3 DEF Finish, IdleRequest
<1>4. CASE \E step \in RequestSteps : Goto(r, step)
  BY <1>1, <1>4 DEF Goto, RequestType
<1>5. CASE \E a \in Accounts, v \in VPCs, w \in VPCs, dir \in DirectionInputs, pol \in Policies :
              CreateBegin(r, a, v, w, dir, pol)
  BY <1>1, <1>5 DEF CreateBegin, Begin
<1>6. CASE \E a \in Accounts, x \in Peerings, dir \in DirectionInputs, pol \in Policies :
              UpdateRead(r, a, x, dir, pol)
  <2>1. PICK x, row : x \in Peerings /\ x # p /\ Begin(r, "update", "write", x, row)
    BY <1>2, <1>6 DEF UpdateRead
  <2>. QED  BY <1>1, <2>1 DEF Begin
<1>7. CASE \E a \in Accounts, x \in Peerings : AcceptRead(r, a, x) \/ RejectRead(r, a, x)
  <2>1. PICK x, op, row : x \in Peerings /\ x # p /\ Begin(r, op, "write", x, row)
    BY <1>2, <1>7 DEF AcceptRead, RejectRead, Decidable
  <2>. QED  BY <1>1, <2>1 DEF Begin
<1>8. CASE \E a \in Accounts, x \in Peerings : DeleteRead(r, a, x)
  BY <1>1, <1>8 DEF DeleteRead, Begin
<1>9. CASE CreateDuplicateCheck(r) \/ CreateQuotaRequester(r) \/ CreateQuotaAccepter(r)
  BY <1>3, <1>4, <1>9 DEF CreateDuplicateCheck, CreateQuotaRequester, CreateQuotaAccepter, RequestSteps
<1>10. CASE WriteBack(r) \/ DeleteWrite(r) \/ \E x \in Peerings : CreateInsert(r, x)
  BY <1>3, <1>10 DEF WriteBack, DeleteWrite, CreateInsert
<1>. QED  BY <1>5, <1>6, <1>7, <1>8, <1>9, <1>10 DEF CreateNext, MutateNext

(* The controller has no copy of p after the step either. *)
LEMMA QuietController ==
    ASSUME IInv, NEW p \in Peerings, Quiet(p), ControllerNext \/ FabricError
    PROVE  job'.p # p /\ snap'[p] = NoRow /\ reqs' = reqs
<1>. USE NoPeeringAssumption
<1>1. job.p # p /\ snap[p] = NoRow /\ snap \in [Peerings -> Row \cup {NoRow}]
  BY DEF IInv, TypeOK, Quiet, CopyInFlight
<1>2. CASE \E x \in Peerings : ProvisionBegin(x)
  <2>1. PICK x \in Peerings : ProvisionBegin(x)
    BY <1>2
  <2>2. x # p
    BY <2>1, GetStored DEF ProvisionBegin, Provisionable, Quiet
  <2>. QED  BY <1>1, <2>1, <2>2 DEF ProvisionBegin, apiVars
<1>3. CASE ListPending
  BY <1>1, <1>3 DEF ListPending, ListByState, Quiet, apiVars
<1>4. CASE \E x \in Peerings : ExpireVisit(x)
  BY <1>1, <1>4 DEF ExpireVisit, apiVars
<1>5. CASE FabricError \/ Activate
  BY <1>1, <1>5 DEF FabricError, Activate, NoJob, apiVars
<1>6. CASE \/ ReconcileStart \/ \E x \in Peerings : ProvisionSkip(x)
           \/ ConfigureRTRequester \/ ConfigureRTAccepter \/ InjectAccepter \/ InjectRequester
           \/ UpsertRoutes \/ ReconcileEnd
  BY <1>1, <1>6
  DEF ReconcileStart, ProvisionSkip, ConfigureRTRequester, ConfigureRTAccepter, InjectAccepter,
      InjectRequester, UpsertRoutes, ReconcileEnd, apiVars
<1>. QED  BY <1>2, <1>3, <1>4, <1>5, <1>6 DEF ControllerNext

(* No write reaches a quiet deleted peering but another Delete. *)
LEMMA QuietStore ==
    ASSUME IInv, NEW p \in Peerings, Quiet(p), [Next]_vars
    PROVE  Exists(p)' /\ peerings'[p].state = "deleted"
<1>. USE DEF Quiet
<1>1. CASE peerings'[p] = peerings[p]
  BY <1>1 DEF Exists
<1>2. CASE peerings'[p] # peerings[p]
  <2>1. \/ \E r \in Requests : WriteBack(r) \/ DeleteWrite(r) \/ \E x \in Peerings : CreateInsert(r, x)
        \/ Activate
        \/ \E x \in Peerings : ExpireVisit(x)
    BY <1>2
    DEF Next, CreateNext, MutateNext, VPCNext, ControllerNext, vars, CreateBegin, CreateDuplicateCheck,
        CreateQuotaRequester, CreateQuotaAccepter, UpdateRead, AcceptRead, RejectRead, DeleteRead,
        DeleteVPCCheck, DeleteVPCWrite, ReconcileStart, ProvisionBegin, ProvisionSkip,
        ConfigureRTRequester, ConfigureRTAccepter, InjectAccepter, InjectRequester, FabricError,
        UpsertRoutes, ListPending, ReconcileEnd, Age
  <2>2. ASSUME NEW x, NEW row, Update(x, row)
        PROVE  x = p
    BY <1>2, <2>2 DEF Update, IInv, TypeOK
  <2>3. ASSUME NEW r \in Requests, WriteBack(r)
        PROVE  FALSE
    BY <2>2, <2>3 DEF WriteBack, At, CopyInFlight
  <2>4. ASSUME NEW r \in Requests, NEW x \in Peerings, CreateInsert(r, x)
        PROVE  FALSE
    BY <2>2, <2>4 DEF CreateInsert
  <2>5. ASSUME Activate
        PROVE  FALSE
    BY <2>2, <2>5 DEF Activate, CopyInFlight
  <2>6. ASSUME NEW x \in Peerings, ExpireVisit(x)
        PROVE  FALSE
    <3>1. CASE UNCHANGED peerings
      BY <1>2, <3>1
    <3>2. CASE ~UNCHANGED peerings
      BY <2>2, <2>6, <3>2 DEF ExpireVisit, CopyInFlight
    <3>. QED  BY <3>1, <3>2
  <2>7. ASSUME NEW r \in Requests, DeleteWrite(r)
        PROVE  Exists(p)' /\ peerings'[p].state = "deleted"
    <3>1. reqs[r].p = p
      BY <2>2, <2>7 DEF DeleteWrite
    <3>2. peerings'[p] = [peerings[p] EXCEPT !.state = "deleted"]
      BY <2>7, <3>1 DEF DeleteWrite, Update, IInv, TypeOK
    <3>3. peerings[p] \in Row /\ "deleted" \in PeeringStates
      BY StoredRow DEF IInv, PeeringStates
    <3>4. peerings'[p] \in Row /\ peerings'[p].state = "deleted"
      BY <3>2, <3>3, EditState
    <3>. QED  BY <3>4, NoRowAssumption DEF Exists
  <2>. QED  BY <2>1, <2>3, <2>4, <2>5, <2>6, <2>7
<1>. QED  BY <1>1, <1>2

(* Once nobody holds a copy of a deleted peering, it stays deleted. *)
THEOREM QuietDeletionIsFinalHolds == Spec => QuietDeletionIsFinal
<1>1. IInv /\ [Next]_vars =>
        [\A p \in Peerings :
            Exists(p) /\ peerings[p].state = "deleted" /\ ~CopyInFlight(p)
                => peerings'[p].state = "deleted" /\ ~CopyInFlight(p)']_vars
  <2>. SUFFICES ASSUME IInv, [Next]_vars, NEW p \in Peerings, Quiet(p)
                PROVE  peerings'[p].state = "deleted" /\ ~CopyInFlight(p)'
    BY DEF Quiet
  <2>1. peerings'[p].state = "deleted"
    BY QuietStore
  <2>2. ASSUME NEW r \in Requests, CreateNext(r) \/ MutateNext(r)
        PROVE  ~CopyInFlight(p)'
    <3>1. UNCHANGED <<job, snap>>
      BY <2>2
      DEF CreateNext, MutateNext, CreateBegin, CreateDuplicateCheck, CreateQuotaRequester,
          CreateQuotaAccepter, CreateInsert, UpdateRead, AcceptRead, RejectRead, DeleteRead,
          WriteBack, DeleteWrite, ctlVars
    <3>. QED  BY <2>2, <3>1, QuietRequests DEF CopyInFlight, Quiet
  <2>3. CASE ControllerNext \/ FabricError
    BY <2>1, <2>3, QuietController DEF CopyInFlight, Quiet
  <2>4. CASE (\E v \in VPCs : VPCNext(v)) \/ (\E x \in Peerings : Age(x)) \/ UNCHANGED vars
    <3>1. UNCHANGED <<reqs, job, snap>>
      BY <2>4 DEF VPCNext, DeleteVPCCheck, DeleteVPCWrite, Age, vars, ctlVars, apiVars
    <3>. QED  BY <2>1, <3>1 DEF CopyInFlight, Quiet
  <2>. QED  BY <2>1, <2>2, <2>3, <2>4 DEF Next
<1>. QED  BY <1>1, Inductive, PTL DEF Spec, QuietDeletionIsFinal

-----------------------------------------------------------------------------
(* How far the unlocked checks of Create can be overrun.                   *)
(*                                                                         *)
(* The argument.  A peering counts, or it is deleted but some writer holds *)
(* a copy that would bring it back; and some Creates have passed the check *)
(* and not yet inserted.  These together never grow but when a Create      *)
(* passes the check, and then they are few: what counts is below the limit *)
(* and everything else is some other writer's, one each.                   *)

(* The groups of VPCs that Create counts the peerings of: one VPC for the *)
(* quota, both for the duplicate check; what the check lets pass.         *)
Groups == {{v, w} : v, w \in VPCs}
Limit(X) == IF \E v \in VPCs : X = {v} THEN MaxPeerings - 1 ELSE 0

Matching(X) == {p \in Peerings : Counted(p) /\ X \subseteq Endpoints(peerings[p])}

(* Somebody holds a copy of p that may be written back. *)
Held(p) ==
    \/ \E r \in Requests : reqs[r].op \in {"update", "accept", "reject"} /\ reqs[r].p = p
    \/ pc \in JobSteps /\ job.p = p

Touched(X) ==
    {p \in Peerings : Exists(p) /\ X \subseteq Endpoints(peerings[p]) /\ (Counted(p) \/ Held(p))}

(* The Creates that have passed the check of X. *)
Past(X, row, step) ==
    \/ step = "insert"
    \/ step = "count_accepter" /\ (X = {row.requester} \/ X = Endpoints(row))
    \/ step = "count_requester" /\ X = Endpoints(row)

Passed(X, req) == req.op = "create" /\ X \subseteq Endpoints(req.row) /\ Past(X, req.row, req.step)

Creators(X) == {r \in Requests : Passed(X, reqs[r])}

BoundInv ==
    /\ pc # "idle" => "reconcile" \in Stimuli
    /\ \A X \in Groups :
          Cardinality(Touched(X)) + Cardinality(Creators(X)) <= Limit(X) + Writers

(* A function's values are no more than its arguments. *)
LEMMA ImageBound ==
    ASSUME NEW S, IsFiniteSet(S), NEW f, NEW T, T \subseteq {f[x] : x \in S}
    PROVE  IsFiniteSet(T) /\ Cardinality(T) <= Cardinality(S) /\ Cardinality(T) \in Nat
<1>1. PICK U : U = {f[x] : x \in S}
  OBVIOUS
<1>2. PICK g : g = [x \in S |-> f[x]]
  OBVIOUS
<1>3. g \in Surjection(S, U)
  BY <1>1, <1>2 DEF Surjection
<1>4. IsFiniteSet(U) /\ Cardinality(U) <= Cardinality(S)
  BY <1>3, FS_Surjection
<1>5. IsFiniteSet(T) /\ Cardinality(T) <= Cardinality(U)
  BY <1>1, <1>4, FS_Subset
<1>6. Cardinality(T) \in Nat /\ Cardinality(U) \in Nat /\ Cardinality(S) \in Nat
  BY <1>4, <1>5, FS_CardinalityType
<1> QED  BY <1>4, <1>5, <1>6

(* A subset of a finite set is finite and no larger. *)
LEMMA SubsetBound ==
    ASSUME NEW S, IsFiniteSet(S), NEW T, T \subseteq S
    PROVE  /\ IsFiniteSet(T)
           /\ Cardinality(T) \in Nat /\ Cardinality(S) \in Nat
           /\ Cardinality(T) <= Cardinality(S)
BY FS_Subset, FS_CardinalityType

(* A union is no larger than its parts together. *)
LEMMA UnionBound ==
    ASSUME NEW S, IsFiniteSet(S), NEW T, IsFiniteSet(T)
    PROVE  /\ IsFiniteSet(S \cup T)
           /\ Cardinality(S) \in Nat /\ Cardinality(T) \in Nat
           /\ Cardinality(S \cup T) <= Cardinality(S) + Cardinality(T)
           /\ S \cap T = {} => Cardinality(S \cup T) = Cardinality(S) + Cardinality(T)
<1>1. IsFiniteSet(S \cup T) /\ Cardinality(S \cup T) = Cardinality(S) + Cardinality(T) - Cardinality(S \cap T)
  BY FS_Union
<1>2. IsFiniteSet(S \cap T) /\ Cardinality(S \cap T) \in Nat
  BY SubsetBound
<1>3. Cardinality(S) \in Nat /\ Cardinality(T) \in Nat
  BY FS_CardinalityType
<1>4. S \cap T = {} => Cardinality(S \cap T) = 0
  BY FS_EmptySet
<1> QED  BY <1>1, <1>2, <1>3, <1>4

(* If what counts is within the limit, then so is everything, up to one *)
(* for each writer.                                                     *)
LEMMA RoomLeft ==
    ASSUME IInv, BoundInv, NEW X, NEW k \in Int, Cardinality(Matching(X)) <= k,
           NEW D \in SUBSET Requests, \A r \in D : reqs[r].op = "create"
    PROVE  Cardinality(Touched(X)) + Cardinality(D) <= k + Writers
<1>1. PICK H : H = {r \in Requests : reqs[r].op \in {"update", "accept", "reject"}}
  OBVIOUS
<1>2. /\ IsFiniteSet(H) /\ IsFiniteSet(D) /\ IsFiniteSet(H \cup D)
      /\ Cardinality(H) \in Nat /\ Cardinality(D) \in Nat /\ Cardinality(Requests) \in Nat
      /\ Cardinality(H \cup D) <= Cardinality(Requests)
  <2>1. H \subseteq Requests /\ D \subseteq Requests /\ H \cup D \subseteq Requests
    BY <1>1
  <2> QED  BY <2>1, SubsetBound, FiniteAssumption
<1>3. Cardinality(H) + Cardinality(D) <= Cardinality(Requests)
  <2>1. H \cap D = {}
    BY <1>1
  <2>2. Cardinality(H \cup D) = Cardinality(H) + Cardinality(D)
    BY <1>2, <2>1, UnionBound
  <2> QED  BY <1>2, <2>2
<1>4. PICK HP : HP = {p \in Peerings : \E r \in H : reqs[r].p = p}
  OBVIOUS
<1>5. IsFiniteSet(HP) /\ Cardinality(HP) <= Cardinality(H) /\ Cardinality(HP) \in Nat
  <2>1. PICK f : f = [r \in H |-> reqs[r].p]
    OBVIOUS
  <2>2. HP \subseteq {f[r] : r \in H}
    BY <1>4, <2>1
  <2> QED  BY <1>2, <2>2, ImageBound
<1>6. PICK JP : JP = {p \in Peerings : pc \in JobSteps /\ job.p = p}
  OBVIOUS
<1>7. IsFiniteSet(JP) /\ Cardinality(JP) \in Nat /\ Cardinality(Requests) + Cardinality(JP) <= Writers /\ Writers \in Nat
  <2>1. CASE pc \in JobSteps
    <3>1. JP \subseteq {job.p}
      BY <1>6
    <3>2. IsFiniteSet({job.p}) /\ Cardinality({job.p}) = 1
      BY FS_Singleton
    <3>3. IsFiniteSet(JP) /\ Cardinality(JP) \in Nat /\ Cardinality(JP) <= 1
      BY <3>1, <3>2, SubsetBound
    <3>4. "reconcile" \in Stimuli
      BY <2>1 DEF BoundInv, JobSteps, FabricSteps
    <3> QED  BY <1>2, <3>3, <3>4 DEF Writers
  <2>2. CASE pc \notin JobSteps
    <3>1. JP = {}
      BY <1>6, <2>2
    <3>2. IsFiniteSet(JP) /\ Cardinality(JP) = 0
      BY <3>1, FS_EmptySet
    <3> QED  BY <1>2, <3>2 DEF Writers
  <2> QED  BY <2>1, <2>2
<1>8. IsFiniteSet(Matching(X)) /\ Cardinality(Matching(X)) \in Nat
  BY SubsetBound, FiniteAssumption DEF Matching
<1>9. Touched(X) \subseteq Matching(X) \cup (HP \cup JP)
  BY <1>1, <1>4, <1>6 DEF Touched, Matching, Held
<1>10. IsFiniteSet(HP \cup JP) /\ Cardinality(HP \cup JP) <= Cardinality(HP) + Cardinality(JP) /\ Cardinality(HP \cup JP) \in Nat
  BY <1>5, <1>7, UnionBound, FS_CardinalityType
<1>11. /\ IsFiniteSet(Matching(X) \cup (HP \cup JP))
       /\ Cardinality(Matching(X) \cup (HP \cup JP)) <= Cardinality(Matching(X)) + Cardinality(HP \cup JP)
  BY <1>8, <1>10, UnionBound
<1>12. /\ Cardinality(Touched(X)) <= Cardinality(Matching(X) \cup (HP \cup JP))
       /\ Cardinality(Touched(X)) \in Nat /\ Cardinality(Matching(X) \cup (HP \cup JP)) \in Nat
  BY <1>9, <1>11, SubsetBound
<1> QED  BY <1>2, <1>3, <1>5, <1>7, <1>8, <1>10, <1>11, <1>12

(* A step writes a stored peering with the endpoints it has; only who holds *)
(* a copy makes it count again.                                             *)
LEMMA StoreChange ==
    ASSUME IInv, Next, NEW p \in Peerings, peerings'[p] # NoRow
    PROVE  \/ \E r \in Requests : CreateInsert(r, p)
           \/ /\ Exists(p)
              /\ Endpoints(peerings'[p]) = Endpoints(peerings[p])
              /\ Counted(p)' => Counted(p) \/ Held(p)
<1>0. TypeOK
  BY DEF IInv
<1>1. ASSUME peerings'[p] = peerings[p]
      PROVE  /\ Exists(p)
             /\ Endpoints(peerings'[p]) = Endpoints(peerings[p])
             /\ Counted(p)' => Counted(p) \/ Held(p)
  BY <1>1 DEF Exists, Counted
<1>2. ASSUME NEW q \in Peerings, NEW row, Update(q, row), GoodCopy(q, row),
             row.state \notin {"deleted", "rejected", "expired"} => Held(q)
      PROVE  /\ Exists(p)
             /\ Endpoints(peerings'[p]) = Endpoints(peerings[p])
             /\ Counted(p)' => Counted(p) \/ Held(p)
  <2>1. CASE p = q
    <3>1. peerings'[p] = row
      BY <1>0, <1>2, <2>1 DEF Update, TypeOK
    <3> QED  BY <1>2, <2>1, <3>1 DEF GoodCopy, Endpoints, Counted, Exists
  <2>2. CASE p # q
    <3>1. peerings'[p] = peerings[p]
      BY <1>0, <1>2, <2>2 DEF Update, TypeOK
    <3> QED  BY <1>1, <3>1
  <2> QED  BY <2>1, <2>2
<1>3. ASSUME NEW r \in Requests, WriteBack(r)
      PROVE  /\ Exists(p)
             /\ Endpoints(peerings'[p]) = Endpoints(peerings[p])
             /\ Counted(p)' => Counted(p) \/ Held(p)
  <2>1. reqs[r].op \in {"update", "accept", "reject"} /\ Update(reqs[r].p, reqs[r].row)
    BY <1>3 DEF WriteBack, At
  <2>2. reqs[r].p \in Peerings /\ GoodCopy(reqs[r].p, reqs[r].row)
    BY <2>1 DEF IInv, RequestInv
  <2>3. reqs[r].row.state \notin {"deleted", "rejected", "expired"} => Held(reqs[r].p)
    BY <2>1 DEF Held
  <2> QED  BY <1>2, <2>1, <2>2, <2>3
<1>4. ASSUME NEW r \in Requests, DeleteWrite(r)
      PROVE  /\ Exists(p)
             /\ Endpoints(peerings'[p]) = Endpoints(peerings[p])
             /\ Counted(p)' => Counted(p) \/ Held(p)
  <2>1. PICK q \in Peerings : q = reqs[r].p /\ Exists(q)
    BY <1>4 DEF DeleteWrite, At, IInv, RequestInv
  <2>2. PICK row : row = [peerings[q] EXCEPT !.state = "deleted"]
    OBVIOUS
  <2>3. GoodCopy(q, peerings[q])
    BY <2>1 DEF IInv, StoredInv
  <2>4. GoodCopy(q, row)
    BY <2>2, <2>3, EditGood
  <2>5. row.state = "deleted"
    BY <2>2, <2>3, EditState DEF GoodCopy, PeeringStates
  <2>6. Update(q, row)
    BY <1>4, <2>1, <2>2 DEF DeleteWrite
  <2> QED  BY <1>2, <2>4, <2>5, <2>6
<1>5. ASSUME Activate
      PROVE  /\ Exists(p)
             /\ Endpoints(peerings'[p]) = Endpoints(peerings[p])
             /\ Counted(p)' => Counted(p) \/ Held(p)
  <2>1. pc \in JobSteps /\ job.p \in Peerings /\ GoodCopy(job.p, job.row)
    BY <1>5 DEF Activate, IInv, JobInv, JobSteps
  <2>2. PICK row : row = [job.row EXCEPT !.state = "active", !.provisionedAt = "set"]
    OBVIOUS
  <2>3. Endpoints(row) = Endpoints(job.row)
    BY <2>1, <2>2 DEF GoodCopy, Row, Endpoints
  <2>4. CASE p = job.p
    <3>1. peerings'[p] = row
      BY <1>0, <1>5, <2>2, <2>4 DEF Activate, Update, TypeOK
    <3>2. Held(p) /\ Exists(p) /\ Endpoints(job.row) = Endpoints(peerings[p])
      BY <2>1, <2>4 DEF Held, GoodCopy, Endpoints
    <3> QED  BY <2>3, <3>1, <3>2
  <2>5. CASE p # job.p
    <3>1. peerings'[p] = peerings[p]
      BY <1>0, <1>5, <2>1, <2>5 DEF Activate, Update, TypeOK
    <3> QED  BY <1>1, <3>1
  <2> QED  BY <2>4, <2>5
<1>6. ASSUME NEW q \in Peerings, ExpireVisit(q), ~UNCHANGED peerings
      PROVE  /\ Exists(p)
             /\ Endpoints(peerings'[p]) = Endpoints(peerings[p])
             /\ Counted(p)' => Counted(p) \/ Held(p)
  <2>1. GoodCopy(q, snap[q])
    BY <1>6 DEF ExpireVisit, IInv, SnapInv
  <2>2. PICK row : row = [snap[q] EXCEPT !.state = "expired"]
    OBVIOUS
  <2>3. GoodCopy(q, row) /\ row.state = "expired"
    BY <2>1, <2>2, EditGood, EditState DEF GoodCopy, PeeringStates
  <2>4. Update(q, row)
    BY <1>6, <2>2 DEF ExpireVisit
  <2> QED  BY <1>2, <2>3, <2>4
<1>7. ASSUME NEW r \in Requests, NEW q \in Peerings, CreateInsert(r, q), q # p
      PROVE  peerings'[p] = peerings[p]
  BY <1>0, <1>7 DEF CreateInsert, Update, TypeOK
<1>8. CASE ~UNCHANGED peerings
  <2>1. \/ \E r \in Requests : WriteBack(r) \/ DeleteWrite(r) \/ \E q \in Peerings : CreateInsert(r, q)
        \/ Activate
        \/ \E q \in Peerings : ExpireVisit(q)
    BY <1>8
    DEF Next, CreateNext, MutateNext, VPCNext, ControllerNext, CreateBegin, CreateDuplicateCheck,
        CreateQuotaRequester, CreateQuotaAccepter, UpdateRead, AcceptRead, RejectRead, DeleteRead,
        DeleteVPCCheck, DeleteVPCWrite, ReconcileStart, ProvisionBegin, ProvisionSkip,
        ConfigureRTRequester, ConfigureRTAccepter, InjectAccepter, InjectRequester, FabricError,
        UpsertRoutes, ListPending, ReconcileEnd, Age
  <2> QED  BY <1>1, <1>3, <1>4, <1>5, <1>6, <1>7, <1>8, <2>1
<1> QED  BY <1>1, <1>8

(* Copies that may be written back are taken of peerings that count. *)
LEMMA HeldStep ==
    ASSUME IInv, Next, NEW p \in Peerings, Held(p)'
    PROVE  Held(p) \/ Counted(p)
<1>0. reqs \in [Requests -> RequestType]
  BY DEF IInv, TypeOK, RequestType
<1>1. ASSUME NEW x \in Peerings, Get(x) # NoRow, Get(x).state \in {"active", "provisioning", "pending_acceptance"}
      PROVE  Counted(x)
  BY <1>1, GetStored DEF Counted
<1>2. CASE \E r \in Requests : CreateNext(r) \/ MutateNext(r)
  <2>1. PICK r \in Requests : CreateNext(r) \/ MutateNext(r)
    BY <1>2
  <2>2. UNCHANGED <<pc, job>>
    BY <2>1
    DEF CreateNext, MutateNext, CreateBegin, CreateDuplicateCheck, CreateQuotaRequester,
        CreateQuotaAccepter, CreateInsert, UpdateRead, AcceptRead, RejectRead, DeleteRead,
        WriteBack, DeleteWrite, ctlVars
  <2>3. ASSUME NEW q \in Requests, reqs'[q].op \in {"update", "accept", "reject"}, reqs'[q].p = p,
               ~Counted(p)
        PROVE  reqs[q].op \in {"update", "accept", "reject"} /\ reqs[q].p = p
    <3>1. CASE Finish(r)
      BY <1>0, <2>3, <3>1 DEF Finish, IdleRequest
    <3>2. CASE \E step \in RequestSteps : Goto(r, step)
      BY <1>0, <2>3, <3>2 DEF Goto, RequestType
    <3>3. CASE \E a \in Accounts, v \in VPCs, w \in VPCs, dir \in DirectionInputs, pol \in Policies :
                  CreateBegin(r, a, v, w, dir, pol)
      BY <1>0, <2>3, <3>3 DEF CreateBegin, Begin
    <3>4. CASE \E a \in Accounts, x \in Peerings, dir \in DirectionInputs, pol \in Policies :
                  UpdateRead(r, a, x, dir, pol)
      <4>1. PICK x, row : x \in Peerings /\ x # p /\ Begin(r, "update", "write", x, row)
        BY <1>1, <2>3, <3>4 DEF UpdateRead
      <4> QED  BY <1>0, <2>3, <4>1 DEF Begin
    <3>5. CASE \E a \in Accounts, x \in Peerings : AcceptRead(r, a, x) \/ RejectRead(r, a, x)
      <4>1. PICK x, op, row : x \in Peerings /\ x # p /\ Begin(r, op, "write", x, row)
        BY <1>1, <2>3, <3>5 DEF AcceptRead, RejectRead, Decidable
      <4> QED  BY <1>0, <2>3, <4>1 DEF Begin
    <3>6. CASE \E a \in Accounts, x \in Peerings : DeleteRead(r, a, x)
      BY <1>0, <2>3, <3>6 DEF DeleteRead, Begin
    <3>7. CASE CreateDuplicateCheck(r) \/ CreateQuotaRequester(r) \/ CreateQuotaAccepter(r)
      BY <3>1, <3>2, <3>7
      DEF CreateDuplicateCheck, CreateQuotaRequester, CreateQuotaAccepter, RequestSteps
    <3>8. CASE WriteBack(r) \/ DeleteWrite(r) \/ \E x \in Peerings : CreateInsert(r, x)
      BY <3>1, <3>8 DEF WriteBack, DeleteWrite, CreateInsert
    <3> QED  BY <2>1, <3>3, <3>4, <3>5, <3>6, <3>7, <3>8 DEF CreateNext, MutateNext
  <2> QED  BY <2>2, <2>3 DEF Held
<1>3. CASE \E x \in Peerings : ProvisionBegin(x)
  <2>1. PICK x \in Peerings : ProvisionBegin(x)
    BY <1>3
  <2>2. Counted(x) /\ reqs' = reqs /\ job'.p = x
    BY <1>1, <2>1 DEF ProvisionBegin, Provisionable, apiVars
  <2> QED  BY <2>2 DEF Held
<1>4. ASSUME UNCHANGED <<reqs, job>>, pc' \in JobSteps => pc \in JobSteps PROVE Held(p)
  BY <1>4 DEF Held
<1>5. CASE Activate \/ FabricError
  <2>1. reqs' = reqs /\ pc' \notin JobSteps
    BY <1>5 DEF Activate, FabricError, apiVars, JobSteps, FabricSteps
  <2> QED  BY <2>1 DEF Held
<1>6. CASE \/ ReconcileStart \/ ListPending \/ ReconcileEnd
           \/ \E x \in Peerings : ProvisionSkip(x) \/ ExpireVisit(x)
           \/ ConfigureRTRequester \/ ConfigureRTAccepter \/ InjectAccepter \/ InjectRequester
           \/ UpsertRoutes
  BY <1>4, <1>6
  DEF ReconcileStart, ListPending, ProvisionSkip, ExpireVisit, ConfigureRTRequester, ConfigureRTAccepter,
      InjectAccepter, InjectRequester, UpsertRoutes, ReconcileEnd, apiVars, JobSteps, FabricSteps
<1>7. CASE (\E v \in VPCs : VPCNext(v)) \/ (\E x \in Peerings : Age(x))
  BY <1>4, <1>7 DEF VPCNext, DeleteVPCCheck, DeleteVPCWrite, Age, ctlVars, apiVars
<1> QED  BY <1>2, <1>3, <1>5, <1>6, <1>7 DEF Next, ControllerNext

(* Only an insert adds to the peerings that count or may count again. *)
LEMMA TouchedStep ==
    ASSUME IInv, Next, NEW X, NEW p, p \in Touched(X)'
    PROVE  p \in Touched(X) \/ \E r \in Requests : CreateInsert(r, p)
<1>1. p \in Peerings /\ peerings'[p] # NoRow /\ X \subseteq Endpoints(peerings'[p]) /\ (Counted(p)' \/ Held(p)')
  BY DEF Touched, Exists, Endpoints
<1> QED  BY <1>1, StoreChange, HeldStep DEF Touched

(* The checks of Create: whoever passes that of X found the group within *)
(* its limit.                                                            *)
LEMMA CheckStep ==
    ASSUME IInv, NEW r \in Requests, NEW X \in Groups,
           CreateDuplicateCheck(r) \/ CreateQuotaRequester(r) \/ CreateQuotaAccepter(r),
           Passed(X, reqs'[r]), ~Passed(X, reqs[r])
    PROVE  Cardinality(Matching(X)) <= Limit(X)
<1>1. PICK q \in RequestType : q = reqs[r]
  BY DEF IInv, TypeOK, RequestType
<1>2. q.op = "create"
  BY <1>1 DEF CreateDuplicateCheck, CreateQuotaRequester, CreateQuotaAccepter, At
<1>3. NewRowInv(q.row)
  BY <1>1, <1>2 DEF IInv, RequestInv
<1>4. PICK v \in VPCs, w \in VPCs : v = q.row.requester /\ w = q.row.accepter /\ v # w
  BY <1>3 DEF NewRowInv, Row
<1>5. Endpoints(q.row) = {v, w}
  BY <1>4 DEF Endpoints
<1>6. reqs'[r].op = "create"
  BY DEF Passed
<1>7. PICK step \in RequestSteps : reqs' = [reqs EXCEPT ![r].step = step]
  BY <1>6 DEF CreateDuplicateCheck, CreateQuotaRequester, CreateQuotaAccepter, Goto, Finish,
             IdleRequest, RequestSteps, IInv, TypeOK
<1>8. reqs'[r] = [q EXCEPT !.step = step]
  BY <1>1, <1>7 DEF IInv, TypeOK
<1>9. reqs'[r].row = q.row /\ reqs'[r].step = step
  BY <1>8 DEF RequestType
<1>10. X \subseteq {v, w} /\ Past(X, q.row, step) /\ ~Past(X, q.row, q.step)
  BY <1>1, <1>2, <1>5, <1>9 DEF Passed
<1>11. X = {v} \/ X = {w} \/ X = {v, w}
  BY <1>10 DEF Groups
<1>12. CASE CreateDuplicateCheck(r)
  <2>1. q.step = "duplicate"
    BY <1>1, <1>12 DEF CreateDuplicateCheck, At
  <2>2. FindByVPCs(v, w) = {} /\ step = "count_requester"
    BY <1>1, <1>4, <1>6, <1>9, <1>12 DEF CreateDuplicateCheck, Goto, Finish, IdleRequest, IInv, TypeOK
  <2>3. X = {v, w}
    BY <1>5, <1>10, <2>2 DEF Past
  <2>4. Matching(X) = {}
    <3>1. ASSUME NEW p \in Matching(X) PROVE p \in FindByVPCs(v, w)
      <4>1. GoodCopy(p, peerings[p]) /\ Counted(p) /\ p \in Peerings
        BY <3>1 DEF Matching, Counted, IInv, StoredInv
      <4>2. Endpoints(peerings[p]) = {v, w}
        BY <1>4, <2>3, <3>1, <4>1 DEF Matching, Endpoints
      <4> QED  BY <4>1, <4>2 DEF FindByVPCs
    <3> QED  BY <2>2, <3>1
  <2>5. Limit(X) = 0
    BY <1>4, <2>3 DEF Limit
  <2> QED  BY <2>4, <2>5, FS_EmptySet
<1>13. ASSUME NEW z \in VPCs, X = {z}, CountByVPC(z) < MaxPeerings
       PROVE  Cardinality(Matching(X)) <= Limit(X)
  <2>1. Matching(X) = {p \in Peerings : Counted(p) /\ z \in Endpoints(peerings[p])}
    BY <1>13 DEF Matching
  <2>2. Cardinality(Matching(X)) \in Nat
    BY <2>1, SubsetBound, FiniteAssumption
  <2>3. Cardinality(Matching(X)) < MaxPeerings
    BY <1>13, <2>1 DEF CountByVPC
  <2>4. Limit(X) = MaxPeerings - 1
    BY <1>13 DEF Limit
  <2> QED  BY <2>2, <2>3, <2>4, QuotaAssumption
<1>14. CASE CreateQuotaRequester(r)
  <2>1. q.step = "count_requester"
    BY <1>1, <1>14 DEF CreateQuotaRequester, At
  <2>2. CountByVPC(v) < MaxPeerings /\ step = "count_accepter"
    BY <1>1, <1>4, <1>6, <1>9, <1>14 DEF CreateQuotaRequester, Goto, Finish, IdleRequest, IInv, TypeOK
  <2>3. X = {v}
    BY <1>4, <1>5, <1>10, <2>1, <2>2 DEF Past
  <2> QED  BY <1>13, <2>2, <2>3
<1>15. CASE CreateQuotaAccepter(r)
  <2>1. q.step = "count_accepter"
    BY <1>1, <1>15 DEF CreateQuotaAccepter, At
  <2>2. CountByVPC(w) < MaxPeerings
    BY <1>1, <1>4, <1>6, <1>15 DEF CreateQuotaAccepter, Goto, Finish, IdleRequest, IInv, TypeOK
  <2>3. X = {w}
    BY <1>4, <1>5, <1>10, <1>11, <2>1 DEF Past
  <2> QED  BY <1>13, <2>2, <2>3
<1> QED  BY <1>12, <1>14, <1>15

(* A request changes only by a step of its own handler. *)
LEMMA OwnStep ==
    ASSUME IInv, Next, NEW r \in Requests, reqs'[r] # reqs[r]
    PROVE  CreateNext(r) \/ MutateNext(r)
<1>0. reqs \in [Requests -> RequestType]
  BY DEF IInv, TypeOK, RequestType
<1>1. PICK q \in Requests : CreateNext(q) \/ MutateNext(q)
  <2>1. CASE ControllerNext \/ FabricError
    BY <2>1
    DEF ControllerNext, ReconcileStart, ProvisionBegin, ProvisionSkip, ExpireVisit,
        ConfigureRTRequester, ConfigureRTAccepter, InjectAccepter, InjectRequester, UpsertRoutes,
        Activate, ListPending, ReconcileEnd, FabricError, apiVars
  <2>2. CASE (\E v \in VPCs : VPCNext(v)) \/ (\E x \in Peerings : Age(x))
    BY <2>2 DEF VPCNext, DeleteVPCCheck, DeleteVPCWrite, Age, apiVars
  <2> QED  BY <2>1, <2>2 DEF Next
<1>2. ASSUME q # r PROVE FALSE
  <2>1. CASE Finish(q)
    BY <1>0, <1>2, <2>1 DEF Finish
  <2>2. CASE \E step \in RequestSteps : Goto(q, step)
    BY <1>0, <1>2, <2>2 DEF Goto
  <2>3. CASE \E op, step, p, row : Begin(q, op, step, p, row)
    BY <1>0, <1>2, <2>3 DEF Begin
  <2>4. CASE CreateNext(q)
    BY <2>1, <2>2, <2>3, <2>4
    DEF CreateNext, CreateBegin, CreateDuplicateCheck, CreateQuotaRequester, CreateQuotaAccepter,
        CreateInsert, RequestSteps
  <2>5. CASE MutateNext(q)
    BY <2>1, <2>3, <2>5
    DEF MutateNext, UpdateRead, AcceptRead, RejectRead, DeleteRead, WriteBack, DeleteWrite
  <2> QED  BY <1>1, <2>4, <2>5
<1> QED  BY <1>1, <1>2

(* A Create passes the check of X only in one of its checks. *)
LEMMA PassingStep ==
    ASSUME IInv, Next, NEW X, NEW r \in Requests, Passed(X, reqs'[r]), ~Passed(X, reqs[r])
    PROVE  CreateDuplicateCheck(r) \/ CreateQuotaRequester(r) \/ CreateQuotaAccepter(r)
<1>0. reqs \in [Requests -> RequestType]
  BY DEF IInv, TypeOK, RequestType
<1>1. CreateNext(r) \/ MutateNext(r)
  BY OwnStep
<1>2. reqs'[r].op = "create" /\ reqs'[r].step # "duplicate"
  BY DEF Passed, Past
<1>3. ASSUME Finish(r) PROVE FALSE
  BY <1>0, <1>2, <1>3 DEF Finish, IdleRequest
<1>4. ASSUME NEW op, NEW step, NEW p, NEW row, Begin(r, op, step, p, row)
      PROVE  op = "create" /\ step # "duplicate"
  BY <1>0, <1>2, <1>4 DEF Begin
<1>5. CASE CreateNext(r)
  <2>1. ASSUME NEW a, NEW v, NEW w, NEW dir, NEW pol, CreateBegin(r, a, v, w, dir, pol)
        PROVE  FALSE
    BY <1>4, <2>1 DEF CreateBegin
  <2>2. ASSUME NEW p, CreateInsert(r, p) PROVE FALSE
    BY <1>3, <2>2 DEF CreateInsert
  <2> QED  BY <1>5, <2>1, <2>2 DEF CreateNext
<1>6. CASE MutateNext(r)
  <2>1. ASSUME NEW a, NEW p, NEW dir, NEW pol, UpdateRead(r, a, p, dir, pol) PROVE FALSE
    BY <1>4, <2>1 DEF UpdateRead
  <2>2. ASSUME NEW a, NEW p, AcceptRead(r, a, p) \/ RejectRead(r, a, p) \/ DeleteRead(r, a, p)
        PROVE  FALSE
    BY <1>4, <2>2 DEF AcceptRead, RejectRead, DeleteRead
  <2>3. ~WriteBack(r) /\ ~DeleteWrite(r)
    BY <1>3 DEF WriteBack, DeleteWrite
  <2> QED  BY <1>6, <2>1, <2>2, <2>3 DEF MutateNext
<1> QED  BY <1>1, <1>5, <1>6

(* What an insert does to the store. *)
LEMMA InsertStores ==
    ASSUME IInv, NEW r \in Requests, NEW p \in Peerings, CreateInsert(r, p)
    PROVE  /\ peerings'[p] = reqs[r].row
           /\ peerings'[p] # NoRow
           /\ peerings[p] = NoRow
           /\ \A q \in Peerings \ {p} : peerings'[q] = peerings[q]
           /\ reqs'[r] = IdleRequest
           /\ reqs[r].op = "create" /\ reqs[r].step = "insert"
<1>1. peerings \in [Peerings -> Row \cup {NoRow}] /\ reqs \in [Requests -> RequestType]
  BY DEF IInv, TypeOK, RequestType
<1>2. reqs[r].op = "create" /\ reqs[r].step = "insert"
  BY DEF CreateInsert, At
<1>3. reqs[r].row \in Row
  BY <1>2 DEF IInv, RequestInv, NewRowInv
<1>4. reqs[r].row # NoRow
  BY <1>3, NoRowAssumption
<1> QED  BY <1>1, <1>2, <1>4 DEF CreateInsert, Update, Exists, Finish

(* The sets that the bound is about are finite. *)
LEMMA BoundFinite ==
    ASSUME NEW X \in Groups
    PROVE  /\ IsFiniteSet(Touched(X)) /\ Cardinality(Touched(X)) \in Nat
           /\ IsFiniteSet(Touched(X)') /\ Cardinality(Touched(X)') \in Nat
           /\ IsFiniteSet(Creators(X)) /\ Cardinality(Creators(X)) \in Nat
           /\ IsFiniteSet(Creators(X)') /\ Cardinality(Creators(X)') \in Nat
           /\ Limit(X) \in Nat /\ Writers \in Nat
<1>1. Touched(X) \subseteq Peerings /\ Touched(X)' \subseteq Peerings
  BY DEF Touched
<1>2. Creators(X) \subseteq Requests /\ Creators(X)' \subseteq Requests
  BY DEF Creators
<1>3. Limit(X) \in Nat
  BY QuotaAssumption DEF Limit
<1>4. Writers \in Nat
  BY FiniteAssumption, FS_CardinalityType DEF Writers
<1> QED  BY <1>1, <1>2, <1>3, <1>4, SubsetBound, FiniteAssumption

(* No step takes a group of VPCs over its bound. *)
LEMMA BoundStep ==
    ASSUME IInv, BoundInv, Next, NEW X \in Groups
    PROVE  Cardinality(Touched(X)') + Cardinality(Creators(X)') <= Limit(X) + Writers
<1>1. Cardinality(Touched(X)) + Cardinality(Creators(X)) <= Limit(X) + Writers
  BY DEF BoundInv
<1>2. CASE \E r \in Requests : Passed(X, reqs'[r]) /\ ~Passed(X, reqs[r])
  <2>1. PICK r \in Requests : Passed(X, reqs'[r]) /\ ~Passed(X, reqs[r])
    BY <1>2
  <2>2. CreateDuplicateCheck(r) \/ CreateQuotaRequester(r) \/ CreateQuotaAccepter(r)
    BY <2>1, PassingStep
  <2>3. Cardinality(Matching(X)) <= Limit(X)
    BY <2>1, <2>2, CheckStep
  <2>4. UNCHANGED peerings /\ reqs[r].op = "create"
    BY <2>2 DEF CreateDuplicateCheck, CreateQuotaRequester, CreateQuotaAccepter, At
  <2>5. \A q \in Requests \ {r} : reqs'[q] = reqs[q]
    BY <2>2
    DEF CreateDuplicateCheck, CreateQuotaRequester, CreateQuotaAccepter, Goto, Finish, IInv, TypeOK
  <2>6. PICK D : D = Creators(X) \cup {r}
    OBVIOUS
  <2>7. D \in SUBSET Requests /\ \A q \in D : reqs[q].op = "create"
    BY <2>4, <2>6 DEF Creators, Passed
  <2>8. Cardinality(Touched(X)) + Cardinality(D) <= Limit(X) + Writers
    BY <2>3, <2>7, RoomLeft, BoundFinite
  <2>9. Creators(X)' \subseteq D
    BY <2>5, <2>6 DEF Creators
  <2>10. Touched(X)' \subseteq Touched(X)
    <3>1. ASSUME NEW p \in Touched(X)' PROVE p \in Touched(X)
      <4>1. p \in Peerings
        BY <3>1 DEF Touched
      <4>2. \A q \in Requests : ~CreateInsert(q, p)
        BY <2>4, <4>1, InsertStores
      <4> QED  BY <3>1, <4>2, TouchedStep
    <3> QED  BY <3>1
  <2>11. Cardinality(Touched(X)') <= Cardinality(Touched(X))
    BY <2>10, SubsetBound, BoundFinite
  <2>12. Cardinality(Creators(X)') <= Cardinality(D) /\ Cardinality(D) \in Nat
    <3>1. IsFiniteSet(D)
      BY <2>7, SubsetBound, FiniteAssumption
    <3> QED  BY <2>9, <3>1, SubsetBound
  <2> QED  BY <2>8, <2>11, <2>12, BoundFinite
<1>3. CASE ~\E r \in Requests : Passed(X, reqs'[r]) /\ ~Passed(X, reqs[r])
  <2>1. Creators(X)' \subseteq Creators(X)
    BY <1>3 DEF Creators
  <2>2. Cardinality(Creators(X)') <= Cardinality(Creators(X))
    BY <2>1, SubsetBound, BoundFinite
  <2>3. ASSUME Touched(X)' \subseteq Touched(X)
        PROVE  Cardinality(Touched(X)') + Cardinality(Creators(X)') <= Limit(X) + Writers
    <3>1. Cardinality(Touched(X)') <= Cardinality(Touched(X))
      BY <2>3, SubsetBound, BoundFinite
    <3> QED  BY <1>1, <2>2, <3>1, BoundFinite
  <2>4. CASE \E r \in Requests, p \in Peerings : CreateInsert(r, p)
    <3>1. PICK r \in Requests, p \in Peerings : CreateInsert(r, p)
      BY <2>4
    <3>2. \A q \in Peerings \ {p} : \A s \in Requests : ~CreateInsert(s, q)
      BY <3>1, InsertStores
    <3>3. Touched(X)' \subseteq Touched(X) \cup {p}
      <4>1. ASSUME NEW q \in Touched(X)', q # p PROVE q \in Touched(X)
        <5>1. q \in Peerings
          BY <4>1 DEF Touched
        <5> QED  BY <3>2, <4>1, <5>1, TouchedStep
      <4> QED  BY <4>1
    <3>4. CASE X \subseteq Endpoints(reqs[r].row)
      <4>1. r \in Creators(X)
        BY <3>1, <3>4, InsertStores DEF Creators, Passed, Past
      <4>2. r \notin Creators(X)'
        BY <3>1, InsertStores DEF Creators, Passed, IdleRequest
      <4>3. Creators(X)' \subseteq Creators(X) \ {r}
        BY <2>1, <4>2
      <4>4. IsFiniteSet(Creators(X) \ {r}) /\ Cardinality(Creators(X) \ {r}) = Cardinality(Creators(X)) - 1
        BY <4>1, BoundFinite, FS_RemoveElement
      <4>5. Cardinality(Creators(X)') <= Cardinality(Creators(X)) - 1
        BY <4>3, <4>4, SubsetBound
      <4>6. /\ IsFiniteSet(Touched(X) \cup {p})
            /\ Cardinality(Touched(X) \cup {p}) <= Cardinality(Touched(X)) + 1
        <5>1. IsFiniteSet({p}) /\ Cardinality({p}) = 1
          BY FS_Singleton
        <5>2. PICK S : S = {p}
          OBVIOUS
        <5>3. IsFiniteSet(S) /\ Cardinality(S) = 1
          BY <5>1, <5>2
        <5>4. /\ IsFiniteSet(Touched(X) \cup S)
              /\ Cardinality(Touched(X) \cup S) <= Cardinality(Touched(X)) + Cardinality(S)
          BY <5>3, BoundFinite, UnionBound
        <5> QED  BY <5>2, <5>3, <5>4
      <4>7. Cardinality(Touched(X)') <= Cardinality(Touched(X) \cup {p}) /\ Cardinality(Touched(X) \cup {p}) \in Nat
        BY <3>3, <4>6, SubsetBound
      <4> QED  BY <1>1, <4>5, <4>6, <4>7, BoundFinite
    <3>5. CASE ~(X \subseteq Endpoints(reqs[r].row))
      <4>1. p \notin Touched(X)'
        BY <3>1, <3>5, InsertStores DEF Touched
      <4> QED  BY <2>3, <3>3, <4>1
    <3> QED  BY <3>4, <3>5
  <2>5. CASE ~\E r \in Requests, p \in Peerings : CreateInsert(r, p)
    <3>1. ASSUME NEW p \in Touched(X)' PROVE p \in Touched(X)
      <4>1. p \in Peerings
        BY <3>1 DEF Touched
      <4> QED  BY <2>5, <3>1, <4>1, TouchedStep
    <3> QED  BY <2>3, <3>1
  <2> QED  BY <2>4, <2>5
<1> QED  BY <1>2, <1>3

(* Before the first request nothing counts and nobody has passed a check. *)
LEMMA InitBound == Init => BoundInv
<1> SUFFICES ASSUME Init PROVE BoundInv
  OBVIOUS
<1>1. pc = "idle"
  BY DEF Init
<1>2. ASSUME NEW X \in Groups
      PROVE  Cardinality(Touched(X)) + Cardinality(Creators(X)) <= Limit(X) + Writers
  <2>1. Touched(X) = {}
    BY DEF Init, Touched, Exists
  <2>2. Creators(X) = {}
    BY DEF Init, Creators, Passed, IdleRequest
  <2>3. Cardinality(Touched(X)) = 0 /\ Cardinality(Creators(X)) = 0
    BY <2>1, <2>2, FS_EmptySet
  <2> QED  BY <1>2, <2>3, BoundFinite
<1> QED  BY <1>1, <1>2 DEF BoundInv

(* Only a tick of the controller takes its loop out of idle. *)
LEMMA IdleStep ==
    ASSUME IInv, Next, pc = "idle", pc' # "idle"
    PROVE  "reconcile" \in Stimuli
<1>1. CASE \E r \in Requests : CreateNext(r) \/ MutateNext(r)
  <2>1. PICK r \in Requests : CreateNext(r) \/ MutateNext(r)
    BY <1>1
  <2>2. pc' = pc
    BY <2>1
    DEF CreateNext, MutateNext, CreateBegin, CreateDuplicateCheck, CreateQuotaRequester,
        CreateQuotaAccepter, CreateInsert, UpdateRead, AcceptRead, RejectRead, DeleteRead,
        WriteBack, DeleteWrite, ctlVars
  <2> QED  BY <2>2
<1>2. CASE ControllerNext \/ FabricError
  BY <1>2
  DEF ControllerNext, ReconcileStart, ProvisionBegin, ProvisionSkip, ExpireVisit,
      ConfigureRTRequester, ConfigureRTAccepter, InjectAccepter, InjectRequester, UpsertRoutes,
      Activate, ListPending, ReconcileEnd, FabricError
<1>3. CASE (\E v \in VPCs : VPCNext(v)) \/ (\E x \in Peerings : Age(x))
  BY <1>3 DEF VPCNext, DeleteVPCCheck, DeleteVPCWrite, Age, ctlVars
<1> QED  BY <1>1, <1>2, <1>3 DEF Next

(* Every step, and the stuttering step, preserves the bound. *)
LEMMA NextBound == IInv /\ BoundInv /\ [Next]_vars => BoundInv'
<1> SUFFICES ASSUME IInv, BoundInv, [Next]_vars PROVE BoundInv'
  OBVIOUS
<1>1. CASE Next
  <2>1. pc' # "idle" => "reconcile" \in Stimuli
    BY <1>1, IdleStep DEF BoundInv
  <2>2. \A X \in Groups :
           Cardinality(Touched(X)') + Cardinality(Creators(X)') <= Limit(X) + Writers
    BY <1>1, BoundStep
  <2> QED  BY <2>1, <2>2 DEF BoundInv
<1>2. CASE UNCHANGED vars
  <2>1. pc' = pc
    BY <1>2 DEF vars
  <2>2. ASSUME NEW X \in Groups
        PROVE  Touched(X)' = Touched(X) /\ Creators(X)' = Creators(X)
    BY <1>2 DEF vars, Touched, Creators, Exists, Counted, Held
  <2> QED  BY <2>1, <2>2 DEF BoundInv
<1> QED  BY <1>1, <1>2

(* In every reachable state the peerings that count, the deleted ones that *)
(* somebody may bring back, and the Creates past the check are together at *)
(* most one per writer more than the check lets pass.                      *)
THEOREM BoundsInductive == Spec => [](IInv /\ BoundInv)
<1>1. Init => IInv /\ BoundInv
  BY InitIInv, InitBound
<1>2. (IInv /\ BoundInv) /\ [Next]_vars => (IInv /\ BoundInv)'
  BY NextIInv, NextBound
<1> QED  BY <1>1, <1>2, PTL DEF Spec

(* A VPC exceeds its quota by at most one peering for each further handler  *)
(* or provisioner that runs at the same time, for every number of requests, *)
(* though Create counts and inserts in different store calls and a stale    *)
(* write can bring a deleted peering back.                                  *)
THEOREM QuotaOverrunBoundedHolds == Spec => []QuotaOverrunBounded
<1>1. IInv /\ BoundInv => QuotaOverrunBounded
  <2> SUFFICES ASSUME IInv, BoundInv, NEW v \in VPCs
               PROVE  CountByVPC(v) <= MaxPeerings + Writers - 1
    BY DEF QuotaOverrunBounded
  <2>1. PICK X : X = {v, v}
    OBVIOUS
  <2>2. X \in Groups /\ Limit(X) = MaxPeerings - 1
    BY <2>1 DEF Groups, Limit
  <2>3. PICK S : S = {p \in Peerings : Counted(p) /\ v \in Endpoints(peerings[p])}
    OBVIOUS
  <2>4. S \subseteq Touched(X)
    BY <2>1, <2>3 DEF Touched, Counted
  <2>5. Cardinality(S) <= Cardinality(Touched(X)) /\ Cardinality(S) \in Nat
    BY <2>2, <2>4, SubsetBound, BoundFinite
  <2>6. Cardinality(Touched(X)) + Cardinality(Creators(X)) <= Limit(X) + Writers
    BY <2>2 DEF BoundInv
  <2>7. CountByVPC(v) = Cardinality(S)
    BY <2>3 DEF CountByVPC
  <2> QED  BY <2>2, <2>5, <2>6, <2>7, BoundFinite, QuotaAssumption
<1> QED  BY <1>1, BoundsInductive, PTL

(* Two VPCs never have more live peerings with each other than there are *)
(* handlers and provisioners at work, though Create's duplicate check    *)
(* and its insert are store calls apart.                                 *)
THEOREM DuplicatesBoundedHolds == Spec => []DuplicatesBounded
<1>1. IInv /\ BoundInv => DuplicatesBounded
  <2> SUFFICES ASSUME IInv, BoundInv, NEW v \in VPCs, NEW w \in VPCs
               PROVE  Cardinality(FindByVPCs(v, w)) <= Writers
    BY DEF DuplicatesBounded
  <2>1. PICK X : X = {v, w}
    OBVIOUS
  <2>2. X \in Groups
    BY <2>1 DEF Groups
  <2>3. CASE v # w
    <3>1. Limit(X) = 0
      BY <2>1, <2>3 DEF Limit
    <3>2. FindByVPCs(v, w) \subseteq Touched(X)
      BY <2>1 DEF FindByVPCs, Touched, Counted
    <3>3. /\ Cardinality(FindByVPCs(v, w)) <= Cardinality(Touched(X))
          /\ Cardinality(FindByVPCs(v, w)) \in Nat
      BY <2>2, <3>2, SubsetBound, BoundFinite
    <3>4. Cardinality(Touched(X)) + Cardinality(Creators(X)) <= Limit(X) + Writers
      BY <2>2 DEF BoundInv
    <3> QED  BY <2>2, <3>1, <3>3, <3>4, BoundFinite
  <2>4. CASE v = w
    <3>1. FindByVPCs(v, w) = {}
      BY <2>4 DEF FindByVPCs, Counted, Endpoints, IInv, StoredInv, GoodCopy
    <3> QED  BY <2>2, <3>1, FS_EmptySet, BoundFinite
  <2> QED  BY <2>3, <2>4
<1> QED  BY <1>1, BoundsInductive, PTL
=============================================================================
