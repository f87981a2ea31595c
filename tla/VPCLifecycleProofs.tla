------------------------- MODULE VPCLifecycleProofs -------------------------
(***************************************************************************)
(* Proofs about VPCLifecycle, for any number of VPCs, accounts, requests   *)
(* and regions and any layout of VNIs.  What holds whatever the backend is *)
(* IInv, and UnspentInv, about VNIs that no tombstone has.  What needs     *)
(* PostgreSQL is built on them: rows are unique although the allocator may *)
(* forget, a VNI in use is offered once after that, and, as long as        *)
(* nothing is forgotten, every VNI has at most one holder.                 *)
(***************************************************************************)
EXTENDS VPCLifecycle, TLAPS

(* A row has a VNI outside the reserved ranges and of its region. *)
Placed(row) == Usable(row.vni) /\ DecodedRegion(row.vni) = row.region

(* A request has a row, and one that deletes names a VPC with the row's VNI. *)
RequestInv ==
    \A r \in Requests :
        /\ reqs[r].op # "idle" => reqs[r].row \in Row
        /\ reqs[r].op = "delete" =>
              /\ reqs[r].id \in VPCIds
              /\ vpcs[reqs[r].id] \in Row
              /\ vpcs[reqs[r].id].vni = reqs[r].row.vni
        /\ At(r, "create", "insert") => Placed(reqs[r].row)

IInv == TypeOK /\ RequestInv /\ VNIWellPlaced

(* The schema's constraints hold of all rows, tombstones included. *)
RowsUnique ==
    \A id1, id2 \in VPCIds :
        id1 # id2 /\ Exists(id1) /\ Exists(id2) =>
            /\ vpcs[id1].vni # vpcs[id2].vni
            /\ ~(/\ vpcs[id1].account = vpcs[id2].account
                 /\ vpcs[id1].region = vpcs[id2].region
                 /\ vpcs[id1].name = vpcs[id2].name)

(* Holders of VNIs, live VPCs and requests, have them allocated, and no two *)
(* have the same one.                                                       *)
HoldersInv ==
    /\ \A id \in VPCIds : Live(id) => vpcs[id].vni \in allocated
    /\ \A r \in Requests : Holding(r) => reqs[r].row.vni \in allocated
    /\ \A id \in VPCIds, r \in Requests :
          Live(id) /\ Holding(r) => vpcs[id].vni # reqs[r].row.vni
    /\ \A r1, r2 \in Requests :
          r1 # r2 /\ Holding(r1) /\ Holding(r2) => reqs[r1].row.vni # reqs[r2].row.vni

-----------------------------------------------------------------------------
(* EncodeVNI and DecodeVNI agree on the region, so a VNI names the region *)
(* it was allocated in.                                                   *)
LEMMA DecodeEncode ==
    ASSUME NEW region \in 0 .. RegionCount - 1,
           NEW shard \in 0 .. ShardCount - 1,
           NEW seq \in 0 .. SeqCount - 1
    PROVE  /\ EncodeVNI(region, shard, seq) \in Nat
           /\ DecodedRegion(EncodeVNI(region, shard, seq)) = region
<1> DEFINE hi == region * ShardCount + shard
           vni == hi * SeqCount + seq
<1>1. hi \in Nat /\ vni \in Nat
  BY LayoutAssumption
<1>2. vni \div SeqCount = hi
  <2> HIDE DEF hi
  <2> QED  BY <1>1, LayoutAssumption, SMT
<1>3. hi \div ShardCount = region
  BY LayoutAssumption, SMT
<1>4. region % RegionCount = region
  BY LayoutAssumption, SMT
<1>5. EncodeVNI(region, shard, seq) = vni
  BY DEF EncodeVNI
<1>6. DecodedRegion(vni) = region
  <2> HIDE DEF hi, vni
  <2> QED  BY <1>2, <1>3, <1>4 DEF DecodedRegion
<1> QED  BY <1>1, <1>5, <1>6

(* Whatever Allocate returns is free, usable and of the region asked for, *)
(* from the account's shard or from another.                              *)
LEMMA CandidatesPlaced ==
    ASSUME NEW region \in Regions, NEW a \in Accounts, NEW vni \in Candidates(region, a)
    PROVE  vni \in Nat /\ vni \notin allocated /\ Usable(vni) /\ DecodedRegion(vni) = region
<1>1. PICK shard \in 0 .. ShardCount - 1 : vni \in ShardVNIs(region, shard) /\ vni \notin allocated
  BY ShardAssumption DEF Candidates, RegionVNIs
<1>2. PICK seq \in 0 .. SeqCount - 1 : vni = EncodeVNI(region, shard, seq) /\ Usable(vni)
  BY <1>1 DEF ShardVNIs
<1>3. region \in 0 .. RegionCount - 1
  BY RegionsAssumption
<1> QED  BY <1>1, <1>2, <1>3, DecodeEncode

-----------------------------------------------------------------------------
(* Before any request there are no rows. *)
LEMMA InitIInv == Init => IInv
<1>1. Init => HistoryType /\ refused \subseteq Nat
  BY Zenon DEF Init, HistoryType
<1> QED  BY <1>1, NoVPCAssumption
         DEF Init, IInv, TypeOK, RequestInv, VNIWellPlaced, IdleRequest, RequestType, At, Exists

(* One step per action keeps types, requests and the place of every VNI. *)
LEMMA StepIInv == IInv /\ [Next]_vars => IInv'
<1> SUFFICES ASSUME IInv, [Next]_vars PROVE IInv'
  OBVIOUS
<1>0. HistoryType' /\ refused' \subseteq Nat
  <2>1. HistoryType /\ refused \subseteq Nat
    BY DEF IInv, TypeOK
  <2>2. restarted' = restarted \/ restarted' = TRUE
    BY Zenon DEF Next, vars, Restart
  <2>3. HistoryType'
    BY <2>1, <2>2, Zenon DEF HistoryType
  <2>4. ASSUME NEW r \in Requests, CreateRefused(r) PROVE refused' \subseteq Nat
    BY <2>1, <2>4 DEF CreateRefused, IInv, RequestInv, At, Row
  <2>5. refused' \subseteq Nat
    BY <2>1, <2>4 DEF Next, vars, Restart
  <2> QED  BY <2>3, <2>5
<1> USE <1>0, NoVPCAssumption, NoIdAssumption DEF IInv
<1>1. ASSUME NEW r \in Requests, NEW a \in Accounts, NEW region \in Regions,
             NEW name \in Names, NEW block \in Blocks, CreateBegin(r, a, region, name, block)
      PROVE  IInv'
  BY <1>1 DEF CreateBegin, Begin, Become, TypeOK, RequestType, RequestInv, VNIWellPlaced, At, Exists, Row,
              Placed, IdleRequest
<1>2. ASSUME NEW r \in Requests, CreateNameCheck(r) PROVE IInv'
  BY <1>2 DEF CreateNameCheck, Goto, Finish, TypeOK, RequestType, RequestInv, VNIWellPlaced, At,
              Exists, IdleRequest
<1>3. ASSUME NEW r \in Requests, CreateOverlapCheck(r) PROVE IInv'
  BY <1>3 DEF CreateOverlapCheck, Goto, Finish, TypeOK, RequestType, RequestInv, VNIWellPlaced, At,
              Exists, IdleRequest
<1>4. ASSUME NEW r \in Requests, CreateAllocate(r) PROVE IInv'
  <2>1. PICK vni \in Candidates(reqs[r].row.region, reqs[r].row.account) :
           /\ allocated' = allocated \cup {vni}
           /\ Become(r, "create", "insert", NoId, [reqs[r].row EXCEPT !.vni = vni])
    BY <1>4 DEF CreateAllocate
  <2>2. reqs[r].row \in Row /\ reqs[r].op = "create" /\ reqs[r] \in RequestType /\ UNCHANGED vpcs
    BY <1>4 DEF CreateAllocate, RequestInv, At, TypeOK
  <2>3. reqs[r].row.region \in Regions /\ reqs[r].row.account \in Accounts
    BY <2>2 DEF Row
  <2>4. vni \in Nat /\ Usable(vni) /\ DecodedRegion(vni) = reqs[r].row.region
    BY <2>3, CandidatesPlaced
  <2> DEFINE row == [reqs[r].row EXCEPT !.vni = vni]
             req == [op |-> "create", step |-> "insert", id |-> NoId, row |-> row]
  <2>5. row \in Row /\ row.vni = vni /\ row.region = reqs[r].row.region
    BY <2>2, <2>4 DEF Row
  <2>6. reqs' = [reqs EXCEPT ![r] = req]
    BY <2>1 DEF Become
  <2>7. Placed(row)
    BY <2>4, <2>5 DEF Placed
  <2> HIDE DEF row
  <2>8. req \in RequestType /\ req.op = "create" /\ req.row = row
    BY <2>2, <2>5 DEF RequestType
  <2> HIDE DEF req
  <2>9. TypeOK'
    BY <2>1, <2>2, <2>4, <2>6, <2>8 DEF TypeOK
  <2>10. RequestInv'
    BY <2>2, <2>5, <2>6, <2>7, <2>8 DEF TypeOK, RequestInv, At, Placed, Usable, DecodedRegion
  <2> QED  BY <2>2, <2>9, <2>10 DEF VNIWellPlaced, Exists
<1>5. ASSUME NEW r \in Requests, CreateExhausted(r) PROVE IInv'
  BY <1>5 DEF CreateExhausted, Finish, TypeOK, RequestType, RequestInv, VNIWellPlaced, At, Exists,
              IdleRequest
<1>6. ASSUME NEW r \in Requests, NEW id \in VPCIds, CreateInsert(r, id) PROVE IInv'
  <2>1. reqs[r].row \in Row /\ Placed(reqs[r].row)
    BY <1>6 DEF CreateInsert, RequestInv, At
  <2>2. vpcs' = [vpcs EXCEPT ![id] = reqs[r].row] /\ reqs' = [reqs EXCEPT ![r] = IdleRequest]
        /\ ~Exists(id) /\ UNCHANGED allocated
    BY <1>6 DEF CreateInsert, Finish
  <2>3. TypeOK'
    BY <2>1, <2>2 DEF TypeOK, RequestType, IdleRequest
  <2>4. RequestInv'
    BY <2>1, <2>2 DEF TypeOK, RequestInv, At, IdleRequest, Exists, Placed
  <2>5. VNIWellPlaced'
    BY <2>1, <2>2 DEF TypeOK, VNIWellPlaced, Exists, Placed
  <2> QED  BY <2>3, <2>4, <2>5
<1>7. ASSUME NEW r \in Requests, CreateRefused(r) PROVE IInv'
  BY <1>7 DEF CreateRefused, Finish, TypeOK, RequestType, RequestInv, VNIWellPlaced, At, Exists,
              IdleRequest
<1>8. ASSUME NEW r \in Requests, NEW a \in Accounts, NEW id \in VPCIds, DeleteRead(r, a, id)
      PROVE  IInv'
  <2>1. vpcs[id] \in Row /\ UNCHANGED <<vpcs, allocated>>
    BY <1>8 DEF DeleteRead, Live, Exists, TypeOK
  <2>2. reqs' = [reqs EXCEPT ![r] = [op |-> "delete", step |-> "write", id |-> id,
                                     row |-> vpcs[id]]]
    BY <1>8 DEF DeleteRead, Begin, Become
  <2> QED  BY <2>1, <2>2 DEF TypeOK, RequestType, RequestInv, VNIWellPlaced, At, Exists
<1>9. ASSUME NEW r \in Requests, DeleteWrite(r) PROVE IInv'
  <2> DEFINE id == reqs[r].id
  <2>1. id \in VPCIds /\ vpcs[id] \in Row /\ UNCHANGED allocated /\ reqs[r].op = "delete"
    BY <1>9 DEF DeleteWrite, At, RequestInv
  <2>2. CASE vpcs' = vpcs /\ Finish(r)
    BY <2>1, <2>2 DEF Finish, TypeOK, RequestType, RequestInv, VNIWellPlaced, At, Exists, IdleRequest
  <2>3. CASE vpcs' = [vpcs EXCEPT ![id] = [@ EXCEPT !.state = "deleted"]] /\ Goto(r, "release")
    <3> DEFINE row == [vpcs[id] EXCEPT !.state = "deleted"]
    <3>1. row \in Row /\ row.vni = vpcs[id].vni /\ row.region = vpcs[id].region
      BY <2>1 DEF Row
    <3>2. vpcs' = [vpcs EXCEPT ![id] = row]
      BY <2>1, <2>3
    <3> HIDE DEF row
    <3>3. reqs' = [reqs EXCEPT ![r].step = "release"]
      BY <2>3 DEF Goto
    <3>4. TypeOK'
      BY <2>1, <3>1, <3>2, <3>3 DEF TypeOK, RequestType
    <3>5. RequestInv'
      BY <2>1, <3>1, <3>2, <3>3 DEF TypeOK, RequestType, RequestInv, At
    <3>6. VNIWellPlaced'
      BY <2>1, <3>1, <3>2 DEF TypeOK, VNIWellPlaced, Exists
    <3> QED  BY <3>4, <3>5, <3>6
  <2> QED  BY <1>9, <2>2, <2>3 DEF DeleteWrite
<1>10. ASSUME NEW r \in Requests, DeleteRelease(r) PROVE IInv'
  BY <1>10 DEF DeleteRelease, Finish, TypeOK, RequestType, RequestInv, VNIWellPlaced, At, Exists,
               IdleRequest
<1>11. CASE Restart
  BY <1>11 DEF Restart, TypeOK, RequestType, RequestInv, VNIWellPlaced, At, Exists, IdleRequest
<1>12. CASE UNCHANGED vars
  BY <1>12 DEF vars, TypeOK, RequestInv, VNIWellPlaced, At, Exists
<1> QED  BY <1>1, <1>2, <1>3, <1>4, <1>5, <1>6, <1>7, <1>8, <1>9, <1>10, <1>11, <1>12
         DEF Next, CreateNext, DeleteNext

(* The invariant that every other proof rests on. *)
THEOREM Inductive == Spec => []IInv
<1>1. Init => IInv  BY InitIInv
<1>2. IInv /\ [Next]_vars => IInv'  BY StepIInv
<1> QED  BY <1>1, <1>2, PTL DEF Spec

(* Every variable always has its type. *)
THEOREM TypeCorrect == Spec => []TypeOK
<1>1. IInv => TypeOK  BY DEF IInv
<1> QED  BY <1>1, Inductive, PTL

(* Every VNI ever given to a VPC is outside the reserved ranges and names *)
(* the region of the VPC, for every layout and every allocation history.  *)
THEOREM VNIWellPlacedHolds == Spec => []VNIWellPlaced
<1>1. IInv => VNIWellPlaced  BY DEF IInv
<1> QED  BY <1>1, Inductive, PTL

-----------------------------------------------------------------------------
(* The rows of a PostgreSQL table.  The insert checks all of them, and no *)
(* other step changes a row's VNI or name.                                *)
LEMMA StepRowsUnique ==
    ASSUME Backend = "postgres"
    PROVE  IInv /\ RowsUnique /\ [Next]_vars => RowsUnique'
<1> SUFFICES ASSUME IInv, RowsUnique, [Next]_vars PROVE RowsUnique'
  OBVIOUS
<1> USE NoVPCAssumption
<1>1. CASE UNCHANGED vpcs
  BY <1>1 DEF RowsUnique, Exists
<1>2. ASSUME NEW r \in Requests, NEW id \in VPCIds, CreateInsert(r, id) PROVE RowsUnique'
  <2>1. vpcs' = [vpcs EXCEPT ![id] = reqs[r].row] /\ ~UniqueViolation(reqs[r].row)
    BY <1>2 DEF CreateInsert
  <2> QED  BY <2>1 DEF RowsUnique, UniqueViolation, Exists, IInv, TypeOK
<1>3. ASSUME NEW r \in Requests, DeleteWrite(r),
             vpcs' = [vpcs EXCEPT ![reqs[r].id] = [@ EXCEPT !.state = "deleted"]]
      PROVE  RowsUnique'
  <2> DEFINE id == reqs[r].id
             row == [vpcs[id] EXCEPT !.state = "deleted"]
  <2>1. id \in VPCIds /\ vpcs[id] \in Row
    BY <1>3 DEF DeleteWrite, At, IInv, RequestInv
  <2>2. /\ row.vni = vpcs[id].vni /\ row.name = vpcs[id].name
        /\ row.account = vpcs[id].account /\ row.region = vpcs[id].region
    BY <2>1 DEF Row
  <2>3. vpcs' = [vpcs EXCEPT ![id] = row]
    BY <1>3
  <2> HIDE DEF row
  <2> QED  BY <2>1, <2>2, <2>3 DEF RowsUnique, Exists, IInv, TypeOK
<1> QED  BY <1>1, <1>2, <1>3
         DEF Next, CreateNext, DeleteNext, CreateBegin, CreateNameCheck, CreateOverlapCheck,
             CreateAllocate, CreateExhausted, CreateRefused, DeleteRead, DeleteWrite,
             DeleteRelease, Restart, vars

(* With PostgreSQL the table's constraints hold in every state, also after  *)
(* restarts have emptied the allocator and whichever Creates race.          *)
THEOREM RowsUniqueWithPostgres ==
    ASSUME Backend = "postgres"
    PROVE  Spec => []RowsUnique
<1>1. Init => RowsUnique
  BY DEF Init, RowsUnique, Exists
<1>2. IInv /\ RowsUnique /\ [Next]_vars => RowsUnique'
  BY StepRowsUnique
<1> QED  BY <1>1, <1>2, Inductive, PTL DEF Spec

-----------------------------------------------------------------------------
(* VNIs that no tombstone has. *)

Spent(vni) == \E id \in VPCIds : Exists(id) /\ vpcs[id].state = "deleted" /\ vpcs[id].vni = vni

Inserting(r) == At(r, "create", "insert")

(* An unspent VNI is released by nobody: whoever was given it, and whoever   *)
(* was refused with it, has it still allocated, and there is only one such.  *)
UnspentInv ==
    \A r \in Requests : Inserting(r) /\ ~Spent(reqs[r].row.vni) =>
        /\ reqs[r].row.vni \in allocated
        /\ reqs[r].row.vni \notin refused
        /\ \A q \in Requests :
              q # r /\ Inserting(q) => reqs[q].row.vni # reqs[r].row.vni

RefusedInv == \A vni \in refused : Spent(vni) \/ vni \in allocated

(* Requests about to release a VNI have written its tombstone. *)
ReleaseInv ==
    \A r \in Requests : At(r, "delete", "release") =>
        /\ reqs[r].id \in VPCIds
        /\ Exists(reqs[r].id)
        /\ vpcs[reqs[r].id].state = "deleted"
        /\ vpcs[reqs[r].id].vni = reqs[r].row.vni

FreshInv == UnspentInv /\ RefusedInv /\ ReleaseInv

(* Steps of requests that neither get nor give up a VNI keep all this. *)
LEMMA FreshKept ==
    ASSUME FreshInv, UNCHANGED <<vpcs, allocated, refused>>,
           \A r \in Requests : reqs'[r] = reqs[r] \/ (~Inserting(r)' /\ ~At(r, "delete", "release")')
    PROVE  FreshInv'
<1>1. \A vni : Spent(vni)' = Spent(vni)
  BY DEF Spent, Exists
<1>2. UnspentInv'
  BY <1>1 DEF FreshInv, UnspentInv, Inserting, At
<1>3. RefusedInv' /\ ReleaseInv'
  BY <1>1 DEF FreshInv, RefusedInv, ReleaseInv, At, Exists
<1> QED  BY <1>2, <1>3 DEF FreshInv

(* One step per action.  Only DeleteRelease takes a VNI out of the map, and *)
(* then there is a tombstone with it; a restart ends all that is claimed.   *)
LEMMA StepFresh == IInv /\ FreshInv /\ [Next]_vars => FreshInv'
<1> SUFFICES ASSUME IInv, FreshInv, [Next]_vars PROVE FreshInv'
  OBVIOUS
<1> USE NoVPCAssumption
<1>0. reqs \in [Requests -> RequestType] /\ vpcs \in [VPCIds -> Row \cup {NoVPC}]
  BY DEF IInv, TypeOK
<1>1. ASSUME NEW r \in Requests, NEW a \in Accounts, NEW region \in Regions,
             NEW name \in Names, NEW block \in Blocks, CreateBegin(r, a, region, name, block),
             UNCHANGED refused
      PROVE  FreshInv'
  BY <1>0, <1>1, FreshKept DEF CreateBegin, Begin, Become, Inserting, At
<1>2. ASSUME NEW r \in Requests, UNCHANGED refused,
             CreateNameCheck(r) \/ CreateOverlapCheck(r) \/ CreateExhausted(r)
      PROVE  FreshInv'
  BY <1>0, <1>2, FreshKept
     DEF CreateNameCheck, CreateOverlapCheck, CreateExhausted, Goto, Finish,
         IdleRequest, Inserting, At, RequestType
<1>3. ASSUME NEW r \in Requests, CreateAllocate(r), UNCHANGED refused PROVE FreshInv'
  <2>1. PICK vni \in Candidates(reqs[r].row.region, reqs[r].row.account) :
           /\ allocated' = allocated \cup {vni}
           /\ Become(r, "create", "insert", NoId, [reqs[r].row EXCEPT !.vni = vni])
    BY <1>3 DEF CreateAllocate
  <2>2. reqs[r].row \in Row /\ UNCHANGED vpcs
    BY <1>3 DEF CreateAllocate, IInv, RequestInv, At
  <2>3. vni \notin allocated
    BY <2>2, CandidatesPlaced DEF Row
  <2>4. /\ reqs'[r].row.vni = vni /\ reqs'[r].op = "create"
        /\ \A q \in Requests : q # r => reqs'[q] = reqs[q]
    BY <1>0, <2>1, <2>2 DEF Become, Row
  <2>5. \A v : Spent(v)' = Spent(v)
    BY <2>2 DEF Spent, Exists
  <2>6. UnspentInv'
    BY <1>3, <2>1, <2>3, <2>4, <2>5 DEF FreshInv, UnspentInv, RefusedInv, Inserting, At
  <2>7. RefusedInv'
    BY <1>3, <2>1, <2>5 DEF FreshInv, RefusedInv
  <2>8. ReleaseInv'
    BY <2>2, <2>4 DEF FreshInv, ReleaseInv, At, Exists
  <2> QED  BY <2>6, <2>7, <2>8 DEF FreshInv
<1>4. ASSUME NEW r \in Requests, NEW id \in VPCIds, CreateInsert(r, id), UNCHANGED refused
      PROVE  FreshInv'
  <2>1. /\ vpcs' = [vpcs EXCEPT ![id] = reqs[r].row]
        /\ reqs' = [reqs EXCEPT ![r] = IdleRequest]
        /\ ~Exists(id) /\ UNCHANGED allocated
    BY <1>4 DEF CreateInsert, Finish
  <2>2. /\ ~Inserting(r)' /\ ~At(r, "delete", "release")'
        /\ \A q \in Requests : q # r => reqs'[q] = reqs[q]
    BY <1>0, <2>1 DEF Inserting, At, IdleRequest
  <2>3. \A i \in VPCIds : i # id => vpcs'[i] = vpcs[i]
    BY <1>0, <2>1
  <2>4. \A v : Spent(v) => Spent(v)'
    BY <2>1, <2>3 DEF Spent, Exists
  <2>5. UnspentInv' /\ RefusedInv'
    BY <1>4, <2>1, <2>2, <2>4 DEF FreshInv, UnspentInv, RefusedInv, Inserting, At
  <2>6. ReleaseInv'
    BY <2>1, <2>2, <2>3 DEF FreshInv, ReleaseInv, At, Exists
  <2> QED  BY <2>5, <2>6 DEF FreshInv
<1>5. ASSUME NEW r \in Requests, CreateRefused(r) PROVE FreshInv'
  <2>1. /\ UNCHANGED <<vpcs, allocated>> /\ Inserting(r)
        /\ reqs' = [reqs EXCEPT ![r] = IdleRequest]
        /\ refused' = refused \cup {reqs[r].row.vni}
    BY <1>5 DEF CreateRefused, Finish, Inserting
  <2>2. /\ ~Inserting(r)' /\ ~At(r, "delete", "release")'
        /\ \A q \in Requests : q # r => reqs'[q] = reqs[q]
    BY <1>0, <2>1 DEF Inserting, At, IdleRequest
  <2>3. \A v : Spent(v)' = Spent(v)
    BY <2>1 DEF Spent, Exists
  <2>4. UnspentInv' /\ RefusedInv'
    BY <2>1, <2>2, <2>3 DEF FreshInv, UnspentInv, RefusedInv, Inserting, At
  <2>5. ReleaseInv'
    BY <2>1, <2>2 DEF FreshInv, ReleaseInv, At, Exists
  <2> QED  BY <2>4, <2>5 DEF FreshInv
<1>6. ASSUME NEW r \in Requests, NEW a \in Accounts, NEW id \in VPCIds, DeleteRead(r, a, id),
             UNCHANGED refused
      PROVE  FreshInv'
  BY <1>0, <1>6, FreshKept DEF DeleteRead, Begin, Become, Inserting, At
<1>7. ASSUME NEW r \in Requests, DeleteWrite(r), UNCHANGED refused PROVE FreshInv'
  <2>1. PICK id \in VPCIds : /\ id = reqs[r].id
                             /\ vpcs[id] \in Row /\ vpcs[id].vni = reqs[r].row.vni
                             /\ UNCHANGED allocated /\ reqs[r].op = "delete"
    BY <1>7 DEF DeleteWrite, At, IInv, RequestInv
  <2>2. CASE UNCHANGED vpcs /\ Finish(r)
    BY <1>0, <1>7, <2>1, <2>2, FreshKept DEF Finish, IdleRequest, Inserting, At
  <2>3. CASE vpcs' = [vpcs EXCEPT ![id] = [vpcs[id] EXCEPT !.state = "deleted"]] /\ Goto(r, "release")
    <3>1. PICK row \in Row : /\ vpcs' = [vpcs EXCEPT ![id] = row]
                             /\ row.state = "deleted" /\ row.vni = vpcs[id].vni
      <4> DEFINE new == [vpcs[id] EXCEPT !.state = "deleted"]
      <4>1. new \in Row /\ new.state = "deleted" /\ new.vni = vpcs[id].vni
        BY <2>1 DEF Row
      <4> QED  BY <2>3, <4>1
    <3>2. vpcs'[id] = row /\ row # NoVPC /\ \A i \in VPCIds : i # id => vpcs'[i] = vpcs[i]
      BY <1>0, <3>1
    <3>3. /\ reqs'[r].row = reqs[r].row /\ reqs'[r].id = id /\ reqs'[r].op = "delete"
          /\ \A q \in Requests : q # r => reqs'[q] = reqs[q]
      BY <1>0, <2>1, <2>3 DEF Goto, RequestType
    <3>4. \A v : Spent(v) => Spent(v)'
      BY <2>1, <3>1, <3>2 DEF Spent, Exists
    <3>5. UnspentInv' /\ RefusedInv'
      BY <1>7, <2>1, <3>3, <3>4 DEF FreshInv, UnspentInv, RefusedInv, Inserting, At
    <3>6. ReleaseInv'
      BY <2>1, <3>1, <3>2, <3>3 DEF FreshInv, ReleaseInv, At, Exists
    <3> QED  BY <3>5, <3>6 DEF FreshInv
  <2> QED  BY <1>7, <2>1, <2>2, <2>3 DEF DeleteWrite
<1>8. ASSUME NEW r \in Requests, DeleteRelease(r), UNCHANGED refused PROVE FreshInv'
  <2>1. /\ allocated' = allocated \ {reqs[r].row.vni} /\ UNCHANGED vpcs
        /\ reqs' = [reqs EXCEPT ![r] = IdleRequest]
        /\ Spent(reqs[r].row.vni)
    BY <1>8 DEF DeleteRelease, Finish, FreshInv, ReleaseInv, Spent
  <2>2. /\ ~Inserting(r)' /\ ~At(r, "delete", "release")'
        /\ \A q \in Requests : q # r => reqs'[q] = reqs[q]
    BY <1>0, <2>1 DEF Inserting, At, IdleRequest
  <2>3. \A v : Spent(v)' = Spent(v)
    BY <2>1 DEF Spent, Exists
  <2>4. UnspentInv' /\ RefusedInv'
    BY <1>8, <2>1, <2>2, <2>3 DEF FreshInv, UnspentInv, RefusedInv, Inserting, At
  <2>5. ReleaseInv'
    BY <2>1, <2>2 DEF FreshInv, ReleaseInv, At, Exists
  <2> QED  BY <2>4, <2>5 DEF FreshInv
<1>9. CASE Restart
  BY <1>9 DEF Restart, IdleRequest, FreshInv, UnspentInv, RefusedInv, ReleaseInv, Inserting, At
<1>10. CASE UNCHANGED vars
  BY <1>10, FreshKept DEF vars
<1> QED  BY <1>1, <1>2, <1>3, <1>4, <1>5, <1>6, <1>7, <1>8, <1>9, <1>10
         DEF Next, CreateNext, DeleteNext

(* With PostgreSQL a Create is refused with the VNI of a live VPC at most    *)
(* once after a restart, because the refusal leaves the VNI allocated.       *)
THEOREM RefusedOnceWithPostgres ==
    ASSUME Backend = "postgres"
    PROVE  Spec => []RefusedOnce
<1>1. Init => FreshInv
  BY DEF Init, IdleRequest, FreshInv, UnspentInv, RefusedInv, ReleaseInv, Inserting, At
<1>2. IInv /\ FreshInv /\ [Next]_vars => FreshInv'
  BY StepFresh
<1>3. RowsUnique /\ FreshInv => RefusedOnce
  <2> SUFFICES ASSUME RowsUnique, FreshInv, NEW id \in VPCIds, Live(id), vpcs[id].vni \in refused
               PROVE  /\ vpcs[id].vni \in allocated
                      /\ \A r \in Requests : Inserting(r) => reqs[r].row.vni # vpcs[id].vni
    BY DEF RefusedOnce, Inserting
  <2>1. ~Spent(vpcs[id].vni)
    BY DEF RowsUnique, Spent, Live
  <2> QED  BY <2>1 DEF FreshInv, UnspentInv, RefusedInv
<1> QED  BY <1>1, <1>2, <1>3, Inductive, RowsUniqueWithPostgres, PTL DEF Spec

-----------------------------------------------------------------------------
(* Requests that hold no VNI come and go without harm to the holders. *)
LEMMA HoldersKept ==
    ASSUME HoldersInv, UNCHANGED <<vpcs, allocated>>,
           \A r \in Requests : Holding(r)' => Holding(r) /\ reqs'[r].row.vni = reqs[r].row.vni
    PROVE  HoldersInv'
  BY DEF HoldersInv, Live, Exists

(* One step per action: a VNI passes from Allocate to the request, to its  *)
(* VPC, to the request that deletes it and back, with one holder at a time. *)
LEMMA StepHolders ==
    ASSUME Backend = "postgres"
    PROVE  IInv /\ RowsUnique /\ HoldersInv /\ [Next]_vars /\ ~restarted' => HoldersInv'
<1> SUFFICES ASSUME IInv, RowsUnique, HoldersInv, [Next]_vars, ~restarted' PROVE HoldersInv'
  OBVIOUS
<1> USE NoVPCAssumption
<1>0. reqs \in [Requests -> RequestType]
  BY DEF IInv, TypeOK
<1>1. ASSUME NEW r \in Requests, NEW a \in Accounts, NEW region \in Regions,
             NEW name \in Names, NEW block \in Blocks, CreateBegin(r, a, region, name, block)
      PROVE  HoldersInv'
  BY <1>0, <1>1, HoldersKept DEF CreateBegin, Begin, Become, Holding, At
<1>2. ASSUME NEW r \in Requests,
             CreateNameCheck(r) \/ CreateOverlapCheck(r) \/ CreateExhausted(r) \/ CreateRefused(r)
      PROVE  HoldersInv'
  BY <1>0, <1>2, HoldersKept
     DEF CreateNameCheck, CreateOverlapCheck, CreateExhausted, CreateRefused, Goto, Finish,
         IdleRequest, Holding, At, RequestType
<1>3. ASSUME NEW r \in Requests, CreateAllocate(r) PROVE HoldersInv'
  <2>1. PICK vni \in Candidates(reqs[r].row.region, reqs[r].row.account) :
           /\ allocated' = allocated \cup {vni}
           /\ Become(r, "create", "insert", NoId, [reqs[r].row EXCEPT !.vni = vni])
    BY <1>3 DEF CreateAllocate
  <2>2. reqs[r].row \in Row /\ UNCHANGED vpcs
    BY <1>3 DEF CreateAllocate, IInv, RequestInv, At
  <2>3. vni \notin allocated
    BY <2>2, CandidatesPlaced DEF Row
  <2>4. reqs'[r].row.vni = vni /\ \A q \in Requests : q # r => reqs'[q] = reqs[q]
    BY <1>0, <2>1, <2>2 DEF Become, Row
  <2> QED  BY <2>1, <2>2, <2>3, <2>4 DEF HoldersInv, Holding, At, Live, Exists
<1>4. ASSUME NEW r \in Requests, NEW id \in VPCIds, CreateInsert(r, id) PROVE HoldersInv'
  <2>1. /\ vpcs' = [vpcs EXCEPT ![id] = reqs[r].row]
        /\ reqs' = [reqs EXCEPT ![r] = IdleRequest]
        /\ Holding(r) /\ UNCHANGED allocated
    BY <1>4 DEF CreateInsert, Finish, Holding
  <2>2. ~Holding(r)' /\ \A q \in Requests : q # r => reqs'[q] = reqs[q]
    BY <1>0, <2>1 DEF Holding, At, IdleRequest
  <2>3. vpcs'[id] = reqs[r].row /\ \A i \in VPCIds : i # id => vpcs'[i] = vpcs[i]
    BY <2>1 DEF IInv, TypeOK
  <2> QED  BY <2>1, <2>2, <2>3 DEF HoldersInv, Holding, At, Live, Exists
<1>5. ASSUME NEW r \in Requests, NEW a \in Accounts, NEW id \in VPCIds, DeleteRead(r, a, id)
      PROVE  HoldersInv'
  BY <1>0, <1>5, HoldersKept DEF DeleteRead, Begin, Become, Holding, At
<1>6. ASSUME NEW r \in Requests, DeleteWrite(r) PROVE HoldersInv'
  <2>1. PICK id \in VPCIds : /\ id = reqs[r].id
                             /\ vpcs[id] \in Row /\ vpcs[id].vni = reqs[r].row.vni
                             /\ UNCHANGED allocated
    BY <1>6 DEF DeleteWrite, At, IInv, RequestInv
  <2>2. CASE ~Live(id)
    <3>1. UNCHANGED <<vpcs, allocated>> /\ Finish(r)
      BY <1>6, <2>1, <2>2 DEF DeleteWrite
    <3> QED  BY <1>0, <3>1, HoldersKept DEF Finish, IdleRequest, Holding, At
  <2>3. CASE Live(id)
    <3>1. PICK row \in Row : /\ row = [vpcs[id] EXCEPT !.state = "deleted"]
                             /\ row.state = "deleted" /\ row.vni = vpcs[id].vni
      <4> DEFINE new == [vpcs[id] EXCEPT !.state = "deleted"]
      <4>1. new \in Row /\ new.state = "deleted" /\ new.vni = vpcs[id].vni
        BY <2>1 DEF Row
      <4> QED  BY <4>1
    <3>2. vpcs' = [vpcs EXCEPT ![id] = row] /\ Goto(r, "release")
      BY <1>6, <2>1, <2>3, <3>1 DEF DeleteWrite
    <3>3. ~Live(id)' /\ \A i \in VPCIds : i # id => vpcs'[i] = vpcs[i]
      BY <2>1, <3>1, <3>2 DEF Live, Exists, IInv, TypeOK
    <3>4. reqs'[r].row = reqs[r].row /\ \A q \in Requests : q # r => reqs'[q] = reqs[q]
      BY <1>0, <3>2 DEF Goto, RequestType
    <3>5. \A i \in VPCIds : i # id /\ Live(i) => vpcs[i].vni # vpcs[id].vni
      BY <2>1, <2>3 DEF RowsUnique, Live
    <3> QED  BY <2>1, <2>3, <3>3, <3>4, <3>5 DEF HoldersInv, Holding, At, Live, Exists
  <2> QED  BY <2>2, <2>3
<1>7. ASSUME NEW r \in Requests, DeleteRelease(r) PROVE HoldersInv'
  <2>1. /\ allocated' = allocated \ {reqs[r].row.vni} /\ UNCHANGED vpcs
        /\ reqs' = [reqs EXCEPT ![r] = IdleRequest]
        /\ Holding(r)
    BY <1>7 DEF DeleteRelease, Finish, Holding
  <2>2. ~Holding(r)' /\ \A q \in Requests : q # r => reqs'[q] = reqs[q]
    BY <1>0, <2>1 DEF Holding, At, IdleRequest
  <2> QED  BY <2>1, <2>2 DEF HoldersInv, Holding, At, Live, Exists
<1>8. CASE UNCHANGED vars
  BY <1>8 DEF vars, HoldersInv, Holding, At, Live, Exists
<1> QED  BY <1>1, <1>2, <1>3, <1>4, <1>5, <1>6, <1>7, <1>8
         DEF Next, CreateNext, DeleteNext, Restart

(* The holders as long as the allocator remembers. *)
HoldersUntilRestart == ~restarted => HoldersInv

(* There is no way back from a restart. *)
LEMMA RestartedStays == [Next]_vars /\ ~restarted' => ~restarted
  BY DEF Next, vars, Restart

(* The holders' invariant in a form that every step keeps. *)
LEMMA StepHoldersUntilRestart ==
    ASSUME Backend = "postgres"
    PROVE  IInv /\ RowsUnique /\ HoldersUntilRestart /\ [Next]_vars => HoldersUntilRestart'
  BY StepHolders, RestartedStays DEF HoldersUntilRestart

(* With PostgreSQL, and until the API process is restarted, the allocator    *)
(* never offers the VNI of a live VPC or of a Create under way: two racing   *)
(* Deletes of a VPC release its VNI once, and no Release comes after the VNI *)
(* has found a new holder.                                                   *)
THEOREM HoldersWithPostgres ==
    ASSUME Backend = "postgres"
    PROVE  Spec => []HoldersUntilRestart
<1>1. Init => HoldersUntilRestart
  BY DEF Init, HoldersUntilRestart, HoldersInv, Holding, At, Live, Exists, IdleRequest
<1>2. IInv /\ RowsUnique /\ HoldersUntilRestart /\ [Next]_vars => HoldersUntilRestart'
  BY StepHoldersUntilRestart
<1> QED  BY <1>1, <1>2, Inductive, RowsUniqueWithPostgres, PTL DEF Spec

(* In the words of the run. *)
THEOREM LiveVNIAllocatedWithPostgres ==
    ASSUME Backend = "postgres"
    PROVE  Spec => []LiveVNIAllocated
<1>1. HoldersUntilRestart => LiveVNIAllocated
  BY DEF HoldersUntilRestart, HoldersInv, LiveVNIAllocated, Holding
<1> QED  BY <1>1, HoldersWithPostgres, PTL

-----------------------------------------------------------------------------
(* The refinement: handlers and allocator implement VNIPool. *)

(* A step that changes the owners of one VNI in a way the pool allows is a *)
(* step of the pool, and no step at all if the VNI is not in the pool.     *)
LEMMA OneVNIMoves ==
    ASSUME ~restarted, ~restarted',
           NEW v,
           \A w \in PoolVNIs : w # v => OwnersOf(w)' = OwnersOf(w),
           \/ OwnersOf(v)' = OwnersOf(v)
           \/ OwnersOf(v) = {} /\ \E o \in PoolOwners : OwnersOf(v)' = {o}
           \/ /\ \E o \in PoolOwners : OwnersOf(v) = {o}
              /\ \/ OwnersOf(v)' = {}
                 \/ OwnersOf(v)' = {PoolAbandoned}
                 \/ \E o \in PoolOwners : OwnersOf(v)' = {o}
    PROVE  [Pool!Next]_poolOwners
<1>0. PoolVNIs' = PoolVNIs
  BY DEF PoolVNIs, RegionVNIs, ShardVNIs, EncodeVNI, Usable
<1>1. /\ poolOwners = [vni \in PoolVNIs |-> OwnersOf(vni)]
      /\ poolOwners' = [vni \in PoolVNIs |-> OwnersOf(vni)']
  BY <1>0 DEF poolOwners
<1>2. CASE v \notin PoolVNIs \/ OwnersOf(v)' = OwnersOf(v)
  BY <1>1, <1>2
<1>3. CASE v \in PoolVNIs /\ OwnersOf(v)' # OwnersOf(v)
  <2>1. poolOwners[v] = OwnersOf(v) /\ poolOwners'[v] = OwnersOf(v)'
    BY <1>1, <1>3
  <2>2. poolOwners' = [poolOwners EXCEPT ![v] = poolOwners'[v]]
    BY <1>1, <1>3, <2>1
  <2>3. Pool!Take(v) \/ Pool!Pass(v) \/ Pool!Abandon(v) \/ Pool!Return(v)
    BY <1>3, <2>1 DEF Pool!Take, Pool!Pass, Pool!Abandon, Pool!Return, Pool!Free, Pool!Owned
  <2>4. poolOwners # PoolLost /\ poolOwners' # PoolLost
    <3>1. DOMAIN poolOwners = PoolVNIs /\ DOMAIN poolOwners' = PoolVNIs
      BY <1>1
    <3>2. DOMAIN PoolLost = {}
      BY DEF PoolLost
    <3> QED  BY <1>3, <3>1, <3>2
  <2> QED  BY <1>3, <2>1, <2>2, <2>3, <2>4 DEF Pool!Next
<1> QED  BY <1>2, <1>3

(* A holder of a VNI is its only user, and a VNI that is not allocated has *)
(* no user.                                                                *)
LEMMA OnlyUser ==
    ASSUME RowsUnique, HoldersInv
    PROVE  /\ \A id \in VPCIds : Live(id) => Users(vpcs[id].vni) = {<<"vpc", id>>}
           /\ \A r \in Requests : Holding(r) => Users(reqs[r].row.vni) = {<<"request", r>>}
           /\ \A v : v \notin allocated => Users(v) = {}
<1>1. ASSUME NEW id \in VPCIds, Live(id) PROVE Users(vpcs[id].vni) = {<<"vpc", id>>}
  BY <1>1 DEF RowsUnique, HoldersInv, Users, Live
<1>2. ASSUME NEW r \in Requests, Holding(r) PROVE Users(reqs[r].row.vni) = {<<"request", r>>}
  BY <1>2 DEF HoldersInv, Users
<1>3. ASSUME NEW v, v \notin allocated PROVE Users(v) = {}
  BY <1>3 DEF HoldersInv, Users
<1> QED  BY <1>1, <1>2, <1>3

(* Requests that hold no VNI come and go without moving one. *)
LEMMA PoolStutters ==
    ASSUME ~restarted, ~restarted',
           UNCHANGED <<vpcs, allocated>>,
           \A r \in Requests : Holding(r)' = Holding(r),
           \A r \in Requests : Holding(r) => reqs'[r].row.vni = reqs[r].row.vni
    PROVE  [Pool!Next]_poolOwners
<1>1. ASSUME NEW v PROVE Users(v)' = Users(v)
  BY DEF Users, Live, Exists
<1>2. \A v : OwnersOf(v)' = OwnersOf(v)
  BY <1>1 DEF OwnersOf
<1> QED  BY <1>2, OneVNIMoves

(* One step per action: Allocate takes, the insert and the delete pass on, *)
(* a refused insert abandons, Release returns.                             *)
LEMMA StepPool ==
    ASSUME Backend = "postgres"
    PROVE  IInv /\ RowsUnique /\ HoldersUntilRestart /\ [Next]_vars => [Pool!Next]_poolOwners
<1>a. ASSUME restarted' PROVE [Pool!Next]_poolOwners
  BY <1>a DEF poolOwners, PoolLost, Pool!Next, Pool!Lose
<1> SUFFICES ASSUME IInv, RowsUnique, HoldersInv, [Next]_vars, ~restarted, ~restarted'
             PROVE  [Pool!Next]_poolOwners
  BY <1>a, RestartedStays DEF HoldersUntilRestart
<1> USE NoVPCAssumption
<1>0. reqs \in [Requests -> RequestType]
  BY DEF IInv, TypeOK
<1>1. ASSUME NEW r \in Requests, NEW a \in Accounts, NEW region \in Regions,
             NEW name \in Names, NEW block \in Blocks, CreateBegin(r, a, region, name, block)
      PROVE  [Pool!Next]_poolOwners
  BY <1>0, <1>1, PoolStutters DEF CreateBegin, Begin, Become, Holding, At, IdleRequest
<1>2. ASSUME NEW r \in Requests,
             CreateNameCheck(r) \/ CreateOverlapCheck(r) \/ CreateExhausted(r)
      PROVE  [Pool!Next]_poolOwners
  BY <1>0, <1>2, PoolStutters
     DEF CreateNameCheck, CreateOverlapCheck, CreateExhausted, Goto, Finish,
         IdleRequest, Holding, At, RequestType
<1>3. ASSUME NEW r \in Requests, CreateAllocate(r) PROVE [Pool!Next]_poolOwners
  <2>1. PICK vni \in Candidates(reqs[r].row.region, reqs[r].row.account) :
           /\ allocated' = allocated \cup {vni}
           /\ Become(r, "create", "insert", NoId, [reqs[r].row EXCEPT !.vni = vni])
    BY <1>3 DEF CreateAllocate
  <2>2. reqs[r].row \in Row /\ UNCHANGED vpcs /\ ~Holding(r)
    BY <1>3 DEF CreateAllocate, IInv, RequestInv, At, Holding
  <2>3. vni \notin allocated
    BY <2>2, CandidatesPlaced DEF Row
  <2>4. /\ Holding(r)' /\ reqs'[r].row.vni = vni
        /\ \A q \in Requests : q # r => reqs'[q] = reqs[q]
    BY <1>0, <2>1, <2>2 DEF Become, Row, Holding, At
  <2>5. Users(vni) = {} /\ OwnersOf(vni) = {}
    BY <2>3, OnlyUser DEF OwnersOf
  <2>6. Users(vni)' = {<<"request", r>>}
    BY <2>2, <2>4, <2>5 DEF Users, Live, Exists, Holding, At
  <2>7. \A w : w # vni => Users(w)' = Users(w)
    BY <2>2, <2>4 DEF Users, Live, Exists, Holding, At
  <2>8. \A w : w # vni => OwnersOf(w)' = OwnersOf(w)
    BY <2>1, <2>7 DEF OwnersOf
  <2>9. OwnersOf(vni)' = {<<"request", r>>} /\ <<"request", r>> \in PoolOwners
    BY <2>6 DEF OwnersOf, PoolOwners
  <2> QED  BY <2>5, <2>8, <2>9, OneVNIMoves
<1>4. ASSUME NEW r \in Requests, NEW id \in VPCIds, CreateInsert(r, id)
      PROVE  [Pool!Next]_poolOwners
  <2>0. PICK vni : vni = reqs[r].row.vni
    OBVIOUS
  <2>1. /\ vpcs' = [vpcs EXCEPT ![id] = reqs[r].row]
        /\ reqs' = [reqs EXCEPT ![r] = IdleRequest]
        /\ Holding(r) /\ ~Live(id) /\ UNCHANGED allocated
    BY <1>4 DEF CreateInsert, Finish, Holding, Live
  <2>2. ~Holding(r)' /\ \A q \in Requests : q # r => reqs'[q] = reqs[q]
    BY <1>0, <2>1 DEF Holding, At, IdleRequest
  <2>3. vpcs'[id] = reqs[r].row /\ \A i \in VPCIds : i # id => vpcs'[i] = vpcs[i]
    BY <2>0, <2>1 DEF IInv, TypeOK
  <2>4. Users(vni) = {<<"request", r>>}
    BY <2>0, <2>1, OnlyUser
  <2>5. Users(vni)' \subseteq {<<"vpc", id>>}
    BY <2>0, <2>2, <2>3, <2>4 DEF Users, Live, Exists, Holding, At
  <2>6. \A w : w # vni => Users(w)' = Users(w)
    BY <2>0, <2>1, <2>2, <2>3 DEF Users, Live, Exists, Holding, At
  <2>7. \A w : w # vni => OwnersOf(w)' = OwnersOf(w)
    BY <2>0, <2>1, <2>6 DEF OwnersOf
  <2>8. vni \in allocated
    BY <2>0, <2>1 DEF HoldersInv
  <2>9. OwnersOf(vni)' = {PoolAbandoned} \/ OwnersOf(vni)' = {<<"vpc", id>>}
    BY <2>0, <2>1, <2>5, <2>8 DEF OwnersOf
  <2>10. OwnersOf(vni) = {<<"request", r>>}
    BY <2>0, <2>4 DEF OwnersOf
  <2>11. <<"request", r>> \in PoolOwners /\ <<"vpc", id>> \in PoolOwners
    BY DEF PoolOwners
  <2> QED  BY <2>0, <2>7, <2>9, <2>10, <2>11, OneVNIMoves
<1>5. ASSUME NEW r \in Requests, CreateRefused(r) \/ DeleteRelease(r)
      PROVE  [Pool!Next]_poolOwners
  <2>0. PICK vni : vni = reqs[r].row.vni
    OBVIOUS
  <2>1. /\ UNCHANGED vpcs /\ reqs' = [reqs EXCEPT ![r] = IdleRequest] /\ Holding(r)
        /\ allocated' = allocated \/ allocated' = allocated \ {vni}
    BY <1>5, <2>0 DEF CreateRefused, DeleteRelease, Finish, Holding
  <2>2. ~Holding(r)' /\ \A q \in Requests : q # r => reqs'[q] = reqs[q]
    BY <1>0, <2>1 DEF Holding, At, IdleRequest
  <2>3. Users(vni) = {<<"request", r>>}
    BY <2>0, <2>1, OnlyUser
  <2>4. Users(vni)' = {}
    BY <2>0, <2>1, <2>2, <2>3 DEF Users, Live, Exists, Holding, At
  <2>5. \A w : w # vni => Users(w)' = Users(w)
    BY <2>0, <2>1, <2>2 DEF Users, Live, Exists, Holding, At
  <2>6. \A w : w # vni => OwnersOf(w)' = OwnersOf(w)
    BY <2>0, <2>1, <2>5 DEF OwnersOf
  <2>7. OwnersOf(vni)' = {} \/ OwnersOf(vni)' = {PoolAbandoned}
    BY <2>0, <2>4 DEF OwnersOf
  <2>8. OwnersOf(vni) = {<<"request", r>>} /\ <<"request", r>> \in PoolOwners
    BY <2>0, <2>3 DEF OwnersOf, PoolOwners
  <2> QED  BY <2>0, <2>6, <2>7, <2>8, OneVNIMoves
<1>6. ASSUME NEW r \in Requests, NEW a \in Accounts, NEW id \in VPCIds, DeleteRead(r, a, id)
      PROVE  [Pool!Next]_poolOwners
  BY <1>0, <1>6, PoolStutters DEF DeleteRead, Begin, Become, Holding, At, IdleRequest
<1>7. ASSUME NEW r \in Requests, DeleteWrite(r) PROVE [Pool!Next]_poolOwners
  <2>1. PICK id \in VPCIds : /\ id = reqs[r].id
                             /\ vpcs[id] \in Row /\ vpcs[id].vni = reqs[r].row.vni
                             /\ UNCHANGED allocated /\ ~Holding(r) /\ reqs[r].op = "delete"
    BY <1>7 DEF DeleteWrite, At, IInv, RequestInv, Holding
  <2>2. CASE ~Live(id)
    <3>1. UNCHANGED <<vpcs, allocated>> /\ Finish(r)
      BY <1>7, <2>1, <2>2 DEF DeleteWrite
    <3> QED  BY <1>0, <2>1, <3>1, PoolStutters DEF Finish, IdleRequest, Holding, At
  <2>3. CASE Live(id)
    <3>0. PICK vni : vni = vpcs[id].vni
      OBVIOUS
    <3>1. vpcs' = [vpcs EXCEPT ![id] = [vpcs[id] EXCEPT !.state = "deleted"]] /\ Goto(r, "release")
      BY <1>7, <2>1, <2>3 DEF DeleteWrite
    <3>2. ~Live(id)' /\ \A i \in VPCIds : i # id => vpcs'[i] = vpcs[i]
      <4>1. [vpcs[id] EXCEPT !.state = "deleted"].state = "deleted"
        BY <2>1 DEF Row
      <4> QED  BY <3>1, <4>1 DEF Live, Exists, IInv, TypeOK
    <3>3. /\ reqs'[r].row = reqs[r].row /\ Holding(r)'
          /\ \A q \in Requests : q # r => reqs'[q] = reqs[q]
      BY <1>0, <2>1, <3>1 DEF Goto, RequestType, Holding, At
    <3>4. Users(vni) = {<<"vpc", id>>}
      BY <2>3, <3>0, OnlyUser
    <3>5. Users(vni)' = {<<"request", r>>}
      BY <2>1, <3>0, <3>2, <3>3, <3>4 DEF Users, Live, Exists, Holding, At
    <3>6. \A w : w # vni => Users(w)' = Users(w)
      BY <2>1, <3>0, <3>2, <3>3 DEF Users, Live, Exists, Holding, At
    <3>7. \A w : w # vni => OwnersOf(w)' = OwnersOf(w)
      BY <2>1, <3>6 DEF OwnersOf
    <3>8. OwnersOf(vni) = {<<"vpc", id>>} /\ OwnersOf(vni)' = {<<"request", r>>}
      BY <3>4, <3>5 DEF OwnersOf
    <3>9. <<"request", r>> \in PoolOwners /\ <<"vpc", id>> \in PoolOwners
      BY DEF PoolOwners
    <3> QED  BY <3>7, <3>8, <3>9, OneVNIMoves
  <2> QED  BY <2>2, <2>3
<1>8. CASE UNCHANGED vars
  BY <1>8, PoolStutters DEF vars, Holding, At
<1> QED  BY <1>1, <1>2, <1>3, <1>4, <1>5, <1>6, <1>7, <1>8
         DEF Next, CreateNext, DeleteNext, Restart

(* With PostgreSQL, and until the API process is restarted, the handlers   *)
(* and the allocator implement the pool of VNIs.                           *)
THEOREM ImplementsVNIPoolWithPostgres ==
    ASSUME Backend = "postgres"
    PROVE  Spec => ImplementsVNIPool
<1>1. Init => Pool!Init
  BY DEF Init, Pool!Init, poolOwners, OwnersOf, Users, Holding, At, Live, Exists, IdleRequest
<1>2. IInv /\ RowsUnique /\ HoldersUntilRestart /\ [Next]_vars => [Pool!Next]_poolOwners
  BY StepPool
<1> QED  BY <1>1, <1>2, Inductive, RowsUniqueWithPostgres, HoldersWithPostgres, PTL
         DEF Spec, ImplementsVNIPool, Pool!Spec
=============================================================================
