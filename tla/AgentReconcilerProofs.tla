----------------------- MODULE AgentReconcilerProofs -----------------------
(***************************************************************************)
(* Proofs about AgentReconciler, for any VRFs, prefixes, next hops and     *)
(* desired states, and any number of disturbances.  The inductive          *)
(* invariant says what the work lists of a pass have to do with its copy   *)
(* of the desired state; what they have to do with the kernel is nothing,  *)
(* since the kernel may have changed since it was listed.                  *)
(***************************************************************************)
EXTENDS AgentReconciler, TLAPS

(* The work lists are those of the current loop, and ask only for what the *)
(* copy wants and only against what it does not want.                      *)
PassInv ==
    /\ pc # "vrfs" => toCreate = {} /\ toDelete = {}
    /\ pc # "routes" => toAdd = {} /\ toRemove = {}
    /\ pc \notin {"vrfs", "routes"} => toVisit = {}
    /\ toVisit \subseteq snap.keys
    /\ toCreate \subseteq snap.vrfs
    /\ toDelete \cap NamesOf(snap.vrfs) = {}
    /\ \A rt \in toAdd : rt \in snap.routes /\ rt.vrf = cur /\ cur \in snap.keys
    /\ \A x \in toRemove : x \notin PrefixesIn(snap.routes, cur) /\ cur \in snap.keys

IInv == TypeOK /\ PassInv /\ KernelConsistent

-----------------------------------------------------------------------------
(* The kernel's own part of the type invariant. *)
KernelType ==
    /\ vrfs \subseteq VRFConfig
    /\ \A c1, c2 \in vrfs : c1.name = c2.name => c1 = c2
    /\ routes \subseteq RouteConfig
    /\ acls \subseteq ACLConfig

KernelInv == KernelType /\ KernelConsistent

(* CreateVRF refuses a second VRF of a name, so the kernel stays sound. *)
LEMMA CreateVRFSound ==
    ASSUME NEW c \in VRFConfig, KernelInv, CreateVRF(c) PROVE KernelInv'
  BY DEF KernelInv, KernelType, KernelConsistent, CreateVRF, NamesOf

(* DeleteVRF takes the routes of the VRF with it. *)
LEMMA DeleteVRFSound ==
    ASSUME NEW n \in Names, KernelInv, DeleteVRF(n) PROVE KernelInv'
  BY DEF KernelInv, KernelType, KernelConsistent, DeleteVRF, NamesOf, kernel

(* AddRoute checks for the VRF and for a route to the prefix. *)
LEMMA AddRouteSound ==
    ASSUME NEW rt \in RouteConfig, KernelInv, AddRoute(rt) PROVE KernelInv'
  BY DEF KernelInv, KernelType, KernelConsistent, AddRoute, RouteFits, NamesOf, PrefixesIn

(* DeleteRoute and the ACL calls only take away what others do not need. *)
LEMMA OtherCallsSound ==
    ASSUME KernelInv,
           \/ \E n \in Names \cup {NoName}, x \in Prefixes : DeleteRoute(n, x)
           \/ \E a \in ACLConfig : ProgramACL(a)
           \/ \E n \in Names, p \in PeeringIds : ClearACL(n, p)
           \/ UNCHANGED kernel
    PROVE  KernelInv'
  BY DEF KernelInv, KernelType, KernelConsistent, DeleteRoute, ProgramACL, ClearACL, NamesOf, kernel

(* What the kernel may do in any step of the specification. *)
KernelStep ==
    \/ \E c \in VRFConfig : CreateVRF(c)
    \/ \E n \in Names : DeleteVRF(n)
    \/ \E rt \in RouteConfig : AddRoute(rt)
    \/ \E n \in Names \cup {NoName}, x \in Prefixes : DeleteRoute(n, x)
    \/ \E a \in ACLConfig : ProgramACL(a)
    \/ \E n \in Names, p \in PeeringIds : ClearACL(n, p)
    \/ UNCHANGED kernel

(* Every step makes at most one netlink call. *)
LEMMA OneCall == ASSUME TypeOK, [Next]_vars PROVE KernelStep
<1>1. CASE LoopNext
  BY <1>1
     DEF TypeOK, LoopNext, KernelStep, Snapshot, ListVRFs, CreateMissingVRF, DeleteStaleVRF, VRFsDone,
         ListRoutes, AddMissingRoute, DeleteStaleRoute, RoutesDone, ProgramDesiredACL, PassDone
<1>2. CASE Drift
  BY <1>2 DEF Drift, KernelStep
<1>3. CASE UNCHANGED kernel
  BY <1>3 DEF KernelStep
<1> QED  BY <1>1, <1>2, <1>3
         DEF Next, SetDesiredState, AddDesiredVRF, AddDesiredRoutes, ListError, CallError,
             AgentRestart, vars

(* The kernel stays sound, whoever makes the next call. *)
LEMMA StepKernel == ASSUME TypeOK, KernelInv, [Next]_vars PROVE KernelInv'
<1>1. KernelStep
  BY OneCall
<1> QED  BY <1>1, CreateVRFSound, DeleteVRFSound, AddRouteSound, OtherCallsSound DEF KernelStep

-----------------------------------------------------------------------------
(* The pass starts with empty lists. *)
LEMMA InitIInv == Init => IInv
  BY BoundAssumption
     DEF Init, IInv, TypeOK, PassInv, KernelConsistent, NothingDesired, DesiredState, NamesOf,
         PrefixesIn

(* The type of everything but the kernel. *)
LoopType ==
    /\ desired \in DesiredState
    /\ pc \in {"idle", "list_vrfs", "vrfs", "routes", "acls"}
    /\ snap \in DesiredState
    /\ toCreate \subseteq VRFConfig
    /\ toDelete \subseteq Names
    /\ toVisit \subseteq Names
    /\ cur \in Names \cup {NoName}
    /\ toAdd \subseteq RouteConfig
    /\ toRemove \subseteq Prefixes
    /\ toProgram \subseteq ACLConfig
    /\ budget \in 0 .. MaxDisturbances

(* The loop's steps keep its lists in line with the copy. *)
LEMMA StepLoop == ASSUME IInv, LoopNext PROVE LoopType' /\ PassInv'
<1> USE DEF IInv, TypeOK, LoopType, PassInv
<1>1. CASE Snapshot
  BY <1>1 DEF Snapshot, NamesOf, PrefixesIn
<1>2. CASE ListVRFs
  <2>1. NamesOf(vrfs) \subseteq Names
    BY DEF NamesOf, VRFConfig
  <2>2. snap.vrfs \subseteq VRFConfig /\ snap.keys \subseteq Names /\ snap.acls \subseteq ACLConfig
    BY DEF DesiredState
  <2> QED  BY <1>2, <2>1, <2>2 DEF ListVRFs, PlanVRFs
<1>3. ASSUME NEW c \in VRFConfig, CreateMissingVRF(c) PROVE LoopType' /\ PassInv'
  BY <1>3 DEF CreateMissingVRF
<1>4. ASSUME NEW n \in Names, DeleteStaleVRF(n) PROVE LoopType' /\ PassInv'
  BY <1>4 DEF DeleteStaleVRF
<1>5. CASE VRFsDone
  BY <1>5 DEF VRFsDone
<1>6. ASSUME NEW n \in Names, ListRoutes(n) PROVE LoopType' /\ PassInv'
  <2>1. PrefixesIn(routes, n) \subseteq Prefixes
    BY DEF PrefixesIn, RouteConfig
  <2>2. snap.routes \subseteq RouteConfig
    BY DEF DesiredState
  <2> QED  BY <1>6, <2>1, <2>2 DEF ListRoutes, PlanRoutes, RouteLoopFree
<1>7. ASSUME NEW rt \in RouteConfig, AddMissingRoute(rt) PROVE LoopType' /\ PassInv'
  BY <1>7 DEF AddMissingRoute
<1>8. ASSUME NEW x \in Prefixes, DeleteStaleRoute(x) PROVE LoopType' /\ PassInv'
  BY <1>8 DEF DeleteStaleRoute
<1>9. CASE RoutesDone
  BY <1>9 DEF RoutesDone, RouteLoopFree
<1>10. ASSUME NEW a \in ACLConfig, ProgramDesiredACL(a) PROVE LoopType' /\ PassInv'
  BY <1>10 DEF ProgramDesiredACL
<1>11. CASE PassDone
  BY <1>11 DEF PassDone, NothingDesired, DesiredState, NamesOf, PrefixesIn
<1> QED  BY <1>1, <1>2, <1>3, <1>4, <1>5, <1>6, <1>7, <1>8, <1>9, <1>10, <1>11 DEF LoopNext

(* So does everything that happens to the agent. *)
LEMMA StepDisturbance == ASSUME IInv, [Next]_vars, ~LoopNext PROVE LoopType' /\ PassInv'
<1> USE DEF IInv, TypeOK, LoopType, PassInv
<1>0. ASSUME NEW what, Disturb(what) PROVE budget' \in 0 .. MaxDisturbances
  BY <1>0, BoundAssumption DEF Disturb
<1>1. ASSUME NEW d \in DesiredStates, SetDesiredState(d) PROVE LoopType' /\ PassInv'
  BY <1>0, <1>1, DesiredAssumption DEF SetDesiredState, loopVars
<1>2. ASSUME NEW c \in VRFConfig, AddDesiredVRF(c) PROVE LoopType' /\ PassInv'
  BY <1>0, <1>2 DEF AddDesiredVRF, loopVars, DesiredState
<1>3. ASSUME NEW rt \in RouteConfig, AddDesiredRoutes(rt.vrf, {rt}) PROVE LoopType' /\ PassInv'
  BY <1>0, <1>3 DEF AddDesiredRoutes, loopVars, DesiredState, RouteConfig
<1>4. CASE Drift
  BY <1>0, <1>4 DEF Drift, loopVars
<1>5. CASE ListError
  <2>1. snap.vrfs \subseteq VRFConfig /\ snap.keys \subseteq Names /\ snap.acls \subseteq ACLConfig
        /\ snap.routes \subseteq RouteConfig
    BY DEF DesiredState
  <2>2. CASE pc = "list_vrfs" /\ PlanVRFs({}) /\ UNCHANGED <<cur, toAdd, toRemove>>
    BY <1>0, <1>5, <2>1, <2>2 DEF ListError, PlanVRFs
  <2>3. ASSUME NEW n \in toVisit, RouteLoopFree, PlanRoutes(n, {}),
               UNCHANGED <<pc, toCreate, toDelete, toProgram>>
        PROVE  LoopType' /\ PassInv'
    BY <1>0, <1>5, <2>1, <2>3 DEF ListError, PlanRoutes, RouteLoopFree
  <2> QED  BY <1>5, <2>2, <2>3 DEF ListError
<1>6. CASE CallError
  BY <1>0, <1>6 DEF CallError
<1>7. CASE AgentRestart
  BY <1>0, <1>7 DEF AgentRestart, NothingDesired, DesiredState, NamesOf, PrefixesIn
<1>8. CASE UNCHANGED vars
  BY <1>8 DEF vars, loopVars
<1> QED  BY <1>1, <1>2, <1>3, <1>4, <1>5, <1>6, <1>7, <1>8 DEF Next

(* The invariant that every other proof rests on. *)
THEOREM Inductive == Spec => []IInv
<1>1. Init => IInv
  BY InitIInv
<1>2. IInv /\ [Next]_vars => IInv'
  <2> SUFFICES ASSUME IInv, [Next]_vars PROVE IInv'
    OBVIOUS
  <2>1. KernelInv'
    BY StepKernel DEF IInv, KernelInv, KernelType, TypeOK
  <2>2. LoopType' /\ PassInv'
    BY StepLoop, StepDisturbance
  <2> QED  BY <2>1, <2>2 DEF IInv, TypeOK, KernelInv, KernelType, LoopType
<1> QED  BY <1>1, <1>2, PTL DEF Spec

(* Every variable always has its type; no VRF name is in the kernel twice. *)
THEOREM TypeCorrect == Spec => []TypeOK
<1>1. IInv => TypeOK  BY DEF IInv
<1> QED  BY <1>1, Inductive, PTL

(* The kernel never has a route without its VRF nor two for one prefix. *)
THEOREM KernelConsistentHolds == Spec => []KernelConsistent
<1>1. IInv => KernelConsistent  BY DEF IInv
<1> QED  BY <1>1, Inductive, PTL

(* A pass leaves the VRFs and routes alone of a host that has what the pass *)
(* wants, however outdated the lists are that it works from.                *)
THEOREM MatchedHostUntouchedHolds == Spec => MatchedHostUntouched
<1>1. ASSUME IInv, Matches(snap), LoopNext PROVE UNCHANGED <<vrfs, routes>>
  <2> USE <1>1
  <2>1. ASSUME NEW c \in VRFConfig, CreateMissingVRF(c) PROVE UNCHANGED <<vrfs, routes>>
    <3>1. c.name \in NamesOf(vrfs)
      BY <2>1 DEF CreateMissingVRF, IInv, PassInv, Matches, NamesOf
    <3> QED  BY <2>1, <3>1 DEF CreateMissingVRF, CreateVRF
  <2>2. ASSUME NEW n \in Names, DeleteStaleVRF(n) PROVE UNCHANGED <<vrfs, routes>>
    <3>1. n \notin NamesOf(vrfs)
      BY <2>2 DEF DeleteStaleVRF, IInv, PassInv, Matches
    <3> QED  BY <2>2, <3>1 DEF DeleteStaleVRF, DeleteVRF, kernel
  <2>3. ASSUME NEW rt \in RouteConfig, AddMissingRoute(rt) PROVE UNCHANGED <<vrfs, routes>>
    <3>1. rt \in snap.routes /\ rt.vrf \in snap.keys
      BY <2>3 DEF AddMissingRoute, IInv, PassInv
    <3>2. rt.prefix \in PrefixesIn(snap.routes, rt.vrf)
      BY <3>1 DEF PrefixesIn
    <3>3. ~RouteFits(rt)
      BY <3>1, <3>2 DEF RouteFits, Matches
    <3> QED  BY <2>3, <3>3 DEF AddMissingRoute, AddRoute
  <2>4. ASSUME NEW x \in Prefixes, DeleteStaleRoute(x) PROVE UNCHANGED <<vrfs, routes>>
    <3>1. x \notin PrefixesIn(snap.routes, cur) /\ cur \in snap.keys
      BY <2>4 DEF DeleteStaleRoute, IInv, PassInv
    <3>2. x \notin PrefixesIn(routes, cur)
      <4>1. CASE cur \in NamesOf(vrfs)
        BY <3>1, <4>1 DEF Matches
      <4>2. CASE cur \notin NamesOf(vrfs)
        BY <4>2 DEF IInv, KernelConsistent, PrefixesIn
      <4> QED  BY <4>1, <4>2
    <3>3. \A rt \in routes : ~(rt.vrf = cur /\ rt.prefix = x)
      BY <3>2 DEF PrefixesIn
    <3> QED  BY <2>4, <3>3 DEF DeleteStaleRoute, DeleteRoute
  <2>5. CASE UNCHANGED <<vrfs, routes>>
    BY <2>5
  <2> QED  BY <2>1, <2>2, <2>3, <2>4, <2>5
           DEF LoopNext, Snapshot, ListVRFs, VRFsDone, ListRoutes, RoutesDone, ProgramDesiredACL,
               ProgramACL, PassDone, kernel
<1>2. IInv /\ [Next]_vars => [Matches(snap) /\ LoopNext => UNCHANGED <<vrfs, routes>>]_vars
  BY <1>1
<1> QED  BY <1>2, Inductive, PTL DEF Spec, MatchedHostUntouched
=============================================================================
