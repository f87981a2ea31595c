--------------------------- MODULE FabricProofs -----------------------------
(* Proofs of the controller against the BGP service, for any peerings and  *)
(* VPCs, any number of failing calls and both peering stores.              *)
EXTENDS Fabric, SequenceTheorems, TLAPS

(* The calls that bring p up, and whether the fabric has what c asks for. *)
Needed(p) == {ProvisionCalls(p)[i] : i \in DOMAIN ProvisionCalls(p)}

Done(c) == IF c.op = "add_import" THEN imports[c.vpc][c.of] > 0 ELSE injected[c.vpc] > 0

(* No tear-down begun so far, other than p's own, undoes c. *)
Safe(p, c) ==
    \A q \in torn \ {p} :
        IF c.op = "add_import" THEN {c.vpc, c.of} # Between(q) ELSE c.vpc \notin Between(q)

(* c is among the calls that the visit has yet to make. *)
ToMake(c) == \E i \in DOMAIN job.calls : job.calls[i] = c

(* A tear-down makes calls about the VPCs of its peering only, and a       *)
(* provisioning takes nothing away.                                        *)
CallsInv ==
    /\ step = "wait" => job = NoJob
    /\ job # NoJob => \A i \in DOMAIN job.calls :
          LET c == job.calls[i] IN
          IF step = "deprovision"
          THEN \/ c.op = "remove_import" /\ {c.vpc, c.of} = Between(job.p)
               \/ c.op = "withdraw" /\ c.vpc \in Between(job.p)
          ELSE c.op \in {"add_import", "inject"}
    /\ job # NoJob /\ step = "deprovision" => job.p \in torn /\ ~job.reads

(* What was torn down is over: no list and no visit of the other two steps *)
(* has it, so nothing makes it active again.                               *)
TornInv ==
    /\ step = "deprovision" => \A p \in left : state[p] \in {"deleting", "deleted"}
    /\ \A p \in torn :
          /\ state[p] \in {"deleting", "deleted"}
          /\ step # "deprovision" => p \notin left /\ (job # NoJob => job.p # p)

(* An active peering has what it needs; one being provisioned has it but   *)
(* for the calls that are left.                                            *)
UpInv ==
    /\ \A p \in Peerings : state[p] = "active" => \A c \in Needed(p) : Safe(p, c) => Done(c)
    /\ job # NoJob /\ step # "deprovision" /\ ~job.reads =>
          \A c \in Needed(job.p) : Safe(job.p, c) => Done(c) \/ ToMake(c)

IInv == TypeOK /\ CallsInv /\ TornInv /\ UpInv

-----------------------------------------------------------------------------
(* The endpoints of a peering are VPCs. *)
LEMMA PeeringTypes ==
    ASSUME NEW p \in Peerings
    PROVE  Requester[p] \in VPCs /\ Accepter[p] \in VPCs /\ Between(p) \subseteq VPCs
BY PeeringAssumption DEF Between

(* The calls that the provisioner makes have their type. *)
LEMMA CallType ==
    ASSUME NEW op \in {"add_import", "remove_import", "inject", "withdraw"},
           NEW v \in VPCs, NEW w \in VPCs
    PROVE  Call(op, v, w) \in Calls
BY DEF Call, Calls

(* An element of a sequence is its head or in its tail. *)
LEMMA HeadOrTail ==
    ASSUME NEW S, NEW s \in Seq(S), s # <<>>
    PROVE  /\ Head(s) \in S /\ Tail(s) \in Seq(S)
           /\ \E i \in DOMAIN s : s[i] = Head(s)
           /\ \A i \in DOMAIN s : s[i] = Head(s) \/ \E j \in DOMAIN Tail(s) : Tail(s)[j] = s[i]
           /\ \A j \in DOMAIN Tail(s) : \E i \in DOMAIN s : s[i] = Tail(s)[j]
<1>1. Len(s) \in Nat \ {0} /\ DOMAIN s = 1..Len(s)
  BY EmptySeq, LenProperties
<1>2. /\ Head(s) \in S /\ Tail(s) \in Seq(S) /\ Len(Tail(s)) = Len(s) - 1
      /\ \A i \in 1..Len(Tail(s)) : Tail(s)[i] = s[i + 1]
  BY HeadTailProperties
<1>3. DOMAIN Tail(s) = 1..(Len(s) - 1)
  BY <1>2, LenProperties
<1>4. Head(s) = s[1]
  OBVIOUS
<1>5. ASSUME NEW i \in DOMAIN s, i # 1 PROVE i - 1 \in DOMAIN Tail(s) /\ Tail(s)[i - 1] = s[i]
  BY <1>1, <1>2, <1>3, <1>5
<1>6. ASSUME NEW j \in DOMAIN Tail(s) PROVE j + 1 \in DOMAIN s /\ s[j + 1] = Tail(s)[j]
  BY <1>1, <1>2, <1>3, <1>6
<1>7. 1 \in DOMAIN s
  BY <1>1
<1>8. \A i \in DOMAIN s : s[i] = Head(s) \/ \E j \in DOMAIN Tail(s) : Tail(s)[j] = s[i]
  BY <1>4, <1>5
<1>9. \A j \in DOMAIN Tail(s) : \E i \in DOMAIN s : s[i] = Tail(s)[j]
  BY <1>6
<1> QED  BY <1>2, <1>4, <1>7, <1>8, <1>9

Values(s) == {s[i] : i \in DOMAIN s}

(* The members of a concatenation are those of its parts. *)
LEMMA ConcatValues ==
    ASSUME NEW S, NEW s \in Seq(S), NEW t \in Seq(S)
    PROVE  s \o t \in Seq(S) /\ Values(s \o t) = Values(s) \cup Values(t)
<1>1. /\ s \o t \in Seq(S) /\ Len(s \o t) = Len(s) + Len(t)
      /\ \A i \in 1..(Len(s) + Len(t)) :
            (s \o t)[i] = IF i <= Len(s) THEN s[i] ELSE t[i - Len(s)]
  BY ConcatProperties
<1>2. /\ Len(s) \in Nat /\ Len(t) \in Nat
      /\ DOMAIN s = 1..Len(s) /\ DOMAIN t = 1..Len(t) /\ DOMAIN (s \o t) = 1..(Len(s) + Len(t))
  BY <1>1, LenProperties
<1>3. ASSUME NEW i \in DOMAIN s PROVE i \in DOMAIN (s \o t) /\ (s \o t)[i] = s[i]
  BY <1>1, <1>2, <1>3
<1>4. ASSUME NEW i \in DOMAIN t
      PROVE  i + Len(s) \in DOMAIN (s \o t) /\ (s \o t)[i + Len(s)] = t[i]
  BY <1>1, <1>2, <1>4
<1>5. ASSUME NEW i \in DOMAIN (s \o t), i > Len(s)
      PROVE  i - Len(s) \in DOMAIN t /\ (s \o t)[i] = t[i - Len(s)]
  BY <1>1, <1>2, <1>5
<1>6. ASSUME NEW i \in DOMAIN (s \o t), ~(i > Len(s))
      PROVE  i \in DOMAIN s /\ (s \o t)[i] = s[i]
  BY <1>1, <1>2, <1>6
<1>7. Values(s \o t) \subseteq Values(s) \cup Values(t)
  BY <1>5, <1>6 DEF Values
<1>8. Values(s) \subseteq Values(s \o t)
  BY <1>3 DEF Values
<1>9. Values(t) \subseteq Values(s \o t)
  BY <1>4 DEF Values
<1> QED  BY <1>1, <1>7, <1>8, <1>9

(* The members of a sequence are of its type. *)
LEMMA ValuesType ==
    ASSUME NEW S, NEW s \in Seq(S)
    PROVE  Values(s) \subseteq S
BY LenProperties, ElementOfSeq DEF Values

(* The empty sequence has no members. *)
LEMMA NoValues == \A S : <<>> \in Seq(S) /\ Values(<<>>) = {}
BY DEF Values

(* A sequence of one call has that member only. *)
LEMMA OneValue ==
    ASSUME NEW S, NEW c \in S
    PROVE  <<c>> \in Seq(S) /\ Values(<<c>>) = {c}
<1>1. DOMAIN <<c>> = {1}
  OBVIOUS
<1> QED  BY <1>1 DEF Values

(* A sequence of two calls has these members only. *)
LEMMA TwoValues ==
    ASSUME NEW S, NEW c \in S, NEW d \in S
    PROVE  <<c, d>> \in Seq(S) /\ Values(<<c, d>>) = {c, d}
<1>1. DOMAIN <<c, d>> = {1, 2}
  OBVIOUS
<1> QED  BY <1>1 DEF Values

(* The calls of a provisioning. *)
LEMMA ProvisionCallsProperties ==
    ASSUME NEW p \in Peerings
    PROVE  /\ ProvisionCalls(p) \in Seq(Calls)
           /\ Needed(p) = {Call("add_import", Requester[p], Accepter[p]),
                           Call("add_import", Accepter[p], Requester[p])}
                           \cup {Call("inject", v, v) : v \in Announced(p)}
<1> DEFINE c1 == Call("add_import", Requester[p], Accepter[p])
           c2 == Call("add_import", Accepter[p], Requester[p])
           c3 == Call("inject", Accepter[p], Accepter[p])
           c4 == Call("inject", Requester[p], Requester[p])
<1>1. c1 \in Calls /\ c2 \in Calls /\ c3 \in Calls /\ c4 \in Calls
  BY PeeringTypes, CallType
<1>2. BuildPeeringRTConfigs(p, "add_import") = <<c1, c2>>
  BY DEF BuildPeeringRTConfigs
<1> HIDE DEF c1, c2, c3, c4
<1>3. PICK s \in Seq(Calls) : s = <<c1, c2>> /\ Values(s) = {c1, c2}
  BY <1>1, TwoValues, Zenon
<1>4. CASE p \in Exporting
  <2>1. InjectCalls(p) = <<c3>> \o <<c4>>
    BY <1>4 DEF InjectCalls, c3, c4
  <2>2. PICK t \in Seq(Calls) : t = <<c3>> /\ Values(t) = {c3}
    BY <1>1, OneValue, Zenon
  <2>3. PICK u \in Seq(Calls) : u = <<c4>> /\ Values(u) = {c4}
    BY <1>1, OneValue, Zenon
  <2>4. PICK inject \in Seq(Calls) : inject = InjectCalls(p) /\ Values(inject) = {c3} \cup {c4}
    <3>1. t \o u \in Seq(Calls) /\ Values(t \o u) = Values(t) \cup Values(u)
      BY ConcatValues, Zenon
    <3>2. InjectCalls(p) = t \o u
      BY <2>1, <2>2, <2>3, Zenon
    <3> QED  BY <2>2, <2>3, <3>1, <3>2, Zenon
  <2>5. s \o inject \in Seq(Calls) /\ Values(s \o inject) = {c1, c2} \cup ({c3} \cup {c4})
    <3>1. s \o inject \in Seq(Calls) /\ Values(s \o inject) = Values(s) \cup Values(inject)
      BY ConcatValues, Zenon
    <3> QED  BY <1>3, <2>4, <3>1, Zenon
  <2>6. ProvisionCalls(p) = s \o inject /\ Needed(p) = Values(s \o inject)
    BY <1>2, <1>3, <2>4 DEF ProvisionCalls, Needed, Values
  <2>7. {Call("inject", v, v) : v \in Announced(p)} = {c3} \cup {c4}
    BY <1>4 DEF Announced, Between, c3, c4
  <2> QED  BY <2>5, <2>6, <2>7 DEF c1, c2
<1>5. CASE p \notin Exporting
  <2>1. InjectCalls(p) = <<c3>> \o <<>>
    BY <1>5 DEF InjectCalls, c3, c4
  <2>2. PICK t \in Seq(Calls) : t = <<c3>> /\ Values(t) = {c3}
    BY <1>1, OneValue, Zenon
  <2>3. PICK u \in Seq(Calls) : u = <<>> /\ Values(u) = {}
    BY NoValues
  <2>4. PICK inject \in Seq(Calls) : inject = InjectCalls(p) /\ Values(inject) = {c3} \cup {}
    <3>1. t \o u \in Seq(Calls) /\ Values(t \o u) = Values(t) \cup Values(u)
      BY ConcatValues, Zenon
    <3>2. InjectCalls(p) = t \o u
      BY <2>1, <2>2, <2>3, Zenon
    <3> QED  BY <2>2, <2>3, <3>1, <3>2, Zenon
  <2>5. s \o inject \in Seq(Calls) /\ Values(s \o inject) = {c1, c2} \cup ({c3} \cup {})
    <3>1. s \o inject \in Seq(Calls) /\ Values(s \o inject) = Values(s) \cup Values(inject)
      BY ConcatValues, Zenon
    <3> QED  BY <1>3, <2>4, <3>1, Zenon
  <2>6. ProvisionCalls(p) = s \o inject /\ Needed(p) = Values(s \o inject)
    BY <1>2, <1>3, <2>4 DEF ProvisionCalls, Needed, Values
  <2>7. {Call("inject", v, v) : v \in Announced(p)} = {c3} \cup {}
    BY <1>5 DEF Announced, c3
  <2> QED  BY <2>5, <2>6, <2>7 DEF c1, c2
<1> QED  BY <1>4, <1>5

(* The calls of a tear-down are about the VPCs of its peering. *)
LEMMA DeprovisionCallsProperties ==
    ASSUME NEW p \in Peerings
    PROVE  /\ DeprovisionCalls(p) \in Seq(Calls)
           /\ \A i \in DOMAIN DeprovisionCalls(p) :
                 LET c == DeprovisionCalls(p)[i] IN
                 \/ c.op = "remove_import" /\ {c.vpc, c.of} = Between(p)
                 \/ c.op = "withdraw" /\ c.vpc \in Between(p)
<1> DEFINE Own == {c \in Calls : \/ c.op = "remove_import" /\ {c.vpc, c.of} = Between(p)
                                 \/ c.op = "withdraw" /\ c.vpc \in Between(p)}
<1>1. ASSUME NEW v \in Between(p) PROVE WithdrawCall(v) \in Seq(Own)
  <2>1. Call("withdraw", v, v) \in Calls
    BY <1>1, PeeringTypes, CallType
  <2>2. Call("withdraw", v, v) \in Own
    BY <1>1, <2>1 DEF Call
  <2> QED  BY <2>2, NoValues, OneValue DEF WithdrawCall
<1>2. BuildPeeringRTConfigs(p, "remove_import") \in Seq(Own)
  <2>1. /\ Call("remove_import", Requester[p], Accepter[p]) \in Own
        /\ Call("remove_import", Accepter[p], Requester[p]) \in Own
    BY PeeringTypes, CallType DEF Call, Between
  <2> QED  BY <2>1, TwoValues, Zenon DEF BuildPeeringRTConfigs
<1> HIDE DEF Own
<1>3. WithdrawCall(Accepter[p]) \in Seq(Own) /\ WithdrawCall(Requester[p]) \in Seq(Own)
  BY <1>1 DEF Between
<1>4. <<>> \in Seq(Own)
  BY EmptySeq
<1>5. DeprovisionCalls(p) \in Seq(Own)
  BY <1>2, <1>3, <1>4, ConcatProperties DEF DeprovisionCalls
<1>6. \A i \in DOMAIN DeprovisionCalls(p) : DeprovisionCalls(p)[i] \in Own
  BY <1>5, LenProperties, ElementOfSeq
<1>7. Own \subseteq Calls
  BY DEF Own
<1>8. DeprovisionCalls(p) \in Seq(Calls)
  BY <1>5, <1>7, SeqMonotonic
<1> QED  BY <1>6, <1>8 DEF Own

-----------------------------------------------------------------------------
(* The controller's jobs have their type. *)
LEMMA JobTypes ==
    /\ \A p \in Peerings, calls \in Seq(Calls) : Work(p, calls) \in Job
    /\ \A p \in Peerings : WorkAfterReads(p) \in Job
    /\ \A j \in Job : j # NoJob
<1>1. \A p \in Peerings, calls \in Seq(Calls) : Work(p, calls) \in Job
  BY DEF Work, Job
<1>2. <<>> \in Seq(Calls)
  BY NoValues
<1>3. \A p \in Peerings : WorkAfterReads(p) \in Job
  BY <1>2 DEF WorkAfterReads, Job
<1> QED  BY <1>1, <1>3, SentinelAssumption

(* Making a call takes it off the job and leaves the rest alone. *)
LEMMA JobTail ==
    ASSUME TypeOK, job # NoJob, job.calls # <<>>
    PROVE  /\ job \in Job
           /\ Head(job.calls) \in Calls
           /\ [job EXCEPT !.calls = Tail(@)] \in Job
           /\ [job EXCEPT !.calls = Tail(@)].p = job.p
           /\ [job EXCEPT !.calls = Tail(@)].reads = job.reads
           /\ [job EXCEPT !.calls = Tail(@)].calls = Tail(job.calls)
<1>1. job \in Job /\ job.calls \in Seq(Calls)
  BY DEF TypeOK, Job
<1>2. Head(job.calls) \in Calls /\ Tail(job.calls) \in Seq(Calls)
  BY <1>1, HeadOrTail, Zenon
<1> QED  BY <1>1, <1>2 DEF Job

(* What a call of the BGP service does to the fabric. *)
LEMMA CallEffect ==
    ASSUME TypeOK, NEW d \in Calls, ConfigureRT(d) \/ InjectRoutes(d) \/ WithdrawRoutes(d)
    PROVE  /\ imports' \in [VPCs -> [VPCs -> Nat]] /\ injected' \in [VPCs -> Nat]
           /\ d.op \in {"add_import", "inject"} => Done(d)'
           /\ \A c \in Calls : Done(c) =>
                 \/ Done(c)'
                 \/ d.op = "remove_import" /\ c.op = "add_import" /\ c.vpc = d.vpc /\ c.of = d.of
                 \/ d.op = "withdraw" /\ c.op # "add_import" /\ c.vpc = d.vpc
<1>0. /\ imports \in [VPCs -> [VPCs -> Nat]] /\ injected \in [VPCs -> Nat]
      /\ d.vpc \in VPCs /\ d.of \in VPCs /\ imports[d.vpc] \in [VPCs -> Nat]
      /\ imports[d.vpc][d.of] \in Nat /\ injected[d.vpc] \in Nat
  BY DEF TypeOK, Calls
<1>1. ASSUME NEW n \in Nat, imports' = [imports EXCEPT ![d.vpc][d.of] = n]
      PROVE  /\ imports' \in [VPCs -> [VPCs -> Nat]]
             /\ imports'[d.vpc][d.of] = n
             /\ \A v \in VPCs, w \in VPCs : v # d.vpc \/ w # d.of => imports'[v][w] = imports[v][w]
  BY <1>0, <1>1
<1>2. CASE d.op = "add_import" /\ imports' = [imports EXCEPT ![d.vpc][d.of] = @ + 1] /\ UNCHANGED injected
  <2>1. PICK n \in Nat : n = imports[d.vpc][d.of] + 1 /\ n > 0
    BY <1>0
  <2>2. imports' = [imports EXCEPT ![d.vpc][d.of] = n]
    BY <1>2, <2>1
  <2>3. /\ imports' \in [VPCs -> [VPCs -> Nat]]
        /\ imports'[d.vpc][d.of] = n
        /\ \A v \in VPCs, w \in VPCs : v # d.vpc \/ w # d.of => imports'[v][w] = imports[v][w]
    BY <1>1, <2>2
  <2> QED  BY <1>0, <1>2, <2>1, <2>3 DEF Done, Calls
<1>3. CASE d.op = "remove_import" /\ RemoveImport(d.vpc, d.of) /\ UNCHANGED injected
  <2>1. PICK n \in Nat : n = IF imports[d.vpc][d.of] > 0 THEN imports[d.vpc][d.of] - 1 ELSE 0
    BY <1>0
  <2>2. imports' = [imports EXCEPT ![d.vpc][d.of] = n]
    BY <1>3, <2>1 DEF RemoveImport
  <2>3. /\ imports' \in [VPCs -> [VPCs -> Nat]]
        /\ \A v \in VPCs, w \in VPCs : v # d.vpc \/ w # d.of => imports'[v][w] = imports[v][w]
    BY <1>1, <2>2
  <2> QED  BY <1>0, <1>3, <2>3 DEF Done, Calls
<1>4. CASE InjectRoutes(d)
  BY <1>0, <1>4 DEF InjectRoutes, Done, Calls
<1>5. CASE WithdrawRoutes(d)
  BY <1>0, <1>5 DEF WithdrawRoutes, Done, Calls
<1> QED  BY <1>2, <1>3, <1>4, <1>5 DEF ConfigureRT

(* The invariant holds initially. *)
LEMMA Initial == Init => IInv
<1> SUFFICES ASSUME Init PROVE IInv
  OBVIOUS
<1>1. TypeOK
  BY BoundAssumption DEF Init, TypeOK, PeeringStates
<1> QED  BY <1>1 DEF Init, IInv, CallsInv, TornInv, UpInv

-----------------------------------------------------------------------------
(* Every step keeps the types. *)
LEMMA StepType ==
    ASSUME IInv, Next
    PROVE  TypeOK'
<1> USE DEF TypeOK
<1>0. TypeOK
  BY DEF IInv
<1> USE BoundAssumption DEF store, fabric
<1>1. CASE PassStart \/ NextStep
  BY <1>0, <1>1 DEF PassStart, NextStep, ListByState
<1>2. ASSUME NEW p \in Peerings PROVE ProvisionPeering(p) => job' \in Job \cup {NoJob}
  <2>1. ProvisionCalls(p) \in Seq(Calls)
    BY ProvisionCallsProperties
  <2> QED  BY <2>1, JobTypes DEF ProvisionPeering
<1>3. ASSUME NEW p \in Peerings, VisitProvisioning(p) PROVE TypeOK'
  BY <1>0, <1>2, <1>3 DEF VisitProvisioning, Visit
<1>4. ASSUME NEW p \in Peerings, VisitDeleting(p) PROVE TypeOK'
  <2>1. DeprovisionCalls(p) \in Seq(Calls)
    BY DeprovisionCallsProperties
  <2>2. job' \in Job \cup {NoJob}
    BY <1>4, <2>1, JobTypes DEF VisitDeleting
  <2> QED  BY <1>0, <1>4, <2>2 DEF VisitDeleting, Visit
<1>5. ASSUME NEW p \in Peerings, VisitFailed(p) PROVE TypeOK'
  <2>1. job' \in Job \cup {NoJob}
    BY <1>0, <1>5, JobTypes DEF VisitFailed
  <2> QED  BY <1>0, <1>5, <2>1 DEF VisitFailed, Visit, PeeringStates
<1>6. CASE RetryRead
  <2>1. job.p \in Peerings
    BY <1>0, <1>6 DEF RetryRead, Job
  <2>2. job' \in Job \cup {NoJob}
    BY <1>2, <1>6, <2>1 DEF RetryRead
  <2> QED  BY <1>0, <1>6, <2>2 DEF RetryRead
<1>7. CASE MakeCall
  <2>1. job' \in Job /\ Head(job.calls) \in Calls
    BY <1>0, <1>7, JobTail DEF MakeCall
  <2>2. imports' \in [VPCs -> [VPCs -> Nat]] /\ injected' \in [VPCs -> Nat]
    BY <1>0, <1>7, <2>1, CallEffect DEF MakeCall
  <2> QED  BY <1>0, <1>7, <2>1, <2>2 DEF MakeCall
<1>8. CASE CallFails
  <2>1. job' \in Job \cup {NoJob}
    BY <1>0, <1>8, JobTail DEF CallFails
  <2> QED  BY <1>0, <1>8, <2>1 DEF CallFails
<1>9. CASE JobDone
  BY <1>0, <1>9 DEF JobDone, PeeringStates
<1>10. ASSUME NEW p \in Peerings, Delete(p) \/ MarkDeleting(p) \/ MarkFailed(p) \/ Aged(p) PROVE TypeOK'
  BY <1>0, <1>10 DEF Delete, MarkDeleting, MarkFailed, Marked, Aged, Store, PeeringStates
<1>11. ASSUME NEW v \in VPCs, DeleteVPC(v) PROVE TypeOK'
  BY <1>0, <1>11 DEF DeleteVPC
<1> QED  BY <1>1, <1>3, <1>4, <1>5, <1>6, <1>7, <1>8, <1>9, <1>10, <1>11 DEF Next, ControllerNext

(* Every step keeps the calls left to make those of the job's peering. *)
LEMMA StepCalls ==
    ASSUME IInv, Next
    PROVE  CallsInv'
<1>0. TypeOK /\ CallsInv
  BY DEF IInv
<1> USE DEF store, fabric
<1>1. CASE PassStart \/ NextStep
  BY <1>0, <1>1 DEF PassStart, NextStep, CallsInv
<1>2. ASSUME NEW p \in Peerings, ProvisionPeering(p), UNCHANGED step, step \in {"provision", "retry"}
      PROVE  CallsInv'
  <2>1. CASE job' = NoJob
    BY <1>2, <2>1 DEF CallsInv
  <2>2. CASE job' = Work(p, ProvisionCalls(p))
    <3>1. job'.calls = ProvisionCalls(p)
      BY <2>2 DEF Work
    <3>2. \A i \in DOMAIN ProvisionCalls(p) : ProvisionCalls(p)[i].op \in {"add_import", "inject"}
      BY ProvisionCallsProperties DEF Needed, Call
    <3> QED  BY <1>2, <3>1, <3>2 DEF CallsInv
  <2> QED  BY <1>2, <2>1, <2>2 DEF ProvisionPeering
<1>3. ASSUME NEW p \in Peerings, VisitProvisioning(p) PROVE CallsInv'
  BY <1>2, <1>3 DEF VisitProvisioning, Visit
<1>4. ASSUME NEW p \in Peerings, VisitDeleting(p) PROVE CallsInv'
  <2>1. CASE job' = NoJob
    BY <1>4, <2>1 DEF VisitDeleting, Visit, CallsInv
  <2>2. CASE Found(p) /\ job' = Work(p, DeprovisionCalls(p))
    <3>1. job'.calls = DeprovisionCalls(p) /\ job'.p = p /\ ~job'.reads /\ p \in torn' /\ step' = "deprovision"
      BY <1>4, <2>2 DEF Work, VisitDeleting, Visit
    <3> QED  BY <3>1, DeprovisionCallsProperties DEF CallsInv
  <2> QED  BY <1>4, <2>1, <2>2 DEF VisitDeleting
<1>5. ASSUME NEW p \in Peerings, VisitFailed(p) PROVE CallsInv'
  <2>1. CASE job' = job
    BY <1>0, <1>5, <2>1 DEF VisitFailed, Visit, CallsInv
  <2>2. CASE job' = WorkAfterReads(p)
    BY <1>5, <2>2 DEF VisitFailed, Visit, CallsInv, WorkAfterReads
  <2> QED  BY <1>5, <2>1, <2>2 DEF VisitFailed
<1>6. CASE RetryRead
  <2>1. job.p \in Peerings /\ step # "wait" /\ step \in {"wait", "provision", "deprovision", "retry"}
    BY <1>0, <1>6 DEF RetryRead, TypeOK, Job, CallsInv
  <2>2. CASE step = "deprovision"
    BY <1>0, <1>6, <2>2 DEF RetryRead, CallsInv
  <2> QED  BY <1>2, <1>6, <2>1, <2>2 DEF RetryRead
<1>7. ASSUME job # NoJob, job.calls # <<>>, job' = [job EXCEPT !.calls = Tail(@)], UNCHANGED <<step, torn>>
      PROVE  CallsInv'
  <2>1. job.calls \in Seq(Calls)
    BY <1>0, <1>7 DEF TypeOK, Job
  <2>2. job'.p = job.p /\ job'.reads = job.reads /\ job'.calls = Tail(job.calls)
    BY <1>0, <1>7, JobTail
  <2>3. \A j \in DOMAIN Tail(job.calls) : \E i \in DOMAIN job.calls : job.calls[i] = Tail(job.calls)[j]
    BY <1>7, <2>1, HeadOrTail, Zenon
  <2> QED  BY <1>0, <1>7, <2>2, <2>3 DEF CallsInv
<1>8. CASE MakeCall
  BY <1>7, <1>8 DEF MakeCall
<1>9. CASE CallFails
  <2>1. CASE job' = NoJob
    BY <2>1 DEF CallsInv
  <2> QED  BY <1>7, <1>9, <2>1 DEF CallFails
<1>10. CASE JobDone
  BY <1>10 DEF JobDone, CallsInv
<1>11. CASE UNCHANGED <<step, job, torn>>
  BY <1>0, <1>11 DEF CallsInv
<1>12. ASSUME NEW p \in Peerings, Delete(p) \/ MarkDeleting(p) \/ MarkFailed(p) \/ Aged(p)
       PROVE  CallsInv'
  BY <1>11, <1>12 DEF Delete, MarkDeleting, MarkFailed, Aged, Store
<1>13. ASSUME NEW v \in VPCs, DeleteVPC(v) PROVE CallsInv'
  BY <1>11, <1>13 DEF DeleteVPC
<1> QED  BY <1>1, <1>3, <1>4, <1>5, <1>6, <1>8, <1>9, <1>10, <1>12, <1>13 DEF Next, ControllerNext

(* Every step keeps what was torn down out of the other two loops. *)
LEMMA StepTorn ==
    ASSUME IInv, Next
    PROVE  TornInv'
<1>0. TypeOK /\ CallsInv /\ TornInv
  BY DEF IInv
<1> USE DEF store, fabric
<1>1. CASE PassStart \/ NextStep
  <2>1. UNCHANGED <<state, torn, job>> /\ job = NoJob
    BY <1>0, <1>1 DEF PassStart, NextStep, CallsInv
  <2>2. step' = "deprovision" => left' = ListByState("deleting")
    BY <1>1 DEF PassStart, NextStep
  <2>3. \/ left' \subseteq ListByState("provisioning") \cup ListByState("failed")
        \/ step' = "deprovision"
    BY <1>1 DEF PassStart, NextStep
  <2> QED  BY <1>0, <2>1, <2>2, <2>3 DEF TornInv, ListByState
<1>2. ASSUME NEW p \in Peerings, VisitProvisioning(p) PROVE TornInv'
  <2>1. job' = NoJob \/ job'.p = p
    BY <1>2 DEF VisitProvisioning, ProvisionPeering, Work
  <2> QED  BY <1>0, <1>2, <2>1 DEF VisitProvisioning, Visit, TornInv
<1>3. ASSUME NEW p \in Peerings, VisitDeleting(p) PROVE TornInv'
  BY <1>0, <1>3 DEF VisitDeleting, Visit, TornInv
<1>4. ASSUME NEW p \in Peerings, VisitFailed(p) PROVE TornInv'
  <2>1. p \notin torn /\ step = "retry" /\ step' = "retry" /\ left' \subseteq left /\ torn' = torn /\ job = NoJob
    BY <1>0, <1>4 DEF VisitFailed, Visit, TornInv
  <2>2. job' = job \/ job'.p = p
    BY <1>4 DEF VisitFailed, WorkAfterReads
  <2>3. \A q \in Peerings : q # p => state'[q] = state[q]
    BY <1>0, <1>4 DEF VisitFailed, TypeOK
  <2> QED  BY <1>0, <2>1, <2>2, <2>3 DEF TornInv, TypeOK
<1>5. CASE RetryRead
  <2>1. job' = NoJob \/ job'.p = job.p
    BY <1>5 DEF RetryRead, ProvisionPeering, Work
  <2> QED  BY <1>0, <1>5, <2>1 DEF RetryRead, TornInv
<1>6. CASE MakeCall \/ CallFails
  <2>1. job # NoJob /\ (job' = NoJob \/ job'.p = job.p)
    BY <1>0, <1>6, JobTail DEF MakeCall, CallFails
  <2> QED  BY <1>0, <1>6, <2>1 DEF MakeCall, CallFails, TornInv
<1>7. CASE JobDone
  <2>1. CASE step = "deprovision"
    BY <1>0, <1>7, <2>1 DEF JobDone, TornInv
  <2>2. CASE step # "deprovision"
    <3>1. job.p \notin torn /\ \A q \in Peerings : q # job.p => state'[q] = state[q]
      BY <1>0, <1>7, <2>2 DEF JobDone, TornInv, TypeOK
    <3> QED  BY <1>0, <1>7, <2>2, <3>1 DEF JobDone, TornInv, TypeOK
  <2> QED  BY <2>1, <2>2
<1>8. ASSUME NEW p \in Peerings, Delete(p) \/ MarkDeleting(p) \/ MarkFailed(p) PROVE TornInv'
  <2>1. UNCHANGED <<step, left, job, torn>>
    BY <1>8 DEF Delete, MarkDeleting, MarkFailed, Store
  <2>2. \A q \in Peerings : state[q] \in {"deleting", "deleted"} => state'[q] \in {"deleting", "deleted"}
    BY <1>0, <1>8 DEF Delete, MarkDeleting, MarkFailed, Store, TypeOK
  <2> QED  BY <1>0, <2>1, <2>2 DEF TornInv, TypeOK
<1>9. ASSUME UNCHANGED <<state, step, left, job, torn>> PROVE TornInv'
  BY <1>0, <1>9 DEF TornInv
<1>10. ASSUME NEW p \in Peerings, Aged(p) PROVE TornInv'
  BY <1>9, <1>10 DEF Aged
<1>11. ASSUME NEW v \in VPCs, DeleteVPC(v) PROVE TornInv'
  BY <1>9, <1>11 DEF DeleteVPC
<1> QED  BY <1>1, <1>2, <1>3, <1>4, <1>5, <1>6, <1>7, <1>8, <1>10, <1>11 DEF Next, ControllerNext

(* A tear-down undoes nothing that is safe from it. *)
LEMMA CallKeepsSafe ==
    ASSUME IInv, MakeCall, NEW p \in Peerings, NEW c \in Needed(p), Safe(p, c), Done(c),
           step = "deprovision" => p \notin torn
    PROVE  Done(c)'
<1>0. TypeOK /\ CallsInv /\ c \in Calls
  BY ProvisionCallsProperties, ValuesType DEF IInv, Needed, Values
<1>1. PICK d \in Calls : d = Head(job.calls)
  BY <1>0, JobTail DEF MakeCall
<1>2. job.calls \in Seq(Calls) /\ job # NoJob /\ job.calls # <<>>
  BY <1>0 DEF MakeCall, TypeOK, Job
<1>3. \E i \in DOMAIN job.calls : job.calls[i] = d
  BY <1>1, <1>2, HeadOrTail, Zenon
<1>4. \/ Done(c)'
      \/ d.op = "remove_import" /\ c.op = "add_import" /\ c.vpc = d.vpc /\ c.of = d.of
      \/ d.op = "withdraw" /\ c.op # "add_import" /\ c.vpc = d.vpc
  BY <1>0, <1>1, CallEffect DEF MakeCall
<1>5. ASSUME d.op \in {"remove_import", "withdraw"}
      PROVE  /\ job.p \in torn \ {p}
             /\ \/ d.op = "remove_import" /\ {d.vpc, d.of} = Between(job.p)
                \/ d.op = "withdraw" /\ d.vpc \in Between(job.p)
  BY <1>0, <1>2, <1>3, <1>5 DEF CallsInv
<1> QED  BY <1>4, <1>5 DEF Safe

(* Every step keeps what was set up, or is being set up, in place. *)
LEMMA StepUp ==
    ASSUME IInv, Next
    PROVE  UpInv'
<1>0. TypeOK /\ CallsInv /\ TornInv /\ UpInv
  BY DEF IInv
<1> USE DEF store, fabric
(* Tear-downs are only added, so less is safe. *)
<1>t. torn \subseteq torn'
  BY DEF Next, ControllerNext, PassStart, NextStep, VisitProvisioning, VisitDeleting, VisitFailed,
         Visit, RetryRead, MakeCall, JobDone, CallFails, Delete, MarkDeleting, MarkFailed, Aged,
         Store, DeleteVPC
<1>s. \A p, c : Safe(p, c)' => Safe(p, c)
  BY <1>t DEF Safe
(* The first part, if the fabric is left alone and nobody becomes active. *)
<1>a. ASSUME UNCHANGED fabric, \A p \in Peerings : state'[p] = "active" => state[p] = "active"
      PROVE  \A p \in Peerings : state'[p] = "active" => \A c \in Needed(p) : Safe(p, c)' => Done(c)'
  BY <1>0, <1>a, <1>s DEF UpInv, Done
(* The second part, if visit and fabric are left alone. *)
<1>b. ASSUME UNCHANGED fabric, UNCHANGED <<job, step>>
      PROVE  (job # NoJob /\ step # "deprovision" /\ ~job.reads =>
                \A c \in Needed(job.p) : Safe(job.p, c) => Done(c) \/ ToMake(c))'
  <2>1. torn \subseteq torn'
    BY <1>t
  <2> QED  BY <1>0, <1>b, <2>1 DEF UpInv, Done, ToMake, Safe, Needed
<1>1. CASE PassStart \/ NextStep
  <2>1. UNCHANGED <<state, fabric, job>> /\ job = NoJob
    BY <1>0, <1>1 DEF PassStart, NextStep, CallsInv
  <2> QED  BY <1>a, <2>1 DEF UpInv
<1>2. ASSUME NEW p \in Peerings, ProvisionPeering(p), UNCHANGED fabric, UNCHANGED state PROVE UpInv'
  <2>1. CASE job' = NoJob
    BY <1>2, <1>a, <2>1 DEF UpInv
  <2>2. CASE job' = Work(p, ProvisionCalls(p))
    <3>1. job'.p = p /\ job'.calls = ProvisionCalls(p)
      BY <2>2 DEF Work
    <3>2. \A c \in Needed(p) : ToMake(c)'
      BY <3>1 DEF Needed, ToMake
    <3> QED  BY <1>2, <1>a, <3>1, <3>2 DEF UpInv
  <2> QED  BY <1>2, <2>1, <2>2 DEF ProvisionPeering
<1>3. ASSUME NEW p \in Peerings, VisitProvisioning(p) PROVE UpInv'
  BY <1>2, <1>3 DEF VisitProvisioning, Visit
<1>4. ASSUME NEW p \in Peerings, VisitDeleting(p) PROVE UpInv'
  BY <1>4, <1>a DEF VisitDeleting, Visit, UpInv
<1>5. ASSUME NEW p \in Peerings, VisitFailed(p) PROVE UpInv'
  <2>1. \A q \in Peerings : state'[q] = "active" => state[q] = "active"
    BY <1>0, <1>5 DEF VisitFailed, TypeOK
  <2>2. job = NoJob /\ (job' = job \/ job'.reads) /\ UNCHANGED fabric
    BY <1>5 DEF VisitFailed, Visit, WorkAfterReads
  <2> QED  BY <1>a, <2>1, <2>2 DEF UpInv
<1>6. CASE RetryRead
  <2>1. job.p \in Peerings
    BY <1>0, <1>6 DEF RetryRead, TypeOK, Job
  <2> QED  BY <1>2, <1>6, <2>1 DEF RetryRead
<1>7. CASE MakeCall
  <2>0. /\ job \in Job /\ job.calls \in Seq(Calls) /\ job # NoJob /\ job.calls # <<>>
        /\ Head(job.calls) \in Calls /\ UNCHANGED <<state, step, torn>>
    BY <1>0, <1>7, JobTail DEF MakeCall, Job
  <2>1. job'.p = job.p /\ job'.reads = job.reads /\ job'.calls = Tail(job.calls)
    BY <1>0, <1>7, JobTail DEF MakeCall
  <2>2. ASSUME NEW p \in Peerings, state'[p] = "active", NEW c \in Needed(p), Safe(p, c)'
        PROVE  Done(c)'
    <3>1. state[p] = "active" /\ p \notin torn
      BY <1>0, <2>0, <2>2 DEF TornInv
    <3>2. Safe(p, c) /\ Done(c)
      BY <1>0, <1>s, <2>2, <3>1 DEF UpInv
    <3> QED  BY <1>7, <3>1, <3>2, CallKeepsSafe
  <2>3. ASSUME step # "deprovision", ~job.reads, NEW c \in Needed(job.p), Safe(job.p, c)'
        PROVE  Done(c)' \/ ToMake(c)'
    <3>1. job.p \in Peerings
      BY <2>0 DEF Job
    <3>2. Safe(job.p, c) /\ (Done(c) \/ ToMake(c))
      <4>1. Safe(job.p, c)
        BY <1>t, <2>1, <2>3 DEF Safe
      <4> QED  BY <1>0, <4>1, <2>0, <2>3 DEF UpInv
    <3>3. CASE Done(c)
      BY <1>7, <2>3, <3>1, <3>2, <3>3, CallKeepsSafe
    <3>4. CASE ToMake(c)
      <4>1. c = Head(job.calls) \/ \E j \in DOMAIN Tail(job.calls) : Tail(job.calls)[j] = c
        <5>1. \A i \in DOMAIN job.calls : \/ job.calls[i] = Head(job.calls)
                                          \/ \E j \in DOMAIN Tail(job.calls) : Tail(job.calls)[j] = job.calls[i]
          BY <2>0, HeadOrTail, Zenon
        <5> QED  BY <3>4, <5>1 DEF ToMake
      <4>2. CASE c = Head(job.calls)
        <5>1. c.op \in {"add_import", "inject"}
          BY <3>1, ProvisionCallsProperties DEF Call
        <5> QED  BY <1>0, <1>7, <2>0, <4>2, <5>1, CallEffect DEF MakeCall
      <4> QED  BY <2>1, <4>1, <4>2 DEF ToMake
    <3> QED  BY <3>2, <3>3, <3>4
  <2> QED  BY <2>0, <2>1, <2>2, <2>3 DEF UpInv
<1>8. CASE CallFails
  <2>1. UNCHANGED <<state, fabric, step>> /\ (job' = NoJob \/ step = "deprovision")
    BY <1>8 DEF CallFails
  <2> QED  BY <1>a, <2>1 DEF UpInv
<1>9. CASE JobDone
  <2>1. CASE step = "deprovision"
    BY <1>9, <1>a, <2>1 DEF JobDone, UpInv
  <2>2. CASE step # "deprovision"
    <3>1. /\ job' = NoJob /\ UNCHANGED fabric /\ job.p \in Peerings
          /\ \A q \in Peerings : q # job.p => state'[q] = state[q]
      BY <1>0, <1>9, <2>2 DEF JobDone, TypeOK, Job
    <3>2. \A c : ~ToMake(c)
      BY <1>9 DEF JobDone, ToMake
    <3>3. \A c \in Needed(job.p) : Safe(job.p, c) => Done(c)
      BY <1>0, <1>9, <2>2, <3>2 DEF JobDone, UpInv
    <3>4. \A c : Done(c)' = Done(c)
      BY <3>1 DEF Done
    <3> QED  BY <1>0, <1>s, <3>1, <3>3, <3>4 DEF UpInv
  <2> QED  BY <2>1, <2>2
<1>10. ASSUME NEW p \in Peerings, Delete(p) \/ MarkDeleting(p) \/ MarkFailed(p) \/ Aged(p) PROVE UpInv'
  <2>1. UNCHANGED <<fabric, job, step>>
    BY <1>10 DEF Delete, MarkDeleting, MarkFailed, Aged, Store
  <2>2. \A q \in Peerings : state'[q] = "active" => state[q] = "active"
    BY <1>0, <1>10 DEF Delete, MarkDeleting, MarkFailed, Aged, Store, TypeOK
  <2> QED  BY <1>a, <1>b, <2>1, <2>2 DEF UpInv
<1>11. ASSUME NEW v \in VPCs, DeleteVPC(v) PROVE UpInv'
  <2>1. UNCHANGED <<state, fabric, job, step>>
    BY <1>11 DEF DeleteVPC
  <2> QED  BY <1>a, <1>b, <2>1 DEF UpInv
<1> QED  BY <1>1, <1>3, <1>4, <1>5, <1>6, <1>7, <1>8, <1>9, <1>10, <1>11 DEF Next, ControllerNext

-----------------------------------------------------------------------------
(* Every step, and the stuttering step, preserves the invariant. *)
LEMMA Step == IInv /\ [Next]_vars => IInv'
<1> SUFFICES ASSUME IInv, [Next]_vars PROVE IInv'
  OBVIOUS
<1>1. CASE UNCHANGED vars
  BY <1>1 DEF vars, IInv, TypeOK, CallsInv, TornInv, UpInv, Safe, Done, ToMake
<1>2. CASE Next
  BY <1>2, StepType, StepCalls, StepTorn, StepUp DEF IInv
<1> QED  BY <1>1, <1>2

(* The inductive invariant: what was torn down never comes back, and an    *)
(* active peering has every call of its provisioning in the fabric that no *)
(* tear-down of another peering undoes.                                    *)
THEOREM Inductive == Spec => []IInv
BY Initial, Step, PTL DEF Spec

(* Type correctness. *)
THEOREM TypeCorrect == Spec => []TypeOK
<1>1. IInv => TypeOK
  BY DEF IInv
<1> QED  BY <1>1, Inductive, PTL

(* The controller keeps active peerings reachable while it tears down,     *)
(* retries and fails on others.                                            *)
THEOREM ActiveReachableHolds == Spec => []ActiveReachable
<1>1. ASSUME IInv PROVE ActiveReachable
  <2> SUFFICES ASSUME NEW p \in Peerings, state[p] = "active"
               PROVE  /\ (\A q \in torn \ {p} : ~SamePair(p, q))
                           => /\ imports[Requester[p]][Accepter[p]] > 0
                              /\ imports[Accepter[p]][Requester[p]] > 0
                      /\ \A v \in Announced(p) :
                           (\A q \in torn \ {p} : v \notin Between(q)) => injected[v] > 0
    BY DEF ActiveReachable
  <2>1. \A c \in Needed(p) : Safe(p, c) => Done(c)
    BY <1>1 DEF IInv, UpInv
  <2>2. /\ Call("add_import", Requester[p], Accepter[p]) \in Needed(p)
        /\ Call("add_import", Accepter[p], Requester[p]) \in Needed(p)
        /\ \A v \in Announced(p) : Call("inject", v, v) \in Needed(p)
    BY ProvisionCallsProperties
  <2>3. ASSUME \A q \in torn \ {p} : ~SamePair(p, q)
        PROVE  /\ imports[Requester[p]][Accepter[p]] > 0
               /\ imports[Accepter[p]][Requester[p]] > 0
    <3>1. /\ Safe(p, Call("add_import", Requester[p], Accepter[p]))
          /\ Safe(p, Call("add_import", Accepter[p], Requester[p]))
      BY <2>3 DEF Safe, Call, SamePair, Between
    <3> QED  BY <2>1, <2>2, <3>1 DEF Done, Call
  <2>4. ASSUME NEW v \in Announced(p), \A q \in torn \ {p} : v \notin Between(q)
        PROVE  injected[v] > 0
    <3>1. Safe(p, Call("inject", v, v))
      BY <2>4 DEF Safe, Call
    <3> QED  BY <2>1, <2>2, <3>1 DEF Done, Call
  <2> QED  BY <2>3, <2>4
<1> QED  BY <1>1, Inductive, PTL
=============================================================================
