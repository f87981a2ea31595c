-------------------------- MODULE RouteTableProofs --------------------------
(* Proofs of the route store and of the settings of peerings, for any      *)
(* peerings, requests, blocks and policies, and for both peering stores.   *)
EXTENDS RouteTable, PrefixesProofs, FiniteSetTheorems, WellFoundedInduction

(* What OneRoutePerPrefix says of the entries of one peering. *)
Unique(s) == \A i, j \in DOMAIN s : i # j => s[i].prefix # s[j].prefix

-----------------------------------------------------------------------------
(* The route store. *)

(* The elements of a sequence are of its type. *)
LEMMA Elements ==
    ASSUME NEW S, NEW s \in Seq(S)
    PROVE  /\ Len(s) \in Nat /\ DOMAIN s = 1..Len(s) /\ s \in [1..Len(s) -> S]
           /\ \A i \in DOMAIN s : s[i] \in S
BY LenProperties, ElementOfSeq

(* IndexOf finds the entry of a prefix that has one. *)
LEMMA IndexOfProperties ==
    ASSUME NEW s \in Seq(RouteEntry), Unique(s), NEW prefix, Has(s, prefix)
    PROVE  IndexOf(s, prefix) \in DOMAIN s /\ s[IndexOf(s, prefix)].prefix = prefix
<1>1. PICK i \in DOMAIN s : s[i].prefix = prefix
  BY DEF Has
<1>2. Len(s) \in Nat /\ DOMAIN s = 1..Len(s)
  BY Elements
<1>3. \A j \in 1..(i - 1) : j \in DOMAIN s /\ j # i
  BY <1>2
<1>4. \A j \in 1..(i - 1) : s[j].prefix # prefix
  BY <1>1, <1>3 DEF Unique
<1> QED  BY <1>1, <1>4 DEF IndexOf

(* UpsertRoute stores its entry and loses no prefix and doubles none. *)
LEMMA UpsertProperties ==
    ASSUME NEW s \in Seq(RouteEntry), Unique(s), NEW e \in RouteEntry
    PROVE  /\ Upsert(s, e) \in Seq(RouteEntry)
           /\ Unique(Upsert(s, e))
           /\ Has(Upsert(s, e), e.prefix)
           /\ \A b : Has(s, b) => Has(Upsert(s, e), b)
<1>0. Len(s) \in Nat /\ DOMAIN s = 1..Len(s)
  BY Elements
<1>1. CASE Has(s, e.prefix)
  <2>1. PICK k \in DOMAIN s : k = IndexOf(s, e.prefix) /\ s[k].prefix = e.prefix
    BY <1>1, IndexOfProperties
  <2>2. PICK t : t = [s EXCEPT ![k] = e]
    OBVIOUS
  <2>3. Upsert(s, e) = t
    BY <1>1, <2>1, <2>2 DEF Upsert
  <2>4. t \in Seq(RouteEntry)
    BY <2>1, <2>2
  <2>5. DOMAIN t = DOMAIN s /\ \A i \in DOMAIN s : t[i].prefix = s[i].prefix
    BY <2>1, <2>2
  <2>6. Unique(t)
    BY <2>5 DEF Unique
  <2>7. \A b : Has(s, b) => Has(t, b)
    BY <2>5 DEF Has
  <2> QED  BY <1>1, <2>3, <2>4, <2>6, <2>7
<1>2. CASE ~Has(s, e.prefix)
  <2>1. PICK t : t = Append(s, e)
    OBVIOUS
  <2>2. Upsert(s, e) = t
    BY <1>2, <2>1 DEF Upsert
  <2>3. /\ t \in Seq(RouteEntry) /\ Len(t) = Len(s) + 1
        /\ \A i \in 1..Len(s) : t[i] = s[i]
        /\ t[Len(s) + 1] = e
    BY <2>1, AppendProperties
  <2>4. DOMAIN t = 1..(Len(s) + 1)
    BY <2>3, Elements
  <2>5. Unique(t)
    <3> SUFFICES ASSUME NEW i \in DOMAIN t, NEW j \in DOMAIN t, i # j
                 PROVE  t[i].prefix # t[j].prefix
      BY DEF Unique
    <3>1. CASE i \in DOMAIN s /\ j \in DOMAIN s
      BY <1>0, <2>3, <3>1 DEF Unique
    <3>2. CASE i \in DOMAIN s /\ j = Len(s) + 1
      BY <1>0, <1>2, <2>3, <3>2 DEF Has
    <3>3. CASE j \in DOMAIN s /\ i = Len(s) + 1
      BY <1>0, <1>2, <2>3, <3>3 DEF Has
    <3> QED  BY <1>0, <2>4, <3>1, <3>2, <3>3
  <2>6. Len(s) + 1 \in DOMAIN t /\ DOMAIN s \subseteq DOMAIN t
    BY <1>0, <2>4
  <2>7. Has(t, e.prefix) /\ \A b : Has(s, b) => Has(t, b)
    BY <1>0, <2>3, <2>6 DEF Has
  <2> QED  BY <2>2, <2>3, <2>5, <2>7
<1> QED  BY <1>1, <1>2

(* DeleteRoute removes its prefix and no other. *)
LEMMA DeleteRouteProperties ==
    ASSUME NEW s \in Seq(RouteEntry), Unique(s), NEW prefix
    PROVE  /\ DeleteRoute(s, prefix) \in Seq(RouteEntry)
           /\ Unique(DeleteRoute(s, prefix))
           /\ ~Has(DeleteRoute(s, prefix), prefix)
           /\ \A b : Has(s, b) => b = prefix \/ Has(DeleteRoute(s, prefix), b)
<1>0. Len(s) \in Nat /\ DOMAIN s = 1..Len(s) /\ \A i \in 1..Len(s) : s[i] \in RouteEntry
  BY Elements
<1>1. CASE ~Has(s, prefix)
  BY <1>1 DEF DeleteRoute
<1>2. CASE Has(s, prefix)
  <2>1. PICK k \in DOMAIN s : k = IndexOf(s, prefix) /\ s[k].prefix = prefix
    BY <1>2, IndexOfProperties
  <2>2. k \in 1..Len(s)
    BY <1>0
  <2>3. PICK u : u = SubSeq(s, 1, k - 1)
    OBVIOUS
  <2>4. PICK v : v = SubSeq(s, k + 1, Len(s))
    OBVIOUS
  <2>5. PICK t : t = u \o v
    OBVIOUS
  <2>6. DeleteRoute(s, prefix) = t
    BY <1>2, <2>1, <2>3, <2>4, <2>5 DEF DeleteRoute
  <2>7. /\ u \in Seq(RouteEntry) /\ Len(u) = k - 1
        /\ \A i \in 1..(k - 1) : u[i] = s[i]
    <3>1. /\ 1 \in Int /\ k - 1 \in Int /\ \A i \in 1..(k - 1) : s[i] \in RouteEntry
      BY <1>0, <2>2
    <3>2. /\ u \in Seq(RouteEntry)
          /\ Len(u) = IF 1 <= k - 1 THEN (k - 1) - 1 + 1 ELSE 0
          /\ \A i \in 1..((k - 1) - 1 + 1) : u[i] = s[1 + i - 1]
      BY <2>3, <3>1, SubSeqProperties
    <3> QED  BY <1>0, <2>2, <3>2
  <2>8. /\ v \in Seq(RouteEntry) /\ Len(v) = Len(s) - k
        /\ \A i \in 1..(Len(s) - k) : v[i] = s[k + i]
    <3>1. /\ k + 1 \in Int /\ Len(s) \in Int
          /\ \A i \in (k + 1)..Len(s) : s[i] \in RouteEntry
      BY <1>0, <2>2
    <3>2. /\ v \in Seq(RouteEntry)
          /\ Len(v) = IF k + 1 <= Len(s) THEN Len(s) - (k + 1) + 1 ELSE 0
          /\ \A i \in 1..(Len(s) - (k + 1) + 1) : v[i] = s[(k + 1) + i - 1]
      BY <2>4, <3>1, SubSeqProperties
    <3>3. Len(v) = Len(s) - k /\ Len(s) - (k + 1) + 1 = Len(s) - k
      BY <1>0, <2>2, <3>2
    <3>4. \A i \in 1..(Len(s) - k) : (k + 1) + i - 1 = k + i
      BY <1>0, <2>2
    <3> QED  BY <3>2, <3>3, <3>4
  <2>9. /\ t \in Seq(RouteEntry) /\ Len(t) = Len(u) + Len(v)
        /\ \A i \in 1..(Len(u) + Len(v)) :
              t[i] = IF i <= Len(u) THEN u[i] ELSE v[i - Len(u)]
    BY <2>5, <2>7, <2>8, ConcatProperties
  <2>10. DOMAIN t = 1..(Len(s) - 1)
    BY <1>0, <2>2, <2>7, <2>8, <2>9, Elements
  <2>11. \A i \in DOMAIN t : t[i] = IF i < k THEN s[i] ELSE s[i + 1]
    <3> TAKE i \in DOMAIN t
    <3>1. i \in 1..(Len(u) + Len(v)) /\ i \in Nat /\ (i <= Len(u) <=> i < k)
      BY <1>0, <2>2, <2>7, <2>8, <2>10
    <3>2. CASE i < k
      BY <1>0, <2>2, <2>7, <2>9, <3>1, <3>2
    <3>3. CASE ~(i < k)
      <4>1. i - Len(u) \in 1..(Len(s) - k) /\ k + (i - Len(u)) = i + 1
        BY <1>0, <2>2, <2>7, <2>10, <3>3
      <4>2. t[i] = v[i - Len(u)]
        BY <2>9, <3>1, <3>3
      <4> QED  BY <2>8, <3>3, <4>1, <4>2
    <3> QED  BY <3>2, <3>3
  <2>12. Unique(t)
    BY <1>0, <2>2, <2>10, <2>11 DEF Unique
  <2>13. ~Has(t, prefix)
    BY <1>0, <2>1, <2>2, <2>10, <2>11 DEF Has, Unique
  <2>14. ASSUME NEW b, Has(s, b), b # prefix PROVE Has(t, b)
    <3>1. PICK i \in DOMAIN s : s[i].prefix = b /\ i # k
      BY <2>1, <2>14 DEF Has
    <3>2. CASE i < k
      BY <1>0, <2>2, <2>10, <2>11, <3>1, <3>2 DEF Has
    <3>3. CASE i > k
      <4>1. i - 1 \in DOMAIN t /\ t[i - 1] = s[i]
        BY <1>0, <2>2, <2>10, <2>11, <3>1, <3>3
      <4> QED  BY <3>1, <4>1 DEF Has
    <3> QED  BY <1>0, <2>2, <3>1, <3>2, <3>3
  <2> QED  BY <2>6, <2>9, <2>12, <2>13, <2>14
<1> QED  BY <1>1, <1>2

-----------------------------------------------------------------------------
(* Requests and copies. *)

Request == UpdateRequest \cup OverrideRequest \cup EffectiveRequest

(* A request has the fields of its kind. *)
LEMMA RequestKinds ==
    ASSUME TypeOK, NEW r \in Requests
    PROVE  /\ At(r, "update") => reqs[r] \in UpdateRequest
           /\ At(r, "add_static") \/ At(r, "withdraw") => reqs[r] \in OverrideRequest
           /\ At(r, "effective") => reqs[r] \in EffectiveRequest
<1>1. reqs[r] \in Request \cup {NoRequest}
  BY DEF TypeOK, Request
<1>2. reqs[r] \in UpdateRequest => reqs[r].op = "update"
  BY DEF UpdateRequest
<1>3. reqs[r] \in OverrideRequest => reqs[r].op \in {"add_static", "withdraw"}
  BY DEF OverrideRequest
<1>4. reqs[r] \in EffectiveRequest => reqs[r].op = "effective"
  BY DEF EffectiveRequest
<1> QED  BY <1>1, <1>2, <1>3, <1>4 DEF At, Free, Request

(* Get returns the stored row or nothing. *)
LEMMA GetProperties ==
    ASSUME TypeOK, NEW p \in Peerings, Get(p) # NoRow
    PROVE  Get(p) = peerings[p] /\ Get(p) \in Row
BY DEF Get, TypeOK

(* Settings are a record, and so a function on the names of its fields. *)
LEMMA SettingsFields ==
    /\ \A s \in Settings : s["direction"] \in Directions /\ s["policy"] \in Policies
    /\ \A d \in Directions, q \in Policies :
          \A s : s = [f \in Fields |-> IF f = "direction" THEN d ELSE q] => s \in Settings
BY DEF Settings, Fields

(* Update edits the given fields of the settings and no others. *)
LEMMA EditedProperties ==
    ASSUME NEW settings \in Settings, NEW given \in Bodies
    PROVE  /\ Edited(settings, given) \in Settings
           /\ DOMAIN given \subseteq Fields
           /\ \A f \in Fields :
                 Edited(settings, given)[f] = IF f \in DOMAIN given THEN given[f] ELSE settings[f]
<1>1. PICK F \in SUBSET Fields, s \in Settings : given = [f \in F |-> s[f]]
  BY BodiesAssumption
<1>2. \A f \in Fields : Edited(settings, given)[f] = IF f \in DOMAIN given THEN given[f] ELSE settings[f]
  BY DEF Edited
<1>3. DOMAIN given = F /\ \A f \in F : given[f] = s[f]
  BY <1>1
<1>4. PICK d : d = Edited(settings, given)["direction"]
  OBVIOUS
<1>5. PICK q : q = Edited(settings, given)["policy"]
  OBVIOUS
<1>6. d \in Directions /\ q \in Policies
  BY <1>2, <1>3, <1>4, <1>5, SettingsFields DEF Fields
<1>7. Edited(settings, given) = [f \in Fields |-> IF f = "direction" THEN d ELSE q]
  <2>1. \A f \in Fields : (IF f = "direction" THEN d ELSE q) = IF f \in DOMAIN given THEN given[f] ELSE settings[f]
    BY <1>2, <1>4, <1>5 DEF Fields
  <2> QED  BY <2>1 DEF Edited
<1>8. Edited(settings, given) \in Settings
  BY <1>6, <1>7, SettingsFields
<1> QED  BY <1>2, <1>3, <1>8

(* A VPC's blocks become one direct entry each. *)
LEMMA DirectType ==
    ASSUME NEW vpc \in {"requester", "accepter"}, NEW blocks \in Seq(Prefix)
    PROVE  /\ Direct(vpc, blocks) \in Seq(RouteEntry)
           /\ Len(Direct(vpc, blocks)) = Len(blocks)
           /\ \A i \in DOMAIN blocks : Direct(vpc, blocks)[i].prefix = blocks[i]
<1>1. Len(blocks) \in Nat /\ DOMAIN blocks = 1..Len(blocks) /\ \A i \in DOMAIN blocks : blocks[i] \in Prefix
  BY Elements
<1>2. PICK t : t = Direct(vpc, blocks)
  OBVIOUS
<1>3. t = [i \in 1..Len(blocks) |-> [prefix |-> blocks[i], vpc |-> vpc, origin |-> "direct"]]
  BY <1>1, <1>2 DEF Direct
<1>4. \A i \in 1..Len(blocks) : [prefix |-> blocks[i], vpc |-> vpc, origin |-> "direct"] \in RouteEntry
  BY <1>1 DEF RouteEntry
<1>5. t \in [1..Len(blocks) -> RouteEntry]
  BY <1>3, <1>4
<1>6. t \in Seq(RouteEntry) /\ Len(t) = Len(blocks)
  BY <1>1, <1>5
<1> QED  BY <1>1, <1>2, <1>3, <1>6

(* The provisioner stores the accepter's blocks, whatever the direction. *)
LEMMA ExportedProperties ==
    ASSUME NEW p \in Peerings, NEW direction
    PROVE  /\ Exported(p, direction) \in Seq(RouteEntry)
           /\ \A b \in Values(AccepterBlocks[p]) : Has(Exported(p, direction), b)
<1>1. AccepterBlocks[p] \in Seq(Prefix) /\ RequesterBlocks[p] \in Seq(Prefix)
  BY BlocksAssumption
<1>2. PICK s \in Seq(RouteEntry) : s = Direct("accepter", AccepterBlocks[p])
  BY <1>1, DirectType
<1>3. PICK t \in Seq(RouteEntry) :
          t = IF direction \in {"bidirectional", "accepter_to_requester"}
              THEN Direct("requester", RequesterBlocks[p]) ELSE <<>>
  <2>1. Direct("requester", RequesterBlocks[p]) \in Seq(RouteEntry)
    BY <1>1, DirectType
  <2>2. <<>> \in Seq(RouteEntry)
    OBVIOUS
  <2> QED  BY <2>1, <2>2, Zenon
<1>4. Exported(p, direction) = s \o t
  BY <1>2, <1>3 DEF Exported
<1>5. /\ s \o t \in Seq(RouteEntry) /\ Len(s \o t) = Len(s) + Len(t)
      /\ \A i \in 1..(Len(s) + Len(t)) :
            (s \o t)[i] = IF i <= Len(s) THEN s[i] ELSE t[i - Len(s)]
  BY ConcatProperties
<1>6. Len(s) \in Nat /\ Len(t) \in Nat /\ DOMAIN (s \o t) = 1..(Len(s) + Len(t))
  BY <1>5, Elements
<1>7. /\ Len(s) = Len(AccepterBlocks[p]) /\ DOMAIN AccepterBlocks[p] = 1..Len(AccepterBlocks[p])
      /\ \A i \in DOMAIN AccepterBlocks[p] : s[i].prefix = AccepterBlocks[p][i]
  BY <1>1, <1>2, DirectType, Elements
<1>8. ASSUME NEW i \in DOMAIN AccepterBlocks[p]
      PROVE  i \in DOMAIN (s \o t) /\ (s \o t)[i].prefix = AccepterBlocks[p][i]
  BY <1>5, <1>6, <1>7
<1>9. \A b \in Values(AccepterBlocks[p]) : Has(s \o t, b)
  BY <1>8 DEF Values, Has
<1> QED  BY <1>4, <1>5, <1>9

-----------------------------------------------------------------------------
(* The inductive invariant. *)

Routed(p, b) == Has(routes[p], b) \/ <<p, b>> \in withdrawn

(* The provisioner has stored, or has yet to store, every block of the     *)
(* accepter; whoever holds a copy that says active read it when the routes *)
(* were there, and since then only withdrawals took any away.              *)
RoutedInv ==
    /\ job # NoJob =>
          \A b \in Values(AccepterBlocks[job.p]) : Routed(job.p, b) \/ Has(job.left, b)
    /\ \A r \in Requests : At(r, "update") /\ reqs[r].row.state = "active" =>
          \A b \in Values(AccepterBlocks[reqs[r].p]) : Routed(reqs[r].p, b)

(* A copy that is not stale has the settings of the store, up to what the *)
(* client gives.                                                          *)
CopyInv ==
    /\ job # NoJob /\ ~job.stale => job.row.settings = peerings[job.p].settings
    /\ \A r \in Requests : At(r, "update") => \A f \in Fields :
          IF f \in DOMAIN reqs[r].given
          THEN reqs[r].row.settings[f] = reqs[r].given[f]
          ELSE ~reqs[r].stale => reqs[r].row.settings[f] = peerings[reqs[r].p].settings[f]

IInv ==
    /\ TypeOK
    /\ OneRoutePerPrefix
    /\ RoutedInv
    /\ ActiveHasRoutes
    /\ CopyInv
    /\ SettingsKept

(* The invariant holds initially. *)
LEMMA Initial == Init => IInv
<1> SUFFICES ASSUME Init PROVE IInv
  OBVIOUS
<1>0. \A r \in Requests : reqs[r] = NoRequest
  BY DEF Init
<1>1. TypeOK
  <2>1. peerings \in [Peerings -> Row] /\ acked \in [Peerings -> Settings]
    BY DEF Init, Row
  <2>2. routes \in [Peerings -> Seq(RouteEntry)]
    BY DEF Init
  <2> QED  BY <2>1, <2>2 DEF Init, TypeOK
<1>2. OneRoutePerPrefix
  BY DEF Init, OneRoutePerPrefix
<1>3. RoutedInv /\ CopyInv
  BY <1>0 DEF Init, RoutedInv, CopyInv, At, Free
<1>4. ActiveHasRoutes
  BY DEF Init, ActiveHasRoutes
<1>5. SettingsKept
  BY DEF Init, SettingsKept
<1> QED  BY <1>1, <1>2, <1>3, <1>4, <1>5 DEF IInv

(* A step of one request leaves the others alone. *)
LEMMA RequestStep ==
    ASSUME TypeOK, NEW r \in Requests, NEW x \in Request \cup {NoRequest},
           reqs' = [reqs EXCEPT ![r] = x]
    PROVE  /\ reqs' \in [Requests -> Request \cup {NoRequest}]
           /\ reqs'[r] = x
           /\ \A q \in Requests : q # r => reqs'[q] = reqs[q]
BY DEF TypeOK, Request

(* Marking an update's copy stale changes nothing else of it. *)
LEMMA Outdated ==
    ASSUME NEW u \in UpdateRequest
    PROVE  /\ [u EXCEPT !.stale = TRUE] \in UpdateRequest
           /\ [u EXCEPT !.stale = TRUE].stale
           /\ [u EXCEPT !.stale = TRUE].op = u.op
           /\ [u EXCEPT !.stale = TRUE].p = u.p
           /\ [u EXCEPT !.stale = TRUE].row = u.row
           /\ [u EXCEPT !.stale = TRUE].given = u.given
BY DEF UpdateRequest

(* Marking the provisioner's copy stale changes nothing else of it. *)
LEMMA OutdatedJob ==
    ASSUME NEW j \in Job
    PROVE  /\ [j EXCEPT !.stale = TRUE] \in Job
           /\ [j EXCEPT !.stale = TRUE].stale
           /\ [j EXCEPT !.stale = TRUE].p = j.p
           /\ [j EXCEPT !.stale = TRUE].row = j.row
           /\ [j EXCEPT !.stale = TRUE].left = j.left
BY DEF Job

-----------------------------------------------------------------------------
(* Every step keeps the types. *)

(* What an Update holds after its read. *)
LEMMA UpdateReadRequest ==
    ASSUME TypeOK, NEW p \in Peerings, NEW given \in Bodies, Get(p) # NoRow,
           NEW u, u = [op |-> "update", p |-> p, stale |-> FALSE, given |-> given,
                       row |-> [Get(p) EXCEPT !.settings = Edited(@, given)]]
    PROVE  /\ u \in UpdateRequest
           /\ u.op = "update" /\ u.p = p /\ ~u.stale /\ u.given = given
           /\ u.row.state = peerings[p].state
           /\ u.row.settings = Edited(peerings[p].settings, given)
<1>1. PICK g \in Row : g = Get(p) /\ g = peerings[p]
  BY GetProperties
<1>2. PICK e \in Settings : e = Edited(g.settings, given)
  BY EditedProperties DEF Row
<1>3. PICK w \in Row : w = [g EXCEPT !.settings = e] /\ w.state = g.state /\ w.settings = e
  <2>1. [g EXCEPT !.settings = e] \in Row
    BY DEF Row
  <2>2. [g EXCEPT !.settings = e].state = g.state /\ [g EXCEPT !.settings = e].settings = e
    BY DEF Row
  <2> QED  BY <2>1, <2>2, Zenon
<1>4. u = [op |-> "update", p |-> p, stale |-> FALSE, given |-> given, row |-> w]
  BY <1>1, <1>2, <1>3
<1>5. u \in UpdateRequest
  BY <1>4 DEF UpdateRequest
<1>6. u.op = "update" /\ u.p = p /\ u.given = given /\ u.row = w
  BY <1>4
<1>7. ~u.stale
  BY <1>4
<1> QED  BY <1>1, <1>2, <1>3, <1>5, <1>6, <1>7

(* A route override's request has its type. *)
LEMMA OverrideRequestType ==
    ASSUME NEW p \in Peerings, NEW action \in {"add_static", "withdraw"}, NEW prefix \in OverridePrefixes
    PROVE  [op |-> action, p |-> p, prefix |-> prefix] \in OverrideRequest
BY DEF OverrideRequest

(* An effective-routes request has its type. *)
LEMMA EffectiveRequestType ==
    ASSUME NEW S \in SUBSET Peerings, NEW g \in [S -> Policies]
    PROVE  [op |-> "effective", listed |-> g] \in EffectiveRequest
BY DEF EffectiveRequest

(* The requests and the job after a write of p outdates the copies. *)
LEMMA OutdateEffect ==
    ASSUME TypeOK, NEW p, NEW q \in Requests, At(q, "update"), NEW u,
           u = IF At(q, "update") /\ reqs[q].p = p THEN [reqs[q] EXCEPT !.stale = TRUE] ELSE reqs[q]
    PROVE  /\ u \in UpdateRequest
           /\ u.op = "update" /\ u.p = reqs[q].p /\ u.row = reqs[q].row /\ u.given = reqs[q].given
           /\ IF u.p = p THEN u.stale ELSE u = reqs[q]
<1>1. PICK w \in UpdateRequest : w = reqs[q]
  BY RequestKinds
<1>2. w.op = "update"
  BY DEF UpdateRequest
<1>3. CASE w.p = p
  BY <1>1, <1>2, <1>3, Outdated
<1>4. CASE w.p # p
  BY <1>1, <1>2, <1>4
<1> QED  BY <1>3, <1>4

(* Marking copies stale keeps the requests' type. *)
LEMMA OutdateType ==
    ASSUME TypeOK, NEW p, reqs' = [q \in Requests |-> reqs'[q]],
           \A q \in Requests :
              \/ reqs'[q] = NoRequest
              \/ reqs'[q] = IF At(q, "update") /\ reqs[q].p = p
                           THEN [reqs[q] EXCEPT !.stale = TRUE] ELSE reqs[q]
    PROVE  reqs' \in [Requests -> Request \cup {NoRequest}]
<1> SUFFICES ASSUME NEW q \in Requests PROVE reqs'[q] \in Request \cup {NoRequest}
  OBVIOUS
<1>1. CASE At(q, "update")
  BY <1>1, OutdateEffect DEF Request
<1>2. CASE ~At(q, "update")
  BY <1>2 DEF TypeOK, Request
<1> QED  BY <1>1, <1>2

(* The write of an Update keeps the types. *)
LEMMA UpdateWriteType ==
    ASSUME TypeOK, NEW r \in Requests, UpdateWrite(r)
    PROVE  TypeOK'
<1>1. PICK u \in UpdateRequest : u = reqs[r]
  BY RequestKinds DEF UpdateWrite
<1>2. u.p \in Peerings /\ u.row \in Row /\ u.given \in Bodies
  BY DEF UpdateRequest
<1>3. /\ peerings' = [peerings EXCEPT ![u.p] = u.row]
      /\ acked' = [acked EXCEPT ![u.p] = Edited(@, u.given)]
      /\ overrun' = [overrun EXCEPT ![u.p] = (IF u.stale THEN Fields ELSE @) \ DOMAIN u.given]
      /\ FinishAndOutdate(r, u.p)
      /\ UNCHANGED <<routes, announced, withdrawn>>
  BY <1>1 DEF UpdateWrite
<1>4. peerings' \in [Peerings -> Row]
  BY <1>2, <1>3 DEF TypeOK
<1>5. acked' \in [Peerings -> Settings]
  <2>1. Edited(acked[u.p], u.given) \in Settings
    BY <1>2, EditedProperties DEF TypeOK
  <2> QED  BY <1>2, <1>3, <2>1 DEF TypeOK
<1>6. overrun' \in [Peerings -> SUBSET Fields]
  BY <1>2, <1>3 DEF TypeOK
<1>7. reqs' \in [Requests -> Request \cup {NoRequest}]
  <2>1. reqs' = [q \in Requests |->
                      IF q = r THEN NoRequest
                      ELSE IF At(q, "update") /\ reqs[q].p = u.p THEN [reqs[q] EXCEPT !.stale = TRUE]
                      ELSE reqs[q]]
    BY <1>3 DEF FinishAndOutdate
  <2> QED  BY <2>1, OutdateType
<1>8. job' \in Job \cup {NoJob}
  BY <1>3, OutdatedJob DEF FinishAndOutdate, TypeOK
<1> QED  BY <1>3, <1>4, <1>5, <1>6, <1>7, <1>8 DEF TypeOK, Request

(* The provisioner's last write keeps the types. *)
LEMMA ActivateType ==
    ASSUME TypeOK, Activate
    PROVE  TypeOK'
<1>1. PICK j \in Job : j = job
  BY DEF TypeOK, Activate
<1>2. j.p \in Peerings /\ [j.row EXCEPT !.state = "active"] \in Row
  BY DEF Job, Row
<1>3. /\ peerings' = [peerings EXCEPT ![j.p] = [j.row EXCEPT !.state = "active"]]
      /\ overrun' = [overrun EXCEPT ![j.p] = IF j.stale THEN Fields ELSE @]
      /\ job' = NoJob
      /\ UNCHANGED <<routes, announced, acked, withdrawn>>
  BY <1>1 DEF Activate
<1>4. peerings' \in [Peerings -> Row] /\ overrun' \in [Peerings -> SUBSET Fields]
  BY <1>2, <1>3 DEF TypeOK
<1>5. reqs' \in [Requests -> Request \cup {NoRequest}]
  <2>1. reqs' = [q \in Requests |->
                      IF At(q, "update") /\ reqs[q].p = j.p THEN [reqs[q] EXCEPT !.stale = TRUE]
                      ELSE reqs[q]]
    BY <1>1 DEF Activate
  <2> QED  BY <2>1, OutdateType
<1> QED  BY <1>3, <1>4, <1>5 DEF TypeOK, Request

(* Every step keeps the types. *)
LEMMA StepType ==
    ASSUME TypeOK, OneRoutePerPrefix, Next
    PROVE  TypeOK'
<1> USE DEF Request
<1>u. \A p \in Peerings : routes[p] \in Seq(RouteEntry) /\ Unique(routes[p])
  BY DEF TypeOK, OneRoutePerPrefix, Unique
<1>n. NoRequest \in Request \cup {NoRequest}
  OBVIOUS
<1>1. ASSUME NEW r \in Requests, NEW p \in Peerings, NEW given \in Bodies, UpdateRead(r, p, given)
      PROVE  TypeOK'
  <2>0. PICK u : u = [op |-> "update", p |-> p, stale |-> FALSE, given |-> given,
                      row |-> [Get(p) EXCEPT !.settings = Edited(@, given)]]
    OBVIOUS
  <2>1. u \in UpdateRequest
    <3>1. Get(p) # NoRow
      BY <1>1 DEF UpdateRead
    <3> QED  BY <2>0, <3>1, UpdateReadRequest
  <2>2. reqs' = [reqs EXCEPT ![r] = u]
    BY <1>1, <2>0 DEF UpdateRead
  <2> QED  BY <1>1, <2>1, <2>2, RequestStep DEF UpdateRead, TypeOK
<1>2. ASSUME NEW r \in Requests, UpdateWrite(r) PROVE TypeOK'
  BY <1>2, UpdateWriteType
<1>3. ASSUME NEW r \in Requests, NEW p \in Peerings, NEW action \in {"add_static", "withdraw"},
             NEW prefix \in OverridePrefixes, OverrideRead(r, p, action, prefix)
      PROVE  TypeOK'
  <2>1. PICK u \in OverrideRequest : u = [op |-> action, p |-> p, prefix |-> prefix]
    BY OverrideRequestType
  <2>2. reqs' = [reqs EXCEPT ![r] = u]
    BY <1>3, <2>1 DEF OverrideRead
  <2> QED  BY <1>3, <2>2, RequestStep DEF OverrideRead, TypeOK
<1>4. ASSUME NEW r \in Requests, AddStatic(r) PROVE TypeOK'
  <2>1. PICK u \in OverrideRequest : u = reqs[r]
    BY <1>4, RequestKinds DEF AddStatic
  <2>2. u.p \in Peerings /\ u.prefix \in Prefix
    BY OverrideAssumption DEF OverrideRequest
  <2>3. PICK e \in RouteEntry : e = [prefix |-> u.prefix, vpc |-> "none", origin |-> "static"]
    BY <2>2 DEF RouteEntry
  <2>4. routes' = [routes EXCEPT ![u.p] = Upsert(@, e)]
    BY <1>4, <2>1, <2>3 DEF AddStatic
  <2>5. routes' \in [Peerings -> Seq(RouteEntry)]
    BY <1>u, <2>2, <2>4, UpsertProperties DEF TypeOK
  <2> QED  BY <1>4, <1>n, <2>5, RequestStep DEF AddStatic, Finish, TypeOK
<1>5. ASSUME NEW r \in Requests, Withdraw(r) PROVE TypeOK'
  <2>1. PICK u \in OverrideRequest : u = reqs[r]
    BY <1>5, RequestKinds DEF Withdraw
  <2>2. u.p \in Peerings /\ u.prefix \in Prefix
    BY OverrideAssumption DEF OverrideRequest
  <2>3. routes' = [routes EXCEPT ![u.p] = DeleteRoute(@, u.prefix)]
    BY <1>5, <2>1 DEF Withdraw
  <2>4. routes' \in [Peerings -> Seq(RouteEntry)]
    BY <1>u, <2>2, <2>3, DeleteRouteProperties DEF TypeOK
  <2>5. withdrawn' \subseteq Peerings \X Prefix
    BY <1>5, <2>1, <2>2 DEF Withdraw, TypeOK
  <2> QED  BY <1>5, <1>n, <2>4, <2>5, RequestStep DEF Withdraw, Finish, TypeOK
<1>6. ASSUME NEW r \in Requests, EffectiveList(r) PROVE TypeOK'
  <2>1. PICK S \in SUBSET Peerings : S = {q \in Peerings : peerings[q].state = "active"}
    OBVIOUS
  <2>2. \A p \in S : ListedPolicy(p) \in Policies
    BY PolicyAssumption DEF ListedPolicy, TypeOK, Row, Settings
  <2>3. PICK u \in EffectiveRequest : u = [op |-> "effective", listed |-> [p \in S |-> ListedPolicy(p)]]
    BY <2>2, EffectiveRequestType
  <2>4. reqs' = [reqs EXCEPT ![r] = u]
    BY <1>6, <2>1, <2>3 DEF EffectiveList
  <2> QED  BY <1>6, <2>4, RequestStep DEF EffectiveList, TypeOK
<1>7. ASSUME NEW r \in Requests, NEW p \in Peerings, EffectiveVisit(r, p) PROVE TypeOK'
  <2>1. PICK u \in EffectiveRequest : u = reqs[r]
    BY <1>7, RequestKinds DEF EffectiveVisit
  <2>2. PICK S \in SUBSET Peerings : u.listed \in [S -> Policies]
    BY DEF EffectiveRequest
  <2>3. PICK g : g = [q \in DOMAIN u.listed \ {p} |-> u.listed[q]]
    OBVIOUS
  <2>4. g \in [S \ {p} -> Policies]
    BY <2>2, <2>3
  <2>5. PICK w \in EffectiveRequest : w = [u EXCEPT !.listed = g]
    <3>1. [u EXCEPT !.listed = g] = [op |-> "effective", listed |-> g]
      BY DEF EffectiveRequest
    <3> QED  BY <2>4, <3>1, EffectiveRequestType
  <2>6. reqs' = [reqs EXCEPT ![r] = w]
    BY <1>7, <2>1, <2>3, <2>5 DEF EffectiveVisit, TypeOK
  <2> QED  BY <1>7, <2>6, RequestStep DEF EffectiveVisit, TypeOK
<1>8. ASSUME NEW r \in Requests, EffectiveEnd(r) PROVE TypeOK'
  BY <1>8, <1>n, RequestStep DEF EffectiveEnd, Finish, TypeOK
<1>9. ASSUME NEW p \in Peerings, DeletePeering(p) PROVE TypeOK'
  <2>1. peerings' = [peerings EXCEPT ![p] = [peerings[p] EXCEPT !.state = "deleted"]]
    BY <1>9 DEF DeletePeering
  <2>2. [peerings[p] EXCEPT !.state = "deleted"] \in Row
    BY DEF TypeOK, Row
  <2>3. peerings' \in [Peerings -> Row]
    BY <2>1, <2>2 DEF TypeOK
  <2> QED  BY <1>9, <2>3 DEF DeletePeering, TypeOK
<1>10. ASSUME NEW p \in Peerings, ProvisionBegin(p) PROVE TypeOK'
  <2>1. Get(p) \in Row
    BY <1>10, GetProperties DEF ProvisionBegin
  <2>2. Exported(p, Get(p).settings.direction) \in Seq(RouteEntry)
    BY ExportedProperties
  <2>3. job' \in Job
    BY <1>10, <2>1, <2>2 DEF ProvisionBegin, Job
  <2> QED  BY <1>10, <2>3 DEF ProvisionBegin, TypeOK
<1>11. CASE Announce
  <2>1. PICK j \in Job : j = job
    BY <1>11 DEF TypeOK, Announce
  <2>2. j.p \in Peerings /\ j.left \in Seq(RouteEntry) /\ [j EXCEPT !.announce = FALSE] \in Job
    BY DEF Job
  <2>3. \A e \in Values(j.left) : e.prefix \in Prefix
    <3>1. \A i \in DOMAIN j.left : j.left[i] \in RouteEntry
      BY <2>2, Elements
    <3> QED  BY <3>1 DEF Values, RouteEntry
  <2>4. announced' \in [Peerings -> SUBSET Prefix]
    BY <1>11, <2>1, <2>2, <2>3 DEF Announce, TypeOK
  <2> QED  BY <1>11, <2>1, <2>2, <2>4 DEF Announce, TypeOK
<1>12. CASE ProvisionError
  BY <1>12 DEF ProvisionError, TypeOK
<1>13. CASE UpsertNext
  <2>1. PICK j \in Job : j = job /\ j.left # <<>>
    BY <1>13 DEF TypeOK, UpsertNext
  <2>2. /\ j.p \in Peerings /\ j.left \in Seq(RouteEntry) /\ Head(j.left) \in RouteEntry
        /\ Tail(j.left) \in Seq(RouteEntry)
    BY <2>1, HeadTailProperties DEF Job
  <2>3. [j EXCEPT !.left = Tail(@)] \in Job
    BY <2>2 DEF Job
  <2>4. PICK e \in RouteEntry : e = Head(j.left)
    BY <2>2
  <2>5. routes' = [routes EXCEPT ![j.p] = Upsert(@, e)]
    BY <1>13, <2>1, <2>4 DEF UpsertNext
  <2>6. routes' \in [Peerings -> Seq(RouteEntry)]
    BY <1>u, <2>2, <2>5, UpsertProperties DEF TypeOK
  <2> QED  BY <1>13, <2>1, <2>3, <2>6 DEF UpsertNext, TypeOK
<1>14. CASE Activate
  BY <1>14, ActivateType
<1> QED  BY <1>1, <1>2, <1>3, <1>4, <1>5, <1>6, <1>7, <1>8, <1>9, <1>10, <1>11, <1>12, <1>13, <1>14
         DEF Next, RequestNext

-----------------------------------------------------------------------------
(* Every step keeps one route per prefix, and only a withdrawal takes the *)
(* route for a prefix away.                                               *)

(* Storing one entry loses no prefix and doubles none. *)
LEMMA UpsertStep ==
    ASSUME TypeOK, OneRoutePerPrefix, NEW p \in Peerings, NEW e \in RouteEntry,
           routes' = [routes EXCEPT ![p] = Upsert(@, e)]
    PROVE  /\ \A q \in Peerings : Unique(routes'[q])
           /\ \A q \in Peerings : \A b : Has(routes[q], b) => Has(routes'[q], b)
           /\ Has(routes'[p], e.prefix)
<1>1. \A q \in Peerings : routes[q] \in Seq(RouteEntry) /\ Unique(routes[q])
  BY DEF TypeOK, OneRoutePerPrefix, Unique
<1>2. \A q \in Peerings : routes'[q] = IF q = p THEN Upsert(routes[p], e) ELSE routes[q]
  BY DEF TypeOK
<1>3. /\ Unique(Upsert(routes[p], e)) /\ Has(Upsert(routes[p], e), e.prefix)
      /\ \A b : Has(routes[p], b) => Has(Upsert(routes[p], e), b)
  BY <1>1, UpsertProperties
<1> QED  BY <1>1, <1>2, <1>3

(* Every step keeps the tables without doubles, and what was routed routed. *)
LEMMA RoutesStep ==
    ASSUME TypeOK, OneRoutePerPrefix, Next
    PROVE  /\ OneRoutePerPrefix'
           /\ \A p \in Peerings : \A b : Routed(p, b) => Routed(p, b)'
<1>u. \A p \in Peerings : routes[p] \in Seq(RouteEntry) /\ Unique(routes[p])
  BY DEF TypeOK, OneRoutePerPrefix, Unique
<1> SUFFICES /\ \A p \in Peerings : Unique(routes'[p])
             /\ \A p \in Peerings : \A b : Routed(p, b) => Routed(p, b)'
  BY DEF OneRoutePerPrefix, Unique
<1>1. ASSUME NEW r \in Requests, AddStatic(r)
      PROVE  /\ \A p \in Peerings : Unique(routes'[p])
             /\ \A p \in Peerings : \A b : Routed(p, b) => Routed(p, b)'
  <2>1. PICK u \in OverrideRequest : u = reqs[r]
    BY <1>1, RequestKinds DEF AddStatic
  <2>2. u.p \in Peerings /\ u.prefix \in Prefix
    BY OverrideAssumption DEF OverrideRequest
  <2>3. PICK e \in RouteEntry : e = [prefix |-> u.prefix, vpc |-> "none", origin |-> "static"]
    BY <2>2 DEF RouteEntry
  <2>4. routes' = [routes EXCEPT ![u.p] = Upsert(@, e)] /\ withdrawn' = withdrawn
    BY <1>1, <2>1, <2>3 DEF AddStatic
  <2> QED  BY <2>2, <2>4, UpsertStep DEF Routed
<1>2. CASE UpsertNext
  <2>1. PICK j \in Job : j = job /\ j.left # <<>>
    BY <1>2 DEF TypeOK, UpsertNext
  <2>2. j.p \in Peerings /\ Head(j.left) \in RouteEntry
    BY <2>1, HeadTailProperties DEF Job
  <2>3. PICK e \in RouteEntry : e = Head(j.left)
    BY <2>2
  <2>4. routes' = [routes EXCEPT ![j.p] = Upsert(@, e)] /\ withdrawn' = withdrawn
    BY <1>2, <2>1, <2>3 DEF UpsertNext
  <2> QED  BY <2>2, <2>4, UpsertStep DEF Routed
<1>3. ASSUME NEW r \in Requests, Withdraw(r)
      PROVE  /\ \A p \in Peerings : Unique(routes'[p])
             /\ \A p \in Peerings : \A b : Routed(p, b) => Routed(p, b)'
  <2>1. PICK u \in OverrideRequest : u = reqs[r]
    BY <1>3, RequestKinds DEF Withdraw
  <2>2. u.p \in Peerings
    BY DEF OverrideRequest
  <2>3. \A q \in Peerings : routes'[q] = IF q = u.p THEN DeleteRoute(routes[q], u.prefix) ELSE routes[q]
    BY <1>3, <2>1, <2>2 DEF Withdraw, TypeOK
  <2>4. withdrawn' = withdrawn \cup {<<u.p, u.prefix>>}
    BY <1>3, <2>1 DEF Withdraw
  <2>5. /\ Unique(DeleteRoute(routes[u.p], u.prefix))
        /\ \A b : Has(routes[u.p], b) => b = u.prefix \/ Has(DeleteRoute(routes[u.p], u.prefix), b)
    BY <1>u, <2>2, DeleteRouteProperties
  <2>6. \A p \in Peerings : Unique(routes'[p])
    BY <1>u, <2>3, <2>5
  <2>7. ASSUME NEW p \in Peerings, NEW b, Routed(p, b) PROVE Routed(p, b)'
    <3>1. CASE p = u.p
      BY <2>3, <2>4, <2>5, <2>7, <3>1 DEF Routed
    <3>2. CASE p # u.p
      BY <2>3, <2>4, <2>7, <3>2 DEF Routed
    <3> QED  BY <3>1, <3>2
  <2> QED  BY <2>6, <2>7
<1>4. ASSUME UNCHANGED <<routes, withdrawn>>
      PROVE  /\ \A p \in Peerings : Unique(routes'[p])
             /\ \A p \in Peerings : \A b : Routed(p, b) => Routed(p, b)'
  BY <1>u, <1>4 DEF Routed
<1> QED
  BY <1>1, <1>2, <1>3, <1>4
  DEF Next, RequestNext, UpdateRead, UpdateWrite, OverrideRead, EffectiveList, EffectiveVisit,
      EffectiveEnd, DeletePeering, ProvisionBegin, Announce, ProvisionError, Activate

-----------------------------------------------------------------------------
(* What a step does to the copies that requests hold. *)

(* Only UpdateRead makes a new copy; the other steps leave it, and mark it *)
(* as stale when they write its peering.                                   *)
Kept(r) ==
    /\ At(r, "update")
    /\ reqs'[r].p = reqs[r].p /\ reqs'[r].row = reqs[r].row /\ reqs'[r].given = reqs[r].given
    /\ reqs[r].stale => reqs'[r].stale
    /\ \/ reqs'[r].stale
       \/ peerings'[reqs[r].p].settings = peerings[reqs[r].p].settings

Read(r) ==
    \E p \in Peerings, given \in Bodies : UpdateRead(r, p, given)

(* An Update's copy was there before or has just been read. *)
LEMMA CopiesStep ==
    ASSUME TypeOK, Next, NEW q \in Requests, At(q, "update")'
    PROVE  Kept(q) \/ Read(q)
<1>0. reqs'[q] # NoRequest /\ reqs'[q].op = "update"
  BY DEF At, Free
<1>s. At(q, "update") <=> reqs[q] # NoRequest /\ reqs[q].op = "update"
  BY DEF At, Free
<1>1. ASSUME reqs'[q] = reqs[q], UNCHANGED peerings PROVE Kept(q)
  BY <1>0, <1>1, <1>s DEF Kept
<1>2. ASSUME NEW r \in Requests, NEW x \in Request \cup {NoRequest},
             x = NoRequest \/ x.op # "update", reqs' = [reqs EXCEPT ![r] = x], UNCHANGED peerings
      PROVE  Kept(q)
  <2>1. CASE q = r
    BY <1>0, <1>2, <2>1, RequestStep
  <2>2. CASE q # r
    BY <1>1, <1>2, <2>2, RequestStep
  <2> QED  BY <2>1, <2>2
<1>3. ASSUME NEW r \in Requests, NEW p \in Peerings, NEW given \in Bodies, UpdateRead(r, p, given)
      PROVE  Kept(q) \/ Read(q)
  <2>1. CASE q = r
    BY <1>3, <2>1 DEF Read
  <2>2. CASE q # r
    BY <1>1, <1>3, <2>2 DEF UpdateRead, TypeOK
  <2> QED  BY <2>1, <2>2
<1>4. ASSUME NEW p \in Peerings, NEW w \in Row, peerings' = [peerings EXCEPT ![p] = w],
             reqs'[q] = IF At(q, "update") /\ reqs[q].p = p
                        THEN [reqs[q] EXCEPT !.stale = TRUE] ELSE reqs[q]
      PROVE  Kept(q)
  <2>1. At(q, "update")
    BY <1>0, <1>4, <1>s
  <2>2. /\ reqs'[q].p = reqs[q].p /\ reqs'[q].row = reqs[q].row /\ reqs'[q].given = reqs[q].given
        /\ IF reqs'[q].p = p THEN reqs'[q].stale ELSE reqs'[q] = reqs[q]
    BY <1>4, <2>1, OutdateEffect
  <2>3. reqs[q].p \in Peerings
    BY <2>1, RequestKinds DEF UpdateRequest
  <2>4. reqs[q].p # p => peerings'[reqs[q].p] = peerings[reqs[q].p]
    BY <1>4, <2>3 DEF TypeOK
  <2> QED  BY <2>1, <2>2, <2>4 DEF Kept
<1>5. ASSUME NEW r \in Requests, UpdateWrite(r) PROVE Kept(q)
  <2>1. PICK u \in UpdateRequest : u = reqs[r]
    BY <1>5, RequestKinds DEF UpdateWrite
  <2>2. u.p \in Peerings /\ u.row \in Row
    BY DEF UpdateRequest
  <2>3. /\ peerings' = [peerings EXCEPT ![u.p] = u.row]
        /\ reqs' = [s \in Requests |->
                      IF s = r THEN NoRequest
                      ELSE IF At(s, "update") /\ reqs[s].p = u.p THEN [reqs[s] EXCEPT !.stale = TRUE]
                      ELSE reqs[s]]
    BY <1>5, <2>1 DEF UpdateWrite, FinishAndOutdate
  <2>4. q # r
    BY <1>0, <2>3
  <2> QED  BY <1>4, <2>2, <2>3, <2>4
<1>6. CASE Activate
  <2>1. PICK j \in Job : j = job
    BY <1>6 DEF TypeOK, Activate
  <2>2. j.p \in Peerings /\ [j.row EXCEPT !.state = "active"] \in Row
    BY DEF Job, Row
  <2>3. /\ peerings' = [peerings EXCEPT ![j.p] = [j.row EXCEPT !.state = "active"]]
        /\ reqs' = [s \in Requests |->
                      IF At(s, "update") /\ reqs[s].p = j.p
                      THEN [reqs[s] EXCEPT !.stale = TRUE] ELSE reqs[s]]
    BY <1>6, <2>1 DEF Activate
  <2> QED  BY <1>4, <2>2, <2>3
<1>7. ASSUME NEW p \in Peerings, DeletePeering(p) PROVE Kept(q)
  <2>1. reqs' = reqs /\ At(q, "update")
    BY <1>0, <1>7, <1>s DEF DeletePeering
  <2>2. reqs[q].p \in Peerings
    BY <2>1, RequestKinds DEF UpdateRequest
  <2>3. peerings' = [peerings EXCEPT ![p] = [peerings[p] EXCEPT !.state = "deleted"]]
    BY <1>7 DEF DeletePeering
  <2>4. \A s \in Peerings : peerings'[s].settings = peerings[s].settings
    BY <2>3 DEF TypeOK, Row
  <2> QED  BY <2>1, <2>2, <2>4 DEF Kept
<1>8. ASSUME NEW p \in Peerings, ProvisionBegin(p) PROVE Kept(q)
  BY <1>1, <1>8 DEF ProvisionBegin
<1>9. CASE Announce \/ ProvisionError \/ UpsertNext
  BY <1>1, <1>9 DEF Announce, ProvisionError, UpsertNext
<1>10. ASSUME NEW r \in Requests, NEW p \in Peerings, NEW action \in {"add_static", "withdraw"},
             NEW prefix \in OverridePrefixes, OverrideRead(r, p, action, prefix)
      PROVE  Kept(q)
  <2>1. PICK u \in OverrideRequest : u = [op |-> action, p |-> p, prefix |-> prefix]
    BY OverrideRequestType
  <2> QED  BY <1>2, <1>10, <2>1 DEF OverrideRead, Request
<1>11. ASSUME NEW r \in Requests, AddStatic(r) \/ Withdraw(r) \/ EffectiveEnd(r) PROVE Kept(q)
  BY <1>2, <1>11 DEF AddStatic, Withdraw, EffectiveEnd, Finish
<1>12. ASSUME NEW r \in Requests, \/ EffectiveList(r)
                                  \/ \E p \in Peerings : EffectiveVisit(r, p)
       PROVE  Kept(q)
  <2>0. UNCHANGED peerings /\ \A s \in Requests : s # r => reqs'[s] = reqs[s]
    BY <1>12 DEF EffectiveList, EffectiveVisit, TypeOK
  <2>1. CASE q # r
    BY <1>1, <2>0, <2>1
  <2>2. CASE q = r /\ EffectiveList(r)
    BY <1>0, <2>2 DEF EffectiveList, TypeOK
  <2>3. CASE q = r /\ \E p \in Peerings : EffectiveVisit(r, p)
    <3>1. reqs[r].op = "effective" /\ reqs[r] \in EffectiveRequest
      BY <2>3, RequestKinds DEF EffectiveVisit, At
    <3>2. PICK g : reqs' = [reqs EXCEPT ![r] = [reqs[r] EXCEPT !.listed = g]]
      BY <2>3 DEF EffectiveVisit
    <3>3. reqs'[r].op = "effective"
      BY <3>1, <3>2 DEF TypeOK, EffectiveRequest
    <3> QED  BY <1>0, <2>3, <3>3
  <2> QED  BY <1>12, <2>1, <2>2, <2>3
<1> QED  BY <1>3, <1>5, <1>6, <1>7, <1>8, <1>9, <1>10, <1>11, <1>12 DEF Next, RequestNext

(* The same for the copy of the provisioner. *)
JobKept ==
    /\ job # NoJob
    /\ job'.p = job.p /\ job'.row = job.row
    /\ job'.left = job.left \/ UpsertNext
    /\ job.stale => job'.stale
    /\ job'.stale \/ peerings'[job.p].settings = peerings[job.p].settings

(* The provisioner's copy was there before or has just been read. *)
LEMMA JobStep ==
    ASSUME TypeOK, Next, job' # NoJob
    PROVE  JobKept \/ \E p \in Peerings : ProvisionBegin(p)
<1>1. ASSUME UNCHANGED <<job, peerings>> PROVE JobKept
  BY <1>1 DEF JobKept
<1>2. ASSUME NEW r \in Requests, UpdateWrite(r) PROVE JobKept
  <2>1. PICK u \in UpdateRequest : u = reqs[r]
    BY <1>2, RequestKinds DEF UpdateWrite
  <2>2. u.p \in Peerings
    BY DEF UpdateRequest
  <2>3. /\ peerings' = [peerings EXCEPT ![u.p] = u.row]
        /\ job' = IF job # NoJob /\ job.p = u.p THEN [job EXCEPT !.stale = TRUE] ELSE job
    BY <1>2, <2>1 DEF UpdateWrite, FinishAndOutdate
  <2>4. PICK j \in Job : j = job
    BY <2>3 DEF TypeOK
  <2>5. j # NoJob /\ j.p \in Peerings
    BY SentinelAssumption DEF Job
  <2>6. CASE j.p = u.p
    BY <2>3, <2>4, <2>5, <2>6, OutdatedJob DEF JobKept
  <2>7. CASE j.p # u.p
    BY <2>3, <2>4, <2>5, <2>7 DEF JobKept, TypeOK
  <2> QED  BY <2>6, <2>7
<1>3. ASSUME NEW p \in Peerings, DeletePeering(p) PROVE JobKept
  <2>1. job' = job
    BY <1>3 DEF DeletePeering
  <2>2. job.p \in Peerings
    BY <2>1 DEF TypeOK, Job
  <2>3. peerings' = [peerings EXCEPT ![p] = [peerings[p] EXCEPT !.state = "deleted"]]
    BY <1>3 DEF DeletePeering
  <2>4. \A s \in Peerings : peerings'[s].settings = peerings[s].settings
    BY <2>3 DEF TypeOK, Row
  <2> QED  BY <2>1, <2>2, <2>4 DEF JobKept
<1>4. CASE Announce \/ UpsertNext
  <2>1. PICK j \in Job : j = job /\ j # NoJob
    BY <1>4 DEF TypeOK, Announce, UpsertNext
  <2>2. CASE Announce
    <3>1. job' = [j EXCEPT !.announce = FALSE] /\ peerings' = peerings
      BY <2>1, <2>2 DEF Announce
    <3> QED  BY <2>1, <3>1 DEF JobKept, Job
  <2>3. CASE UpsertNext
    <3>1. job' = [j EXCEPT !.left = Tail(@)] /\ peerings' = peerings
      BY <2>1, <2>3 DEF UpsertNext
    <3> QED  BY <2>1, <2>3, <3>1 DEF JobKept, Job
  <2> QED  BY <1>4, <2>2, <2>3
<1>5. CASE ProvisionError \/ Activate
  BY <1>5 DEF ProvisionError, Activate
<1> QED
  BY <1>1, <1>2, <1>3, <1>4, <1>5
  DEF Next, RequestNext, UpdateRead, OverrideRead, AddStatic, Withdraw, EffectiveList, EffectiveVisit,
      EffectiveEnd

-----------------------------------------------------------------------------
(* Routes of active peerings. *)

(* Every step keeps what the provisioner has stored so far routed. *)
LEMMA StepRouted ==
    ASSUME IInv, Next
    PROVE  RoutedInv' /\ ActiveHasRoutes'
<1>0. TypeOK /\ OneRoutePerPrefix /\ RoutedInv /\ ActiveHasRoutes
  BY DEF IInv
<1>m. \A p \in Peerings : \A b : Routed(p, b) => Routed(p, b)'
  BY <1>0, RoutesStep
<1>1. ASSUME job' # NoJob, NEW p \in Peerings, p = job'.p, NEW b \in Values(AccepterBlocks[p])
      PROVE  Routed(p, b)' \/ Has(job'.left, b)
  <2>1. CASE \E q \in Peerings : ProvisionBegin(q)
    <3>1. PICK d : job'.left = Exported(p, d)
      BY <1>1, <2>1 DEF ProvisionBegin
    <3> QED  BY <1>1, <3>1, ExportedProperties
  <2>2. CASE JobKept
    <3>1. job # NoJob /\ job.p = p /\ (Routed(p, b) \/ Has(job.left, b))
      BY <1>0, <1>1, <2>2 DEF JobKept, RoutedInv
    <3>2. CASE Routed(p, b)
      BY <1>m, <3>2
    <3>3. CASE Has(job.left, b) /\ job'.left = job.left
      BY <3>3
    <3>4. CASE Has(job.left, b) /\ UpsertNext
      <4>1. PICK j \in Job : j = job
        BY <1>0, <3>1 DEF TypeOK
      <4>2. PICK s \in Seq(RouteEntry) : s = j.left /\ s # <<>>
        BY <3>4, <4>1 DEF Job, UpsertNext
      <4>3. /\ Head(s) = s[1] /\ Head(s) \in RouteEntry
            /\ Tail(s) \in Seq(RouteEntry) /\ Len(Tail(s)) = Len(s) - 1
            /\ \A i \in 1..Len(Tail(s)) : Tail(s)[i] = s[i + 1]
        BY <4>2, HeadTailProperties
      <4>4. PICK e \in RouteEntry : e = Head(s)
        BY <4>3
      <4>5. routes' = [routes EXCEPT ![p] = Upsert(@, e)] /\ job' = [j EXCEPT !.left = Tail(@)]
        BY <3>1, <3>4, <4>1, <4>2, <4>4 DEF UpsertNext
      <4>6. job'.left = Tail(s)
        BY <4>2, <4>5 DEF Job
      <4>7. PICK i \in DOMAIN s : s[i].prefix = b
        BY <3>4, <4>1, <4>2 DEF Has
      <4>8. CASE i = 1
        <5>1. Has(routes'[p], e.prefix)
          BY <1>0, <4>5, UpsertStep
        <5> QED  BY <4>3, <4>4, <4>7, <4>8, <5>1 DEF Routed
      <4>9. CASE i # 1
        <5>1. Len(s) \in Nat /\ DOMAIN s = 1..Len(s) /\ DOMAIN Tail(s) = 1..Len(Tail(s))
          BY <4>3, Elements
        <5>2. i - 1 \in DOMAIN Tail(s) /\ Tail(s)[i - 1] = s[i]
          BY <4>3, <4>9, <5>1
        <5> QED  BY <4>6, <4>7, <5>2 DEF Has
      <4> QED  BY <4>8, <4>9
    <3> QED  BY <2>2, <3>1, <3>2, <3>3, <3>4 DEF JobKept
  <2> QED  BY <1>0, <1>1, <2>1, <2>2, JobStep
<1>2. ASSUME NEW r \in Requests, At(r, "update")', reqs'[r].row.state = "active",
             NEW p \in Peerings, p = reqs'[r].p, NEW b \in Values(AccepterBlocks[p])
      PROVE  Routed(p, b)'
  <2>1. CASE Kept(r)
    <3>1. At(r, "update") /\ reqs[r].row.state = "active" /\ reqs[r].p = p
      BY <1>2, <2>1 DEF Kept
    <3>2. Routed(p, b)
      BY <1>0, <1>2, <3>1 DEF RoutedInv
    <3> QED  BY <1>m, <3>2
  <2>2. CASE Read(r)
    <3>1. PICK q \in Peerings, given \in Bodies : UpdateRead(r, q, given)
      BY <2>2 DEF Read
    <3>2. PICK u : u = [op |-> "update", p |-> q, stale |-> FALSE, given |-> given,
                        row |-> [Get(q) EXCEPT !.settings = Edited(@, given)]]
      OBVIOUS
    <3>3. Get(q) # NoRow /\ reqs'[r] = u
      BY <1>0, <3>1, <3>2 DEF UpdateRead, TypeOK
    <3>4. u.p = q /\ u.row.state = peerings[q].state
      BY <1>0, <3>2, <3>3, UpdateReadRequest
    <3>5. Routed(p, b)
      BY <1>0, <1>2, <3>3, <3>4 DEF ActiveHasRoutes, Routed
    <3> QED  BY <1>m, <3>5
  <2> QED  BY <1>0, <1>2, <2>1, <2>2, CopiesStep
<1>3. ASSUME NEW p \in Peerings, peerings'[p].state = "active", NEW b \in Values(AccepterBlocks[p])
      PROVE  Routed(p, b)'
  <2>1. CASE peerings[p].state = "active"
    <3>1. Routed(p, b)
      BY <1>0, <1>3, <2>1 DEF ActiveHasRoutes, Routed
    <3> QED  BY <1>m, <3>1
  <2>2. ASSUME NEW r \in Requests, UpdateWrite(r), peerings[p].state # "active" PROVE Routed(p, b)'
    <3>1. At(r, "update") /\ peerings' = [peerings EXCEPT ![reqs[r].p] = reqs[r].row]
      BY <2>2 DEF UpdateWrite
    <3>2. reqs[r].p = p /\ reqs[r].row.state = "active"
      BY <1>0, <1>3, <2>2, <3>1 DEF TypeOK
    <3>3. Routed(p, b)
      BY <1>0, <3>1, <3>2 DEF RoutedInv
    <3> QED  BY <1>m, <3>3
  <2>3. ASSUME Activate, peerings[p].state # "active" PROVE Routed(p, b)'
    <3>1. /\ job # NoJob /\ job.left = <<>>
          /\ peerings' = [peerings EXCEPT ![job.p] = [job.row EXCEPT !.state = "active"]]
      BY <2>3 DEF Activate
    <3>2. job.p = p
      BY <1>0, <1>3, <2>3, <3>1 DEF TypeOK
    <3>3. ~Has(job.left, b)
      BY <3>1 DEF Has
    <3>4. Routed(p, b)
      BY <1>0, <3>1, <3>2, <3>3 DEF RoutedInv
    <3> QED  BY <1>m, <3>4
  <2>4. ASSUME NEW q \in Peerings, DeletePeering(q) PROVE peerings[p].state = "active"
    <3>1. peerings' = [peerings EXCEPT ![q] = [peerings[q] EXCEPT !.state = "deleted"]]
      BY <2>4 DEF DeletePeering
    <3>2. [peerings[q] EXCEPT !.state = "deleted"].state = "deleted"
      BY <1>0 DEF TypeOK, Row
    <3> QED  BY <1>0, <1>3, <3>1, <3>2 DEF TypeOK
  <2>5. ASSUME UNCHANGED peerings PROVE peerings[p].state = "active"
    BY <1>3, <2>5
  <2> QED
    BY <2>1, <2>2, <2>3, <2>4, <2>5
    DEF Next, RequestNext, UpdateRead, OverrideRead, AddStatic, Withdraw, EffectiveList, EffectiveVisit,
        EffectiveEnd, ProvisionBegin, Announce, ProvisionError, UpsertNext
<1>t. TypeOK'
  BY <1>0, StepType
<1>4. job' # NoJob => job'.p \in Peerings
  BY <1>t DEF TypeOK, Job
<1>5. \A r \in Requests : At(r, "update")' => reqs'[r].p \in Peerings
  <2> TAKE r \in Requests
  <2>1. reqs'[r] \in UpdateRequest \/ reqs'[r] = NoRequest \/ reqs'[r].op # "update"
    BY <1>t DEF TypeOK, OverrideRequest, EffectiveRequest
  <2> QED  BY <2>1 DEF UpdateRequest, At, Free
<1>6. ActiveHasRoutes'
  BY <1>3 DEF ActiveHasRoutes, Routed
<1>7. RoutedInv'
  BY <1>1, <1>2, <1>4, <1>5 DEF RoutedInv, Routed
<1> QED  BY <1>6, <1>7

-----------------------------------------------------------------------------
(* Settings. *)

(* Every step keeps a copy that is not stale equal to the store. *)
LEMMA StepCopies ==
    ASSUME IInv, Next
    PROVE  CopyInv'
<1>0. TypeOK /\ CopyInv
  BY DEF IInv
<1>1. ASSUME job' # NoJob, ~job'.stale
      PROVE  job'.row.settings = peerings'[job'.p].settings
  <2>1. CASE JobKept
    BY <1>0, <1>1, <2>1 DEF JobKept, CopyInv
  <2>2. CASE \E p \in Peerings : ProvisionBegin(p)
    <3>1. PICK p \in Peerings : ProvisionBegin(p)
      BY <2>2
    <3>2. job'.p = p /\ job'.row = Get(p) /\ peerings' = peerings /\ Get(p) = peerings[p]
      BY <1>0, <3>1, GetProperties DEF ProvisionBegin
    <3> QED  BY <3>2
  <2> QED  BY <1>0, <1>1, <2>1, <2>2, JobStep
<1>2. ASSUME NEW r \in Requests, At(r, "update")', NEW f \in Fields
      PROVE  IF f \in DOMAIN reqs'[r].given
             THEN reqs'[r].row.settings[f] = reqs'[r].given[f]
             ELSE ~reqs'[r].stale => reqs'[r].row.settings[f] = peerings'[reqs'[r].p].settings[f]
  <2>1. CASE Kept(r)
    BY <1>0, <1>2, <2>1 DEF Kept, CopyInv
  <2>2. CASE Read(r)
    <3>1. PICK p \in Peerings, given \in Bodies : UpdateRead(r, p, given)
      BY <2>2 DEF Read
    <3>2. PICK u : u = [op |-> "update", p |-> p, stale |-> FALSE, given |-> given,
                        row |-> [Get(p) EXCEPT !.settings = Edited(@, given)]]
      OBVIOUS
    <3>3. Get(p) # NoRow /\ reqs'[r] = u /\ peerings' = peerings
      BY <1>0, <3>1, <3>2 DEF UpdateRead, TypeOK
    <3>4. u.p = p /\ u.given = given /\ u.row.settings = Edited(peerings[p].settings, given)
      BY <1>0, <3>2, <3>3, UpdateReadRequest
    <3>5. peerings[p].settings \in Settings
      BY <1>0 DEF TypeOK, Row
    <3>6. u.row.settings[f] = IF f \in DOMAIN given THEN given[f] ELSE peerings[p].settings[f]
      BY <3>4, <3>5, EditedProperties
    <3> QED  BY <3>3, <3>4, <3>6
  <2> QED  BY <1>0, <1>2, <2>1, <2>2, CopiesStep
<1> QED  BY <1>1, <1>2 DEF CopyInv

(* Every step keeps the confirmed settings that nobody has overrun. *)
LEMMA StepSettings ==
    ASSUME IInv, Next
    PROVE  SettingsKept'
<1>0. TypeOK /\ CopyInv /\ SettingsKept
  BY DEF IInv
<1> SUFFICES ASSUME NEW p \in Peerings, NEW f \in Fields, f \notin overrun'[p]
             PROVE  peerings'[p].settings[f] = acked'[p][f]
  BY DEF SettingsKept
<1>1. ASSUME NEW r \in Requests, UpdateWrite(r) PROVE peerings'[p].settings[f] = acked'[p][f]
  <2>1. PICK u \in UpdateRequest : u = reqs[r] /\ At(r, "update")
    BY <1>0, <1>1, RequestKinds DEF UpdateWrite
  <2>2. u.p \in Peerings /\ u.given \in Bodies
    BY DEF UpdateRequest
  <2>3. /\ peerings' = [peerings EXCEPT ![u.p] = u.row]
        /\ acked' = [acked EXCEPT ![u.p] = Edited(@, u.given)]
        /\ overrun' = [overrun EXCEPT ![u.p] = (IF u.stale THEN Fields ELSE @) \ DOMAIN u.given]
    BY <1>1, <2>1 DEF UpdateWrite
  <2>4. CASE p # u.p
    BY <1>0, <2>2, <2>3, <2>4 DEF TypeOK, SettingsKept
  <2>5. CASE p = u.p
    <3>1. /\ peerings'[p] = u.row /\ acked'[p] = Edited(acked[p], u.given)
          /\ overrun'[p] = (IF u.stale THEN Fields ELSE overrun[p]) \ DOMAIN u.given
      BY <1>0, <2>3, <2>5 DEF TypeOK
    <3>2. acked'[p][f] = IF f \in DOMAIN u.given THEN u.given[f] ELSE acked[p][f]
      BY <1>0, <2>2, <3>1, EditedProperties DEF TypeOK
    <3>3. IF f \in DOMAIN u.given THEN u.row.settings[f] = u.given[f]
          ELSE ~u.stale => u.row.settings[f] = peerings[p].settings[f]
      BY <1>0, <2>1, <2>5 DEF CopyInv
    <3>4. CASE f \in DOMAIN u.given
      BY <3>1, <3>2, <3>3, <3>4
    <3>5. CASE f \notin DOMAIN u.given
      <4>1. ~u.stale /\ f \notin overrun[p]
        BY <3>1, <3>5
      <4> QED  BY <1>0, <3>1, <3>2, <3>3, <3>5, <4>1 DEF SettingsKept
    <3> QED  BY <3>4, <3>5
  <2> QED  BY <2>4, <2>5
<1>2. ASSUME Activate PROVE peerings'[p].settings[f] = acked'[p][f]
  <2>1. PICK j \in Job : j = job /\ job # NoJob
    BY <1>0, <1>2 DEF TypeOK, Activate
  <2>2. j.p \in Peerings /\ [j.row EXCEPT !.state = "active"].settings = j.row.settings
    BY DEF Job, Row
  <2>3. /\ peerings' = [peerings EXCEPT ![j.p] = [j.row EXCEPT !.state = "active"]]
        /\ overrun' = [overrun EXCEPT ![j.p] = IF j.stale THEN Fields ELSE @]
        /\ acked' = acked
    BY <1>2, <2>1 DEF Activate
  <2>4. CASE p # j.p
    BY <1>0, <2>2, <2>3, <2>4 DEF TypeOK, SettingsKept
  <2>5. CASE p = j.p
    <3>1. peerings'[p].settings = j.row.settings /\ overrun'[p] = IF j.stale THEN Fields ELSE overrun[p]
      BY <1>0, <2>2, <2>3, <2>5 DEF TypeOK
    <3>2. ~j.stale /\ f \notin overrun[p]
      BY <3>1
    <3>3. j.row.settings = peerings[p].settings
      BY <1>0, <2>1, <2>5, <3>2 DEF CopyInv
    <3> QED  BY <1>0, <2>3, <3>1, <3>2, <3>3 DEF SettingsKept
  <2> QED  BY <2>4, <2>5
<1>3. ASSUME NEW q \in Peerings, DeletePeering(q) PROVE peerings'[p].settings[f] = acked'[p][f]
  <2>1. peerings' = [peerings EXCEPT ![q] = [peerings[q] EXCEPT !.state = "deleted"]]
    BY <1>3 DEF DeletePeering
  <2>2. peerings'[p].settings = peerings[p].settings
    BY <1>0, <2>1 DEF TypeOK, Row
  <2> QED  BY <1>0, <1>3, <2>2 DEF DeletePeering, SettingsKept
<1>4. ASSUME UNCHANGED <<peerings, acked, overrun>> PROVE peerings'[p].settings[f] = acked'[p][f]
  BY <1>0, <1>4 DEF SettingsKept
<1> QED
  BY <1>1, <1>2, <1>3, <1>4
  DEF Next, RequestNext, UpdateRead, OverrideRead, AddStatic, Withdraw, EffectiveList, EffectiveVisit,
      EffectiveEnd, ProvisionBegin, Announce, ProvisionError, UpsertNext

-----------------------------------------------------------------------------
(* Every step, and the stuttering step, preserves the invariant. *)
LEMMA Step == IInv /\ [Next]_vars => IInv'
<1> SUFFICES ASSUME IInv, [Next]_vars PROVE IInv'
  OBVIOUS
<1>1. CASE UNCHANGED vars
  BY <1>1 DEF vars, IInv, TypeOK, OneRoutePerPrefix, RoutedInv, Routed, ActiveHasRoutes, CopyInv,
              SettingsKept, At, Free
<1>2. CASE Next
  <2>1. TypeOK /\ OneRoutePerPrefix
    BY DEF IInv
  <2>2. TypeOK' /\ OneRoutePerPrefix'
    BY <1>2, <2>1, StepType, RoutesStep
  <2> QED  BY <1>2, <2>2, StepRouted, StepCopies, StepSettings DEF IInv
<1> QED  BY <1>1, <1>2

(* The inductive invariant: routes are told apart by their prefixes, every *)
(* copy in flight that is to be written as active has its routes in the    *)
(* store, and every copy that is not stale agrees with the store.          *)
THEOREM Inductive == Spec => []IInv
BY Initial, Step, PTL DEF Spec

(* Type correctness. *)
THEOREM TypeCorrect == Spec => []TypeOK
<1>1. IInv => TypeOK
  BY DEF IInv
<1> QED  BY <1>1, Inductive, PTL

(* The route store has one route per peering and prefix, whoever writes. *)
THEOREM OneRoutePerPrefixHolds == Spec => []OneRoutePerPrefix
<1>1. IInv => OneRoutePerPrefix
  BY DEF IInv
<1> QED  BY <1>1, Inductive, PTL

(* Confirmed settings are lost to stale copies only. *)
THEOREM SettingsKeptHolds == Spec => []SettingsKept
<1>1. IInv => SettingsKept
  BY DEF IInv
<1> QED  BY <1>1, Inductive, PTL

(* Active peerings have the routes of their accepters. *)
THEOREM ActiveHasRoutesHolds == Spec => []ActiveHasRoutes
<1>1. IInv => ActiveHasRoutes
  BY DEF IInv
<1> QED  BY <1>1, Inductive, PTL

-----------------------------------------------------------------------------
(* The effective routes.  The recursive count of the code is compared with *)
(* the number of eligible routes at the least index where they differ.     *)

(* A nonempty set of naturals has a least element. *)
LEMMA LeastElement ==
    ASSUME NEW S \in SUBSET Nat, S # {}
    PROVE  \E n \in S : \A m \in S : n <= m
<1>1. PICK R : R = {ss \in Nat \X Nat : ss[1] < ss[2]} /\ IsWellFoundedOn(R, Nat)
  BY NatLessThanWellFounded DEF OpToRel
<1>2. PICK n \in S : \A m \in S : <<m, n>> \notin R
  BY <1>1, WFMin
<1>3. \A m \in S : m < n => <<m, n>> \in R
  BY <1>1
<1>4. \A m \in S : n <= m
  <2> TAKE m \in S
  <2>1. m \in Nat /\ n \in Nat /\ ~(m < n)
    BY <1>2, <1>3
  <2> QED  BY <2>1
<1> QED  BY <1>4

(* The number of eligible routes among the first i. *)
EligibleUpTo(policy, s, i) == Cardinality({j \in 1..i : Eligible(policy, s[j])})

(* The number of eligible entries, one entry at a time. *)
LEMMA EligibleStep ==
    ASSUME NEW policy, NEW s
    PROVE  /\ EligibleUpTo(policy, s, 0) = 0
           /\ \A i \in Nat \ {0} :
                 /\ EligibleUpTo(policy, s, i - 1) \in Nat
                 /\ EligibleUpTo(policy, s, i) = EligibleUpTo(policy, s, i - 1)
                                                  + IF Eligible(policy, s[i]) THEN 1 ELSE 0
<1>1. EligibleUpTo(policy, s, 0) = 0
  <2>1. {j \in 1..0 : Eligible(policy, s[j])} = {}
    OBVIOUS
  <2> QED  BY <2>1, FS_EmptySet DEF EligibleUpTo
<1>2. ASSUME NEW i \in Nat \ {0}
      PROVE  /\ EligibleUpTo(policy, s, i - 1) \in Nat
             /\ EligibleUpTo(policy, s, i) = EligibleUpTo(policy, s, i - 1)
                                              + IF Eligible(policy, s[i]) THEN 1 ELSE 0
  <2>1. PICK S : S = {j \in 1..(i - 1) : Eligible(policy, s[j])}
    OBVIOUS
  <2>2. IsFiniteSet(S) /\ Cardinality(S) \in Nat
    <3>1. IsFiniteSet(1..(i - 1))
      BY FS_Interval
    <3>2. S \in SUBSET (1..(i - 1))
      BY <2>1
    <3> QED  BY <3>1, <3>2, FS_Subset, FS_CardinalityType
  <2>3. i \notin S
    BY <2>1
  <2>4. CASE Eligible(policy, s[i])
    <3>1. {j \in 1..i : Eligible(policy, s[j])} = S \cup {i}
      BY <2>1, <2>4
    <3>2. Cardinality(S \cup {i}) = Cardinality(S) + 1
      BY <2>2, <2>3, FS_AddElement
    <3> QED  BY <2>1, <2>2, <2>4, <3>1, <3>2 DEF EligibleUpTo
  <2>5. CASE ~Eligible(policy, s[i])
    <3>1. {j \in 1..i : Eligible(policy, s[j])} = S
      BY <2>1, <2>5
    <3> QED  BY <2>1, <2>2, <2>5, <3>1 DEF EligibleUpTo
  <2> QED  BY <2>4, <2>5
<1> QED  BY <1>1, <1>2

(* EvaluatePrefix, in terms of addresses. *)
LEMMA EvaluateMeaning ==
    ASSUME NEW policy \in RoutePolicy, NEW e \in RouteEntry, NEW c \in Nat
    PROVE  EvaluatePrefix(policy, e.prefix, c) =
              IF Covered(e, policy.denied) THEN "deny"
              ELSE IF Eligible(policy, e) /\ (policy.maxPrefixes = 0 \/ c < policy.maxPrefixes)
                   THEN "accept" ELSE "filtered"
<1>1. /\ policy.denied \subseteq Prefix /\ policy.allowed \subseteq Prefix
      /\ policy.maxPrefixes \in Nat /\ e.prefix \in Prefix
  BY DEF RoutePolicy, RouteEntry
<1>2. Covered(e, policy.denied) <=> \E d \in policy.denied : prefixContains(d, e.prefix)
  BY <1>1, ContainsMeansSubset DEF Covered
<1>3. Covered(e, policy.allowed) <=> \E a \in policy.allowed : prefixContains(a, e.prefix)
  BY <1>1, ContainsMeansSubset DEF Covered
<1>4. (policy.maxPrefixes > 0 /\ c >= policy.maxPrefixes)
         <=> ~(policy.maxPrefixes = 0 \/ c < policy.maxPrefixes)
  BY <1>1
<1> QED  BY <1>2, <1>3, <1>4 DEF EvaluatePrefix, Eligible

(* The equation by which the code computes its count. *)
Counts(policy, s, f) ==
    f = [i \in 0..Len(s) |->
           IF i = 0 THEN 0
           ELSE f[i - 1] + IF EvaluatePrefix(policy, s[i].prefix, f[i - 1]) = "accept" THEN 1 ELSE 0]

(* What it computes: the eligible routes so far, but no more than the limit. *)
Limited(policy, n) ==
    IF policy.maxPrefixes = 0 \/ n < policy.maxPrefixes THEN n ELSE policy.maxPrefixes

(* One round of the loop of EffectiveRoutes. *)
LEMMA LimitedStep ==
    ASSUME NEW policy \in RoutePolicy, NEW s \in Seq(RouteEntry), NEW i \in 1..Len(s),
           NEW n, n = EligibleUpTo(policy, s, i - 1),
           NEW m, m = EligibleUpTo(policy, s, i)
    PROVE  /\ n \in Nat /\ Limited(policy, n) \in Nat
           /\ Limited(policy, m) =
                Limited(policy, n)
                  + IF EvaluatePrefix(policy, s[i].prefix, Limited(policy, n)) = "accept" THEN 1 ELSE 0
           /\ EvaluatePrefix(policy, s[i].prefix, Limited(policy, n)) = Verdict(policy, s, i)
<1>1. i \in Nat \ {0} /\ s[i] \in RouteEntry
  BY Elements
<1>2. n \in Nat /\ m = n + IF Eligible(policy, s[i]) THEN 1 ELSE 0
  BY <1>1, EligibleStep
<1>3. policy.maxPrefixes \in Nat
  BY DEF RoutePolicy
<1>4. PICK c \in Nat : c = Limited(policy, n)
  BY <1>2, <1>3 DEF Limited
<1>5. (policy.maxPrefixes = 0 \/ c < policy.maxPrefixes) <=> (policy.maxPrefixes = 0 \/ n < policy.maxPrefixes)
  BY <1>2, <1>3, <1>4 DEF Limited
<1>6. EvaluatePrefix(policy, s[i].prefix, c) =
              IF Covered(s[i], policy.denied) THEN "deny"
              ELSE IF Eligible(policy, s[i]) /\ (policy.maxPrefixes = 0 \/ n < policy.maxPrefixes)
                   THEN "accept" ELSE "filtered"
  BY <1>1, <1>5, EvaluateMeaning
<1>7. Eligible(policy, s[i]) => ~Covered(s[i], policy.denied)
  BY DEF Eligible
<1>8. EvaluatePrefix(policy, s[i].prefix, c) = "accept"
        <=> Eligible(policy, s[i]) /\ (policy.maxPrefixes = 0 \/ n < policy.maxPrefixes)
  BY <1>6, <1>7
<1>9. Limited(policy, m) = c + IF EvaluatePrefix(policy, s[i].prefix, c) = "accept" THEN 1 ELSE 0
  <2>1. CASE Eligible(policy, s[i]) /\ (policy.maxPrefixes = 0 \/ n < policy.maxPrefixes)
    <3>1. m = n + 1 /\ c = n
      BY <1>2, <1>4, <2>1 DEF Limited
    <3> QED  BY <1>2, <1>3, <1>8, <2>1, <3>1 DEF Limited
  <2>2. CASE Eligible(policy, s[i]) /\ ~(policy.maxPrefixes = 0 \/ n < policy.maxPrefixes)
    <3>1. m = n + 1 /\ c = policy.maxPrefixes
      BY <1>2, <1>4, <2>2 DEF Limited
    <3> QED  BY <1>2, <1>3, <1>8, <2>2, <3>1 DEF Limited
  <2>3. CASE ~Eligible(policy, s[i])
    <3>1. m = n
      BY <1>2, <2>3
    <3> QED  BY <1>4, <1>8, <2>3, <3>1
  <2> QED  BY <2>1, <2>2, <2>3
<1>10. EvaluatePrefix(policy, s[i].prefix, c) = Verdict(policy, s, i)
  <2>1. n = Cardinality({j \in 1..(i - 1) : Eligible(policy, s[j])})
    BY DEF EligibleUpTo
  <2> QED  BY <1>6, <1>7, <2>1 DEF Verdict
<1> QED  BY <1>2, <1>4, <1>9, <1>10

(* Some function satisfies the recursion of the loop's counter. *)
LEMMA CountExists ==
    ASSUME NEW policy \in RoutePolicy, NEW s \in Seq(RouteEntry)
    PROVE  \E f : Counts(policy, s, f)
<1>0. Len(s) \in Nat
  BY Elements
<1>1. PICK f : f = [i \in 0..Len(s) |-> Limited(policy, EligibleUpTo(policy, s, i))]
  OBVIOUS
<1>2. ASSUME NEW i \in 0..Len(s)
      PROVE  f[i] = IF i = 0 THEN 0
                    ELSE f[i - 1] + IF EvaluatePrefix(policy, s[i].prefix, f[i - 1]) = "accept" THEN 1 ELSE 0
  <2>1. CASE i = 0
    BY <1>0, <1>1, <2>1, EligibleStep DEF Limited, RoutePolicy
  <2>2. CASE i # 0
    <3>1. i \in 1..Len(s) /\ i - 1 \in 0..Len(s)
      BY <1>0, <2>2
    <3>2. /\ f[i] = Limited(policy, EligibleUpTo(policy, s, i))
          /\ f[i - 1] = Limited(policy, EligibleUpTo(policy, s, i - 1))
      BY <1>1, <3>1
    <3> QED  BY <2>2, <3>1, <3>2, LimitedStep
  <2> QED  BY <2>1, <2>2
<1>3. Counts(policy, s, f)
  BY <1>1, <1>2 DEF Counts
<1> QED  BY <1>3

(* The counter of the loop is the number of eligible entries, up to the limit. *)
LEMMA CountMeaning ==
    ASSUME NEW policy \in RoutePolicy, NEW s \in Seq(RouteEntry), NEW i \in 0..Len(s)
    PROVE  AcceptedBefore(policy, s)[i] = Limited(policy, EligibleUpTo(policy, s, i))
<1>0. Len(s) \in Nat
  BY Elements
<1>1. PICK f : f = AcceptedBefore(policy, s) /\ Counts(policy, s, f)
  BY CountExists DEF AcceptedBefore, Counts
<1>2. PICK D : D = {k \in 0..Len(s) : f[k] # Limited(policy, EligibleUpTo(policy, s, k))}
  OBVIOUS
<1>3. ASSUME D # {} PROVE FALSE
  <2>1. PICK k \in D : \A m \in D : k <= m
    <3>1. D \in SUBSET Nat
      BY <1>0, <1>2
    <3> QED  BY <1>3, <3>1, LeastElement
  <2>2. k \in 0..Len(s) /\ f[k] # Limited(policy, EligibleUpTo(policy, s, k))
    BY <1>2
  <2>3. f[k] = IF k = 0 THEN 0
               ELSE f[k - 1] + IF EvaluatePrefix(policy, s[k].prefix, f[k - 1]) = "accept" THEN 1 ELSE 0
    BY <1>1, <2>2 DEF Counts
  <2>4. CASE k = 0
    BY <2>2, <2>3, <2>4, EligibleStep DEF Limited, RoutePolicy
  <2>5. CASE k # 0
    <3>1. k \in 1..Len(s) /\ k - 1 \in 0..Len(s) /\ ~(k <= k - 1)
      BY <1>0, <2>2, <2>5
    <3>2. f[k - 1] = Limited(policy, EligibleUpTo(policy, s, k - 1))
      BY <1>2, <2>1, <3>1
    <3> QED  BY <2>2, <2>3, <2>5, <3>1, <3>2, LimitedStep
  <2> QED  BY <2>4, <2>5
<1> QED  BY <1>1, <1>2, <1>3

(* What GetEffectiveRoutes says of a route is the verdict of the policy,   *)
(* for any policy, any routes and any limit: the running count of the code *)
(* stops at the limit, and until then it is the number of eligible routes. *)
THEOREM EffectiveMeansVerdict ==
    ASSUME NEW policy \in RoutePolicy, NEW s \in Seq(RouteEntry), NEW i \in DOMAIN s
    PROVE  EffectiveRoutes(policy, s)[i] = Verdict(policy, s, i)
<1>1. Len(s) \in Nat /\ DOMAIN s = 1..Len(s)
  BY Elements
<1>2. i \in 1..Len(s) /\ i - 1 \in 0..Len(s)
  BY <1>1
<1>3. AcceptedBefore(policy, s)[i - 1] = Limited(policy, EligibleUpTo(policy, s, i - 1))
  BY <1>2, CountMeaning
<1> QED  BY <1>2, <1>3, LimitedStep DEF EffectiveRoutes

(* Every effective-routes request in flight gets the verdicts of the *)
(* policies it listed.                                               *)
THEOREM EffectiveFollowsPolicyHolds == Spec => []EffectiveFollowsPolicy
<1>1. ASSUME TypeOK PROVE EffectiveFollowsPolicy
  <2> SUFFICES ASSUME NEW r \in Requests, At(r, "effective"), NEW p \in DOMAIN reqs[r].listed,
                      NEW i \in DOMAIN routes[p]
               PROVE  EffectiveRoutes(reqs[r].listed[p], routes[p])[i]
                        = Verdict(reqs[r].listed[p], routes[p], i)
    BY DEF EffectiveFollowsPolicy
  <2>1. PICK S \in SUBSET Peerings : reqs[r].listed \in [S -> Policies]
    BY <1>1, RequestKinds DEF EffectiveRequest
  <2>2. reqs[r].listed[p] \in RoutePolicy /\ p \in Peerings
    BY <2>1, PolicyAssumption
  <2>3. routes[p] \in Seq(RouteEntry)
    BY <1>1, <2>2 DEF TypeOK
  <2> QED  BY <2>2, <2>3, EffectiveMeansVerdict
<1> QED  BY <1>1, TypeCorrect, PTL

(* Withdrawing a prefix really removes it: no second entry of the peering *)
(* for the same prefix takes its place.                                   *)
THEOREM WithdrawRemoves ==
    Spec => [][\A r \in Requests : Withdraw(r) => ~Has(routes'[reqs[r].p], reqs[r].prefix)]_vars
<1>1. ASSUME IInv, NEW r \in Requests, Withdraw(r)
      PROVE  ~Has(routes'[reqs[r].p], reqs[r].prefix)
  <2>0. TypeOK /\ OneRoutePerPrefix
    BY <1>1 DEF IInv
  <2>1. PICK u \in OverrideRequest : u = reqs[r]
    BY <1>1, <2>0, RequestKinds DEF Withdraw
  <2>2. u.p \in Peerings
    BY DEF OverrideRequest
  <2>3. routes[u.p] \in Seq(RouteEntry) /\ Unique(routes[u.p])
    BY <2>0, <2>2 DEF TypeOK, OneRoutePerPrefix, Unique
  <2>4. routes'[u.p] = DeleteRoute(routes[u.p], u.prefix)
    BY <1>1, <2>0, <2>1, <2>2 DEF Withdraw, TypeOK
  <2> QED  BY <2>1, <2>3, <2>4, DeleteRouteProperties
<1>2. IInv => [\A r \in Requests : Withdraw(r) => ~Has(routes'[reqs[r].p], reqs[r].prefix)]_vars
  BY <1>1
<1> QED  BY <1>2, Inductive, PTL
=============================================================================
