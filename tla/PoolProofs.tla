------------------------------- MODULE PoolProofs -------------------------------
(***************************************************************************)
(* The document keeps its shape, IDs that are unique stay unique and       *)
(* references stay in place under every handler of Pool, for any number of *)
(* entities, any requests and any imported document.                       *)
(***************************************************************************)
EXTENDS Pool, PoolStateProofs

-----------------------------------------------------------------------------
(* Lists of entities with IDs of their own. *)

LEMMA AppendIs ==
    ASSUME NEW E, NEW list \in Seq(E), NEW e \in E
    PROVE  /\ Append(list, e) \in Seq(E)
           /\ Len(Append(list, e)) = Len(list) + 1
           /\ \A i \in DOMAIN list : Append(list, e)[i] = list[i]
           /\ Append(list, e)[Len(list) + 1] = e
           /\ Ids(Append(list, e)) = Ids(list) \cup {e.id}
           /\ Unshared(list) /\ e.id \notin Ids(list) => Unshared(Append(list, e))
<1> DEFINE app == Append(list, e)
           n == Len(list)
<1>1. /\ n \in Nat /\ DOMAIN list = 1..n
      /\ app \in Seq(E) /\ Len(app) = n + 1
      /\ \A i \in 1..n : app[i] = list[i]
      /\ app[n + 1] = e
    BY AppendProperties
<1>2. DOMAIN app = 1..(n + 1)
    BY <1>1
<1> HIDE DEF app, n
<1>3. Ids(app) = Ids(list) \cup {e.id}
    <2>1. \A i \in 1..(n + 1) : i \in 1..n \/ i = n + 1
        BY <1>1
    <2>2. n + 1 \in DOMAIN app /\ \A i \in 1..n : i \in DOMAIN app
        BY <1>1, <1>2
    <2> QED BY <1>1, <1>2, <2>1, <2>2 DEF Ids
<1>4. ASSUME Unshared(list), e.id \notin Ids(list) PROVE Unshared(app)
    <2>1. \A i \in 1..(n + 1) : i \in 1..n \/ i = n + 1
        BY <1>1
    <2>2. \A i \in 1..n : list[i].id # e.id
        BY <1>1, <1>4 DEF Ids
    <2>3. SUFFICES ASSUME NEW i \in 1..(n + 1), NEW j \in 1..(n + 1), app[i].id = app[j].id
                   PROVE  i = j
        BY <1>2 DEF Unshared
    <2>4. CASE i \in 1..n /\ j \in 1..n
        BY <1>1, <1>4, <2>3, <2>4 DEF Unshared
    <2>5. CASE i \in 1..n /\ j = n + 1
        BY <1>1, <2>2, <2>3, <2>5
    <2>6. CASE i = n + 1 /\ j \in 1..n
        BY <1>1, <2>2, <2>3, <2>6
    <2> QED BY <2>1, <2>4, <2>5, <2>6
<1> QED BY <1>1, <1>3, <1>4 DEF app, n

LEMMA RemoveIs ==
    ASSUME NEW E, NEW list \in Seq(E), NEW i \in DOMAIN list
    PROVE  /\ RemoveAt(list, i) \in Seq(E)
           /\ ToSet(RemoveAt(list, i)) \subseteq ToSet(list)
           /\ Ids(RemoveAt(list, i)) \subseteq Ids(list)
           /\ Ids(list) \ {list[i].id} \subseteq Ids(RemoveAt(list, i))
           /\ Unshared(list) => /\ Unshared(RemoveAt(list, i))
                                /\ list[i].id \notin Ids(RemoveAt(list, i))
<1> DEFINE rem == RemoveAt(list, i)
           n == Len(list)
           Old(j) == IF j < i THEN j ELSE j + 1
<1>1. /\ rem \in Seq(E) /\ Len(rem) = n - 1
      /\ \A j \in 1..(n - 1) : rem[j] = IF j < i THEN list[j] ELSE list[j + 1]
    BY RemoveAtIs
<1>2. /\ n \in Nat /\ DOMAIN list = 1..n /\ i \in 1..n
      /\ DOMAIN rem = 1..(n - 1)
    <2> HIDE DEF rem
    <2> QED BY <1>1
<1> HIDE DEF rem, n
<1>3. \A j \in 1..(n - 1) : Old(j) \in 1..n /\ Old(j) # i /\ rem[j] = list[Old(j)]
    BY <1>1, <1>2
<1>4. \A j, k \in 1..(n - 1) : Old(j) = Old(k) => j = k
    BY <1>2
<1>5. \A j \in 1..n : j # i => \E k \in 1..(n - 1) : Old(k) = j
    <2>1. ASSUME NEW j \in 1..n, j # i PROVE \E k \in 1..(n - 1) : Old(k) = j
        <3>1. CASE j < i
            <4>1. j \in 1..(n - 1) /\ Old(j) = j
                BY <1>2, <3>1
            <4> QED BY <4>1
        <3>2. CASE ~(j < i)
            <4>1. j - 1 \in 1..(n - 1) /\ Old(j - 1) = j
                BY <1>2, <2>1, <3>2
            <4> QED BY <4>1
        <3> QED BY <3>1, <3>2
    <2> QED BY <2>1
<1> HIDE DEF Old
<1>6. ToSet(rem) \subseteq ToSet(list) /\ Ids(rem) \subseteq Ids(list)
    BY <1>2, <1>3 DEF ToSet, Ids
<1>7. Ids(list) \ {list[i].id} \subseteq Ids(rem)
    <2>1. ASSUME NEW j \in DOMAIN list, list[j].id # list[i].id
          PROVE  list[j].id \in Ids(rem)
        <3>1. PICK k \in 1..(n - 1) : Old(k) = j
            BY <1>2, <1>5, <2>1
        <3>2. k \in DOMAIN rem /\ rem[k].id = list[j].id
            BY <1>2, <1>3, <3>1
        <3> QED BY <3>2 DEF Ids
    <2> QED BY <2>1 DEF Ids
<1>8. ASSUME Unshared(list) PROVE Unshared(rem) /\ list[i].id \notin Ids(rem)
    BY <1>2, <1>3, <1>4, <1>8 DEF Unshared, Ids
<1> QED BY <1>1, <1>6, <1>7, <1>8 DEF rem

LEMMA ReplaceIs ==
    ASSUME NEW E, NEW list \in Seq(E), NEW i \in DOMAIN list, NEW e \in E,
           e.id = list[i].id
    PROVE  /\ [list EXCEPT ![i] = e] \in Seq(E)
           /\ DOMAIN [list EXCEPT ![i] = e] = DOMAIN list
           /\ \A j \in DOMAIN list : [list EXCEPT ![i] = e][j] = IF j = i THEN e ELSE list[j]
           /\ Ids([list EXCEPT ![i] = e]) = Ids(list)
           /\ Unshared(list) => Unshared([list EXCEPT ![i] = e])
<1> DEFINE rep == [list EXCEPT ![i] = e]
<1>1. /\ rep \in Seq(E) /\ DOMAIN rep = DOMAIN list
      /\ \A j \in DOMAIN list : rep[j] = IF j = i THEN e ELSE list[j]
    <2>1. DOMAIN list = 1..Len(list)
        OBVIOUS
    <2> QED BY <2>1, ExceptSeq
<1> HIDE DEF rep
<1>2. \A j \in DOMAIN list : rep[j].id = list[j].id
    BY <1>1
<1>3. Ids(rep) = Ids(list) /\ (Unshared(list) => Unshared(rep))
    BY <1>1, <1>2 DEF Ids, Unshared
<1> QED BY <1>1, <1>3 DEF rep

LEMMA PrunedIs ==
    ASSUME NEW groups \in Seq(Group), NEW id
    PROVE  /\ Pruned(groups, id) \in Seq(Group)
           /\ DOMAIN Pruned(groups, id) = DOMAIN groups
           /\ Ids(Pruned(groups, id)) = Ids(groups)
           /\ Unshared(groups) => Unshared(Pruned(groups, id))
           /\ id \notin Ids(groups) =>
                \A h \in ToSet(Pruned(groups, id)) : id \notin h.members
<1> DEFINE p == Pruned(groups, id)
           Cut(g) == [g EXCEPT !.members = @ \ {id}]
<1>1. /\ Len(groups) \in Nat /\ DOMAIN groups = 1..Len(groups)
      /\ \A i \in DOMAIN groups : groups[i] \in Group
    <2> HIDE DEF Group
    <2> QED OBVIOUS
<1>2. p = [i \in DOMAIN groups |-> IF groups[i].id = id THEN groups[i] ELSE Cut(groups[i])]
    BY DEF Pruned
<1> HIDE DEF p
<1>3. \A g \in Group : /\ Cut(g) \in Group /\ Cut(g).id = g.id
                       /\ id \notin Cut(g).members
    BY DEF Group
<1> HIDE DEF Cut
<1>4. \A i \in DOMAIN groups : /\ p[i] \in Group
                              /\ p[i].id = groups[i].id
                              /\ (groups[i].id # id => id \notin p[i].members)
    <2> HIDE DEF Group
    <2> QED BY <1>1, <1>2, <1>3
<1>5. p \in [1..Len(groups) -> Group] /\ DOMAIN p = DOMAIN groups
    <2> DEFINE V(i) == IF groups[i].id = id THEN groups[i] ELSE Cut(groups[i])
    <2>1. p = [i \in 1..Len(groups) |-> V(i)]
        BY <1>1, <1>2
    <2>2. \A i \in 1..Len(groups) : V(i) \in Group
        <3> HIDE DEF Group
        <3> QED BY <1>1, <1>3
    <2> HIDE DEF V, Group
    <2> QED BY <1>1, <2>1, <2>2
<1>6. p \in Seq(Group)
    <2> HIDE DEF Group
    <2> QED BY <1>1, <1>5
<1>7. Ids(p) = Ids(groups) /\ (Unshared(groups) => Unshared(p))
    <2>1. DOMAIN p = DOMAIN groups /\ \A i \in DOMAIN groups : p[i].id = groups[i].id
        BY <1>4, <1>5
    <2>2. Ids(p) \subseteq Ids(groups) /\ Ids(groups) \subseteq Ids(p)
        BY <2>1 DEF Ids
    <2>3. Unshared(groups) => Unshared(p)
        BY <2>1 DEF Unshared
    <2> QED BY <2>2, <2>3
<1>8. id \notin Ids(groups) => \A h \in ToSet(p) : id \notin h.members
    <2>1. /\ DOMAIN p = DOMAIN groups
          /\ \A i \in DOMAIN groups : groups[i].id # id => id \notin p[i].members
        BY <1>4, <1>5
    <2>2. id \notin Ids(groups) => \A i \in DOMAIN groups : groups[i].id # id
        BY DEF Ids
    <2>3. \A h \in ToSet(p) : \E i \in DOMAIN p : h = p[i]
        BY DEF ToSet
    <2> QED BY <2>1, <2>2, <2>3
<1> QED BY <1>5, <1>6, <1>7, <1>8 DEF p

-----------------------------------------------------------------------------
(* Changes to one field of the document. *)

LEMMA FieldEdits ==
    ASSUME NEW s \in State
    PROVE  /\ \A l \in Seq(Source) :
                 LET t == [s EXCEPT !.sources = l] IN
                 /\ t \in State /\ t.sources = l /\ t.servers = s.servers
                 /\ t.groups = s.groups /\ t.routes = s.routes
           /\ \A l \in Seq(Server) :
                 LET t == [s EXCEPT !.servers = l] IN
                 /\ t \in State /\ t.servers = l /\ t.sources = s.sources
                 /\ t.groups = s.groups /\ t.routes = s.routes
           /\ \A l \in Seq(Group) :
                 LET t == [s EXCEPT !.groups = l] IN
                 /\ t \in State /\ t.groups = l /\ t.sources = s.sources
                 /\ t.servers = s.servers /\ t.routes = s.routes
           /\ \A l \in Seq(Route) :
                 LET t == [s EXCEPT !.routes = l] IN
                 /\ t \in State /\ t.routes = l /\ t.sources = s.sources
                 /\ t.servers = s.servers /\ t.groups = s.groups
           /\ \A p \in TargetIds :
                 LET t == [s EXCEPT !.policy = p] IN
                 /\ t \in State /\ t.routes = s.routes /\ t.sources = s.sources
                 /\ t.servers = s.servers /\ t.groups = s.groups
           /\ \A h \in SUBSET DOMAIN Catalog :
                 LET t == [s EXCEPT !.hidden = h] IN
                 /\ t \in State /\ t.routes = s.routes /\ t.sources = s.sources
                 /\ t.servers = s.servers /\ t.groups = s.groups
<1> DEFINE A == Seq(Source)
           B == Seq(Server)
           C == Seq(Group)
           D == Seq(Route)
           H == SUBSET DOMAIN Catalog
<1>1. State = [sources : A, servers : B, groups : C, routes : D, policy : TargetIds,
               hidden : H]
    BY DEF State
<1> HIDE DEF A, B, C, D, H
<1>2. \A l \in A : LET t == [s EXCEPT !.sources = l] IN
                   /\ t \in State /\ t.sources = l /\ t.servers = s.servers
                   /\ t.groups = s.groups /\ t.routes = s.routes
    BY <1>1
<1>3. \A l \in B : LET t == [s EXCEPT !.servers = l] IN
                   /\ t \in State /\ t.servers = l /\ t.sources = s.sources
                   /\ t.groups = s.groups /\ t.routes = s.routes
    BY <1>1
<1>4. \A l \in C : LET t == [s EXCEPT !.groups = l] IN
                   /\ t \in State /\ t.groups = l /\ t.sources = s.sources
                   /\ t.servers = s.servers /\ t.routes = s.routes
    BY <1>1
<1>5. \A l \in D : LET t == [s EXCEPT !.routes = l] IN
                   /\ t \in State /\ t.routes = l /\ t.sources = s.sources
                   /\ t.servers = s.servers /\ t.groups = s.groups
    BY <1>1
<1>6. \A p \in TargetIds : LET t == [s EXCEPT !.policy = p] IN
                   /\ t \in State /\ t.routes = s.routes /\ t.sources = s.sources
                   /\ t.servers = s.servers /\ t.groups = s.groups
    BY <1>1
<1>7. \A h \in H : LET t == [s EXCEPT !.hidden = h] IN
                   /\ t \in State /\ t.routes = s.routes /\ t.sources = s.sources
                   /\ t.servers = s.servers /\ t.groups = s.groups
    BY <1>1
<1> QED BY <1>2, <1>3, <1>4, <1>5, <1>6, <1>7 DEF A, B, C, D, H

LEMMA Fields ==
    ASSUME NEW s \in State
    PROVE  /\ s.sources \in Seq(Source) /\ s.servers \in Seq(Server)
           /\ s.groups \in Seq(Group) /\ s.routes \in Seq(Route)
           /\ s.policy \in TargetIds /\ s.hidden \subseteq DOMAIN Catalog
<1> DEFINE A == Seq(Source)
           B == Seq(Server)
           C == Seq(Group)
           D == Seq(Route)
<1>1. State = [sources : A, servers : B, groups : C, routes : D, policy : TargetIds,
               hidden : SUBSET DOMAIN Catalog]
    BY DEF State
<1> HIDE DEF A, B, C, D
<1>2. /\ s.sources \in A /\ s.servers \in B /\ s.groups \in C /\ s.routes \in D
      /\ s.policy \in TargetIds /\ s.hidden \subseteq DOMAIN Catalog
    BY <1>1
<1> QED BY <1>2 DEF A, B, C, D

(* What holds of the document in every state: it has its shape, and an     *)
(* enabled route has a target that exists, or a server.                    *)
Exists(s, target) == target \in {Direct, Reject} \cup Ids(s.groups) \cup ServerIds

TargetsExist(s) == \A i \in Enabled(s) : Exists(s, s.routes[i].target)

Good(s) == s \in State /\ TargetsExist(s)

(* What every request but an import leaves to a document that has it.      *)
Kept(s, t) ==
    /\ Unshared(s.sources) => Unshared(t.sources)
    /\ Unshared(s.groups) => Unshared(t.groups)
    /\ Unshared(s.routes) => Unshared(t.routes)
    /\ Owned(s) => Owned(t)

LEMMA KeptThrough ==
    ASSUME NEW s, NEW t, NEW u, Kept(s, t), Kept(t, u)
    PROVE  Kept(s, u)
BY DEF Kept

LEMMA KeptSame == \A s : Kept(s, s)
BY DEF Kept

(* A source may be added, and servers may go or be replaced by servers of  *)
(* the sources there are.                                                  *)
LEMMA SourcesGrow ==
    ASSUME NEW s, Good(s), NEW l \in Seq(Source), Unshared(s.sources) => Unshared(l),
           Ids(s.sources) \subseteq Ids(l)
    PROVE  /\ Good([s EXCEPT !.sources = l])
           /\ Kept(s, [s EXCEPT !.sources = l])
<1> DEFINE t == [s EXCEPT !.sources = l]
<1>1. /\ t \in State /\ t.sources = l /\ t.servers = s.servers
      /\ t.groups = s.groups /\ t.routes = s.routes
    BY FieldEdits DEF Good
<1> HIDE DEF t
<1>2. Good(t) /\ Kept(s, t)
    BY <1>1 DEF Good, Kept, Owned, TargetsExist, Enabled, Exists
<1> QED BY <1>2 DEF t

LEMMA ServersChange ==
    ASSUME NEW s, Good(s), NEW l \in Seq(Server),
           Owned(s) => \A v \in ToSet(l) : v.source \in Ids(s.sources)
    PROVE  /\ Good([s EXCEPT !.servers = l])
           /\ Kept(s, [s EXCEPT !.servers = l])
<1> DEFINE t == [s EXCEPT !.servers = l]
<1>1. /\ t \in State /\ t.sources = s.sources /\ t.servers = l
      /\ t.groups = s.groups /\ t.routes = s.routes
    BY FieldEdits DEF Good
<1> HIDE DEF t
<1>2. Good(t) /\ Kept(s, t)
    BY <1>1 DEF Good, Kept, Owned, TargetsExist, Enabled, Exists
<1> QED BY <1>2 DEF t

LEMMA GroupsChange ==
    ASSUME NEW s, Good(s), NEW l \in Seq(Group), Unshared(s.groups) => Unshared(l),
           \A id \in Ids(s.groups) \ Ids(l) : RoutesTargeting(s, id) = {}
    PROVE  /\ Good([s EXCEPT !.groups = l])
           /\ Kept(s, [s EXCEPT !.groups = l])
<1> DEFINE t == [s EXCEPT !.groups = l]
<1>1. /\ t \in State /\ t.sources = s.sources /\ t.servers = s.servers
      /\ t.groups = l /\ t.routes = s.routes
    BY FieldEdits DEF Good
<1> HIDE DEF t
<1>2. t \in State /\ Kept(s, t)
    BY <1>1 DEF Kept, Owned
<1>3. TargetsExist(t)
    <2>1. \A i \in DOMAIN s.routes : s.routes[i].target \in Ids(s.groups)
                                       => s.routes[i].target \in Ids(l)
        BY DEF RoutesTargeting
    <2> QED BY <1>1, <2>1 DEF Good, TargetsExist, Enabled, Exists
<1> QED BY <1>2, <1>3 DEF t, Good

LEMMA RoutesChange ==
    ASSUME NEW s, Good(s), NEW l \in Seq(Route), Unshared(s.routes) => Unshared(l),
           \A i \in DOMAIN l : l[i].enabled => Exists(s, l[i].target)
    PROVE  /\ Good([s EXCEPT !.routes = l])
           /\ Kept(s, [s EXCEPT !.routes = l])
<1> DEFINE t == [s EXCEPT !.routes = l]
<1>1. /\ t \in State /\ t.sources = s.sources /\ t.servers = s.servers
      /\ t.groups = s.groups /\ t.routes = l
    BY FieldEdits DEF Good
<1> HIDE DEF t
<1>2. Good(t) /\ Kept(s, t)
    BY <1>1 DEF Good, Kept, Owned, TargetsExist, Enabled, Exists
<1> QED BY <1>2 DEF t

-----------------------------------------------------------------------------
(* Operations that several handlers share. *)

LEMMA AddSourceIs ==
    ASSUME NEW s, Good(s), NEW kind \in {"subscription", "manual"},
           NEW on \in BOOLEAN
    PROVE  LET t == AddSource(s, kind, on) IN
           /\ Good(t) /\ Kept(s, t)
           /\ t.servers = s.servers /\ t.groups = s.groups /\ t.routes = s.routes
           /\ Ids(s.sources) \subseteq Ids(t.sources)
           /\ \E i \in DOMAIN t.sources : t.sources[i].kind = kind
<1> DEFINE id == NewID("sub", s.sources)
           e == [id |-> id, kind |-> kind, enabled |-> on]
           l == Append(s.sources, e)
<1>1. s \in State /\ s.sources \in Seq(Source)
    BY Fields DEF Good
<1>2. id \in SubIds /\ id \notin Ids(s.sources)
    BY <1>1, NewIDIs DEF SubIds
<1> HIDE DEF id
<1>3. e \in Source /\ e.id = id /\ e.kind = kind
    BY <1>2 DEF Source, Kinds
<1> HIDE DEF e
<1>4. /\ l \in Seq(Source) /\ (Unshared(s.sources) => Unshared(l)) /\ Ids(s.sources) \subseteq Ids(l)
      /\ Len(l) = Len(s.sources) + 1 /\ l[Len(s.sources) + 1] = e
    BY <1>1, <1>2, <1>3, AppendIs
<1>5. Len(s.sources) + 1 \in DOMAIN l
    <2>1. DOMAIN l = 1..Len(l) /\ Len(s.sources) \in Nat
        <3> HIDE DEF l
        <3> QED BY <1>1, <1>4
    <2> HIDE DEF l
    <2> QED BY <1>4, <2>1
<1> DEFINE t == [s EXCEPT !.sources = l]
<1> HIDE DEF l
<1>6. Good(t) /\ Kept(s, t)
    BY <1>4, SourcesGrow
<1>7. /\ t.servers = s.servers /\ t.groups = s.groups /\ t.routes = s.routes
      /\ t.sources = l
    BY <1>1, <1>4, FieldEdits
<1>8. AddSource(s, kind, on) = t
    BY DEF AddSource, l, e, id
<1> QED BY <1>3, <1>4, <1>5, <1>6, <1>7, <1>8

(* A route is added behind the others, with a number of its own.           *)
LEMMA AddRouteIs ==
    ASSUME NEW s, Good(s), NEW r, r.order \in Int, r.enabled \in BOOLEAN,
           r.conds \subseteq Conds, r.provs \subseteq Provs, r.target \in TargetIds,
           r.enabled => Exists(s, r.target)
    PROVE  LET t == AddRoute(s, r)
               n == Len(s.routes) IN
           /\ Good(t) /\ Kept(s, t)
           /\ t.sources = s.sources /\ t.servers = s.servers /\ t.groups = s.groups
           /\ n \in Nat /\ Len(t.routes) = n + 1
           /\ \A i \in 1..n : t.routes[i] = s.routes[i]
           /\ t.routes[n + 1].id \notin Ids(s.routes)
           /\ t.routes[n + 1].order = r.order
           /\ t.routes[n + 1].enabled = r.enabled
           /\ t.routes[n + 1].conds = r.conds
           /\ t.routes[n + 1].target = r.target
<1> DEFINE id == NewID("rt", s.routes)
           e == [id |-> id, order |-> r.order, enabled |-> r.enabled,
                 conds |-> r.conds, provs |-> r.provs, target |-> r.target]
           l == Append(s.routes, e)
           n == Len(s.routes)
<1>1. s \in State /\ s.routes \in Seq(Route)
    BY Fields DEF Good
<1>2. id \in RouteIds /\ id \notin Ids(s.routes)
    BY <1>1, NewIDIs DEF RouteIds
<1> HIDE DEF id
<1>3. /\ e \in Route /\ e.id = id /\ e.order = r.order /\ e.enabled = r.enabled
      /\ e.conds = r.conds /\ e.target = r.target
    BY <1>2 DEF Route
<1> HIDE DEF e
<1>4. /\ l \in Seq(Route) /\ (Unshared(s.routes) => Unshared(l)) /\ Len(l) = n + 1 /\ l[n + 1] = e
      /\ n \in Nat /\ \A i \in 1..n : l[i] = s.routes[i]
    <2>1. n \in Nat /\ DOMAIN s.routes = 1..n
        BY <1>1
    <2> QED BY <1>1, <1>2, <1>3, <2>1, AppendIs
<1> DEFINE t == [s EXCEPT !.routes = l]
<1>5. ASSUME NEW i \in DOMAIN l PROVE l[i].enabled => Exists(s, l[i].target)
    <2>1. DOMAIN l = 1..(n + 1) /\ DOMAIN s.routes = 1..n
        <3> HIDE DEF l
        <3> QED BY <1>1, <1>4
    <2> HIDE DEF l, n
    <2>2. CASE i \in 1..n
        BY <1>4, <2>1, <2>2 DEF Good, TargetsExist, Enabled
    <2>3. CASE i = n + 1
        BY <1>3, <1>4, <2>3
    <2> QED BY <1>4, <2>1, <2>2, <2>3
<1> HIDE DEF l, n
<1>6. Good(t) /\ Kept(s, t)
    BY <1>4, <1>5, RoutesChange
<1>7. /\ t.sources = s.sources /\ t.servers = s.servers /\ t.groups = s.groups
      /\ t.routes = l
    BY <1>1, <1>4, FieldEdits
<1>8. AddRoute(s, r) = t
    BY DEF AddRoute, l, e, id
<1> HIDE DEF t
<1> QED BY <1>2, <1>3, <1>4, <1>6, <1>7, <1>8 DEF n

-----------------------------------------------------------------------------
(* What the requests and the look-ups name. *)

LEMMA IdTypes ==
    ASSUME NEW s \in State
    PROVE  /\ Ids(s.sources) \subseteq SubIds /\ Ids(s.servers) \subseteq ServerIds
           /\ Ids(s.groups) \subseteq GroupIds
<1>1. /\ \A i \in DOMAIN s.sources : s.sources[i] \in Source
      /\ \A i \in DOMAIN s.servers : s.servers[i] \in Server
      /\ \A i \in DOMAIN s.groups : s.groups[i] \in Group
    <2> HIDE DEF Source, Server, Group
    <2>1. /\ s.sources \in Seq(Source) /\ s.servers \in Seq(Server)
          /\ s.groups \in Seq(Group)
        BY Fields
    <2> QED BY <2>1
<1> QED BY <1>1 DEF Ids, Source, Server, Group

LEMMA IdsDiffer ==
    /\ ServerIds \cap GroupIds = {}
    /\ Direct \notin ServerIds /\ Reject \notin ServerIds
<1>1. /\ \A x \in ServerIds : x[1] = "srv"
      /\ \A x \in GroupIds : x[1] = "grp"
    BY DEF ServerIds, GroupIds
<1>2. Direct[1] = "DIRECT" /\ Reject[1] = "REJECT"
    BY DEF Direct, Reject
<1> QED BY <1>1, <1>2

LEMMA ValidTargetIs ==
    ASSUME NEW s \in State, NEW t, ValidTarget(s, t)
    PROVE  Exists(s, t) /\ t \in TargetIds
BY IdTypes DEF ValidTarget, Exists, TargetIds, MemberIds

LEMMA TargetsTyped ==
    ASSUME RequestsAssumption, st \in State
    PROVE  Members \subseteq MemberIds /\ Targets \subseteq TargetIds
<1>1. Remembered \subseteq GroupIds
    BY DEF RequestsAssumption
<1> QED BY <1>1, IdTypes DEF Members, Targets, MemberIds, TargetIds

LEMMA PolicyTargetIs ==
    ASSUME NEW s \in State, NEW policy
    PROVE  PolicyTarget(s, policy) \subseteq TargetIds
<1> DEFINE name == policy[1]
           G == {i \in 1..Len(s.groups) : s.groups[i].name = name}
           V == {i \in 1..Len(s.servers) : s.servers[i].name = name}
           g == IF G # {} THEN Min(G) ELSE 0
           v == IF V # {} THEN Min(V) ELSE 0
<1>1. /\ DOMAIN s.groups = 1..Len(s.groups) /\ Len(s.groups) \in Nat
      /\ DOMAIN s.servers = 1..Len(s.servers) /\ Len(s.servers) \in Nat
    BY Fields, LenProperties
<1>2. \A I \in SUBSET Nat : I # {} => Min(I) \in I
    BY LeastIs
<1>3. g # 0 => g \in DOMAIN s.groups
    <2>1. G \in SUBSET Nat /\ G \subseteq DOMAIN s.groups
        BY <1>1
    <2> HIDE DEF G
    <2> QED BY <1>2, <2>1
<1>4. v # 0 => v \in DOMAIN s.servers
    <2>1. V \in SUBSET Nat /\ V \subseteq DOMAIN s.servers
        BY <1>1
    <2> HIDE DEF V
    <2> QED BY <1>2, <2>1
<1>5. ByName(s, name) = IF g # 0 THEN {s.groups[g].id}
                        ELSE IF v # 0 THEN {s.servers[v].id} ELSE {}
    BY DEF ByName, SelectInSeq
<1> HIDE DEF g, v, name
<1>6. ByName(s, name) \subseteq MemberIds
    <2>1. g # 0 => s.groups[g].id \in Ids(s.groups)
        BY <1>3 DEF Ids
    <2>2. v # 0 => s.servers[v].id \in Ids(s.servers)
        BY <1>4 DEF Ids
    <2> QED BY <1>5, <2>1, <2>2, IdTypes DEF MemberIds
<1> QED BY <1>6 DEF PolicyTarget, TargetIds, name

(* nextOrder: above every order there is, however many routes there are.   *)
LEMMA OrdersBounded ==
    ASSUME NEW list \in Seq(Route)
    PROVE  \E b \in Nat : \A i \in DOMAIN list : list[i].order <= b
<1> DEFINE n == Len(list)
           Below(k, b) == \A i \in 1..k : list[i].order <= b
           S == {k \in Nat : k <= n => \E b \in Nat : Below(k, b)}
<1>1. n \in Nat /\ DOMAIN list = 1..n /\ \A i \in 1..n : list[i].order \in Int
    <2>1. n \in Nat /\ DOMAIN list = 1..n /\ \A i \in 1..n : list[i] \in Route
        <3> HIDE DEF Route
        <3> QED OBVIOUS
    <2> QED BY <2>1 DEF Route
<1> HIDE DEF n
<1>2. 0 \in S
    <2>1. Below(0, 0)
        OBVIOUS
    <2> HIDE DEF Below
    <2> QED BY <2>1
<1>3. ASSUME NEW k \in Nat, k + 1 <= n, NEW b \in Nat, Below(k, b)
      PROVE  \E c \in Nat : Below(k + 1, c)
    <2>1. list[k + 1].order \in Int
        BY <1>1, <1>3
    <2> DEFINE c == IF list[k + 1].order > b THEN list[k + 1].order ELSE b
    <2>2. c \in Nat /\ b <= c /\ list[k + 1].order <= c
        BY <2>1
    <2>3. Below(k + 1, c)
        <3> HIDE DEF c
        <3>1. ASSUME NEW i \in 1..(k + 1) PROVE list[i].order <= c
            <4>1. CASE i = k + 1
                BY <2>2, <4>1
            <4>2. CASE i \in 1..k
                <5>1. list[i].order <= b /\ list[i].order \in Int
                    BY <1>1, <1>3, <4>2
                <5> QED BY <2>2, <5>1
            <4> QED BY <4>1, <4>2
        <3> QED BY <3>1
    <2> QED BY <2>2, <2>3
<1>4. \A k \in Nat : k \in S => k + 1 \in S
    <2> HIDE DEF Below
    <2> QED BY <1>1, <1>3
<1>5. n \in S
    <2> HIDE DEF S
    <2> QED BY <1>1, <1>2, <1>4, SetInduction
<1>6. \E b \in Nat : Below(n, b)
    <2>1. n <= n
        BY <1>1
    <2> HIDE DEF Below
    <2> QED BY <1>5, <2>1
<1> QED BY <1>1, <1>6

LEMMA NextOrderIs ==
    ASSUME NEW s \in State
    PROVE  /\ NextOrder(s) \in Int
           /\ \A i \in DOMAIN s.routes : s.routes[i].order < NextOrder(s)
<1> DEFINE S == {0} \cup {s.routes[i].order : i \in DOMAIN s.routes}
           N == S \cap Nat
<1>1. s.routes \in Seq(Route)
    BY Fields
<1>2. \A i \in DOMAIN s.routes : s.routes[i].order \in Int
    <2>1. \A i \in DOMAIN s.routes : s.routes[i] \in Route
        <3> HIDE DEF Route
        <3> QED BY <1>1
    <2> QED BY <2>1 DEF Route
<1>3. PICK b \in Nat : \A i \in DOMAIN s.routes : s.routes[i].order <= b
    BY <1>1, OrdersBounded
<1>4. N \in SUBSET Nat /\ N # {} /\ \A x \in N : x <= b
    BY <1>3
<1>5. Max(N) \in N /\ \A y \in N : y <= Max(N)
    <2> HIDE DEF N
    <2> QED BY <1>4, GreatestIs
<1>6. S \in SUBSET Int
    BY <1>2
<1>7. Max(N) \in S /\ \A y \in S : y <= Max(N)
    <2>1. \A y \in S : y \in N \/ y < 0
        BY <1>6
    <2>2. Max(N) \in Nat /\ Max(N) \in S
        BY <1>5
    <2> HIDE DEF N, S
    <2> QED BY <1>5, <1>6, <2>1, <2>2
<1>8. Max(S) = Max(N)
    <2> HIDE DEF S, N
    <2> QED BY <1>6, <1>7, MaxIs
<1>9. Max(S) \in Int /\ \A i \in DOMAIN s.routes : s.routes[i].order <= Max(S)
    <2>1. Max(N) \in Int
        BY <1>5
    <2>2. \A i \in DOMAIN s.routes : s.routes[i].order \in S
        OBVIOUS
    <2> HIDE DEF S, N
    <2> QED BY <1>7, <1>8, <2>1, <2>2
<1>10. NextOrder(s) = 10 + Max(S)
    BY DEF NextOrder
<1> HIDE DEF S, N
<1> QED BY <1>2, <1>9, <1>10

-----------------------------------------------------------------------------
(* One lemma per handler: the document stays good, and what leaves the     *)
(* pool or the groups is excused or no longer named.                       *)

Unlisted(id) == \A h \in ToSet(st'.groups) : id \notin h.members

ServersLeave ==
    \A id \in Ids(st.servers) \ Ids(st'.servers) :
        Excused(id) \/ (RoutesTargeting(st, id) = {} /\ Unlisted(id))

GroupsLeave == \A id \in Ids(st.groups) \ Ids(st'.groups) : Unlisted(id)

AddedLast ==
    \A i \in DOMAIN st'.routes :
       /\ st'.routes[i].id \notin Ids(st.routes)
       /\ st'.routes[i].order \notin Orders
       => \A j \in 1..(i - 1) : st'.routes[j].order < st'.routes[i].order

Isolated ==
    \E source : \A a : a # source => Of(st'.servers, a) = Of(st.servers, a)

Step == Good(st') /\ Kept(st, st') /\ ServersLeave /\ GroupsLeave /\ AddedLast /\ Isolated

LEMMA ServersUntouched ==
    ASSUME st'.servers = st.servers
    PROVE  Isolated
BY DEF Isolated

(* A handler that adds no route.                                           *)
LEMMA NothingAdded ==
    ASSUME Ids(st'.routes) \subseteq Ids(st.routes)
    PROVE  AddedLast
BY DEF AddedLast, Ids

(* A handler that keeps servers and groups.                                *)
LEMMA NothingLeaves ==
    ASSUME Good(st'), Kept(st, st'), st'.servers = st.servers, st'.groups = st.groups,
           AddedLast
    PROVE  Step
BY ServersUntouched DEF Step, ServersLeave, GroupsLeave

(* A handler that appends a route.                                         *)
LEMMA RouteAppended ==
    ASSUME Good(st'), Kept(st, st'), st'.servers = st.servers, st'.groups = st.groups,
           Good(st), Len(st'.routes) = Len(st.routes) + 1,
           \A i \in 1..Len(st.routes) : st'.routes[i] = st.routes[i],
           st'.routes[Len(st.routes) + 1].order \in Orders \cup {NextOrder(st)}
    PROVE  Step
<1> DEFINE n == Len(st.routes)
<1>1. /\ n \in Nat /\ DOMAIN st.routes = 1..n /\ DOMAIN st'.routes = 1..(n + 1)
    <2>1. st.routes \in Seq(Route) /\ st'.routes \in Seq(Route)
        BY Fields DEF Good
    <2> QED BY <2>1, LenProperties
<1>2. \A j \in 1..n : st.routes[j].order < NextOrder(st)
    BY <1>1, NextOrderIs DEF Good
<1>3. ASSUME NEW i \in 1..(n + 1), st'.routes[i].id \notin Ids(st.routes),
             st'.routes[i].order \notin Orders
      PROVE  \A j \in 1..(i - 1) : st'.routes[j].order < st'.routes[i].order
    <2>1. i \notin 1..n
        BY <1>1, <1>3 DEF Ids
    <2>2. i = n + 1 /\ i - 1 = n
        BY <1>1, <2>1
    <2>3. st'.routes[i].order = NextOrder(st)
        BY <1>3, <2>2
    <2> QED BY <1>2, <2>2, <2>3
<1>4. AddedLast
    BY <1>1, <1>3 DEF AddedLast
<1> QED BY <1>4, NothingLeaves

LEMMA InitGood == Init => Good(st)
<1> SUFFICES ASSUME st = EmptyState PROVE Good(st)
    BY DEF Init
<1>1. /\ st.sources = <<>> /\ st.servers = <<>> /\ st.groups = <<>> /\ st.routes = <<>>
      /\ st.policy = Direct /\ st.hidden = {}
    BY DEF EmptyState
<1>2. \A E : <<>> \in Seq(E)
    OBVIOUS
<1>3. st \in State
    <2> HIDE DEF Source, Server, Group, Route
    <2> QED BY <1>2 DEF EmptyState, State, TargetIds
<1>4. DOMAIN st.sources = {} /\ DOMAIN st.servers = {} /\ DOMAIN st.groups = {}
      /\ DOMAIN st.routes = {}
    BY <1>1
<1> QED BY <1>3, <1>4 DEF Good, TargetsExist, Enabled

LEMMA CreateSourceStep ==
    ASSUME Good(st), NEW kind \in {"subscription", "manual"}, NEW on \in BOOLEAN,
           CreateSource(kind, on)
    PROVE  Step
BY AddSourceIs, NothingAdded, NothingLeaves DEF CreateSource

LEMMA ImportNikkiStep ==
    ASSUME Good(st), NEW n \in Nat, ImportNikki(n)
    PROVE  Step
<1> DEFINE Y == {s \in State : /\ Good(s) /\ Kept(st, s) /\ s.servers = st.servers
                               /\ s.groups = st.groups /\ s.routes = st.routes}
           Op(y) == AddSource(y, "subscription", TRUE)
           step == [p \in (1..n) \X Y |-> Op(p[2])]
           Eq(f) == f = [k \in 0..n |-> IF k = 0 THEN st ELSE Op(f[k - 1])]
           after == CHOOSE f : Eq(f)
<1>1. st' = after[n]
    BY DEF ImportNikki
<1>2. st \in Y
    BY KeptSame DEF Good
<1>3. ASSUME NEW y \in Y PROVE Op(y) \in Y
    <2>1. "subscription" \in {"subscription", "manual"} /\ TRUE \in BOOLEAN /\ Good(y)
        OBVIOUS
    <2>2. /\ Good(Op(y)) /\ Kept(y, Op(y)) /\ Op(y).servers = y.servers /\ Op(y).groups = y.groups
          /\ Op(y).routes = y.routes
        BY <2>1, AddSourceIs
    <2> HIDE DEF Op
    <2>3. Kept(st, Op(y))
        BY <2>2, KeptThrough
    <2> QED BY <2>2, <2>3 DEF Good
<1> HIDE DEF Y, Op
<1>4. step \in [(1..n) \X Y -> Y] /\ \A k \in 1..n, y \in Y : step[<<k, y>>] = Op(y)
    BY <1>3
<1>5. PICK g \in [0..n -> Y] : g[0] = st /\ \A k \in 1..n : g[k] = step[<<k, g[k - 1]>>]
    <2> HIDE DEF step
    <2>1. Recursions(Y, st, n, step) # {}
        BY <1>2, <1>4, PrefixRecursion
    <2> QED BY <2>1 DEF Recursions
<1>6. \A k \in 1..n : g[k - 1] \in Y /\ g[k] = Op(g[k - 1])
    <2>1. \A k \in 1..n : g[k - 1] \in Y
        OBVIOUS
    <2> HIDE DEF step
    <2> QED BY <1>4, <1>5, <2>1
<1>7. Eq(g)
    BY <1>5, <1>6
<1>8. Eq(after)
    <2> HIDE DEF Eq
    <2> QED BY <1>7
<1> HIDE DEF after, step
<1>9. after[0] = st /\ \A k \in 1..n : after[k] = Op(after[k - 1])
    BY <1>8
<1> DEFINE S == {k \in Nat : k <= n => after[k] \in Y}
<1>10. 0 \in S
    BY <1>2, <1>9
<1>11. \A k \in Nat : k \in S => k + 1 \in S
    BY <1>3, <1>9
<1>12. n \in S
    <2> HIDE DEF S
    <2> QED BY <1>10, <1>11, SetInduction
<1>13. st' \in Y
    BY <1>1, <1>12
<1> QED BY <1>13, NothingAdded, NothingLeaves DEF Y

LEMMA PatchSourceStep ==
    ASSUME Good(st), NEW id \in Ids(st.sources), NEW on \in BOOLEAN,
           PatchSource(id, on)
    PROVE  Step
<1> DEFINE i == IndexOf(st.sources, id)
           e == [st.sources[i] EXCEPT !.enabled = on]
           l == [st.sources EXCEPT ![i] = e]
<1>1. st \in State /\ st.sources \in Seq(Source)
    BY Fields DEF Good
<1>2. i \in DOMAIN st.sources
    BY <1>1, IndexOfIs
<1>3. st' = [st EXCEPT !.sources = l]
    BY DEF PatchSource
<1> HIDE DEF i
<1>4. e \in Source /\ e.id = st.sources[i].id
    <2>1. st.sources[i] \in Source
        <3> HIDE DEF Source
        <3> QED BY <1>1, <1>2
    <2> QED BY <2>1 DEF Source
<1> HIDE DEF e
<1>5. /\ l \in Seq(Source) /\ Ids(l) = Ids(st.sources)
      /\ Unshared(st.sources) => Unshared(l)
    BY <1>1, <1>2, <1>4, ReplaceIs
<1> HIDE DEF l
<1>6. Good(st') /\ Kept(st, st')
    BY <1>3, <1>5, SourcesGrow
<1>7. st'.servers = st.servers /\ st'.groups = st.groups /\ st'.routes = st.routes
    BY <1>1, <1>3, <1>5, FieldEdits
<1> QED BY <1>6, <1>7, NothingAdded, NothingLeaves

LEMMA DeleteSourceStep ==
    ASSUME Good(st), NEW id \in Ids(st.sources), DeleteSource(id)
    PROVE  Step
<1> DEFINE i == IndexOf(st.sources, id)
           a == RemoveAt(st.sources, i)
           K == {k \in DOMAIN st.servers : st.servers[k].source # id}
           b == Filter(st.servers, K)
           t == [st EXCEPT !.sources = a]
<1>1. /\ st \in State /\ st.sources \in Seq(Source) /\ st.servers \in Seq(Server)
    BY Fields DEF Good
<1>2. i \in DOMAIN st.sources /\ st.sources[i].id = id
    BY <1>1, IndexOfIs
<1>3. st' = [t EXCEPT !.servers = b]
    BY DEF DeleteSource, ServersOfOthers
<1> HIDE DEF i
<1>4. /\ a \in Seq(Source) /\ (Unshared(st.sources) => Unshared(a))
      /\ Ids(st.sources) \ {id} \subseteq Ids(a)
    BY <1>1, <1>2, RemoveIs
<1>5. b \in Seq(Server) /\ ToSet(b) = {st.servers[k] : k \in K \cap DOMAIN st.servers}
    <2> HIDE DEF K
    <2> QED BY <1>1, FilterIs
<1> HIDE DEF a, b, t
<1>6. /\ t \in State /\ t.sources = a /\ t.servers = st.servers
      /\ t.groups = st.groups /\ t.routes = st.routes
    BY <1>1, <1>4, FieldEdits DEF t
<1>7. /\ st' \in State /\ st'.sources = a /\ st'.servers = b
      /\ st'.groups = st.groups /\ st'.routes = st.routes
    BY <1>3, <1>5, <1>6, FieldEdits
<1>8. Owned(st) => Owned(st')
    <2>1. SUFFICES ASSUME Owned(st) PROVE Owned(st')
        OBVIOUS
    <2>2. \A k \in K : st.servers[k].source \in Ids(st.sources) \ {id}
        BY <2>1 DEF Owned, ToSet
    <2> HIDE DEF K
    <2> QED BY <1>4, <1>5, <1>7, <2>2 DEF Owned
<1>9. Good(st') /\ Kept(st, st')
    BY <1>4, <1>7, <1>8 DEF Good, Kept, TargetsExist, Enabled, Exists
<1>10. ASSUME NEW x \in Ids(st.servers) \ Ids(st'.servers) PROVE Excused(x)
    <2> DEFINE j == IndexOf(st.servers, x)
    <2>1. j \in DOMAIN st.servers /\ st.servers[j].id = x
        BY <1>1, IndexOfIs
    <2>2. j \notin K
        <3>1. SUFFICES ASSUME j \in K PROVE x \in Ids(b)
            BY <1>7, <1>10
        <3>2. st.servers[j] \in ToSet(b)
            <4> HIDE DEF K, j
            <4> QED BY <1>5, <2>1, <3>1
        <3> HIDE DEF j
        <3> QED BY <2>1, <3>2 DEF ToSet, Ids
    <2> HIDE DEF j
    <2>3. st.servers[j].source = id
        BY <2>1, <2>2
    <2>4. SourceDeleted(id)
        BY <1>2, <1>7 DEF SourceDeleted, a
    <2> QED BY <2>3, <2>4 DEF Excused, j
<1>11. ASSUME NEW c, c # id PROVE Of(b, c) = Of(st.servers, c)
    <2>1. \A k \in DOMAIN st.servers : IF st.servers[k].source = c
                                       THEN k \in K /\ st.servers[k] = st.servers[k]
                                       ELSE st.servers[k].source # c
        BY <1>11
    <2> HIDE DEF K
    <2> QED BY <1>1, <2>1, OfFilter DEF b
<1>12. Isolated
    BY <1>7, <1>11 DEF Isolated
<1> QED BY <1>7, <1>9, <1>10, <1>12, NothingAdded DEF Step, ServersLeave, GroupsLeave

LEMMA FirstManualIs ==
    ASSUME NEW s \in State
    PROVE  /\ FirstManual(s) # 0 => FirstManual(s) \in DOMAIN s.sources
           /\ (\E i \in DOMAIN s.sources : s.sources[i].kind = "manual")
                => FirstManual(s) # 0
<1> DEFINE I == {i \in 1..Len(s.sources) : s.sources[i].kind = "manual"}
<1>1. DOMAIN s.sources = 1..Len(s.sources) /\ Len(s.sources) \in Nat
    BY Fields, LenProperties
<1>2. FirstManual(s) = IF I # {} THEN Min(I) ELSE 0
    BY DEF FirstManual, SelectInSeq
<1>3. I \in SUBSET Nat /\ I \subseteq DOMAIN s.sources /\ 0 \notin I
    BY <1>1
<1>4. I # {} => Min(I) \in I
    <2> HIDE DEF I
    <2> QED BY <1>3, LeastIs
<1>5. (\E i \in DOMAIN s.sources : s.sources[i].kind = "manual") => I # {}
    BY <1>1
<1> HIDE DEF I
<1> QED BY <1>2, <1>3, <1>4, <1>5

LEMMA CreateServersStep ==
    ASSUME Good(st), NEW links \in Offers, CreateServers(links)
    PROVE  Step
<1> DEFINE s == WithManual(st)
           m == FirstManual(s)
           source == s.sources[m].id
<1>1. /\ StaleAfterUpdates \in Nat \ {0}
      /\ links \in Seq(Keys \cup {Unusable})
    BY PoolAssumption, RequestsAssumption DEF PoolAssumption, RequestsAssumption
<1>2. /\ Good(s) /\ Kept(st, s) /\ s.servers = st.servers /\ s.groups = st.groups
      /\ s.routes = st.routes /\ m # 0
    <2>1. CASE FirstManual(st) # 0
        BY <2>1, KeptSame DEF WithManual
    <2>2. CASE FirstManual(st) = 0
        <3>1. s = AddSource(st, "manual", TRUE)
            BY <2>2 DEF WithManual
        <3>2. "manual" \in {"subscription", "manual"} /\ TRUE \in BOOLEAN
            OBVIOUS
        <3>3. /\ Good(s) /\ Kept(st, s) /\ s.servers = st.servers /\ s.groups = st.groups
              /\ s.routes = st.routes
              /\ \E i \in DOMAIN s.sources : s.sources[i].kind = "manual"
            <4> HIDE DEF s
            <4> QED BY <3>1, <3>2, AddSourceIs
        <3>4. s \in State
            BY <3>3 DEF Good
        <3> QED BY <3>3, <3>4, FirstManualIs
    <2> QED BY <2>1, <2>2
<1> HIDE DEF s
<1>3. s \in State /\ s.servers \in Seq(Server) /\ m \in DOMAIN s.sources
    BY <1>2, Fields, FirstManualIs DEF Good
<1> HIDE DEF m
<1>4. source \in Ids(s.sources) /\ source \in SubIds
    BY <1>3, IdTypes DEF Ids
<1> HIDE DEF source
<1>5. st' = Merge(s, source, links)
    BY DEF CreateServers, s, m, source
<1>6. PICK list \in Seq(Server) :
         /\ Merge(s, source, links) = [s EXCEPT !.servers = list]
         /\ \A v \in ToSet(list) :
               \/ v.source = source
               \/ \E i \in DOMAIN s.servers : v.source = s.servers[i].source
         /\ \A i \in DOMAIN s.servers :
               \/ s.servers[i].id \in Ids(list)
               \/ /\ s.servers[i].source = source
                  /\ ~Contains(Distinct(links), Key(s.servers[i]))
                  /\ s.servers[i].misses + 1 >= StaleAfterUpdates
         /\ \A a : a # source => Of(list, a) = Of(s.servers, a)
    <2>1. MergedLists(s, source, links) # {}
        BY <1>1, <1>3, <1>4, MergeIs
    <2> QED BY <2>1 DEF MergedLists
<1>7. st' = [s EXCEPT !.servers = list]
    BY <1>5, <1>6
<1>8. Owned(s) => \A v \in ToSet(list) : v.source \in Ids(s.sources)
    BY <1>3, <1>4, <1>6 DEF Owned, ToSet
<1>9. Good(st') /\ Kept(st, st')
    BY <1>2, <1>7, <1>8, ServersChange, KeptThrough
<1>10. st'.servers = list /\ st'.groups = st.groups /\ st'.routes = st.routes
    BY <1>2, <1>3, <1>7, FieldEdits
<1>11. ASSUME NEW x \in Ids(st.servers) \ Ids(st'.servers) PROVE Excused(x)
    <2> DEFINE j == IndexOf(st.servers, x)
    <2>1. j \in DOMAIN st.servers /\ st.servers[j].id = x
        BY <1>2, <1>3, IndexOfIs
    <2> HIDE DEF j
    <2>2. /\ st.servers[j].source = source
          /\ ~Contains(Distinct(links), Key(st.servers[j]))
          /\ st.servers[j].misses + 1 >= StaleAfterUpdates
        BY <1>2, <1>6, <1>10, <1>11, <2>1
    <2>3. MissedAnswer(st.servers[j])
        BY <2>2 DEF MissedAnswer, source, m, s
    <2> QED BY <2>3 DEF Excused, j
<1>12. Isolated
    BY <1>2, <1>6, <1>10 DEF Isolated
<1> QED BY <1>9, <1>10, <1>11, <1>12, NothingAdded DEF Step, ServersLeave, GroupsLeave

(* One server gets another name or another address.                        *)
SetServer(s, i, e) == [s EXCEPT !.servers = [s.servers EXCEPT ![i] = e]]

LEMMA ServerEdit ==
    ASSUME NEW s, Good(s), NEW i \in DOMAIN s.servers, NEW e \in Server,
           e.id = s.servers[i].id, e.source = s.servers[i].source
    PROVE  LET t == SetServer(s, i, e) IN
           /\ Good(t) /\ Kept(s, t) /\ t.groups = s.groups /\ t.routes = s.routes
           /\ Ids(t.servers) = Ids(s.servers)
           /\ DOMAIN t.servers = DOMAIN s.servers /\ t.servers[i] = e
           /\ \A a : a # e.source => Of(t.servers, a) = Of(s.servers, a)
<1> DEFINE l == [s.servers EXCEPT ![i] = e]
           t == [s EXCEPT !.servers = l]
<1>1. s \in State /\ s.servers \in Seq(Server)
    BY Fields DEF Good
<1>2. /\ l \in Seq(Server) /\ Ids(l) = Ids(s.servers) /\ DOMAIN l = DOMAIN s.servers
      /\ \A j \in DOMAIN s.servers : l[j] = IF j = i THEN e ELSE s.servers[j]
    BY <1>1, ReplaceIs
<1> HIDE DEF l
<1>3. Owned(s) => \A v \in ToSet(l) : v.source \in Ids(s.sources)
    BY <1>1, <1>2 DEF Owned, ToSet
<1>4. Good(t) /\ Kept(s, t)
    BY <1>2, <1>3, ServersChange
<1>5. t.groups = s.groups /\ t.routes = s.routes /\ t.servers = l
    BY <1>1, <1>2, FieldEdits
<1>6. ASSUME NEW a, a # e.source PROVE Of(l, a) = Of(s.servers, a)
    <2>1. /\ Len(s.servers) <= Len(l) /\ DOMAIN l \ DOMAIN s.servers = {}
          /\ \A j \in DOMAIN s.servers : IF s.servers[j].source = a THEN l[j] = s.servers[j]
                                         ELSE l[j].source # a
        <3>1. Len(s.servers) = Len(l)
            BY <1>1, <1>2, LenProperties
        <3>2. Len(l) \in Nat
            BY <1>2, LenProperties
        <3> QED BY <1>2, <1>6, <3>1, <3>2
    <2> HIDE DEF Server
    <2> QED BY <1>1, <1>2, <2>1, OfSame
<1> HIDE DEF t
<1>7. /\ Good(t) /\ Kept(s, t) /\ t.groups = s.groups /\ t.routes = s.routes
      /\ Ids(t.servers) = Ids(s.servers)
      /\ DOMAIN t.servers = DOMAIN s.servers /\ t.servers[i] = e
      /\ \A a : a # e.source => Of(t.servers, a) = Of(s.servers, a)
    BY <1>2, <1>4, <1>5, <1>6
<1> QED BY <1>7 DEF t, l, SetServer

LEMMA EditServerStep ==
    ASSUME Good(st), NEW id \in Ids(st.servers), NEW key \in Edits, EditServer(id, key)
    PROVE  Step
<1> DEFINE i == IndexOf(st.servers, id)
           d == [st.servers[i] EXCEPT !.name = key.name]
           s == SetServer(st, i, d)
           e == [s.servers[i] EXCEPT !.addr = key.addr]
           t == SetServer(s, i, e)
<1>1. st \in State /\ st.servers \in Seq(Server) /\ key \in Keys
    BY Fields, RequestsAssumption DEF RequestsAssumption, Good
<1>2. i \in DOMAIN st.servers
    BY <1>1, IndexOfIs
<1>3. st' = t
    BY DEF EditServer, SetServer
<1> HIDE DEF i
<1>4. d \in Server /\ d.id = st.servers[i].id /\ d.source = st.servers[i].source
    <2>1. st.servers[i] \in Server
        <3> HIDE DEF Server
        <3> QED BY <1>1, <1>2
    <2> QED BY <1>1, <2>1 DEF Server, Keys
<1> HIDE DEF d
<1>5. /\ Good(s) /\ Kept(st, s) /\ s.groups = st.groups
      /\ s.routes = st.routes /\ Ids(s.servers) = Ids(st.servers)
      /\ DOMAIN s.servers = DOMAIN st.servers /\ s.servers[i] = d
      /\ \A a : a # d.source => Of(s.servers, a) = Of(st.servers, a)
    BY <1>2, <1>4, ServerEdit
<1> HIDE DEF s
<1>6. e \in Server /\ e.id = s.servers[i].id /\ e.source = s.servers[i].source
    BY <1>1, <1>4, <1>5 DEF Server, Keys
<1> HIDE DEF e
<1>7. /\ Good(t) /\ Kept(s, t) /\ t.groups = s.groups
      /\ t.routes = s.routes /\ Ids(t.servers) = Ids(s.servers)
      /\ \A a : a # e.source => Of(t.servers, a) = Of(s.servers, a)
    <2>1. i \in DOMAIN s.servers
        BY <1>2, <1>5
    <2>2. Good(s)
        BY <1>5
    <2> QED BY <1>6, <2>1, <2>2, ServerEdit
<1>8. Isolated
    <2>1. \A a : a # d.source => Of(t.servers, a) = Of(st.servers, a)
        BY <1>5, <1>6, <1>7
    <2> HIDE DEF t
    <2> QED BY <1>3, <2>1 DEF Isolated
<1>9. Kept(st, t)
    BY <1>5, <1>7, KeptThrough
<1> QED BY <1>3, <1>5, <1>7, <1>8, <1>9, NothingAdded DEF Step, ServersLeave, GroupsLeave

LEMMA DeleteServerStep ==
    ASSUME Good(st), NEW id \in Ids(st.servers), DeleteServer(id)
    PROVE  Step
<1> DEFINE i == IndexOf(st.servers, id)
           a == RemoveAt(st.servers, i)
           s == [st EXCEPT !.servers = a]
           b == Pruned(st.groups, id)
           t == [s EXCEPT !.groups = b]
<1>1. /\ st \in State /\ st.servers \in Seq(Server) /\ st.groups \in Seq(Group)
    BY Fields DEF Good
<1>2. i \in DOMAIN st.servers /\ st.servers[i].id = id
    BY <1>1, IndexOfIs
<1>3. st' = t /\ RoutesTargeting(st, id) = {}
    BY DEF DeleteServer
<1> HIDE DEF i
<1>4. /\ a \in Seq(Server) /\ ToSet(a) \subseteq ToSet(st.servers)
      /\ Ids(st.servers) \ {id} \subseteq Ids(a)
    BY <1>1, <1>2, RemoveIs
<1> HIDE DEF a
<1>5. Good(s) /\ Kept(st, s)
    <2>1. Owned(st) => \A v \in ToSet(a) : v.source \in Ids(st.sources)
        BY <1>4 DEF Owned
    <2> QED BY <1>4, <2>1, ServersChange
<1>6. s.servers = a /\ s.groups = st.groups /\ s.routes = st.routes /\ s \in State
    BY <1>1, <1>4, FieldEdits
<1> HIDE DEF s
<1>7. /\ b \in Seq(Group) /\ Ids(b) = Ids(st.groups)
      /\ Unshared(st.groups) => Unshared(b)
      /\ \A h \in ToSet(b) : id \notin h.members
    <2>1. id \notin Ids(st.groups)
        BY <1>1, IdTypes, IdsDiffer
    <2> QED BY <1>1, <2>1, PrunedIs
<1> HIDE DEF b
<1>8. Good(t) /\ Kept(st, t)
    BY <1>5, <1>6, <1>7, GroupsChange, KeptThrough
<1>9. t.servers = a /\ t.groups = b /\ t.routes = st.routes
    BY <1>6, <1>7, FieldEdits
<1>10. Unlisted(id)
    BY <1>3, <1>7, <1>9 DEF Unlisted
<1>11. ServersLeave
    BY <1>3, <1>4, <1>9, <1>10 DEF ServersLeave
<1>12. GroupsLeave
    BY <1>3, <1>7, <1>9 DEF GroupsLeave
<1>13. Isolated
    <2>1. \A c : c # st.servers[i].source => Of(a, c) = Of(st.servers, c)
        <3> HIDE DEF Server
        <3> QED BY <1>1, <1>2, OfRemoveAt DEF a
    <2> QED BY <1>3, <1>9, <2>1 DEF Isolated
<1> QED BY <1>3, <1>8, <1>9, <1>11, <1>12, <1>13, NothingAdded DEF Step

LEMMA CreateGroupStep ==
    ASSUME Good(st), NEW name \in GroupNames, NEW members \in SUBSET Members,
           CreateGroup(name, members)
    PROVE  Step
<1> DEFINE id == NewID("grp", st.groups)
           e == [id |-> id, name |-> name, members |-> members]
           l == Append(st.groups, e)
<1>1. st \in State /\ st.groups \in Seq(Group)
    BY Fields DEF Good
<1>2. id \in GroupIds /\ id \notin Ids(st.groups)
    BY <1>1, NewIDIs DEF GroupIds
<1>3. st' = [st EXCEPT !.groups = l]
    BY DEF CreateGroup
<1> HIDE DEF id
<1>4. e \in Group /\ e.id = id
    BY <1>1, <1>2, RequestsAssumption, TargetsTyped DEF Group
<1> HIDE DEF e
<1>5. /\ l \in Seq(Group) /\ Ids(st.groups) \subseteq Ids(l)
      /\ Unshared(st.groups) => Unshared(l)
    BY <1>1, <1>2, <1>4, AppendIs
<1> HIDE DEF l
<1>6. Good(st') /\ Kept(st, st')
    BY <1>3, <1>5, GroupsChange
<1>7. st'.groups = l /\ st'.servers = st.servers /\ st'.routes = st.routes
    BY <1>1, <1>3, <1>5, FieldEdits
<1> QED BY <1>5, <1>6, <1>7, NothingAdded, ServersUntouched DEF Step, ServersLeave, GroupsLeave

(* One group gets another name or other members.                           *)
LEMMA GroupEdit ==
    ASSUME NEW s, Good(s), NEW i \in DOMAIN s.groups, NEW e \in Group,
           e.id = s.groups[i].id
    PROVE  LET t == [s EXCEPT !.groups = [s.groups EXCEPT ![i] = e]] IN
           /\ Good(t) /\ Kept(s, t) /\ t.servers = s.servers /\ t.routes = s.routes
           /\ Ids(t.groups) = Ids(s.groups)
           /\ DOMAIN t.groups = DOMAIN s.groups /\ t.groups[i] = e
<1> DEFINE l == [s.groups EXCEPT ![i] = e]
           t == [s EXCEPT !.groups = l]
<1>1. s \in State /\ s.groups \in Seq(Group)
    BY Fields DEF Good
<1>2. /\ l \in Seq(Group) /\ Ids(l) = Ids(s.groups) /\ DOMAIN l = DOMAIN s.groups
      /\ Unshared(s.groups) => Unshared(l)
      /\ \A j \in DOMAIN s.groups : l[j] = IF j = i THEN e ELSE s.groups[j]
    BY <1>1, ReplaceIs
<1> HIDE DEF l
<1>3. Good(t) /\ Kept(s, t)
    BY <1>2, GroupsChange
<1>4. t.servers = s.servers /\ t.routes = s.routes /\ t.groups = l
    BY <1>1, <1>2, FieldEdits
<1> HIDE DEF t
<1>5. /\ Good(t) /\ Kept(s, t) /\ t.servers = s.servers /\ t.routes = s.routes
           /\ Ids(t.groups) = Ids(s.groups)
      /\ DOMAIN t.groups = DOMAIN s.groups /\ t.groups[i] = e
    BY <1>2, <1>3, <1>4
<1> QED BY <1>5 DEF t, l

LEMMA PatchGroupStep ==
    ASSUME Good(st), NEW id \in Ids(st.groups), NEW name \in GroupNames,
           NEW members \in SUBSET Members, PatchGroup(id, name, members)
    PROVE  Step
<1> DEFINE i == IndexOf(st.groups, id)
           d == [st.groups[i] EXCEPT !.name = name]
           s == [st EXCEPT !.groups = [st.groups EXCEPT ![i] = d]]
           e == [s.groups[i] EXCEPT !.members = members]
           t == [s EXCEPT !.groups = [s.groups EXCEPT ![i] = e]]
<1>1. st \in State /\ st.groups \in Seq(Group) /\ members \subseteq MemberIds
    BY Fields, RequestsAssumption, TargetsTyped DEF Good
<1>2. st' = t /\ i \in DOMAIN st.groups
    BY <1>1, IndexOfIs DEF PatchGroup
<1> HIDE DEF i
<1>3. d \in Group /\ d.id = st.groups[i].id
    <2>1. st.groups[i] \in Group
        <3> HIDE DEF Group
        <3> QED BY <1>1, <1>2
    <2> QED BY <2>1 DEF Group
<1> HIDE DEF d
<1>4. /\ Good(s) /\ Kept(st, s) /\ s.servers = st.servers
      /\ s.routes = st.routes /\ Ids(s.groups) = Ids(st.groups)
      /\ DOMAIN s.groups = DOMAIN st.groups /\ s.groups[i] = d
    BY <1>2, <1>3, GroupEdit
<1> HIDE DEF s
<1>5. e \in Group /\ e.id = s.groups[i].id
    BY <1>1, <1>3, <1>4 DEF Group
<1> HIDE DEF e
<1>6. /\ Good(t) /\ Kept(s, t) /\ t.servers = s.servers
      /\ t.routes = s.routes /\ Ids(t.groups) = Ids(s.groups)
    <2>1. i \in DOMAIN s.groups
        BY <1>2, <1>4
    <2> HIDE DEF t
    <2> QED BY <1>4, <1>5, <2>1, GroupEdit DEF t
<1>7. Kept(st, t)
    BY <1>4, <1>6, KeptThrough
<1> QED BY <1>2, <1>4, <1>6, <1>7, NothingAdded, ServersUntouched DEF Step, ServersLeave, GroupsLeave

LEMMA DeleteGroupStep ==
    ASSUME Good(st), NEW id \in Ids(st.groups), DeleteGroup(id)
    PROVE  Step
<1> DEFINE i == IndexOf(st.groups, id)
           a == RemoveAt(st.groups, i)
           b == Pruned(a, id)
<1>1. st \in State /\ st.groups \in Seq(Group)
    BY Fields DEF Good
<1>2. i \in DOMAIN st.groups /\ st.groups[i].id = id
    BY <1>1, IndexOfIs
<1>3. st' = [st EXCEPT !.groups = b] /\ RoutesTargeting(st, id) = {}
    BY DEF DeleteGroup
<1> HIDE DEF i
<1>4. /\ a \in Seq(Group) /\ Ids(st.groups) \ {id} \subseteq Ids(a)
      /\ Unshared(st.groups) => Unshared(a)
    BY <1>1, <1>2, RemoveIs
<1> HIDE DEF a
<1>5. /\ b \in Seq(Group) /\ Ids(b) = Ids(a)
      /\ Unshared(a) => Unshared(b)
      /\ id \notin Ids(a) => \A h \in ToSet(b) : id \notin h.members
    BY <1>4, PrunedIs
<1> HIDE DEF b
<1>6. Good(st') /\ Kept(st, st')
    <2>1. \A x \in Ids(st.groups) \ Ids(b) : RoutesTargeting(st, x) = {}
        BY <1>3, <1>4, <1>5
    <2> QED BY <1>3, <1>4, <1>5, <2>1, GroupsChange
<1>7. st'.groups = b /\ st'.servers = st.servers /\ st'.routes = st.routes
    BY <1>1, <1>3, <1>5, FieldEdits
<1>8. ServersLeave /\ GroupsLeave
    BY <1>4, <1>5, <1>7 DEF ServersLeave, GroupsLeave, Unlisted
<1> QED BY <1>6, <1>7, <1>8, NothingAdded, ServersUntouched DEF Step

LEMMA CreateRouteStep ==
    ASSUME Good(st), NEW order \in Int, NEW on \in BOOLEAN, NEW conds \in SUBSET Conds,
           NEW provs \in SUBSET Provs, NEW target, order \in Orders \cup {NextOrder(st)},
           CreateRoute(order, on, conds, provs, target)
    PROVE  Step
<1> DEFINE r == [order |-> order, enabled |-> on, conds |-> conds,
                 provs |-> provs, target |-> target]
<1>1. ValidRoute(st, r) /\ st' = AddRoute(st, r)
    BY DEF CreateRoute
<1>2. /\ r.order = order /\ r.enabled = on /\ r.conds = conds
      /\ r.provs = provs /\ r.target = target
    OBVIOUS
<1> HIDE DEF r
<1>3. Exists(st, target) /\ target \in TargetIds
    BY <1>1, <1>2, ValidTargetIs DEF ValidRoute, Good
<1>4. /\ Good(st') /\ Kept(st, st') /\ st'.servers = st.servers /\ st'.groups = st.groups
      /\ Len(st'.routes) = Len(st.routes) + 1
      /\ \A i \in 1..Len(st.routes) : st'.routes[i] = st.routes[i]
      /\ st'.routes[Len(st.routes) + 1].order = r.order
    <2>1. /\ r.order \in Int /\ r.enabled \in BOOLEAN /\ r.conds \subseteq Conds
          /\ r.provs \subseteq Provs /\ r.target \in TargetIds
          /\ r.enabled => Exists(st, r.target)
        BY <1>2, <1>3
    <2> QED BY <1>1, <2>1, AddRouteIs
<1> QED BY <1>2, <1>4, RouteAppended

LEMMA PatchRouteStep ==
    ASSUME Good(st), NEW id \in Ids(st.routes), NEW order \in Int, NEW on \in BOOLEAN,
           NEW conds \in SUBSET Conds, NEW provs \in SUBSET Provs, NEW target,
           PatchRoute(id, order, on, conds, provs, target)
    PROVE  Step
<1> DEFINE i == IndexOf(st.routes, id)
           r == [st.routes[i] EXCEPT !.order = order, !.enabled = on,
                                     !.conds = conds, !.provs = provs,
                                     !.target = target]
           l == [st.routes EXCEPT ![i] = r]
<1>1. st \in State /\ st.routes \in Seq(Route)
    BY Fields DEF Good
<1>2. /\ ValidRoute(st, r) /\ st' = [st EXCEPT !.routes = l]
      /\ i \in DOMAIN st.routes
    BY <1>1, IndexOfIs DEF PatchRoute
<1> HIDE DEF i
<1>3. st.routes[i] \in Route
    <2> HIDE DEF Route
    <2> QED BY <1>1, <1>2
<1>4. r.target = target
    BY <1>3 DEF Route
<1>5. Exists(st, target) /\ target \in TargetIds
    <2> HIDE DEF r
    <2> QED BY <1>1, <1>2, <1>4, ValidTargetIs DEF ValidRoute
<1>6. r \in Route /\ r.id = st.routes[i].id
    BY <1>3, <1>5 DEF Route
<1> HIDE DEF r
<1>7. /\ l \in Seq(Route) /\ (Unshared(st.routes) => Unshared(l)) /\ DOMAIN l = DOMAIN st.routes
      /\ Ids(l) = Ids(st.routes)
      /\ \A j \in DOMAIN l : l[j] = IF j = i THEN r ELSE st.routes[j]
    BY <1>1, <1>2, <1>6, ReplaceIs
<1> HIDE DEF l
<1>8. \A j \in DOMAIN l : l[j].enabled => Exists(st, l[j].target)
    BY <1>4, <1>5, <1>7 DEF Good, TargetsExist, Enabled
<1>9. Good(st') /\ Kept(st, st')
    BY <1>2, <1>7, <1>8, RoutesChange
<1>10. st'.servers = st.servers /\ st'.groups = st.groups /\ st'.routes = l
    BY <1>1, <1>2, <1>7, FieldEdits
<1> QED BY <1>7, <1>9, <1>10, NothingAdded, NothingLeaves

LEMMA DeleteRouteStep ==
    ASSUME Good(st), NEW id \in Ids(st.routes), DeleteRoute(id)
    PROVE  Step
<1> DEFINE i == IndexOf(st.routes, id)
           l == RemoveAt(st.routes, i)
<1>1. st \in State /\ st.routes \in Seq(Route)
    BY Fields DEF Good
<1>2. st' = [st EXCEPT !.routes = l]
    BY DEF DeleteRoute
<1>3. i \in DOMAIN st.routes
    BY <1>1, IndexOfIs
<1> HIDE DEF i
<1>4. /\ l \in Seq(Route) /\ (Unshared(st.routes) => Unshared(l)) /\ Ids(l) \subseteq Ids(st.routes)
      /\ ToSet(l) \subseteq ToSet(st.routes)
    BY <1>1, <1>3, RemoveIs
<1> HIDE DEF l
<1>5. \A j \in DOMAIN l : l[j].enabled => Exists(st, l[j].target)
    BY <1>4 DEF Good, TargetsExist, Enabled, ToSet
<1>6. Good(st') /\ Kept(st, st')
    BY <1>2, <1>4, <1>5, RoutesChange
<1>7. st'.servers = st.servers /\ st'.groups = st.groups /\ st'.routes = l
    BY <1>1, <1>2, <1>4, FieldEdits
<1> QED BY <1>4, <1>6, <1>7, NothingAdded, NothingLeaves

LEMMA PolicyChange ==
    ASSUME NEW s, Good(s), NEW p \in TargetIds
    PROVE  /\ Good([s EXCEPT !.policy = p]) /\ Kept(s, [s EXCEPT !.policy = p])
           /\ [s EXCEPT !.policy = p].servers = s.servers
           /\ [s EXCEPT !.policy = p].groups = s.groups
           /\ [s EXCEPT !.policy = p].routes = s.routes
<1> DEFINE t == [s EXCEPT !.policy = p]
<1>1. /\ t \in State /\ t.sources = s.sources /\ t.servers = s.servers
      /\ t.groups = s.groups /\ t.routes = s.routes
    BY FieldEdits DEF Good
<1> HIDE DEF t
<1>2. Good(t) /\ Kept(s, t)
    BY <1>1 DEF Good, Kept, Owned, TargetsExist, Enabled, Exists
<1> QED BY <1>1, <1>2 DEF t

LEMMA HiddenChange ==
    ASSUME NEW s, Good(s), NEW h \in SUBSET DOMAIN Catalog
    PROVE  /\ Good([s EXCEPT !.hidden = h]) /\ Kept(s, [s EXCEPT !.hidden = h])
           /\ [s EXCEPT !.hidden = h].servers = s.servers
           /\ [s EXCEPT !.hidden = h].groups = s.groups
           /\ [s EXCEPT !.hidden = h].routes = s.routes
<1> DEFINE t == [s EXCEPT !.hidden = h]
<1>1. /\ t \in State /\ t.sources = s.sources /\ t.servers = s.servers
      /\ t.groups = s.groups /\ t.routes = s.routes
    BY FieldEdits DEF Good
<1> HIDE DEF t
<1>2. Good(t) /\ Kept(s, t)
    BY <1>1 DEF Good, Kept, Owned, TargetsExist, Enabled, Exists
<1> QED BY <1>1, <1>2 DEF t

LEMMA PatchPolicyStep ==
    ASSUME Good(st), NEW target, PatchPolicy(target)
    PROVE  Step
<1>1. target \in TargetIds
    BY ValidTargetIs DEF PatchPolicy, Good
<1> QED BY <1>1, PolicyChange, NothingAdded, NothingLeaves DEF PatchPolicy

LEMMA ToggleTemplateStep ==
    ASSUME Good(st), NEW t \in DOMAIN Catalog, NEW off \in BOOLEAN, ToggleTemplate(t, off)
    PROVE  Step
<1> DEFINE h == IF off THEN st.hidden \cup {t} ELSE st.hidden \ {t}
<1>1. h \in SUBSET DOMAIN Catalog
    BY Fields DEF Good
<1>2. st' = [st EXCEPT !.hidden = h]
    BY DEF ToggleTemplate
<1> HIDE DEF h
<1> QED BY <1>1, <1>2, HiddenChange, NothingAdded, NothingLeaves

LEMMA ApplyTemplateStep ==
    ASSUME Good(st), NEW t \in DOMAIN Catalog, NEW target, ApplyTemplate(t, target)
    PROVE  Step
<1> DEFINE r == [order |-> NextOrder(st), enabled |-> TRUE, conds |-> Catalog[t].conds,
                 provs |-> Catalog[t].provs, target |-> target]
<1>1. Exists(st, target) /\ target \in TargetIds /\ st \in State
    BY ValidTargetIs DEF ApplyTemplate, Good
<1>2. CASE t = AllVPN
    <2>1. st' = [st EXCEPT !.policy = target]
        BY <1>2 DEF ApplyTemplate
    <2> QED BY <1>1, <2>1, PolicyChange, NothingAdded, NothingLeaves
<1>3. CASE t # AllVPN
    <2>1. st' = AddRoute(st, r)
        BY <1>3 DEF ApplyTemplate
    <2>2. /\ r.order \in Int /\ r.enabled \in BOOLEAN /\ r.conds \subseteq Conds
          /\ r.provs \subseteq Provs /\ r.target \in TargetIds
          /\ r.enabled => Exists(st, r.target)
          /\ r.order = NextOrder(st)
        BY <1>1, NextOrderIs, RequestsAssumption DEF RequestsAssumption
    <2> HIDE DEF r
    <2>3. /\ Good(st') /\ Kept(st, st') /\ st'.servers = st.servers /\ st'.groups = st.groups
          /\ Len(st'.routes) = Len(st.routes) + 1
          /\ \A i \in 1..Len(st.routes) : st'.routes[i] = st.routes[i]
          /\ st'.routes[Len(st.routes) + 1].order = r.order
        BY <2>1, <2>2, AddRouteIs
    <2> QED BY <2>2, <2>3, RouteAppended
<1> QED BY <1>2, <1>3

(* A rule of nikki becomes a disabled route behind the others.             *)
LEMMA ImportedIs ==
    ASSUME NEW s, Good(s), NEW cond \in Conds, NEW target \in TargetIds
    PROVE  LET t == Imported(s, cond, target)
               n == Len(s.routes) IN
           /\ Good(t) /\ Kept(s, t) /\ t.servers = s.servers /\ t.groups = s.groups
           /\ n \in Nat /\ Len(t.routes) = n + 1
           /\ \A i \in 1..n : t.routes[i] = s.routes[i]
           /\ t.routes[n + 1].id \notin Ids(s.routes)
           /\ t.routes[n + 1].order = NextOrder(s)
           /\ t.routes[n + 1].conds = {cond}
<1> DEFINE r == [order |-> NextOrder(s), enabled |-> FALSE, conds |-> {cond},
                 provs |-> {}, target |-> target]
<1>1. Imported(s, cond, target) = AddRoute(s, r)
    BY DEF Imported
<1>2. /\ r.order \in Int /\ r.enabled \in BOOLEAN /\ r.conds \subseteq Conds
      /\ r.provs \subseteq Provs /\ r.target \in TargetIds
      /\ r.enabled => Exists(s, r.target)
      /\ r.order = NextOrder(s) /\ r.conds = {cond}
    BY NextOrderIs DEF Good
<1> HIDE DEF r
<1> QED BY <1>1, <1>2, AddRouteIs

LEMMA ImportRuleStep ==
    ASSUME Good(st), NEW rule, rule.cond \in Conds, NEW override, ImportRule(rule, override)
    PROVE  Step
<1>1. PICK target : ValidTarget(st, target) /\ st' = Imported(st, rule.cond, target)
    BY DEF ImportRule
<1>2. target \in TargetIds
    BY <1>1, ValidTargetIs DEF Good
<1>3. /\ Good(st') /\ Kept(st, st') /\ st'.servers = st.servers /\ st'.groups = st.groups
      /\ Len(st'.routes) = Len(st.routes) + 1
      /\ \A i \in 1..Len(st.routes) : st'.routes[i] = st.routes[i]
      /\ st'.routes[Len(st.routes) + 1].order = NextOrder(st)
    BY <1>1, <1>2, ImportedIs
<1> QED BY <1>3, RouteAppended

(* The state in the middle of a bulk import: the routes of before are      *)
(* there, and each new one has an ID, an order and conditions of its own.  *)
Extended(s) ==
    /\ Good(s) /\ Kept(st, s) /\ s.servers = st.servers /\ s.groups = st.groups
    /\ Len(st.routes) <= Len(s.routes)
    /\ \A i \in 1..Len(st.routes) : s.routes[i] = st.routes[i]
    /\ \A i \in (Len(st.routes) + 1)..Len(s.routes) :
          /\ s.routes[i].id \notin Ids(st.routes)
          /\ \A j \in 1..(i - 1) : s.routes[j].order < s.routes[i].order
          /\ \A j \in 1..Len(s.routes) :
                j # i => s.routes[i].conds \cap s.routes[j].conds = {}

LEMMA WithRuleExtends ==
    ASSUME Good(st), NEW s, Extended(s), NEW rule, rule.cond \in Conds
    PROVE  Extended(WithRule(s, rule))
<1> DEFINE to == ValidTargets(s, rule)
           target == CHOOSE x \in to : TRUE
           t == Imported(s, rule.cond, target)
           m == Len(st.routes)
           n == Len(s.routes)
<1>1. s \in State /\ Good(s) /\ st \in State
    BY DEF Extended, Good
<1>2. CASE HasCond(s, rule.cond) \/ to = {}
    BY <1>2 DEF WithRule
<1>3. CASE ~HasCond(s, rule.cond) /\ to # {}
    <2>1. WithRule(s, rule) = t
        BY <1>3 DEF WithRule
    <2>2. to \subseteq TargetIds
        BY <1>1, PolicyTargetIs DEF ValidTargets
    <2>3. target \in TargetIds
        <3> HIDE DEF to
        <3> QED BY <1>3, <2>2
    <2> HIDE DEF target, to
    <2>4. /\ Good(t) /\ Kept(s, t) /\ t.servers = s.servers /\ t.groups = s.groups
          /\ n \in Nat /\ Len(t.routes) = n + 1
          /\ \A i \in 1..n : t.routes[i] = s.routes[i]
          /\ t.routes[n + 1].id \notin Ids(s.routes)
          /\ t.routes[n + 1].order = NextOrder(s)
          /\ t.routes[n + 1].conds = {rule.cond}
        BY <1>1, <2>3, ImportedIs
    <2>5. DOMAIN s.routes = 1..n /\ DOMAIN st.routes = 1..m /\ m \in Nat
        BY <1>1, Fields, LenProperties
    <2>6. /\ m <= n /\ \A i \in 1..m : s.routes[i] = st.routes[i]
          /\ \A i \in (m + 1)..n :
               /\ s.routes[i].id \notin Ids(st.routes)
               /\ \A j \in 1..(i - 1) : s.routes[j].order < s.routes[i].order
               /\ \A j \in 1..n : j # i => s.routes[i].conds \cap s.routes[j].conds = {}
        BY DEF Extended
    <2>7. \A j \in 1..n : s.routes[j].order < NextOrder(s) /\ rule.cond \notin s.routes[j].conds
        BY <1>1, <1>3, <2>5, NextOrderIs DEF HasCond
    <2>8. Ids(st.routes) \subseteq Ids(s.routes)
        BY <2>5, <2>6 DEF Ids
    <2> HIDE DEF t, n, m
    <2>9. m <= n + 1 /\ \A i \in 1..m : t.routes[i] = st.routes[i]
        BY <2>4, <2>5, <2>6
    <2>10. ASSUME NEW i \in (m + 1)..(n + 1)
           PROVE  /\ t.routes[i].id \notin Ids(st.routes)
                  /\ \A j \in 1..(i - 1) : t.routes[j].order < t.routes[i].order
                  /\ \A j \in 1..(n + 1) :
                        j # i => t.routes[i].conds \cap t.routes[j].conds = {}
        <3>1. CASE i = n + 1
            <4>1. \A j \in 1..n : t.routes[j] = s.routes[j]
                BY <2>4
            <4>2. \A j \in 1..(i - 1) : t.routes[j].order < t.routes[i].order
                BY <2>4, <2>7, <3>1
            <4>3. \A j \in 1..(n + 1) : j # i => j \in 1..n
                BY <2>4, <3>1
            <4>4. \A j \in 1..n : t.routes[i].conds \cap t.routes[j].conds = {}
                BY <2>4, <2>7, <3>1
            <4> QED BY <2>4, <2>8, <3>1, <4>2, <4>3, <4>4
        <3>2. CASE i # n + 1
            <4>1. i \in (m + 1)..n /\ i \in 1..n /\ t.routes[i] = s.routes[i]
                BY <2>4, <2>5, <3>2
            <4>2. \A j \in 1..(i - 1) : t.routes[j] = s.routes[j]
                BY <2>4, <4>1
            <4>3. t.routes[i].conds \cap t.routes[n + 1].conds = {}
                BY <2>4, <2>7, <4>1
            <4>4. \A j \in 1..(n + 1) : j = n + 1 \/ j \in 1..n
                BY <2>4
            <4>5. \A j \in 1..(n + 1) : j # i => t.routes[i].conds \cap t.routes[j].conds = {}
                BY <2>4, <2>6, <4>1, <4>3, <4>4
            <4>6. \A j \in 1..(i - 1) : t.routes[j].order < t.routes[i].order
                BY <2>6, <4>1, <4>2
            <4> QED BY <2>6, <4>1, <4>5, <4>6
        <3> QED BY <3>1, <3>2
    <2>11. t.servers = st.servers /\ t.groups = st.groups /\ Kept(st, t)
        BY <2>4, KeptThrough DEF Extended
    <2>12. Extended(t)
        BY <2>4, <2>9, <2>10, <2>11 DEF Extended, m
    <2> QED BY <2>1, <2>12
<1> QED BY <1>2, <1>3

LEMMA ImportAllExtends ==
    ASSUME Good(st), NEW rules \in RuleSets, ImportAll(rules)
    PROVE  Extended(st')
<1> DEFINE n == Len(rules)
           Y == {s \in State : Extended(s)}
           Op(k, y) == WithRule(y, rules[k])
           step == [p \in (1..n) \X Y |-> Op(p[1], p[2])]
           Eq(f) == f = [k \in 0..n |-> IF k = 0 THEN st ELSE Op(k, f[k - 1])]
           after == CHOOSE f : Eq(f)
<1>1. st' = after[n]
    BY DEF ImportAll
<1>2. n \in Nat /\ \A k \in 1..n : rules[k].cond \in Conds
    <2> DEFINE R == [cond : Conds, policy : Seq(STRING)]
    <2>1. rules \in Seq(R)
        BY RequestsAssumption DEF RequestsAssumption
    <2>2. n \in Nat /\ \A k \in 1..n : rules[k] \in R
        <3> HIDE DEF R
        <3> QED BY <2>1
    <2> QED BY <2>2
<1>3. st \in Y
    <2>1. /\ st \in State /\ Len(st.routes) \in Nat
        BY Fields, LenProperties DEF Good
    <2> QED BY <2>1, KeptSame DEF Extended
<1>4. ASSUME NEW k \in 1..n, NEW y \in Y PROVE Op(k, y) \in Y
    <2>1. Extended(Op(k, y))
        BY <1>2, WithRuleExtends
    <2> HIDE DEF Op
    <2>2. Op(k, y) \in State
        BY <2>1 DEF Extended, Good
    <2> QED BY <2>1, <2>2
<1> HIDE DEF Y, Op, n
<1>5. step \in [(1..n) \X Y -> Y] /\ \A k \in 1..n, y \in Y : step[<<k, y>>] = Op(k, y)
    BY <1>4
<1>6. PICK g \in [0..n -> Y] : g[0] = st /\ \A k \in 1..n : g[k] = step[<<k, g[k - 1]>>]
    <2> HIDE DEF step
    <2>1. Recursions(Y, st, n, step) # {}
        BY <1>2, <1>3, <1>5, PrefixRecursion
    <2> QED BY <2>1 DEF Recursions
<1>7. \A k \in 1..n : g[k - 1] \in Y /\ g[k] = Op(k, g[k - 1])
    <2>1. \A k \in 1..n : g[k - 1] \in Y
        BY <1>2
    <2> HIDE DEF step
    <2> QED BY <1>5, <1>6, <2>1
<1>8. Eq(g)
    BY <1>2, <1>6, <1>7
<1>9. Eq(after)
    <2> HIDE DEF Eq
    <2> QED BY <1>8
<1> HIDE DEF after, step
<1>10. after[0] = st /\ \A k \in 1..n : after[k] = Op(k, after[k - 1])
    BY <1>2, <1>9
<1> DEFINE S == {k \in Nat : k <= n => after[k] \in Y}
<1>11. 0 \in S
    BY <1>3, <1>10
<1>12. \A k \in Nat : k \in S => k + 1 \in S
    BY <1>2, <1>4, <1>10
<1>13. n \in S
    <2> HIDE DEF S
    <2> QED BY <1>2, <1>11, <1>12, SetInduction
<1>14. st' \in Y
    BY <1>1, <1>2, <1>13
<1> QED BY <1>14 DEF Y

LEMMA ExtendedIs ==
    ASSUME Good(st), Extended(st')
    PROVE  /\ Step
           /\ \A i, j \in DOMAIN st'.routes :
                 /\ st'.routes[i].id \notin Ids(st.routes)
                 /\ st'.routes[i].conds \cap st'.routes[j].conds # {}
                 => i = j
<1> DEFINE m == Len(st.routes)
           n == Len(st'.routes)
<1>1. /\ m \in Nat /\ DOMAIN st.routes = 1..m
      /\ n \in Nat /\ DOMAIN st'.routes = 1..n
    <2>1. st.routes \in Seq(Route) /\ st'.routes \in Seq(Route)
        BY Fields DEF Good, Extended
    <2> QED BY <2>1, LenProperties
<1>2. /\ m <= n /\ \A i \in 1..m : st'.routes[i] = st.routes[i]
      /\ \A i \in (m + 1)..n :
           /\ \A j \in 1..(i - 1) : st'.routes[j].order < st'.routes[i].order
           /\ \A j \in 1..n : j # i => st'.routes[i].conds \cap st'.routes[j].conds = {}
    BY DEF Extended
<1> HIDE DEF m, n
<1>3. \A i \in 1..n : st'.routes[i].id \notin Ids(st.routes) => i \in (m + 1)..n
    <2>1. \A i \in 1..n : i \in 1..m \/ i \in (m + 1)..n
        BY <1>1
    <2> QED BY <1>1, <1>2, <2>1 DEF Ids
<1>4. AddedLast
    BY <1>1, <1>2, <1>3 DEF AddedLast
<1>5. Step
    BY <1>4, NothingLeaves DEF Extended
<1> QED BY <1>1, <1>2, <1>3, <1>5

(* A document that the generator accepts names what it holds. *)
LEMMA GeneratesIs ==
    ASSUME NEW doc, doc \in State, Generates(doc)
    PROVE  /\ Good(doc)
           /\ \A i \in Enabled(doc) :
                 doc.routes[i].target \in {Direct, Reject} \cup Ids(doc.servers) \cup Ids(doc.groups)
           /\ \A h \in ToSet(doc.groups) :
                 h.members \subseteq Ids(doc.servers) \cup Ids(doc.groups)
<1>1. Entities(doc) \subseteq Ids(doc.servers) \cup Ids(doc.groups)
    BY DEF Entities, Active, Ids
<1>2. \A i \in Enabled(doc) :
        doc.routes[i].target \in {Direct, Reject} \cup Ids(doc.servers) \cup Ids(doc.groups)
    BY <1>1 DEF Generates, LostTargets, Resolves
<1>3. Good(doc)
    BY <1>2, IdTypes DEF Good, TargetsExist, Exists
<1>4. \A i \in DOMAIN doc.groups : doc.groups[i].members \subseteq Entities(doc)
    BY DEF Generates, BrokenGroups
<1> QED BY <1>1, <1>2, <1>3, <1>4 DEF ToSet

Replaced == Import /\ st' \in State /\ Generates(st')

LEMMA ReplacedGood == Replaced => Good(st')
BY GeneratesIs DEF Replaced

(* Every request keeps the document good, and only an import of a whole    *)
(* document takes servers or groups that are still named.                  *)
LEMMA NextStep ==
    ASSUME Good(st), Next
    PROVE  Step \/ Replaced
<1>1. /\ PoolAssumption /\ RequestsAssumption /\ st \in State
    BY PoolAssumption, RequestsAssumption DEF Good
<1>2. CASE SourceNext
    <2>1. \A n \in Found : n \in Nat
        BY <1>1 DEF PoolAssumption
    <2> QED BY <1>2, <2>1, CreateSourceStep, ImportNikkiStep, PatchSourceStep,
               DeleteSourceStep DEF SourceNext
<1>3. CASE ServerNext
    BY <1>3, CreateServersStep, EditServerStep, DeleteServerStep DEF ServerNext
<1>4. CASE GroupNext
    BY <1>4, CreateGroupStep, PatchGroupStep, DeleteGroupStep DEF GroupNext
<1>5. CASE RouteNext
    <2>1. Orders \subseteq Int /\ NextOrder(st) \in Int
        BY <1>1, NextOrderIs DEF RequestsAssumption
    <2>2. \A id \in Ids(st.routes) : st.routes[IndexOf(st.routes, id)].order \in Int
        <3>1. \A i \in DOMAIN st.routes : st.routes[i] \in Route
            <4> HIDE DEF Route
            <4>1. st.routes \in Seq(Route)
                BY <1>1, Fields
            <4> QED BY <4>1
        <3>2. \A i \in DOMAIN st.routes : st.routes[i].order \in Int
            BY <3>1 DEF Route
        <3>3. \A id \in Ids(st.routes) : IndexOf(st.routes, id) \in DOMAIN st.routes
            BY <1>1, Fields, IndexOfIs
        <3> QED BY <3>2, <3>3
    <2>3. CASE \E on \in BOOLEAN, conds \in SUBSET Conds, provs \in SUBSET Provs,
                  target \in Targets : \E order \in Orders \cup {NextOrder(st)} :
                    CreateRoute(order, on, conds, provs, target)
        BY <2>1, <2>3, CreateRouteStep
    <2>4. CASE \E on \in BOOLEAN, conds \in SUBSET Conds, provs \in SUBSET Provs,
                  target \in Targets : \E id \in Ids(st.routes) :
                    \E order \in Orders \cup {st.routes[IndexOf(st.routes, id)].order} :
                       PatchRoute(id, order, on, conds, provs, target)
        BY <2>1, <2>2, <2>4, PatchRouteStep
    <2>5. CASE \E id \in Ids(st.routes) : DeleteRoute(id)
        BY <2>5, DeleteRouteStep
    <2> QED BY <1>5, <2>3, <2>4, <2>5 DEF RouteNext
<1>6. CASE PolicyNext
    BY <1>6, ApplyTemplateStep, ToggleTemplateStep, PatchPolicyStep DEF PolicyNext
<1>7. CASE ImportNext
    <2>1. CASE \E rules \in RuleSets : ImportAll(rules)
        BY <2>1, ImportAllExtends, ExtendedIs
    <2>2. CASE \E rules \in RuleSets : \E i \in DOMAIN rules,
                 override \in {{}} \cup {{t} : t \in Targets} : ImportRule(rules[i], override)
        <3>1. \A rules \in RuleSets : \A i \in DOMAIN rules : rules[i].cond \in Conds
            <4> DEFINE R == [cond : Conds, policy : Seq(STRING)]
            <4>1. \A rules \in RuleSets : rules \in Seq(R)
                BY <1>1 DEF RequestsAssumption
            <4>2. \A rules \in RuleSets : \A i \in DOMAIN rules : rules[i] \in R
                <5> HIDE DEF R
                <5> QED BY <4>1
            <4> QED BY <4>2
        <3> QED BY <2>2, <3>1, ImportRuleStep
    <2>3. CASE \E doc \in Documents : ImportDocument(doc)
        BY <1>1, <2>3 DEF ImportDocument, Import, Replaced, RequestsAssumption
    <2> QED BY <1>7, <2>1, <2>2, <2>3 DEF ImportNext
<1> QED BY <1>2, <1>3, <1>4, <1>5, <1>6, <1>7 DEF Next

LEMMA NextGood == Good(st) /\ [Next]_st => Good(st')
<1>1. CASE Next
    BY <1>1, NextStep, ReplacedGood DEF Step
<1>2. CASE UNCHANGED st
    BY <1>2 DEF Good, TargetsExist, Enabled, Exists
<1> QED BY <1>1, <1>2

LEMMA AlwaysGood == Spec => []Good(st)
<1>1. Good(st) /\ [Next]_st => Good(st)'
    BY NextGood DEF Good, TargetsExist, Enabled, Exists
<1> QED BY <1>1, InitGood, PTL DEF Spec

-----------------------------------------------------------------------------
(* The theorems. *)

(* The state has the shape of a document after every handler, whatever was *)
(* imported, and newID never mints a number below one.                     *)
THEOREM TypeCorrect == Spec => []TypeOK
<1>1. Good(st) => TypeOK
    BY DEF Good, TypeOK
<1> QED BY <1>1, AlwaysGood, PTL

(* FR-4.8: an enabled route never aims at a group that does not exist.     *)
THEOREM EnabledRoutesHaveGroups == Spec => []EnabledTargetsGroup
<1>1. Good(st) => EnabledTargetsGroup
    <2>1. \A t \in ServerIds : t[1] = "srv"
        BY DEF ServerIds
    <2> QED BY <2>1 DEF Good, TargetsExist, Exists, EnabledTargetsGroup
<1> QED BY <1>1, AlwaysGood, PTL

-----------------------------------------------------------------------------
(* What a step may never do. *)

(* Unique IDs stay unique under every handler but an import (newID and the *)
(* handlers), although numbers are freed and minted again.                 *)
THEOREM IdsUniqueStay == Spec => IdsStayUnique
<1>1. Good(st) /\ Next => Kept(st, st') \/ Import
    BY NextStep DEF Step, Replaced
<1>2. Good(st) /\ [Next]_st =>
        [\/ /\ Unshared(st.sources) => Unshared(st'.sources)
            /\ Unshared(st.groups) => Unshared(st'.groups)
            /\ Unshared(st.routes) => Unshared(st'.routes)
         \/ Import]_st
    BY <1>1 DEF Kept
<1> QED BY <1>2, AlwaysGood, PTL DEF Spec, IdsStayUnique

(* Servers that all have a source keep one under every handler but an      *)
(* import: handleSourceDelete takes the servers along, and Merge is only   *)
(* given sources that exist.                                               *)
THEOREM ServersHaveSources == Spec => ServersOwned
<1>1. Good(st) /\ Next => Kept(st, st') \/ Import
    BY NextStep DEF Step, Replaced
<1>2. Good(st) /\ [Next]_st => [(Owned(st) => Owned(st')) \/ Import]_st
    BY <1>1 DEF Kept
<1> QED BY <1>2, AlwaysGood, PTL DEF Spec, ServersOwned

(* FR-4.8: the server an enabled route aims at leaves the pool only with   *)
(* its source or by aging: handleServerDelete refuses, and a document that *)
(* the generator accepts has it.                                           *)
THEOREM TargetServersStay == Spec => ServerTargetsKept
<1>1. ASSUME Good(st), Next, NEW id \in Ids(st.servers) \ Ids(st'.servers),
             RoutesTargeting(st, id) # {},
             RoutesTargeting(st', id) \cap Enabled(st') # {}
      PROVE  Excused(id)
    <2>1. CASE Step
        BY <1>1, <2>1 DEF Step, ServersLeave
    <2>2. CASE Replaced
        <3>1. PICK i \in Enabled(st') : st'.routes[i].target = id
            BY <1>1 DEF RoutesTargeting
        <3>2. st' \in State /\ Generates(st')
            BY <2>2 DEF Replaced
        <3>3. id \in {Direct, Reject} \cup Ids(st'.groups)
            BY <1>1, <3>1, <3>2, GeneratesIs
        <3>4. id \in ServerIds /\ Ids(st'.groups) \subseteq GroupIds
            BY <1>1, <3>2, IdTypes DEF Good
        <3> QED BY <3>3, <3>4, IdsDiffer
    <2> QED BY <1>1, <2>1, <2>2, NextStep
<1>2. Good(st) /\ [Next]_st =>
        [\A id \in Ids(st.servers) \ Ids(st'.servers) :
            (/\ RoutesTargeting(st, id) # {}
             /\ RoutesTargeting(st', id) \cap Enabled(st') # {})
            => Excused(id)]_st
    BY <1>1
<1> QED BY <1>2, AlwaysGood, PTL DEF Spec, ServerTargetsKept

(* "Remove from groups too": no group of before keeps a member that a      *)
(* request took away.                                                      *)
THEOREM GroupMembersStay == Spec => MembersKept
<1>1. ASSUME Good(st), Next, NEW g \in ToSet(st.groups), NEW h \in ToSet(st'.groups),
             NEW m \in g.members \cap h.members
      PROVE  /\ m \in Ids(st.groups) => m \in Ids(st'.groups)
             /\ m \in Ids(st.servers) \ Ids(st'.servers) => Excused(m)
    <2>1. CASE Step
        BY <1>1, <2>1 DEF Step, ServersLeave, GroupsLeave, Unlisted
    <2>2. CASE Replaced
        <3>1. st' \in State /\ Generates(st')
            BY <2>2 DEF Replaced
        <3>2. m \in Ids(st'.servers) \cup Ids(st'.groups)
            BY <1>1, <3>1, GeneratesIs
        <3>3. /\ Ids(st.groups) \subseteq GroupIds /\ Ids(st.servers) \subseteq ServerIds
              /\ Ids(st'.groups) \subseteq GroupIds /\ Ids(st'.servers) \subseteq ServerIds
            BY <1>1, <3>1, IdTypes DEF Good
        <3> QED BY <3>2, <3>3, IdsDiffer
    <2> QED BY <1>1, <2>1, <2>2, NextStep
<1>2. Good(st) /\ [Next]_st =>
        [\A g \in ToSet(st.groups), h \in ToSet(st'.groups) :
            g.id = h.id =>
              \A m \in g.members \cap h.members :
                /\ m \in Ids(st.groups) => m \in Ids(st'.groups)
                /\ m \in Ids(st.servers) \ Ids(st'.servers) => Excused(m)]_st
    BY <1>1
<1> QED BY <1>2, AlwaysGood, PTL DEF Spec, MembersKept

(* "servers of OTHER sources are untouched": but for an import of a whole  *)
(* document, no request changes the servers of two sources (Merge, and the *)
(* handlers that edit or delete a server or a source).                     *)
THEOREM SourcesStayIsolated == Spec => SourcesIsolated
<1>1. \A s, a : PoolOf(s, a) = Of(s.servers, a)
    BY DEF PoolOf, Of
<1>2. Good(st) /\ Next => Isolated \/ Import
    BY NextStep DEF Step, Replaced
<1>3. Good(st) /\ [Next]_st =>
        [\/ \A a, b \in Ids(st.sources) :
              a # b => \/ PoolOf(st, a) = PoolOf(st', a)
                       \/ PoolOf(st, b) = PoolOf(st', b)
         \/ Import]_st
    BY <1>1, <1>2 DEF Isolated
<1> QED BY <1>3, AlwaysGood, PTL DEF Spec, SourcesIsolated

(* FR-4.5: a route that is added without an order comes after every route  *)
(* there is (nextOrder, handleRoutesCreate and the imports).               *)
THEOREM AddedRoutesComeLast == Spec => AddedRouteLast
<1>1. Good(st) /\ Next => AddedLast \/ Import
    BY NextStep DEF Step, Replaced
<1>2. Good(st) /\ [Next]_st =>
        [\/ \A i \in DOMAIN st'.routes :
              /\ st'.routes[i].id \notin Ids(st.routes)
              /\ st'.routes[i].order \notin Orders
              => \A j \in 1..(i - 1) : st'.routes[j].order < st'.routes[i].order
         \/ Import]_st
    BY <1>1 DEF AddedLast
<1> QED BY <1>2, AlwaysGood, PTL DEF Spec, AddedRouteLast

(* "a repeated import is a no-op": a bulk import adds no second route for  *)
(* a condition, however long the list and whatever it repeats.             *)
THEOREM BulkImportRepeatsNothing == Spec => BulkImportOnce
<1>1. ASSUME Good(st), NEW rules \in RuleSets, ImportAll(rules)
      PROVE  ~\E i, j \in DOMAIN st'.routes :
                /\ i # j
                /\ st'.routes[i].id \notin Ids(st.routes)
                /\ st'.routes[i].conds \cap st'.routes[j].conds # {}
    BY <1>1, ImportAllExtends, ExtendedIs
<1>2. Good(st) /\ [Next]_st =>
        [(\E i, j \in DOMAIN st'.routes :
            /\ i # j
            /\ st'.routes[i].id \notin Ids(st.routes)
            /\ st'.routes[i].conds \cap st'.routes[j].conds # {})
         => ~\E rules \in RuleSets : ImportAll(rules)]_st
    BY <1>1
<1> QED BY <1>2, AlwaysGood, PTL DEF Spec, BulkImportOnce

-----------------------------------------------------------------------------
(* Merge, for any servers and any offer: every usable entry of the offer   *)
(* ends as a fresh server of the source; a server goes only when it is of  *)
(* the source, is not offered and has missed its last answer ("delete      *)
(* after 3"); the part of every other source stays as it was.              *)
THEOREM MergeHonest ==
    ASSUME NEW s \in State, NEW source \in SubIds,
           NEW offer \in Seq(Keys \cup {Unusable})
    PROVE  LET t == Merge(s, source, offer) IN
           /\ t \in State
           /\ \A k \in ToSet(Distinct(offer)) : \E v \in ToSet(t.servers) :
                 v.source = source /\ Key(v) = k /\ ~v.stale /\ v.misses = 0
           /\ \A i \in DOMAIN s.servers :
                 \/ s.servers[i].id \in Ids(t.servers)
                 \/ /\ s.servers[i].source = source
                    /\ ~Contains(Distinct(offer), Key(s.servers[i]))
                    /\ s.servers[i].misses + 1 >= StaleAfterUpdates
           /\ \A a : a # source => PoolOf(t, a) = PoolOf(s, a)
<1>1. StaleAfterUpdates \in Nat \ {0} /\ s.servers \in Seq(Server)
    BY Fields, PoolAssumption DEF PoolAssumption
<1>2. PICK list \in MergedLists(s, source, offer) : TRUE
    BY <1>1, MergeIs
<1> DEFINE t == [s EXCEPT !.servers = list]
<1>3. Merge(s, source, offer) = t /\ list \in Seq(Server)
    BY <1>2 DEF MergedLists
<1>4. t \in State /\ t.servers = list
    BY <1>3, FieldEdits
<1> HIDE DEF t
<1>5. /\ \A k \in ToSet(Distinct(offer)) : \E v \in ToSet(list) :
            v.source = source /\ Key(v) = k /\ ~v.stale /\ v.misses = 0
      /\ \A i \in DOMAIN s.servers :
            \/ s.servers[i].id \in Ids(list)
            \/ /\ s.servers[i].source = source
               /\ ~Contains(Distinct(offer), Key(s.servers[i]))
               /\ s.servers[i].misses + 1 >= StaleAfterUpdates
      /\ \A a : a # source => Of(list, a) = Of(s.servers, a)
    BY <1>2 DEF MergedLists
<1>6. \A x, a : PoolOf(x, a) = Of(x.servers, a)
    BY DEF PoolOf, Of
<1> QED BY <1>3, <1>4, <1>5, <1>6
=============================================================================
