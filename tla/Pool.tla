---------------------------------- MODULE Pool ----------------------------------
(***************************************************************************)
(* The mutation handlers of internal/api over state.json.  Each takes      *)
(* Server.mu in load, checks the request against the state, changes it,    *)
(* saves and unlocks: one action per handler.  A request that is refused,  *)
(* or whose save fails, changes nothing and is no step.  The IDs of a      *)
(* document are not checked, so a handler takes the first entity that has  *)
(* the ID it is given.                                                     *)
(***************************************************************************)
EXTENDS PoolState

CONSTANTS
    Found,       \* how many new URLs a scan of nikki's files may find
    Offers,      \* answers and pasted links, as sequences of keys or Unusable
    Edits,       \* keys PUT /servers/{id} may give a server
    GroupNames,  \* names of groups
    Remembered,  \* IDs of groups a request may name, there or not
    Conds,       \* conditions of a route
    Provs,       \* providers of a route
    Policies,    \* targets a request may give the default policy
    Orders,      \* orders a request may give a route
    Catalog,     \* the templates: id to [conds, provs]
    AllVPN,      \* the template that sets the default policy
    RuleSets,    \* external rules: sequences of [cond, policy]
    Documents,   \* documents POST /import may carry
    MaxKind, MaxWeight, MaxMembers, MaxOrder  \* bounds

(* The entities, as internal/model declares them.  A document may give a   *)
(* source any kind: "other" stands for every kind the program has not.     *)
GroupIds  == {"grp"} \X (Nat \ {0})
RouteIds  == {"rt"} \X (Nat \ {0})
MemberIds == ServerIds \cup GroupIds
TargetIds == MemberIds \cup {Direct, Reject}

Kinds  == {"subscription", "manual", "other"}
Source == [id : SubIds, kind : Kinds, enabled : BOOLEAN]
Group  == [id : GroupIds, name : GroupNames, members : SUBSET MemberIds]
Route  == [id : RouteIds, order : Int, enabled : BOOLEAN,
           conds : SUBSET Conds, provs : SUBSET Provs, target : TargetIds]
State  == [sources : Seq(Source), servers : Seq(Server), groups : Seq(Group),
           routes : Seq(Route), policy : TargetIds,
           hidden : SUBSET DOMAIN Catalog]

Unshared(entities) == \A i, j \in DOMAIN entities :
                         entities[i].id = entities[j].id => i = j

Owned(s) == \A v \in ToSet(s.servers) : v.source \in Ids(s.sources)

ASSUME PoolAssumption ==
    /\ StaleAfterUpdates \in Nat \ {0}
    /\ Found \subseteq Nat
    /\ Known \subseteq Provs
    /\ {MaxKind, MaxWeight, MaxMembers, MaxOrder} \subseteq Nat

ASSUME RequestsAssumption ==
    /\ Unusable \notin Keys
    /\ \A offer \in Offers : offer \in Seq(Keys \cup {Unusable})
    /\ Edits \subseteq Keys
    /\ Orders \subseteq Int
    /\ Policies \subseteq TargetIds
    /\ Remembered \subseteq GroupIds
    /\ \A t \in DOMAIN Catalog :
          Catalog[t].conds \subseteq Conds /\ Catalog[t].provs \subseteq Provs
    /\ \A rules \in RuleSets : rules \in Seq([cond : Conds, policy : Seq(STRING)])
    /\ Documents \subseteq State

VARIABLE st  \* state.json

(* What a request may name: what exists, and what a user remembers.        *)
Members == Ids(st.servers) \cup Ids(st.groups) \cup Remembered
Targets == Members \cup {Direct, Reject}

(* A route, which has the most shapes, weighs two; so does a disabled      *)
(* source.                                                                 *)
Weight(s) ==
    Len(s.sources) + Len(s.servers) + Len(s.groups) + 2 * Len(s.routes)
    + Cardinality(s.hidden) + Cardinality({i \in DOMAIN s.sources : ~s.sources[i].enabled})

Bounded ==
    /\ Weight(st') <= MaxWeight
    /\ {Len(st'.sources), Len(st'.servers), Len(st'.groups), Len(st'.routes)}
         \subseteq 0..MaxKind
    /\ \A i \in DOMAIN st'.groups : Cardinality(st'.groups[i].members) <= MaxMembers
    /\ \A i \in DOMAIN st'.routes : st'.routes[i].order <= MaxOrder

-----------------------------------------------------------------------------
(* Sources. *)

AddSource(s, kind, on) ==
    [s EXCEPT !.sources =
        Append(@, [id |-> NewID("sub", s.sources), kind |-> kind,
                   enabled |-> on])]

(* handleSourcesCreate. *)
CreateSource(kind, on) == st' = AddSource(st, kind, on)

(* handleSourcesImportNikki: a source for each of the n discovered URLs    *)
(* that no source has.                                                     *)
ImportNikki(n) ==
    LET after[k \in 0..n] ==
            IF k = 0 THEN st ELSE AddSource(after[k - 1], "subscription", TRUE)
    IN  st' = after[n]

(* handleSourcePatch. *)
PatchSource(id, on) ==
    st' = [st EXCEPT !.sources[IndexOf(st.sources, id)].enabled = on]

ServersOfOthers(servers, id) ==
    Filter(servers, {k \in DOMAIN servers : servers[k].source # id})

(* Mutant: the source's servers stay in the pool. *)
DeleteSourceOnly(id) ==
    /\ RoutesTargeting(st, id) = {}
    /\ st' = [st EXCEPT !.sources = RemoveAt(@, IndexOf(@, id))]

(* handleSourceDelete: the guard compares the targets with the source's    *)
(* own ID.                                                                 *)
DeleteSource(id) ==
    /\ RoutesTargeting(st, id) = {}
    /\ st' = [st EXCEPT !.sources = RemoveAt(@, IndexOf(@, id)),
                        !.servers = ServersOfOthers(@, id)]

-----------------------------------------------------------------------------
(* Servers. *)

FirstManual(s) == SelectInSeq(s.sources, LAMBDA e : e.kind = "manual")

(* manualSourceID: the first manual source, created on first use. *)
WithManual(s) ==
    IF FirstManual(s) # 0 THEN s ELSE AddSource(s, "manual", TRUE)

(* handleServersCreate: pasted links are merged into the manual source. *)
CreateServers(links) ==
    LET s == WithManual(st) IN
    /\ Distinct(links) # <<>>
    /\ st' = Merge(s, s.sources[FirstManual(s)].id, links)

(* handleServerUpdate: the name must be free in the whole pool; the ID     *)
(* stays.                                                                  *)
EditServer(id, key) ==
    LET i == IndexOf(st.servers, id) IN
    /\ \A j \in DOMAIN st.servers :
         st.servers[j].id # id => st.servers[j].name # key.name
    /\ st' = [st EXCEPT !.servers[i].name = key.name,
                        !.servers[i].addr = key.addr]

(* Mutant: a server that is a route's target may be deleted. *)
DeleteServerUnguarded(id) ==
    st' = [st EXCEPT !.servers = RemoveAt(@, IndexOf(@, id)),
                     !.groups = Pruned(@, id)]

(* handleServerDelete. *)
DeleteServer(id) ==
    /\ RoutesTargeting(st, id) = {}
    /\ st' = [st EXCEPT !.servers = RemoveAt(@, IndexOf(@, id)),
                        !.groups = Pruned(@, id)]

-----------------------------------------------------------------------------
(* Groups. *)

CreateGroup(name, members) ==
    /\ ValidMembers(st, members)
    /\ st' = [st EXCEPT !.groups =
                Append(@, [id |-> NewID("grp", st.groups), name |-> name,
                           members |-> members])]

(* handleGroupPatch checks the name only. *)
PatchGroup(id, name, members) ==
    LET i == IndexOf(st.groups, id) IN
    st' = [st EXCEPT !.groups[i].name = name, !.groups[i].members = members]

(* Mutant: other groups keep the deleted one as a member. *)
DeleteGroupOnly(id) ==
    /\ RoutesTargeting(st, id) = {}
    /\ st' = [st EXCEPT !.groups = RemoveAt(@, IndexOf(@, id))]

(* handleGroupDelete. *)
DeleteGroup(id) ==
    /\ RoutesTargeting(st, id) = {}
    /\ st' = [st EXCEPT !.groups = Pruned(RemoveAt(@, IndexOf(@, id)), id)]

-----------------------------------------------------------------------------
(* Routes and the default policy. *)

AddRoute(s, r) ==
    [s EXCEPT !.routes =
        Append(@, [id |-> NewID("rt", s.routes), order |-> r.order,
                   enabled |-> r.enabled, conds |-> r.conds,
                   provs |-> r.provs, target |-> r.target])]

(* handleRoutesCreate; without an order the route goes last. *)
CreateRoute(order, on, conds, provs, target) ==
    LET r == [order |-> order, enabled |-> on, conds |-> conds,
              provs |-> provs, target |-> target] IN
    /\ ValidRoute(st, r)
    /\ st' = AddRoute(st, r)

(* Mutant: only a new target is checked. *)
PatchRouteTrusting(id, order, on, conds, provs, target) ==
    LET i == IndexOf(st.routes, id)
        r == [st.routes[i] EXCEPT !.order = order, !.enabled = on,
                                  !.conds = conds, !.provs = provs,
                                  !.target = target] IN
    /\ target # st.routes[i].target => ValidRoute(st, r)
    /\ st' = [st EXCEPT !.routes[i] = r]

(* handleRoutePatch: the merged route is validated again, so an old        *)
(* reference must still hold.                                              *)
PatchRoute(id, order, on, conds, provs, target) ==
    LET i == IndexOf(st.routes, id)
        r == [st.routes[i] EXCEPT !.order = order, !.enabled = on,
                                  !.conds = conds, !.provs = provs,
                                  !.target = target] IN
    /\ ValidRoute(st, r)
    /\ st' = [st EXCEPT !.routes[i] = r]

DeleteRoute(id) == st' = [st EXCEPT !.routes = RemoveAt(@, IndexOf(@, id))]

(* handleTemplateApply. *)
ApplyTemplate(t, target) ==
    /\ t \notin st.hidden
    /\ ValidTarget(st, target)
    /\ IF t = AllVPN THEN st' = [st EXCEPT !.policy = target]
       ELSE st' = AddRoute(st, [order |-> NextOrder(st), enabled |-> TRUE,
                                conds |-> Catalog[t].conds,
                                provs |-> Catalog[t].provs,
                                target |-> target])

(* handleTemplatesToggle. *)
ToggleTemplate(t, off) ==
    st' = [st EXCEPT !.hidden = IF off THEN @ \cup {t} ELSE @ \ {t}]

(* The default policy of handleSettingsPatch. *)
PatchPolicy(target) ==
    /\ ValidTarget(st, target)
    /\ st' = [st EXCEPT !.policy = target]

-----------------------------------------------------------------------------
(* External rules and whole documents. *)

Imported(s, cond, target) ==
    AddRoute(s, [order |-> NextOrder(s), enabled |-> FALSE, conds |-> {cond},
                 provs |-> {}, target |-> target])

(* handleExternalRuleImport: one live rule becomes a disabled route.  The  *)
(* request may override the target.                                        *)
ImportRule(rule, override) ==
    \E target \in (IF override = {} THEN PolicyTarget(st, rule.policy)
                   ELSE override) :
        /\ ValidTarget(st, target)
        /\ st' = Imported(st, rule.cond, target)

HasCond(s, cond) == \E i \in DOMAIN s.routes : cond \in s.routes[i].conds

(* The one target of a rule that the state has, if it has it. *)
ValidTargets(s, rule) == {t \in PolicyTarget(s, rule.policy) : ValidTarget(s, t)}

(* Mutant: only the routes of before the import are looked at. *)
ImportAllBlind(rules) ==
    LET after[k \in 0..Len(rules)] ==
            IF k = 0 THEN st
            ELSE LET s  == after[k - 1]
                     to == ValidTargets(s, rules[k])
                 IN  IF HasCond(st, rules[k].cond) \/ to = {} THEN s
                     ELSE Imported(s, rules[k].cond, CHOOSE t \in to : TRUE)
    IN  st' = after[Len(rules)]

(* The state after one more rule of a bulk import. *)
WithRule(s, rule) ==
    LET to == ValidTargets(s, rule) IN
    IF HasCond(s, rule.cond) \/ to = {} THEN s
    ELSE Imported(s, rule.cond, CHOOSE t \in to : TRUE)

(* handleExternalRulesImportAll: every live rule whose condition no route  *)
(* has and whose policy resolves.                                          *)
ImportAll(rules) ==
    LET after[k \in 0..Len(rules)] ==
            IF k = 0 THEN st ELSE WithRule(after[k - 1], rules[k])
    IN  st' = after[Len(rules)]

(* handleImport: the document must generate, and replaces the state. *)
ImportDocument(doc) ==
    /\ Generates(doc)
    /\ st' = doc

-----------------------------------------------------------------------------
Init == st = EmptyState

SourceNext ==
    \/ \E kind \in {"subscription", "manual"}, on \in BOOLEAN :
          CreateSource(kind, on)
    \/ \E n \in Found : ImportNikki(n)
    \/ \E id \in Ids(st.sources) :
          \/ \E on \in BOOLEAN : PatchSource(id, on)
          \/ DeleteSource(id)

ServerNext ==
    \/ \E links \in Offers : CreateServers(links)
    \/ \E id \in Ids(st.servers) :
          \/ \E key \in Edits : EditServer(id, key)
          \/ DeleteServer(id)

GroupNext ==
    \/ \E name \in GroupNames, members \in SUBSET Members :
          \/ CreateGroup(name, members)
          \/ \E id \in Ids(st.groups) : PatchGroup(id, name, members)
    \/ \E id \in Ids(st.groups) : DeleteGroup(id)

RouteNext ==
    \/ \E on \in BOOLEAN, conds \in SUBSET Conds, provs \in SUBSET Provs,
          target \in Targets :
          \/ \E order \in Orders \cup {NextOrder(st)} :
                CreateRoute(order, on, conds, provs, target)
          \/ \E id \in Ids(st.routes) :
                \E order \in Orders \cup {st.routes[IndexOf(st.routes, id)].order} :
                   PatchRoute(id, order, on, conds, provs, target)
    \/ \E id \in Ids(st.routes) : DeleteRoute(id)

PolicyNext ==
    \/ \E t \in DOMAIN Catalog :
          \/ \E target \in IF t = AllVPN THEN Policies ELSE Targets :
                ApplyTemplate(t, target)
          \/ \E off \in BOOLEAN : ToggleTemplate(t, off)
    \/ \E target \in Policies : PatchPolicy(target)

ImportNext ==
    \/ \E rules \in RuleSets :
          \/ ImportAll(rules)
          \/ \E i \in DOMAIN rules, override \in {{}} \cup {{t} : t \in Targets} :
                ImportRule(rules[i], override)
    \/ \E doc \in Documents : ImportDocument(doc)

Next ==
    /\ \/ SourceNext \/ ServerNext \/ GroupNext
       \/ RouteNext \/ PolicyNext \/ ImportNext
    /\ Bounded

Spec == Init /\ [][Next]_st

-----------------------------------------------------------------------------
(* The state has the shape of a document, with IDs as newID forms them.    *)
TypeOK == st \in State

Import == \E doc \in Documents : ImportDocument(doc)

(* Only an import can make two sources, two groups or two routes share an  *)
(* ID: newID gives freed numbers out again, but never a number in use.     *)
IdsStayUnique ==
    [][\/ /\ Unshared(st.sources) => Unshared(st'.sources)
          /\ Unshared(st.groups) => Unshared(st'.groups)
          /\ Unshared(st.routes) => Unshared(st'.routes)
       \/ Import]_st

(* Only an import can bring a server without a source: otherwise a source  *)
(* that is given the number of a deleted one would take its servers over.  *)
ServersOwned == [][(Owned(st) => Owned(st')) \/ Import]_st

(* FR-4.8: an enabled route never aims at a group that does not exist: the *)
(* delete guard, the checks of create and patch and the generator's check  *)
(* of an imported document leave no gap between them, although a document  *)
(* may hold a disabled route with a dangling target.                       *)
EnabledTargetsGroup ==
    \A i \in Enabled(st) :
        st.routes[i].target \in Ids(st.groups) \cup {Direct, Reject}
        \/ st.routes[i].target[1] = "srv"

(* The servers a step takes from the pool for reasons of their source: it  *)
(* was deleted, or its answer came without them once too often.            *)
SourceDeleted(id) ==
    \E i \in DOMAIN st.sources : /\ st.sources[i].id = id
                                 /\ st'.sources = RemoveAt(st.sources, i)

MissedAnswer(v) ==
    LET s == WithManual(st) IN
    \E links \in Offers : /\ CreateServers(links)
                          /\ v.source = s.sources[FirstManual(s)].id
                          /\ ~Contains(Distinct(links), Key(v))
                          /\ v.misses + 1 >= StaleAfterUpdates

Excused(id) ==
    LET v == st.servers[IndexOf(st.servers, id)] IN
    SourceDeleted(v.source) \/ MissedAnswer(v)

(* FR-4.8: the server an enabled route aims at leaves the pool only with   *)
(* its source or by aging, never by a request about that server or about   *)
(* another one.                                                            *)
ServerTargetsKept ==
    [][\A id \in Ids(st.servers) \ Ids(st'.servers) :
         (/\ RoutesTargeting(st, id) # {}
          /\ RoutesTargeting(st', id) \cap Enabled(st') # {})
         => Excused(id)]_st

(* "Remove from groups too": a reference that stays in a group keeps its   *)
(* server or group, unless the server went with its source or by aging.    *)
MembersKept ==
    [][\A g \in ToSet(st.groups), h \in ToSet(st'.groups) :
         g.id = h.id =>
           \A m \in g.members \cap h.members :
             /\ m \in Ids(st.groups) => m \in Ids(st'.groups)
             /\ m \in Ids(st.servers) \ Ids(st'.servers) => Excused(m)]_st

PoolOf(s, source) ==
    Filter(s.servers, {i \in DOMAIN s.servers : s.servers[i].source = source})

(* "servers of OTHER sources are untouched": but for an import, no request *)
(* changes the servers of two sources.                                     *)
SourcesIsolated ==
    [][\/ \A a, b \in Ids(st.sources) :
            a # b => \/ PoolOf(st, a) = PoolOf(st', a)
                     \/ PoolOf(st, b) = PoolOf(st', b)
       \/ Import]_st

(* FR-4.5: a route that is added without an order comes after every route  *)
(* there is, whatever was deleted or moved before, and never takes a rule  *)
(* from one of them.                                                       *)
AddedRouteLast ==
    [][\/ \A i \in DOMAIN st'.routes :
            /\ st'.routes[i].id \notin Ids(st.routes)
            /\ st'.routes[i].order \notin Orders
            => \A j \in 1..(i - 1) : st'.routes[j].order < st'.routes[i].order
       \/ Import]_st

(* "a repeated import is a no-op": a route that is added for a condition   *)
(* that another route has, of before or of the same step, was not added by *)
(* a bulk import.                                                          *)
BulkImportOnce ==
    [][(\E i, j \in DOMAIN st'.routes :
          /\ i # j
          /\ st'.routes[i].id \notin Ids(st.routes)
          /\ st'.routes[i].conds \cap st'.routes[j].conds # {})
       => ~\E rules \in RuleSets : ImportAll(rules)]_st

-----------------------------------------------------------------------------
(* FR-1.5, "report which routes/groups lose their target BEFORE deleting": *)
(* deleting a source takes no route's target.                              *)
SourceDeleteKeepsTargets ==
    [][Len(st'.sources) < Len(st.sources) /\ ~Import
       => \A r \in ToSet(st.routes) :
            ValidTarget(st, r.target) => ValidTarget(st', r.target)]_st

(* "Stale marks a server that vanished from its subscription": a server    *)
(* that was added by hand is never stale.                                  *)
ManualNeverStale ==
    \A v \in ToSet(st.servers) :
        v.stale => \E e \in ToSet(st.sources) :
                          e.id = v.source /\ e.kind = "subscription"
=============================================================================
