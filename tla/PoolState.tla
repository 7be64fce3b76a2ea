------------------------------- MODULE PoolState -------------------------------
(***************************************************************************)
(* The content of state.json and the functions WellBoard applies to it:    *)
(*   internal/model         the entities;                                  *)
(*   internal/subscription  Merge;                                         *)
(*   internal/generator     what makes a state generate;                   *)
(*   internal/api           the checks and look-ups the handlers share.    *)
(* An ID is a tuple that starts with its prefix; a server's ID also holds  *)
(* what ServerID hashes.  A target or a group member is the ID it names,   *)
(* or Direct or Reject.                                                    *)
(***************************************************************************)
EXTENDS Integers, Sequences, FiniteSets, SequencesExt

CONSTANTS
    Known,             \* providers with a payload in the template catalog
    Unusable,          \* an offered entry without a name or an address
    StaleAfterUpdates  \* misses at which a vanished server goes (3)

Direct == <<"DIRECT">>
Reject == <<"REJECT">>

(* The shapes of IDs and of a server; the other entities are in Pool.  A   *)
(* document may hold any count of misses and shares of an ID.              *)
SubIds    == {"sub"} \X (Nat \ {0})
Keys      == [name : STRING, addr : STRING]
ServerIds == {"srv"} \X SubIds \X Keys

Server == [id : ServerIds, source : SubIds, name : STRING, addr : STRING,
           stale : BOOLEAN, misses : Int]

EmptyState == [sources |-> <<>>, servers |-> <<>>, groups |-> <<>>,
               routes |-> <<>>, policy |-> Direct, hidden |-> {}]

-----------------------------------------------------------------------------
(* IDs and references. *)

Ids(entities) == {entities[i].id : i \in DOMAIN entities}

(* The loops over a list stop at the first match. *)
IndexOf(entities, id) == SelectInSeq(entities, LAMBDA e : e.id = id)

(* Mutant: numbers start at 0. *)
ZeroID(prefix, entities) ==
    <<prefix, CHOOSE n \in 0..Len(entities) : <<prefix, n>> \notin Ids(entities)>>

(* Mutant: one more than the number of entities. *)
CountID(prefix, entities) == <<prefix, Len(entities) + 1>>

(* newID: the smallest number that is free. *)
NewID(prefix, entities) ==
    <<prefix, CHOOSE n \in 1..(Len(entities) + 1) :
                /\ <<prefix, n>> \notin Ids(entities)
                /\ \A m \in 1..(n - 1) : <<prefix, m>> \in Ids(entities)>>

(* The loops that rebuild a list: the elements at the positions in K.      *)
Filter(list, K) ==
    LET first[i \in 0..Len(list)] ==
            IF i = 0 THEN <<>>
            ELSE IF i \in K THEN Append(first[i - 1], list[i])
            ELSE first[i - 1]
    IN  first[Len(list)]

(* routesTargeting: the guard of the delete handlers. *)
RoutesTargeting(s, id) ==
    {i \in DOMAIN s.routes : s.routes[i].target = id}

(* removeString on the members of every group but the one that goes. *)
Pruned(groups, id) ==
    [i \in DOMAIN groups |->
       IF groups[i].id = id THEN groups[i]
       ELSE [groups[i] EXCEPT !.members = @ \ {id}]]

(* validateTarget: a server must not be stale, a group must exist. *)
ValidTarget(s, t) ==
    \/ t \in {Direct, Reject}
    \/ t \in Ids(s.groups)
    \/ /\ t \in Ids(s.servers)
       /\ ~s.servers[IndexOf(s.servers, t)].stale

(* Mutant: ten times the position. *)
PositionOrder(s) == 10 * (Len(s.routes) + 1)

(* nextOrder. *)
NextOrder(s) ==
    10 + Max({0} \cup {s.routes[i].order : i \in DOMAIN s.routes})

(* validateGroupIn. *)
ValidMembers(s, members) ==
    members # {} /\ members \subseteq Ids(s.servers) \cup Ids(s.groups)

(* validateRouteIn. *)
ValidRoute(s, r) ==
    /\ r.conds # {} \/ r.provs # {}
    /\ r.provs \subseteq Known
    /\ ValidTarget(s, r.target)

(* serverOrGroupByName: an external policy names a group or a server. *)
ByName(s, name) ==
    LET g == SelectInSeq(s.groups, LAMBDA e : e.name = name)
        v == SelectInSeq(s.servers, LAMBDA e : e.name = name)
    IN  IF g # 0 THEN {s.groups[g].id}
        ELSE IF v # 0 THEN {s.servers[v].id} ELSE {}

(* targetFromPolicy, then the look-up by name: at most one target.  A      *)
(* policy is <<name>>, which Direct and Reject are too.                    *)
PolicyTarget(s, policy) ==
    IF policy \in {Direct, Reject} THEN {policy} ELSE ByName(s, policy[1])

-----------------------------------------------------------------------------
(* Merge. *)

ServerID(source, key) == <<"srv", source, key>>

Key(v) == [name |-> v.name, addr |-> v.addr]

(* The usable entries of an answer, each once. *)
Distinct(offer) ==
    Filter(offer, {i \in DOMAIN offer : /\ offer[i] # Unusable
                                        /\ \A j \in 1..(i - 1) : offer[j] # offer[i]})

(* The server of the source that an offered key refreshes: the index keeps *)
(* the last one when two share a key.                                      *)
Matches(servers, source, key) ==
    {i \in DOMAIN servers : servers[i].source = source /\ Key(servers[i]) = key}

Missed(v)    == [v EXCEPT !.stale = TRUE, !.misses = @ + 1]
Refreshed(v) == [v EXCEPT !.stale = FALSE, !.misses = 0]

(* Mutant: every server missing from the answer is aged. *)
AgedAnySource(servers, source, keys, i) ==
    LET v == servers[i] IN
    IF ~Contains(keys, Key(v)) THEN Missed(v)
    ELSE IF i = Max(Matches(servers, v.source, Key(v))) THEN Refreshed(v)
    ELSE v

(* A server after an answer for source. *)
Aged(servers, source, keys, i) ==
    LET v == servers[i] IN
    IF v.source # source THEN v
    ELSE IF ~Contains(keys, Key(v)) THEN Missed(v)
    ELSE IF i = Max(Matches(servers, source, Key(v))) THEN Refreshed(v)
    ELSE v

(* Merge: known servers are refreshed, vanished ones age and go, new ones  *)
(* are appended.                                                           *)
Merge(s, source, offer) ==
    LET keys == Distinct(offer)
        old  == [i \in DOMAIN s.servers |-> Aged(s.servers, source, keys, i)]
        kept == Filter(old, {i \in DOMAIN old :
                               \/ old[i].source # source
                               \/ Contains(keys, Key(old[i]))
                               \/ old[i].misses < StaleAfterUpdates})
        new  == Filter(keys, {i \in DOMAIN keys :
                                Matches(s.servers, source, keys[i]) = {}})
        born == [i \in DOMAIN new |->
                   [id |-> ServerID(source, new[i]), source |-> source,
                    name |-> new[i].name, addr |-> new[i].addr,
                    stale |-> FALSE, misses |-> 0]]
    IN  [s EXCEPT !.servers = kept \o born]

-----------------------------------------------------------------------------
(* The generator. *)

LiveSources(s) ==
    {s.sources[i].id : i \in {j \in DOMAIN s.sources :
                                \/ s.sources[j].kind = "manual"
                                \/ s.sources[j].enabled}}

Active(s) ==
    {i \in DOMAIN s.servers : /\ s.servers[i].source \in LiveSources(s)
                              /\ ~s.servers[i].stale}

(* The IDs of the proxies and groups of the profile. *)
Entities(s) == {s.servers[i].id : i \in Active(s)} \cup Ids(s.groups)

(* resolveTarget. *)
Resolves(s, t) == t \in {Direct, Reject} \cup Entities(s)

Enabled(s) == {i \in DOMAIN s.routes : s.routes[i].enabled}

LostTargets(s) == {i \in Enabled(s) : ~Resolves(s, s.routes[i].target)}

BrokenGroups(s) ==
    {i \in DOMAIN s.groups :
       \/ s.groups[i].members = {}
       \/ s.groups[i].id \in s.groups[i].members
       \/ ~(s.groups[i].members \subseteq Entities(s))}

BrokenRoutes(s) ==
    {i \in Enabled(s) :
       \/ s.routes[i].conds = {} /\ s.routes[i].provs = {}
       \/ ~(s.routes[i].provs \subseteq Known)
       \/ \E j \in Enabled(s) \ {i} :
            s.routes[i].provs \cap s.routes[j].provs # {}}

(* GenerateWithProviders returns a profile and no Problems. *)
Generates(s) ==
    /\ LostTargets(s) = {}
    /\ BrokenGroups(s) = {}
    /\ BrokenRoutes(s) = {}
    /\ Resolves(s, s.policy)
=============================================================================
