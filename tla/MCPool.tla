-------------------------------- MODULE MCPool --------------------------------
(* Small instances of Pool. *)
EXTENDS Pool

A == [name |-> "a", addr |-> "x"]
B == [name |-> "b", addr |-> "x"]

PasteOne  == {<<A>>, <<B>>}
PasteMany == {<<A, B>>, <<B, Unusable, B>>}

OneEdit   == {A}
OneGroup  == {<<"grp", 1>>}

SourceOf(n, kind, on) == [id |-> <<"sub", n>>, kind |-> kind, enabled |-> on]

ServerOf(n, key, old, missed) ==
    [id |-> ServerID(<<"sub", n>>, key), source |-> <<"sub", n>>,
     name |-> key.name, addr |-> key.addr, stale |-> old, misses |-> missed]

(* A manual server that two pastes have missed, and a disabled route that  *)
(* still names a group nobody has created.                                 *)
AgedDocument ==
    [EmptyState EXCEPT
       !.sources = <<SourceOf(2, "manual", TRUE)>>,
       !.servers = <<ServerOf(2, A, TRUE, 2)>>,
       !.routes = <<[id |-> <<"rt", 1>>, order |-> 10, enabled |-> FALSE,
                     conds |-> Conds, provs |-> {}, target |-> <<"grp", 1>>]>>]

(* What no WellBoard has written: two sources and two servers share an ID, *)
(* one server has no source, and a fresh one more misses than the limit.   *)
LooseDocument ==
    [EmptyState EXCEPT
       !.sources = <<SourceOf(1, "manual", FALSE), SourceOf(1, "other", TRUE)>>,
       !.servers = <<ServerOf(1, A, FALSE, 5),
                     [ServerOf(1, A, TRUE, 0) EXCEPT !.source = <<"sub", 2>>]>>]

(* A document that references a lost server: it must not be accepted. *)
LostDocument == [AgedDocument EXCEPT !.policy = ServerID(<<"sub", 2>>, A)]

AllDocuments == {AgedDocument, LooseDocument, LostDocument}

OnlyDirect == {Direct}

NoCatalog == [t \in {} |-> 0]

SmallCatalog ==
    [t \in {"ads", "all-vpn"} |->
       IF t = "ads" THEN [conds |-> {"geo"}, provs |-> {}]
       ELSE [conds |-> {}, provs |-> {}]]

(* Live rules of nikki: one condition twice, and policies that name a      *)
(* group and a server.                                                     *)
LiveRules ==
    {<<[cond |-> "geo", policy |-> <<"g">>], [cond |-> "geo", policy |-> Reject],
       [cond |-> "geo", policy |-> <<"a">>]>>}
=============================================================================
