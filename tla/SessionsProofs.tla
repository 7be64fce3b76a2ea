----------------------------- MODULE SessionsProofs -----------------------------
(***************************************************************************)
(* Proofs about Sessions: its types, and how far concurrent logins can     *)
(* pass the limit of failures, for any number of addresses, logins and     *)
(* sessions.  The bound is inductive with the types: a login is admitted   *)
(* only below the limit, and a verdict moves one attempt from those that   *)
(* are out to those that failed.                                           *)
(***************************************************************************)
EXTENDS Sessions, FiniteSetTheorems, TLAPS

Places == {"idle", "refused", "http", "cli", "mint", "reset", "serve", "logout"}

(* Removing a key of a function, and setting one, keep its type.           *)
LEMMA DropType ==
    ASSUME NEW A, NEW S, NEW f \in [A -> S], NEW x
    PROVE  /\ Drop(f, x) \in [A \ {x} -> S]
           /\ \A y \in A \ {x} : Drop(f, x)[y] = f[y]
BY DEF Drop

LEMMA PutType ==
    ASSUME NEW A, NEW S, NEW f \in [A -> S], NEW x, NEW v \in S
    PROVE  /\ Put(f, x, v) \in [A \cup {x} -> S]
           /\ Put(f, x, v)[x] = v
           /\ \A y \in A \ {x} : Put(f, x, v)[y] = f[y]
BY DEF Put

(* The type invariant, with the sets named. *)
Typed(A, S) ==
    /\ A \in SUBSET Addrs
    /\ S \in SUBSET Tokens
    /\ up \in BOOLEAN
    /\ entries \in [A -> Entry]
    /\ sessions \in [S -> 0..TTL]
    /\ at \in [Requests -> Places]
    /\ ip \in [Logins -> Addrs]
    /\ tok \in [Browsers -> Tokens \cup {NoToken}]

LEMMA TypedIsTypeOK == ASSUME NEW A, NEW S, Typed(A, S) PROVE TypeOK
BY DEF Typed, TypeOK, Places

LEMMA TypeOKIsTyped == ASSUME TypeOK PROVE \E A, S : Typed(A, S)
BY DEF Typed, TypeOK, Places

LEMMA FailedType ==
    ASSUME TypeOK, NEW l \in Logins
    PROVE  /\ \E A \in SUBSET Addrs : Failed(ip[l]) \in [A -> Entry]
           /\ DOMAIN Failed(ip[l]) = DOMAIN entries \cup {ip[l]}
           /\ \A a \in DOMAIN entries \ {ip[l]} : Failed(ip[l])[a] = entries[a]
           /\ Failed(ip[l])[ip[l]].failures =
                 IF ip[l] \in DOMAIN entries /\ ~Over(ip[l])
                 THEN entries[ip[l]].failures + 1 ELSE 1
<1> DEFINE n == IF ip[l] \in DOMAIN entries /\ ~Over(ip[l])
                THEN entries[ip[l]].failures + 1 ELSE 1
           e == [failures |-> n, left |-> Window]
<1>1. PICK A, S : Typed(A, S) BY TypeOKIsTyped
<1>2. ip[l] \in Addrs BY <1>1 DEF Typed
<1>3. e \in Entry /\ e.failures = n
    <2>1. ip[l] \in DOMAIN entries => entries[ip[l]].failures \in Nat \ {0}
        BY <1>1 DEF Typed, Entry
    <2> QED BY <2>1, SessionsAssumption DEF Entry
<1>4. entries \in [A -> Entry] /\ A \in SUBSET Addrs BY <1>1 DEF Typed
<1>5. Failed(ip[l]) = Put(entries, ip[l], e) BY DEF Failed
<1>8. e \in Entry BY <1>3
<1> HIDE DEF e
<1>6. /\ Put(entries, ip[l], e) \in [A \cup {ip[l]} -> Entry]
      /\ Put(entries, ip[l], e)[ip[l]] = e
      /\ \A a \in A \ {ip[l]} : Put(entries, ip[l], e)[a] = entries[a]
    BY <1>4, <1>8 DEF Put
<1>7. A \cup {ip[l]} \in SUBSET Addrs BY <1>2, <1>4
<1> QED BY <1>3, <1>4, <1>5, <1>6, <1>7

-----------------------------------------------------------------------------

LEMMA InitTyped == Init => TypeOK
<1> SUFFICES ASSUME Init PROVE Typed({}, {}) BY TypedIsTypeOK
<1> QED BY SessionsAssumption DEF Init, Typed, Nothing, Requests, Places

LEMMA NextTyped == TypeOK /\ [Next]_vars => TypeOK'
<1> SUFFICES ASSUME TypeOK, [Next]_vars PROVE TypeOK' OBVIOUS
<1>0. PICK A, S : Typed(A, S) BY TypeOKIsTyped
<1> USE <1>0, SessionsAssumption
<1>p. ASSUME NEW l \in Requests, NEW where \in Places, Goto(l, where)
      PROVE at' \in [Requests -> Places]
    BY <1>p DEF Typed, Goto
<1>t. (\E B, T : Typed(B, T)') => TypeOK' BY DEF Typed, TypeOK, Places
<1>r. Logins \subseteq Requests /\ Browsers \subseteq Requests BY DEF Requests
<1>1. ASSUME NEW l \in Logins, NEW a \in Addrs, Admit(l, a) PROVE TypeOK'
    <2>1. at' \in [Requests -> Places] BY <1>1, <1>p, <1>r DEF Admit, Places
    <2>2. \E B \in SUBSET Addrs : entries' \in [B -> Entry]
        BY <1>1, DropType DEF Admit, Typed
    <2> QED BY <1>1, <2>1, <2>2, <1>t DEF Admit, Typed
<1>2. ASSUME NEW l \in Logins, NEW a \in Addrs, Refuse(l, a) PROVE TypeOK'
    <2>1. at' \in [Requests -> Places] BY <1>2, <1>p, <1>r DEF Refuse, Places
    <2> QED BY <1>2, <2>1, <1>t DEF Refuse, Typed
<1>3. ASSUME NEW l \in Logins,
             Refused(l) \/ NoBridge(l) \/ Unavailable(l) \/ Accept(l) \/ MintFails(l)
      PROVE TypeOK'
    <2>1. at' \in [Requests -> Places]
        BY <1>3, <1>p, <1>r DEF Refused, NoBridge, Unavailable, Accept, MintFails, Places
    <2> QED BY <1>3, <2>1, <1>t
            DEF Refused, NoBridge, Unavailable, Accept, MintFails, Typed
<1>4. ASSUME NEW l \in Logins, Reject(l) PROVE TypeOK'
    <2>1. at' \in [Requests -> Places] BY <1>4, <1>p, <1>r DEF Reject, Places
    <2>2. \E B \in SUBSET Addrs : entries' \in [B -> Entry]
        BY <1>4, FailedType DEF Reject
    <2> QED BY <1>4, <2>1, <2>2, <1>t DEF Reject, Typed
<1>5. ASSUME NEW l \in Logins, NEW t \in Tokens, Mint(l, t) PROVE TypeOK'
    <2>1. at' \in [Requests -> Places] BY <1>5, <1>p, <1>r DEF Mint, Places
    <2> DEFINE f == [s \in Live |-> sessions[s]]
    <2>2. f \in [Live -> 0..TTL] /\ TTL \in 0..TTL BY DEF Live, Typed
    <2>3. sessions' = Put(f, t, TTL) BY <1>5 DEF Mint
    <2> HIDE DEF f
    <2>5. sessions' \in [Live \cup {t} -> 0..TTL] BY <2>2, <2>3, PutType
    <2>4. Live \cup {t} \in SUBSET Tokens BY DEF Live, Typed
    <2> QED BY <1>5, <2>1, <2>5, <2>4, <1>t DEF Mint, Typed
<1>6. ASSUME NEW l \in Logins, Reset(l) PROVE TypeOK'
    <2>1. at' \in [Requests -> Places] BY <1>6, <1>p, <1>r DEF Reset, Places
    <2>2. \E B \in SUBSET Addrs : entries' \in [B -> Entry]
        BY <1>6, DropType DEF Reset, Cleaned, Typed
    <2> QED BY <1>6, <2>1, <2>2, <1>t DEF Reset, Typed
<1>7. ASSUME NEW b \in Browsers, NEW t \in Tokens, Arrive(b, t) PROVE TypeOK'
    <2>1. \E T \in SUBSET Tokens : sessions' \in [T -> 0..TTL]
        BY <1>7, DropType DEF Arrive, Got, Typed
    <2>2. at' \in [Requests -> Places]
        <3>1. CASE UNCHANGED at BY <3>1 DEF Typed
        <3>2. ASSUME NEW where \in {"serve", "logout"}, Goto(b, where)
              PROVE at' \in [Requests -> Places]
            BY <3>2, <1>p, <1>r DEF Places
        <3> QED BY <1>7, <3>1, <3>2 DEF Arrive
    <2>3. tok' \in [Browsers -> Tokens \cup {NoToken}] BY <1>7 DEF Arrive, Typed
    <2> QED BY <1>7, <2>1, <2>2, <2>3, <1>t DEF Arrive, Typed
<1>8. ASSUME NEW b \in Browsers, Served(b) \/ Logout(b) PROVE TypeOK'
    <2>1. at' \in [Requests -> Places]
        BY <1>8, <1>p, <1>r DEF Served, Logout, Leave, Places
    <2>2. \E T \in SUBSET Tokens : sessions' \in [T -> 0..TTL]
        <3>1. sessions \in [S -> 0..TTL] /\ S \in SUBSET Tokens BY DEF Typed
        <3>2. Drop(sessions, tok[b]) \in [S \ {tok[b]} -> 0..TTL] BY <3>1, DropType
        <3>3. S \ {tok[b]} \in SUBSET Tokens BY <3>1
        <3> QED BY <1>8, <3>1, <3>2, <3>3 DEF Served, Logout
    <2>3. tok' \in [Browsers -> Tokens \cup {NoToken}]
        BY <1>8 DEF Served, Logout, Leave, Typed
    <2> QED BY <1>8, <2>1, <2>2, <2>3, <1>t DEF Served, Logout, Leave, Typed
<1>9. CASE Tick
    <2>1. ASSUME NEW a \in A
          PROVE [entries[a] EXCEPT !.left = IF @ < 0 THEN @ ELSE @ - 1] \in Entry
        <3>1. entries[a] \in Entry BY DEF Typed
        <3> QED BY <3>1 DEF Entry
    <2>2. entries' \in [A -> Entry] BY <1>9, <2>1 DEF Tick, Typed
    <2>3. sessions' \in [S -> 0..TTL]
        <3>1. \A t \in S : (IF sessions[t] = 0 THEN 0 ELSE sessions[t] - 1) \in 0..TTL
            BY DEF Typed
        <3> QED BY <1>9, <3>1 DEF Tick, Typed
    <2> QED BY <1>9, <2>2, <2>3, <1>t DEF Tick, Typed
<1>10. CASE Crash
    <2>1. Typed({}, {})' BY <1>10 DEF Crash, Typed, Nothing, Places
    <2> QED BY <2>1, <1>t
<1>11. CASE Boot BY <1>11, <1>t DEF Boot, Typed
<1>12. CASE UNCHANGED vars BY <1>12, <1>t DEF vars, Typed
<1> QED BY <1>1, <1>2, <1>3, <1>4, <1>5, <1>6, <1>7, <1>8, <1>9, <1>10, <1>11, <1>12
        DEF Next, LoginStep

(* The types of the throttle, the sessions and the requests: a window is   *)
(* never longer than loginWindow, a session never longer than its TTL.     *)
THEOREM SessionsTypeCorrect == Spec => []TypeOK
<1>1. Init => TypeOK BY InitTyped
<1>2. TypeOK /\ [Next]_vars => TypeOK' BY NextTyped
<1> QED BY <1>1, <1>2, PTL DEF Spec

-----------------------------------------------------------------------------

Most == MaxAttempts - 1 + Cardinality(Logins)

LEMMA AskingBounds ==
    ASSUME NEW a
    PROVE  /\ IsFiniteSet(Asking(a))
           /\ Cardinality(Asking(a)) \in Nat
           /\ Cardinality(Logins) \in Nat
           /\ Cardinality(Asking(a)) <= Cardinality(Logins)
<1>1. Asking(a) \subseteq Logins /\ IsFiniteSet(Logins)
    BY SessionsAssumption DEF Asking
<1> QED BY <1>1, FS_Subset, FS_CardinalityType

(* Fewer logins out, and no more failures, keep the bound.                 *)
LEMMA BoundKept ==
    ASSUME TypeOK, TypeOK', FailuresBounded,
           NEW a \in DOMAIN entries, a \in DOMAIN entries',
           entries'[a].failures = entries[a].failures,
           Asking(a)' \subseteq Asking(a)
    PROVE  entries'[a].failures + Cardinality(Asking(a)') <= Most
<1>1. entries[a].failures \in Nat BY DEF TypeOK, Entry
<1>2. /\ Cardinality(Asking(a)') \in Nat
      /\ Cardinality(Asking(a)') <= Cardinality(Asking(a))
    BY AskingBounds, FS_Subset, FS_CardinalityType
<1>3. entries[a].failures + Cardinality(Asking(a)) <= Most
    BY DEF FailuresBounded, Most
<1> QED BY <1>1, <1>2, <1>3, AskingBounds, SessionsAssumption DEF Most

LEMMA NextBounded ==
    TypeOK /\ TypeOK' /\ FailuresBounded /\ [Next]_vars => FailuresBounded'
<1> SUFFICES ASSUME TypeOK, TypeOK', FailuresBounded, [Next]_vars,
                    NEW a \in DOMAIN entries'
             PROVE  entries'[a].failures + Cardinality(Asking(a)') <= Most
    BY DEF FailuresBounded, Most
<1> USE SessionsAssumption
<1>t. /\ \A r \in Requests : at[r] = at[r]
      /\ at \in [Requests -> Places] /\ ip \in [Logins -> Addrs]
      /\ Logins \subseteq Requests /\ Browsers \subseteq Requests
    BY DEF TypeOK, Places, Requests
(* A step that sends no login to ubus and does not touch the entries. *)
<1>q. ASSUME entries' = entries, Asking(a)' \subseteq Asking(a)
      PROVE entries'[a].failures + Cardinality(Asking(a)') <= Most
    BY <1>q, BoundKept
<1>1. ASSUME NEW l \in Logins, NEW b \in Addrs, Admit(l, b)
      PROVE entries'[a].failures + Cardinality(Asking(a)') <= Most
    <2>1. CASE a # b
        <3>1. a \in DOMAIN entries /\ entries'[a] = entries[a]
            BY <1>1, <2>1 DEF Admit, Drop
        <3>2. Asking(a)' \subseteq Asking(a)
            BY <1>1, <2>1, <1>t DEF Admit, Goto, Asking
        <3> QED BY <3>1, <3>2, BoundKept
    <2>2. CASE a = b
        <3>1. a \in DOMAIN entries /\ ~Over(a) /\ entries' = entries
            BY <1>1, <2>2 DEF Admit, Drop
        <3>2. entries[a].failures < MaxAttempts /\ entries[a].failures \in Nat
            BY <1>1, <2>2, <3>1 DEF Admit, Allow, TypeOK, Entry
        <3>3. /\ Cardinality(Asking(a)') \in Nat
              /\ Cardinality(Asking(a)') <= Cardinality(Logins)
              /\ Cardinality(Logins) \in Nat
            <4>1. Asking(a)' \subseteq Logins BY DEF Asking
            <4> QED BY <4>1, FS_Subset, FS_CardinalityType
        <3> QED BY <3>1, <3>2, <3>3 DEF Most
    <2> QED BY <2>1, <2>2
<1>2. ASSUME NEW l \in Logins, NEW b \in Addrs, Refuse(l, b)
      PROVE entries'[a].failures + Cardinality(Asking(a)') <= Most
    <2>1. Asking(a)' \subseteq Asking(a) BY <1>2, <1>t DEF Refuse, Goto, Asking
    <2> QED BY <1>2, <2>1, <1>q DEF Refuse
<1>3. ASSUME NEW l \in Logins,
             Refused(l) \/ NoBridge(l) \/ Unavailable(l) \/ Accept(l) \/ MintFails(l)
      PROVE entries'[a].failures + Cardinality(Asking(a)') <= Most
    <2>1. Asking(a)' \subseteq Asking(a)
        BY <1>3, <1>t DEF Refused, NoBridge, Unavailable, Accept, MintFails, Goto, Asking
    <2> QED BY <1>3, <2>1, <1>q DEF Refused, NoBridge, Unavailable, Accept, MintFails
<1>4. ASSUME NEW l \in Logins, Reject(l)
      PROVE entries'[a].failures + Cardinality(Asking(a)') <= Most
    <2>1. entries' = Failed(ip[l]) BY <1>4 DEF Reject
    <2>2. CASE a # ip[l]
        <3>1. a \in DOMAIN entries /\ entries'[a] = entries[a]
            BY <2>1, <2>2, FailedType
        <3>2. Asking(a)' \subseteq Asking(a) BY <1>4, <1>t DEF Reject, Goto, Asking
        <3> QED BY <3>1, <3>2, BoundKept
    <2>3. CASE a = ip[l]
        <3>1. l \in Asking(a) BY <1>4, <2>3 DEF Reject, Asking
        <3>2. Asking(a)' = Asking(a) \ {l}
            BY <1>4, <1>t DEF Reject, Goto, Asking
        <3>3. Cardinality(Asking(a)') = Cardinality(Asking(a)) - 1
            <4>1. IsFiniteSet(Asking(a)) BY AskingBounds
            <4>2. Cardinality(Asking(a) \ {l}) = Cardinality(Asking(a)) - 1
                BY <3>1, <4>1, FS_RemoveElement
            <4> QED BY <3>2, <4>2
        <3>4. entries'[a].failures = IF a \in DOMAIN entries /\ ~Over(a)
                                     THEN entries[a].failures + 1 ELSE 1
            BY <2>1, <2>3, FailedType
        <3>5. a \in DOMAIN entries => entries[a].failures \in Nat
            BY DEF TypeOK, Entry
        <3>6. a \in DOMAIN entries => entries[a].failures + Cardinality(Asking(a)) <= Most
            BY DEF FailuresBounded, Most
        <3> QED BY <3>3, <3>4, <3>5, <3>6, AskingBounds DEF Most
    <2> QED BY <2>2, <2>3
<1>5. ASSUME NEW l \in Logins, NEW t \in Tokens, Mint(l, t)
      PROVE entries'[a].failures + Cardinality(Asking(a)') <= Most
    <2>1. Asking(a)' \subseteq Asking(a) BY <1>5, <1>t DEF Mint, Goto, Asking
    <2> QED BY <1>5, <2>1, <1>q DEF Mint
<1>6. ASSUME NEW l \in Logins, Reset(l)
      PROVE entries'[a].failures + Cardinality(Asking(a)') <= Most
    <2>1. Asking(a)' \subseteq Asking(a) BY <1>6, <1>t DEF Reset, Goto, Asking
    <2>2. a \in DOMAIN entries /\ entries'[a] = entries[a]
        BY <1>6 DEF Reset, Cleaned, Drop
    <2> QED BY <2>1, <2>2, BoundKept
<1>b. ASSUME NEW b \in Browsers
      PROVE \A l \in Logins : l # b
    BY SessionsAssumption
<1>7. ASSUME NEW b \in Browsers, NEW t \in Tokens, Arrive(b, t)
      PROVE entries'[a].failures + Cardinality(Asking(a)') <= Most
    <2>1. Asking(a)' \subseteq Asking(a) BY <1>7, <1>b, <1>t DEF Arrive, Goto, Asking
    <2> QED BY <1>7, <2>1, <1>q DEF Arrive
<1>8. ASSUME NEW b \in Browsers, Served(b) \/ Logout(b)
      PROVE entries'[a].failures + Cardinality(Asking(a)') <= Most
    <2>1. Asking(a)' \subseteq Asking(a)
        BY <1>8, <1>b, <1>t DEF Served, Logout, Leave, Goto, Asking
    <2> QED BY <1>8, <2>1, <1>q DEF Served, Logout, Leave
<1>9. CASE Tick
    <2>1. a \in DOMAIN entries /\ entries[a] \in Entry BY <1>9 DEF Tick, TypeOK
    <2>2. entries'[a].failures = entries[a].failures BY <1>9, <2>1 DEF Tick, Entry
    <2>3. Asking(a)' \subseteq Asking(a) BY <1>9 DEF Tick, Asking
    <2> QED BY <2>1, <2>2, <2>3, BoundKept
<1>10. CASE Crash BY <1>10 DEF Crash, Nothing
<1>11. CASE Boot
    <2>1. Asking(a)' \subseteq Asking(a) BY <1>11 DEF Boot, Asking
    <2> QED BY <1>11, <2>1, <1>q DEF Boot
<1>12. CASE UNCHANGED vars
    <2>1. Asking(a)' \subseteq Asking(a) BY <1>12 DEF vars, Asking
    <2> QED BY <1>12, <2>1, <1>q DEF vars
<1> QED BY <1>1, <1>2, <1>3, <1>4, <1>5, <1>6, <1>7, <1>8, <1>9, <1>10, <1>11, <1>12
        DEF Next, LoginStep

(* Logins in progress together pass the limit of failed logins by fewer    *)
(* than there are of them, whatever the limit, the addresses and their     *)
(* number.                                                                 *)
THEOREM FailuresStayBounded == Spec => []FailuresBounded
<1>1. Init => FailuresBounded BY DEF Init, FailuresBounded, Nothing
<1>2. TypeOK /\ TypeOK' /\ FailuresBounded /\ [Next]_vars => FailuresBounded'
    BY NextBounded
<1> QED BY <1>1, <1>2, SessionsTypeCorrect, PTL DEF Spec

-----------------------------------------------------------------------------

Lifetime ==
    /\ \A t \in Live : up' =>
          \/ t \in DOMAIN sessions'
          \/ \E b \in Browsers : at[b] = "logout" /\ tok[b] = t /\ at'[b] = "idle"
    /\ \A t \in DOMAIN sessions \cap DOMAIN sessions' : sessions'[t] <= sessions[t]
    /\ \A b \in Browsers : at[b] = "idle" /\ at'[b] # "idle" => sessions[tok'[b]] > 0

LEMMA NextLifetime == TypeOK /\ [Next]_vars => Lifetime
<1> SUFFICES ASSUME TypeOK, [Next]_vars PROVE Lifetime OBVIOUS
<1>t. /\ at \in [Requests -> Places] /\ tok \in [Browsers -> Tokens \cup {NoToken}]
      /\ Logins \subseteq Requests /\ Browsers \subseteq Requests
      /\ \A l \in Logins, b \in Browsers : l # b
      /\ \A t \in DOMAIN sessions : sessions[t] \in 0..TTL
    BY SessionsAssumption DEF TypeOK, Places, Requests
<1> USE <1>t, SessionsAssumption
(* A step of a login or of the process, or none. *)
<1>q. ASSUME sessions' = sessions, \A b \in Browsers : at'[b] = at[b]
      PROVE Lifetime
    BY <1>q DEF Lifetime, Live
<1>1. ASSUME NEW l \in Logins, NEW a \in Addrs, Admit(l, a) \/ Refuse(l, a)
      PROVE Lifetime
    BY <1>1, <1>q DEF Admit, Refuse, Goto
<1>2. ASSUME NEW l \in Logins,
             \/ Refused(l) \/ NoBridge(l) \/ Unavailable(l) \/ Reject(l)
             \/ Accept(l) \/ MintFails(l) \/ Reset(l)
      PROVE Lifetime
    BY <1>2, <1>q
       DEF Refused, NoBridge, Unavailable, Reject, Accept, MintFails, Reset, Goto
<1>3. ASSUME NEW l \in Logins, NEW t \in Tokens, Mint(l, t) PROVE Lifetime
    <2>1. /\ DOMAIN sessions' = Live \cup {t}
          /\ \A s \in Live \ {t} : sessions'[s] = sessions[s]
        BY <1>3 DEF Mint, Put
    <2>2. t \notin DOMAIN sessions BY <1>3 DEF Mint
    <2>3. \A b \in Browsers : at'[b] = at[b] BY <1>3 DEF Mint, Goto
    <2> QED BY <2>1, <2>2, <2>3 DEF Lifetime, Live
<1>4. ASSUME NEW b \in Browsers, NEW t \in Tokens, Arrive(b, t) PROVE Lifetime
    <2>1. /\ \A s \in Live : s \in DOMAIN sessions' /\ s \in DOMAIN sessions
          /\ \A s \in DOMAIN sessions' : sessions'[s] = sessions[s]
        BY <1>4 DEF Arrive, Got, Found, Drop, Live
    <2>2. ASSUME NEW c \in Browsers, at[c] = "idle", at'[c] # "idle"
          PROVE sessions[tok'[c]] > 0
        BY <1>4, <2>2 DEF Arrive, Goto, Found, Live
    <2> QED BY <2>1, <2>2 DEF Lifetime
<1>5. ASSUME NEW b \in Browsers, Served(b) PROVE Lifetime
    BY <1>5 DEF Served, Leave, Goto, Lifetime, Live
<1>6. ASSUME NEW b \in Browsers, Logout(b) PROVE Lifetime
    <2>1. at[b] = "logout" /\ at'[b] = "idle"
        BY <1>6 DEF Logout, Leave, Goto
    <2>2. /\ DOMAIN sessions' = DOMAIN sessions \ {tok[b]}
          /\ \A s \in DOMAIN sessions' : sessions'[s] = sessions[s]
        BY <1>6 DEF Logout, Drop
    <2>3. \A c \in Browsers : at[c] = "idle" => at'[c] = "idle"
        BY <1>6 DEF Logout, Leave, Goto
    <2> QED BY <2>1, <2>2, <2>3 DEF Lifetime, Live
<1>7. CASE Tick BY <1>7 DEF Tick, Lifetime, Live
<1>8. CASE Crash
    <2>1. ~up' /\ DOMAIN sessions' = {} BY <1>8 DEF Crash, Nothing
    <2>2. \A b \in Browsers : at'[b] = "idle" BY <1>8 DEF Crash
    <2> QED BY <2>1, <2>2 DEF Lifetime
<1>9. CASE Boot BY <1>9, <1>q DEF Boot
<1>10. CASE UNCHANGED vars BY <1>10, <1>q DEF vars
<1> QED BY <1>1, <1>2, <1>3, <1>4, <1>5, <1>6, <1>7, <1>8, <1>9, <1>10
        DEF Next, LoginStep

(* A session ends by its own logout, its TTL or the end of the process,    *)
(* nothing prolongs it, and none that has expired lets a request in.       *)
THEOREM SessionsLive == Spec => SessionLifetime
<1>1. TypeOK /\ [Next]_vars =>
         [/\ \A t \in Live : up' =>
                \/ t \in DOMAIN sessions'
                \/ \E b \in Browsers : /\ at[b] = "logout" /\ tok[b] = t
                                       /\ at'[b] = "idle"
          /\ \A t \in DOMAIN sessions \cap DOMAIN sessions' :
                sessions'[t] <= sessions[t]
          /\ \A b \in Browsers : at[b] = "idle" /\ at'[b] # "idle" =>
                sessions[tok'[b]] > 0
         ]_vars
    BY NextLifetime DEF Lifetime
<1> QED BY <1>1, SessionsTypeCorrect, PTL DEF Spec, SessionLifetime
=============================================================================
