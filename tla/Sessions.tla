-------------------------------- MODULE Sessions --------------------------------
(***************************************************************************)
(* Logins: the throttle of failed logins, the two ways to ask ubus, and    *)
(* the sessions the daemon keeps in memory.                                *)
(*                                                                         *)
(* The throttle and the sessions have a lock each, which a handler takes   *)
(* several times and never while it waits for ubus: logins, requests and   *)
(* logouts interleave between any two of these sections.  Times are what   *)
(* is left of them, in ticks.                                              *)
(***************************************************************************)
EXTENDS Integers, FiniteSets

CONSTANTS
    Addrs,        \* addresses that log in
    Logins,       \* login requests that can be in progress together
    Browsers,     \* other requests that can be in progress together
    Tokens,       \* session cookies
    MaxAttempts,  \* loginMaxAttempts: 5
    Window,       \* loginWindow: 10 minutes
    TTL,          \* SessionTTL: 12 hours
    NoToken       \* the request is over

ASSUME SessionsAssumption ==
    /\ IsFiniteSet(Logins)
    /\ Logins \cap Browsers = {}
    /\ NoToken \notin Tokens
    /\ MaxAttempts \in Nat \ {0}
    /\ Window \in Nat
    /\ TTL \in Nat \ {0}

VARIABLES
    up,        \* the daemon runs
    entries,   \* Limiter.entries: the failures of an address, what is left of its window
    sessions,  \* Manager.sessions: what is left of each
    at,        \* where each request is
    ip,        \* the address of a login
    tok        \* the cookie of a request

vars == <<up, entries, sessions, at, ip, tok>>

Requests == Logins \cup Browsers
Nothing  == [x \in {} |-> 0]

Entry == [failures : Nat \ {0}, left : -1..Window]

Drop(f, x) == [y \in DOMAIN f \ {x} |-> f[y]]
Put(f, x, v) == [y \in DOMAIN f \cup {x} |-> IF y = x THEN v ELSE f[y]]

Goto(r, where) == at' = [at EXCEPT ![r] = where]

-----------------------------------------------------------------------------
(* The throttle. *)

(* The window is over strictly after its end. *)
Over(a) == entries[a].left < 0

(* Mutant: one attempt more than the limit. *)
AllowEqual(a) ==
    a \in DOMAIN entries => Over(a) \/ entries[a].failures <= MaxAttempts

Allow(a) ==
    a \in DOMAIN entries => Over(a) \/ entries[a].failures < MaxAttempts

(* Each failure begins the window again. *)
Failed(a) ==
    Put(entries, a,
        [failures |-> IF a \in DOMAIN entries /\ ~Over(a)
                      THEN entries[a].failures + 1 ELSE 1,
         left |-> Window])

(* Mutant: the entry stays, with no failure. *)
CleanedZero(a) == Put(entries, a, [failures |-> 0, left |-> Window])

Cleaned(a) == Drop(entries, a)

-----------------------------------------------------------------------------
(* handleLogin. *)

(* An attempt within the limit goes on to ubus; the entry of a window that *)
(* is over goes.                                                           *)
Admit(l, a) ==
    /\ up /\ at[l] = "idle"
    /\ Allow(a)
    /\ entries' = IF a \in DOMAIN entries /\ Over(a) THEN Drop(entries, a) ELSE entries
    /\ ip' = [ip EXCEPT ![l] = a]
    /\ Goto(l, "http")
    /\ UNCHANGED <<up, sessions, tok>>

(* Mutant: an attempt that is refused begins the window again. *)
RefuseSlides(l, a) ==
    /\ up /\ at[l] = "idle"
    /\ ~Allow(a)
    /\ entries' = [entries EXCEPT ![a].left = Window]
    /\ ip' = [ip EXCEPT ![l] = a]
    /\ Goto(l, "refused")
    /\ UNCHANGED <<up, sessions, tok>>

(* Beyond the limit nothing is counted. *)
Refuse(l, a) ==
    /\ up /\ at[l] = "idle"
    /\ ~Allow(a)
    /\ ip' = [ip EXCEPT ![l] = a]
    /\ Goto(l, "refused")
    /\ UNCHANGED <<up, entries, sessions, tok>>

(* retryAfter, in a section of its own, and the 429. *)
Refused(l) ==
    /\ at[l] = "refused"
    /\ Goto(l, "idle")
    /\ UNCHANGED <<up, entries, sessions, ip, tok>>

(* loginHTTP finds no bridge, an error page, a 5xx or no answer in time:   *)
(* the command line is asked.                                              *)
NoBridge(l) ==
    /\ at[l] = "http"
    /\ Goto(l, "cli")
    /\ UNCHANGED <<up, entries, sessions, ip, tok>>

(* The command line cannot be run either: a 503, which is no failure.      *)
Unavailable(l) ==
    /\ at[l] = "cli"
    /\ Goto(l, "idle")
    /\ UNCHANGED <<up, entries, sessions, ip, tok>>

(* A verdict against the password: one of the bridge, or any exit of the   *)
(* command with an error, the kill at the deadline included.               *)
Reject(l) ==
    /\ at[l] \in {"http", "cli"}
    /\ entries' = Failed(ip[l])
    /\ Goto(l, "idle")
    /\ UNCHANGED <<up, sessions, ip, tok>>

Accept(l) ==
    /\ at[l] \in {"http", "cli"}
    /\ Goto(l, "mint")
    /\ UNCHANGED <<up, entries, sessions, ip, tok>>

(* No randomness for a token: a 500, the entry stays.                      *)
MintFails(l) ==
    /\ at[l] = "mint"
    /\ Goto(l, "idle")
    /\ UNCHANGED <<up, entries, sessions, ip, tok>>

Live == {t \in DOMAIN sessions : sessions[t] > 0}

(* Manager.Create: the expired sessions are swept, a new token is added.   *)
(* A token is taken again once nothing refers to it.                       *)
Mint(l, t) ==
    /\ at[l] = "mint"
    /\ t \notin DOMAIN sessions
    /\ \A b \in Browsers : tok[b] # t
    /\ sessions' = Put([s \in Live |-> sessions[s]], t, TTL)
    /\ Goto(l, "reset")
    /\ UNCHANGED <<up, entries, ip, tok>>

Reset(l) ==
    /\ at[l] = "reset"
    /\ entries' = Cleaned(ip[l])
    /\ Goto(l, "idle")
    /\ UNCHANGED <<up, sessions, ip, tok>>

-----------------------------------------------------------------------------
(* Requests with a cookie. *)

(* Mutant: Get does not look at the end of the session. *)
FoundAnyway(t) == t \in DOMAIN sessions

(* Get finds a session that has not expired, and deletes one that has.     *)
Found(t) == t \in Live

Got(t) == IF Found(t) THEN sessions ELSE Drop(sessions, t)

(* RequireAuth and handleLogout begin with Get and the check of the CSRF   *)
(* token, which may refuse as well.                                        *)
Arrive(b, t) ==
    /\ up /\ at[b] = "idle"
    /\ sessions' = Got(t)
    /\ \/ /\ Found(t)
          /\ tok' = [tok EXCEPT ![b] = t]
          /\ \E where \in {"serve", "logout"} : Goto(b, where)
       \/ UNCHANGED <<at, tok>>
    /\ UNCHANGED <<up, entries, ip>>

Leave(b) ==
    /\ Goto(b, "idle")
    /\ tok' = [tok EXCEPT ![b] = NoToken]
    /\ UNCHANGED <<up, entries, ip>>

Served(b) == at[b] = "serve" /\ Leave(b) /\ UNCHANGED sessions

(* Manager.Delete, in a section after that of Get. *)
Logout(b) ==
    /\ at[b] = "logout"
    /\ sessions' = Drop(sessions, tok[b])
    /\ Leave(b)

-----------------------------------------------------------------------------
(* The clock and the process. *)

Tick ==
    /\ entries'  = [a \in DOMAIN entries |->
                      [entries[a] EXCEPT !.left = IF @ < 0 THEN @ ELSE @ - 1]]
    /\ sessions' = [t \in DOMAIN sessions |->
                      IF sessions[t] = 0 THEN 0 ELSE sessions[t] - 1]
    /\ UNCHANGED <<up, at, ip, tok>>

(* Sessions and failures are kept in memory only. *)
Crash ==
    /\ up
    /\ up' = FALSE
    /\ entries' = Nothing
    /\ sessions' = Nothing
    /\ at' = [r \in Requests |-> "idle"]
    /\ tok' = [b \in Browsers |-> NoToken]
    /\ UNCHANGED ip

Boot ==
    /\ ~up
    /\ up' = TRUE
    /\ UNCHANGED <<entries, sessions, at, ip, tok>>

-----------------------------------------------------------------------------

Init ==
    /\ up = TRUE
    /\ entries = Nothing
    /\ sessions = Nothing
    /\ at = [r \in Requests |-> "idle"]
    /\ ip \in [Logins -> Addrs]
    /\ tok = [b \in Browsers |-> NoToken]

LoginStep(l) ==
    \/ Refused(l) \/ NoBridge(l) \/ Unavailable(l) \/ Reject(l) \/ Accept(l)
    \/ MintFails(l) \/ Reset(l)
    \/ \E t \in Tokens : Mint(l, t)

Next ==
    \/ \E l \in Logins, a \in Addrs : Admit(l, a) \/ Refuse(l, a)
    \/ \E l \in Logins : LoginStep(l)
    \/ \E b \in Browsers, t \in Tokens : Arrive(b, t)
    \/ \E b \in Browsers : Served(b) \/ Logout(b)
    \/ Tick \/ Crash \/ Boot

Spec == Init /\ [][Next]_vars

(* Time passes, and a login ends: ubus is asked under a deadline of ten    *)
(* seconds.                                                                *)
FairSpec == Spec /\ WF_vars(Tick) /\ \A l \in Logins : WF_vars(LoginStep(l))

-----------------------------------------------------------------------------
(* Properties. *)

(* Types: a window never exceeds its length, a session its TTL, and an     *)
(* entry has at least one failure.                                         *)
TypeOK ==
    /\ up \in BOOLEAN
    /\ \E A \in SUBSET Addrs : entries \in [A -> Entry]
    /\ \E S \in SUBSET Tokens : sessions \in [S -> 0..TTL]
    /\ at \in [Requests -> {"idle", "refused", "http", "cli", "mint", "reset",
                            "serve", "logout"}]
    /\ ip \in [Logins -> Addrs]
    /\ tok \in [Browsers -> Tokens \cup {NoToken}]

Asking(a) == {l \in Logins : at[l] \in {"http", "cli"} /\ ip[l] = a}

(* Nothing is counted before ubus has answered, so logins in progress may  *)
(* pass the limit together.  They pass it by fewer than can be in progress *)
(* at once, however verdicts, ends of windows and the successes of others  *)
(* interleave: the attempts still out count as failures here.              *)
FailuresBounded ==
    \A a \in DOMAIN entries :
        entries[a].failures + Cardinality(Asking(a))
            <= MaxAttempts - 1 + Cardinality(Logins)

(* A session is ended by its own logout, its own TTL or the end of the     *)
(* process, never by the sweep of another login or a late logout; nothing  *)
(* prolongs it; and no request is let in with one that has expired, swept  *)
(* or not.                                                                 *)
SessionLifetime ==
    [][/\ \A t \in Live : up' =>
             \/ t \in DOMAIN sessions'
             \/ \E b \in Browsers : /\ at[b] = "logout" /\ tok[b] = t
                                    /\ at'[b] = "idle"
       /\ \A t \in DOMAIN sessions \cap DOMAIN sessions' : sessions'[t] <= sessions[t]
       /\ \A b \in Browsers : at[b] = "idle" /\ at'[b] # "idle" =>
             sessions[tok'[b]] > 0
      ]_vars

Throttled(a) ==
    /\ a \in DOMAIN entries
    /\ entries[a].failures >= MaxAttempts
    /\ ~Over(a)

(* A throttled address is let in again, however often it tries meanwhile:  *)
(* the attempts refused do not prolong the window, and those that were     *)
(* still out when the limit was met do so finitely often.                  *)
Readmitted == \A a \in Addrs : Throttled(a) ~> ~Throttled(a)
=============================================================================
