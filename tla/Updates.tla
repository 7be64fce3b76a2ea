-------------------------------- MODULE Updates --------------------------------
(***************************************************************************)
(* Subscription updates: the scheduler's loop, the rounds and the manual   *)
(* updates of the updater.                                                 *)
(*                                                                         *)
(* A round loads the state, fetches its sources one after the other and    *)
(* saves its copy.  It does not take Server.mu, so handlers and other      *)
(* rounds load and save in between.  Merge is modelled in PoolState; here  *)
(* it is followed for one server of each source.                           *)
(***************************************************************************)
EXTENDS Fetch

CONSTANTS
    Sources,            \* 1..n, in the order of the state
    MaxSources,         \* [BOOLEAN -> Nat]: how many, without and with a user
    Loops,              \* goroutines that Start may launch
    User,               \* the goroutine of a manual update
    None,               \* the scheduler has no stop channel
    StaleAfterUpdates,  \* misses at which a vanished server goes (3)
    MaxFail,            \* failures in a row that are counted apart
    Interval            \* half minutes between two updates of a source

ASSUME UpdatesAssumption ==
    /\ IsFiniteSet(Sources)
    /\ Sources = 1..Cardinality(Sources)
    /\ MaxSources \in [BOOLEAN -> 0..Cardinality(Sources)]
    /\ User \notin Loops
    /\ None \notin Loops \cup {User}
    /\ StaleAfterUpdates \in Nat \ {0}
    /\ MaxFail \in Nat \ {0}
    /\ Interval \in Nat \ {0}

VARIABLES
    user,     \* somebody uses the API; it never changes
    disk,     \* state.json
    stopCh,   \* the scheduler's stop channel: that of the loop Start launched
    closed,   \* the stop channels that are closed
    ctxDone,  \* the daemon's context is cancelled
    pc,       \* where each goroutine is
    mode,     \* which sources: those due, all, or the one of UpdateOne
    copy,     \* the state a round works on
    todo,     \* the sources it has still to fetch
    patch,    \* the state a handler has loaded and changed
    stale     \* goroutines whose state was replaced since they loaded it

svars == <<stopCh, closed>>
rvars == <<pc, mode, copy, todo>>
vars  == <<user, disk, svars, ctxDone, rvars, patch, stale>>

Threads == Loops \cup {User}
Gone    == StaleAfterUpdates
Wait(n) == Delay(n) \div 30
MaxWait == Max({Interval, Wait(MaxFail)})

(* A source: whether it is enabled, its failures in a row, the time to its *)
(* next scheduled attempt, the misses of its server.                       *)
SourceRow == [on : BOOLEAN, fails : 0..MaxFail, wait : 0..MaxWait, misses : 0..Gone]
NewSource == [on |-> TRUE, fails |-> 0, wait |-> 0, misses |-> Gone]
Docs      == UNION {[S -> SourceRow] : S \in SUBSET Sources}
NoDoc     == [s \in {} |-> NewSource]

Capped(n, max) == Min({n, max})

-----------------------------------------------------------------------------
(* The scheduler. *)

(* A goroutine that has not run, if there is one. *)
Fresh == IF \E l \in Loops : pc[l] = "off" /\ l \notin closed
         THEN CHOOSE l \in Loops : pc[l] = "off" /\ l \notin closed
         ELSE None

(* Start launches a loop, which begins with a round, unless there is a     *)
(* stop channel already: then it returns, after a Stop as well.            *)
Start(l) ==
    /\ stopCh = None
    /\ l = Fresh
    /\ stopCh' = l
    /\ pc' = [pc EXCEPT ![l] = "load"]
    /\ UNCHANGED <<user, disk, closed, ctxDone, mode, copy, todo, patch, stale>>

(* Mutant: Stop forgets the channel. *)
StopResets ==
    /\ stopCh # None
    /\ closed' = closed \cup {stopCh}
    /\ stopCh' = None
    /\ UNCHANGED <<user, disk, ctxDone, rvars, patch, stale>>

(* Stop closes the channel once and keeps it. *)
Stop ==
    /\ stopCh # None
    /\ closed' = closed \cup {stopCh}
    /\ UNCHANGED <<user, disk, stopCh, ctxDone, rvars, patch, stale>>

Cancel ==
    /\ ctxDone' = TRUE
    /\ UNCHANGED <<user, disk, svars, rvars, patch, stale>>

Move(l, from, to) ==
    /\ pc[l] = from
    /\ pc' = [pc EXCEPT ![l] = to]
    /\ UNCHANGED <<user, disk, svars, ctxDone, mode, copy, todo, patch, stale>>

(* Mutant: the select does not look at the stop channel. *)
StopIgnored(l) == ctxDone /\ Move(l, "select", "off")

(* The select of the loop: any of the channels that are ready. *)
StopLoop(l) == (l \in closed \/ ctxDone) /\ Move(l, "select", "off")

TickLoop(l) == Move(l, "select", "load")

-----------------------------------------------------------------------------
(* Rounds. *)

Return(t) ==
    /\ pc' = [pc EXCEPT ![t] = IF t = User THEN "off" ELSE "select"]
    /\ copy' = [copy EXCEPT ![t] = NoDoc]
    /\ todo' = [todo EXCEPT ![t] = {}]
    /\ mode' = [mode EXCEPT ![t] = <<"due">>]

(* UpdateNow and UpdateOne. *)
Call(m) ==
    /\ user /\ patch = {}
    /\ pc[User] = "off"
    /\ pc' = [pc EXCEPT ![User] = "load"]
    /\ mode' = [mode EXCEPT ![User] = m]
    /\ UNCHANGED <<user, disk, svars, ctxDone, copy, todo, patch, stale>>

(* Mutant: UpdateOne does not look for its source. *)
DueUnchecked(d, m) ==
    IF m[1] = "one" THEN {m[2]}
    ELSE {s \in DOMAIN d : d[s].on /\ (m = <<"all">> \/ d[s].wait = 0)}

(* The sources a round fetches.  UpdateOne takes a disabled source too; a  *)
(* manual update does not wait.                                            *)
Due(d, m) ==
    {s \in DOMAIN d : \/ m = <<"one", s>>
                      \/ m[1] # "one" /\ d[s].on /\ (m = <<"all">> \/ d[s].wait = 0)}

(* Store.Load and resolveHWID; a round with nothing to do saves nothing.   *)
Load(t) ==
    /\ pc[t] = "load"
    /\ LET due == Due(disk, mode[t]) IN
         IF due = {} THEN Return(t)
         ELSE /\ copy' = [copy EXCEPT ![t] = disk]
              /\ todo' = [todo EXCEPT ![t] = due]
              /\ pc' = [pc EXCEPT ![t] = "fetch"]
              /\ UNCHANGED mode
    /\ UNCHANGED <<user, disk, svars, ctxDone, patch, stale>>

(* Mutant: the loop ends with the round that fails. *)
LoadEndsLoop(t) ==
    /\ pc[t] = "load"
    /\ pc' = [pc EXCEPT ![t] = "off"]
    /\ UNCHANGED <<user, disk, svars, ctxDone, mode, copy, todo, patch, stale>>

(* A state or an identity that cannot be read ends the round. *)
LoadFails(t) ==
    /\ pc[t] = "load"
    /\ Return(t)
    /\ UNCHANGED <<user, disk, svars, ctxDone, patch, stale>>

First(t) == Min(todo[t])

Fetched(t, row) ==
    /\ copy' = [copy EXCEPT ![t][First(t)] = row]
    /\ todo' = [todo EXCEPT ![t] = @ \ {First(t)}]
    /\ pc' = [pc EXCEPT ![t] = IF todo[t] = {First(t)} THEN "save" ELSE "fetch"]
    /\ UNCHANGED <<user, disk, svars, ctxDone, mode, patch, stale>>

(* The answer parses: Merge, and the source starts over.  A round counts   *)
(* the time from its start, so some of the interval has passed already.    *)
(* A manual update has the context of its request, not that of the daemon. *)
Succeed(t) ==
    /\ pc[t] = "fetch" /\ (t = User \/ ~ctxDone)
    /\ \E offered \in BOOLEAN, w \in 0..Interval :
         LET old == copy[t][First(t)] IN
         Fetched(t, [old EXCEPT
             !.fails  = 0,
             !.wait   = w,
             !.misses = IF offered THEN 0 ELSE Capped(old.misses + 1, Gone)])

(* Mutant: an answer that does not parse is merged as an empty one. *)
FailMerged(t) ==
    /\ pc[t] = "fetch"
    /\ LET old == copy[t][First(t)]
           n   == Capped(old.fails + 1, MaxFail) IN
       \E w \in 0..Wait(n) :
          Fetched(t, [old EXCEPT !.fails = n, !.wait = w,
                                 !.misses = Capped(old.misses + 1, Gone)])

(* The fetch fails or is cancelled, or its answer does not parse: the      *)
(* servers stay and the next attempt is put off.                           *)
Fail(t) ==
    /\ pc[t] = "fetch"
    /\ LET old == copy[t][First(t)]
           n   == Capped(old.fails + 1, MaxFail) IN
       \E w \in 0..Wait(n) : Fetched(t, [old EXCEPT !.fails = n, !.wait = w])

(* A save by one goroutine overtakes every other that has loaded. *)
Overtaken(t) ==
    (IF disk' = disk THEN stale ELSE stale \cup {u \in Threads : pc[u] \in {"fetch", "save"}}) \ {t}

(* Store.Save of the copy, or its failure. *)
Save(t) ==
    /\ pc[t] = "save"
    /\ disk' \in {copy[t], disk}
    /\ stale' = Overtaken(t)
    /\ Return(t)
    /\ UNCHANGED <<user, svars, ctxDone, patch>>

-----------------------------------------------------------------------------
(* The handlers, under Server.mu: load and change, then save.  There is one *)
(* user, who waits for a reply before the next request.                    *)

Change(d) ==
    /\ user /\ patch = {}
    /\ pc[User] = "off"
    /\ patch' = {d}
    /\ UNCHANGED <<user, disk, svars, ctxDone, rvars, stale>>

AddSource ==
    \E s \in Sources \ DOMAIN disk :
        /\ s = Min(Sources \ DOMAIN disk)
        /\ Cardinality(DOMAIN disk) < MaxSources[user]
        /\ Change([r \in DOMAIN disk \cup {s} |-> IF r = s THEN NewSource ELSE disk[r]])

(* PATCH: enabled, and the interval, which counts while the source does    *)
(* not fail.                                                               *)
PatchSource(s) ==
    \E on \in BOOLEAN, w \in 0..Interval :
        /\ disk[s].fails > 0 => w = disk[s].wait
        /\ Change([disk EXCEPT ![s].on = on, ![s].wait = w])

DeleteSource(s) == Change([r \in DOMAIN disk \ {s} |-> disk[r]])

SaveChange ==
    /\ patch # {}
    /\ \E d \in patch : disk' \in {d, disk}
    /\ patch' = {}
    /\ stale' = Overtaken(None)
    /\ UNCHANGED <<user, svars, ctxDone, rvars>>

(* Half a minute passes. *)
Aged(d) == [s \in DOMAIN d |-> [d[s] EXCEPT !.wait = Max({@ - 1, 0})]]

Age ==
    /\ disk' = Aged(disk)
    /\ copy' = [t \in Threads |-> Aged(copy[t])]
    /\ patch' = {Aged(d) : d \in patch}
    /\ UNCHANGED <<user, svars, ctxDone, pc, mode, todo, stale>>

-----------------------------------------------------------------------------

Init ==
    /\ user \in BOOLEAN
    /\ disk \in {d \in Docs : /\ DOMAIN d = 1..Cardinality(DOMAIN d)
                             /\ Cardinality(DOMAIN d) = MaxSources[user]
                             /\ \A s \in DOMAIN d : d[s] = NewSource}
    /\ stopCh = None
    /\ closed = {}
    /\ ctxDone = FALSE
    /\ pc = [t \in Threads |-> "off"]
    /\ mode = [t \in Threads |-> <<"due">>]
    /\ copy = [t \in Threads |-> NoDoc]
    /\ todo = [t \in Threads |-> {}]
    /\ patch = {}
    /\ stale = {}

Loop(l) == Start(l) \/ StopLoop(l) \/ TickLoop(l)

Round(t) == Load(t) \/ LoadFails(t) \/ Succeed(t) \/ Fail(t) \/ Save(t)

Handler ==
    \/ AddSource
    \/ \E s \in DOMAIN disk : PatchSource(s) \/ DeleteSource(s)
    \/ SaveChange

Next ==
    \/ \E l \in Loops : Loop(l)
    \/ Stop
    \/ Cancel
    \/ \E m \in {<<"all">>} \cup ({"one"} \X Sources) : Call(m)
    \/ \E t \in Threads : Round(t)
    \/ Handler
    \/ Age

Spec == Init /\ [][Next]_vars

(* Goroutines run, time passes; the select takes each channel that stays   *)
(* ready some time, and the state can be read now and then.                *)
Fairness ==
    /\ WF_vars(Age)
    /\ \A t \in Threads : WF_vars(Round(t)) /\ SF_vars(Load(t))
    /\ \A l \in Loops : SF_vars(StopLoop(l)) /\ WF_vars(TickLoop(l))

FairSpec == Spec /\ Fairness

-----------------------------------------------------------------------------

(* Types; a round has only sources of its own copy still to fetch, though  *)
(* handlers delete sources meanwhile.                                      *)
TypeOK ==
    /\ disk \in Docs
    /\ stopCh \in Loops \cup {None}
    /\ closed \in SUBSET Loops
    /\ pc \in [Threads -> {"off", "load", "fetch", "save", "select"}]
    /\ mode \in [Threads -> {<<"due">>, <<"all">>} \cup ({"one"} \X Sources)]
    /\ copy \in [Threads -> Docs]
    /\ todo \in [Threads -> SUBSET Sources]
    /\ \A t \in Threads : todo[t] \subseteq DOMAIN copy[t]
    /\ patch \in SUBSET Docs
    /\ stale \in SUBSET Threads

(* However often Start and Stop are called, one loop at most runs rounds:  *)
(* two would fetch every source twice and overwrite each other's states.   *)
OneLoop == Cardinality({l \in Loops : pc[l] # "off"}) <= 1

(* When a round fetches a source, whatever sequence of answers the panel   *)
(* gives, on the mihomo path and on the URL itself, and whenever the       *)
(* context ends, the fetch keeps its promises: it loses no answer to       *)
(* trouble that passes and repeats no question that has been answered.     *)
FetchKeepsPromises == \A t \in Threads : pc[t] = "fetch" => Unmet = {}

(* However many more failures a source meets, its delay doubles from half  *)
(* a minute, stays at half an hour and never goes back or overflows.       *)
DelayBounded == \A s \in DOMAIN disk : disk[s].fails..30 \cap Misdelayed = {}

(* A failed attempt takes no server away (subscription.go:12, "network     *)
(* errors never remove the previously stored servers"), unless somebody    *)
(* saved between the load and the save of the round.                       *)
FailureKeepsServers ==
    [][\A t \in Threads : pc[t] = "save" /\ pc'[t] # "save" =>
         \A s \in DOMAIN copy[t] :
             copy[t][s].fails > 0 /\ t \notin stale =>
                 s \in DOMAIN disk' /\ disk'[s].misses = disk[s].misses]_vars

(* Stop and the end of the context stop the loop, wherever it is: the      *)
(* random choice of the select cannot put it off for ever.                 *)
StopHalts ==
    \A l \in Loops : (l \in closed \/ (ctxDone /\ pc[l] # "off")) ~> pc[l] = "off"

Fetching(s) == \E t \in Threads : pc[t] = "fetch" /\ s = First(t)

(* While the loop is wanted and the user leaves the sources alone, every   *)
(* enabled source is fetched again and again, whatever failed before: no   *)
(* back-off and no overlapping save starves it (FR-1.4).                   *)
SourceRefreshed ==
    \A s \in Sources :
        <>[](/\ stopCh # None /\ stopCh \notin closed /\ ~ctxDone
             /\ patch = {}
             /\ s \in DOMAIN disk /\ disk[s].on)
            => []<>Fetching(s)
=============================================================================
