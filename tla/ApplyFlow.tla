------------------------------ MODULE ApplyFlow ------------------------------
(***************************************************************************)
(* The apply / rollback flow of WellBoard on a router:                     *)
(*   internal/apply    Applyer: Apply, Rollback, the applied history;      *)
(*   internal/nikki    RouterAdapter: WriteProfile, Validate, Activate,    *)
(*                     Health, LastGood, MarkHealthy, Detect;              *)
(*   internal/api      the /apply, /rollback and /diagnostics handlers;    *)
(*   cmd/wellboard     the Detect of daemon start-up.                      *)
(* Callers are the goroutines that serve POST /apply and POST /rollback,   *)
(* Probes those that serve GET /diagnostics.  UCI, the nikki service and   *)
(* mihomo are external: they appear as the adapter drives them.            *)
(***************************************************************************)
EXTENDS Naturals, Sequences, FiniteSets

CONSTANTS
    Callers,      \* request goroutines that run Apply or Rollback
    Probes,       \* request goroutines that run GET /diagnostics
    Profiles,     \* names profileName can mint (bound: how many are written)
    States,       \* contents of state.json, told apart by stateHash
    Generable,    \* the states the generator accepts
    Virgin,       \* the states with no routing content to apply
    HistorySize,  \* records kept in applied.json (5 in the code)
    MayCrash,     \* whether the daemon or the router may restart
    Owner,        \* the profile the owner selected before WellBoard
    NoProfile, NoState, NoCaller

ASSUME FlowAssumption ==
    /\ Generable \subseteq States
    /\ Virgin \subseteq States
    /\ NoState \notin States
    /\ Owner \notin Profiles
    /\ NoProfile \notin Profiles \cup {Owner}
    /\ NoCaller \notin Callers
    /\ HistorySize \in Nat \ {0}
    /\ MayCrash \in BOOLEAN

VARIABLES
    state,      \* state.json, as the last API mutation saved it
    files,      \* profiles dir: the state each profile was generated from
    uciLive,    \* nikki.config.profile as `uci get` and the service see it
    uciSaved,   \* the committed value, the one that survives a reboot
    running,    \* the profile nikki was last started with
    lastGood,   \* RouterAdapter.lastGood (NoProfile: lastGoodSet is false)
    history,    \* applied.json, oldest record first
    mu,         \* Applyer.mu: its holder or NoCaller
    pc,         \* where each caller is in its handler
    job,        \* the locals of each caller
    probe,      \* the profile a Detect has read and not yet recorded
    validated,  \* ghost: profiles `mihomo -t` accepted
    confirmed,  \* ghost: profiles Health passed for, and the owner's
    answered    \* ghost: a Health has passed since nikki was last started

vars == <<state, files, uciLive, uciSaved, running, lastGood, history, mu, pc,
          job, probe, validated, confirmed, answered>>

router == <<uciLive, uciSaved, running>>
ghosts == <<validated, confirmed, answered>>

Names  == Profiles \cup {Owner}
Record == [profile : Profiles, hash : States]
Ctx    == {"apply", "auto", "user"}

(* Results of a call, held while its deferred unlock is still to run. *)
Replies == {"ok", "unrecorded", "rejected", "activateFailed", "noRollback",
            "rolledBack", "rollbackFailed"}

Inside == {"load", "write", "validate", "set", "commit", "restart", "health",
           "lastGood", "mark", "append"} \cup Replies

Labels == {"idle", "wait"} \cup Inside

(* ctx says on whose behalf Activate and Health run: the profile being     *)
(* applied, the automatic rollback or the user's rollback.  The prev       *)
(* fields are ghosts: lastGood and the selection when mu was taken.        *)
Job == [ctx : Ctx, step : Nat \ {0}, name : Profiles \cup {NoProfile},
        hash : States \cup {NoState}, target : Names \cup {NoProfile},
        prevGood : Names \cup {NoProfile}, prevUci : Names \cup {NoProfile}]

EmptyJob == [ctx |-> "apply", step |-> 1, name |-> NoProfile,
             hash |-> NoState, target |-> NoProfile,
             prevGood |-> NoProfile, prevUci |-> NoProfile]

Noted(j) == [j EXCEPT !.prevGood = lastGood, !.prevUci = uciLive]

Exists(p) == p = Owner \/ (p \in Profiles /\ files[p] # NoState)

(* What the Detect of daemon start-up leaves in lastGood: the profile UCI  *)
(* selects when its file exists, nothing when it does not or when the uci  *)
(* command fails.                                                          *)
Seeds(uci) == {NoProfile} \cup {p \in {uci} : Exists(p)}

(* loadHistory: an unreadable or corrupt applied.json reads as empty. *)
LoadedHistory == {history, <<>>}

(* Mutant: the indicator compares with the oldest record. *)
PendingOldest ==
    IF history = <<>> THEN state \notin Virgin ELSE history[1].hash # state

(* FR-6.1 indicator: Applyer.Pending. *)
Pending ==
    IF history = <<>> THEN state \notin Virgin
    ELSE history[Len(history)].hash # state

(* Mutant: the history is never trimmed. *)
RotateNever(recs) == recs

(* appendHistory's rotation: the newest HistorySize records. *)
Rotate(recs) ==
    IF Len(recs) > HistorySize
    THEN SubSeq(recs, Len(recs) - HistorySize + 1, Len(recs))
    ELSE recs

Goto(c, l) == pc' = [pc EXCEPT ![c] = l]

-----------------------------------------------------------------------------
Init ==
    /\ state \in States
    /\ files = [p \in Profiles |-> NoState]
    /\ uciLive \in {Owner, NoProfile}
    /\ uciSaved = uciLive
    /\ running = uciLive
    /\ lastGood \in Seeds(uciLive)
    /\ history = <<>>
    /\ mu = NoCaller
    /\ pc = [c \in Callers |-> "idle"]
    /\ job = [c \in Callers |-> EmptyJob]
    /\ probe = [d \in Probes |-> NoProfile]
    /\ validated = {}
    /\ confirmed = {Owner}
    /\ answered = FALSE

(* Any mutation handler of the API saves a new state.json. *)
EditState(s) ==
    /\ state' = s
    /\ UNCHANGED <<files, router, lastGood, history, mu, pc, job, probe, ghosts>>

(* POST /apply arrives; the guard bounds how many profiles are minted. *)
RequestApply(c) ==
    /\ pc[c] = "idle"
    /\ Cardinality({p \in Profiles : files[p] = NoState})
         > Cardinality({d \in Callers : pc[d] # "idle"})
    /\ Goto(c, "wait")
    /\ job' = [job EXCEPT ![c].ctx = "apply"]
    /\ UNCHANGED <<state, files, router, lastGood, history, mu, probe, ghosts>>

(* POST /rollback arrives: handleRollback and Rollback both raise a step   *)
(* below one to one.                                                       *)
RequestRollback(c, step) ==
    /\ pc[c] = "idle"
    /\ Goto(c, "wait")
    /\ job' = [job EXCEPT ![c].ctx = "user",
                          ![c].step = IF step < 1 THEN 1 ELSE step]
    /\ UNCHANGED <<state, files, router, lastGood, history, mu, probe, ghosts>>

(* Mutant: Apply does not wait for Applyer.mu. *)
LockApplyFree(c) ==
    /\ pc[c] = "wait" /\ job[c].ctx = "apply"
    /\ mu' = c
    /\ Goto(c, "load")
    /\ job' = [job EXCEPT ![c] = Noted(@)]
    /\ UNCHANGED <<state, files, router, lastGood, history, probe, ghosts>>

(* a.mu.Lock() of Apply. *)
LockApply(c) ==
    /\ pc[c] = "wait" /\ job[c].ctx = "apply"
    /\ mu = NoCaller
    /\ mu' = c
    /\ Goto(c, "load")
    /\ job' = [job EXCEPT ![c] = Noted(@)]
    /\ UNCHANGED <<state, files, router, lastGood, history, probe, ghosts>>

(* a.mu.Lock() of Rollback, then its choice of a record. *)
LockRollback(c) ==
    /\ pc[c] = "wait" /\ job[c].ctx = "user"
    /\ mu = NoCaller
    /\ mu' = c
    /\ \E recs \in LoadedHistory :
         IF Len(recs) > job[c].step
         THEN /\ Goto(c, "set")
              /\ LET rec == recs[Len(recs) - job[c].step] IN
                   job' = [job EXCEPT ![c] = [Noted(@) EXCEPT
                                                !.target = rec.profile,
                                                !.hash = rec.hash]]
         ELSE /\ Goto(c, "rejected")
              /\ job' = [job EXCEPT ![c] = Noted(@)]
    /\ UNCHANGED <<state, files, router, lastGood, history, probe, ghosts>>

(* Store.Load, stateHash, profileName and the generator: the call ends     *)
(* here when the state is unreadable or does not generate.                 *)
LoadAndGenerate(c) ==
    /\ pc[c] = "load"
    /\ \/ /\ Goto(c, "rejected")
          /\ UNCHANGED job
       \/ /\ state \in Generable
          /\ Goto(c, "write")
          /\ \E p \in Profiles :
               /\ files[p] = NoState
               /\ job' = [job EXCEPT ![c].name = p, ![c].hash = state,
                                     ![c].target = p]
    /\ UNCHANGED <<state, files, router, lastGood, history, mu, probe, ghosts>>

(* Adapter.WriteProfile: tmp file and rename, or nothing. *)
WriteProfile(c) ==
    /\ pc[c] = "write"
    /\ \/ /\ files' = [files EXCEPT ![job[c].name] = job[c].hash]
          /\ Goto(c, "validate")
       \/ /\ Goto(c, "rejected")
          /\ UNCHANGED files
    /\ UNCHANGED <<state, router, lastGood, history, mu, job, probe, ghosts>>

(* Mutant: a refused profile is only logged. *)
ValidateWarns(c) ==
    /\ pc[c] = "validate"
    /\ validated' \in {validated, validated \cup {job[c].name}}
    /\ Goto(c, "set")
    /\ UNCHANGED <<state, files, router, lastGood, history, mu, job, probe,
                   confirmed, answered>>

(* Adapter.Validate: `mihomo -t` accepts or refuses the written file. *)
Validate(c) ==
    /\ pc[c] = "validate"
    /\ \/ /\ validated' = validated \cup {job[c].name}
          /\ Goto(c, "set")
       \/ /\ Goto(c, "rejected")
          /\ UNCHANGED validated
    /\ UNCHANGED <<state, files, router, lastGood, history, mu, job, probe,
                   confirmed, answered>>

(* Mutant: a rollback of the user does not require health. *)
OnTimeoutIgnored == [apply |-> "lastGood", auto |-> "rollbackFailed",
                     user |-> "append"]

(* Where each context continues. *)
OnActivateError == [apply |-> "activateFailed", auto |-> "rollbackFailed",
                    user |-> "rollbackFailed"]
OnHealthy       == [apply |-> "mark", auto |-> "rolledBack", user |-> "append"]
OnTimeout       == [apply |-> "lastGood", auto |-> "rollbackFailed",
                    user |-> "rollbackFailed"]

(* Mutant: Activate already promotes the profile to last good. *)
ActivateSetMarks(c) ==
    /\ pc[c] = "set"
    /\ Exists(job[c].target)
    /\ uciLive' = job[c].target
    /\ lastGood' = job[c].target
    /\ Goto(c, "commit")
    /\ UNCHANGED <<state, files, uciSaved, running, history, mu, job, probe,
                   ghosts>>

(* Adapter.Activate, first part: stat the file and `uci set`.  A command    *)
(* that is killed at the deadline may have taken effect all the same.      *)
ActivateSet(c) ==
    /\ pc[c] = "set"
    /\ \/ /\ Exists(job[c].target)
          /\ uciLive' = job[c].target
          /\ Goto(c, "commit")
       \/ /\ Goto(c, OnActivateError[job[c].ctx])
          /\ uciLive' \in {uciLive} \cup {p \in {job[c].target} : Exists(p)}
    /\ UNCHANGED <<state, files, uciSaved, running, lastGood, history, mu, job,
                   probe, ghosts>>

(* Adapter.Activate, second part: `uci commit nikki`, which may be killed   *)
(* after it took effect, too.                                              *)
ActivateCommit(c) ==
    /\ pc[c] = "commit"
    /\ \/ /\ uciSaved' = uciLive
          /\ Goto(c, "restart")
       \/ /\ Goto(c, OnActivateError[job[c].ctx])
          /\ uciSaved' \in {uciSaved, uciLive}
    /\ UNCHANGED <<state, files, uciLive, running, lastGood, history, mu, job,
                   probe, ghosts>>

(* Adapter.Activate, last part: the init script's restart.  It starts the  *)
(* core on the selected profile, also when it then fails or is killed.     *)
ActivateRestart(c) ==
    /\ pc[c] = "restart"
    /\ \/ /\ running' = uciLive
          /\ answered' = FALSE
          /\ pc' \in {[pc EXCEPT ![c] = "health"],
                      [pc EXCEPT ![c] = OnActivateError[job[c].ctx]]}
       \/ /\ Goto(c, OnActivateError[job[c].ctx])
          /\ UNCHANGED <<running, answered>>
    /\ UNCHANGED <<state, files, uciLive, uciSaved, lastGood, history, mu, job,
                   probe, validated, confirmed>>

(* Adapter.Health: a poll that is answered within the budget, or the       *)
(* deadline.  Which of the two is open: the core may come up, come up too  *)
(* late or not at all, and the core of before the restart may still answer *)
(* the first poll.                                                         *)
Health(c) ==
    /\ pc[c] = "health"
    /\ \/ /\ confirmed' = confirmed \cup {running}
          /\ answered' = TRUE
          /\ Goto(c, OnHealthy[job[c].ctx])
       \/ /\ Goto(c, OnTimeout[job[c].ctx])
          /\ UNCHANGED <<confirmed, answered>>
    /\ UNCHANGED <<state, files, router, lastGood, history, mu, job, probe,
                   validated>>

(* Apply after a failed health check: ask LastGood where to go back to. *)
ChooseRollback(c) ==
    /\ pc[c] = "lastGood"
    /\ IF lastGood \in {NoProfile, job[c].name}
       THEN /\ Goto(c, "noRollback")
            /\ UNCHANGED job
       ELSE /\ Goto(c, "set")
            /\ job' = [job EXCEPT ![c].ctx = "auto", ![c].target = lastGood]
    /\ UNCHANGED <<state, files, router, lastGood, history, mu, probe, ghosts>>

(* Adapter.MarkHealthy: only Apply calls it. *)
MarkHealthy(c) ==
    /\ pc[c] = "mark"
    /\ lastGood' = job[c].name
    /\ Goto(c, "append")
    /\ UNCHANGED <<state, files, router, history, mu, job, probe, ghosts>>

(* Mutant: the record's hash is taken from the state at the end. *)
AppendHistoryRehashed(c) ==
    /\ pc[c] = "append"
    /\ history' = Rotate(Append(history, [profile |-> job[c].target,
                                          hash |-> state]))
    /\ Goto(c, "ok")
    /\ UNCHANGED <<state, files, router, lastGood, mu, job, probe, ghosts>>

(* appendHistory: load, append, rotate and save; or the save fails and the *)
(* file is as it was.                                                      *)
AppendHistory(c) ==
    /\ pc[c] = "append"
    /\ \/ /\ \E recs \in LoadedHistory :
               history' = Rotate(Append(recs, [profile |-> job[c].target,
                                               hash |-> job[c].hash]))
          /\ Goto(c, "ok")
       \/ /\ Goto(c, "unrecorded")
          /\ UNCHANGED history
    /\ UNCHANGED <<state, files, router, lastGood, mu, job, probe, ghosts>>

(* Mutant: the early returns forget to unlock. *)
ReturnLocked(c) ==
    /\ pc[c] \in Replies
    /\ Goto(c, "idle")
    /\ job' = [job EXCEPT ![c] = EmptyJob]
    /\ mu' = IF pc[c] = "rejected" THEN mu ELSE NoCaller
    /\ UNCHANGED <<state, files, router, lastGood, history, probe, ghosts>>

(* The deferred unlock and the handler's reply. *)
Return(c) ==
    /\ pc[c] \in Replies
    /\ Goto(c, "idle")
    /\ job' = [job EXCEPT ![c] = EmptyJob]
    /\ mu' = NoCaller
    /\ UNCHANGED <<state, files, router, lastGood, history, probe, ghosts>>

(* RouterAdapter.Detect on behalf of GET /diagnostics: `uci get` and stat, *)
(* without Applyer.mu ...                                                  *)
DetectRead(d) ==
    /\ probe[d] = NoProfile
    /\ Exists(uciLive)
    /\ probe' = [probe EXCEPT ![d] = uciLive]
    /\ UNCHANGED <<state, files, router, lastGood, history, mu, pc, job, ghosts>>

(* ... and, later, the assignment under RouterAdapter.mu. *)
DetectSeed(d) ==
    /\ probe[d] # NoProfile
    /\ lastGood' = probe[d]
    /\ probe' = [probe EXCEPT ![d] = NoProfile]
    /\ UNCHANGED <<state, files, router, history, mu, pc, job, ghosts>>

(* What a dead daemon loses, and the Detect of the next start-up. *)
DaemonRestarts(uci) ==
    /\ MayCrash
    /\ mu' = NoCaller
    /\ pc' = [c \in Callers |-> "idle"]
    /\ job' = [c \in Callers |-> EmptyJob]
    /\ probe' = [d \in Probes |-> NoProfile]
    /\ lastGood' \in Seeds(uci)
    /\ UNCHANGED <<state, files, history, validated, confirmed>>

(* The daemon dies at any point and procd starts it again. *)
Crash ==
    /\ DaemonRestarts(uciLive)
    /\ UNCHANGED <<router, answered>>

(* The router loses power: uncommitted UCI changes are gone and nikki      *)
(* starts on the committed profile.                                        *)
Reboot ==
    /\ DaemonRestarts(uciSaved)
    /\ uciLive' = uciSaved
    /\ running' = uciSaved
    /\ answered' = FALSE
    /\ UNCHANGED uciSaved

Step(c) ==
    \/ LoadAndGenerate(c) \/ WriteProfile(c) \/ Validate(c)
    \/ ActivateSet(c) \/ ActivateCommit(c) \/ ActivateRestart(c)
    \/ Health(c) \/ ChooseRollback(c) \/ MarkHealthy(c) \/ AppendHistory(c)
    \/ Return(c)

Lock(c) == LockApply(c) \/ LockRollback(c)

Next ==
    \/ \E s \in States : EditState(s)
    \/ \E c \in Callers : \/ RequestApply(c)
                          \/ \E n \in 0..HistorySize : RequestRollback(c, n)
                          \/ Lock(c)
                          \/ Step(c)
    \/ \E d \in Probes : DetectRead(d) \/ DetectSeed(d)
    \/ Crash
    \/ Reboot

Spec == Init /\ [][Next]_vars

(* Go schedules every runnable goroutine, each external command and each   *)
(* poll has a deadline, and sync.Mutex hands itself to a starving waiter.  *)
Fairness ==
    \A c \in Callers : WF_vars(Step(c)) /\ SF_vars(Lock(c))

FairSpec == Spec /\ Fairness

-----------------------------------------------------------------------------
(* The variables hold values of their kind; the history is bounded. *)
TypeOK ==
    /\ state \in States
    /\ files \in [Profiles -> States \cup {NoState}]
    /\ uciLive \in Names \cup {NoProfile}
    /\ uciSaved \in Names \cup {NoProfile}
    /\ running \in Names \cup {NoProfile}
    /\ lastGood \in Names \cup {NoProfile}
    /\ history \in Seq(Record)
    /\ Len(history) <= HistorySize
    /\ mu \in Callers \cup {NoCaller}
    /\ pc \in [Callers -> Labels]
    /\ job \in [Callers -> Job]
    /\ probe \in [Probes -> Names \cup {NoProfile}]
    /\ validated \subseteq Profiles
    /\ confirmed \subseteq Names
    /\ answered \in BOOLEAN

OnRouter(p) == uciLive = p /\ uciSaved = p /\ running = p

(* Applyer.mu "serializes apply/rollback": between a caller's uci set and  *)
(* the end of its health check nobody else moves the selection or restarts *)
(* the service, so Health judges the profile the caller activated and not  *)
(* another request's.                                                      *)
HealthJudgesTarget ==
    \A c \in Callers :
        /\ pc[c] = "commit" => uciLive = job[c].target
        /\ pc[c] = "restart" => uciLive = job[c].target /\ uciSaved = uciLive
        /\ pc[c] \in {"health", "mark", "append"} => OnRouter(job[c].target)

(* Every record of applied.json, through failed steps, concurrent edits,   *)
(* crashes and power loss: its profile is on disk, was generated from the  *)
(* state the record's hash names, passed `mihomo -t` and a health check.  *)
HistorySound ==
    \A i \in 1..Len(history) :
        LET rec == history[i] IN
        /\ rec.profile \in Profiles
        /\ files[rec.profile] = rec.hash
        /\ rec.profile \in validated \cap confirmed

(* NFR-3, "validation before application": what UCI selects, now or after  *)
(* a reboot, and what nikki runs is the owner's profile or one `mihomo -t` *)
(* accepted, and its file exists.                                          *)
SelectedValidated ==
    \A p \in {uciLive, uciSaved, running} \ {NoProfile, Owner} :
        p \in validated /\ Exists(p)

(* The reply tells the truth about the router.  OK: the profile is         *)
(* selected, committed, running, newest in the history, and the pending    *)
(* indicator says whether the state has moved on since that profile was    *)
(* generated.  Rolled back: the rollback target, not the failed profile,   *)
(* runs.  Both times a health check has passed since that profile was      *)
(* started.  Rejected: the selection is as the call found it.              *)
ReplyHonest ==
    \A c \in Callers :
        /\ pc[c] = "ok" =>
             /\ OnRouter(job[c].target)
             /\ answered
             /\ history[Len(history)].profile = running
             /\ Pending <=> (files[running] # state)
        /\ pc[c] = "rolledBack" =>
             /\ OnRouter(job[c].target)
             /\ answered
             /\ running # job[c].name
        /\ pc[c] = "rejected" => uciLive = job[c].prevUci

(* A record enters the history only while the profile it names is the one  *)
(* committed and running, after a health check of its own: never for a     *)
(* failed or half-done activation.                                         *)
RecordsWhatRuns ==
    [][history' # history =>
         /\ answered
         /\ running = uciSaved
         /\ history'[Len(history')].profile = running]_vars

(* FR-6.4: an apply whose health check fails goes back to a last good      *)
(* profile whenever there was one when the apply began.                    *)
HealthFailureRollsBack ==
    \A c \in Callers : pc[c] = "noRollback" => job[c].prevGood = NoProfile

(* Every request that waits for Applyer.mu is answered, whatever steps     *)
(* fail or time out on the way.                                            *)
RequestsAnswered == \A c \in Callers : pc[c] = "wait" ~> pc[c] = "idle"

(* The contract of Adapter.LastGood, "the most recent profile known to     *)
(* have applied successfully": when a request has put a profile on the     *)
(* router and answers OK, LastGood names that profile.                     *)
LastGoodNewest == \A c \in Callers : pc[c] = "ok" => lastGood = job[c].target
=============================================================================
