--------------------------- MODULE ApplyFlowProofs ---------------------------
(***************************************************************************)
(* Proofs about ApplyFlow, for any set of callers, probes, profiles and    *)
(* states and any history size.                                            *)
(***************************************************************************)
EXTENDS ApplyFlow, TLAPS

(* Profiles it is safe to select. *)
Vetted == validated \cup {Owner}

(* A caller past its Lock and before the end of its Return holds mu. *)
MutexInv == \A c \in Callers : pc[c] \in Inside => mu = c

(* Whatever the router or the adapter may be told to go to is vetted. *)
VettedInv ==
    /\ \A p \in validated : files[p] # NoState
    /\ uciLive \in Vetted \cup {NoProfile}
    /\ uciSaved \in Vetted \cup {NoProfile}
    /\ running \in Vetted \cup {NoProfile}
    /\ lastGood \in Vetted \cup {NoProfile}
    /\ \A d \in Probes : probe[d] \in Vetted \cup {NoProfile}

(* The profile a caller works on, from its minting to its validation. *)
MintedInv(c) ==
    /\ pc[c] \in {"load", "write", "validate"} =>
         /\ job[c].ctx = "apply"
         /\ uciLive = job[c].prevUci
    /\ pc[c] \in {"write", "validate"} =>
         /\ job[c].name \in Profiles
         /\ job[c].target = job[c].name
         /\ job[c].hash \in States
    /\ pc[c] = "write" => files[job[c].name] = NoState
    /\ pc[c] = "validate" => files[job[c].name] = job[c].hash

(* The profile a caller activates and waits for. *)
TargetInv(c) ==
    pc[c] \in {"set", "commit", "restart", "health", "mark", "append"} =>
        /\ job[c].target \in Vetted
        /\ job[c].ctx # "auto" =>
             /\ job[c].target \in validated
             /\ files[job[c].target] = job[c].hash
        /\ job[c].ctx = "apply" => job[c].target = job[c].name
        /\ job[c].ctx = "auto" => job[c].target # job[c].name

(* What holds once the health check has passed. *)
HealthyInv(c) ==
    /\ pc[c] \in {"lastGood", "mark"} => job[c].ctx = "apply"
    /\ pc[c] = "append" => job[c].ctx # "auto"
    /\ pc[c] \in {"mark", "append"} => answered /\ job[c].target \in confirmed

(* What the replies claim. *)
ReplyInv(c) ==
    /\ pc[c] \in {"ok", "rolledBack"} =>
         /\ OnRouter(job[c].target)
         /\ answered
    /\ pc[c] = "ok" =>
         /\ history # <<>>
         /\ history[Len(history)].profile = running
         /\ history[Len(history)].hash = files[running]
    /\ pc[c] = "rolledBack" => job[c].target # job[c].name
    /\ pc[c] = "rejected" => uciLive = job[c].prevUci

CallerInv ==
    \A c \in Callers :
        MintedInv(c) /\ TargetInv(c) /\ HealthyInv(c) /\ ReplyInv(c)

IInv ==
    /\ TypeOK
    /\ MutexInv
    /\ VettedInv
    /\ CallerInv
    /\ HealthJudgesTarget
    /\ HistorySound

-----------------------------------------------------------------------------
(* Where a caller goes on after Activate and Health, by context. *)
Continues(x) ==
    /\ x \in Ctx
    /\ OnActivateError[x] \in {"activateFailed", "rollbackFailed"}
    /\ OnTimeout[x] \in {"lastGood", "rollbackFailed"}
    /\ OnTimeout[x] = "lastGood" <=> x = "apply"
    /\ OnHealthy[x] \in {"mark", "rolledBack", "append"}
    /\ OnHealthy[x] = "mark" <=> x = "apply"
    /\ OnHealthy[x] = "rolledBack" <=> x = "auto"
    /\ OnHealthy[x] = "append" <=> x = "user"

LEMMA ContextLabels ==
    ASSUME NEW x \in Ctx
    PROVE  Continues(x)
BY DEF Continues, Ctx, OnActivateError, OnTimeout, OnHealthy

(* The locals of a caller are typed. *)
LEMMA ContextTyped ==
    ASSUME TypeOK, NEW c \in Callers
    PROVE  job[c] \in Job /\ job[c].ctx \in Ctx
BY DEF TypeOK, Job

(* The updates of a caller's locals keep them typed. *)
LEMMA ContextUpdate ==
    ASSUME NEW j \in Job
    PROVE  [j EXCEPT !.ctx = "apply"] \in Job
BY DEF Job, Ctx

LEMMA StepUpdate ==
    ASSUME NEW j \in Job, NEW k \in Nat \ {0}
    PROVE  [j EXCEPT !.ctx = "user", !.step = k] \in Job
BY DEF Job, Ctx

LEMMA TargetUpdate ==
    ASSUME NEW j \in Job, NEW p \in Names \cup {NoProfile}
    PROVE  [j EXCEPT !.ctx = "auto", !.target = p] \in Job
BY DEF Job, Ctx

LEMMA MintUpdate ==
    ASSUME NEW j \in Job, NEW p \in Profiles, NEW s \in States
    PROVE  [j EXCEPT !.name = p, !.hash = s, !.target = p] \in Job
BY DEF Job, Names

LEMMA NoteUpdate ==
    ASSUME NEW j \in Job,
           NEW p \in Names \cup {NoProfile},
           NEW q \in Names \cup {NoProfile}
    PROVE  [j EXCEPT !.prevGood = p, !.prevUci = q] \in Job
BY DEF Job

LEMMA EmptyJobTyped == EmptyJob \in Job
BY DEF EmptyJob, Job, Ctx

LEMMA NotedTyped ==
    ASSUME TypeOK, NEW c \in Callers
    PROVE  Noted(job[c]) \in Job
<1>1. lastGood \in Names \cup {NoProfile} /\ uciLive \in Names \cup {NoProfile}
    BY DEF TypeOK
<1>2. [job[c] EXCEPT !.prevGood = lastGood, !.prevUci = uciLive] \in Job
    BY <1>1, ContextTyped, NoteUpdate
<1> QED  BY <1>2 DEF Noted

(* While one caller is inside, the others are not. *)
LEMMA OthersOutside ==
    ASSUME MutexInv, NEW c \in Callers, pc[c] \in Inside,
           NEW d \in Callers, d # c
    PROVE  pc[d] \notin Inside
BY DEF MutexInv

LEMMA EditStateStep ==
    ASSUME IInv, NEW s \in States, EditState(s)
    PROVE  IInv'
<1> USE FlowAssumption DEF IInv, EditState, Goto, router, ghosts
<1>1. TypeOK'
    BY DEF TypeOK, Inside
<1>2. MutexInv'
    BY DEF MutexInv
<1>3. VettedInv'
    BY DEF TypeOK, VettedInv, Vetted, HealthyInv, Exists
<1>4. CallerInv'
    BY DEF CallerInv, MintedInv, TargetInv, HealthyInv, ReplyInv, VettedInv, Vetted, OnRouter
<1>5. HealthJudgesTarget'
    BY DEF HealthJudgesTarget, OnRouter, Inside
<1>6. HistorySound'
    BY DEF HistorySound
<1> QED  BY <1>1, <1>2, <1>3, <1>4, <1>5, <1>6

LEMMA RequestApplyStep ==
    ASSUME IInv, NEW c \in Callers, RequestApply(c)
    PROVE  IInv'
<1> USE FlowAssumption DEF IInv, RequestApply, Goto, router, ghosts
<1>1. TypeOK'
    <2>1. [job[c] EXCEPT !.ctx = "apply"] \in Job
        BY ContextTyped, ContextUpdate DEF TypeOK
    <2>2. job' \in [Callers -> Job]
        BY <2>1 DEF TypeOK
    <2> QED  BY <2>2 DEF TypeOK, Labels, Inside, Replies
<1>2. MutexInv'
    BY DEF MutexInv, Inside, Replies
<1>3. VettedInv'
    BY DEF TypeOK, VettedInv, Vetted, HealthyInv, Exists
<1>4. CallerInv'
    BY DEF CallerInv, MintedInv, TargetInv, HealthyInv, ReplyInv, VettedInv, Vetted, OnRouter
<1>5. HealthJudgesTarget'
    BY DEF HealthJudgesTarget, OnRouter, Inside
<1>6. HistorySound'
    BY DEF HistorySound
<1> QED  BY <1>1, <1>2, <1>3, <1>4, <1>5, <1>6

LEMMA LockApplyStep ==
    ASSUME IInv, NEW c \in Callers, LockApply(c)
    PROVE  IInv'
<1> USE FlowAssumption DEF IInv, LockApply, Goto, router, ghosts
<1>1. TypeOK'
    <2>1. job' \in [Callers -> Job]
        BY NotedTyped DEF TypeOK
    <2> QED  BY <2>1 DEF TypeOK, Labels, Inside
<1>2. MutexInv'
    BY DEF MutexInv
<1>3. VettedInv'
    BY DEF VettedInv, Vetted
<1>4. CallerInv'
    <2>1. ASSUME NEW d \in Callers, d # c
          PROVE  MintedInv(d)' /\ TargetInv(d)' /\ HealthyInv(d)' /\ ReplyInv(d)'
        <3>1. pc[d] \notin Inside /\ pc'[d] = pc[d]
            BY <2>1 DEF MutexInv, TypeOK
        <3> QED  BY <3>1 DEF MintedInv, TargetInv, HealthyInv, ReplyInv, Inside, Replies
    <2>2. MintedInv(c)'
        BY ContextTyped DEF Noted, MintedInv, TargetInv, TypeOK
    <2>3. TargetInv(c)'
        BY ContextTyped DEF TargetInv, HealthyInv, ReplyInv
    <2>4. HealthyInv(c)' /\ ReplyInv(c)'
        BY ContextTyped DEF HealthyInv, ReplyInv, Inside, Replies
    <2> QED  BY <2>1, <2>2, <2>3, <2>4 DEF CallerInv
<1>5. HealthJudgesTarget'
    BY DEF HealthJudgesTarget, OnRouter, Inside
<1>6. HistorySound'
    BY DEF HistorySound
<1> QED  BY <1>1, <1>2, <1>3, <1>4, <1>5, <1>6

LEMMA LoadAndGenerateStep ==
    ASSUME IInv, NEW c \in Callers, LoadAndGenerate(c)
    PROVE  IInv'
<1> USE FlowAssumption DEF IInv, LoadAndGenerate, Goto, router, ghosts
<1>1. TypeOK'
    <2>1. CASE pc' = [pc EXCEPT ![c] = "rejected"] /\ UNCHANGED job
        BY <2>1 DEF TypeOK, Labels, Inside, Replies
    <2>2. ASSUME NEW p \in Profiles, pc' = [pc EXCEPT ![c] = "write"],
                 job' = [job EXCEPT ![c].name = p, ![c].hash = state,
                                    ![c].target = p]
          PROVE  TypeOK'
        <3>1. [job[c] EXCEPT !.name = p, !.hash = state, !.target = p] \in Job
            BY ContextTyped, MintUpdate DEF TypeOK
        <3>2. job' \in [Callers -> Job]
            BY <2>2, <3>1 DEF TypeOK
        <3> QED  BY <2>2, <3>2 DEF TypeOK, Labels, Inside
    <2> QED  BY <2>1, <2>2
<1>2. MutexInv'
    BY DEF TypeOK, MutexInv, Labels
<1>3. VettedInv'
    BY DEF VettedInv, Vetted
<1>4. CallerInv'
    <2>1. ASSUME NEW d \in Callers, d # c
          PROVE  MintedInv(d)' /\ TargetInv(d)' /\ HealthyInv(d)' /\ ReplyInv(d)'
        <3>1. pc[d] \notin Inside /\ pc'[d] = pc[d]
            BY <2>1, OthersOutside DEF TypeOK, Inside, Replies
        <3> QED  BY <3>1 DEF MintedInv, TargetInv, HealthyInv, ReplyInv, Inside, Replies
    <2>2. MintedInv(c)'
        <3>1. CASE pc' = [pc EXCEPT ![c] = "rejected"] /\ UNCHANGED job
            BY <3>1 DEF TypeOK, MintedInv
        <3>2. ASSUME NEW p \in Profiles, files[p] = NoState,
                     pc' = [pc EXCEPT ![c] = "write"],
                     job' = [job EXCEPT ![c].name = p, ![c].hash = state,
                                        ![c].target = p]
              PROVE  MintedInv(c)'
            <4>1. job'[c] = [job[c] EXCEPT !.name = p, !.hash = state,
                                           !.target = p]
                BY <3>2 DEF TypeOK
            <4>2. job[c] \in Job
                BY ContextTyped
            <4>3. /\ job'[c].name = p
                  /\ job'[c].target = p
                  /\ job'[c].hash = state
                BY <4>1, <4>2 DEF Job
            <4>4. /\ job'[c].ctx = job[c].ctx
                  /\ job'[c].prevUci = job[c].prevUci
                BY <4>1, <4>2 DEF Job
            <4> QED  BY <3>2, <4>3, <4>4 DEF TypeOK, CallerInv, MintedInv
        <3> QED  BY <3>1, <3>2
    <2>3. /\ pc'[c] \in {"rejected", "write"}
          /\ pc'[c] = "rejected" => job' = job
        BY DEF TypeOK
    <2>4. TargetInv(c)' /\ HealthyInv(c)'
        BY <2>3 DEF TargetInv, HealthyInv
    <2>5. uciLive' = uciLive /\ uciLive = job[c].prevUci
        BY DEF CallerInv, MintedInv
    <2>6. ReplyInv(c)'
        BY <2>3, <2>5 DEF ReplyInv
    <2> QED  BY <2>1, <2>2, <2>4, <2>6 DEF CallerInv
<1>5. HealthJudgesTarget'
    <2>1. \A d \in Callers : d # c => pc'[d] = pc[d] /\ job'[d] = job[d]
        BY DEF TypeOK
    <2>2. pc'[c] \in {"rejected", "write"}
        BY DEF TypeOK
    <2> QED  BY <2>1, <2>2 DEF HealthJudgesTarget, OnRouter
<1>6. HistorySound'
    BY DEF HistorySound
<1> QED  BY <1>1, <1>2, <1>3, <1>4, <1>5, <1>6

LEMMA WriteProfileStep ==
    ASSUME IInv, NEW c \in Callers, WriteProfile(c)
    PROVE  IInv'
<1> USE FlowAssumption DEF IInv, WriteProfile, Goto, router, ghosts
<1>1. TypeOK'
    <2>1. job[c].hash \in States \cup {NoState}
        BY ContextTyped DEF Job
    <2>2. files' \in [Profiles -> States \cup {NoState}]
        BY <2>1 DEF TypeOK
    <2>3. pc' \in [Callers -> Labels]
        BY DEF TypeOK, Labels, Inside, Replies
    <2> QED  BY <2>2, <2>3 DEF TypeOK
<1>2. MutexInv'
    BY DEF TypeOK, MutexInv, Labels
<1>3. VettedInv'
    BY DEF TypeOK, VettedInv, Vetted, CallerInv, MintedInv
<1>4. CallerInv'
    <2>1. ASSUME NEW d \in Callers, d # c
          PROVE  MintedInv(d)' /\ TargetInv(d)' /\ HealthyInv(d)' /\ ReplyInv(d)'
        <3>1. pc[d] \notin Inside /\ pc'[d] = pc[d]
            BY <2>1, OthersOutside DEF TypeOK, Inside, Replies
        <3> QED  BY <3>1 DEF MintedInv, TargetInv, HealthyInv, ReplyInv, Inside, Replies
    <2>2. pc'[c] \in {"rejected", "validate"} /\ job' = job
        BY DEF TypeOK
    <2>3. MintedInv(c)'
        <3>1. CASE pc'[c] = "rejected"
            BY <3>1 DEF MintedInv
        <3>2. CASE pc'[c] = "validate"
            <4>1. files' = [files EXCEPT ![job[c].name] = job[c].hash]
                BY <3>2 DEF TypeOK
            <4> QED  BY <3>2, <2>2, <4>1 DEF TypeOK, CallerInv, MintedInv
        <3> QED  BY <2>2, <3>1, <3>2
    <2>4. TargetInv(c)' /\ HealthyInv(c)'
        BY <2>2 DEF TargetInv, HealthyInv
    <2>5. uciLive' = uciLive /\ uciLive = job[c].prevUci
        BY DEF CallerInv, MintedInv
    <2>6. ReplyInv(c)'
        BY <2>2, <2>5 DEF ReplyInv
    <2> QED  BY <2>1, <2>3, <2>4, <2>6 DEF CallerInv
<1>5. HealthJudgesTarget'
    BY DEF TypeOK, HealthJudgesTarget, OnRouter, MutexInv, Inside, CallerInv, TargetInv
<1>6. HistorySound'
    BY DEF TypeOK, HistorySound, VettedInv, CallerInv, MintedInv
<1> QED  BY <1>1, <1>2, <1>3, <1>4, <1>5, <1>6

LEMMA ValidateStep ==
    ASSUME IInv, NEW c \in Callers, Validate(c)
    PROVE  IInv'
<1> USE FlowAssumption DEF IInv, Validate, Goto, router, ghosts
<1>1. TypeOK'
    BY DEF TypeOK, Labels, Inside, Replies, CallerInv, MintedInv
<1>2. MutexInv'
    BY DEF TypeOK, MutexInv, Labels
<1>3. VettedInv'
    BY DEF TypeOK, VettedInv, Vetted, CallerInv, MintedInv, HealthyInv
<1>4. CallerInv'
    BY DEF TypeOK, CallerInv, MintedInv, TargetInv, HealthyInv, ReplyInv, MutexInv, Inside, Replies, VettedInv, Vetted
<1>5. HealthJudgesTarget'
    BY DEF TypeOK, HealthJudgesTarget, OnRouter, Inside
<1>6. HistorySound'
    BY DEF HistorySound
<1> QED  BY <1>1, <1>2, <1>3, <1>4, <1>5, <1>6

LEMMA ActivateSetStep ==
    ASSUME IInv, NEW c \in Callers, ActivateSet(c)
    PROVE  IInv'
<1> USE FlowAssumption DEF IInv, ActivateSet, Goto, router, ghosts
<1>c. Continues(job[c].ctx)
    BY ContextTyped, ContextLabels
<1>1. TypeOK'
    BY <1>c DEF Continues, TypeOK, Labels, Inside, Replies, Exists, Names
<1>2. MutexInv'
    BY <1>c DEF Continues, TypeOK, MutexInv, Labels
<1>3. VettedInv'
    BY <1>c DEF Continues, TypeOK, VettedInv, Vetted, CallerInv, TargetInv, HealthyInv
<1>4. CallerInv'
    BY <1>c DEF Continues, TypeOK, CallerInv, MintedInv, TargetInv, HealthyInv, ReplyInv, MutexInv, Labels, Inside, Replies, Vetted, Exists
<1>5. HealthJudgesTarget'
    BY <1>c DEF Continues, TypeOK, HealthJudgesTarget, MutexInv, Inside
<1>6. HistorySound'
    BY <1>c DEF HistorySound
<1> QED  BY <1>1, <1>2, <1>3, <1>4, <1>5, <1>6

LEMMA ActivateCommitStep ==
    ASSUME IInv, NEW c \in Callers, ActivateCommit(c)
    PROVE  IInv'
<1> USE FlowAssumption DEF IInv, ActivateCommit, Goto, router, ghosts
<1>c. Continues(job[c].ctx)
    BY ContextTyped, ContextLabels
<1>1. TypeOK'
    BY <1>c DEF Continues, TypeOK, Labels, Inside, Replies
<1>2. MutexInv'
    BY <1>c DEF TypeOK, MutexInv, Labels
<1>3. VettedInv'
    BY <1>c DEF Continues, TypeOK, VettedInv, Vetted, HealthyInv
<1>4. CallerInv'
    BY <1>c DEF Continues, TypeOK, CallerInv, MintedInv, TargetInv, HealthyInv, ReplyInv, MutexInv, Labels, Inside, Replies, VettedInv, Vetted
<1>5. HealthJudgesTarget'
    BY <1>c DEF Continues, TypeOK, HealthJudgesTarget, OnRouter, Inside
<1>6. HistorySound'
    BY <1>c DEF HistorySound
<1> QED  BY <1>1, <1>2, <1>3, <1>4, <1>5, <1>6

LEMMA ActivateRestartStep ==
    ASSUME IInv, NEW c \in Callers, ActivateRestart(c)
    PROVE  IInv'
<1> USE FlowAssumption DEF IInv, ActivateRestart, Goto, router, ghosts
<1>c. Continues(job[c].ctx)
    BY ContextTyped, ContextLabels
<1>1. TypeOK'
    <2>1. pc' \in [Callers -> Labels]
        BY <1>c DEF Continues, TypeOK, Labels, Inside, Replies
    <2> QED  BY <2>1 DEF TypeOK
<1>2. MutexInv'
    BY <1>c DEF TypeOK, MutexInv, Labels
<1>3. VettedInv'
    BY <1>c DEF Continues, TypeOK, VettedInv, Vetted, HealthyInv
<1>4. CallerInv'
    BY <1>c DEF Continues, TypeOK, CallerInv, MintedInv, TargetInv, HealthyInv, ReplyInv, MutexInv, Labels, Inside, Replies, VettedInv, Vetted
<1>5. HealthJudgesTarget'
    BY <1>c DEF Continues, TypeOK, HealthJudgesTarget, OnRouter, Inside
<1>6. HistorySound'
    BY <1>c DEF HistorySound
<1> QED  BY <1>1, <1>2, <1>3, <1>4, <1>5, <1>6

LEMMA HealthStep ==
    ASSUME IInv, NEW c \in Callers, Health(c)
    PROVE  IInv'
<1> USE FlowAssumption DEF IInv, Health, Goto, router, ghosts
<1>c. Continues(job[c].ctx)
    BY ContextTyped, ContextLabels
<1>1. TypeOK'
    <2>1. pc' \in [Callers -> Labels]
        BY <1>c DEF Continues, TypeOK, Labels, Inside, Replies
    <2>2. running \in Names
        BY DEF TypeOK, CallerInv, TargetInv, Vetted, HealthJudgesTarget,
               OnRouter, Names
    <2>3. confirmed' \subseteq Names /\ answered' \in BOOLEAN
        BY <2>2 DEF TypeOK
    <2> QED  BY <2>1, <2>3 DEF TypeOK
<1>2. MutexInv'
    BY <1>c DEF TypeOK, MutexInv, Labels
<1>3. VettedInv'
    BY <1>c DEF VettedInv, Vetted
<1>4. CallerInv'
    <2>1. ASSUME NEW d \in Callers, d # c
          PROVE  MintedInv(d)' /\ TargetInv(d)' /\ HealthyInv(d)' /\ ReplyInv(d)'
        <3>1. pc[d] \notin Inside /\ pc'[d] = pc[d]
            BY <2>1, OthersOutside DEF TypeOK, Inside, Replies
        <3> QED  BY <3>1 DEF MintedInv, TargetInv, HealthyInv, ReplyInv, Inside, Replies
    <2>2. MintedInv(c)'
        BY ContextTyped, <1>c DEF Continues, MintedInv, TypeOK, VettedInv
    <2>3. TargetInv(c)'
        BY ContextTyped, <1>c DEF Continues, CallerInv, TargetInv, HealthyInv, ReplyInv, OnRouter, TypeOK, Vetted, HealthJudgesTarget
    <2>4. HealthyInv(c)' /\ ReplyInv(c)'
        BY ContextTyped, <1>c DEF Continues, CallerInv, TargetInv, HealthyInv, ReplyInv, OnRouter, TypeOK, VettedInv, Vetted, HealthJudgesTarget
    <2> QED  BY <2>1, <2>2, <2>3, <2>4 DEF CallerInv
<1>5. HealthJudgesTarget'
    BY <1>c DEF TypeOK, HealthJudgesTarget, OnRouter
<1>6. HistorySound'
    BY <1>c DEF HistorySound
<1> QED  BY <1>1, <1>2, <1>3, <1>4, <1>5, <1>6

LEMMA ChooseRollbackStep ==
    ASSUME IInv, NEW c \in Callers, ChooseRollback(c)
    PROVE  IInv'
<1> USE FlowAssumption DEF IInv, ChooseRollback, Goto, router, ghosts
<1>1. TypeOK'
    <2>1. CASE pc' = [pc EXCEPT ![c] = "noRollback"] /\ UNCHANGED job
        BY <2>1 DEF TypeOK, Labels, Inside, Replies
    <2>2. CASE /\ pc' = [pc EXCEPT ![c] = "set"]
               /\ job' = [job EXCEPT ![c].ctx = "auto", ![c].target = lastGood]
        <3>1. [job[c] EXCEPT !.ctx = "auto", !.target = lastGood] \in Job
            BY ContextTyped, TargetUpdate DEF TypeOK
        <3>2. job' \in [Callers -> Job]
            BY <2>2, <3>1 DEF TypeOK
        <3> QED  BY <2>2, <3>2 DEF TypeOK, Labels, Inside
    <2> QED  BY <2>1, <2>2
<1>2. MutexInv'
    BY DEF TypeOK, MutexInv, Labels
<1>3. VettedInv'
    BY DEF VettedInv, Vetted
<1>4. CallerInv'
    <2>1. ASSUME NEW d \in Callers, d # c
          PROVE  MintedInv(d)' /\ TargetInv(d)' /\ HealthyInv(d)' /\ ReplyInv(d)'
        <3>1. pc[d] \notin Inside /\ pc'[d] = pc[d]
            BY <2>1, OthersOutside DEF TypeOK, Inside, Replies
        <3> QED  BY <3>1 DEF MintedInv, TargetInv, HealthyInv, ReplyInv, Inside, Replies
    <2>2. MintedInv(c)'
        BY ContextTyped DEF MintedInv, TypeOK
    <2>3. TargetInv(c)'
        <3>1. CASE pc' = [pc EXCEPT ![c] = "noRollback"]
            BY <3>1 DEF TargetInv
        <3>2. CASE /\ pc' = [pc EXCEPT ![c] = "set"]
                   /\ job' = [job EXCEPT ![c].ctx = "auto",
                                         ![c].target = lastGood]
                   /\ lastGood \notin {NoProfile, job[c].name}
            <4>1. job'[c] = [job[c] EXCEPT !.ctx = "auto",
                                           !.target = lastGood]
                BY <3>2 DEF TypeOK
            <4>2. /\ job'[c].ctx = "auto"
                  /\ job'[c].target = lastGood
                  /\ job'[c].name = job[c].name
                BY <4>1, ContextTyped DEF Job
            <4> QED  BY <3>2, <4>2 DEF TargetInv, VettedInv, Vetted
        <3> QED  BY <3>1, <3>2
    <2>4. HealthyInv(c)' /\ ReplyInv(c)'
        BY ContextTyped DEF HealthyInv, ReplyInv, TypeOK, Labels, Inside, Replies
    <2> QED  BY <2>1, <2>2, <2>3, <2>4 DEF CallerInv
<1>5. HealthJudgesTarget'
    BY DEF TypeOK, HealthJudgesTarget, OnRouter, Inside
<1>6. HistorySound'
    BY DEF HistorySound
<1> QED  BY <1>1, <1>2, <1>3, <1>4, <1>5, <1>6

LEMMA MarkHealthyStep ==
    ASSUME IInv, NEW c \in Callers, MarkHealthy(c)
    PROVE  IInv'
<1> USE FlowAssumption DEF IInv, MarkHealthy, Goto, router, ghosts
<1>1. TypeOK'
    BY ContextTyped DEF TypeOK, Labels, Inside, Replies, Job, Names
<1>2. MutexInv'
    BY DEF TypeOK, MutexInv, Labels
<1>3. VettedInv'
    BY DEF TypeOK, VettedInv, Vetted, CallerInv, TargetInv, HealthyInv
<1>4. CallerInv'
    BY DEF TypeOK, CallerInv, MintedInv, TargetInv, HealthyInv, ReplyInv, MutexInv, Labels, Replies, VettedInv, Vetted
<1>5. HealthJudgesTarget'
    BY DEF HealthJudgesTarget, OnRouter, Inside
<1>6. HistorySound'
    BY DEF HistorySound
<1> QED  BY <1>1, <1>2, <1>3, <1>4, <1>5, <1>6

LEMMA ReturnStep ==
    ASSUME IInv, NEW c \in Callers, Return(c)
    PROVE  IInv'
<1> USE FlowAssumption DEF IInv, Return, Goto, router, ghosts
<1>1. TypeOK'
    BY EmptyJobTyped DEF TypeOK, Labels, Inside, Replies
<1>2. MutexInv'
    BY DEF TypeOK, MutexInv, Inside, Replies
<1>3. VettedInv'
    BY DEF TypeOK, VettedInv, Vetted
<1>4. CallerInv'
    BY DEF TypeOK, CallerInv, MintedInv, TargetInv, HealthyInv, ReplyInv, MutexInv, Inside, Replies, VettedInv
<1>5. HealthJudgesTarget'
    BY DEF TypeOK, HealthJudgesTarget, OnRouter, Inside
<1>6. HistorySound'
    BY DEF HistorySound
<1> QED  BY <1>1, <1>2, <1>3, <1>4, <1>5, <1>6

LEMMA DetectReadStep ==
    ASSUME IInv, NEW d \in Probes, DetectRead(d)
    PROVE  IInv'
<1> USE FlowAssumption DEF IInv, DetectRead, Goto, router, ghosts
<1>1. TypeOK'
    BY DEF TypeOK, Inside
<1>2. MutexInv'
    BY DEF MutexInv
<1>3. VettedInv'
    BY DEF TypeOK, VettedInv, Vetted, HealthyInv, Exists
<1>4. CallerInv'
    BY DEF CallerInv, MintedInv, TargetInv, HealthyInv, ReplyInv, VettedInv, Vetted, OnRouter
<1>5. HealthJudgesTarget'
    BY DEF HealthJudgesTarget, OnRouter, Inside
<1>6. HistorySound'
    BY DEF HistorySound
<1> QED  BY <1>1, <1>2, <1>3, <1>4, <1>5, <1>6

LEMMA DetectSeedStep ==
    ASSUME IInv, NEW d \in Probes, DetectSeed(d)
    PROVE  IInv'
<1> USE FlowAssumption DEF IInv, DetectSeed, Goto, router, ghosts
<1>1. TypeOK'
    BY DEF TypeOK, Inside
<1>2. MutexInv'
    BY DEF MutexInv
<1>3. VettedInv'
    BY DEF TypeOK, VettedInv, Vetted, HealthyInv, Exists
<1>4. CallerInv'
    BY DEF CallerInv, MintedInv, TargetInv, HealthyInv, ReplyInv, VettedInv, Vetted, OnRouter
<1>5. HealthJudgesTarget'
    BY DEF HealthJudgesTarget, OnRouter, Inside
<1>6. HistorySound'
    BY DEF HistorySound
<1> QED  BY <1>1, <1>2, <1>3, <1>4, <1>5, <1>6

LEMMA RequestRollbackStep ==
    ASSUME IInv, NEW c \in Callers, NEW n \in 0..HistorySize,
           RequestRollback(c, n)
    PROVE  IInv'
<1> USE FlowAssumption DEF IInv, RequestRollback, Goto, router, ghosts
<1>1. TypeOK'
    <2> DEFINE k == IF n < 1 THEN 1 ELSE n
    <2>1. k \in Nat \ {0}
        OBVIOUS
    <2> HIDE DEF k
    <2>2. [job[c] EXCEPT !.ctx = "user", !.step = k] \in Job
        BY <2>1, ContextTyped, StepUpdate
    <2>3. job' = [job EXCEPT ![c].ctx = "user", ![c].step = k]
        BY DEF k
    <2>4. job' \in [Callers -> Job]
        BY <2>2, <2>3 DEF TypeOK
    <2> QED  BY <2>4 DEF TypeOK, Labels
<1>2. \A d \in Callers : d # c => pc'[d] = pc[d] /\ job'[d] = job[d]
    BY DEF TypeOK
<1>3. pc'[c] = "wait"
    BY DEF TypeOK
<1>4. MutexInv'
    BY <1>2, <1>3 DEF MutexInv, Inside, Replies
<1>5. VettedInv'
    BY DEF VettedInv, Vetted
<1>6. CallerInv'
    <2> SUFFICES ASSUME NEW d \in Callers
                 PROVE  MintedInv(d)' /\ TargetInv(d)' /\ HealthyInv(d)' /\ ReplyInv(d)'
        BY DEF CallerInv
    <2>1. CASE d = c
        BY <1>3, <2>1 DEF MintedInv, TargetInv, HealthyInv, ReplyInv
    <2>2. CASE d # c
        <3>1. pc'[d] = pc[d] /\ job'[d] = job[d]
            BY <1>2, <2>2
        <3>2. MintedInv(d) /\ TargetInv(d) /\ HealthyInv(d) /\ ReplyInv(d)
            BY DEF CallerInv
        <3> QED  BY <3>1, <3>2 DEF MintedInv, TargetInv, HealthyInv, ReplyInv,
                                   OnRouter, Vetted
    <2> QED  BY <2>1, <2>2
<1>7. HealthJudgesTarget'
    BY <1>2, <1>3 DEF HealthJudgesTarget, OnRouter
<1>8. HistorySound'
    BY DEF HistorySound
<1> QED  BY <1>1, <1>4, <1>5, <1>6, <1>7, <1>8

(* A rollback by the user starts from a record of the history, of which    *)
(* HistorySound says that it may be selected.                              *)
LEMMA LockRollbackStep ==
    ASSUME IInv, NEW c \in Callers, LockRollback(c)
    PROVE  IInv'
<1> USE FlowAssumption DEF IInv, router, ghosts
<1>1. /\ pc[c] = "wait" /\ job[c].ctx = "user"
      /\ mu = NoCaller /\ mu' = c
      /\ UNCHANGED <<state, files, router, lastGood, history, probe, ghosts>>
    BY DEF LockRollback
<1>2. Noted(job[c]) \in Job
    BY NotedTyped
<1>3. \A d \in Callers : pc[d] \notin Inside
    BY <1>1 DEF MutexInv
<1>4. CASE /\ pc' = [pc EXCEPT ![c] = "rejected"]
           /\ job' = [job EXCEPT ![c] = Noted(@)]
    <2>1. TypeOK'
        BY <1>1, <1>2, <1>4 DEF TypeOK, Labels, Inside, Replies
    <2>2. pc'[c] = "rejected" /\ job'[c] = Noted(job[c])
        BY <1>4 DEF TypeOK
    <2>3. \A d \in Callers : d # c => pc'[d] = pc[d]
        BY <1>4 DEF TypeOK
    <2>4. job'[c].prevUci = uciLive
        BY <2>2, ContextTyped DEF Noted
    <2>5. MutexInv'
        BY <1>1, <1>3, <2>3 DEF MutexInv
    <2>6. VettedInv'
        BY <1>1 DEF VettedInv, Vetted
    <2>7. CallerInv'
        BY <1>1, <1>3, <2>2, <2>3, <2>4
           DEF CallerInv, MintedInv, TargetInv, HealthyInv, ReplyInv, Inside,
               Replies
    <2>8. HealthJudgesTarget' /\ HistorySound'
        BY <1>1, <1>3, <2>2, <2>3
           DEF HealthJudgesTarget, HistorySound, Inside
    <2> QED  BY <2>1, <2>5, <2>6, <2>7, <2>8
<1>5. ASSUME NEW i \in 1..Len(history), pc' = [pc EXCEPT ![c] = "set"],
             job' = [job EXCEPT ![c] = [Noted(@) EXCEPT
                                          !.target = history[i].profile,
                                          !.hash = history[i].hash]]
      PROVE  IInv'
    <2> DEFINE rec == history[i]
    <2>1. /\ rec \in Record
          /\ rec.profile \in validated
          /\ files[rec.profile] = rec.hash
        BY DEF TypeOK, HistorySound
    <2> HIDE DEF rec
    <2>2. [Noted(job[c]) EXCEPT !.target = rec.profile, !.hash = rec.hash]
            \in Job
        BY <1>2, <2>1 DEF Job, Record, Names
    <2>3. job'[c] = [Noted(job[c]) EXCEPT !.target = rec.profile,
                                          !.hash = rec.hash]
        BY <1>5 DEF TypeOK, rec
    <2>4. TypeOK'
        BY <1>1, <1>5, <2>2 DEF TypeOK, Labels, Inside, rec
    <2>5. /\ job'[c].target = rec.profile
          /\ job'[c].hash = rec.hash
        BY <1>2, <2>3 DEF Job
    <2>6. job'[c].ctx = "user"
        BY <1>1, <2>3, ContextTyped DEF Noted
    <2>7. pc'[c] = "set" /\ \A d \in Callers : d # c => pc'[d] = pc[d]
        BY <1>5 DEF TypeOK
    <2>8. MutexInv'
        BY <1>1, <1>3, <2>7 DEF MutexInv
    <2>9. VettedInv'
        BY <1>1 DEF VettedInv, Vetted
    <2>10. CallerInv'
        BY <1>1, <1>3, <2>1, <2>5, <2>6, <2>7
           DEF CallerInv, MintedInv, TargetInv, HealthyInv, ReplyInv, Inside,
               Replies, Vetted
    <2>11. HealthJudgesTarget' /\ HistorySound'
        BY <1>1, <1>3, <2>7 DEF HealthJudgesTarget, HistorySound, Inside
    <2> QED  BY <2>4, <2>8, <2>9, <2>10, <2>11
<1>6. PICK recs \in LoadedHistory :
         IF Len(recs) > job[c].step
         THEN /\ pc' = [pc EXCEPT ![c] = "set"]
              /\ job' = [job EXCEPT ![c] =
                           [Noted(@) EXCEPT
                              !.target = recs[Len(recs) - job[c].step].profile,
                              !.hash = recs[Len(recs) - job[c].step].hash]]
         ELSE /\ pc' = [pc EXCEPT ![c] = "rejected"]
              /\ job' = [job EXCEPT ![c] = Noted(@)]
    BY DEF LockRollback, Goto
<1>7. job[c].step \in Nat \ {0}
    BY ContextTyped DEF Job
<1>8. CASE Len(recs) > job[c].step /\ recs = history
    <2>1. Len(history) - job[c].step \in 1..Len(history)
        BY <1>7, <1>8 DEF TypeOK
    <2> QED  BY <1>5, <1>6, <1>8, <2>1
<1> QED  BY <1>4, <1>6, <1>7, <1>8 DEF LoadedHistory

(* Every element of out is rec or an element of recs. *)
OldOrNew(out, recs, rec) ==
    \A i \in 1..Len(out) :
        out[i] = rec \/ \E j \in 1..Len(recs) : out[i] = recs[j]

(* What appending a record and rotating leaves: a bounded sequence that    *)
(* ends with the new record and otherwise holds old ones.                  *)
LEMMA RotateAppend ==
    ASSUME NEW recs \in Seq(Record), Len(recs) <= HistorySize,
           NEW rec \in Record, NEW out, out = Rotate(Append(recs, rec))
    PROVE  /\ out \in Seq(Record)
           /\ Len(out) \in 1..HistorySize
           /\ out[Len(out)] = rec
           /\ OldOrNew(out, recs, rec)
<1> DEFINE all == Append(recs, rec)
<1>1. /\ all \in Seq(Record)
      /\ Len(all) = Len(recs) + 1
      /\ all[Len(all)] = rec
      /\ \A i \in 1..Len(recs) : all[i] = recs[i]
    OBVIOUS
<1>2. Len(recs) \in Nat /\ HistorySize \in Nat \ {0}
    BY FlowAssumption
<1> HIDE DEF all
<1>3. CASE Len(all) <= HistorySize
    <2>1. out = all
        BY <1>1, <1>2, <1>3 DEF Rotate
    <2> QED  BY <1>1, <1>2, <1>3, <2>1 DEF OldOrNew
<1>4. CASE Len(all) > HistorySize
    <2> DEFINE m == Len(all) - HistorySize + 1
    <2>1. m \in 1..Len(all) /\ Len(all) - m + 1 = HistorySize
        BY <1>1, <1>2, <1>4
    <2>2. out = SubSeq(all, m, Len(all))
        BY <1>4 DEF Rotate, all
    <2>3. /\ SubSeq(all, m, Len(all)) \in Seq(Record)
          /\ Len(SubSeq(all, m, Len(all))) = HistorySize
          /\ \A i \in 1..HistorySize :
               SubSeq(all, m, Len(all))[i] = all[m + i - 1]
        BY <1>1, <1>2, <2>1
    <2>4. m + HistorySize - 1 = Len(all)
        BY <1>1, <1>2
    <2>5. \A i \in 1..HistorySize : m + i - 1 \in 1..Len(all)
        BY <1>1, <1>2, <2>1
    <2> HIDE DEF m
    <2>6. /\ out \in Seq(Record)
          /\ Len(out) = HistorySize
          /\ out[Len(out)] = rec
        BY <1>1, <1>2, <2>2, <2>3, <2>4
    <2>7. \A i \in 1..HistorySize : out[i] = all[m + i - 1]
        BY <2>2, <2>3
    <2>8. \A k \in 1..Len(all) : all[k] = rec \/ \E j \in 1..Len(recs) : all[k] = recs[j]
        BY <1>1, <1>2
    <2>9. ASSUME NEW i \in 1..Len(out)
          PROVE  out[i] = rec \/ \E j \in 1..Len(recs) : out[i] = recs[j]
        <3>1. out[i] = all[m + i - 1] /\ m + i - 1 \in 1..Len(all)
            BY <2>5, <2>6, <2>7
        <3> QED  BY <2>8, <3>1
    <2>10. Len(out) \in 1..HistorySize
        BY <1>2, <2>6
    <2> QED  BY <2>6, <2>9, <2>10 DEF OldOrNew
<1> QED  BY <1>1, <1>2, <1>3, <1>4

(* The record that is appended names the profile the caller saw healthy.   *)
LEMMA AppendHistoryStep ==
    ASSUME IInv, NEW c \in Callers, AppendHistory(c)
    PROVE  /\ IInv'
           /\ history' # history => history'[Len(history')].profile = running
<1> USE FlowAssumption DEF IInv, router, ghosts
<1> DEFINE rec == [profile |-> job[c].target, hash |-> job[c].hash]
<1>1. /\ pc[c] = "append"
      /\ UNCHANGED <<state, files, router, lastGood, mu, job, probe, ghosts>>
    BY DEF AppendHistory
<1>2. /\ job[c].target \in validated
      /\ job[c].target \in confirmed
      /\ files[job[c].target] = job[c].hash
      /\ answered
      /\ OnRouter(job[c].target)
    BY <1>1 DEF CallerInv, TargetInv, HealthyInv, HealthJudgesTarget
<1>3. rec \in Record
    BY <1>2 DEF Record, TypeOK, VettedInv
<1> HIDE DEF rec
<1>4. \/ pc' = [pc EXCEPT ![c] = "unrecorded"] /\ history' = history
      \/ /\ pc' = [pc EXCEPT ![c] = "ok"]
         /\ \E recs \in {history, <<>>} : history' = Rotate(Append(recs, rec))
    BY DEF AppendHistory, Goto, LoadedHistory, rec
<1>5. /\ \A d \in Callers : d # c => pc'[d] = pc[d] /\ pc[d] \notin Inside
      /\ pc'[c] \in {"ok", "unrecorded"}
    BY <1>1, <1>4, OthersOutside DEF TypeOK, Inside
<1>6. CASE history' # history
    <2>1. PICK recs \in {history, <<>>} : history' = Rotate(Append(recs, rec))
        BY <1>4, <1>6
    <2>2. recs \in Seq(Record) /\ Len(recs) <= HistorySize
        <3>1. CASE recs = history
            BY <3>1 DEF TypeOK
        <3>2. CASE recs = <<>>
            BY <3>2, FlowAssumption
        <3> QED  BY <2>1, <3>1, <3>2
    <2>3. /\ history' \in Seq(Record)
          /\ Len(history') \in 1..HistorySize
          /\ history'[Len(history')] = rec
          /\ OldOrNew(history', recs, rec)
        BY <1>3, <2>1, <2>2, RotateAppend
    <2>4. \A j \in 1..Len(recs) : recs[j] = history[j] /\ j \in 1..Len(history)
        BY <2>1
    <2>5. history'[Len(history')].profile = running
        BY <1>2, <2>3 DEF rec, OnRouter
    <2>6. pc' = [pc EXCEPT ![c] = "ok"] /\ job' = job
        BY <1>1, <1>4, <1>6
    <2>7. TypeOK'
        BY <1>1, <2>3, <2>6 DEF TypeOK, Labels, Inside, Replies
    <2>8. MutexInv'
        BY <1>1, <1>5 DEF MutexInv, Inside
    <2>9. VettedInv'
        BY <1>1 DEF VettedInv, Vetted
    <2>10. HistorySound'
        <3>1. UNCHANGED <<files, validated, confirmed>>
            BY <1>1
        <3>2. /\ rec.profile \in Profiles
              /\ files[rec.profile] = rec.hash
              /\ rec.profile \in validated \cap confirmed
            BY <1>2 DEF rec, TypeOK
        <3>3. ASSUME NEW i \in 1..Len(history')
              PROVE  history'[i] = rec \/ \E j \in 1..Len(history) : history'[i] = history[j]
            BY <2>3, <2>4 DEF OldOrNew
        <3> QED  BY <3>1, <3>2, <3>3 DEF HistorySound
    <2>11. HealthJudgesTarget'
        BY <1>1, <1>5 DEF HealthJudgesTarget, OnRouter, Inside
    <2>12. history' # <<>> /\ history'[Len(history')].hash = files[running]
        BY <1>2, <2>3 DEF rec, OnRouter
    <2>13. CallerInv'
        <3>1. ASSUME NEW d \in Callers, d # c
              PROVE  MintedInv(d)' /\ TargetInv(d)' /\ HealthyInv(d)' /\ ReplyInv(d)'
            <4>1. pc'[d] = pc[d] /\ pc[d] \notin Inside
                BY <1>5, <3>1
            <4> QED  BY <4>1 DEF MintedInv, TargetInv, HealthyInv, ReplyInv,
                                 Inside, Replies
        <3>2. MintedInv(c)' /\ TargetInv(c)' /\ HealthyInv(c)'
            BY <2>6 DEF TypeOK, MintedInv, TargetInv, HealthyInv
        <3>3. ReplyInv(c)'
            BY <1>1, <1>2, <2>5, <2>6, <2>12 DEF ReplyInv, OnRouter
        <3> QED  BY <3>1, <3>2, <3>3 DEF CallerInv
    <2> QED  BY <2>5, <2>7, <2>8, <2>9, <2>10, <2>11, <2>13
<1>7. CASE history' = history
    <2>1. TypeOK'
        BY <1>1, <1>4, <1>7 DEF TypeOK, Labels, Inside, Replies
    <2>2. MutexInv'
        BY <1>1, <1>5 DEF MutexInv, Inside
    <2>3. VettedInv' /\ HistorySound'
        BY <1>1, <1>7 DEF VettedInv, Vetted, HistorySound
    <2>4. HealthJudgesTarget'
        BY <1>1, <1>5 DEF HealthJudgesTarget, OnRouter
    <2>5. ASSUME pc' = [pc EXCEPT ![c] = "ok"]
          PROVE  history # <<>> /\ history[Len(history)] = rec
        <3>1. PICK recs \in {history, <<>>} :
                 history' = Rotate(Append(recs, rec))
            BY <1>4, <2>5 DEF TypeOK
        <3>2. recs \in Seq(Record) /\ Len(recs) <= HistorySize
            <4>1. CASE recs = history
                BY <4>1 DEF TypeOK
            <4>2. CASE recs = <<>>
                BY <4>2, FlowAssumption
            <4> QED  BY <3>1, <4>1, <4>2
        <3>3. Len(history') \in 1..HistorySize /\ history'[Len(history')] = rec
            BY <1>3, <3>1, <3>2, RotateAppend
        <3> QED  BY <1>7, <3>3
    <2>6. CallerInv'
        <3>1. ASSUME NEW d \in Callers, d # c
              PROVE  MintedInv(d)' /\ TargetInv(d)' /\ HealthyInv(d)' /\ ReplyInv(d)'
            <4>1. pc'[d] = pc[d] /\ pc[d] \notin Inside
                BY <1>5, <3>1
            <4> QED  BY <4>1 DEF MintedInv, TargetInv, HealthyInv, ReplyInv,
                                 Inside, Replies
        <3>2. MintedInv(c)' /\ TargetInv(c)' /\ HealthyInv(c)'
            BY <1>4 DEF TypeOK, MintedInv, TargetInv, HealthyInv
        <3>3. ReplyInv(c)'
            BY <1>1, <1>2, <1>4, <1>7, <2>5 DEF TypeOK, ReplyInv, OnRouter, rec
        <3> QED  BY <3>1, <3>2, <3>3 DEF CallerInv
    <2> QED  BY <1>7, <2>1, <2>2, <2>3, <2>4, <2>6
<1> QED  BY <1>6, <1>7

(* A restart forgets every caller, and lastGood is vetted again because    *)
(* what UCI selects is.                                                    *)
LEMMA RestartStep ==
    ASSUME IInv, Crash \/ Reboot
    PROVE  IInv'
<1> USE FlowAssumption DEF IInv, router, ghosts
<1>1. /\ mu' = NoCaller
      /\ pc' = [c \in Callers |-> "idle"]
      /\ job' = [c \in Callers |-> EmptyJob]
      /\ probe' = [d \in Probes |-> NoProfile]
      /\ UNCHANGED <<state, files, history, validated, confirmed, uciSaved>>
    BY DEF Crash, Reboot, DaemonRestarts
<1>2. /\ uciLive' \in {uciLive, uciSaved}
      /\ running' \in {running, uciSaved}
      /\ answered' \in BOOLEAN
      /\ lastGood' \in {NoProfile, uciLive, uciSaved}
    BY DEF Crash, Reboot, DaemonRestarts, Seeds, TypeOK
<1>3. TypeOK'
    <2>1. job' \in [Callers -> Job]
        BY <1>1, EmptyJobTyped
    <2>2. pc' \in [Callers -> Labels]
        BY <1>1 DEF Labels
    <2> QED  BY <1>1, <1>2, <2>1, <2>2 DEF TypeOK
<1>4. \A c \in Callers : pc'[c] = "idle"
    BY <1>1
<1>5. MutexInv'
    BY <1>4 DEF MutexInv, Inside, Replies
<1>6. VettedInv'
    BY <1>1, <1>2 DEF VettedInv, Vetted
<1>7. CallerInv'
    BY <1>4 DEF CallerInv, MintedInv, TargetInv, HealthyInv, ReplyInv
<1>8. HealthJudgesTarget' /\ HistorySound'
    BY <1>1, <1>4 DEF HealthJudgesTarget, HistorySound
<1> QED  BY <1>3, <1>5, <1>6, <1>7, <1>8

LEMMA InitIInv == Init => IInv
<1> SUFFICES ASSUME Init PROVE IInv
    OBVIOUS
<1> USE FlowAssumption DEF Init
<1>1. TypeOK
    <2>1. job \in [Callers -> Job] /\ pc \in [Callers -> Labels]
        BY EmptyJobTyped DEF Labels
    <2>2. history \in Seq(Record) /\ Len(history) <= HistorySize
        OBVIOUS
    <2>3. answered \in BOOLEAN
        OBVIOUS
    <2>4. lastGood \in Names \cup {NoProfile}
        BY DEF Seeds, Names
    <2> QED  BY <2>1, <2>2, <2>3, <2>4 DEF TypeOK, Names
<1>2. VettedInv
    BY DEF VettedInv, Vetted, Seeds
<1>3. \A c \in Callers : pc[c] = "idle"
    OBVIOUS
<1>4. MutexInv /\ CallerInv /\ HealthJudgesTarget
    BY <1>3 DEF MutexInv, Inside, Replies, CallerInv, MintedInv, TargetInv,
                HealthyInv, ReplyInv, HealthJudgesTarget
<1>5. HistorySound
    BY DEF HistorySound
<1> QED  BY <1>1, <1>2, <1>4, <1>5 DEF IInv

LEMMA NextIInv == IInv /\ [Next]_vars => IInv'
<1> SUFFICES ASSUME IInv, [Next]_vars PROVE IInv'
    OBVIOUS
<1>1. CASE \E s \in States : EditState(s)
    BY <1>1, EditStateStep
<1>2. ASSUME NEW c \in Callers, RequestApply(c) \/ Lock(c)
      PROVE  IInv'
    BY <1>2, RequestApplyStep, LockApplyStep, LockRollbackStep DEF Lock
<1>3. ASSUME NEW c \in Callers, NEW n \in 0..HistorySize, RequestRollback(c, n)
      PROVE  IInv'
    BY <1>3, RequestRollbackStep
<1>4. ASSUME NEW c \in Callers, Step(c)
      PROVE  IInv'
    BY <1>4, LoadAndGenerateStep, WriteProfileStep, ValidateStep,
       ActivateSetStep, ActivateCommitStep, ActivateRestartStep, HealthStep,
       ChooseRollbackStep, MarkHealthyStep, AppendHistoryStep, ReturnStep
       DEF Step
<1>5. ASSUME NEW d \in Probes, DetectRead(d) \/ DetectSeed(d)
      PROVE  IInv'
    BY <1>5, DetectReadStep, DetectSeedStep
<1>6. CASE Crash \/ Reboot
    BY <1>6, RestartStep
<1>7. CASE UNCHANGED vars
    BY <1>7 DEF vars, IInv, TypeOK, MutexInv, VettedInv, Vetted, CallerInv,
                MintedInv, TargetInv, HealthyInv, ReplyInv, OnRouter,
                HealthJudgesTarget, HistorySound
<1> QED  BY <1>1, <1>2, <1>3, <1>4, <1>5, <1>6, <1>7 DEF Next

(* The invariant of the apply flow, through crashes, power loss, failing   *)
(* steps and concurrent requests and diagnostics.                          *)
THEOREM FlowInvariant == Spec => []IInv
<1> QED  BY InitIInv, NextIInv, PTL DEF Spec

(* Every variable keeps its type; the history never exceeds HistorySize.   *)
THEOREM TypeCorrect == Spec => []TypeOK
<1>1. IInv => TypeOK
    BY DEF IInv
<1> QED  BY <1>1, FlowInvariant, PTL

(* Applyer.mu keeps one request's activation and health check apart from   *)
(* every other request's.                                                  *)
THEOREM HealthIsolated == Spec => []HealthJudgesTarget
<1>1. IInv => HealthJudgesTarget
    BY DEF IInv
<1> QED  BY <1>1, FlowInvariant, PTL

(* applied.json never names a profile that is missing, stale, refused by   *)
(* `mihomo -t` or never came up.                                           *)
THEOREM HistoryIsSound == Spec => []HistorySound
<1>1. IInv => HistorySound
    BY DEF IInv
<1> QED  BY <1>1, FlowInvariant, PTL

(* Nothing but the owner's profile or a validated one is ever selected,    *)
(* committed or run.                                                       *)
THEOREM OnlyValidatedSelected == Spec => []SelectedValidated
<1>1. IInv => SelectedValidated
    BY DEF IInv, TypeOK, VettedInv, Vetted, SelectedValidated, Exists
<1> QED  BY <1>1, FlowInvariant, PTL

(* What the handlers answer is true of the router when they answer.        *)
THEOREM RepliesAreHonest == Spec => []ReplyHonest
<1>1. IInv => ReplyHonest
    <2> SUFFICES ASSUME IInv, NEW c \in Callers
                 PROVE  /\ pc[c] = "ok" =>
                             /\ OnRouter(job[c].target)
                             /\ answered
                             /\ history[Len(history)].profile = running
                             /\ Pending <=> (files[running] # state)
                        /\ pc[c] = "rolledBack" =>
                             /\ OnRouter(job[c].target)
                             /\ answered
                             /\ running # job[c].name
                        /\ pc[c] = "rejected" => uciLive = job[c].prevUci
        BY DEF ReplyHonest
    <2>1. ReplyInv(c)
        BY DEF IInv, CallerInv
    <2> QED  BY <2>1 DEF ReplyInv, OnRouter, Pending
<1> QED  BY <1>1, FlowInvariant, PTL

(* A record enters the history only while its profile is the committed,    *)
(* running and answering one.                                              *)
THEOREM RecordsAreOfRunning == Spec => RecordsWhatRuns
<1>1. IInv /\ [Next]_vars =>
        [history' # history =>
           /\ answered
           /\ running = uciSaved
           /\ history'[Len(history')].profile = running]_vars
    <2> SUFFICES ASSUME IInv, Next, history' # history
                 PROVE  /\ answered
                        /\ running = uciSaved
                        /\ history'[Len(history')].profile = running
        BY DEF vars
    <2>1. PICK c \in Callers : AppendHistory(c)
        BY DEF Next, EditState, RequestApply, RequestRollback, Lock, LockApply,
               LockRollback, Step, LoadAndGenerate, WriteProfile, Validate,
               ActivateSet, ActivateCommit, ActivateRestart, Health,
               ChooseRollback, MarkHealthy, Return, DetectRead, DetectSeed,
               Crash, Reboot, DaemonRestarts
    <2>2. answered /\ running = uciSaved
        BY <2>1 DEF AppendHistory, IInv, CallerInv, HealthyInv,
                    HealthJudgesTarget, OnRouter
    <2> QED  BY <2>1, <2>2, AppendHistoryStep
<1> QED  BY <1>1, FlowInvariant, PTL DEF Spec, RecordsWhatRuns

-----------------------------------------------------------------------------
(* Without diagnostics requests and restarts only MarkHealthy writes       *)
(* lastGood, and then the automatic rollback can rely on it.               *)
Undisturbed == Probes = {} /\ MayCrash = FALSE

Applying(c) ==
    /\ job[c].ctx = "apply"
    /\ pc[c] \in {"load", "write", "validate", "set", "commit", "restart",
                  "health", "lastGood"}

LastGoodInv ==
    /\ HealthFailureRollsBack
    /\ \A c \in Callers :
         Applying(c) => /\ lastGood = job[c].prevGood
                        /\ pc[c] # "load" => lastGood # job[c].name

(* A caller that takes mu in Rollback acts for the user. *)
LEMMA LockRollbackContext ==
    ASSUME TypeOK, NEW c \in Callers, LockRollback(c), pc'[c] = "set"
    PROVE  job'[c].ctx = "user"
<1>1. PICK r : job'[c] = [Noted(job[c]) EXCEPT !.target = r.profile,
                                              !.hash = r.hash]
    BY DEF LockRollback, Goto, TypeOK
<1>2. Noted(job[c]) \in Job /\ Noted(job[c]).ctx = "user"
    BY NotedTyped, ContextTyped DEF LockRollback, Noted, Job
<1> QED  BY <1>1, <1>2 DEF Job

(* It is enough to look at the one caller a step moves. *)
LEMMA OneCallerLastGood ==
    ASSUME LastGoodInv, NEW c \in Callers,
           UNCHANGED lastGood,
           \A d \in Callers : d # c => pc'[d] = pc[d] /\ job'[d] = job[d],
           pc'[c] # "noRollback" \/ job'[c].prevGood = NoProfile,
           Applying(c)' => /\ lastGood = job'[c].prevGood
                           /\ pc'[c] # "load" => lastGood # job'[c].name
    PROVE  LastGoodInv'
BY DEF LastGoodInv, HealthFailureRollsBack, Applying

(* lastGood stays put while an apply runs, up to its own MarkHealthy;      *)
(* the profile being applied is fresh, so it is never the last good one    *)
(* before its own health check.                                            *)
LEMMA NextLastGoodInv ==
    ASSUME Undisturbed, IInv, LastGoodInv, [Next]_vars
    PROVE  LastGoodInv'
<1> USE FlowAssumption DEF router, ghosts
<1>1. ASSUME NEW c \in Callers, LockApply(c)
      PROVE  LastGoodInv'
    <2>1. \A d \in Callers : d # c => pc'[d] = pc[d] /\ job'[d] = job[d]
        BY <1>1 DEF LockApply, Goto, IInv, TypeOK
    <2>2. pc'[c] = "load" /\ job'[c] = Noted(job[c])
        BY <1>1 DEF LockApply, Goto, IInv, TypeOK
    <2>3. job'[c].prevGood = lastGood
        BY <2>2, ContextTyped DEF Noted
    <2>4. UNCHANGED lastGood
        BY <1>1 DEF LockApply
    <2> QED  BY <2>1, <2>2, <2>3, <2>4
             DEF LastGoodInv, HealthFailureRollsBack, Applying
<1>2. ASSUME NEW c \in Callers, LoadAndGenerate(c)
      PROVE  LastGoodInv'
    <2>1. \A d \in Callers : d # c => pc'[d] = pc[d] /\ job'[d] = job[d]
        BY <1>2 DEF LoadAndGenerate, Goto, IInv, TypeOK
    <2>2. UNCHANGED lastGood /\ pc[c] = "load"
        BY <1>2 DEF LoadAndGenerate
    <2>3. CASE pc'[c] = "rejected"
        BY <2>1, <2>2, <2>3
           DEF LastGoodInv, HealthFailureRollsBack, Applying
    <2>4. ASSUME NEW p \in Profiles, files[p] = NoState, pc'[c] = "write",
                 job'[c] = [job[c] EXCEPT !.name = p, !.hash = state,
                                          !.target = p]
          PROVE  LastGoodInv'
        <3>1. job'[c].name = p /\ job'[c].prevGood = job[c].prevGood
            BY <2>4, ContextTyped DEF Job, IInv
        <3>2. lastGood # p
            BY <2>4 DEF IInv, VettedInv, Vetted
        <3>3. lastGood = job[c].prevGood
            BY <2>2 DEF LastGoodInv, Applying, IInv, CallerInv, MintedInv
        <3> QED  BY <2>1, <2>2, <2>4, <3>1, <3>2, <3>3, OneCallerLastGood
    <2> QED  BY <1>2, <2>3, <2>4 DEF LoadAndGenerate, Goto, IInv, TypeOK
<1>3. ASSUME NEW c \in Callers, ChooseRollback(c)
      PROVE  LastGoodInv'
    <2>1. \A d \in Callers : d # c => pc'[d] = pc[d] /\ job'[d] = job[d]
        BY <1>3 DEF ChooseRollback, Goto, IInv, TypeOK
    <2>2. UNCHANGED lastGood /\ pc[c] = "lastGood"
        BY <1>3 DEF ChooseRollback
    <2>3. job[c].ctx = "apply"
        BY <2>2 DEF IInv, CallerInv, HealthyInv
    <2>4. lastGood = job[c].prevGood /\ lastGood # job[c].name
        BY <2>2, <2>3 DEF LastGoodInv, Applying
    <2>5. CASE pc'[c] = "noRollback" /\ job'[c] = job[c] /\ lastGood = NoProfile
        BY <2>1, <2>2, <2>4, <2>5
           DEF LastGoodInv, HealthFailureRollsBack, Applying
    <2>6. CASE /\ pc'[c] = "set"
               /\ job'[c] = [job[c] EXCEPT !.ctx = "auto", !.target = lastGood]
        <3>1. job'[c].ctx = "auto"
            BY <2>6, ContextTyped DEF Job, IInv
        <3> QED  BY <2>1, <2>2, <2>6, <3>1, OneCallerLastGood DEF Applying
    <2> QED  BY <1>3, <2>4, <2>5, <2>6 DEF ChooseRollback, Goto, IInv, TypeOK
<1>4. ASSUME NEW c \in Callers, MarkHealthy(c)
      PROVE  LastGoodInv'
    <2>1. /\ pc[c] = "mark" /\ pc'[c] = "append"
          /\ lastGood' = job[c].name
          /\ UNCHANGED job
          /\ \A d \in Callers : d # c => pc'[d] = pc[d] /\ pc[d] \notin Inside
        BY <1>4, OthersOutside DEF MarkHealthy, Goto, IInv, TypeOK, Inside
    <2> QED  BY <2>1
             DEF LastGoodInv, HealthFailureRollsBack,
                 Applying, Inside, Replies
<1>5. ASSUME NEW c \in Callers, Health(c)
      PROVE  LastGoodInv'
    <2>1. /\ UNCHANGED <<lastGood, job>>
          /\ \A d \in Callers : d # c => pc'[d] = pc[d]
          /\ pc[c] = "health"
          /\ pc'[c] \in {OnHealthy[job[c].ctx], OnTimeout[job[c].ctx]}
        BY <1>5 DEF Health, Goto, IInv, TypeOK
    <2>2. pc'[c] # "noRollback"
        BY <2>1, ContextTyped, ContextLabels DEF IInv, Continues
    <2> QED  BY <2>1, <2>2
             DEF LastGoodInv, HealthFailureRollsBack, Applying
<1>6. ASSUME NEW c \in Callers,
             \/ WriteProfile(c) \/ Validate(c) \/ ActivateSet(c)
             \/ ActivateCommit(c) \/ ActivateRestart(c)
      PROVE  LastGoodInv'
    <2>1. OnActivateError[job[c].ctx] \in {"activateFailed", "rollbackFailed"}
        BY ContextTyped, ContextLabels DEF IInv, Continues
    <2>2. /\ UNCHANGED <<lastGood, job>>
          /\ \A d \in Callers : d # c => pc'[d] = pc[d]
          /\ pc[c] \in {"write", "validate", "set", "commit", "restart"}
          /\ pc'[c] # "noRollback" /\ pc'[c] # "load"
        BY <1>6, <2>1 DEF WriteProfile, Validate, ActivateSet, ActivateCommit,
                          ActivateRestart, Goto, IInv, TypeOK
    <2> QED  BY <2>2
             DEF LastGoodInv, HealthFailureRollsBack, Applying
<1>7. ASSUME NEW c \in Callers,
             \/ RequestApply(c) \/ LockRollback(c) \/ AppendHistory(c)
             \/ Return(c)
             \/ \E n \in 0..HistorySize : RequestRollback(c, n)
      PROVE  LastGoodInv'
    <2>1. /\ UNCHANGED lastGood
          /\ \A d \in Callers : d # c => pc'[d] = pc[d] /\ job'[d] = job[d]
          /\ pc'[c] \in {"idle", "wait", "set", "rejected", "ok", "unrecorded"}
        <3>1. CASE RequestApply(c) \/ \E n \in 0..HistorySize : RequestRollback(c, n)
            BY <3>1 DEF RequestApply, RequestRollback, Goto, IInv, TypeOK
        <3>2. CASE LockRollback(c)
            BY <3>2 DEF LockRollback, Goto, IInv, TypeOK
        <3>3. CASE AppendHistory(c) \/ Return(c)
            BY <3>3 DEF AppendHistory, Return, Goto, IInv, TypeOK
        <3> QED  BY <1>7, <3>1, <3>2, <3>3
    <2>2. pc'[c] = "set" => job'[c].ctx = "user"
        <3>1. CASE LockRollback(c)
            BY <3>1, LockRollbackContext DEF IInv
        <3>2. CASE ~LockRollback(c)
            BY <1>7, <3>2 DEF RequestApply, RequestRollback, AppendHistory,
                              Return, Goto, IInv, TypeOK
        <3> QED  BY <3>1, <3>2
    <2> QED  BY <2>1, <2>2
             DEF LastGoodInv, HealthFailureRollsBack, Applying
<1>8. CASE (\E s \in States : EditState(s)) \/ UNCHANGED vars
    BY <1>8 DEF EditState, vars, LastGoodInv, HealthFailureRollsBack, Applying
<1>9. ~Crash /\ ~Reboot /\ ~\E d \in Probes : DetectRead(d) \/ DetectSeed(d)
    BY DEF Crash, Reboot, DaemonRestarts, Undisturbed
<1> QED  BY <1>1, <1>2, <1>3, <1>4, <1>5, <1>6, <1>7, <1>8, <1>9
         DEF Next, Lock, Step

LEMMA InitLastGoodInv == Init => LastGoodInv
BY DEF Init, LastGoodInv, HealthFailureRollsBack, Applying,
       Seeds

LEMMA LastGoodInvariant ==
    ASSUME Undisturbed
    PROVE  Spec => []LastGoodInv
<1>1. IInv /\ LastGoodInv /\ [Next]_vars => LastGoodInv'
    BY NextLastGoodInv
<1> QED  BY <1>1, InitLastGoodInv, FlowInvariant, PTL DEF Spec

(* FR-6.4, without diagnostics and restarts: whatever fails and whoever waits, an  *)
(* apply whose health check fails goes back to the last good profile that  *)
(* was known when it began.  DiagnosticsRace shows that a diagnostics      *)
(* request breaks it.                                                      *)
THEOREM FailedHealthRollsBack ==
    ASSUME Undisturbed
    PROVE  Spec => []HealthFailureRollsBack
<1>1. LastGoodInv => HealthFailureRollsBack
    BY DEF LastGoodInv
<1> QED  BY <1>1, LastGoodInvariant, PTL
=============================================================================
