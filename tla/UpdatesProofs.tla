------------------------------ MODULE UpdatesProofs ------------------------------
(***************************************************************************)
(* Proofs about Updates and Fetch, for any number of Starts, Stops,        *)
(* sources, goroutines and requests:                                       *)
(*   at most one loop: the only one that can run is the one whose stop     *)
(*   channel the scheduler keeps, because Stop never forgets the channel,  *)
(*   which is also why a Start after a Stop does nothing;                  *)
(*   what the recursive functions of Fetch compute;                        *)
(*   types; and that a failed fetch takes no server away.                  *)
(***************************************************************************)
EXTENDS Updates, NatFacts

(* Every loop but that of stopCh is off. *)
LoopOwned ==
    /\ DOMAIN pc = Threads
    /\ \A l \in Loops : pc[l] # "off" => l = stopCh

LEMMA ReturnOwned ==
    ASSUME LoopOwned, NEW t \in Threads, pc[t] # "off", Return(t), UNCHANGED stopCh
    PROVE  LoopOwned'
BY DEF LoopOwned, Return

LEMMA InitOwned == Init => LoopOwned
BY DEF Init, LoopOwned, Threads

LEMMA NextOwned == LoopOwned /\ [Next]_vars => LoopOwned'
<1> SUFFICES ASSUME LoopOwned, [Next]_vars PROVE LoopOwned' OBVIOUS
<1> USE UpdatesAssumption
(* A goroutine that runs moves, or none does. *)
<1>q. ASSUME stopCh' = stopCh, pc' = pc PROVE LoopOwned' BY <1>q DEF LoopOwned
<1>m. ASSUME NEW t \in Threads, NEW where, t = User \/ pc[t] # "off",
             pc' = [pc EXCEPT ![t] = where], stopCh' = stopCh
      PROVE LoopOwned'
    BY <1>m DEF LoopOwned, Threads
<1>t. Loops \subseteq Threads /\ User \in Threads BY DEF Threads
<1>1. ASSUME NEW l \in Loops, Start(l) PROVE LoopOwned'
    <2>1. \A k \in Loops : pc[k] = "off" BY <1>1 DEF LoopOwned, Start
    <2>2. stopCh' = l /\ pc' = [pc EXCEPT ![l] = "load"] BY <1>1 DEF Start
    <2> QED BY <2>1, <2>2 DEF LoopOwned
<1>2. ASSUME NEW l \in Loops, StopLoop(l) \/ TickLoop(l) PROVE LoopOwned'
    BY <1>2, <1>m, <1>t DEF StopLoop, TickLoop, Move, svars
<1>3. CASE Stop \/ Cancel BY <1>3, <1>q DEF Stop, Cancel, svars, rvars
<1>4. ASSUME NEW m, Call(m) PROVE LoopOwned' BY <1>4, <1>m, <1>t DEF Call, svars
<1>5. ASSUME NEW t \in Threads, Load(t) PROVE LoopOwned'
    <2>1. CASE Due(disk, mode[t]) = {}
        BY <1>5, <2>1, ReturnOwned DEF Load, svars
    <2>2. CASE Due(disk, mode[t]) # {}
        BY <1>5, <2>2, <1>m DEF Load, svars
    <2> QED BY <2>1, <2>2
<1>6. ASSUME NEW t \in Threads, LoadFails(t) \/ Save(t) PROVE LoopOwned'
    BY <1>6, ReturnOwned DEF LoadFails, Save, svars
<1>7. ASSUME NEW t \in Threads, Succeed(t) \/ Fail(t) PROVE LoopOwned'
    <2>1. pc[t] = "fetch" BY <1>7 DEF Succeed, Fail
    <2>2. \E row : Fetched(t, row) BY <1>7 DEF Succeed, Fail
    <2> QED BY <2>1, <2>2, <1>m DEF Fetched, svars
<1>8. ASSUME NEW d, Change(d) PROVE LoopOwned'
    BY <1>8, <1>q DEF Change, svars, rvars
<1>9. CASE Handler
    <2>1. SaveChange => LoopOwned' BY <1>q DEF SaveChange, svars, rvars
    <2> QED BY <1>8, <1>9, <2>1 DEF Handler, AddSource, PatchSource, DeleteSource
<1>10. CASE Age BY <1>10, <1>q DEF Age, svars
<1>11. CASE UNCHANGED vars BY <1>11, <1>q DEF vars, svars, rvars
<1> QED BY <1>1, <1>2, <1>3, <1>4, <1>5, <1>6, <1>7, <1>9, <1>10, <1>11
        DEF Next, Loop, Round

(* However often Start and Stop are called, one loop at most runs rounds.  *)
THEOREM OneLoopRuns == Spec => []OneLoop
<1>1. LoopOwned => OneLoop
    <2> SUFFICES ASSUME LoopOwned PROVE OneLoop OBVIOUS
    <2> DEFINE Running == {l \in Loops : pc[l] # "off"}
    <2>1. Running \subseteq {stopCh} BY DEF LoopOwned
    <2>2. IsFiniteSet({stopCh}) /\ Cardinality({stopCh}) = 1 BY FS_Singleton
    <2>3. Cardinality(Running) <= 1 BY <2>1, <2>2, FS_Subset
    <2> QED BY <2>3 DEF OneLoop
<1> QED BY <1>1, InitOwned, NextOwned, PTL DEF Spec

-----------------------------------------------------------------------------
(* Back-off: what the recursive doubling of recordFailure computes.        *)

Steps(n) ==
    IF n = 1 THEN 30 ELSE IF n = 2 THEN 60 ELSE IF n = 3 THEN 120
    ELSE IF n = 4 THEN 240 ELSE IF n = 5 THEN 480 ELSE IF n = 6 THEN 960
    ELSE 1920

(* The delay after n failures in a row: the function that Delay defines is *)
(* the one that Steps tabulates.                                           *)
LEMMA DelayIs ==
    ASSUME NEW failures \in Nat \ {0}
    PROVE  Delay(failures) = IF failures <= 6 THEN Steps(failures) ELSE 1800
<1> DEFINE Eq(f) == f = [n \in 1..failures |-> IF n = 1 THEN 30 ELSE Doubled(f[n - 1])]
           g == [n \in 1..failures |-> Steps(n)]
           d == CHOOSE f : Eq(f)
<1>1. Delay(failures) = Min({d[failures], 1800})
    BY DEF Delay
<1>2. Eq(g)
    <2>1. \A n \in 1..failures : n # 1 => n - 1 \in 1..failures /\ Steps(n) = Doubled(Steps(n - 1))
        BY DEF Steps, Doubled
    <2>2. ASSUME NEW n \in 1..failures
          PROVE  Steps(n) = IF n = 1 THEN 30 ELSE Doubled(g[n - 1])
        <3>1. CASE n = 1
            BY <3>1 DEF Steps
        <3>2. CASE n # 1
            <4>1. g[n - 1] = Steps(n - 1)
                BY <2>1, <3>2
            <4> QED BY <2>1, <3>2, <4>1
        <3> QED BY <3>1, <3>2
    <2> QED BY <2>2
<1>3. Eq(d)
    <2> HIDE DEF g, Eq
    <2> QED BY <1>2
<1>4. \A n \in 1..failures : d[n] = IF n = 1 THEN 30 ELSE Doubled(d[n - 1])
    <2> HIDE DEF d
    <2> QED BY <1>3
<1> HIDE DEF d
<1> DEFINE S == {n \in Nat : n + 1 \in 1..failures => d[n + 1] = Steps(n + 1)}
<1>5. \A n \in Nat : n \in S
    <2>1. 0 \in S
        BY <1>4 DEF Steps
    <2>2. ASSUME NEW n \in Nat, n \in S, n + 2 \in 1..failures PROVE d[n + 2] = Steps(n + 2)
        <3>1. d[n + 1] = Steps(n + 1)
            BY <2>2
        <3>2. d[n + 2] = Doubled(d[n + 1])
            BY <1>4, <2>2
        <3> QED BY <3>1, <3>2 DEF Steps, Doubled
    <2>3. \A n \in Nat : n \in S => n + 1 \in S
        BY <2>2
    <2> HIDE DEF S
    <2> QED BY <2>1, <2>3, SetInduction
<1>6. d[failures] = Steps(failures)
    BY <1>5
<1>7. \A a \in Int : Min({a, 1800}) = IF a <= 1800 THEN a ELSE 1800
    BY DEF Min
<1> QED BY <1>1, <1>6, <1>7 DEF Steps

(* However many failures in a row (the table of Misdelayed ends at 30):    *)
(* the delay is never below half a minute, never above half an hour and    *)
(* never goes back.                                                        *)
THEOREM BackOffCapped ==
    ASSUME NEW failures \in Nat \ {0}
    PROVE  /\ Delay(failures) \in 30..1800
           /\ Delay(failures) <= Delay(failures + 1)
           /\ failures > 6 => Delay(failures) = 1800
<1>1. /\ Delay(failures) = IF failures <= 6 THEN Steps(failures) ELSE 1800
      /\ Delay(failures + 1) = IF failures + 1 <= 6 THEN Steps(failures + 1) ELSE 1800
    BY DelayIs
<1> QED BY <1>1 DEF Steps

(* It doubles up to the sixth failure, is capped from the seventh on and   *)
(* never goes back.                                                        *)
LEMMA DelayRight == Misdelayed = {}
<1> SUFFICES ASSUME NEW n \in 1..30
             PROVE  /\ Delay(n) = IF n <= 6 THEN <<30, 60, 120, 240, 480, 960>>[n] ELSE 1800
                    /\ ~(Delay(n) > Delay(n + 1))
    BY DEF Misdelayed
<1>1. \A m \in 1..31 : Delay(m) = IF m <= 6 THEN Steps(m) ELSE 1800
    BY DelayIs
<1>2. n \in 1..31 /\ n + 1 \in 1..31
    OBVIOUS
<1>3. CASE n > 6
    <2>1. Delay(n) = 1800 /\ Delay(n + 1) = 1800
        BY <1>1, <1>2, <1>3
    <2> QED BY <2>1, <1>3
<1>4. CASE n <= 6
    <2>1. n \in {1, 2, 3, 4, 5, 6}
        BY <1>4
    <2>2. Delay(n) = Steps(n) /\ Delay(n + 1) = IF n + 1 <= 6 THEN Steps(n + 1) ELSE 1800
        BY <1>1, <1>2, <1>4
    <2>3. Steps(n) = <<30, 60, 120, 240, 480, 960>>[n]
        BY <2>1 DEF Steps
    <2>4. Steps(n) <= (IF n + 1 <= 6 THEN Steps(n + 1) ELSE 1800)
        BY <2>1 DEF Steps
    <2>5. Steps(n) \in Nat /\ Steps(n + 1) \in Nat
        BY DEF Steps
    <2> HIDE DEF Steps
    <2>6. ~(Delay(n) > Delay(n + 1))
        BY <2>2, <2>4, <2>5
    <2> QED BY <1>4, <2>2, <2>3, <2>6
<1> QED BY <1>3, <1>4

-----------------------------------------------------------------------------
(* A fetch, whatever the answers and whenever its context ends: the        *)
(* recursion comes from the first request to the first one that ends the   *)
(* loop, and from there the promises are read off.                         *)

Last(c) == (Retries + 1) * c

(* Where the loop ends: behind the last request, before an attempt that    *)
(* the context forbids, at an answer after which it does not go on.        *)
EndsAt(c, answers, cut) ==
    {k \in 1..(Last(c) + 1) : \/ k = Last(c) + 1
                              \/ CutBefore(c, k, cut)
                              \/ ~GoesOn(c, k, answers[k])}

Result(c, answers, cut, k) ==
    IF k <= Last(c) /\ CutBefore(c, k, cut)
    THEN [outcome |-> "cancelled", requests |-> k - 1]
    ELSE [outcome  |-> Classify(answers[Min({k, Last(c)})]),
          requests |-> Min({k, Last(c)})]

LEMMA FetchEnds ==
    ASSUME NEW c \in {1, 2}, NEW answers \in [Requests(c) -> Answers],
           NEW cut \in 0..Retries
    PROVE  \E s \in EndsAt(c, answers, cut) :
              /\ \A k \in EndsAt(c, answers, cut) : s <= k
              /\ Fetch(c, answers, cut) = Result(c, answers, cut, s)
<1> DEFINE last == Last(c)
           Ends == EndsAt(c, answers, cut)
           R(k) == Result(c, answers, cut, k)
           (* Where a fetch that has come to the n-th request ends. *)
           EndOf(n) == Min({k \in Ends : k >= n})
           Body(n, next) == IF n \in Ends THEN R(n) ELSE next
           Eq(f) == f = [n \in 1..(last + 1) |-> Body(n, f[n + 1])]
           g == [n \in 1..(last + 1) |-> R(EndOf(n))]
           from == CHOOSE f : Eq(f)
<1>1. last \in {3, 6} /\ Requests(c) = 1..last /\ Max(Requests(c)) = last
    <2>1. Requests(c) = 1..(3 * c) /\ 3 * c \in {3, 6} /\ last = 3 * c
        BY DEF Requests, Retries, Last
    <2>2. \A k \in {3, 6} : Max(1..k) = k
        BY DEF Max
    <2> QED BY <2>1, <2>2
<1>2. Fetch(c, answers, cut) = from[1]
    <2> DEFINE Old(n, next) ==
                 IF n <= last /\ CutBefore(c, n, cut)
                 THEN [outcome |-> "cancelled", requests |-> n - 1]
                 ELSE IF n <= last /\ GoesOn(c, n, answers[n]) THEN next
                 ELSE [outcome  |-> Classify(answers[Min({n, last})]),
                       requests |-> Min({n, last})]
    <2>1. ASSUME NEW n \in 1..(last + 1), NEW next PROVE Old(n, next) = Body(n, next)
        <3>1. n \in Ends <=> n = last + 1 \/ CutBefore(c, n, cut) \/ ~GoesOn(c, n, answers[n])
            BY <2>1 DEF EndsAt
        <3>2. n <= last <=> n # last + 1
            BY <1>1, <2>1
        <3> QED BY <3>1, <3>2 DEF Result
    <2>2. \A f : [n \in 1..(last + 1) |-> Old(n, f[n + 1])]
                 = [n \in 1..(last + 1) |-> Body(n, f[n + 1])]
        <3> HIDE DEF Old, Body, last
        <3> QED BY <2>1
    <2> DEFINE EqOld(f) == f = [n \in 1..(last + 1) |-> Old(n, f[n + 1])]
    <2>3. \A f : EqOld(f) <=> Eq(f)
        <3> HIDE DEF Old, Body, last
        <3> QED BY <2>2
    <2>4. Fetch(c, answers, cut) = (CHOOSE f : EqOld(f))[1]
        <3> HIDE DEF last
        <3> QED BY <1>1 DEF Fetch
    <2>5. (CHOOSE f : EqOld(f)) = (CHOOSE f : Eq(f))
        <3> HIDE DEF EqOld, Eq
        <3> QED BY <2>3
    <2> QED BY <2>4, <2>5
<1>3. Ends \subseteq 1..(last + 1) /\ last + 1 \in Ends
    BY <1>1 DEF EndsAt
<1> HIDE DEF last, Ends, R
<1>n. last \in Nat /\ \A k \in 1..(last + 1) : k \in Nat /\ 1 <= k /\ k <= last + 1
    BY <1>1
<1>s. \A k \in Ends : k \in Nat /\ 1 <= k /\ k <= last + 1
    BY <1>3, <1>n
<1>4. ASSUME NEW n \in 1..(last + 1)
      PROVE  EndOf(n) \in Ends /\ EndOf(n) >= n /\ \A k \in Ends : k >= n => EndOf(n) <= k
    <2> DEFINE E == {k \in Ends : k >= n}
    <2>1. E \in SUBSET Nat /\ last + 1 \in E
        BY <1>3, <1>n, <1>s
    <2>2. Min(E) \in E /\ \A k \in E : Min(E) <= k
        <3> HIDE DEF E
        <3>1. E # {}
            BY <2>1
        <3> QED BY <2>1, <3>1, LeastIs
    <2> QED BY <2>2
<1> HIDE DEF EndOf
<1>5. ASSUME NEW n \in 1..(last + 1), n \in Ends PROVE EndOf(n) = n
    <2>1. EndOf(n) \in Ends /\ EndOf(n) >= n /\ (n >= n => EndOf(n) <= n)
        BY <1>4, <1>5
    <2>2. n \in Nat /\ n >= n /\ EndOf(n) \in Nat
        BY <1>n, <1>s, <2>1
    <2> QED BY <2>1, <2>2
<1>6. ASSUME NEW n \in 1..(last + 1), n \notin Ends
      PROVE  n + 1 \in 1..(last + 1) /\ EndOf(n + 1) = EndOf(n)
    <2>1. n + 1 \in 1..(last + 1)
        BY <1>3, <1>n, <1>6
    <2>0. EndOf(n) \in Ends /\ EndOf(n) >= n /\ EndOf(n) # n
        BY <1>4, <1>6
    <2>2. /\ EndOf(n) \in Ends /\ EndOf(n) \in Nat /\ EndOf(n) >= n + 1
        BY <1>n, <1>s, <1>6, <2>0
    <2>5. EndOf(n + 1) \in Ends /\ EndOf(n + 1) >= n + 1
        BY <1>4, <2>1
    <2>6. EndOf(n + 1) \in Nat /\ EndOf(n + 1) >= n
        BY <1>n, <1>s, <2>1, <2>5
    <2>3. EndOf(n) <= EndOf(n + 1) /\ EndOf(n + 1) <= EndOf(n)
        BY <1>4, <2>1, <2>2, <2>5, <2>6
    <2> QED BY <2>1, <2>2, <2>3, <2>6
<1>7. Eq(g)
    <2>1. ASSUME NEW n \in 1..(last + 1) PROVE R(EndOf(n)) = Body(n, g[n + 1])
        BY <1>5, <1>6
    <2> HIDE DEF Body
    <2> QED BY <2>1
<1>8. Eq(from)
    <2> HIDE DEF Eq, g
    <2> QED BY <1>7
<1>9. \A n \in 1..(last + 1) : from[n] = Body(n, from[n + 1])
    <2> HIDE DEF from, Body
    <2> QED BY <1>8
<1> HIDE DEF from
<1> DEFINE S == {m \in Nat : m <= last => from[last + 1 - m] = R(EndOf(last + 1 - m))}
<1>10. \A m \in Nat : m \in S
    <2>1. 0 \in S
        <3>1. last + 1 \in 1..(last + 1) /\ last + 1 - 0 = last + 1
            BY <1>1
        <3> QED BY <1>3, <1>5, <1>9, <3>1
    <2>2. ASSUME NEW m \in Nat, m \in S PROVE m + 1 \in S
        <3> SUFFICES ASSUME m + 1 <= last
                     PROVE  from[last + 1 - (m + 1)] = R(EndOf(last + 1 - (m + 1)))
            OBVIOUS
        <3> DEFINE n == last + 1 - (m + 1)
        <3>1. n \in 1..(last + 1) /\ n + 1 = last + 1 - m /\ m <= last
            BY <1>1
        <3>2. from[n + 1] = R(EndOf(n + 1))
            BY <2>2, <3>1
        <3> HIDE DEF n
        <3>3. from[n] = R(EndOf(n))
            BY <1>5, <1>6, <1>9, <3>1, <3>2
        <3> QED BY <3>3 DEF n
    <2> HIDE DEF S
    <2> QED BY <2>1, <2>2, SetInduction
<1>11. from[1] = R(EndOf(1)) /\ 1 \in 1..(last + 1)
    <2>1. last \in Nat /\ last <= last /\ last + 1 - last = 1 /\ 1 \in 1..(last + 1)
        BY <1>1
    <2>2. last \in S
        BY <1>10, <2>1
    <2> QED BY <2>1, <2>2
<1>12. /\ EndOf(1) \in Ends
       /\ \A k \in Ends : EndOf(1) <= k
    <2>1. \A k \in Ends : k >= 1
        BY <1>1, <1>3
    <2> QED BY <1>4, <1>11, <2>1
<1> QED BY <1>2, <1>11, <1>12 DEF Ends, R

(* Passing trouble costs no answer, and a definitive one is reported.      *)
LEMMA FetchPromised ==
    ASSUME NEW c \in {1, 2}, NEW answers \in [Requests(c) -> Answers],
           NEW cut \in 0..Retries
    PROVE  Promised(c, answers, cut)
<1> DEFINE f     == Fetch(c, answers, cut)
           asked == IF cut = 0 THEN Requests(c) ELSE 1..(cut * c)
           last  == Last(c)
           Ends  == EndsAt(c, answers, cut)
<1>1. PICK s \in Ends : (\A k \in Ends : s <= k) /\ f = Result(c, answers, cut, s)
    BY FetchEnds
<1>2. last \in {3, 6} /\ Requests(c) = 1..last /\ asked \subseteq 1..last
    BY DEF Requests, Retries, Last
<1>3. s \in 1..(last + 1)
    BY DEF EndsAt
<1>4. \A k \in 1..last : Min({k, last}) = k
    BY <1>2 DEF Min
<1>5. Min({last + 1, last}) = last
    BY <1>2 DEF Min
<1> HIDE DEF f, last
<1>6. ASSUME NEW n \in asked, answers[n] = "200",
             \A k \in 1..(n - 1) : Passing(c, k, answers[k])
      PROVE  f.outcome = "200"
    <2>1. n \in 1..last
        BY <1>2
    <2>2. n \in Ends
        BY <1>2, <1>6, <2>1 DEF EndsAt, GoesOn, last
    <2>3. s <= n /\ s \in 1..last
        BY <1>1, <1>2, <1>3, <2>1, <2>2
    <2>4. ~CutBefore(c, s, cut)
        <3>1. CASE cut = 0
            BY <3>1 DEF CutBefore
        <3>2. CASE cut \in {1, 2}
            <4>1. n <= cut * c /\ n \in Nat
                BY <3>2
            <4> QED BY <1>2, <2>3, <3>2, <4>1 DEF CutBefore
        <3> QED BY <3>1, <3>2 DEF Retries
    <2>5. ~GoesOn(c, s, answers[s])
        BY <1>2, <2>3, <2>4 DEF EndsAt, last
    <2>6. \A k \in 1..(n - 1) : GoesOn(c, k, answers[k])
        BY <1>6 DEF Passing, GoesOn
    <2>7. s = n
        BY <1>2, <2>1, <2>3, <2>5, <2>6
    <2> QED BY <1>1, <1>4, <1>6, <2>1, <2>4, <2>7 DEF Result, Classify, last
<1>7. ASSUME NEW n \in 1..f.requests, answers[n] \in Definitive, ~Mihomo(c, n)
      PROVE  n = f.requests /\ f.outcome = Classify(answers[n])
    <2>1. f.requests \in 0..last /\ f.requests <= s
        <3>1. CASE s \in 1..last
            BY <1>1, <1>2, <1>4, <3>1 DEF Result, last
        <3>2. CASE s = last + 1
            BY <1>1, <1>2, <1>5, <3>2 DEF Result, last
        <3> QED BY <1>2, <1>3, <3>1, <3>2
    <2>2. n \in 1..last /\ n <= s
        BY <1>2, <1>3, <2>1
    <2>3. n \in Ends
        BY <1>2, <1>7, <2>2 DEF EndsAt, GoesOn, Definitive, last
    <2>4. s = n
        BY <1>1, <1>2, <1>3, <2>2, <2>3
    <2>5. ~CutBefore(c, s, cut)
        <3> SUFFICES ASSUME CutBefore(c, s, cut) PROVE FALSE
            OBVIOUS
        <3>1. f.requests = s - 1
            BY <1>1, <1>2, <2>2, <2>4 DEF Result, last
        <3> QED BY <1>2, <2>1, <2>2, <2>4, <3>1
    <2> QED BY <1>1, <1>4, <2>2, <2>4, <2>5 DEF Result, last
<1> QED BY <1>6, <1>7 DEF Promised, f

(* The delays are right, so they are in every state.                       *)
THEOREM BackOffBounded == Spec => []DelayBounded
<1>1. DelayBounded
    BY DelayRight DEF DelayBounded
<1> QED BY <1>1, PTL

(* So are the outcomes of a fetch, for each sequence of answers.           *)
THEOREM FetchPromises == Spec => []FetchKeepsPromises
<1>1. FetchKeepsPromises
    BY FetchPromised DEF FetchKeepsPromises, Unmet
<1> QED BY <1>1, PTL

-----------------------------------------------------------------------------
(* Types.  A round that fetches has something to fetch, and it keeps what  *)
(* it has still to fetch within its own copy.                              *)

TypeInv ==
    /\ TypeOK
    /\ user \in BOOLEAN
    /\ \A t \in Threads : pc[t] = "fetch" => todo[t] # {}

LEMMA SourcesNat == Sources \in SUBSET Nat
<1>1. Cardinality(Sources) \in Nat
    BY UpdatesAssumption, FS_CardinalityType
<1> QED BY <1>1, UpdatesAssumption

(* A later failure waits no less, and what Wait(MaxFail) bounds.           *)
LEMMA WaitBounded ==
    /\ MaxWait \in Nat /\ Interval <= MaxWait
    /\ \A n \in 1..MaxFail : Wait(n) \in Nat /\ Wait(n) <= MaxWait
<1> USE UpdatesAssumption
<1> DEFINE D(n) == IF n <= 6 THEN Steps(n) ELSE 1800
<1>1. \A n \in Nat \ {0} : Wait(n) = D(n) \div 30
    BY DelayIs DEF Wait
<1>2. \A n \in Nat \ {0} : D(n) \div 30 = IF n = 1 THEN 1 ELSE IF n = 2 THEN 2
          ELSE IF n = 3 THEN 4 ELSE IF n = 4 THEN 8 ELSE IF n = 5 THEN 16
          ELSE IF n = 6 THEN 32 ELSE 60
    BY DEF Steps
<1> HIDE DEF D
<1>3. \A n \in Nat \ {0} : Wait(n) \in Nat
    BY <1>1, <1>2
<1>4. \A n \in 1..MaxFail : Wait(n) <= Wait(MaxFail)
    BY <1>1, <1>2
<1>5. \A a, b \in Nat : Max({a, b}) \in Nat /\ a <= Max({a, b}) /\ b <= Max({a, b})
    BY DEF Max
<1>6. MaxWait \in Nat /\ Interval <= MaxWait /\ Wait(MaxFail) <= MaxWait
    BY <1>3, <1>5 DEF MaxWait
<1> HIDE DEF Wait
<1> QED BY <1>3, <1>4, <1>6

LEMMA CappedIs ==
    \A n, max \in Nat : Capped(n, max) = IF n <= max THEN n ELSE max
BY DEF Capped, Min

(* A row that a fetch or a request changes. *)
LEMMA RowEdits ==
    ASSUME NEW row \in SourceRow, NEW on \in BOOLEAN, NEW n \in 0..MaxFail,
           NEW w \in 0..MaxWait, NEW m \in 0..Gone
    PROVE  /\ [row EXCEPT !.on = on, !.wait = w] \in SourceRow
           /\ [row EXCEPT !.fails = n, !.wait = w] \in SourceRow
           /\ [row EXCEPT !.fails = n, !.wait = w, !.misses = m] \in SourceRow
           /\ row.fails \in 0..MaxFail /\ row.misses \in 0..Gone
<1> DEFINE F == 0..MaxFail
           W == 0..MaxWait
           M == 0..Gone
<1>1. SourceRow = [on : BOOLEAN, fails : F, wait : W, misses : M]
    BY DEF SourceRow
<1>2. n \in F /\ w \in W /\ m \in M
    OBVIOUS
<1>3. F = 0..MaxFail /\ M = 0..Gone
    OBVIOUS
<1> HIDE DEF F, W, M
<1> QED BY <1>1, <1>2, <1>3

LEMMA RowTypes ==
    ASSUME NEW d \in Docs
    PROVE  /\ DOMAIN d \in SUBSET Sources
           /\ \A s \in DOMAIN d : d[s] \in SourceRow
           /\ \A S \in SUBSET DOMAIN d : [s \in S |-> d[s]] \in Docs
           /\ \A s \in DOMAIN d, row \in SourceRow : [d EXCEPT ![s] = row] \in Docs
           /\ Aged(d) \in Docs /\ DOMAIN Aged(d) = DOMAIN d
<1>1. PICK D \in SUBSET Sources : d \in [D -> SourceRow]
    BY DEF Docs
<1>2. \A e : (\E S \in SUBSET Sources : e \in [S -> SourceRow]) => e \in Docs
    BY DEF Docs
<1>3. \A S \in SUBSET DOMAIN d : [s \in S |-> d[s]] \in [S -> SourceRow]
    BY <1>1
<1>4. \A s \in DOMAIN d, row \in SourceRow : [d EXCEPT ![s] = row] \in [D -> SourceRow]
    BY <1>1
<1>5. Aged(d) \in [D -> SourceRow]
    <2>1. \A n \in 0..MaxWait : Max({n - 1, 0}) \in 0..MaxWait
        BY WaitBounded DEF Max
    <2>2. \A s \in D : [d[s] EXCEPT !.wait = Max({@ - 1, 0})] \in SourceRow
        BY <1>1, <2>1 DEF SourceRow
    <2> QED BY <1>1, <2>2 DEF Aged
<1> QED BY <1>1, <1>2, <1>3, <1>4, <1>5

LEMMA NewRow == NewSource \in SourceRow
BY UpdatesAssumption, WaitBounded DEF NewSource, SourceRow, Gone

LEMMA NoDocIsDoc == NoDoc \in Docs /\ DOMAIN NoDoc = {}
<1>1. NoDoc \in [{} -> SourceRow]
    BY DEF NoDoc
<1> QED BY <1>1 DEF Docs

LEMMA InitTypes == Init => TypeInv
<1> SUFFICES ASSUME Init PROVE TypeInv
    OBVIOUS
<1>1. /\ pc \in [Threads -> {"off"}] /\ copy \in [Threads -> {NoDoc}]
      /\ todo \in [Threads -> {{}}] /\ mode \in [Threads -> {<<"due">>}]
    BY DEF Init
<1> QED BY <1>1, NoDocIsDoc DEF Init, TypeInv, TypeOK

(* What a goroutine does to its own round. *)
LEMMA RoundTypes ==
    ASSUME TypeInv, NEW t \in Threads, NEW where, NEW m, NEW c, NEW S,
           pc' = [pc EXCEPT ![t] = where], mode' = [mode EXCEPT ![t] = m],
           copy' = [copy EXCEPT ![t] = c], todo' = [todo EXCEPT ![t] = S],
           where \in {"off", "load", "fetch", "save", "select"},
           m \in {<<"due">>, <<"all">>} \cup ({"one"} \X Sources),
           c \in Docs, S \subseteq DOMAIN c, where = "fetch" => S # {},
           UNCHANGED <<user, svars>>, disk' \in Docs, patch' \in SUBSET Docs,
           stale' \in SUBSET Threads
    PROVE  TypeInv'
<1>1. S \in SUBSET Sources
    BY RowTypes
<1>2. /\ pc' \in [Threads -> {"off", "load", "fetch", "save", "select"}]
      /\ mode' \in [Threads -> {<<"due">>, <<"all">>} \cup ({"one"} \X Sources)]
    BY DEF TypeInv, TypeOK
<1>3. copy' \in [Threads -> Docs] /\ todo' \in [Threads -> SUBSET Sources]
    BY <1>1 DEF TypeInv, TypeOK
<1>4. ASSUME NEW u \in Threads
      PROVE  todo'[u] \subseteq DOMAIN copy'[u] /\ (pc'[u] = "fetch" => todo'[u] # {})
    <2>1. CASE u = t
        BY <2>1 DEF TypeInv, TypeOK
    <2>2. CASE u # t
        BY <2>2 DEF TypeInv, TypeOK
    <2> QED BY <2>1, <2>2
<1> QED BY <1>2, <1>3, <1>4 DEF TypeInv, TypeOK, svars

(* A goroutine that keeps its round and moves on. *)
LEMMA MoveTypes ==
    ASSUME TypeInv, NEW t \in Threads, NEW where \in {"off", "load", "select"},
           NEW m \in {<<"due">>, <<"all">>} \cup ({"one"} \X Sources),
           pc' = [pc EXCEPT ![t] = where], mode' = [mode EXCEPT ![t] = m],
           UNCHANGED <<user, copy, todo, disk, patch, stale>>,
           stopCh' \in Loops \cup {None}, closed' \in SUBSET Loops
    PROVE  TypeInv'
<1>1. /\ pc' \in [Threads -> {"off", "load", "fetch", "save", "select"}]
      /\ mode' \in [Threads -> {<<"due">>, <<"all">>} \cup ({"one"} \X Sources)]
    BY DEF TypeInv, TypeOK
<1>2. \A u \in Threads : pc'[u] = "fetch" => pc[u] = "fetch"
    BY DEF TypeInv, TypeOK
<1> QED BY <1>1, <1>2 DEF TypeInv, TypeOK

LEMMA ReturnTypes ==
    ASSUME TypeInv, NEW t \in Threads, Return(t), UNCHANGED <<user, svars>>,
           disk' \in Docs, patch' \in SUBSET Docs, stale' \in SUBSET Threads
    PROVE  TypeInv'
<1> DEFINE where == IF t = User THEN "off" ELSE "select"
<1>1. where \in {"off", "load", "fetch", "save", "select"} /\ where # "fetch"
    OBVIOUS
<1>2. /\ pc' = [pc EXCEPT ![t] = where] /\ mode' = [mode EXCEPT ![t] = <<"due">>]
      /\ copy' = [copy EXCEPT ![t] = NoDoc] /\ todo' = [todo EXCEPT ![t] = {}]
    BY DEF Return
<1> HIDE DEF where
<1> QED BY <1>1, <1>2, RoundTypes, NoDocIsDoc

LEMMA FirstIs ==
    ASSUME TypeInv, NEW t \in Threads, pc[t] = "fetch"
    PROVE  First(t) \in todo[t] /\ First(t) \in DOMAIN copy[t]
<1>1. todo[t] \in SUBSET Nat /\ todo[t] # {}
    BY SourcesNat DEF TypeInv, TypeOK
<1>2. First(t) \in todo[t]
    BY <1>1, LeastIs DEF First
<1> QED BY <1>2 DEF TypeInv, TypeOK

LEMMA FetchedTypes ==
    ASSUME TypeInv, NEW t \in Threads, pc[t] = "fetch", NEW row \in SourceRow,
           Fetched(t, row)
    PROVE  TypeInv'
<1> DEFINE f == First(t)
           c == [copy[t] EXCEPT ![f] = row]
           S == todo[t] \ {f}
           where == IF todo[t] = {f} THEN "save" ELSE "fetch"
<1>1. f \in todo[t] /\ f \in DOMAIN copy[t]
    BY FirstIs
<1>2. copy[t] \in Docs /\ todo[t] \subseteq DOMAIN copy[t]
    BY DEF TypeInv, TypeOK
<1>3. c \in Docs /\ DOMAIN c = DOMAIN copy[t]
    BY <1>1, <1>2, RowTypes
<1>4. S \subseteq DOMAIN c /\ (where = "fetch" => S # {})
    BY <1>1, <1>2, <1>3
<1>5. where \in {"off", "load", "fetch", "save", "select"}
    OBVIOUS
<1>6. /\ pc' = [pc EXCEPT ![t] = where] /\ mode' = [mode EXCEPT ![t] = mode[t]]
      /\ copy' = [copy EXCEPT ![t] = c] /\ todo' = [todo EXCEPT ![t] = S]
    BY DEF Fetched, TypeInv, TypeOK
<1>7. /\ mode[t] \in {<<"due">>, <<"all">>} \cup ({"one"} \X Sources)
      /\ UNCHANGED <<user, svars>> /\ disk' \in Docs /\ patch' \in SUBSET Docs
      /\ stale' \in SUBSET Threads
    BY DEF Fetched, TypeInv, TypeOK
<1> HIDE DEF where, S, c, f
<1> QED BY <1>3, <1>4, <1>5, <1>6, <1>7, RoundTypes

LEMMA NextTypes == TypeInv /\ [Next]_vars => TypeInv'
<1> SUFFICES ASSUME TypeInv, [Next]_vars PROVE TypeInv'
    OBVIOUS
<1> USE UpdatesAssumption
<1>t. Loops \subseteq Threads /\ User \in Threads
    BY DEF Threads
(* The documents that a handler changes. *)
<1>c. ASSUME NEW d \in Docs, Change(d) PROVE TypeInv'
    BY <1>c DEF Change, TypeInv, TypeOK, svars, rvars
<1>1. ASSUME NEW l \in Loops, Start(l) PROVE TypeInv'
    <2>1. mode' = [mode EXCEPT ![l] = mode[l]] /\ l \in Threads
        BY <1>1, <1>t DEF Start, TypeInv, TypeOK
    <2>2. mode[l] \in {<<"due">>, <<"all">>} \cup ({"one"} \X Sources)
        BY <2>1 DEF TypeInv, TypeOK
    <2>3. stopCh' \in Loops \cup {None} /\ closed' \in SUBSET Loops
        BY <1>1 DEF Start, TypeInv, TypeOK
    <2>4. /\ pc' = [pc EXCEPT ![l] = "load"]
          /\ UNCHANGED <<user, copy, todo, disk, patch, stale>>
        BY <1>1 DEF Start
    <2>5. "load" \in {"off", "load", "select"}
        OBVIOUS
    <2> QED BY <2>1, <2>2, <2>3, <2>4, <2>5, MoveTypes
<1>2. ASSUME NEW l \in Loops, StopLoop(l) \/ TickLoop(l) PROVE TypeInv'
    <2>1. mode' = [mode EXCEPT ![l] = mode[l]] /\ l \in Threads
        BY <1>2, <1>t DEF StopLoop, TickLoop, Move, TypeInv, TypeOK
    <2>2. mode[l] \in {<<"due">>, <<"all">>} \cup ({"one"} \X Sources)
        BY <2>1 DEF TypeInv, TypeOK
    <2>3. stopCh' \in Loops \cup {None} /\ closed' \in SUBSET Loops
        BY <1>2 DEF StopLoop, TickLoop, Move, svars, TypeInv, TypeOK
    <2>4. PICK where \in {"off", "load", "select"} : pc' = [pc EXCEPT ![l] = where]
        BY <1>2 DEF StopLoop, TickLoop, Move
    <2>5. UNCHANGED <<user, copy, todo, disk, patch, stale>>
        BY <1>2 DEF StopLoop, TickLoop, Move
    <2> QED BY <2>1, <2>2, <2>3, <2>4, <2>5, MoveTypes
<1>3. CASE Stop \/ Cancel
    BY <1>3 DEF Stop, Cancel, TypeInv, TypeOK, svars, rvars
<1>4. ASSUME NEW m \in {<<"all">>} \cup ({"one"} \X Sources), Call(m) PROVE TypeInv'
    <2>1. "load" \in {"off", "load", "select"}
        OBVIOUS
    <2>2. m \in {<<"due">>, <<"all">>} \cup ({"one"} \X Sources)
        OBVIOUS
    <2>3. stopCh' \in Loops \cup {None} /\ closed' \in SUBSET Loops
        BY <1>4 DEF Call, svars, TypeInv, TypeOK
    <2> QED BY <1>4, <1>t, <2>1, <2>2, <2>3, MoveTypes DEF Call
<1>5. ASSUME NEW t \in Threads, Load(t) \/ LoadFails(t) PROVE TypeInv'
    <2>1. /\ UNCHANGED <<user, svars>> /\ disk' \in Docs /\ patch' \in SUBSET Docs
          /\ stale' \in SUBSET Threads
        BY <1>5 DEF Load, LoadFails, TypeInv, TypeOK
    <2>2. CASE Return(t)
        BY <2>1, <2>2, ReturnTypes
    <2>3. CASE ~Return(t)
        <3> DEFINE due == Due(disk, mode[t])
        <3>1. /\ due # {} /\ copy' = [copy EXCEPT ![t] = disk]
              /\ todo' = [todo EXCEPT ![t] = due] /\ pc' = [pc EXCEPT ![t] = "fetch"]
              /\ mode' = mode
            BY <1>5, <2>3 DEF Load, LoadFails
        <3>2. due \subseteq DOMAIN disk /\ disk \in Docs
            BY DEF Due, TypeInv, TypeOK
        <3>3. /\ mode' = [mode EXCEPT ![t] = mode[t]]
              /\ mode[t] \in {<<"due">>, <<"all">>} \cup ({"one"} \X Sources)
            BY <3>1 DEF TypeInv, TypeOK
        <3>4. "fetch" \in {"off", "load", "fetch", "save", "select"}
            OBVIOUS
        <3> HIDE DEF due
        <3> QED BY <2>1, <3>1, <3>2, <3>3, <3>4, RoundTypes
    <2> QED BY <2>2, <2>3
<1>6. ASSUME NEW t \in Threads, Succeed(t) \/ Fail(t) PROVE TypeInv'
    <2> DEFINE old == copy[t][First(t)]
               n == Capped(old.fails + 1, MaxFail)
    <2>1. pc[t] = "fetch"
        BY <1>6 DEF Succeed, Fail
    <2>2. old \in SourceRow
        <3>1. copy[t] \in Docs
            BY DEF TypeInv, TypeOK
        <3> QED BY <2>1, <3>1, FirstIs, RowTypes
    <2>3. \E row \in SourceRow : Fetched(t, row)
        <3> HIDE DEF old
        <3>1. \A misses \in 0..Gone : Capped(misses + 1, Gone) \in 0..Gone
            BY CappedIs DEF Gone
        <3>2. n \in 1..MaxFail
            BY <2>2, CappedIs DEF SourceRow
        <3>3. Wait(n) \in Nat /\ Wait(n) <= MaxWait /\ MaxWait \in Nat /\ Interval <= MaxWait
            BY <3>2, WaitBounded
        <3>4. CASE Fail(t)
            <4>1. PICK w \in 0..Wait(n) : Fetched(t, [old EXCEPT !.fails = n, !.wait = w])
                BY <3>4 DEF Fail, old
            <4>2. w \in 0..MaxWait
                BY <3>3
            <4> HIDE DEF n
            <4>3. [old EXCEPT !.fails = n, !.wait = w] \in SourceRow
                <5>1. n \in 0..MaxFail /\ 0 \in 0..Gone
                    BY <3>2 DEF Gone
                <5> QED BY <2>2, <4>2, <5>1, RowEdits
            <4> QED BY <4>1, <4>3
        <3>5. CASE Succeed(t)
            <4>1. PICK offered \in BOOLEAN, w \in 0..Interval :
                    Fetched(t, [old EXCEPT
                        !.fails  = 0,
                        !.wait   = w,
                        !.misses = IF offered THEN 0 ELSE Capped(old.misses + 1, Gone)])
                BY <3>5 DEF Succeed, old
            <4>2. w \in 0..MaxWait
                BY <3>3
            <4> DEFINE x == IF offered THEN 0 ELSE Capped(old.misses + 1, Gone)
            <4>3. x \in 0..Gone
                BY <2>2, <3>1 DEF SourceRow, Gone
            <4> HIDE DEF x
            <4>4. [old EXCEPT !.fails = 0, !.wait = w, !.misses = x] \in SourceRow
                <5>1. 0 \in 0..MaxFail
                    OBVIOUS
                <5> QED BY <2>2, <4>2, <4>3, <5>1, RowEdits
            <4> QED BY <4>1, <4>4 DEF x
        <3> QED BY <1>6, <3>4, <3>5
    <2> QED BY <2>1, <2>3, FetchedTypes
<1>7. ASSUME NEW t \in Threads, Save(t) PROVE TypeInv'
    <2>1. disk' \in Docs /\ patch' \in SUBSET Docs /\ UNCHANGED <<user, svars>>
        BY <1>7 DEF Save, TypeInv, TypeOK
    <2>2. stale' \in SUBSET Threads
        BY <1>7 DEF Save, Overtaken, TypeInv, TypeOK
    <2> QED BY <1>7, <2>1, <2>2, ReturnTypes DEF Save
<1>8. CASE Handler
    <2> USE DEF TypeInv, TypeOK
    <2>1. CASE AddSource
        <3>1. PICK s \in Sources \ DOMAIN disk :
                Change([r \in DOMAIN disk \cup {s} |-> IF r = s THEN NewSource ELSE disk[r]])
            BY <2>1 DEF AddSource
        <3> DEFINE d == [r \in DOMAIN disk \cup {s} |-> IF r = s THEN NewSource ELSE disk[r]]
        <3>2. d \in [DOMAIN disk \cup {s} -> SourceRow]
            BY RowTypes, NewRow
        <3>3. DOMAIN disk \cup {s} \in SUBSET Sources
            BY RowTypes
        <3> HIDE DEF d
        <3>4. d \in Docs
            BY <3>2, <3>3 DEF Docs
        <3> QED BY <1>c, <3>1, <3>4 DEF d
    <2>2. ASSUME NEW s \in DOMAIN disk, PatchSource(s) PROVE TypeInv'
        <3>1. PICK on \in BOOLEAN, w \in 0..Interval :
                Change([disk EXCEPT ![s].on = on, ![s].wait = w])
            BY <2>2 DEF PatchSource
        <3> DEFINE row == [disk[s] EXCEPT !.on = on, !.wait = w]
        <3>2. row \in SourceRow
            <4>1. disk[s] \in SourceRow
                BY RowTypes
            <4>2. w \in 0..MaxWait /\ 0 \in 0..MaxFail /\ 0 \in 0..Gone
                BY WaitBounded DEF Gone
            <4> QED BY <4>1, <4>2, RowEdits
        <3>3. [disk EXCEPT ![s].on = on, ![s].wait = w] = [disk EXCEPT ![s] = row]
            BY RowTypes DEF SourceRow
        <3> HIDE DEF row
        <3>4. [disk EXCEPT ![s] = row] \in Docs
            BY <3>2, RowTypes
        <3> QED BY <1>c, <3>1, <3>3, <3>4
    <2>3. ASSUME NEW s \in DOMAIN disk, DeleteSource(s) PROVE TypeInv'
        <3>1. [r \in DOMAIN disk \ {s} |-> disk[r]] \in Docs
            BY RowTypes
        <3> QED BY <1>c, <2>3, <3>1 DEF DeleteSource
    <2>4. CASE SaveChange
        <3>1. disk' \in Docs /\ patch' = {} /\ UNCHANGED <<user, svars, rvars>>
            BY <2>4 DEF SaveChange
        <3>2. stale' \in SUBSET Threads
            BY <2>4 DEF SaveChange, Overtaken
        <3> QED BY <3>1, <3>2 DEF svars, rvars
    <2> QED BY <1>8, <2>1, <2>2, <2>3, <2>4 DEF Handler
<1>9. CASE Age
    <2> USE DEF TypeInv, TypeOK
    <2>1. disk' \in Docs /\ patch' \in SUBSET Docs
        BY <1>9, RowTypes DEF Age
    <2>2. \A t \in Threads : Aged(copy[t]) \in Docs /\ DOMAIN Aged(copy[t]) = DOMAIN copy[t]
        BY RowTypes
    <2>3. copy' \in [Threads -> Docs]
        BY <1>9, <2>2 DEF Age
    <2>4. \A t \in Threads : DOMAIN copy'[t] = DOMAIN copy[t]
        BY <1>9, <2>2 DEF Age
    <2>5. UNCHANGED <<user, svars, pc, mode, todo, stale>>
        BY <1>9 DEF Age
    <2> QED BY <2>1, <2>3, <2>4, <2>5 DEF svars
<1>10. CASE UNCHANGED vars
    BY <1>10 DEF vars, svars, rvars, TypeInv, TypeOK
<1> QED BY <1>1, <1>2, <1>3, <1>4, <1>5, <1>6, <1>7, <1>8, <1>9, <1>10
        DEF Next, Loop, Round

(* Types: no count or wait leaves its range, and a round never has a       *)
(* source to fetch that its own copy does not hold, whatever handlers      *)
(* delete meanwhile.                                                       *)
THEOREM TypeCorrect == Spec => []TypeOK
<1>1. TypeInv => TypeOK
    BY DEF TypeInv
<1> QED BY <1>1, InitTypes, NextTypes, PTL DEF Spec

-----------------------------------------------------------------------------
(* A failed attempt takes no server away.  While nobody has saved since a  *)
(* round loaded, its copy has the sources of the disk, and the servers of  *)
(* those it has not fetched, or not been answered, are as on the disk.     *)

CopiesFresh ==
    \A t \in Threads :
        pc[t] \in {"fetch", "save"} /\ t \notin stale =>
            /\ DOMAIN copy[t] = DOMAIN disk
            /\ \A s \in DOMAIN disk :
                 copy[t][s].fails > 0 \/ s \in todo[t] =>
                     copy[t][s].misses = disk[s].misses

LEMMA AgedKeeps ==
    ASSUME NEW d \in Docs, NEW s \in DOMAIN d
    PROVE  Aged(d)[s].misses = d[s].misses /\ Aged(d)[s].fails = d[s].fails
<1>1. d[s] \in SourceRow
    BY RowTypes
<1>2. Aged(d)[s] = [d[s] EXCEPT !.wait = Max({@ - 1, 0})]
    BY DEF Aged
<1> QED BY <1>1, <1>2 DEF SourceRow

(* The others have been overtaken, or the disk is as it was. *)
LEMMA SaveFresh ==
    ASSUME TypeInv, CopiesFresh, NEW u, stale' = Overtaken(u),
           \A t \in Threads \ {u} : copy'[t] = copy[t] /\ todo'[t] = todo[t],
           \A t \in Threads : pc'[t] \in {"fetch", "save"} => pc'[t] = pc[t] /\ t # u
    PROVE  CopiesFresh'
<1> SUFFICES ASSUME NEW t \in Threads, pc'[t] \in {"fetch", "save"}, t \notin stale'
             PROVE  /\ DOMAIN copy'[t] = DOMAIN disk'
                    /\ \A s \in DOMAIN disk' :
                         copy'[t][s].fails > 0 \/ s \in todo'[t] =>
                             copy'[t][s].misses = disk'[s].misses
    BY DEF CopiesFresh
<1>1. disk' = disk /\ t \notin stale /\ t # u /\ pc'[t] = pc[t]
    BY DEF Overtaken
<1>2. copy'[t] = copy[t] /\ todo'[t] = todo[t]
    BY <1>1
<1> QED BY <1>1, <1>2 DEF CopiesFresh

LEMMA FetchedFresh ==
    ASSUME TypeInv, CopiesFresh, NEW t \in Threads, pc[t] = "fetch",
           NEW row \in SourceRow, Fetched(t, row),
           row.fails > 0 => row.misses = copy[t][First(t)].misses
    PROVE  CopiesFresh'
<1> DEFINE f == First(t)
<1>1. f \in todo[t] /\ f \in DOMAIN copy[t]
    BY FirstIs
<1>2. UNCHANGED <<disk, stale>>
    BY DEF Fetched
<1> SUFFICES ASSUME NEW u \in Threads, pc'[u] \in {"fetch", "save"}, u \notin stale
             PROVE  /\ DOMAIN copy'[u] = DOMAIN disk
                    /\ \A s \in DOMAIN disk :
                         copy'[u][s].fails > 0 \/ s \in todo'[u] =>
                             copy'[u][s].misses = disk[s].misses
    BY <1>2 DEF CopiesFresh
<1>3. CASE u # t
    <2>1. copy'[u] = copy[u] /\ todo'[u] = todo[u] /\ pc'[u] = pc[u]
        BY <1>3 DEF Fetched, TypeInv, TypeOK
    <2> QED BY <2>1 DEF CopiesFresh
<1>4. CASE u = t
    <2>1. copy'[t] = [copy[t] EXCEPT ![f] = row] /\ todo'[t] = todo[t] \ {f}
        BY DEF Fetched, TypeInv, TypeOK
    <2>2. /\ DOMAIN copy[t] = DOMAIN disk
          /\ \A s \in DOMAIN disk :
               copy[t][s].fails > 0 \/ s \in todo[t] => copy[t][s].misses = disk[s].misses
        BY <1>4 DEF CopiesFresh
    <2>3. DOMAIN copy'[t] = DOMAIN disk
        BY <2>1, <2>2
    <2>4. ASSUME NEW s \in DOMAIN disk, copy'[t][s].fails > 0 \/ s \in todo'[t]
          PROVE  copy'[t][s].misses = disk[s].misses
        <3>1. CASE s = f
            <4>1. copy'[t][s] = row /\ s \notin todo'[t]
                BY <1>1, <2>1, <3>1
            <4>2. row.misses = copy[t][f].misses
                BY <2>4, <4>1
            <4> QED BY <1>1, <2>2, <3>1, <4>1, <4>2
        <3>2. CASE s # f
            <4>1. copy'[t][s] = copy[t][s]
                BY <2>1, <2>2, <3>2
            <4> QED BY <2>1, <2>2, <2>4, <4>1
        <3> QED BY <3>1, <3>2
    <2> QED BY <1>4, <2>3, <2>4
<1> QED BY <1>3, <1>4

LEMMA KeepFresh ==
    ASSUME TypeInv, CopiesFresh, UNCHANGED <<disk, stale>>,
           \A t \in Threads : pc'[t] \in {"fetch", "save"} =>
                pc'[t] = pc[t] /\ copy'[t] = copy[t] /\ todo'[t] = todo[t]
    PROVE  CopiesFresh'
BY DEF CopiesFresh

LEMMA NextFresh == TypeInv /\ CopiesFresh /\ [Next]_vars => CopiesFresh'
<1> SUFFICES ASSUME TypeInv, CopiesFresh, [Next]_vars PROVE CopiesFresh'
    OBVIOUS
<1>t. Loops \subseteq Threads /\ User \in Threads /\ None \notin Threads
    BY UpdatesAssumption DEF Threads
<1>p. /\ pc \in [Threads -> {"off", "load", "fetch", "save", "select"}]
      /\ copy \in [Threads -> Docs] /\ todo \in [Threads -> SUBSET Sources]
      /\ disk \in Docs
    BY DEF TypeInv, TypeOK
(* A goroutine that neither has fetched nor will. *)
<1>m. ASSUME NEW t \in Threads, NEW where, pc' = [pc EXCEPT ![t] = where],
             where \notin {"fetch", "save"}, UNCHANGED <<disk, stale, copy, todo>>
      PROVE  CopiesFresh'
    <2>1. \A u \in Threads : pc'[u] \in {"fetch", "save"} => pc'[u] = pc[u]
        BY <1>p, <1>m
    <2> QED BY <1>m, <2>1, KeepFresh
<1>r. ASSUME NEW t \in Threads, Return(t)
      PROVE  /\ pc'[t] \notin {"fetch", "save"}
             /\ \A u \in Threads \ {t} : /\ pc'[u] = pc[u]
                                          /\ copy'[u] = copy[u] /\ todo'[u] = todo[u]
    BY <1>p, <1>r DEF Return
<1>1. ASSUME NEW l \in Loops, Start(l) \/ StopLoop(l) \/ TickLoop(l) PROVE CopiesFresh'
    <2>1. \E where : pc' = [pc EXCEPT ![l] = where] /\ where \notin {"fetch", "save"}
        BY <1>1 DEF Start, StopLoop, TickLoop, Move
    <2>2. UNCHANGED <<disk, stale, copy, todo>>
        BY <1>1 DEF Start, StopLoop, TickLoop, Move
    <2> QED BY <1>t, <1>m, <2>1, <2>2
<1>2. CASE Stop \/ Cancel
    BY <1>2, KeepFresh DEF Stop, Cancel, rvars
<1>3. ASSUME NEW m, Call(m) PROVE CopiesFresh'
    <2>1. pc' = [pc EXCEPT ![User] = "load"] /\ UNCHANGED <<disk, stale, copy, todo>>
        BY <1>3 DEF Call
    <2> QED BY <1>t, <1>m, <2>1
<1>4. ASSUME NEW t \in Threads, Load(t) \/ LoadFails(t) PROVE CopiesFresh'
    <2>1. UNCHANGED <<disk, stale>>
        BY <1>4 DEF Load, LoadFails
    <2>2. CASE Return(t)
        BY <1>r, <2>1, <2>2, KeepFresh
    <2>3. CASE ~Return(t)
        <3>1. /\ pc' = [pc EXCEPT ![t] = "fetch"] /\ copy' = [copy EXCEPT ![t] = disk]
              /\ \E due : todo' = [todo EXCEPT ![t] = due]
            BY <1>4, <2>3 DEF Load, LoadFails
        <3>2. copy'[t] = disk
            BY <1>p, <3>1
        <3>3. \A u \in Threads \ {t} : /\ pc'[u] = pc[u]
                                        /\ copy'[u] = copy[u] /\ todo'[u] = todo[u]
            BY <1>p, <3>1
        <3> QED BY <2>1, <3>2, <3>3 DEF CopiesFresh
    <2> QED BY <2>2, <2>3
<1>5. ASSUME NEW t \in Threads, Succeed(t) PROVE CopiesFresh'
    <2> DEFINE old == copy[t][First(t)]
    <2>1. pc[t] = "fetch"
        BY <1>5 DEF Succeed
    <2>2. PICK offered \in BOOLEAN, w \in 0..Interval :
            Fetched(t, [old EXCEPT
                !.fails  = 0,
                !.wait   = w,
                !.misses = IF offered THEN 0 ELSE Capped(old.misses + 1, Gone)])
        BY <1>5 DEF Succeed
    <2> DEFINE x == IF offered THEN 0 ELSE Capped(old.misses + 1, Gone)
               row == [old EXCEPT !.fails = 0, !.wait = w, !.misses = x]
    <2>3. old \in SourceRow
        BY <1>p, <2>1, FirstIs, RowTypes
    <2>4. w \in 0..MaxWait /\ 0 \in 0..MaxFail
        BY WaitBounded, UpdatesAssumption
    <2>5. x \in 0..Gone
        <3> HIDE DEF old
        <3>1. old.misses \in 0..Gone
            BY <2>3 DEF SourceRow
        <3> QED BY <3>1, CappedIs, UpdatesAssumption DEF Gone
    <2> HIDE DEF x, old
    <2>6. row \in SourceRow
        BY <2>3, <2>4, <2>5, RowEdits
    <2>7. row.fails = 0
        BY <2>3 DEF SourceRow
    <2>8. Fetched(t, row)
        BY <2>2 DEF x
    <2> HIDE DEF row
    <2> QED BY <2>1, <2>6, <2>7, <2>8, FetchedFresh
<1>6. ASSUME NEW t \in Threads, Fail(t) PROVE CopiesFresh'
    <2> DEFINE old == copy[t][First(t)]
               n == Capped(old.fails + 1, MaxFail)
    <2>1. pc[t] = "fetch"
        BY <1>6 DEF Fail
    <2>2. PICK w \in 0..Wait(n) : Fetched(t, [old EXCEPT !.fails = n, !.wait = w])
        BY <1>6 DEF Fail
    <2> DEFINE row == [old EXCEPT !.fails = n, !.wait = w]
    <2>3. old \in SourceRow
        BY <1>p, <2>1, FirstIs, RowTypes
    <2>4. n \in 1..MaxFail
        <3> HIDE DEF old
        <3>1. old.fails \in 0..MaxFail
            BY <2>3 DEF SourceRow
        <3> QED BY <3>1, CappedIs, UpdatesAssumption
    <2>5. w \in 0..MaxWait /\ n \in 0..MaxFail
        <3> HIDE DEF n
        <3> QED BY <2>4, WaitBounded
    <2>6. row.misses = old.misses /\ row \in SourceRow
        <3> HIDE DEF n, old
        <3>1. 0 \in 0..Gone
            BY UpdatesAssumption DEF Gone
        <3>2. row \in SourceRow
            BY <2>3, <2>5, <3>1, RowEdits
        <3> QED BY <2>3, <3>2 DEF SourceRow
    <2> HIDE DEF row, n
    <2>7. Fetched(t, row)
        BY <2>2 DEF row
    <2> QED BY <2>1, <2>6, <2>7, FetchedFresh
<1>7. ASSUME NEW t \in Threads, Save(t) PROVE CopiesFresh'
    <2>1. stale' = Overtaken(t) /\ Return(t)
        BY <1>7 DEF Save
    <2> QED BY <1>r, <2>1, SaveFresh
<1>8. CASE Handler
    <2>1. ASSUME NEW d, Change(d) PROVE CopiesFresh'
        BY <2>1, KeepFresh DEF Change, rvars
    <2>2. CASE SaveChange
        <3>1. stale' = Overtaken(None) /\ UNCHANGED <<pc, copy, todo>>
            BY <2>2 DEF SaveChange, rvars
        <3>2. \A t \in Threads : t # None
            BY <1>t
        <3> QED BY <3>1, <3>2, SaveFresh
    <2> QED BY <1>8, <2>1, <2>2 DEF Handler, AddSource, PatchSource, DeleteSource
<1>9. CASE Age
    <2>1. /\ disk' = Aged(disk) /\ UNCHANGED <<pc, todo, stale>>
          /\ \A t \in Threads : copy'[t] = Aged(copy[t])
        BY <1>9 DEF Age
    <2>2. \A d \in Docs : DOMAIN Aged(d) = DOMAIN d
        BY RowTypes
    <2> SUFFICES ASSUME NEW t \in Threads, pc[t] \in {"fetch", "save"}, t \notin stale
                 PROVE  /\ DOMAIN copy'[t] = DOMAIN disk'
                        /\ \A s \in DOMAIN disk' :
                             copy'[t][s].fails > 0 \/ s \in todo[t] =>
                                 copy'[t][s].misses = disk'[s].misses
        BY <2>1 DEF CopiesFresh
    <2>3. /\ DOMAIN copy[t] = DOMAIN disk
          /\ \A s \in DOMAIN disk :
               copy[t][s].fails > 0 \/ s \in todo[t] => copy[t][s].misses = disk[s].misses
        BY DEF CopiesFresh
    <2>4. DOMAIN copy'[t] = DOMAIN copy[t] /\ DOMAIN disk' = DOMAIN disk /\ copy[t] \in Docs
        BY <1>p, <2>1, <2>2
    <2>5. \A s \in DOMAIN disk :
             /\ copy'[t][s].fails = copy[t][s].fails
             /\ copy'[t][s].misses = copy[t][s].misses
             /\ disk'[s].misses = disk[s].misses
        BY <1>p, <2>1, <2>3, <2>4, AgedKeeps
    <2> QED BY <2>3, <2>4, <2>5
<1>10. CASE UNCHANGED vars
    BY <1>10, KeepFresh DEF vars, rvars
<1> QED BY <1>1, <1>2, <1>3, <1>4, <1>5, <1>6, <1>7, <1>8, <1>9, <1>10
        DEF Next, Loop, Round

(* The step that ends a save. *)
LEMMA SaveKeeps ==
    ASSUME TypeInv, CopiesFresh, [Next]_vars,
           NEW t \in Threads, pc[t] = "save", pc'[t] # "save"
    PROVE  \A s \in DOMAIN copy[t] :
             copy[t][s].fails > 0 /\ t \notin stale =>
                 s \in DOMAIN disk' /\ disk'[s].misses = disk[s].misses
<1>p. pc \in [Threads -> {"off", "load", "fetch", "save", "select"}]
    BY DEF TypeInv, TypeOK
<1>1. Save(t)
    <2>m. ASSUME NEW u \in Threads, NEW where, pc' = [pc EXCEPT ![u] = where], pc[u] # "save"
          PROVE  FALSE
        BY <1>p, <2>m
    <2>t. Loops \subseteq Threads /\ User \in Threads
        BY DEF Threads
    <2>1. ASSUME NEW l \in Loops, Start(l) \/ StopLoop(l) \/ TickLoop(l) PROVE FALSE
        <3>1. CASE Start(l)
            <4>1. pc[l] = "off"
                <5>1. l # None
                    BY UpdatesAssumption
                <5> QED BY <3>1, <5>1 DEF Start, Fresh
            <4> QED BY <2>m, <2>t, <3>1, <4>1 DEF Start
        <3>2. CASE StopLoop(l) \/ TickLoop(l)
            BY <2>m, <2>t, <3>2 DEF StopLoop, TickLoop, Move
        <3> QED BY <2>1, <3>1, <3>2
    <2>2. ASSUME NEW m, Call(m) PROVE FALSE
        BY <2>2, <2>m, <2>t DEF Call
    <2>3. ASSUME NEW u \in Threads, Load(u) \/ LoadFails(u) \/ Succeed(u) \/ Fail(u)
          PROVE  FALSE
        <3>1. pc[u] # "save"
            BY <2>3 DEF Load, LoadFails, Succeed, Fail
        <3>2. \E where : pc' = [pc EXCEPT ![u] = where]
            BY <2>3 DEF Load, LoadFails, Succeed, Fail, Return, Fetched
        <3> QED BY <2>m, <3>1, <3>2
    <2>4. ASSUME NEW u \in Threads, u # t, Save(u) PROVE FALSE
        BY <1>p, <2>4 DEF Save, Return
    <2>5. pc' = pc => FALSE
        OBVIOUS
    <2>6. ~Handler /\ ~Stop /\ ~Cancel /\ ~Age /\ ~UNCHANGED vars
        BY <2>5 DEF Handler, AddSource, PatchSource, DeleteSource, Change, SaveChange,
                    Stop, Cancel, Age, vars, rvars
    <2> QED BY <2>1, <2>2, <2>3, <2>4, <2>6 DEF Next, Loop, Round
<1>2. disk' \in {copy[t], disk}
    BY <1>1 DEF Save
<1> QED BY <1>2 DEF CopiesFresh

(* A failed attempt removes no server, in a state of any size and with any *)
(* number of goroutines.                                                   *)
THEOREM FailuresKeepServers == Spec => FailureKeepsServers
<1>1. Init => TypeInv /\ CopiesFresh
    BY InitTypes DEF Init, CopiesFresh
<1>2. TypeInv /\ CopiesFresh /\ [Next]_vars => TypeInv' /\ CopiesFresh'
    BY NextTypes, NextFresh
<1>3. TypeInv /\ CopiesFresh /\ [Next]_vars =>
        [\A t \in Threads : pc[t] = "save" /\ pc'[t] # "save" =>
            \A s \in DOMAIN copy[t] :
                copy[t][s].fails > 0 /\ t \notin stale =>
                    s \in DOMAIN disk' /\ disk'[s].misses = disk[s].misses]_vars
    BY SaveKeeps
<1> QED BY <1>1, <1>2, <1>3, PTL DEF Spec, FailureKeepsServers
=============================================================================
