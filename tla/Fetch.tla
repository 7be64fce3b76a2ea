--------------------------------- MODULE Fetch ---------------------------------
(***************************************************************************)
(* The pure parts of a subscription update: which answers end a fetch, and *)
(* how long a source that failed waits.                                    *)
(***************************************************************************)
EXTENDS Integers, FiniteSets, FiniteSetsExt

Retries == 2

(* What a request comes back with: "refused" is any other status below 500, *)
(* "limit" an answer with a device-limit header that classifyStatus heeds.  *)
Answers == {"network", "200", "404", "404limit", "refused", "refusedlimit",
            "5xx", "5xxlimit"}

(* The requests of a fetch, in order: each attempt asks every candidate.   *)
Requests(candidates) == 1..((Retries + 1) * candidates)

(* mihomoPathCandidates puts <base>/mihomo before the URL itself.          *)
Mihomo(candidates, n) == candidates = 2 /\ n % candidates = 1

(* Mutant: a 404 of the URL itself is retried too. *)
Retries404(candidates, n, a) == a \in {"network", "5xx", "5xxlimit", "404", "404limit"}

(* The answers after which the loop goes on: a network error, a server     *)
(* that fails, a 404 of the mihomo path.                                   *)
GoesOn(candidates, n, a) ==
    \/ a \in {"network", "5xx", "5xxlimit"}
    \/ a \in {"404", "404limit"} /\ Mihomo(candidates, n)

(* classifyStatus: what the error says. *)
Classify(a) == IF a \in {"404limit", "refusedlimit", "5xxlimit"} THEN "limit" ELSE a

(* The context ends in the pause after the attempt `cut', if it is not 0. *)
CutBefore(candidates, n, cut) == cut > 0 /\ n = cut * candidates + 1

(* Fetch: its outcome and how many requests it took. *)
Fetch(candidates, answers, cut) ==
    LET last == Max(Requests(candidates))
        from[n \in 1..(last + 1)] ==
            IF n <= last /\ CutBefore(candidates, n, cut)
            THEN [outcome |-> "cancelled", requests |-> n - 1]
            ELSE IF n <= last /\ GoesOn(candidates, n, answers[n])
            THEN from[n + 1]
            ELSE [outcome  |-> Classify(answers[Min({n, last})]),
                  requests |-> Min({n, last})]
    IN  from[1]

Doubled(delay) == IF delay < 1800 THEN 2 * delay ELSE delay

(* Mutant: the delay is not capped after the last doubling. *)
Uncapped(failures) ==
    LET doubled[n \in 1..failures] ==
            IF n = 1 THEN 30 ELSE Doubled(doubled[n - 1])
    IN  doubled[failures]

(* recordFailure: the seconds until the next scheduled attempt. *)
Delay(failures) ==
    LET doubled[n \in 1..failures] ==
            IF n = 1 THEN 30 ELSE Doubled(doubled[n - 1])
    IN  Min({doubled[failures], 1800})

-----------------------------------------------------------------------------

(* Trouble that passes: an error of the network or the server, and a mihomo *)
(* path the panel does not know, for which the URL itself stands in.       *)
Passing(candidates, n, a) ==
    a \in {"network", "5xx"} \/ (a = "404" /\ Mihomo(candidates, n))

Definitive == {"404", "404limit", "refused", "refusedlimit"}

(* What is asked of a fetch whose context ends after `cut' attempts:       *)
(* passing trouble does not cost an answer that comes in time, and a       *)
(* definitive answer of the URL itself is reported and nothing asked again *)
(* (DECISIONS.md:160, "returned, not retried"; 434, "the plain-URL         *)
(* fallback covers that").                                                 *)
Promised(candidates, answers, cut) ==
    LET f     == Fetch(candidates, answers, cut)
        asked == IF cut = 0 THEN Requests(candidates) ELSE 1..(cut * candidates)
    IN  /\ (\E n \in asked : /\ answers[n] = "200"
                             /\ \A k \in 1..(n - 1) : Passing(candidates, k, answers[k]))
           => f.outcome = "200"
        /\ \A n \in 1..f.requests :
              answers[n] \in Definitive /\ ~Mihomo(candidates, n) =>
                  n = f.requests /\ f.outcome = Classify(answers[n])

Unmet ==
    {c \in {1, 2} : \E answers \in [Requests(c) -> Answers], cut \in 0..Retries :
                      ~Promised(c, answers, cut)}

(* What the delay should be: half a minute that doubles with each failure  *)
(* in a row, and half an hour from the seventh on.                         *)
Misdelayed ==
    {n \in 1..30 : \/ Delay(n) # IF n <= 6 THEN <<30, 60, 120, 240, 480, 960>>[n] ELSE 1800
                   \/ Delay(n) > Delay(n + 1)}
=============================================================================
