\* Two requests compete for Applyer.mu and every step may fail; no
\* diagnostics request and no restart, so only the flow writes lastGood.
CONSTANTS
    p1 = p1  p2 = p2  p3 = p3
    s1 = s1  s2 = s2  s3 = s3
    c1 = c1  c2 = c2
    Callers = {c1, c2}
    Probes = {}
    Profiles = {p1, p2}
    States <- MCStates
    Generable <- MCGenerable
    Virgin <- MCVirgin
    HistorySize = 2
    MayCrash = FALSE
    Owner = Owner
    NoProfile = NoProfile
    NoState = NoState
    NoCaller = NoCaller
SPECIFICATION FairSpec
INVARIANT HealthFailureRollsBack
PROPERTY RequestsAnswered
