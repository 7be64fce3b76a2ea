\* Two concurrent requests, one diagnostics probe, crashes and reboots.
CONSTANTS
    p1 = p1  p2 = p2  p3 = p3
    s1 = s1  s2 = s2  s3 = s3
    c1 = c1  c2 = c2
    Callers = {c1, c2}
    Probes = {d1}
    Profiles = {p1, p2}
    States <- MCStates
    Generable <- MCGenerable
    Virgin <- MCVirgin
    HistorySize = 2
    MayCrash = TRUE
    Owner = Owner
    NoProfile = NoProfile
    NoState = NoState
    NoCaller = NoCaller
SPECIFICATION Spec
SYMMETRY Symmetry
INVARIANTS TypeOK HealthJudgesTarget   ReplyHonest
PROPERTY RecordsWhatRuns
