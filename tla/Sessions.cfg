\* Two logins, from two addresses or the same, a request, two sessions.
CONSTANTS
    a1 = a1  a2 = a2  l1 = l1  l2 = l2  b1 = b1  t1 = t1  t2 = t2
    Addrs = {a1, a2}
    Logins = {l1, l2}
    Browsers = {b1}
    Tokens = {t1, t2}
    MaxAttempts = 2
    Window = 1
    TTL = 1
    NoToken = NoToken
SPECIFICATION FairSpec
INVARIANTS TypeOK FailuresBounded
PROPERTIES SessionLifetime Readmitted
