\* Two sources, or one with manual updates and edits; every fetch may fail.
CONSTANTS
    l1 = l1  l2 = l2
    Sources = {1, 2}
    MaxSources <- MCMaxSources
    Loops = {l1, l2}
    User = User
    None = None
    StaleAfterUpdates = 1
    MaxFail = 1
    Interval = 1
SPECIFICATION FairSpec
INVARIANTS TypeOK OneLoop  DelayBounded
PROPERTIES FailureKeepsServers StopHalts SourceRefreshed
