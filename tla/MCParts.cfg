CONSTANTS
    h1 = h1
    h2 = h2
    s1 = s1
    s2 = s2
    r1 = r1
    r2 = r2
    MaxCalls = 4
    MaxChunks = 2
    Handlers = {h1, h2}
    PeerStreams = {s1, s2}
    Requests = {r1, r2}
    MaxStreams = 1
SPECIFICATION PartsSpec
INVARIANTS
    HandleKeepsOrder DispatchIsSound RaceLeavesNothing
PROPERTIES
    BrokenSettles InFlightKeepsHandler AbortClosesDial SessionSettles
CHECK_DEADLOCK FALSE
