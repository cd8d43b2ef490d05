CONSTANTS
    t1 = t1
    t2 = t2
    e1 = e1
    e2 = e2
    e3 = e3
    e4 = e4
    NoEntry = NoEntry
    Topics = {t1}
    Entries = {e1, e2}
    Chans = {e1, e2}
    Puts <- MCPuts
    TopicOf <- MCTopicOf
    Iterating = {}
    Observing = {}
    Leaving = {e1}
    Refusable = {e1}
    Fallible = {}
    MaxLinks = 1
    MaxOrder = 0
    MaxDeliveries = 0
    MaxTakers = 1
SPECIFICATION ManSpec
INVARIANTS EndedMeansEnded
CHECK_DEADLOCK FALSE
