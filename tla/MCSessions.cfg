CONSTANTS
    t1 = t1
    t2 = t2
    e1 = e1
    e2 = e2
    e3 = e3
    e4 = e4
    NoEntry = NoEntry
    Topics = {t1}
    Entries = {e1, e2}
    Chans = {e1, e2}
    Puts <- MCPuts
    TopicOf <- MCTopicOf
    Iterating = {e1}
    Observing = {e1}
    Leaving = {e1}
    Refusable = {e1}
    Fallible = {e1, e2}
    MaxLinks = 2
    MaxOrder = 2
    MaxDeliveries = 2
    MaxTakers = 1
SPECIFICATION ManFairSpec
INVARIANTS SurvivorsAreServed NoOrphanLane
PROPERTIES ClientSettles
CHECK_DEADLOCK FALSE
