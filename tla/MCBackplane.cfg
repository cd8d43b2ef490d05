SPECIFICATION RelayFairSpec
CONSTANTS
  Topics = {t1}
  Sinks = {k1, k2}
  Callers = {p1, p2, wk}
  Worker = wk
  Depth = 2
  MaxAcked = 3
  MaxOrder = 4
  NoPublish = NoPublish
INVARIANTS EveryStampUsedOnce AcceptedIsCommitted NothingUnaccounted
PROPERTY ArrivesInStampOrder AnswerIsReliable ImplementsAtMostOnce AckedSettles
