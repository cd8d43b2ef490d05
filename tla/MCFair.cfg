SPECIFICATION FairSpec
CONSTANTS
  c1 = c1
  c2 = c2
  s1 = s1
  s2 = s2
  s3 = s3
  n1 = n1
  n2 = n2
  w1 = w1
  w2 = w2
  t1 = t1
  t2 = t2
  Topics = {t1, t2}
  Nodes = {n1}
  Sinks = {n1}
  Conns = {c1}
  Subs = {s1}
  Callers = {p1}
  Waiters = {}
  NoPublish = NoPublish
  ConnOf <- MCConnOf
  Home <- MCHome
  WaitsOn <- MCWaitsOn
  TopicOf <- MCTopicOf
  MaxOrder = 2
  QueueCapacity = 1
  MaxSubscriptions = 1
  Verdicts = {"DropOldest", "DropNew", "Disconnect"}
  Preemptive = FALSE
  EndFails = {}
  Leavers = {c1}
  Flaky = {c1}
  PeerAnswers = {"Ok", "Refused", "Exhausted"}
PROPERTIES
  QuiesceReturns
  PublishReturns
  TasksSettle
CHECK_DEADLOCK FALSE
