SPECIFICATION Spec
CONSTANTS
  c1 = c1
  c2 = c2
  s1 = s1
  s2 = s2
  s3 = s3
  n1 = n1
  n2 = n2
  w1 = w1
  w2 = w2
  t1 = t1
  t2 = t2
  Topics = {t1}
  Nodes = {n1, n2}
  Sinks = {n1, n2}
  Conns = {c1, c2}
  Subs = {s1, s2}
  Callers = {p1}
  Waiters = {}
  NoPublish = NoPublish
  ConnOf <- MCConnOf
  Home <- MCHome
  WaitsOn <- MCWaitsOn
  TopicOf <- MCTopicOf
  MaxOrder = 3
  QueueCapacity = 1
  MaxSubscriptions = 1
  Verdicts = {"DropOldest"}
  Preemptive = FALSE
  EndFails = {}
  Leavers = {}
  Flaky = {}
  PeerAnswers = {}
INVARIANT LaneOrders
CHECK_DEADLOCK FALSE
