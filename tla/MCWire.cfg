SPECIFICATION WireSpec
CONSTANTS
  t1 = t1
  t2 = t2
  e1 = e1
  e2 = e2
  e3 = e3
  e4 = e4
  NoEntry = NoEntry
  Topics = {t1}
  Entries = {e1, e2}
  Chans = {e1, e2}
  Puts <- MCPuts
  TopicOf <- MCTopicOf
  Iterating = {e2}
  Observing = {e2}
  Leaving = {e1}
  Refusable = {}
  Fallible = {e1, e2}
  MaxLinks = 1
  MaxOrder = 4
  MaxDeliveries = 3
  MaxTakers = 1
  d1 = d1
  d2 = d2
  p1 = p1
  p2 = p2
  MaxEvents = 3
  Caps = {1, 2}
  MaxEnvelope = 2
  Peers = {p1, p2}
  Dialers = {d1, d2}
  Payments = 2
  Ceiling <- MCCeiling
  Credits = {2}
  MaxRenewals = 1
  Submissions = {"w1", "w2"}
  Clients = {d1}
  Slots = {1, 2}
  Identities = {"alice"}
  Forbidden <- MCForbidden
  Quota = 1
  MaxOps = 4
  Bits <- MCBits
INVARIANTS
  LossStaysVisible HandoffIsExact
  ReadsEveryEnvelope EchoIsFaithful PaywallIsExact WorkIsFaithful StandingIsKept
  SplicesCompose BuiltIsSound CodecIsExact
PROPERTIES
  NothingAfterRemoval GapsAreReal AcceptGoesOn
CHECK_DEADLOCK FALSE
