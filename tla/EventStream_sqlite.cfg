SPECIFICATION FairSpec
CONSTANTS
  w1 = w1  w2 = w2
  Writers = {w1, w2}
  r1 = r1  r2 = r2  n1 = n1  n2 = n2  s1 = s1
  Namespaces = {n1, n2}
  Services = {s1}
  NoService = NoService
  Subscribers = {r2}
  NsFilter <- MCNsFilter
  SvcFilter <- MCSvcFilter
  Serialized = TRUE
  Retention = TRUE
  MaxRevision = 2
  MaxTxChanges = 2
  MaxBroadcasts = 2
  MaxBatch = 1
INVARIANTS TypeOK NothingSkipped NoLostWakeup OnlyCommittedIsPushed
PROPERTIES ImplementsFeed CommittedIsPushed
