SPECIFICATION Spec
CONSTANTS
  w1 = w1  w2 = w2
  Writers = {w1, w2}
  p1 = p1
  Pollers = {p1}
  n1 = n1  n2 = n2
  Namespaces = {n1, n2}
  Services = {}
  NoService = NoService
  NsFilter <- MCNsFilter
  Serialized = TRUE
  Retention = FALSE
  FollowRevision = FALSE
  MaxRevision = 3
  MaxTxChanges = 2
  MaxBroadcasts = 3
  Limit = 2
SYMMETRY Symmetry
INVARIANT PromptAnswer
