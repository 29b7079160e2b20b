SPECIFICATION Spec
CONSTANTS
  Processes = {p1, p2}
  Clients = {w1}
  w1 = w1
  p1 = p1
  p2 = p2
  Namespaces = {"default", "team"}
  Default = "default"
  Services = {"own", "svc"}
  Own = "own"
  Columns = 1
  Files <- MCFiles
  MaxRevision = 2
INVARIANTS TypeOK NothingHalfImported
PROPERTIES DecidedOnce ImportReplacesNothing LogIsContinued EveryStartEnds
