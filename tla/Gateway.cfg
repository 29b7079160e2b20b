SPECIFICATION Spec
CONSTANTS
  Services <- MCServices
  Rows <- MCRows
  Offers <- MCOffers
  RegistryUrls = {"self", "alias"}
  Hosts = {"self", "alias"}
  CatalogTool = "catalog"
  ProbeSlots = 2
  Calls = 2
INVARIANTS FanOutIsOneDeep NoRetryAfterAnswer FailureIsExhaustive RoutedAsListed
PROPERTY EveryRequestEnds
