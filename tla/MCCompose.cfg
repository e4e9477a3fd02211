SPECIFICATION Spec
CONSTANTS
  FireflyBase = 5000
  ServicesBase = 5100
  PtmBase = 4100
  PrometheusPort = 9090
  MaxMembers = 3
  MaxTokens = 2
  CutOptions <- MCCut
  Contested = {5000, 5100, 5110}
  StartedOptions <- MCStarted
  Options <- MCOptions
INVARIANT TypeOK
INVARIANT FileIsLoadable
INVARIANT AddressesReachTheirService
INVARIANT CoreStartsAfterItsServices
INVARIANT NeededVolumesAreFilled
INVARIANT ProbedPortsAreLost
INVARIANT UpIsNeverStuck
PROPERTY UpEnds
CHECK_DEADLOCK FALSE
