SPECIFICATION SchedSpec
CONSTANTS
  Domain = {1, 2, 3, 4, 5, 6}
  Parent <- MCParent
  NoDomain = 0
  LeafChips <- MCChips
  ChipType <- MCType
  Job = {1, 2, 3, 4}
  Tenant = {"u"}
  User = "u"
  Nobody = "-"
  Faulty = {}
  Holdable = {}
  Gangs = {}
  Level <- MCLevel
  AnyLevel = "any"
  AnyType = 0
  Roots = {1}
  Specs = {}
  Scenarios <- MCScenarios
  LastArrival = 1
INVARIANTS
  PromiseKeptInDomain
  NeverLaterThanFifo
PROPERTIES
  ClaimPaysOff
  ClaimsResolve
\* A run is over when its jobs are done.
CHECK_DEADLOCK FALSE
