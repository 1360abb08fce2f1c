SPECIFICATION SchedSpec
CONSTANTS
  Domain = {1, 2, 3, 4, 5, 6, 7, 8, 9, 10}
  Parent <- SpanParent
  NoDomain = 0
  LeafChips <- SpanChips
  ChipType <- SpanType
  Job = {1, 2, 3, 4, 5}
  Tenant = {"u"}
  User = "u"
  Nobody = "-"
  Faulty = {}
  Holdable = {}
  Gangs = {}
  Level <- SpanLevel
  AnyLevel = "any"
  AnyType = 0
  Roots = {1}
  Specs = {}
  Scenarios <- SpanScenarios
  LastArrival = 0
INVARIANTS
  PromiseKept
\* A run is over when its jobs are done.
CHECK_DEADLOCK FALSE
