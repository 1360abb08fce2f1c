SPECIFICATION Spec
CONSTANTS
  Domain = {1, 2, 3, 4, 5, 6, 7}
  Parent <- MCParent
  NoDomain = 0
  LeafChips <- MCChips
  ChipType <- MCType
  Job = {1, 2}
  Tenant = {t1, t2}
  t1 = t1
  t2 = t2
  Nobody = Nobody
  Faulty = {4, 6}
  Holdable = {5, 6}
  Gangs <- MCGangs
  Level <- MCLevel
  AnyLevel = "any"
  AnyType = 0
  Roots = {1}
  Specs <- MCSpecs
INVARIANTS
  TypeOK
  CountersExact
  OwnershipSound
  SearchSound
  SearchComplete
  DryRunLeavesNoTrace
SYMMETRY TenantSymmetry
