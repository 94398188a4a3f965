\* One collect and one report process that never overlap, every fault allowed.
CONSTANTS
  Kits = {k1, k2}
  Offers <- OneOffer
  Unlisted = u
  Collectors = {c1}
  Reporters = {r1}
  Overlap = FALSE
  MaxRuns = 3
SPECIFICATION Spec
INVARIANTS
  TypeOK
  ReportedWasHandled
  BeliefIsReported
  ActiveIsNewest
  ShrinkGuard
  ReportsGoForward
PROPERTIES
  KeepsPromise
  RunIsAtomic
