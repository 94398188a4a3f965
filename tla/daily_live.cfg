\* Liveness of the serial schedule, with fair report steps.
CONSTANTS
  Kits = {k1}
  Offers <- PricedOffers
  Unlisted = u
  Collectors = {c1}
  Reporters = {r1}
  Overlap = FALSE
  MaxRuns = 2
SPECIFICATION FairSpec
INVARIANT PriceMissedForAReason
PROPERTIES
  EverySuccessReported
  DeadRunIsNoticed
