\* A collect is still running when report starts.
CONSTANTS
  Kits = {k1}
  Offers <- OneOffer
  Unlisted = u
  Collectors = {c1}
  Reporters = {r1}
  Overlap = TRUE
  MaxRuns = 2
SPECIFICATION Spec
INVARIANT ReportedWasHandled
