\* The run timeout ends a collect.
CONSTANTS
  Kits = {k1}
  Offers <- OneOffer
  Unlisted = u
  Collectors = {c1}
  Reporters = {r1}
  Overlap = FALSE
  MaxRuns = 1
SPECIFICATION Spec
PROPERTY ErrorEndsRunFailed
