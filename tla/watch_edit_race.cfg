\* A watch is edited during a report.
CONSTANTS
  s1 = s1
  s2 = s2
  Sets = {s1}
  Offers <- SteadyListing
  Unlisted = u
  Specs <- WholeSpec
  Targets = {0, 100}
  Options <- AllOptions
  Editors = {e1}
  MaxWatches = 1
  MaxId = 1
  Races = TRUE
SPECIFICATION Spec
INVARIANTS
  StateFitsWatch
