\* One watch of two listings, edited between reports.
CONSTANTS
  s1 = s1
  s2 = s2
  Sets = {s1, s2}
  Offers <- TwoListings
  Unlisted = u
  Specs <- EverySpec
  Targets = {0, 100}
  Options <- SomeOptions
  Editors = {e1}
  MaxWatches = 1
  MaxId = 1
  Races = FALSE
SPECIFICATION Spec
INVARIANTS
  TypeOK
  ReferenceIsHighest
  QuietWhenNothingChanged
  NewOnce
  StateFitsWatch
