\* Two watches of one listing: a message cut in half, one of two saves.
CONSTANTS
  s1 = s1
  s2 = s2
  Sets = {s1}
  Offers <- OneListing
  Unlisted = u
  Specs <- WholeSpec
  Targets = {100}
  Options <- AllOptions
  Editors = {e1}
  MaxWatches = 2
  MaxId = 2
  Races = FALSE
SPECIFICATION FairSpec
INVARIANTS
  StateIsTold
PROPERTIES
  TargetIsTold
