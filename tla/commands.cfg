\* Two shops, one of them retired or both new; two processes open the database.
CONSTANTS
  cli = cli
  Openers = {cli, ui}
  Latest = 2
  Repeatable = {1}
  Limit = 3
  Texts <- WrittenTexts
  Slugs = {g, z}
  g = g
  z = z
  x = x
  Registered <- Both
  Selections <- SomeSelections
  FirstRows <- NewOrRetired
  QuietText <- Quiet
SPECIFICATION CommandSpec
INVARIANTS
  VersionTellsSchema
  MessagesArrive
  CommandInv
PROPERTIES
  ListingsGetGrouped
  WatchesAreChecked
