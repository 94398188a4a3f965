\* Two categories of up to two pages; one kit's lookup always fails, one product is no kit.
CONSTANTS
  Kits = {1, 2, 3, 4}
  Accessories = {4}
  Stubborn = {1}
  Catalogs <- TwoPages
  Kinds = {"index", "short", "empty"}
  PageSize = 2
  MaxPages = 3
  MaxChanges = 1
  MaxFailures = 2
  FlushEvery = 2
  Delay = 2
  Retries = 1
  RetryBackoff = 2
  MaxRetryAfter = 5
  RetryAfters = {0, 9}
SPECIFICATION Spec
INVARIANTS
  FetchInv
  Polite
  AnswersAreKept
PROPERTIES
  VisitEnds
  DueIsLookedUp
