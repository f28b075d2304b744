SPECIFICATION Spec

CONSTANTS
  Addresses = {"a", "b"}
  Tokens = {"x"}
  Ranges = {"7d", "1y"}
  Sections = {"rankings", "whales"}
  Filters = {"all", "failed"}
  MaxPage = 2
  MaxEvents <- Clicks
  FirstToken = "x"
  FirstRange = "7d"
  None = None

INVARIANTS
  SectionsFit
  ListFits
  DetailsAreAwaited

PROPERTY
  WindowSettles

CHECK_DEADLOCK FALSE
