SPECIFICATION Spec

CONSTANTS
  Rows <- MCRows
  Tokens = {"x", "y"}
  Searches <- MCSearches
  NoTerm = none
  PageSize = 1
  MaxRecent = 1
  MaxKept = 2
  MaxRequests = 3

INVARIANTS
  ListIsComplete
  ListedOnce
  ListFitsTokens

PROPERTY
  LoadingEnds

CHECK_DEADLOCK FALSE
