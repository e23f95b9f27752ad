SPECIFICATION NextActionSpec
CONSTANTS
  Ids = {1, 2, 3}
  Times = {0, 1, 2, 3}
  LocalToUtc <- MCLocalToUtc
  Catalogs <- MCCatalogs
  NoDate = NoDate
  NoTask = NoTask
  PageSize = 2
  MaxChanges = 1
INVARIANTS
  AllActiveAreRead
