SPECIFICATION Spec
CONSTANTS
  Ids = {1, 2, 3}
  Filtered = TRUE
  RawInts <- MCRawInts
  Bits = 4
  DefaultPageSize = 1
  MaxPageSize = 2
  MaxCached = 1
  NoPage = NoPage
INVARIANTS WalkIsComplete WalkIsTight FarPagesAreSafe
CHECK_DEADLOCK FALSE
