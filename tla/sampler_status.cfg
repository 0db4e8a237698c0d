\* One thread takes pictures while others change the filter and read the
\* status; whatever can fail may fail, and an album's ID is not a UUID.
SPECIFICATION Spec
CONSTANTS
  Getters = {g1}
  Setters = {s1}
  Readers = {r1}
  None = None
  a1 = a1  a2 = a2  a3 = a3
  fAll = fAll  fOne = fOne  fNone = fNone  fReversed = fReversed
  Albums = {a1, a2}
  InvalidIds = {a2}
  ServerLists <- DwindlingLists
  PictureCounts <- AnyCounts
  Filters <- MCFilters
  NoFilter = fAll
  ValidFilters <- MCValidFilters
  Passes <- MCPasses
  max_pictures = 2
  percent = 50
  Faults = {"network", "memory", "id_format"}
  MaxSets = 1
  MaxRefreshes = 1
INVARIANTS
  VerdictMatchesRotation
  StatusNotOlderThanVerdict
