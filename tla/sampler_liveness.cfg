\* A slideshow; requests fail, but not for ever.
SPECIFICATION SlideshowSpec
CONSTANTS
  Getters = {g1}
  Setters = {s1}
  Readers = {}
  None = None
  a1 = a1  a2 = a2  a3 = a3
  fAll = fAll  fOne = fOne  fNone = fNone  fReversed = fReversed
  Albums = {a1, a2}
  InvalidIds = {}
  ServerLists <- ChangingLists
  PictureCounts <- AnyCounts
  Filters <- MCFilters
  NoFilter = fAll
  ValidFilters <- MCValidFilters
  Passes <- MCPasses
  max_pictures = 2
  percent = 50
  Faults = {"network"}
  MaxSets = 1
  MaxRefreshes = 1
PROPERTIES
  GetReturns
  RefreshTakesEffect
