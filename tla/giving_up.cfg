\* Three albums, pictures in one of them only.
SPECIFICATION Spec
CONSTANTS
  Getters = {g1}
  Setters = {}
  Readers = {}
  None = None
  a1 = a1  a2 = a2  a3 = a3
  fAll = fAll  fOne = fOne  fNone = fNone  fReversed = fReversed
  Albums = {a1, a2, a3}
  InvalidIds = {}
  ServerLists <- SteadyLists
  PictureCounts <- OneOfThree
  Filters <- MCFilters
  NoFilter = fAll
  ValidFilters <- MCValidFilters
  Passes <- MCPasses
  max_pictures = 2
  percent = 50
  Faults = {}
  MaxSets = 0
  MaxRefreshes = 0
PROPERTY
  GivesUpOnlyWithoutPictures
