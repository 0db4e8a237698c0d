\* One thread asks for pictures again and again from three albums, of which one
\* has images, while two others set filters that race each other; the server may
\* never answer again.
SPECIFICATION LocalSpec
CONSTANTS
  Getters = {g1}
  Setters = {s1, s2}
  Readers = {}
  None = None
  a1 = a1  a2 = a2  a3 = a3
  fAll = fAll  fOne = fOne  fNone = fNone  fReversed = fReversed
  Albums = {a1, a2, a3}
  InvalidIds = {}
  ServerLists <- SteadyLists
  PictureCounts <- OneOfThree
  Filters <- AllOrOne
  NoFilter = fAll
  ValidFilters <- AllOrOne
  Passes <- MCPasses
  max_pictures = 2
  percent = 50
  Faults = {}
  MaxSets = 2
  MaxRefreshes = 0
INVARIANTS
  VisitedOnceBeforeRepeat
  RetrySuffices
  ShuffleIsFair
  FilterInForceIsFresh
PROPERTIES
  SetFilterReturns
  ShowsAlbumByAlbum
