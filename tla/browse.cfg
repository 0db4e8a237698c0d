\* One thread lists albums, an album in pages of two, and metadata, while
\* another makes and frees clients; requests and allocations fail.
SPECIFICATION Spec
CONSTANTS
  Owners = {caller, other}
  Caller = caller
  Faults = {"memory", "network"}
  Strings = {"id", "taken"}
  MaxRecords = 4
  PageSize = 2
INVARIANTS
  TypeOK
  NothingLeaks
  CursorOutlivesItsPage
  CurlOutlivesClients
PROPERTIES
  AllOrNothing
  ListingEnds
