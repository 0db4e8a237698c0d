\* One process downloads pictures of different lengths to one path, and to
\* memfds. Anything may fail, and the process may die twice.
SPECIFICATION Spec
CONSTANTS
  Downloaders = {d1}
  p1 = p1  p2 = p2
  Pictures <- MCPictures
  Length <- MCLength
  Inodes = {n1, n2, n3}
  None = None
  Faults = {"network", "disk"}
  MaxCrashes = 2
INVARIANTS
  PathIsWhole
  FailureRemovesPart
  HandedIsWhole
  NothingLeftOpen
PROPERTY
  ReplacesAtOnce
