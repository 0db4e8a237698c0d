\* Two processes download to the same path at the same time; nothing fails.
SPECIFICATION Spec
CONSTANTS
  Downloaders = {d1, d2}
  p1 = p1  p2 = p2
  Pictures <- MCPictures
  Length <- MCLength
  Inodes = {n1, n2, n3, n4, n5}
  None = None
  Faults = {}
  MaxCrashes = 0
SYMMETRY InodeSymmetry
INVARIANT
  PathIsWhole
