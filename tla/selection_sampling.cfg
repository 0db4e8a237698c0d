\* Albums of up to eight pictures, 45 percent of each sampled but at most three,
\* with any set of unusable IDs, with and without memory, and words of ten values.
\* The share of one picture is rounded up to one, that of eight is over the limit.
SPECIFICATION Spec
CONSTANTS
  UINT64_MAX = 9
  Sizes = {0, 1, 2, 5, 7, 8}
  max_pictures = 3
  percent = 45
INVARIANTS
  SelectionInvariant
  SubsetsEquallyLikely
PROPERTY
  KeepsPromise
