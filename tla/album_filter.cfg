\* Lists of up to four characters against four names, and nine years against
\* the spans between seven dates; a pattern of three characters is too long.
SPECIFICATION FairSpec
CONSTANTS
  Chars <- MCChars
  Lower <- MCLower
  Spaces <- MCSpaces
  Digits <- MCDigits
  MAX_PATTERN = 3
  Cases <- MCCases
INVARIANTS
  NamesDecide
  YearsOverlap
PROPERTY
  Returns
