\* All patterns and names of up to four characters.
SPECIFICATION Spec
CONSTANTS
  Chars <- MCChars
  Lower <- MCLower
  Patterns <- ShortPatterns
  Names <- ShortNames
INVARIANTS
  InBounds
  Sound
  Complete
PROPERTY
  Progress
