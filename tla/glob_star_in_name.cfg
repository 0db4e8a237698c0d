\* Album names that hold a '*' themselves.
SPECIFICATION Spec
CONSTANTS
  Chars <- MCChars
  Lower <- MCLower
  Patterns <- ShortPatterns
  Names <- StarryNames
INVARIANT
  Complete
