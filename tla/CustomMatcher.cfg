SPECIFICATION MatcherSpec
CONSTANTS
  a = a
  b = b
  sep = sep
  Chars <- MCChars
  WordChars <- MCWordChars
  Dictionaries <- MCDictionaries
  Texts <- MCTexts
  MaxSuffix = 1
CHECK_DEADLOCK FALSE
INVARIANTS
  LinksAreComplete
  NothingForgotten
  MatchesAreExact
