SPECIFICATION MCSpec
CONSTANTS
  W = 2
  H = 3
  MAX_COMMAND_ARGS = 2
  ByteMod = 4
  IntHalf = 8
  Junk <- MCJunk
  Alphabet <- MCAlphabet
INVARIANT TypeOK
INVARIANT StaysOnScreen
INVARIANT OneCursor
PROPERTY ImplementsScreen
