SPECIFICATION Spec
CONSTANTS
  FlashSize = 8
  PageSize = 1
  EraseSize = 2
  Word = 32
  TEMP = 3
  LINE = 2
  Contents <- MCContents
  Numbers = {0, 1, 3, 4, 6, 7, 8, 30, 31}
  MaxLines = 9
INVARIANT ShowsFlash
