SPECIFICATION StreamSpec
CONSTANTS
  c1 = c1
  c2 = c2
  NULL = NULL
  Conns = {c1, c2}
  Segments <- MCSegments
  IAC = 255
  Ahead = 2
  Others <- MCOthers
  FIFO_SIZE = 8
  SIZE = 2
  MAX_ETH_FRAME_LEN = 3
  CLEAR_READS = 3
  Garbage = {0, 1, 5}
  POOL = 4
  BUFSIZE = 2
SYMMETRY Symmetry
INVARIANT StreamInOrder
