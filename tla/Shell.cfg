SPECIFICATION Spec
CONSTANTS
  c1 = c1
  c2 = c2
  Conns = {c1, c2}
  NULL = NULL
  RX_BUF_LEN = 3
  NET_PRINT_BUF_LEN = 2
  TCP_SND_BUF = 2
  Pbufs <- MCPbufs
  RudePbufs <- MCRude
  Worlds = {{"again"}, {"nomem"}, {"erase", "ahead", "reset", "nomem"}, {"ahead", "second", "nomem"}}
  MaxDepth = 5
INVARIANT TypeOK
INVARIANT StreamIntact
INVARIANT NoWaitInVain
INVARIANT LineTerminated
INVARIANT NeverWild
