SPECIFICATION Spec
CONSTANTS
  FlashSize = 24
  PageSize = 2
  EraseSize = 8
  Block = 4
  UdpPcbs = 2
  gDefaultFlashAdr = 16
  Adrs <- Addrs
  SendLens <- Lens
  Files <- OneToN
  FirstFlash <- OldBytes
  MaxCmds = 3
INVARIANT TypeOK
INVARIANT FlashedIsFile
INVARIANT OnlyItsSectors
INVARIANT VerifyTells
INVARIANT SavedIsFlash
INVARIANT NeverAsserts
PROPERTY TransferEnds
CHECK_DEADLOCK FALSE
