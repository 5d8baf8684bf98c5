SPECIFICATION Spec
CONSTANTS
  dvi = dvi
  kbd = kbd
  codec = codec
  Devices = {dvi, kbd, codec}
  KEYBOARD = kbd
  ENCODERS <- MCEncoders
  DVI_SETUP <- MCSetup
  Requests <- MCRequests
  DATA = {0, 1, 2, 3}
  TIMEOUT = 45
  PPT = 2
  MaxStretch = 1
INVARIANT OwnTransactions
PROPERTY CallsReturn
