SPECIFICATION Spec
CONSTANTS
  W = 10
  P = 5
  S = 15
  ERASED <- MCErased
  TAG_TFTP_SRV = 1000
  IPs <- MCIPs
  TornTags = {1001}
  TornLens <- MCBackLens
  TornIPs = {3000}
  Fills = {}
  Memory <- MCMemory
INVARIANT InvalidLengthIgnored
