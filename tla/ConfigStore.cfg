SPECIFICATION Spec
CONSTANTS
  W = 10
  P = 5
  S = 15
  ERASED <- MCErased
  TAG_TFTP_SRV = 1000
  IPs <- MCIPs
  TornTags = {1001}
  TornLens <- MCTornLens
  TornIPs = {3000}
  Fills = {0, 99}
  Memory <- MCMemory
PROPERTY CompletedIsSaved
PROPERTY TornIsLocal
PROPERTY ProgrammedStays
PROPERTY CommitOnce
PROPERTY ImplementsSetting
