SPECIFICATION FairSpec
CONSTANTS
  Ports = {0, 1}
  Requests <- BusyRequests
  Bytes = {0, 1}
  Banks = {0}
  Rows = {0}
  Cols = 1
  SdramSize = 3
  HasDqm = FALSE
  T_RCD = 2
  T_RP = 2
  T_WR = 2
  T_RC = 6
  T_MRD = 2
  CAS = 2
  REFRESH_CYCLES = 664
PROPERTIES RefreshNotForgotten NobodyStarves

