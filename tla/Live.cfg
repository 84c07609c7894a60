SPECIFICATION FairSpec
CONSTANTS
  This_Station = 1
  Nmax_master = 2
  Nmax_info_frames = 1
  Npoll = 3
  Nretry_token = 1
  Nmin_octets = 4
  Tno_token = 3
  Tslot = 1
  Tusage_timeout = 1
  Tframe_abort = 1
  Wire <- LiveWire
  EventLimit = 5
  SilenceLimit = 5
  MaxLag = 1
  UartSize = 2
  MaxArrivals = 2
PROPERTIES
  UpdateReturns
  LeavesNoToken
  IAmIsSent
