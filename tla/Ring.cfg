SPECIFICATION SSpec
CONSTANTS
  This_Station = 1
  Nmax_master = 3
  Nmax_info_frames = 2
  Npoll = 2
  Nretry_token = 1
  Nmin_octets = 4
  Tno_token = 3
  Tslot = 1
  Tusage_timeout = 1
  Tframe_abort = 1
  Wire <- SearchWire
  EventLimit = 5
  SilenceLimit = 5
  MaxLag = 1
  UartSize = 2
  MaxArrivals = 4
INVARIANTS
  TypeOK
  SoleMasterAlone
  ReceivedFrameBeatsLostToken
PROPERTIES
  KeepsContract
  RoundAsksTheRest
  NeverPollsItself
