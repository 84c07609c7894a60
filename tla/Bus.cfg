SPECIFICATION FairSpec
CONSTANTS
  Nodes = {0, 1, 3}
  Nmax_master = 3
  Npoll = 2
  Nretry_token = 1
  Tno_token = 16
  Tslot = 5
  Tusage_timeout = 12
  MaxFaults = 3
INVARIANTS
  TypeOK
  NoCollision
PROPERTIES
  TokenComesRound
  DuplicatesVanish
