SPECIFICATION Spec
CONSTANTS
  Devices = {1, 2}
  Stations = {5, 9}
  Router = 9
  Remotes <- RemoteStations
  LocalNet = 3
  Originals <- AnyTraffic
  Leftovers <- AnyLeftover
  MaxOriginals = 5
INVARIANTS
  TypeOK
  NumberIsTrue
  AnswerComesHome
PROPERTIES
  NoAnswerToAnswer
CHECK_DEADLOCK FALSE
