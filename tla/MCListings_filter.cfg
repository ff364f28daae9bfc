CONSTANTS
  root = root
  home = home
  own = own
  docker = docker
  a = a
  b = b
  Homes = {root, home, own}
  RootHome = root
  OwnHome = own
  Docker = docker
  Names = {a, b}
  Catalogue <- MCCatalogue
  Accepted = {a}
  Logged <- MCLogged
  Configs <- MCConfigs
  Units = {"ssh", "nginx"}
  UnitStates <- MCUnitStates
  Filters = {"active", "dead", "loaded"}
  Width <- MCWidth
SPECIFICATION Spec
CHECK_DEADLOCK FALSE
INVARIANTS
  ActiveServicesListed
