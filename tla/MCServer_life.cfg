CONSTANTS
  Clients = {c1, c2}
  Retain = 1
  MaxRows = 2
  MaxNow = 2
  Addresses <- MCAddresses
  NoAddress = NoAddress
  PoolSize = 1
SPECIFICATION Spec
CHECK_DEADLOCK FALSE
INVARIANTS
  TypeOK
  ViewsOnRecord
PROPERTIES
  PrivateBindsOnly
  WaitersServed
  DrainEnds
  OldEntriesGo
