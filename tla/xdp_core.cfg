SPECIFICATION Spec
CONSTANTS
  Names = {ethA, ethB}
  IPs = {ip1, ip2}
  Requests = {r1, r2}
  MaxIfindex = 2
  MaxEntries = 3
  BadName = BadName
  NoIP = NoIP
  NoCall = NoCall
  Free = Free
  Closer = Closer
SYMMETRY Symmetry
INVARIANTS
  TypeOK
  DistinctInterfaces
  KeysReachable
  ProgramsOwned
  ServiceInv
PROPERTIES
  ClearFlushes
  Isolation
  ImplementsPolicy
