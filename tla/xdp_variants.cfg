SPECIFICATION Spec
CONSTANTS
  Names = {ethA, ethB}
  IPs = {ip1, ip2}
  Requests = {r1, r2}
  MaxIfindex = 2
  MaxEntries = 2
  NoCall = NoCall
  Free = Free
  Settings <- Sound
SYMMETRY Symmetry
INVARIANTS
  TypeOK
PROPERTIES
  ClearFlushes
  Isolation
  AttachTruthful
  BlockEffective
