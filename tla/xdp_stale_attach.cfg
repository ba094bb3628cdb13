SPECIFICATION Spec
CONSTANTS
  Names = {ethA}
  IPs = {ip1}
  Requests = {r1, r2}
  MaxIfindex = 2
  MaxEntries = 1
  BadName = BadName
  NoIP = NoIP
  NoCall = NoCall
  Free = Free
  Closer = Closer
PROPERTY
  AttachTruthful
