SPECIFICATION ScenarioSpec
CONSTANTS
  Names = {veth}
  IPs = {ip1}
  Requests = {r1, r2}
  MaxIfindex = 2
  MaxEntries = 1
  MaxRuns = 2
  HostIf = veth
  PeerIP = ip1
  BadName = BadName
  NoIP = NoIP
  NoCall = NoCall
  NoSlot = NoSlot
  Free = Free
  Closer = Closer
INVARIANTS
  ScenarioTypeOK
  ScenarioHonest
  VerifiedIsLive
  NothingLeft
PROPERTIES
  CheckerEnds
