SPECIFICATION FairSpec
CONSTANTS
  Names = {a}
  Requests = {r1, r2}
  Threads = {m0, t1, t2}
  Leader = m0
  Namespaces = {n1, n2}
  Host = host
  NoNs = NoNs
  NoThread = NoThread
  NoCall = NoCall
  Nobody = Nobody
  Settings <- Troubled
PROPERTIES
  EveryRequestAnswered
