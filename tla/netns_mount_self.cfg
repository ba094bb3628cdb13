SPECIFICATION Spec
CONSTANTS
  Names = {a, b}
  Requests = {r1, r2}
  Threads = {m0, t1, t2}
  Leader = m0
  Namespaces = {n1, n2, n3, n4}
  Host = host
  NoNs = NoNs
  NoThread = NoThread
  NoCall = NoCall
  Nobody = Nobody
  Settings <- SaguanamuAlone
SYMMETRY Symmetry
INVARIANTS
  NamesApart
