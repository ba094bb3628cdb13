SPECIFICATION CheckSpec
CONSTANTS
  Hosts = {h1, h2}
  Peers = {eth}
  Named = {a, b}
  Host = host
  Requests = {r1, r2}
  Pairs = {p1, p2, p3}
  NoLink = NoLink
  NoEnd = NoEnd
  NoCall = NoCall
  Settings <- SoundAndChecked
  Watched <- CheckedWorlds
SYMMETRY Symmetry
INVARIANTS
  TypeOK
  CheckTypeOK
  VethTruthful
  NoHalfPair
  RetrySucceeds
PROPERTIES
  AnsweredStays
  VerifiedMeansMade
  PromisedVerifies
