SPECIFICATION LFairSpec
CONSTANTS
  Nil = Nil  k1 = k1  x1 = x1  x2 = x2  p1 = p1
  Certs = {}
  CertIndex <- NoIndex
  Confs = {k1}
  Settings = {x1, x2}
  Ports = {p1}
  Invalid = {}
  Specs <- LifeSpecs
  SerialEdits = TRUE
  MaxFaults = 1
  MaxLate = 2
  MaxStartup = 0
  MaxLives = 2
INVARIANTS LTypeOK LInv LWatched SettledNewLife
PROPERTIES WritesToItsOwn NothingLeft NewLifeConverges
CHECK_DEADLOCK FALSE
