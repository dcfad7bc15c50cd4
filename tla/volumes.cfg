SPECIFICATION Spec
CONSTANTS
  Nil = Nil  c0 = c0  c1 = c1  k1 = k1  k2 = k2  kBad = kBad
  x1 = x1  x2 = x2  xBad = xBad  p1 = p1  p2 = p2  pBad = pBad
  Certs = {c0, c1}
  CertIndex <- Index
  Confs = {k1, k2, kBad}
  Settings = {x1, x2, xBad}
  Ports = {p1, p2, pBad}
  Invalid = {kBad, xBad, pBad}
  Specs <- VolumeSpecs
  SerialEdits = TRUE
  MaxFaults = 0
  MaxLate = 2
  MaxStartup = 0
INVARIANTS SettledVolumes SettledFiles SettledPodBoots
