SPECIFICATION FairSpec
CONSTANTS
  None = None  d1 = d1  d2 = d2  v1 = v1  a1 = a1  c0 = c0  c1 = c1
  Devices = {d1, d2}
  Namespace = "ns"
  LabelNames = {"app", "topo"}
  Vars = {"ETBA"}
  Types = {"cpu"}
  Values = {d1, d2, v1, "ns", "1", "ceos:latest", "networkop/init-wait:latest"}
  DefaultEnv <- NoEnv
  DefaultImage = "ceos:latest"
  DefaultInitImage = "networkop/init-wait:latest"
  Spellings = {"1", "1000m", "250u", "1G1"}
  Value <- ValueOf
  Milli = 4
  Half = 8
  Agents = {a1}
  Certs = {c0, c1}
  Files = {"c", "k", "k2", "rc.eos"}
  SpecsOf <- SpecsOfDevices
INVARIANTS TypeOK NothingMissed FilesMounted
PROPERTIES NoNeedlessRestart VerdictReached
