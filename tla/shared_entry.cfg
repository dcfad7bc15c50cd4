SPECIFICATION Spec
CONSTANTS
  None = None  web = web  ssh = ssh
  Names = {web, ssh}
  Rank <- Order
  Ports = {1, 2, 3}
  EntryName <- SharedEntry
  Specs <- FewSpecs
INVARIANTS EveryPortForwarded
