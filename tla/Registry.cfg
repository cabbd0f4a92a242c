\* Two threads, one agent.
SPECIFICATION Spec
CONSTANTS
  Names = {n1, n2}
  Toolsets = {core, web}
  Probes = {probe}
  NoProbe = NoProbe
  NoEntry = NoEntry
  Threads = {r1, r2}
  Nobody = Nobody
  Agents = {agent}
  NoRequest = NoRequest
  NoCall = NoCall
INVARIANTS
  OffersAreTrue
  CallsReachTheirTool
PROPERTIES
  NoShadowing
