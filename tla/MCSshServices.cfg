SPECIFICATION SpecAll
CHECK_DEADLOCK FALSE
CONSTANTS
  Listeners = {1, 2}
  AddrOf <- MCAddrOf
  Addrs = {"p", "q"}
  MaxOpens = 3
  MayIgnore = {1}
  Runs <- MCRuns
  ReqSize = 2
INVARIANTS RunReports ForwardSafe PacketsArrive EditorShows
PROPERTIES AgentSound CallersReturn
