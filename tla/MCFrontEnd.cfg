SPECIFICATION SpecAll
CHECK_DEADLOCK FALSE
CONSTANTS
  Parts = {"main", "known", "script", "view", "list", "tail", "gui"}
  Sizes <- Uneven
  HostNames = {"h1", "h2", "h10"}
  Calls <- MCCalls
  Entries <- MCEntries
  Within <- MCWithin
  Jobs <- MCJobs
  AuthFiles <- MCAuthFiles
  Matches <- MCMatches
  EventCap = 1
  Counts = {0, 1, 2, 3, 4, 5}
  Heights = {1, 2, 3, 4, 5}
  FileLen = 5
  CRLen = 3
INVARIANTS NoneForgotten TailIsLastLines InvocationSound KnownHostsComplete ScriptsRunAndGo
PROPERTIES StopWorks ListFollows CallsEnd GuiShows
