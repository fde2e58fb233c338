SPECIFICATION SpecAll
CHECK_DEADLOCK FALSE
CONSTANTS
  Parts = {"list"}
  Sizes <- Uneven
  HostNames = {"h1", "h2", "h10"}
  Calls <- MCCalls
  Entries <- MCEntries
  Within <- MCWithin
  Jobs <- MCJobs
  AuthFiles <- MCAuthFiles
  Matches <- MCMatches
  EventCap = 1
  Counts = {1, 2, 3, 4, 5}
  Heights = {5}
  FileLen = 0
  CRLen = 0
INVARIANT ListNeverPanics
