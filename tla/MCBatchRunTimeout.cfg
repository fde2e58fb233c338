SPECIFICATION LocalSpec
CONSTANTS
  Hosts <- MCHosts
  HostLists <- UpToTwo
  Degrees <- UpToThree
  Calls <- MCCalls
  DirNames <- MCDirNames
  MaxLines = 1
  FdLimit = 6
PROPERTY DialGivesUp
