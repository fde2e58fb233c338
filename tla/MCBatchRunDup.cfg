SPECIFICATION Spec
CONSTANTS
  Hosts <- MCHosts
  HostLists <- Duplicated
  Degrees <- UpToThree
  Calls <- TwiceCalls
  DirNames <- MCDirNames
  MaxLines = 1
  FdLimit = 6
INVARIANT NothingLost
