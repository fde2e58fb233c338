SPECIFICATION LocalSpec
CONSTANTS
  Hosts <- MCHosts
  HostLists <- UpToTwo
  Degrees <- UpToThree
  Calls <- LiveCalls
  DirNames <- MCDirNames
  MaxLines = 1
  FdLimit = 6
PROPERTIES Termination InterruptObeyed
