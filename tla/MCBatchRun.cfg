SPECIFICATION Spec
CONSTANTS
  Hosts <- MCHosts
  HostLists <- MCHostLists
  Degrees <- UpToThree
  Calls <- MCCalls
  DirNames <- MCDirNames
  MaxLines = 2
  FdLimit = 6
INVARIANTS TypeOK DegreeRespected ExactlyOnce BlocksIntact NothingLost TmpDirsRemoved
PROPERTIES ImplementsHostQueue
