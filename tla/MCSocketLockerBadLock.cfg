SPECIFICATION Spec
CONSTANTS
  s1 = s1
  s2 = s2
  d1 = d1
  i1 = i1
  i2 = i2
  i3 = i3
  i4 = i4
  i5 = i5
  Servers <- TwoServers
  Daemons <- NoDaemon
  Inodes <- FiveInodes
  NoFile = NoFile
  NoProc = NoProc
  LockModes <- AnyLock
  SocketModes <- Good
  DirsFound <- AnyDir
INVARIANT OneInstance
