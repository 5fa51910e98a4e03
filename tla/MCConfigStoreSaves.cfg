SPECIFICATION Spec
CONSTANTS
  main = main
  zmq = zmq
  t1 = t1
  t2 = t2
  t3 = t3
  Main = main
  Zmq = zmq
  Timers <- ThreeTimers
  NoThread = NoThread
  Absent = Absent
  Empty = Empty
  Lives <- ShortAndLong
  DefaultLife = 1000
  MinDelay = 1
  MaxDelay = 3
  MaxBusy = 1
INVARIANT TypeOK
INVARIANT NoLostChange
INVARIANT InForceIsConfigured
PROPERTY EventuallySaved
