SPECIFICATION Spec
CONSTANTS
  h1 = h1
  t0 = t0
  t1 = t1
  main = main
  Handlers <- OneHandler
  Timers <- TwoTimers
  Main = main
  NoThread = NoThread
  NoFile = NoFile
  LastOffset = 1
  LifeExpectancies <- ShortLives
  MaxClock = 2
  MaxDay = 2
INVARIANT TypeOK
INVARIANT IInv
PROPERTY NoDaySkipped
PROPERTY ServedFresh
PROPERTY ImplementsSnapshot
SYMMETRY TimerSymmetry
CHECK_DEADLOCK FALSE
