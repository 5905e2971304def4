SPECIFICATION FairSpec
CONSTANTS
  Connections = {c1, c2, c3}
  Threads = {t1, t2, t3}
  MaxConnections = 1
  ThreadCacheSize = 2
  Watched = c1
  NoThd = NoThd
  MainThread = MainThread
  SignalThread = SignalThread
INVARIANTS
  CountersAgree
  OneThreadPerThd
  NobodyForgotten
PROPERTIES
  QueueIsServed
  ShutdownCompletes
