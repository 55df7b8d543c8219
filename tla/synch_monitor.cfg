CONSTANTS
  main = main  idle = idle  a = a  b = b  c = c
  tid_lock = tid_lock  l = l  cv = cv
  idle_started = idle_started  w = w
  NULL = NULL
  Threads = {main, idle, a, b}
  Main = main  Idle = idle
  TIME_SLICE = 1
  Locks = {tid_lock, l}
  TidLock = tid_lock
  Conds = {cv}
  CondLock <- OneCond
  Semas = {idle_started, w}
  IdleStarted = idle_started
  IntrSemas = {w}
  WaitingSema <- Waits
  SemaInit <- Inits
  MaxValue = 1
SPECIFICATION Spec
INVARIANTS TypeOK MutualExclusion HolderIsOwner SignalDelivered
PROPERTY ImplementsMonitor
