CONSTANTS
  main = main  idle = idle  a = a  b = b  c = c
  tid_lock = tid_lock  l = l  cv = cv
  idle_started = idle_started  w = w
  NULL = NULL
  Threads = {main, idle, a, b, c}
  Main = main  Idle = idle
  TIME_SLICE = 2
  Locks = {tid_lock}
  TidLock = tid_lock
  Conds = {}
  CondLock <- NoConds
  Semas = {idle_started, w}
  IdleStarted = idle_started
  IntrSemas = {w}
  WaitingSema <- Waits
  SemaInit <- Inits
  MaxValue = 0
SPECIFICATION FairSpec
INVARIANTS SchedulerSound NoLostWakeup
PROPERTY ReadyRuns
