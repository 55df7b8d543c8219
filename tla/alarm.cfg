CONSTANTS
  main = main  idle = idle  hi = hi  lo = lo
  Threads = {main, idle, hi, lo}
  Idle = idle
  Main = main
  Priority <- Priorities
  TIME_SLICE = 2
  Sleeps <- Arguments
  MaxTicks = 4
SPECIFICATION FairSpec
PROPERTIES ListsSound ImplementsAlarm SleeperWakes
