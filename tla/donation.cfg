CONSTANTS
  lo = lo  mid = mid  hi = hi  top = top  idle = idle  NULL = NULL  a = a  b = b
  Threads = {lo, mid, hi, top, idle}
  Idle = idle
  Main = lo
  Locks = {a, b}
  Base <- Priorities
  Uses <- LocksUsed
  NewPriorities <- MidLowers
  MaxCalls <- CallLimits
  MAX_NESTED_LEVEL = 1
SPECIFICATION Spec
INVARIANT LocksSound
PROPERTY HighestRuns
