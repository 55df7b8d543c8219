CONSTANTS
  p = p  q = q  u1 = u1  u2 = u2 u3 = u3
  Procs = {p, q}
  UPages = {u1, u2, u3}
  Image <- Pages
  PageCnt = 2
  SwapSize = 2
  Values = {1}
  Nobody = Nobody
  None = None
SPECIFICATION FairSpec
INVARIANTS PagesHoldUnlessWild SlotsKeep FramesOnce
PROPERTIES LocksReturned
