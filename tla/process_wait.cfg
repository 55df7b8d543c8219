CONSTANTS
  Procs = {r, a, b}
  Main = main
  First = r
  NULL = NULL
  UNSET = UNSET
  Statuses = {7}
SPECIFICATION Spec
PROPERTY WaitReportsStatus
