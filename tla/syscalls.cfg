CONSTANTS
  Procs = {a, b, c}
  Started = {a, b}
  MaxCalls = 3
  Nobody = Nobody
SPECIFICATION FairSpec
INVARIANTS OwnDescriptors OpenCntExact
PROPERTIES CallsReturn
