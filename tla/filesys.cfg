CONSTANTS
  SECTOR_SIZE = 2
  SectorCount = 6
  Reserved <- FormattedSectors
  MapTail = {4, 5}
  DirSlots = 2
  n1 = n1  n2 = n2
  Names = {n1, n2}
  h1 = h1  h2 = h2
  Handles = {h1, h2}
  Bytes = {0, 1}
  Sizes <- FileSizes
  Buffers <- Written
  Reads = {3}
  Seeks = {1}
  MaxStarved = 0
  NoId = NoId
SYMMETRY Interchangeable
SPECIFICATION Spec
INVARIANTS SectorsKept CountsMatch ReadsExactly
PROPERTY ImplementsStore
