CONSTANTS
    e1 = e1
    e2 = e2
    e3 = e3
    e4 = e4
    ListNames = {l, m}
    Elems = {e1, e2, e3, e4}
    Key <- MCKey
    NULL = NULL
    HashElems = {1, 2, 3, 4, 5, 6}
    HashKey <- MCHashKey
    HashOf <- MCHashOf
    MinBuckets = 2
    BestElems = 1
    NoElem = NoElem
    BitCnt = 5
    ElemBits = 2
    ElemBytes = 3
    HeaderBytes = 8
    PGSIZE = 10
    MinBlock = 2
    ArenaSize = 2
    SizeBits = 5
    PoolPages = 3
    Requests = {0, 2, 3, 9, 31}
    MaxBlocks = 5
    NoMemory = NoMemory
SPECIFICATION Spec
INVARIANTS HashFinds BitmapScans BlocksExact CallsAgree
PROPERTY ImplementsLists
