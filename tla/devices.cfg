CONSTANTS
    r1 = r1
    r2 = r2
    w1 = w1
    w2 = w2
    t1 = t1
    t2 = t2
    Nobody = Nobody
    Readers = {r1, r2}
    Writers = {w1, w2}
    Main = w1
    Script <- Scripts
    INTQ_BUFSIZE = 3
    MaxArrivals = 2
    MaxKeys = 1
    MaxPrints = 1
    NoThread = Nobody
    Clients = {t1, t2}
    Values = {0, 1}
    Blocks <- Registered
    MaxSpurious = 1
    MaxLost = 1
    KThreads = {t1, t2}
    Lines = {32, 46}
    Handled = {32, 46}
    MaxRaises = 2
    BUFSIZ = 2
    MaxOutput = 4
    MaxInput = 2
SPECIFICATION Spec
INVARIANTS ConsoleExact DiskExact InterruptsExact RelayExact BootExact DevicesAgree
PROPERTY DevicesServe
CHECK_DEADLOCK FALSE
