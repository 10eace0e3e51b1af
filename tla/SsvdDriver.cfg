CONSTANTS
    tapdisk = tapdisk
    scanner = scanner
    Items = {1, 2}
    Putters = {tapdisk}
    Getters = {scanner}
    Blocks = {1, 2, 3}
    Contents = {0, 1, 2, 3}
    c_ncache = 1
    c_link = 2
    MAX_SSVD_AIO_REQS = 2
    Inodes = {i1}
    Versions = 2
    Clients = {c1}
    MaxOps = 3
SPECIFICATION FairSpec
INVARIANT DriverSound
PROPERTIES ImplementsFifo ImplementsLru EveryCopyScanned CloseEnds
CHECK_DEADLOCK FALSE
