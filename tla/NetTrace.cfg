CONSTANTS
    twoCpus = twoCpus
    twoDevs = twoDevs
    alone = alone
    safe = safe
    frail = frail
    ha = ha
    hb = hb
    Clients = {twoCpus, twoDevs, alone, safe, frail}
    Hosts = {ha, hb}
    HostOf <- MCHostOf
    Together <- MCTogether
    NCpus <- MCNCpus
    NDevs <- MCNDevs
    MaxData <- MCMaxData
    Fragile = {twoCpus, twoDevs, alone, frail}
    Backlog = 2
SPECIFICATION Spec
INVARIANTS ScanMatchesPoll ClientsServed
PROPERTY ClientsFinish
CHECK_DEADLOCK FALSE
