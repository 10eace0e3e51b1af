CONSTANTS
    c0 = c0
    c1 = c1
    CPUS <- TwoCPUs
    Main = Main
    Nobody = Nobody
    UsePipe = TRUE
    MayFail = TRUE
    EarlySignal = FALSE
    MaxSignals = 2
    MaxPending = 2
SPECIFICATION FairSpec
INVARIANTS TracersAccounted DrainedBeforeLeaving
PROPERTIES StartsUp Stops
