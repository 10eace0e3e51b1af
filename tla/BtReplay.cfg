CONSTANTS
    f1 = f1
    f2 = f2
    Files = {f1, f2}
    NAios = 2
    Bunches <- MCBunches
    Iterations = 2
    MaySignal = TRUE
SPECIFICATION FairSpec
INVARIANTS IosAccounted NeverBothAsleep AssertsHold
PROPERTY SendersFinish
CHECK_DEADLOCK FALSE
