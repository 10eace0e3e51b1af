CONSTANTS
    NFiles = 2
    MaxRecords = 3
    MaxTime = 3
    MayInvert = TRUE
    Directions = {"W"}
    max_bunch_tm = 1
    max_pkts_per_bunch = 2
    write_enabled = FALSE
    acc_factor = 2
    naios = 2
    MaxClock = 2
SPECIFICATION FairRecSpec
INVARIANTS RecordingTrue ReplayTrue
PROPERTY LongRecordingsReplayed
CHECK_DEADLOCK FALSE
