CONSTANTS
    Cpus = {0, 1}
    ParsedCpus = {0, 1}
    Tasks = {1}
    Room = 2
    MaxEvents = 4
    rb_batch = 2
    Windows <- TwoWindows
    TimeMod = 100
    modes = {"pipe", "files"}
    MaxDamaged = 1
SPECIFICATION FairSpec
INVARIANTS NamesTrue ShownLive SkipsAreTheGaps FilesMerged
PROPERTY ParsingEnds
CHECK_DEADLOCK FALSE
