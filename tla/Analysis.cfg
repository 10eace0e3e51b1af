CONSTANTS
    Workloads <- FewWorkloads
    Processes = {0, 1, 2}
    Tasks = {0, 1, 2}
    range_delta = 3
    interval = 4
SPECIFICATION AnalysisSpec
INVARIANTS DepthsExact TimesTrue RangesTrue BooksBalance
CHECK_DEADLOCK FALSE
