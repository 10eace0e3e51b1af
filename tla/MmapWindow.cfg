CONSTANTS
    PageSize = 4
    buf_size = 2
    buf_nr = 2
    Announced = {1, 7, 26}
    MaxData = 70
SPECIFICATION WindowSpec
INVARIANT WindowSound
PROPERTY ReadsAppend
CHECK_DEADLOCK FALSE
