CONSTANTS
    NDevs = 1
    NCPUs = 2
    EventLens <- MCEventLens
    BufSize = 2
    WriteFails = FALSE
SPECIFICATION Spec
INVARIANT BuffersAccounted
PROPERTIES ImplementsEventStream Terminates
