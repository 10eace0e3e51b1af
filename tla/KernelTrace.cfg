CONSTANTS
    t1 = t1
    t2 = t2
    disk1 = disk1
    disk2 = disk2
    queue1 = queue1
    queue2 = queue2
    Null = Null
    Tasks = {t1, t2}
    Bdevs = {disk1, disk2}
    Queues = {queue1, queue2}
    BTs = {b1, b2, b3}
    BdevQueue <- OwnQueues
SPECIFICATION Spec
SYMMETRY Symmetry
INVARIANTS TracesSound TracesCounted
CHECK_DEADLOCK FALSE
