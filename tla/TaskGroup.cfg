SPECIFICATION FairSpec
CONSTANTS
    Tasks = {t1, t2, t3, t4}
    Waiters = {w1, w2}
    Stoppers = {s1}
    NoTask = NoTask
INVARIANTS
    ReturnedMeansStopped
PROPERTIES
    ParkedWaiterReturns
    StopperReturns
CHECK_DEADLOCK FALSE
