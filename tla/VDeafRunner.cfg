SPECIFICATION RunnerSpec
CONSTANTS
    PyThreads = {t1, t2}
    Engines = {1, 2}
    MaxEvents = 3
    Backlogged = 1
INVARIANT RunningIsHeard
CHECK_DEADLOCK FALSE
