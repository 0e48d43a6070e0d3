CONSTANTS
    Series = {s1, s2}
    Handler = {h1, h2}
    Every = 1
    Workers = 2
    QueueLimit = 1
    MaxBuffered = 2
SPECIFICATION Spec
INVARIANT NobodyInside
PROPERTIES ShutdownOnce TermStops 
CHECK_DEADLOCK FALSE
