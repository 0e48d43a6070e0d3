CONSTANTS
    p1 = p1
    p2 = p2
    Producers = {p1, p2}
    Blocking = {p1}
    Stopper = stopper
    Limit = 1
    MaxTasks = 2
    MaxTorn = 1
    NoTask = NoTask
SPECIFICATION FairSpec
INVARIANT QueueBound
PROPERTIES IsExecutor NextDoRescues
CHECK_DEADLOCK FALSE
