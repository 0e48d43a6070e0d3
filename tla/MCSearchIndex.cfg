CONSTANTS
    s1 = s1
    s2 = s2
    s3 = s3
    host = host
    disk = disk
    Series = {s1, s2, s3}
    NoSeries = NoSeries
    Labels <- MCLabels
    Queries <- MCQueries
    Threads = {t1, t2}
    Nobody = Nobody
    Abandoned = Abandoned
    MaxFailures = 1
    MaxCrashes = 1
SPECIFICATION Spec
INVARIANTS IndexedIsSearchable AnswersMatch
CHECK_DEADLOCK FALSE
