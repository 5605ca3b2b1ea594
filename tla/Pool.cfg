CONSTANTS
    c1 = c1
    c2 = c2
    NThreads = 2
    Callers = {c1, c2}
    MaxBacklog = 1
    PipeCap = 1
    MaxJobs = 3
    Faults = TRUE
SPECIFICATION FairSpec
INVARIANTS
    EvThrTypeOK
    BacklogIsWork
    BacklogBounded
    Drained
PROPERTIES
    JobsImplemented
    CrashesAreKnown
    AcceptedJobsRun
    CallsReturn
    StopEnds
