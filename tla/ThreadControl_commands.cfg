SPECIFICATION LiveSpec
CONSTANTS
    Threads = {t1, t2}
    Pipelines = {p1, p2}
    THREAD_PIPELINES_MAX = 2
    THREAD_MSGQ_SIZE = 2
    MayReenable = {p1}
    NULL = NULL
INVARIANTS TypeOK ControlViewExact RunExclusive DisableFindsPipeline ArraysAgree EnabledIsListed
PROPERTIES CommandReturns EnabledRuns
