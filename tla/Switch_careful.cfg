SPECIFICATION SwitchSpec
CONSTANTS
    NTables = 2
    InPlace = {2}
    ValidDefault <- Constant
    Size <- OneKey
    KEYS_PER_BUCKET = 1
    Hash <- OneChain
    MayRunOut = FALSE
    Valid <- WildExact
    Initial <- DefaultA
    Key = {k1, k2}
    Action = {a}
    Thread = {w}
    Threads = {t1, t2}
    PIPELINE0 = PIPELINE0
    THREAD_PIPELINES_MAX = 1
    THREAD_MSGQ_SIZE = 2
    MayReenable = {}
    MaxPorts = 2
    MayCommitDisabled = FALSE
    k1 = k1
    k2 = k2
    a = a
    None = None
    Freed = Freed
INVARIANT RunsBuilt
PROPERTIES Implements DisabledIsQuiet
SYMMETRY ThreadSymmetry
