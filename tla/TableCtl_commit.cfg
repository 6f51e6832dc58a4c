SPECIFICATION UsedExactSpec
CONSTANTS
    NTables = 2
    InPlace = {1, 2}
    ValidDefault <- FirstToB
    Size <- FiveTwo
    KEYS_PER_BUCKET = 2
    Hash <- TwoChains
    MayRunOut = FALSE
    Valid <- UsedExact
    Initial <- DefaultA
    Key = {x1, x2, x3, x4, x5, y1, y2, y3}
    Action = {a, b}
    Thread = {}
    MaxCommits = 2
    x1 = x1
    x2 = x2
    x3 = x3
    x4 = x4
    x5 = x5
    y1 = y1
    y2 = y2
    y3 = y3
    a = a
    b = b
    None = None
    Freed = Freed
INVARIANTS TypeOK CopiesAgree BucketsExact PutBackFits SecondPassFits
SYMMETRY KeySymmetry
