SPECIFICATION UsedWildSpec
CONSTANTS
    NTables = 2
    InPlace = {1}
    ValidDefault <- Constant
    Size <- FiveTwo
    KEYS_PER_BUCKET = 2
    Hash <- TwoChains
    MayRunOut = FALSE
    Valid <- UsedWild
    Initial <- DefaultA
    Key = {x1, x2, x3, x4, x5, y1, y2, y3}
    Action = {a}
    Thread = {}
    MaxCommits = 2
    x1 = x1
    x2 = x2
    x3 = x3
    x4 = x4
    x5 = x5
    y1 = y1
    y2 = y2
    y3 = y3
    a = a
    b = b
    None = None
    Freed = Freed
INVARIANT SecondPassGuaranteed
SYMMETRY KeySymmetry
