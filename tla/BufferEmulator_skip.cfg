SPECIFICATION Spec
CONSTANTS
    Base = 10
    QUEUE_SIZE = 10
    QoSValues = {80}
    MaxPkts = 2
    MaxRestarts = 0
PROPERTY SkipMeansNoJob
