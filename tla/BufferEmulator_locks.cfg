SPECIFICATION Spec
CONSTANTS
    Base = 10
    QUEUE_SIZE = 2
    QoSValues = {80}
    MaxPkts = 3
    MaxRestarts = 0
INVARIANT CreditConserved
