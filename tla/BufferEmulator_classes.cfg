SPECIFICATION LiveSpec
CONSTANTS
    Base = 3
    QUEUE_SIZE = 3
    QoSValues = {20, 79, 80}
    MaxPkts = 4
    MaxRestarts = 1
INVARIANTS TypeOK CreditWithinSize AdmissionBounded ClassIsolation EmptyIsTransient
PROPERTIES UnmixedSkipMeansNoJob EverySubBufferServed
