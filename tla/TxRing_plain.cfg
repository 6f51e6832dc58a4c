SPECIFICATION Spec
CONSTANTS
    nb_tx_desc = 6
    tx_rs_thresh = 2
    tx_free_thresh = 4
    MaxPackets = 6
    MaxBurst = 2
    MaxFull = 1
    Garbage = {0, 1}
    None = None
INVARIANTS TypeOK PlainCounts PlainBuffers
CHECK_DEADLOCK FALSE
