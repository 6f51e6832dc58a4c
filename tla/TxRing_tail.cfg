SPECIFICATION Spec
CONSTANTS
    nb_tx_desc = 6
    tx_rs_thresh = 2
    tx_free_thresh = 2
    MaxPackets = 7
    MaxBurst = 3
    MaxFull = 1
    Garbage = {0}
    None = None
INVARIANT TailMarksUsed
CHECK_DEADLOCK FALSE
