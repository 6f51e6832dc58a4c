SPECIFICATION LiveSpec
CONSTANTS
    Clients = {c1, c2}
    BUF_SIZE = 3
    MSG_IN_LEN_MAX = 2
    Sends <- SmallSends
    MayFail = TRUE
    MaxBytes = 5
    NULL = NULL
INVARIANTS TypeOK PendingIsUnfinished CommandIsLine
PROPERTIES SentIsRead HangupIsClosed
