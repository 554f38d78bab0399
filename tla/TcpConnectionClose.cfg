\* As TcpConnection.cfg, with a thread that closes as well as sends.
CONSTANTS
    Threads = {t1}
    Messages = {m1, m2}
    MsgLen = 2
    SndBuf = 2
    HighWaterMark = 1
SPECIFICATION SpecWithClosers
INVARIANT ClosingIsThreadSafe
CHECK_DEADLOCK FALSE
