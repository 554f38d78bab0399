\* One application thread and the callbacks send two messages of two bytes
\* through a send buffer of two that drains a byte at a time or more: full,
\* partial and refused direct writes and partial drains all occur.
CONSTANTS
    Threads = {t1}
    Messages = {m1, m2}
    MsgLen = 2
    SndBuf = 2
    HighWaterMark = 1
SPECIFICATION FairSpec
INVARIANTS TypeOK AssertsHold StreamIsIntact WriteInterest ClosedOnce
PROPERTIES ImplementsByteStream EndsAfterPeer OutputDrains
CHECK_DEADLOCK FALSE
