\* As Buffer.cfg, with a socket whose readv may fail.
CONSTANTS
    Byte = {0, 1}
    Zero = 0
    kCheapPrepend = 2
    kInitialSize = 2
    ExtraBuf = 2
    MaxData = 3
    MaxSize = 5
    SizeMax = 64
SPECIFICATION SpecWithReadErrors
INVARIANT ReadErrorIsHandled
CHECK_DEADLOCK FALSE
