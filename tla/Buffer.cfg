\* Sizes scaled down (8 -> 2, 1024 -> 2, 65536 -> 2): one call can overflow the
\* vector, extrabuf and the free bytes in front.
CONSTANTS
    Byte = {0, 1}
    Zero = 0
    kCheapPrepend = 2
    kInitialSize = 2
    ExtraBuf = 2
    MaxData = 3
    MaxSize = 5
    SizeMax = 64
SPECIFICATION Spec
INVARIANTS TypeOK AssertsHold ReadableIsContent
PROPERTY GrowsOnlyWhenFull
