\* Two attempts to connect and a raw peer, one descriptor besides idleFd_ and one
\* more that others may hold, no threads or two in the pool.
CONSTANTS
    MaxConnectors = 2
    Peers = {1, 2, r1}
    MaxThreads = 2
    Descriptors = 2
    MaxOther = 1
SPECIFICATION Spec
INVARIANTS  DescriptorsOwned
PROPERTIES ClientConnects BacklogDrains
CHECK_DEADLOCK FALSE
