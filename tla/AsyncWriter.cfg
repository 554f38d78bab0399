\* Three lines: one being written, one queued, one pushed to an empty or a
\* non-empty queue meanwhile.
CONSTANT Lines = {a, b, c}
SPECIFICATION FairSpec
INVARIANTS EachLineOnce NoLineSleptOn
PROPERTY LinesGetWritten
CHECK_DEADLOCK FALSE
