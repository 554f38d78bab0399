\* Three timers, one-shot or repeating: one can run while the second waits in
\* the expired batch and the third is added or cancelled.
CONSTANTS
    Timers = {1, 2, 3}
    Expiries = {0, 1, 3}
    Intervals = {0, 1}
    MinDelay = 1
    MaxTime = 4
SPECIFICATION Spec
INVARIANTS TypeOK EachTimerHeldOnce ArmedForEarliest FreedOnlyByCancel
CHECK_DEADLOCK FALSE
