\* One owner with one task is enough for the races of the destructor.
CONSTANTS
    Owner = owner
    Tasks = {a}
    Channels = {}
SPECIFICATION Spec
INVARIANT QuitIsThreadSafe
CHECK_DEADLOCK FALSE
