\* One line is enough for the race of the destructor.
CONSTANT Lines = {a}
SPECIFICATION FairSpec
PROPERTY DestructorReturns
CHECK_DEADLOCK FALSE
