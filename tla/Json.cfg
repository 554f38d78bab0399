CONSTANTS
    Threads = {t1, t2}
    Variables = {x, y}
    Containers = {a, b, c}
    Indices = {1}
    Null = Null

SPECIFICATION Spec
SYMMETRY Symmetry
INVARIANTS CountsAreOwners LostInside OnlyCyclesLeak RoundTrip
\* A text that is read and a lost source end a behaviour.
CHECK_DEADLOCK FALSE
