CONSTANTS
    Servers = {a, b, c}
    Recycled = {c}
SPECIFICATION Spec
CHECK_DEADLOCK FALSE
INVARIANTS TypeOK OneServerUnlessOverlapped LiveRunsAreServed
PROPERTIES NoFalseRefusal
SYMMETRY Interchangeable
