\* A function that never fails by itself.
CONSTANTS
    Publication = {p1, p2}
    FunctionFails = FALSE
SPECIFICATION Spec
SYMMETRY Symmetry
INVARIANT PublishedIsHandled
CHECK_DEADLOCK FALSE
