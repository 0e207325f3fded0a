\* Invocations may fail.
CONSTANTS
    Message = {m1, m2}
    BatchSize = 2
SPECIFICATION Spec
SYMMETRY Symmetry
INVARIANT DeletedWasHandled
CHECK_DEADLOCK FALSE
