CONSTANTS
    Heaps <- IndexHeaps
SPECIFICATION Spec
\* After a faulting request (an overflow or a write past the inputs) the
\* process is gone and no request follows.
CHECK_DEADLOCK FALSE
INVARIANT ObjectStateInputsInFieldOrder
