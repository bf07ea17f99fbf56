\* Scenario S4: a load from a Phi of two virtual objects.
CONSTANTS
    Graphs <- S4Graphs
    MaxHeap <- MCMaxHeap
SPECIFICATION Spec
CHECK_DEADLOCK FALSE
INVARIANT LoadFromPhiReplaced
