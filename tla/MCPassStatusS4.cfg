CONSTANT Graphs <- S4Graphs
CONSTANT MaxHeap <- MCMaxHeap
SPECIFICATION Spec
\* Run returns once the status analysis' stack is empty.
CHECK_DEADLOCK FALSE
INVARIANT PhiMergedAllocationsStayVirtual
