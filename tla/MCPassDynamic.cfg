CONSTANT Graphs <- DynamicSizeGraphs
CONSTANT MaxHeap <- MCMaxHeap
SPECIFICATION Spec
\* Run returns, and the reducer's requests stop.
CHECK_DEADLOCK FALSE
INVARIANT PassFieldsNonEmptyAtFront
