CONSTANT Graphs <- StatusGraphs
CONSTANT MaxHeap <- MCMaxHeap
SPECIFICATION Spec
\* Run returns once the status analysis' stack is empty.
CHECK_DEADLOCK FALSE
INVARIANT StatusTypeOK
INVARIANT FinishEscapeDragsAllocation
INVARIANT VirtualOnlyInAnalyzableUses
