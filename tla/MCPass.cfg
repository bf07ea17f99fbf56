CONSTANT Graphs <- MCGraphs
CONSTANT MaxHeap <- MCMaxHeap
SPECIFICATION Spec
\* Run returns once the status analysis' stack is empty.
CHECK_DEADLOCK FALSE
INVARIANT VirtualLoadsReplaced
INVARIANT RunIdempotent
INVARIANT MaterialisedMatchesEffect
INVARIANT PassFieldsNonEmptyAtFront
INVARIANT PassRecursionTerminates
PROPERTY PassTerminates
