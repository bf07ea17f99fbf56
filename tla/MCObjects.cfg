CONSTANT Graphs <- MCGraphs
CONSTANT MaxHeap <- MCMaxHeap
SPECIFICATION Spec
\* RunObjectAnalysis returns when its queue is empty.
CHECK_DEADLOCK FALSE
INVARIANT TypeOK
INVARIANT LoadsReplacedByStoredValue
PROPERTY ObjectAnalysisTerminates
