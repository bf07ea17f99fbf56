\* The alias walk over nested-object and diamond graphs.
CONSTANT Graphs <- MCGraphs
SPECIFICATION Spec
\* The walk ends when the stack is empty: Run() returns.
CHECK_DEADLOCK FALSE
INVARIANT TypeOK
INVARIANT AliasesMatchReachability
