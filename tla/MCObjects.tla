----------------------------- MODULE MCObjects -----------------------------
(***************************************************************************)
(* Model values for EAObjects.                                            *)
(***************************************************************************)
EXTENDS EAObjects, EAScenarios

MCGraphs ==
    NestedGraphs({"ObjectIsSmi", "StoreOut", "Call"},
                 {"StateValues", "StoreDynamic", "Call", "LoadField"})
    \cup DiamondGraphs \cup BranchGraphs \cup LoopGraphs

\* Scenario S4: two virtual objects merged by a Phi, then loaded from.
S4Graphs == {Diamond("Load")}

\* Far above what the acyclic graphs need (about 40).
MCMaxHeap == 80

=============================================================================
