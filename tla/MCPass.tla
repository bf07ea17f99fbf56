------------------------------- MODULE MCPass -------------------------------
(***************************************************************************)
(* Model values for EAPass: the graphs of the object and status runs.    *)
(***************************************************************************)
EXTENDS EAPass, EAScenarios

\* Nested objects under every handled user, the S4 diamonds, a branch
\* with a shared state, a loop, objects that hold each other, and an
\* element store at a parameter index.  Every allocation region stores a
\* field, and every allocation has a constant size.
MCGraphs ==
    NestedInitGraphs({"ObjectIsSmi", "Select", "ReferenceEqual", "StoreOut", "Call"},
                 {"StateValues", "StoreDynamic", "Call", "LoadField"})
    \cup DiamondGraphs \cup BranchGraphs \cup LoopGraphs \cup CyclicGraphs \cup {ClearedFields}

\* The users of CheckUsesForEscape that do not abort.
StatusUsers == {"ObjectIsSmi", "Select", "ReferenceEqual", "StoreOut", "Call"}

\* Nested objects with either size, the store of I inside or after O's
\* region, under every user that does not abort; objects that escape
\* late; and the S4 diamonds.
StatusGraphs ==
    NestedGraphs(StatusUsers, {"StateValues", "StoreDynamic", "Call", "LoadField"})
    \cup NestedLateEscapeGraphs(StatusUsers) \cup DiamondGraphs

\* The inner object of NestedInit allocated with a parameter size.
DynamicSizeGraphs == {NestedInit(3, "ObjectIsSmi", "StateValues")}

\* The loaded inner object flows into an arithmetic operator.
EffectFreeUseGraphs == {Nested(4, TRUE, "NumberAdd", "StateValues")}

\* Scenario S4 with the load through the Phi returned.
S4Graphs == {Diamond("Load")}

\* An object nested in another, written on one arm of a branch.
NestedBranchGraphs == {NestedBranch}

\* Far above what the graphs need (see MCObjects).
MCMaxHeap == 80

=============================================================================
