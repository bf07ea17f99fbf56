----------------------------- MODULE MCAliases -----------------------------
(* Model-checking instance of EAAliases over the scenario graphs. *)
EXTENDS EAAliases, EAScenarios

MCGraphs == NestedGraphs({"ObjectIsSmi", "StoreOut"}, {"StateValues", "Call"})
              \cup DiamondGraphs
=============================================================================
