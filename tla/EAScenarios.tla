---------------------------- MODULE EAScenarios ----------------------------
(***************************************************************************)
(* Input graphs for the model checks: small well-formed IR graphs of the  *)
(* shapes the pass is written for, each with options that pick the users  *)
(* of the allocations.  They stand for the graphs the pipeline hands to   *)
(* EscapeAnalysis::Run; the options range over the users listed in the    *)
(* status analysis's switch.                                              *)
(***************************************************************************)
EXTENDS EAGraph

(***************************************************************************)
(* Nested objects.  An inner object I (size 16 or a parameter) is stored  *)
(* into field 0 of an outer object O, inside O's allocation region or    *)
(* after it; field 0 of O is loaded back into L.  u1 picks the user of L, *)
(* u2 a second user of O's FinishRegion.                                  *)
(*                                                                         *)
(*   1 Start  2 End  3 Parameter  4 16  5 7                                *)
(*   6 BeginRegion  7 Allocate I  8 FinishRegion I                        *)
(*   9 BeginRegion 10 Allocate O 11 FinishRegion O 12 StoreField O.0 := I *)
(*  13 LoadField L = O.0  14 user of L  15 user of O  16 Return            *)
(***************************************************************************)
PureUsers == {"ObjectIsSmi", "Select", "ReferenceEqual", "StateValues",
              "NumberAdd"}

U1Node(u1) ==
    CASE u1 = "ObjectIsSmi"    -> Nd("ObjectIsSmi", <<13>>, <<>>, <<>>, <<>>, 0)
      [] u1 = "Select"         -> Nd("Select", <<3, 13, 5>>, <<>>, <<>>, <<>>, 0)
      [] u1 = "ReferenceEqual" -> Nd("ReferenceEqual", <<13, 8>>, <<>>, <<>>, <<>>, 0)
      [] u1 = "NumberAdd"      -> Nd("NumberAdd", <<13, 5>>, <<>>, <<>>, <<>>, 0)
      [] u1 = "StoreOut"       -> Nd("StoreField", <<3, 13>>, <<>>, <<13>>, <<1>>, 0)
      [] u1 = "Call"           -> Nd("Call", <<13>>, <<>>, <<13>>, <<1>>, 0)

U2Node(u2, e) ==
    CASE u2 = "StateValues"  -> Nd("StateValues", <<11>>, <<>>, <<>>, <<>>, 0)
      [] u2 = "StoreDynamic" -> Nd("StoreElement", <<11, 3, 5>>, <<>>, <<e>>, <<1>>, 0)
      [] u2 = "Call"         -> Nd("Call", <<11>>, <<>>, <<e>>, <<1>>, 0)
      [] u2 = "LoadField"    -> Nd("LoadField", <<11>>, <<>>, <<e>>, <<1>>, 8)

Nested(sizeI, inRegion, u1, u2) ==
    LET pure1 == u1 \in PureUsers
        pure2 == u2 \in PureUsers
        e14 == IF pure1 THEN 13 ELSE 14
        e15 == IF pure2 THEN e14 ELSE 15
        base12 == IF inRegion THEN 10 ELSE 11
    IN
    << Nd("Start", <<>>, <<>>, <<>>, <<>>, 0),
       Nd("End", <<>>, <<>>, <<>>, <<16>>, 0),
       Nd("Parameter", <<>>, <<>>, <<>>, <<1>>, 0),
       Nd("NumberConstant", <<>>, <<>>, <<>>, <<>>, 16),
       Nd("NumberConstant", <<>>, <<>>, <<>>, <<>>, 7),
       Nd("BeginRegion", <<>>, <<>>, <<1>>, <<>>, 0),
       Nd("Allocate", <<sizeI>>, <<>>, <<6>>, <<1>>, 0),
       Nd("FinishRegion", <<7>>, <<>>, <<7>>, <<>>, 0),
       Nd("BeginRegion", <<>>, <<>>, <<8>>, <<>>, 0),
       Nd("Allocate", <<4>>, <<>>, <<9>>, <<1>>, 0),
       Nd("FinishRegion", <<10>>, <<>>, <<IF inRegion THEN 12 ELSE 10>>, <<>>, 0),
       Nd("StoreField", <<base12, 8>>, <<>>, <<IF inRegion THEN 10 ELSE 11>>, <<1>>, 0),
       Nd("LoadField", <<11>>, <<>>, <<IF inRegion THEN 11 ELSE 12>>, <<1>>, 0),
       U1Node(u1),
       U2Node(u2, e14),
       Nd("Return", <<IF pure1 THEN 14 ELSE 5, IF pure2 THEN 15 ELSE 5>>,
          <<>>, <<e15>>, <<1>>, 0) >>

NestedGraphs(U1s, U2s) ==
    {Nested(s, r, u1, u2) : s \in {3, 4}, r \in BOOLEAN, u1 \in U1s, u2 \in U2s}

\* Nested with O's store inside its region and a store I.0 := 7 (node 17)
\* inside I's region, so that each region stores a field, as the regions
\* the pipeline builds do.
NestedInit(sizeI, u1, u2) ==
    LET g == Nested(sizeI, TRUE, u1, u2)
    IN  Append([g EXCEPT ![8].ein = <<17>>],
               Nd("StoreField", <<7, 5>>, <<>>, <<7>>, <<1>>, 0))

NestedInitGraphs(U1s, U2s) ==
    {NestedInit(4, u1, u2) : u1 \in U1s, u2 \in U2s}

\* Nested with u2 a load of O.1 (node 15) whose value is stored into the
\* parameter (node 17), so that O escapes only after the store of I into
\* O has been processed: the store escapes the load, the load's escape
\* re-queues O's FinishRegion, and that escape revisits only its inputs.
NestedLateEscape(inRegion, u1) ==
    LET g == Nested(4, inRegion, u1, "LoadField")
    IN  Append([g EXCEPT ![16].ein = <<17>>],
               Nd("StoreField", <<3, 15>>, <<>>, <<15>>, <<1>>, 0))

NestedLateEscapeGraphs(U1s) ==
    {NestedLateEscape(r, u1) : r \in BOOLEAN, u1 \in U1s}

(***************************************************************************)
(* Two allocations on the two arms of a diamond, each storing a distinct  *)
(* constant into field 0, merged by a value Phi (scenario S4 of the       *)
(* spec).  ret picks whether the load through the Phi or the Phi itself  *)
(* is returned.                                                           *)
(*                                                                         *)
(*   1 Start 2 End 3 Parameter 4 16 5 7 6 11 7 Branch 8 IfTrue 9 IfFalse  *)
(*  10 BeginRegion 11 Allocate A1 12 StoreField A1.0 := 7 13 Finish A1   *)
(*  14 BeginRegion 15 Allocate A2 16 StoreField A2.0 := 11 17 Finish A2  *)
(*  18 Merge 19 EffectPhi 20 Phi(A1, A2) 21 LoadField Phi.0 22 Return     *)
(***************************************************************************)
Diamond(ret) ==
    << Nd("Start", <<>>, <<>>, <<>>, <<>>, 0),
       Nd("End", <<>>, <<>>, <<>>, <<22>>, 0),
       Nd("Parameter", <<>>, <<>>, <<>>, <<1>>, 0),
       Nd("NumberConstant", <<>>, <<>>, <<>>, <<>>, 16),
       Nd("NumberConstant", <<>>, <<>>, <<>>, <<>>, 7),
       Nd("NumberConstant", <<>>, <<>>, <<>>, <<>>, 11),
       Nd("Branch", <<3>>, <<>>, <<>>, <<1>>, 0),
       Nd("IfTrue", <<>>, <<>>, <<>>, <<7>>, 0),
       Nd("IfFalse", <<>>, <<>>, <<>>, <<7>>, 0),
       Nd("BeginRegion", <<>>, <<>>, <<1>>, <<>>, 0),
       Nd("Allocate", <<4>>, <<>>, <<10>>, <<8>>, 0),
       Nd("StoreField", <<11, 5>>, <<>>, <<11>>, <<8>>, 0),
       Nd("FinishRegion", <<11>>, <<>>, <<12>>, <<>>, 0),
       Nd("BeginRegion", <<>>, <<>>, <<1>>, <<>>, 0),
       Nd("Allocate", <<4>>, <<>>, <<14>>, <<9>>, 0),
       Nd("StoreField", <<15, 6>>, <<>>, <<15>>, <<9>>, 0),
       Nd("FinishRegion", <<15>>, <<>>, <<16>>, <<>>, 0),
       Nd("Merge", <<>>, <<>>, <<>>, <<8, 9>>, 0),
       Nd("EffectPhi", <<>>, <<>>, <<13, 17>>, <<18>>, 0),
       Nd("Phi", <<13, 17>>, <<>>, <<>>, <<18>>, 0),
       Nd("LoadField", <<20>>, <<>>, <<19>>, <<18>>, 0),
       Nd("Return", <<IF ret = "Load" THEN 21 ELSE 20>>, <<>>, <<21>>, <<18>>, 0) >>

DiamondGraphs == {Diamond(r) : r \in {"Load", "Phi"}}

(***************************************************************************)
(* An object initialised before a branch (field 0 := 7), written on one   *)
(* arm (field 0 := 11) and read or passed to a call on the other, then   *)
(* read again after the merge.  The state at the branch point is shared *)
(* by both arms and must be copied before the write.                     *)
(*                                                                         *)
(*   1 Start 2 End 3 Parameter 4 16 5 7 6 11 7 BeginRegion 8 Allocate O   *)
(*   9 StoreField O.0 := 7 10 FinishRegion O 11 Branch 12 IfTrue          *)
(*  13 IfFalse 14 StoreField O.0 := 11 15 arm user 16 Merge               *)
(*  17 EffectPhi 18 LoadField O.0 19 Return                               *)
(***************************************************************************)
Branchy(arm) ==
    << Nd("Start", <<>>, <<>>, <<>>, <<>>, 0),
       Nd("End", <<>>, <<>>, <<>>, <<19>>, 0),
       Nd("Parameter", <<>>, <<>>, <<>>, <<1>>, 0),
       Nd("NumberConstant", <<>>, <<>>, <<>>, <<>>, 16),
       Nd("NumberConstant", <<>>, <<>>, <<>>, <<>>, 7),
       Nd("NumberConstant", <<>>, <<>>, <<>>, <<>>, 11),
       Nd("BeginRegion", <<>>, <<>>, <<1>>, <<>>, 0),
       Nd("Allocate", <<4>>, <<>>, <<7>>, <<1>>, 0),
       Nd("StoreField", <<8, 5>>, <<>>, <<8>>, <<1>>, 0),
       Nd("FinishRegion", <<8>>, <<>>, <<9>>, <<>>, 0),
       Nd("Branch", <<3>>, <<>>, <<>>, <<1>>, 0),
       Nd("IfTrue", <<>>, <<>>, <<>>, <<11>>, 0),
       Nd("IfFalse", <<>>, <<>>, <<>>, <<11>>, 0),
       Nd("StoreField", <<10, 6>>, <<>>, <<10>>, <<12>>, 0),
       IF arm = "Load" THEN Nd("LoadField", <<10>>, <<>>, <<10>>, <<13>>, 0)
                       ELSE Nd("Call", <<10>>, <<>>, <<10>>, <<13>>, 0),
       Nd("Merge", <<>>, <<>>, <<>>, <<12, 13>>, 0),
       Nd("EffectPhi", <<>>, <<>>, <<14, 15>>, <<16>>, 0),
       Nd("LoadField", <<10>>, <<>>, <<17>>, <<16>>, 0),
       Nd("Return", IF arm = "Load" THEN <<18, 15>> ELSE <<18>>,
          <<>>, <<18>>, <<16>>, 0) >>

BranchGraphs == {Branchy(a) : a \in {"Load", "Call"}}

(***************************************************************************)
(* A loop whose body loads field 0 of an object allocated before it and  *)
(* stores v back (the loaded value itself, a parameter or a constant).   *)
(*                                                                         *)
(*   1 Start 2 End 3 Parameter 4 16 5 7 6 BeginRegion 7 Allocate O        *)
(*   8 StoreField O.0 := 7 9 FinishRegion O 10 Loop 11 EffectPhi          *)
(*  12 LoadField O.0 13 StoreField O.0 := v 14 Branch 15 IfTrue           *)
(*  16 IfFalse 17 Return L 18 NumberConstant 11                          *)
(***************************************************************************)
Looping(v) ==
    << Nd("Start", <<>>, <<>>, <<>>, <<>>, 0),
       Nd("End", <<>>, <<>>, <<>>, <<17>>, 0),
       Nd("Parameter", <<>>, <<>>, <<>>, <<1>>, 0),
       Nd("NumberConstant", <<>>, <<>>, <<>>, <<>>, 16),
       Nd("NumberConstant", <<>>, <<>>, <<>>, <<>>, 7),
       Nd("BeginRegion", <<>>, <<>>, <<1>>, <<>>, 0),
       Nd("Allocate", <<4>>, <<>>, <<6>>, <<1>>, 0),
       Nd("StoreField", <<7, 5>>, <<>>, <<7>>, <<1>>, 0),
       Nd("FinishRegion", <<7>>, <<>>, <<8>>, <<>>, 0),
       Nd("Loop", <<>>, <<>>, <<>>, <<1, 15>>, 0),
       Nd("EffectPhi", <<>>, <<>>, <<9, 13>>, <<10>>, 0),
       Nd("LoadField", <<9>>, <<>>, <<11>>, <<10>>, 0),
       Nd("StoreField", <<9, CASE v = "Load" -> 12 [] v = "Param" -> 3 [] OTHER -> 18>>,
          <<>>, <<12>>, <<10>>, 0),
       Nd("Branch", <<3>>, <<>>, <<>>, <<10>>, 0),
       Nd("IfTrue", <<>>, <<>>, <<>>, <<14>>, 0),
       Nd("IfFalse", <<>>, <<>>, <<>>, <<14>>, 0),
       Nd("Return", <<12>>, <<>>, <<13>>, <<16>>, 0),
       Nd("NumberConstant", <<>>, <<>>, <<>>, <<>>, 11) >>

LoopGraphs == {Looping(v) : v \in {"Load", "Param", "Const"}}

(***************************************************************************)
(* An inner object I (field 0 := 7) stored into an outer object O; then a *)
(* branch writes I.0 := 11 on one arm and reads O.0 on the other, and I.0 *)
(* is read after the merge.  The arms share O (only I is copied by the    *)
(* write), while I differs between them.                                  *)
(*                                                                         *)
(*   1 Start 2 End 3 Parameter 4 16 5 7 6 11 7 BeginRegion 8 Allocate I   *)
(*   9 StoreField I.0 := 7 10 FinishRegion I 11 BeginRegion 12 Allocate O *)
(*  13 StoreField O.0 := I 14 FinishRegion O 15 Branch 16 IfTrue          *)
(*  17 IfFalse 18 StoreField I.0 := 11 19 LoadField O.0 20 Merge          *)
(*  21 EffectPhi 22 LoadField I.0 23 Return                               *)
(***************************************************************************)
NestedBranch ==
    << Nd("Start", <<>>, <<>>, <<>>, <<>>, 0),
       Nd("End", <<>>, <<>>, <<>>, <<23>>, 0),
       Nd("Parameter", <<>>, <<>>, <<>>, <<1>>, 0),
       Nd("NumberConstant", <<>>, <<>>, <<>>, <<>>, 16),
       Nd("NumberConstant", <<>>, <<>>, <<>>, <<>>, 7),
       Nd("NumberConstant", <<>>, <<>>, <<>>, <<>>, 11),
       Nd("BeginRegion", <<>>, <<>>, <<1>>, <<>>, 0),
       Nd("Allocate", <<4>>, <<>>, <<7>>, <<1>>, 0),
       Nd("StoreField", <<8, 5>>, <<>>, <<8>>, <<1>>, 0),
       Nd("FinishRegion", <<8>>, <<>>, <<9>>, <<>>, 0),
       Nd("BeginRegion", <<>>, <<>>, <<10>>, <<>>, 0),
       Nd("Allocate", <<4>>, <<>>, <<11>>, <<1>>, 0),
       Nd("StoreField", <<12, 10>>, <<>>, <<12>>, <<1>>, 0),
       Nd("FinishRegion", <<12>>, <<>>, <<13>>, <<>>, 0),
       Nd("Branch", <<3>>, <<>>, <<>>, <<1>>, 0),
       Nd("IfTrue", <<>>, <<>>, <<>>, <<15>>, 0),
       Nd("IfFalse", <<>>, <<>>, <<>>, <<15>>, 0),
       Nd("StoreField", <<10, 6>>, <<>>, <<14>>, <<16>>, 0),
       Nd("LoadField", <<14>>, <<>>, <<14>>, <<17>>, 0),
       Nd("Merge", <<>>, <<>>, <<>>, <<16, 17>>, 0),
       Nd("EffectPhi", <<>>, <<>>, <<18, 19>>, <<20>>, 0),
       Nd("LoadField", <<10>>, <<>>, <<21>>, <<20>>, 0),
       Nd("Return", <<22>>, <<>>, <<22>>, <<20>>, 0) >>

(***************************************************************************)
(* An object P (field 1 := 7) and an object Q (field 0 := P); after both  *)
(* regions, P.0 := Q, or P.0 := P when self.  Q.0 is loaded and field 1  *)
(* of the loaded object read.  The objects hold each other (or P itself). *)
(*                                                                         *)
(*   1 Start 2 End 3 Parameter 4 16 5 7 6 BeginRegion 7 Allocate P        *)
(*   8 StoreField P.1 := 7 9 FinishRegion P 10 BeginRegion 11 Allocate Q  *)
(*  12 StoreField Q.0 := P 13 FinishRegion Q 14 StoreField P.0 := Q or P  *)
(*  15 LoadField Q.0 16 LoadField 15.1 17 Return                          *)
(***************************************************************************)
Cyclic(self) ==
    << Nd("Start", <<>>, <<>>, <<>>, <<>>, 0),
       Nd("End", <<>>, <<>>, <<>>, <<17>>, 0),
       Nd("Parameter", <<>>, <<>>, <<>>, <<1>>, 0),
       Nd("NumberConstant", <<>>, <<>>, <<>>, <<>>, 16),
       Nd("NumberConstant", <<>>, <<>>, <<>>, <<>>, 7),
       Nd("BeginRegion", <<>>, <<>>, <<1>>, <<>>, 0),
       Nd("Allocate", <<4>>, <<>>, <<6>>, <<1>>, 0),
       Nd("StoreField", <<7, 5>>, <<>>, <<7>>, <<1>>, 8),
       Nd("FinishRegion", <<7>>, <<>>, <<8>>, <<>>, 0),
       Nd("BeginRegion", <<>>, <<>>, <<9>>, <<>>, 0),
       Nd("Allocate", <<4>>, <<>>, <<10>>, <<1>>, 0),
       Nd("StoreField", <<11, 9>>, <<>>, <<11>>, <<1>>, 0),
       Nd("FinishRegion", <<11>>, <<>>, <<12>>, <<>>, 0),
       Nd("StoreField", <<9, IF self THEN 9 ELSE 13>>, <<>>, <<13>>, <<1>>, 0),
       Nd("LoadField", <<13>>, <<>>, <<14>>, <<1>>, 0),
       Nd("LoadField", <<15>>, <<>>, <<15>>, <<1>>, 8),
       Nd("Return", <<16>>, <<>>, <<16>>, <<1>>, 0) >>

CyclicGraphs == {Cyclic(b) : b \in BOOLEAN}

(***************************************************************************)
(* A one-field object P, initialised in its region (P.0 := 7), then an    *)
(* element store at a parameter index, and a load of P.0.                 *)
(*                                                                         *)
(*   1 Start 2 End 3 Parameter 4 8 5 7 6 BeginRegion 7 Allocate P         *)
(*   8 StoreField P.0 := 7 9 FinishRegion P 10 StoreElement P[param] := 7 *)
(*  11 LoadField P.0 12 Return                                            *)
(***************************************************************************)
ClearedFields ==
    << Nd("Start", <<>>, <<>>, <<>>, <<>>, 0),
       Nd("End", <<>>, <<>>, <<>>, <<12>>, 0),
       Nd("Parameter", <<>>, <<>>, <<>>, <<1>>, 0),
       Nd("NumberConstant", <<>>, <<>>, <<>>, <<>>, 8),
       Nd("NumberConstant", <<>>, <<>>, <<>>, <<>>, 7),
       Nd("BeginRegion", <<>>, <<>>, <<1>>, <<>>, 0),
       Nd("Allocate", <<4>>, <<>>, <<6>>, <<1>>, 0),
       Nd("StoreField", <<7, 5>>, <<>>, <<7>>, <<1>>, 0),
       Nd("FinishRegion", <<7>>, <<>>, <<8>>, <<>>, 0),
       Nd("StoreElement", <<9, 3, 5>>, <<>>, <<9>>, <<1>>, 0),
       Nd("LoadField", <<9>>, <<>>, <<10>>, <<1>>, 0),
       Nd("Return", <<11>>, <<>>, <<11>>, <<1>>, 0) >>

=============================================================================
