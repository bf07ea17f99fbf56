# TLA+ models of TurboFan's escape analysis

The models check the escape analysis in `src/src/compiler/escape-analysis.cc`. The analysis runs in three phases, driven by `EscapeAnalysis::Run` (lines 765-775):

1. **C1, alias assignment.** `EscapeStatusAnalysis::AssignAliases` walks the graph depth-first from End. It gives every reachable Allocate, and every FinishRegion of an Allocate, a dense alias. It pushes each allocation onto the status stack.
2. **C2/C3, object analysis.** `EscapeAnalysis::RunObjectAnalysis` is a worklist over effect edges.
   - It attaches a `VirtualState` to each effect node: one `VirtualObject` pointer per alias.
   - States are shared between nodes and copied on write (`kCopyRequired`).
   - States are merged at EffectPhis, and the merge synthesises value Phis for fields.
   - Loads get replacement edges to the stored values (C3), including loads whose base is a Phi.
3. **C4, status analysis.** `EscapeStatusAnalysis::RunStatusAnalysis` is a LIFO worklist over the status stack. It marks allocations, Phis and stored values as escaped from their uses, reading the replacements of phase 2.

After `Run`, the reducer calls `GetOrCreateObjectState` (C5) to describe a virtual allocation at an effect as an `ObjectState` node. The node is built recursively for nested objects and cached on the `VirtualObject`. `src/unnamed/part_000` holds operator declarations and PPC frame accessors, which are not modelled.

## Modules

| Module | Models | State ↔ code |
|---|---|---|
| `EAGraph` | The IR the pass reads | A graph is a sequence of node records (opcode, value/frame-state/effect/control inputs, parameter). A NodeId is the record's index. Use edges are listed most recent first, as `Node::AppendUse` links them. It also holds the replacement-chain lookups (`GetReplacement`, `ResolveReplacement`) that C2 and C4 share. |
| `EAScenarios` | Input graphs | Nested objects (with the inner object initialised by a field store in `NestedInit`), the S4 diamond, a branch with a shared state, a loop, a cycle between two objects (`Cyclic`: Q holds P and P holds Q or itself), and `ClearedFields` (a store at a parameter index into an object with a stored field), and `NestedLateEscape` (O escapes only through a load of its field 1 whose value is stored into the parameter, after the store of I into O has been processed). Each takes options that pick the users of the objects. |
| `EAAliases` | C1 | `stack`=`stack_`, `aliases`=`aliases_`, `nextAlias`=`next_free_alias_`, `statusStack`=`status_stack_`. One `Visit` is one iteration of the `while` loop, with disjuncts for the Allocate, FinishRegion and default cases. |
| `EAObjects` | C2 and C3 | The heap is explicit. `states` and `objs` are sequences indexed by pointer, and `vstate` is `virtual_states_`, so sharing, in-place updates and copy-on-write are exactly those of the code. `queue`/`inQueue` are the deque and `kInQueue`, and `replacement` is `replacements_`. One `Step` is one iteration of the `while` loop: pop, `Process`, push the effect uses. Each handler threads a record `h` through the calls it makes. |
| `EAStatus` | C4 | `status` is the flag set per node (`kTracked`, `kEscaped`, `kOnStack`, `kVisited`), and `statusStack` is `status_stack_`. `crashedAt` records an `UNREACHABLE()`. `aliases` is the walk's `aliases_`, read by `IsNotReachable`: a Phi created by the object analysis lies beyond the table and counts as reachable. One `Step` pops, processes and marks one node. The module has no `Init`: its inputs (the stack order of the walk, the replacements and escapes of phase 2) are fixed by the earlier phases, so it runs only inside `EAPass`. |
| `EAObjectState` | C5 | `heap` is the analysis result: each object's fields, the object each allocation maps to per effect, and the `IsVirtual` set. `objState` is `VirtualObject::object_state_`, and `osNodes` lists the ObjectState nodes created. `GetOrCreateObjectState` and `FixFields` are RECURSIVE operators that thread a record through the recursion. One `Request` is one whole call. A write past a node's inputs is recorded as `fault = "oob"`, and a recursion deeper than the number of objects as `"overflow"`. `front()` of an empty field vector (line 1458) is undefined behaviour: a request that reaches it may either go on or record `fault = "front"`, and TLC explores both. |
| `EAPass` | `EscapeAnalysis::Run` and the reducer's requests | It composes C1, C2/C3 and C4 over one graph (`INSTANCE EAAliases`, `EAObjects`, `EAStatus`; the variables are shared by name). `phase` is the position in `Run`. The hand-overs are `StartObjectAnalysis` and `StartStatusAnalysis`: the latter merges the escaped flags of phase 2 into the shared `status_` vector. `Finish` returns from `Run` and records the result in `result`. `Rerun` calls `Run` again, resizing but never clearing the tables, as the code does. `Materialise` is one reducer request (C5, `INSTANCE EAObjectState WITH heap <- result`). `ExistsVirtualAllocate` and `CompareVirtualObjects` are the reducer's two other queries, evaluated on the result. |

`MCAliases`, `MCObjects`, `MCObjectState` and `MCPass` give the constants their values for TLC.

## Runs

| Run | Result | What it shows |
|---|---|---|
| `aliases` (MCAliases.cfg) | pass | When the walk ends: the aliases are dense, exactly the reachable Allocates are numbered and queued at their alias position, FinishRegions share their allocation's alias, and everything else is marked by reachability. |
| `status` (MCPassStatus.cfg) | pass | The status analysis inside `Run`, on the stack order of the walk and the replacements of the object analysis, over nested objects of either size with the store inside or after the region, `NestedLateEscape` and the S4 diamonds. `StatusTypeOK`: an escaped node is tracked. `FinishEscapeDragsAllocation`: an escaped FinishRegion has an escaped Allocate. `VirtualOnlyInAnalyzableUses`: every use of a virtual allocation is one the reducer can rewrite, and an object stored into another is virtual only if that one is. The FinishRegion's escape revisits only its inputs (line 741), so a store processed before its object escaped is run again only because the stored object's FinishRegion queues its uses on its first visit. The walk discovers a store's value before its object, so that first visit comes after the object's escape on every graph here. |
| `status_dynamic_size` (MCPassStatusDynamicSize.cfg) | violation | **Code bug (line 653).** An Allocate of non-constant size escapes and returns, while its FinishRegion stays virtual. |
| `status_effect_free_use` (MCPassStatusEffectFreeUse.cfg) | violation | **Divergence (line 722).** A pure user (NumberAdd) of a load that the object analysis replaced by an allocation hits `UNREACHABLE()`, where the specification says the object escapes. |
| `status_s4_phi` (MCPassStatusS4.cfg) | violation | **Divergence (lines 675, 608).** In scenario S4 both allocations escape through `phi_escaping` (line 675). The Phi itself escapes through `IsAllocationPhi` (line 608), which counts the Merge control input as a non-allocation. The specification expects both to stay virtual. |
| `objects` (MCObjects.cfg) | pass | `LoadsReplacedByStoredValue`: a replaced load of an allocation's field is replaced by the value every effect path to it stores there. The checker is a reference definition, `HoldsAt`, that walks back over effect edges and accepts a Phi at a merge. `ObjectAnalysisTerminates`: the worklist empties, including around loops. |
| `objectstate_index` | violation | **Code bug (line 1471).** The inputs are the non-null fields, compacted, but the nested ObjectState of field i is written at input i. With a null field before a nested object, a constant is overwritten and the raw allocation stays, or the write lands past the inputs. |
| `pass` (MCPass.cfg) | pass | The composed `Run` on every scenario graph, then a second `Run` or any sequence of requests. `PassTerminates`: Run returns. `VirtualLoadsReplaced`: a load of a known field of a virtual allocation is replaced by the value stored there (a load of an unknown object or field, which returns early at line 1308, is outside it). `RunIdempotent`: a second `Run` keeps the first run's replacements and escape statuses. `MaterialisedMatchesEffect`: every ObjectState describes its effect's objects on these graphs. `PassRecursionTerminates`: requests return, also on the cyclic graph, because the node is cached before the fields are visited. `PassFieldsNonEmptyAtFront`: no request takes `front()` of an empty field vector when every allocation has a constant size (on these graphs the element store's base is the FinishRegion, and line 1422 escapes it whenever it clears its fields; a store based on the Allocate inside its region could leave the FinishRegion virtual, as in the line-653 bug, and no graph has that shape). `RunIdempotent` also compares the answers of `ExistsVirtualAllocate` and `CompareVirtualObjects` before and after. |
| `pass_dynamic_size_front` (MCPassDynamic.cfg) | violation | **Code bug (line 1458).** The inner allocation has a non-constant size, so it gets a VirtualObject with no fields (line 1155). Its FinishRegion stays virtual (the line-653 bug), and a request for the outer object's ObjectState recurses into it and takes `front()` of an empty vector. |
| `pass_objectstate_stale` | violation | **Spec gap (line 1446).** The cached node is returned at every effect. In `NestedBranch`, I is nested in O, and a write to I on one arm copies I but shares O. A request on the other arm caches O's ObjectState, and the later request at the write returns it, with I.0 = 7 where it is 11. |
| `objects_s4_load_phi` | violation | **Code bug (line 1270).** `ProcessLoadFromPhi` collects the objects from the load's inputs, not the Phi's, so the load through the Phi in S4 is never replaced. The same model with the inputs taken from `from` passes. |

Every property of a passing run has a mutant in `PROJECT.json`: a plausible slip in the mapped definition that TLC catches. The slips are:
- an alias taken after the increment;
- a FinishRegion that does not push its allocation;
- a set escape that drops `kTracked`;
- no revisit on a FinishRegion escape;
- a FinishRegion whose first visit queues no uses;
- a missing `kCopyRequired` at branch points;
- opaque users keeping fields;
- a merge that creates new Phis every time instead of updating its own;
- a resize that skips the phi marks;
- a nested ObjectState appended instead of replacing its input;
- an ObjectState not cached on its object;
- a status hand-over that drops the old status;
- an element store at an unknown index that clears the fields without escaping the object.

## Bounds

- **Graphs.** Every scenario is one well-formed IR graph of 16-22 nodes. The option sets cover every case of the user switches:
  - `CheckUsesForEscape`: Phi, pass-through, ObjectIsSmi, Select, default;
  - `ProcessAllocationUsers`: allowed or opaque users;
  - element accesses with and without a constant index.

  The graphs include a branch whose shared state must be copied, a diamond merge that needs a synthesised Phi, and a loop whose EffectPhi is revisited until the fields stop changing. More nodes would repeat these shapes.
- **Status analysis.** The status stack and the replacements are those the walk and the object analysis produce on each graph, so only the orders the code really takes are explored. The Nested graphs place the store of I into O inside and after O's region, with either size for I, and `NestedLateEscape` makes O escape on a later visit than the store, which is the order line 741 depends on.
- **C5 heaps.** `MCObjectState` feeds hand-made heaps to the index run: one heap whose outer object has the fields null, a nested virtual object and a constant, which is the smallest layout in which the compacted inputs and the field positions differ.
- **Composition.** `MCPass` runs the scenario graphs once and then either `Run` again, once, or requests in any order. `NestedBranch` is the smallest graph in which two effects share an outer object and differ in a nested one. The passing graph set has constant sizes and initialised fields only, so that the run states what the code guarantees for them. The dynamic size is checked on its own, as the violation it is.
- **`MaxHeap` = 80.** This bounds states + objects + nodes. The acyclic graphs use about 40, so the bound is only reached by a non-terminating run. The termination mutant is caught by exactly that: it stalls at the bound.

## Fairness

Each phase is a single-threaded `while` loop that runs until its container is empty. The specs assume weak fairness of `Next`. In `EAObjects` the fairness is written out as `[]<>~StepGuard \/ []<><<Next>>_vars`, where `StepGuard` is the loop condition plus the heap bound. This is exactly `ENABLED Step`, because every other conjunct of `Step` only assigns primed variables. Writing it out avoids TLC evaluating `ENABLED` over the whole handler. `EAPass` does the same with `PassGuard`, which is `ENABLED` of the phase steps and hand-overs up to `Finish`. The later requests and the second `Run` are up to the caller, so no fairness is assumed for them. The runs set `CHECK_DEADLOCK FALSE` because each loop really does stop when its worklist is empty, and the reducer may stop asking at any point.

## Not modelled

- **Requests interleaved with a second `Run`.** In `EAPass`, `Rerun` is only taken before any request. A request after a second `Run` would read `VirtualObject`s kept from the first, whose copy constructor also copies the cached `object_state_` (line 65). The reducer does not call `Run` twice, so this is not explored.
- **The size of the status vector.** Every node the analysis creates is followed by `ResizeStatusVector` (lines 1124, 1287), so the vector is always large enough and the model indexes it by every node.
- **Status-stack orders the walk does not produce.** Line 741 would leave a stored object virtual if O's region were discovered before I's. The walk pushes a store's object before its value and so pops the value first, and the scenario graphs never reverse that. A graph with a reversed discovery order would need a store whose value is reached only through a deeper path than its object.
- **The reducer itself.** It is the caller of C5 and is outside the analysis. Requests name any analysed effect and any allocation, which is what the public interface allows.
- **Outside the state of the analysis:**
  - debug printing and `TRACE`;
  - zone allocation;
  - the `CHECK`s on element sizes;
  - the declarations in `src/unnamed/part_000`.
