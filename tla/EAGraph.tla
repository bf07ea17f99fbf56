------------------------------ MODULE EAGraph ------------------------------
(***************************************************************************)
(* The part of the Sea-of-Nodes IR that the escape analysis reads.        *)
(*                                                                         *)
(* A graph is a sequence of node records; a node's NodeId is its index.    *)
(* A record keeps the node's opcode and its inputs in V8's input order:   *)
(* value inputs, frame-state input, effect inputs, control inputs (the    *)
(* operators used here have no context input).  The field p holds the     *)
(* operator parameter the pass reads: the value of a NumberConstant, the  *)
(* byte offset of a field access, the header size of an element access.  *)
(* New nodes (the phis and ObjectStates the pass creates) are appended,   *)
(* so they get the next NodeIds, as Graph::NewNode does.                  *)
(***************************************************************************)
EXTENDS Naturals, Sequences, FiniteSets, SequencesExt

\* Absent node pointer (nullptr).
NoNode == 0

\* kPointerSize of a 64-bit target.
kPointerSize == 8

Nd(op, vin, fs, ein, cin, p) ==
    [op |-> op, vin |-> vin, fs |-> fs, ein |-> ein, cin |-> cin, p |-> p]

Ids(g) == DOMAIN g

Op(g, n) == g[n].op

Inputs(g, n) == g[n].vin \o g[n].fs \o g[n].ein \o g[n].cin

ValueInputCount(g, n) == Len(g[n].vin)

EffectInputCount(g, n) == Len(g[n].ein)

FrameStateInputCount(g, n) == Len(g[n].fs)

\* Operators whose node produces an effect output.
EffectOutputOps == {"Start", "BeginRegion", "Allocate", "FinishRegion",
                    "StoreField", "LoadField", "StoreElement", "LoadElement",
                    "EffectPhi", "Call"}

EffectOutputCount(g, n) == IF Op(g, n) \in EffectOutputOps THEN 1 ELSE 0

\* Use edges of n: pairs <<user, input index>>, indices from 1.
UseEdges(g, n) ==
    UNION {{<<u, i>> : i \in {j \in DOMAIN Inputs(g, u) : Inputs(g, u)[j] = n}} :
           u \in Ids(g)}

\* use_edges() in list order: Node::AppendUse links a new use in front, so
\* the most recently created user (the highest NodeId) comes first, and
\* of its inputs the last one.
EdgeAfter(a, b) == a[1] > b[1] \/ (a[1] = b[1] /\ a[2] > b[2])

RECURSIVE EdgesInOrder(_)
EdgesInOrder(S) ==
    IF S = {} THEN <<>>
    ELSE LET first == CHOOSE e \in S : \A f \in S \ {e} : EdgeAfter(e, f)
         IN  <<first>> \o EdgesInOrder(S \ {first})

UseSeqOf(g, n) == EdgesInOrder(UseEdges(g, n))

Uses(g, n) == {e[1] : e \in UseEdges(g, n)}

\* An edge into the value inputs (index() < ValueInputCount + context).
IsValueEdge(g, e) == e[2] <= ValueInputCount(g, e[1])

\* NodeProperties::IsEffectEdge.
IsEffectEdge(g, e) ==
    LET k == ValueInputCount(g, e[1]) + FrameStateInputCount(g, e[1])
    IN  k < e[2] /\ e[2] <= k + EffectInputCount(g, e[1])

EffectInput(g, n) == g[n].ein[1]

ValueInput(g, n, i) == g[n].vin[i]

ControlInput(g, n) == g[n].cin[1]

\* EscapeStatusAnalysis::IsAllocation.
IsAllocation(g, n) == Op(g, n) \in {"Allocate", "FinishRegion"}

\* A FinishRegion wrapping an Allocate: it denotes the same object.
IsFinishOfAllocate(g, n) ==
    Op(g, n) = "FinishRegion" /\ Op(g, g[n].vin[1]) = "Allocate"

\* NumberMatcher::HasValue: the input is a compile-time number.
HasNumber(g, n) == Op(g, n) = "NumberConstant"

\* Nodes reachable from End over input edges (any kind).
RECURSIVE ReachFrom(_, _)
ReachFrom(g, S) ==
    LET T == S \cup UNION {{Inputs(g, n)[i] : i \in DOMAIN Inputs(g, n)} : n \in S}
    IN  IF T = S THEN S ELSE ReachFrom(g, T)

EndNode(g) == CHOOSE n \in Ids(g) : Op(g, n) = "End"

StartNode(g) == CHOOSE n \in Ids(g) : Op(g, n) = "Start"

Reachable(g) == ReachFrom(g, {EndNode(g)})

\* Loads and stores among the reachable nodes.
Loads(g) == {n \in Reachable(g) : Op(g, n) \in {"LoadField", "LoadElement"}}

Stores(g) == {n \in Reachable(g) : Op(g, n) \in {"StoreField", "StoreElement"}}

StoredValue(g, s) == IF Op(g, s) = "StoreField" THEN ValueInput(g, s, 2)
                                               ELSE ValueInput(g, s, 3)

\* The allocation a node denotes (a FinishRegion denotes its Allocate).
AllocOf(g, n) == IF IsFinishOfAllocate(g, n) THEN ValueInput(g, n, 1) ELSE n

(***************************************************************************)
(* The replacement table: rep[n] is the single-level replacement of n.    *)
(***************************************************************************)
\* EscapeAnalysis::replacement(id): NodeIds beyond the table have none.
RepOf(rep, n) == IF n \in DOMAIN rep THEN rep[n] ELSE NoNode

\* EscapeAnalysis::GetReplacement: the last link of the chain, or NoNode.
RECURSIVE GetReplacement(_, _)
GetReplacement(rep, n) ==
    IF RepOf(rep, n) = NoNode THEN NoNode
    ELSE IF RepOf(rep, RepOf(rep, n)) = NoNode THEN RepOf(rep, n)
         ELSE GetReplacement(rep, RepOf(rep, n))

\* EscapeAnalysis::ResolveReplacement: the chain's end, or n itself.
ResolveReplacement(rep, n) ==
    IF GetReplacement(rep, n) = NoNode THEN n ELSE GetReplacement(rep, n)

\* Users through which an object escapes only if the user itself escapes.
PassThroughOps == {"StoreField", "LoadField", "StoreElement", "LoadElement",
                   "FrameState", "StateValues", "ReferenceEqual", "FinishRegion"}

=============================================================================
