---------------------------- MODULE EAObjectState ----------------------------
(***************************************************************************)
(* ObjectState materialisation (EscapeAnalysis::GetOrCreateObjectState).  *)
(*                                                                         *)
(* After the analysis, the reducer asks for the ObjectState of a virtual   *)
(* allocation as seen at an effect node, to describe it in a frame state. *)
(* The virtual objects and the states are what the analysis left: a heap  *)
(* of objects, each with its field snapshot, and for every effect the     *)
(* object each alias maps to.  One step is one request, the whole         *)
(* recursive call included.                                               *)
(*                                                                         *)
(* Values are NodeIds: NoNode (0) is a null field, an alias a stands for  *)
(* the allocation node of that alias (its FinishRegion), other numbers   *)
(* stand for other nodes, and OS(k) for the k-th ObjectState node        *)
(* created.  Allocations are never replaced, so ResolveReplacement of an  *)
(* allocation node is the node itself.                                    *)
(***************************************************************************)
EXTENDS Naturals, Sequences, SequencesExt

CONSTANT Heaps      \* records [fields, states, virtual]

NoNode == 0

\* An alias with no object in a state (nullptr in info_); objects are
\* VirtualObject pointers 1, 2, ...
NoObj == 0

VARIABLES
    heap,       \* the analysis result (fixed)
    objState,   \* VirtualObject::object_state_ per object: 0 or an index
    osNodes,    \* the ObjectState nodes: [vobj, ins] in creation order
    fault,      \* "none", "oob" (write past the inputs), "overflow",
                \* "front" (front() of an empty vector aborted)
    last        \* the last request and its answer

vars == <<heap, objState, osNodes, fault, last>>

Objs == DOMAIN heap.fields

\* The effect nodes a request may name, and the allocation nodes.
Effects == DOMAIN heap.states

Allocs == DOMAIN heap.states[CHOOSE e \in Effects : TRUE]

\* The ObjectState node created k-th.
OS(k) == 100 + k

IsOS(x) == x > 100

\* A recursion deeper than the number of objects revisits one of them;
\* past this depth the call would not return (stack overflow).
MaxDepth == Cardinality(Objs) + 1

\* The value inputs of a new ObjectState: the non-null fields, compacted.
NonNullFields(v) == SelectSeq(heap.fields[v], LAMBDA f : f # NoNode)

\* A slip of the store: the nested ObjectState added as an extra input.
ReplaceValueInputAppend(h, k, x, index) ==
    [h EXCEPT !.nodes[k].ins = Append(@, x)]

\* NodeProperties::ReplaceValueInput(node, value, index).  Past the last
\* input the write lands outside the node: undefined, recorded as "oob".
ReplaceValueInput(h, k, x, index) ==
    IF index >= Len(h.nodes[k].ins) THEN [h EXCEPT !.fault = "oob"]
    ELSE [h EXCEPT !.nodes[k].ins[index + 1] = x]

\* A slip: the node is not cached on the object (SetObjectState lost).
NewObjectStateUncached(h, v) ==
    [h EXCEPT !.nodes = Append(@, [vobj |-> v, ins |-> NonNullFields(v)])]

\* Create the node and cache it on the object before the fields are
\* visited (lines 1449-1459); a call that reaches the object again takes
\* the cached node.  An object with no non-null field passes front() of
\* an empty vector to NewNode: undefined, so the call records it.
NewObjectState(h, v) ==
    [h EXCEPT !.nodes = Append(@, [vobj |-> v, ins |-> NonNullFields(v)]),
              !.os[v] = Len(h.nodes) + 1,
              !.emptyFront = @ \/ NonNullFields(v) = <<>>]

RECURSIVE GetOrCreateObjectState(_, _, _, _), FixFields(_, _, _, _, _, _)

\* The loop of lines 1466-1474 from field i on: a field that is itself a
\* virtual object gets its ObjectState put at value input i.
FixFields(h, e, v, k, i, d) ==
    IF h.fault # "none" \/ i >= Len(heap.fields[v]) THEN h
    ELSE LET f == heap.fields[v][i + 1]
             c == IF f = NoNode THEN [h |-> h, r |-> NoNode]
                  ELSE GetOrCreateObjectState(h, e, f, d + 1)
             h1 == IF c.r = NoNode THEN c.h ELSE ReplaceValueInput(c.h, k, c.r, i)
         IN  FixFields(h1, e, v, k, i + 1, d)

\* GetOrCreateObjectState(effect, node): [h, r] with r the ObjectState or
\* NoNode (nullptr).
GetOrCreateObjectState(h, e, n, d) ==
    IF n \notin Allocs \/ n \notin heap.virtual \/ heap.states[e][n] = NoObj
    THEN [h |-> h, r |-> NoNode]
    ELSE LET v == heap.states[e][n]
         IN  IF h.os[v] # 0 THEN [h |-> h, r |-> OS(h.os[v])]
             ELSE IF d > MaxDepth THEN [h |-> [h EXCEPT !.fault = "overflow"], r |-> NoNode]
             ELSE LET h1 == NewObjectState(h, v)
                      k == Len(h1.nodes)
                  IN  [h |-> FixFields(h1, e, v, k, 0, d), r |-> OS(k)]

-----------------------------------------------------------------------------
Init ==
    /\ heap \in Heaps
    /\ objState = [v \in Objs |-> 0]
    /\ osNodes = <<>>
    /\ fault = "none"
    /\ last = [e |-> NoNode, n |-> NoNode, r |-> NoNode]

\* The reducer asks for the ObjectState of allocation n at effect e.  A
\* call that took front() of an empty vector either goes on (NewNode reads
\* no input) or aborts, as a build with checked containers does.
Request(e, n) ==
    /\ fault = "none"
    /\ LET c == GetOrCreateObjectState([os |-> objState, nodes |-> osNodes,
                                        fault |-> fault, emptyFront |-> FALSE],
                                       e, n, 1)
       IN  /\ objState' = c.h.os
           /\ osNodes' = c.h.nodes
           /\ fault' \in {c.h.fault} \cup (IF c.h.emptyFront THEN {"front"} ELSE {})
           /\ last' = [e |-> e, n |-> n, r |-> c.r]
    /\ UNCHANGED heap

Next == \E e \in Effects, n \in Allocs : Request(e, n)

Spec == Init /\ [][Next]_vars

-----------------------------------------------------------------------------
\* Type invariant: an ObjectState has one input per non-null field.
TypeOK ==
    /\ objState \in [Objs -> 0..Len(osNodes)]
    /\ \A k \in 1..Len(osNodes) :
          /\ osNodes[k].vobj \in Objs
          /\ Len(osNodes[k].ins) = Len(NonNullFields(osNodes[k].vobj))
    /\ fault \in {"none", "oob", "overflow", "front"}

(***************************************************************************)
(* The recursion returns on every heap, cyclic ones included (an object   *)
(* holding itself, two objects holding each other): the node is cached on *)
(* the object before its fields are visited, so a second visit stops.     *)
(***************************************************************************)
RecursionTerminates == fault # "overflow"

(***************************************************************************)
(* Input i of an ObjectState stands for the i-th non-null field of its    *)
(* object: the field's node itself, or the ObjectState of an object that *)
(* field's allocation node denotes in some effect's state; and no write  *)
(* lands past the inputs.  It is about the loop of lines 1466-1474,    *)
(* which indexes the compacted inputs by the field's uncompacted         *)
(* position.                                                             *)
(***************************************************************************)
ObjectStateInputsInFieldOrder ==
    /\ fault # "oob"
    /\ \A k \in 1..Len(osNodes) :
          LET fl == NonNullFields(osNodes[k].vobj)
          IN  \A j \in 1..Len(fl) :
                 \/ osNodes[k].ins[j] = fl[j]
                 \/ /\ IsOS(osNodes[k].ins[j])
                    /\ osNodes[k].ins[j] - 100 \in 1..Len(osNodes)
                    /\ fl[j] \in Allocs
                    /\ \E e \in Effects :
                          heap.states[e][fl[j]] = osNodes[osNodes[k].ins[j] - 100].vobj

(***************************************************************************)
(* No request takes front() of an empty field vector: every object it     *)
(* builds an ObjectState for has a non-null field.  It is about line 1458, *)
(* &cache_->fields().front() when all of the object's fields are null,   *)
(* as after ClearAllFields on a store with a non-constant index.          *)
(***************************************************************************)
FieldsNonEmptyAtFront == fault # "front"

\* The snapshot x describes field value f as it is at effect e: the same
\* node, or, for a virtual object, an ObjectState whose inputs describe
\* that object's non-null fields at e.
RECURSIVE Describes(_, _, _, _)
Describes(x, e, f, seen) ==
    IF f \in Allocs /\ f \in heap.virtual /\ heap.states[e][f] # NoObj
    THEN LET v == heap.states[e][f]
             fl == NonNullFields(v)
         IN  /\ IsOS(x) /\ x - 100 \in 1..Len(osNodes)
             /\ \/ <<x, v>> \in seen
                \/ LET ins == osNodes[x - 100].ins
                   IN  /\ Len(ins) = Len(fl)
                       /\ \A j \in 1..Len(fl) :
                             Describes(ins[j], e, fl[j], seen \cup {<<x, v>>})
    ELSE x = f

(***************************************************************************)
(* What a request at effect e returns describes the object, and the      *)
(* objects nested in it, with the fields they have at e (spec 4.5: the   *)
(* object's current field snapshot).  It is about the ObjectState cached *)
(* on a VirtualObject that several effects' states share, while a nested *)
(* object differs between them.                                          *)
(***************************************************************************)
ObjectStateMatchesEffect ==
    (fault = "none" /\ last.r # NoNode) => Describes(last.r, last.e, last.n, {})

=============================================================================
