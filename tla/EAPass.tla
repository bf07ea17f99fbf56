------------------------------- MODULE EAPass -------------------------------
(***************************************************************************)
(* The whole pass (EscapeAnalysis::Run): the alias walk, the object        *)
(* analysis and the status analysis run one after the other on one graph, *)
(* each phase reading what the earlier ones left in the shared tables.    *)
(*                                                                         *)
(* The phases are the modules EAAliases, EAObjects and EAStatus, with     *)
(* their variables shared by name: the object analysis reads the alias    *)
(* table the walk built (aliasOf is aliases), and the status analysis     *)
(* pops the status stack the walk filled, over the graph grown by the     *)
(* object analysis' Phis and with the replacements it installed.         *)
(*                                                                         *)
(* The flags kOnStack and kEscaped|kTracked live in one status vector in  *)
(* the code.  Before the status analysis the only readers of those flags  *)
(* are EnqueueForStatusAnalysis (kOnStack, kept here as membership of     *)
(* statusStack) and the object analysis' own escapes (kept in escaped);  *)
(* the hand-over to RunStatusAnalysis writes both into status.            *)
(***************************************************************************)
EXTENDS EAGraph, SequencesExt

CONSTANTS Graphs, MaxHeap

VARIABLES
    ir, stack, aliases, nextAlias, statusStack,              \* C1
    queue, inQueue, vstate, states, objs, replacement,       \* C2, C3
    escaped, fault,
    status, crashedAt,                                       \* C4
    phase,         \* the statement of Run executing
    run,           \* how many times Run has been called
    first,         \* the results of the first Run (history)
    result,        \* the analysis result the reducer reads (PassHeap)
    objState, osNodes, osFault, osLast   \* C5, see EAObjectState

aliasVars == <<stack, aliases, nextAlias, statusStack>>
objVars == <<queue, inQueue, vstate, states, objs, replacement, escaped, fault>>
runVars == <<run, first>>
osVars == <<result, objState, osNodes, osFault, osLast>>
vars == <<ir, aliasVars, objVars, status, crashedAt, phase, runVars, osVars>>

A == INSTANCE EAAliases
O == INSTANCE EAObjects WITH aliasOf <- aliases
S == INSTANCE EAStatus

\* The analysis result as GetOrCreateObjectState reads it: the objects
\* with their fields, for every analysed effect the object each
\* allocation node resolves to, and the nodes IsVirtual holds for.
AllocNodes == {n \in Ids(ir) : IsAllocation(ir, n)}

Analysed == {e \in DOMAIN vstate : vstate[e] # 0}

PassHeap ==
    LET hh == [st |-> states, ob |-> objs, rep |-> replacement]
    IN  [fields  |-> [o \in 1..Len(objs) |-> objs[o].fields],
         states  |-> [e \in Analysed |-> [n \in AllocNodes |->
                        O!ResolveVirtualObject(hh, vstate[e], n)]],
         virtual |-> {n \in AllocNodes : S!IsVirtual(n)}]

\* GetOrCreateObjectState over that result (the Init of EAObjectState,
\* which picks a heap from Heaps, is not used here).
C5 == INSTANCE EAObjectState
        WITH heap <- result, Heaps <- {}, fault <- osFault, last <- osLast

Init ==
    /\ A!Init
    /\ queue = <<StartNode(ir)>>
    /\ inQueue = {}
    /\ vstate = [n \in Ids(ir) |-> 0]
    /\ states = <<>>
    /\ objs = <<>>
    /\ replacement = [n \in Ids(ir) |-> NoNode]
    /\ escaped = {}
    /\ fault = FALSE
    /\ status = [n \in Ids(ir) |-> {}]
    /\ crashedAt = NoNode
    /\ phase = "aliases"
    /\ run = 1
    /\ first = [ids |-> {}, rep |-> <<>>, esc |-> {}, virt |-> {},
                exists |-> FALSE, cmp |-> {}]
    /\ result = [fields |-> <<>>, states |-> <<>>, virtual |-> {}]
    /\ objState = <<>>
    /\ osNodes = <<>>
    /\ osFault = "none"
    /\ osLast = [e |-> NoNode, n |-> NoNode, r |-> NoNode]

\* One iteration of the walk of AssignAliases.
AliasStep ==
    /\ phase = "aliases"
    /\ A!Visit
    /\ UNCHANGED <<objVars, status, crashedAt, phase, runVars, osVars>>

\* The walk is over: `if (status_analysis_.AliasCount() > 0)` starts the
\* object analysis, else Run returns.
StartObjectAnalysis ==
    /\ phase = "aliases"
    /\ A!Done
    /\ phase' = IF nextAlias > 0 THEN "objects" ELSE "done"
    /\ UNCHANGED <<ir, aliasVars, objVars, status, crashedAt, runVars, osVars>>

\* One iteration of the worklist of RunObjectAnalysis.
ObjectStep ==
    /\ phase = "objects"
    /\ O!Step
    /\ UNCHANGED <<aliasVars, status, crashedAt, phase, runVars, osVars>>

\* A slip of ResizeStatusVector: the vector rebuilt (assign) rather than
\* grown, so the flags of an earlier Run are lost.
StartStatusAnalysisFresh ==
    /\ phase = "objects"
    /\ queue = <<>>
    /\ ~fault
    /\ status' = [n \in Ids(ir) |->
                    (IF n \in escaped THEN {S!Tracked, S!Escaped} ELSE {})
                    \cup (IF n \in ToSet(statusStack) THEN {S!OnStack} ELSE {})]
    /\ phase' = "status"
    /\ UNCHANGED <<ir, aliasVars, objVars, crashedAt, runVars, osVars>>

\* The queue is empty: RunStatusAnalysis starts.  ResizeStatusVector
\* covers the Phis the object analysis added; the flags are those set
\* by EnqueueForStatusAnalysis and by the object analysis' SetEscaped.
StartStatusAnalysis ==
    /\ phase = "objects"
    /\ queue = <<>>
    /\ ~fault
    /\ status' = [n \in Ids(ir) |->
                    (IF n \in DOMAIN status THEN status[n] ELSE {})
                    \cup (IF n \in escaped THEN {S!Tracked, S!Escaped} ELSE {})
                    \cup (IF n \in ToSet(statusStack) THEN {S!OnStack} ELSE {})]
    /\ phase' = "status"
    /\ UNCHANGED <<ir, aliasVars, objVars, crashedAt, runVars, osVars>>

\* One iteration of the worklist of RunStatusAnalysis.
StatusStep ==
    /\ phase = "status"
    /\ S!Step
    /\ UNCHANGED <<stack, aliases, nextAlias, queue, inQueue, vstate, states,
                   objs, escaped, fault, phase, runVars, osVars>>

\* status_stack_ is empty: Run returns.
Finish ==
    /\ phase = "status"
    /\ statusStack = <<>>
    /\ crashedAt = NoNode
    /\ phase' = "done"
    /\ result' = PassHeap
    /\ objState' = [o \in 1..Len(objs) |-> 0]
    /\ UNCHANGED <<ir, aliasVars, objVars, status, crashedAt, runVars,
                   osNodes, osFault, osLast>>

\* EscapeAnalysis::ExistsVirtualAllocate: some node of the alias map has
\* an object alias and a virtual status.
ExistsVirtualAllocate ==
    \E id \in DOMAIN aliases : aliases[id] < A!Untrackable /\ S!IsVirtual(id)

\* EscapeAnalysis::CompareVirtualObjects: both resolve to the same node
\* or to equivalent Phis.
CompareVirtualObjects(left, right) ==
    O!EquivalentPhi(ir, ResolveReplacement(replacement, left),
                        ResolveReplacement(replacement, right))

\* What a caller reads after Run: GetReplacement, IsEscaped, IsVirtual,
\* ExistsVirtualAllocate and CompareVirtualObjects on virtual nodes.
Results ==
    LET virt == {n \in Ids(ir) : S!IsVirtual(n)}
    IN  [ids    |-> Ids(ir),
         rep    |-> [n \in DOMAIN replacement |-> GetReplacement(replacement, n)],
         esc    |-> {n \in Ids(ir) : S!Escaped \in status[n]},
         virt   |-> virt,
         exists |-> ExistsVirtualAllocate,
         cmp    |-> {p \in virt \X virt : CompareVirtualObjects(p[1], p[2])}]

\* Run is called again on the same graph.  Nothing is reset: aliases_,
\* status_, virtual_states_ and replacements_ are only resized, and
\* next_free_alias_ keeps counting; AssignAliases pushes End again and
\* the object analysis starts again from Start.
Rerun ==
    /\ phase = "done"
    /\ run = 1
    /\ osNodes = <<>>
    /\ run' = 2
    /\ first' = Results
    /\ stack' = <<EndNode(ir)>>
    /\ aliases' = [n \in Ids(ir) |->
                     IF n = EndNode(ir) THEN A!Untrackable
                     ELSE IF n \in DOMAIN aliases THEN aliases[n] ELSE A!NotReachable]
    /\ replacement' = [n \in Ids(ir) |->
                         IF n \in DOMAIN replacement THEN replacement[n] ELSE NoNode]
    /\ vstate' = [n \in Ids(ir) |-> IF n \in DOMAIN vstate THEN vstate[n] ELSE 0]
    /\ queue' = <<StartNode(ir)>>
    /\ phase' = "aliases"
    /\ UNCHANGED <<ir, nextAlias, statusStack, inQueue, states, objs, escaped,
                   fault, status, crashedAt, osVars>>

\* After Run, the reducer asks for the ObjectState of a virtual allocation
\* at an effect (EscapeAnalysis::GetOrCreateObjectState).
Materialise ==
    /\ phase = "done"
    /\ UNCHANGED <<ir, aliasVars, objVars, status, crashedAt, phase, runVars>>
    /\ \E e \in Analysed, n \in AllocNodes : C5!Request(e, n)

Next ==
    \/ AliasStep
    \/ StartObjectAnalysis
    \/ ObjectStep
    \/ StartStatusAnalysis
    \/ StatusStep
    \/ Finish
    \/ Rerun
    \/ Materialise

\* ENABLED Next, written out (see EAObjects!StepGuard): each phase is a
\* loop that steps, or hands over, until Run returns, the heap bound is
\* reached, or a fault or UNREACHABLE() stops it.
PassGuard ==
    \/ phase = "aliases"
    \/ phase = "objects" /\ (O!StepGuard \/ (queue = <<>> /\ ~fault))
    \/ phase = "status" /\ crashedAt = NoNode

\* Weak fairness of Next: the pass is a single thread.
Fairness == []<>~PassGuard \/ []<><<Next>>_vars

Spec == Init /\ [][Next]_vars /\ Fairness

-----------------------------------------------------------------------------
(***************************************************************************)
(* The status vector the status analysis works on is well formed: every *)
(* node escaped is tracked as well (SetEscaped sets kEscaped|kTracked),  *)
(* after the hand-over has merged in the object analysis' escapes.       *)
(***************************************************************************)
StatusTypeOK == phase \in {"status", "done"} => S!TypeOK

(***************************************************************************)
(* Run returns: the walk, both worklists and the hand-overs between them *)
(* all end, on every input graph, loops included.                       *)
(***************************************************************************)
PassTerminates == <>(phase = "done")

(***************************************************************************)
(* What the reducer relies on when Run returns: a load from an allocation *)
(* that the status analysis left virtual, of a field that holds a known  *)
(* value on every effect path into the load, is replaced by that value.  *)
(* The reducer deletes the stores into a virtual object, so such a load  *)
(* left in place would read a field nobody writes any more.  It relates  *)
(* all three phases: the aliases of the walk, the replacements of the    *)
(* object analysis and the escapes of the status analysis.              *)
(***************************************************************************)
VirtualLoadsReplaced ==
    phase = "done" =>
        \A l \in Loads(ir) :
            LET a == O!AccessBase(ir, replacement, l)
                Holds(v) == O!HoldsAt(ir, replacement, EffectInput(ir, l), a,
                                      O!LoadOffset(ir, l), v, {})
            IN  (/\ Op(ir, a) = "Allocate"
                 /\ S!IsVirtual(a)
                 /\ \E v \in Ids(ir) : Holds(v))
                => Holds(GetReplacement(replacement, l))

(***************************************************************************)
(* Round trip (spec property 8): Run then Run on the same graph yields   *)
(* the same GetReplacement, IsEscaped, IsVirtual and CompareVirtualObjects *)
(* for every node, and the same ExistsVirtualAllocate.  It               *)
(* is about the tables Run keeps from the first call: the second walk    *)
(* finds every node already marked and queues no allocation, and the     *)
(* second object analysis starts from the first one's states.           *)
(***************************************************************************)
RunIdempotent ==
    (run = 2 /\ phase = "done") =>
        /\ \A n \in DOMAIN first.rep : GetReplacement(replacement, n) = first.rep[n]
        /\ Results.esc \cap first.ids = first.esc
        /\ Results.virt \cap first.ids = first.virt
        /\ Results.exists = first.exists
        /\ {p \in Results.cmp : p[1] \in first.ids /\ p[2] \in first.ids} = first.cmp

(***************************************************************************)
(* What the reducer gets for (effect, allocation) after Run describes the *)
(* object, and the objects nested in it, as the analysis left them at     *)
(* that effect (spec 4.5: the object's current field snapshot).  It is    *)
(* about the ObjectState cached on a VirtualObject that the states of     *)
(* two effects share, while an object nested in it differs between them. *)
(***************************************************************************)
MaterialisedMatchesEffect == C5!ObjectStateMatchesEffect

(***************************************************************************)
(* No request after Run takes front() of an empty field vector (line      *)
(* 1458): every virtual object the analysis leaves for the reducer has a  *)
(* non-null field.  It is about an element store at a non-constant index *)
(* clearing all fields of an object that stays virtual.                   *)
(***************************************************************************)
PassFieldsNonEmptyAtFront == C5!FieldsNonEmptyAtFront

(***************************************************************************)
(* Requests on objects that hold each other, or themselves, return: the   *)
(* analysis' own results never make GetOrCreateObjectState recurse        *)
(* without end.                                                           *)
(***************************************************************************)
PassRecursionTerminates == C5!RecursionTerminates

(***************************************************************************)
(* The status analysis' results, on the stack order of the alias walk and *)
(* the replacements of the object analysis.                               *)
(***************************************************************************)

(***************************************************************************)
(* A FinishRegion and its Allocate denote one object: when Run returns, a *)
(* FinishRegion that escaped has dragged its Allocate along.  The escape  *)
(* in ProcessFinishRegion re-queues the Allocate (RevisitInputs) and      *)
(* ProcessAllocate then finds the escaped FinishRegion among its uses.    *)
(***************************************************************************)
FinishEscapeDragsAllocation == phase = "done" => S!FinishEscapeDragsAllocation

(***************************************************************************)
(* The converse (spec 4.1): when Run returns, an Allocate that escaped    *)
(* has a FinishRegion that escaped too.  It is about ProcessAllocate      *)
(* returning early on a non-constant size before looking at its uses.    *)
(***************************************************************************)
AllocationAndFinishAgree == phase = "done" => S!AllocationAndFinishAgree

(***************************************************************************)
(* Escape completeness (spec invariant 6): when Run returns, every value  *)
(* use of a virtual allocation is one the reducer can rewrite, and an    *)
(* object stored into another is virtual only if that one is.  It is     *)
(* about an object that escapes after a store into it was processed: the *)
(* FinishRegion's escape revisits only its inputs (line 741), so the     *)
(* store is reconsidered only if something else queues it again.        *)
(***************************************************************************)
VirtualOnlyInAnalyzableUses == phase = "done" => S!VirtualOnlyInAnalyzableUses

(***************************************************************************)
(* UNREACHABLE() in CheckUsesForEscape fires only for an unknown use that *)
(* carries an effect (spec 4.4); an effect-free unknown use makes the     *)
(* object escape.                                                          *)
(***************************************************************************)
AbortsOnlyOnEffectfulUse == S!AbortsOnlyOnEffectfulUse

(***************************************************************************)
(* Scenario S4 of the spec: two allocations merged by a Phi whose only    *)
(* user is a field load are virtual when Run returns.                     *)
(***************************************************************************)
PhiMergedAllocationsStayVirtual == phase = "done" => S!PhiMergedAllocationsStayVirtual

=============================================================================
