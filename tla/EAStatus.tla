------------------------------ MODULE EAStatus ------------------------------
(***************************************************************************)
(* Escape-status propagator (EscapeStatusAnalysis::RunStatusAnalysis).   *)
(*                                                                         *)
(* The second fixed point of the pass.  It starts from the allocations   *)
(* queued by the alias walk and from the escapes the object analysis     *)
(* already recorded, pops nodes from status_stack_ and decides, from the *)
(* uses of each node, whether the object it stands for escapes.  Every   *)
(* escape transition re-queues inputs and/or uses.  One step of the model *)
(* is one iteration of the while loop: a pop and the whole Process call. *)
(*                                                                         *)
(* The inputs it reads from the earlier phases are the graph, the        *)
(* reachability marks of the alias walk, the status stack in the order  *)
(* the walk filled it, and the replacement table of the object analysis. *)
(* Those are fixed by the earlier phases, so the phase has no Init of its *)
(* own: EAPass runs it on the state the object analysis hands over.      *)
(***************************************************************************)
EXTENDS EAGraph, SequencesExt

\* Status flags of status_ used by this phase.
Tracked == "Tracked"
Escaped == "Escaped"
OnStack == "OnStack"
Visited == "Visited"

VARIABLES
    ir,            \* the graph
    aliases,       \* aliases_ as the walk left it (read only)
    replacement,   \* replacements_ as left by the object analysis
    status,        \* status_: node -> set of flags
    statusStack,   \* status_stack_
    crashedAt      \* the use on which UNREACHABLE() fired, or NoNode

NotReachable == 1000

\* IsNotReachable: a NodeId beyond the alias table (a Phi the object
\* analysis created) counts as reachable.
NotReached(n) == n \in DOMAIN aliases /\ aliases[n] = NotReachable

AllocationsOf(g) == {n \in Reachable(g) : Op(g, n) = "Allocate"}

-----------------------------------------------------------------------------
(***************************************************************************)
(* The status record h = [st |-> status, sk |-> stack, crash |-> node]     *)
(* threaded through the sub-steps of one Process call.                    *)
(***************************************************************************)
IsEsc(h, n) == Escaped \in h.st[n]

HasEntry(h, n) == h.st[n] \cap {Tracked, Escaped} # {}

SetTracked(h, n) == [h EXCEPT !.st[n] = @ \cup {Tracked}]

\* A slip of SetEscaped: kEscaped set without kTracked.
SetEscapedOnly(h, n) == [h EXCEPT !.st[n] = @ \cup {Escaped}]

\* SetEscaped: sets kEscaped | kTracked; the change is ~IsEsc(h, n).
SetEscaped(h, n) == [h EXCEPT !.st[n] = @ \cup {Escaped, Tracked}]

UseSeq(n) == UseSeqOf(ir, n)

Push(h, n) == [h EXCEPT !.sk = Append(@, n), !.st[n] = @ \cup {OnStack}]

RevisitUses(h, n) ==
    FoldLeft(LAMBDA acc, e :
                IF OnStack \in acc.st[e[1]] \/ NotReached(e[1])
                THEN acc ELSE Push(acc, e[1]),
             h, UseSeq(n))

RevisitInputs(h, n) ==
    FoldLeft(LAMBDA acc, m : IF OnStack \in acc.st[m] THEN acc ELSE Push(acc, m),
             h, Inputs(ir, n))

\* One use edge e of `uses` in CheckUsesForEscape; acc.ret is the result
\* and acc.stop that the loop has returned.
CheckUseEdge(acc, e, uses, rep, phiEsc) ==
    LET u == e[1]
        h == acc.h
        escape == [h |-> SetEscaped(h, rep), ret |-> TRUE, stop |-> TRUE]
    IN
    IF NotReached(u) \/ ~IsValueEdge(ir, e) THEN acc
    ELSE CASE Op(ir, u) = "Phi" /\ phiEsc /\ ~IsEsc(h, rep) -> escape
           [] Op(ir, u) \in PassThroughOps \cup {"Phi"} ->
                IF IsEsc(h, u) /\ ~IsEsc(h, rep) THEN escape ELSE acc
           [] Op(ir, u) = "ObjectIsSmi" ->
                IF ~IsAllocation(ir, rep) /\ ~IsEsc(h, rep) THEN escape ELSE acc
           [] Op(ir, u) = "Select" ->
                IF ~IsEsc(h, rep) THEN escape ELSE acc
           [] OTHER ->
                IF EffectInputCount(ir, u) = 0 /\ EffectInputCount(ir, uses) > 0
                THEN [acc EXCEPT !.h.crash = u, !.stop = TRUE]
                ELSE IF ~IsEsc(h, rep) THEN escape ELSE acc

CheckUsesForEscape(h, uses, rep, phiEsc) ==
    FoldLeft(LAMBDA acc, e :
                IF acc.stop THEN acc ELSE CheckUseEdge(acc, e, uses, rep, phiEsc),
             [h |-> h, ret |-> FALSE, stop |-> FALSE], UseSeq(uses))

ProcessAllocate(h, n) ==
    LET first == ~HasEntry(h, n)
        h1 == IF first THEN RevisitUses(SetTracked(h, n), n) ELSE h
    IN  IF first /\ ~HasNumber(ir, ValueInput(ir, n, 1))
        THEN SetEscaped(h1, n)
        ELSE LET c == CheckUsesForEscape(h1, n, n, TRUE)
             IN  IF c.ret THEN RevisitUses(c.h, n) ELSE c.h

\* A slip of ProcessFinishRegion: the first visit does not queue the uses.
ProcessFinishRegionNoFirstRevisit(h, n) ==
    LET h1 == IF ~HasEntry(h, n) THEN SetTracked(h, n) ELSE h
        c == CheckUsesForEscape(h1, n, n, TRUE)
    IN  IF c.ret THEN RevisitInputs(c.h, n) ELSE c.h

\* A slip of ProcessFinishRegion: the escape transition re-queues nothing.
ProcessFinishRegionNoRevisit(h, n) ==
    LET h1 == IF ~HasEntry(h, n) THEN RevisitUses(SetTracked(h, n), n) ELSE h
    IN  CheckUsesForEscape(h1, n, n, TRUE).h

ProcessFinishRegion(h, n) ==
    LET h1 == IF ~HasEntry(h, n) THEN RevisitUses(SetTracked(h, n), n) ELSE h
        c == CheckUsesForEscape(h1, n, n, TRUE)
    IN  IF c.ret THEN RevisitInputs(c.h, n) ELSE c.h

\* ProcessStoreField and ProcessStoreElement: a value stored into an
\* escaped object or into something that is not an allocation escapes.
ProcessStore(h, n) ==
    LET to == ValueInput(ir, n, 1)
        val == StoredValue(ir, n)
    IN  IF (IsEsc(h, to) \/ ~IsAllocation(ir, to)) /\ ~IsEsc(h, val)
        THEN RevisitInputs(RevisitUses(SetEscaped(h, val), val), val)
        ELSE h

ProcessLoad(h, n) ==
    LET rep == GetReplacement(replacement, n)
        h1 == IF rep # NoNode /\ IsAllocation(ir, rep)
              THEN LET c == CheckUsesForEscape(h, n, rep, FALSE)
                   IN  IF c.ret THEN RevisitUses(RevisitInputs(c.h, rep), rep)
                                ELSE c.h
              ELSE h
    IN  RevisitUses(h1, n)

IsAllocationPhi(h, n) ==
    \A m \in {Inputs(ir, n)[i] : i \in DOMAIN Inputs(ir, n)} :
        (Op(ir, m) = "Phi" /\ ~IsEsc(h, m)) \/ IsAllocation(ir, m)

ProcessPhi(h, n) ==
    LET h1 == IF ~HasEntry(h, n) THEN RevisitUses(SetTracked(h, n), n) ELSE h
        h2 == IF ~IsAllocationPhi(h1, n) /\ ~IsEsc(h1, n)
              THEN RevisitUses(RevisitInputs(SetEscaped(h1, n), n), n)
              ELSE h1
    IN  CheckUsesForEscape(h2, n, n, FALSE).h

\* EscapeStatusAnalysis::Process.
Process(h, n) ==
    CASE Op(ir, n) = "Allocate"     -> ProcessAllocate(h, n)
      [] Op(ir, n) = "FinishRegion" -> ProcessFinishRegion(h, n)
      [] Op(ir, n) \in {"StoreField", "StoreElement"} -> ProcessStore(h, n)
      [] Op(ir, n) \in {"LoadField", "LoadElement"}   -> ProcessLoad(h, n)
      [] Op(ir, n) = "Phi"          -> ProcessPhi(h, n)
      [] OTHER                      -> h

-----------------------------------------------------------------------------
\* One iteration of RunStatusAnalysis: pop, clear kOnStack, Process, mark
\* kVisited.  UNREACHABLE() ends the process.
Step ==
    /\ statusStack # <<>>
    /\ crashedAt = NoNode
    /\ LET n == Last(statusStack)
           h0 == [st |-> [status EXCEPT ![n] = @ \ {OnStack}],
                  sk |-> Front(statusStack), crash |-> NoNode]
           h == Process(h0, n)
       IN  /\ status' = IF h.crash = NoNode
                        THEN [h.st EXCEPT ![n] = @ \cup {Visited}] ELSE h.st
           /\ statusStack' = h.sk
           /\ crashedAt' = h.crash
    /\ UNCHANGED <<ir, aliases, replacement>>

Done == statusStack = <<>> \/ crashedAt # NoNode

-----------------------------------------------------------------------------
\* Type invariant; a node marked kEscaped is kTracked as well.
TypeOK ==
    /\ status \in [Ids(ir) -> SUBSET {Tracked, Escaped, OnStack, Visited}]
    /\ \A n \in Ids(ir) : Escaped \in status[n] => Tracked \in status[n]
    /\ statusStack \in Seq(Ids(ir))
    /\ replacement \in [Ids(ir) -> Ids(ir) \cup {NoNode}]
    /\ crashedAt \in Ids(ir) \cup {NoNode}

IsVirtual(n) == Tracked \in status[n] /\ Escaped \notin status[n]

\* The run has ended without UNREACHABLE() firing.
Quiescent == statusStack = <<>> /\ crashedAt = NoNode

EscapedSet == {n \in Ids(ir) : Escaped \in status[n]}

(***************************************************************************)
(* A FinishRegion and its Allocate denote one object, so when the         *)
(* analysis ends a FinishRegion that escaped has dragged its Allocate     *)
(* along: the escape transition in ProcessFinishRegion re-queues the      *)
(* Allocate (RevisitInputs) and ProcessAllocate then sees the escaped     *)
(* FinishRegion among its uses.                                           *)
(***************************************************************************)
FinishEscapeDragsAllocation ==
    Quiescent =>
        \A f \in {n \in Reachable(ir) : IsFinishOfAllocate(ir, n)} :
            f \in EscapedSet => ValueInput(ir, f, 1) \in EscapedSet

(***************************************************************************)
(* The converse: an Allocate that escaped has a FinishRegion that         *)
(* escaped too (spec 4.1: the two nodes denote the same object at        *)
(* different IR altitudes, so they cannot disagree on its fate).         *)
(***************************************************************************)
AllocationAndFinishAgree ==
    Quiescent =>
        \A f \in {n \in Reachable(ir) : IsFinishOfAllocate(ir, n)} :
            f \in EscapedSet <=> ValueInput(ir, f, 1) \in EscapedSet

(***************************************************************************)
(* Escape completeness (spec invariant 6): after the analysis, every      *)
(* value use of a virtual allocation is one the reducer can rewrite: a   *)
(* field or element access, a frame state, a state-values list, a        *)
(* ReferenceEqual, its FinishRegion or an ObjectIsSmi, the user is not    *)
(* itself escaped, and when the allocation is the value stored by the    *)
(* use, the object stored into is a virtual allocation too.              *)
(***************************************************************************)
VirtualOnlyInAnalyzableUses ==
    Quiescent =>
      \A a \in {n \in Reachable(ir) : IsAllocation(ir, n) /\ IsVirtual(n)} :
        \A e \in {e \in UseEdges(ir, a) : IsValueEdge(ir, e)
                                          /\ e[1] \in Reachable(ir)} :
          LET u == e[1] IN
          /\ Op(ir, u) \in (PassThroughOps \cup {"ObjectIsSmi"}) \ {"Phi"}
          /\ Escaped \notin status[u]
          /\ (Op(ir, u) \in {"StoreField", "StoreElement"} /\ StoredValue(ir, u) = a)
                => (IsAllocation(ir, ValueInput(ir, u, 1))
                    /\ IsVirtual(ValueInput(ir, u, 1)))

(***************************************************************************)
(* The status analysis refuses (UNREACHABLE) only an unknown use that     *)
(* carries an effect; an effect-free unknown use lets the object escape  *)
(* (spec 4.4, table of CheckUsesForEscape).                               *)
(***************************************************************************)
AbortsOnlyOnEffectfulUse ==
    crashedAt # NoNode => EffectInputCount(ir, crashedAt) > 0

(***************************************************************************)
(* Scenario S4 of the spec: two allocations merged by a Phi whose only    *)
(* user is a field load stay virtual when the analysis ends.              *)
(***************************************************************************)
PhiMergedAllocationsStayVirtual ==
    Quiescent => \A a \in AllocationsOf(ir) : IsVirtual(a)

=============================================================================
