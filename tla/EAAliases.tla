------------------------------ MODULE EAAliases ------------------------------
(***************************************************************************)
(* Alias assigner (EscapeStatusAnalysis::AssignAliases).                  *)
(*                                                                         *)
(* A depth-first walk from End over input edges.  Every node it reaches   *)
(* is marked Untrackable; an Allocate, and a FinishRegion whose value     *)
(* input is an Allocate, get a dense alias from next_free_alias_.  Each   *)
(* aliased Allocate is queued for the status analysis.  One step of the  *)
(* model is one iteration of the while loop.                              *)
(***************************************************************************)
EXTENDS EAGraph, SequencesExt

CONSTANT Graphs          \* the input graphs

\* The two sentinels at the top of the Alias range (numeric_limits::max()
\* and max() - 1); the graphs here are far smaller than either.
NotReachable == 1000
Untrackable == 999

IsRealAlias(a) == a < Untrackable

VARIABLES
    ir,            \* the graph (fixed during this phase)
    stack,         \* stack_
    aliases,       \* aliases_
    nextAlias,     \* next_free_alias_
    statusStack    \* status_stack_ as filled by EnqueueForStatusAnalysis

vars == <<ir, stack, aliases, nextAlias, statusStack>>

\* EnqueueForStatusAnalysis: push unless already on the status stack.
Enqueue(ss, n) == IF Contains(ss, n) THEN ss ELSE Append(ss, n)

\* The loop over input edges: an input not yet seen is pushed and marked.
PushInputs(st, al, ins) ==
    FoldLeft(LAMBDA acc, m :
                IF acc.al[m] = NotReachable
                THEN [st |-> Append(acc.st, m),
                      al |-> [acc.al EXCEPT ![m] = Untrackable]]
                ELSE acc,
             [st |-> st, al |-> al], ins)

Init ==
    /\ ir \in Graphs
    /\ stack = <<EndNode(ir)>>
    /\ aliases = [n \in Ids(ir) |->
                    IF n = EndNode(ir) THEN Untrackable ELSE NotReachable]
    /\ nextAlias = 0
    /\ statusStack = <<>>

\* Pop an Allocate: give it the next alias unless it already has one.
VisitAllocate(n, st) ==
    LET fresh == ~IsRealAlias(aliases[n])
        al == IF fresh THEN [aliases EXCEPT ![n] = nextAlias] ELSE aliases
        r == PushInputs(st, al, Inputs(ir, n))
    IN  /\ stack' = r.st
        /\ aliases' = r.al
        /\ nextAlias' = IF fresh THEN nextAlias + 1 ELSE nextAlias
        /\ statusStack' = IF fresh THEN Enqueue(statusStack, n) ELSE statusStack

\* A slip of the FinishRegion case: the allocation is numbered but never
\* pushed, so the walk does not go through it.
VisitFinishRegionNoPush(n, st) ==
    LET a == ValueInput(ir, n, 1)
        fresh == ~IsRealAlias(aliases[a])
        alA == IF fresh THEN [aliases EXCEPT ![a] = nextAlias] ELSE aliases
        al == [alA EXCEPT ![n] = alA[a]]
        r == PushInputs(st, al, Inputs(ir, n))
    IN  /\ stack' = r.st
        /\ aliases' = r.al
        /\ nextAlias' = IF fresh THEN nextAlias + 1 ELSE nextAlias
        /\ statusStack' = IF fresh THEN Enqueue(statusStack, a) ELSE statusStack

\* A slip of the FinishRegion case: the allocation's alias taken after
\* the increment (aliases_[id] = ++next_free_alias_).
VisitFinishRegionPreIncrement(n, st) ==
    LET a == ValueInput(ir, n, 1)
        fresh == ~IsRealAlias(aliases[a])
        st1 == IF fresh /\ aliases[a] = NotReachable THEN Append(st, a) ELSE st
        alA == IF fresh THEN [aliases EXCEPT ![a] = nextAlias + 1] ELSE aliases
        al == [alA EXCEPT ![n] = alA[a]]
        r == PushInputs(st1, al, Inputs(ir, n))
    IN  /\ stack' = r.st
        /\ aliases' = r.al
        /\ nextAlias' = IF fresh THEN nextAlias + 1 ELSE nextAlias
        /\ statusStack' = IF fresh THEN Enqueue(statusStack, a) ELSE statusStack

\* Pop a FinishRegion of an Allocate: the allocation gets an alias first
\* (pushed if it was never seen), and the FinishRegion shares it.
VisitFinishRegion(n, st) ==
    LET a == ValueInput(ir, n, 1)
        fresh == ~IsRealAlias(aliases[a])
        st1 == IF fresh /\ aliases[a] = NotReachable THEN Append(st, a) ELSE st
        alA == IF fresh THEN [aliases EXCEPT ![a] = nextAlias] ELSE aliases
        al == [alA EXCEPT ![n] = alA[a]]
        r == PushInputs(st1, al, Inputs(ir, n))
    IN  /\ stack' = r.st
        /\ aliases' = r.al
        /\ nextAlias' = IF fresh THEN nextAlias + 1 ELSE nextAlias
        /\ statusStack' = IF fresh THEN Enqueue(statusStack, a) ELSE statusStack

\* Pop any other node: it stays Untrackable; its inputs are pushed.
VisitOther(n, st) ==
    LET r == PushInputs(st, aliases, Inputs(ir, n))
    IN  /\ stack' = r.st
        /\ aliases' = r.al
        /\ UNCHANGED <<nextAlias, statusStack>>

Visit ==
    /\ stack # <<>>
    /\ LET n == Last(stack)
           st == Front(stack)
       IN  \/ /\ Op(ir, n) = "Allocate"
              /\ VisitAllocate(n, st)
           \/ /\ IsFinishOfAllocate(ir, n)
              /\ VisitFinishRegion(n, st)
           \/ /\ Op(ir, n) # "Allocate"
              /\ ~IsFinishOfAllocate(ir, n)
              /\ VisitOther(n, st)
    /\ UNCHANGED ir

Done == stack = <<>>

Next == Visit

Spec == Init /\ [][Next]_vars /\ WF_vars(Next)

-----------------------------------------------------------------------------
(***************************************************************************)
(* Type invariant, with alias density (spec invariant 1): a real alias is  *)
(* below next_free_alias_, and the sentinels are the only other values.  *)
(***************************************************************************)
TypeOK ==
    /\ stack \in Seq(Ids(ir))
    /\ nextAlias \in 0..Len(ir)
    /\ aliases \in [Ids(ir) -> (0..(nextAlias - 1)) \cup {Untrackable, NotReachable}]
    /\ statusStack \in Seq(Ids(ir))

AllocationsOf(g) == {n \in Reachable(g) : Op(g, n) = "Allocate"}

(***************************************************************************)
(* When the walk ends, the alias table is exactly what the pass relies   *)
(* on: unreachable nodes (by the reachability closure from End) are      *)
(* NotReachable; the reachable Allocates are numbered by a bijection onto *)
(* 0..AliasCount-1 and each sits on the status stack at the position of  *)
(* its alias; a FinishRegion of an Allocate shares its alias; every     *)
(* other reachable node is Untrackable.  Breaks if the walk loses a node *)
(* reached only through an allocation first seen from its FinishRegion,  *)
(* or numbers an allocation twice.                                       *)
(***************************************************************************)
AliasesMatchReachability ==
    Done =>
      LET R == Reachable(ir)
          A == AllocationsOf(ir)
      IN  /\ \A n \in Ids(ir) : (aliases[n] = NotReachable) <=> (n \notin R)
          /\ nextAlias = Cardinality(A)
          /\ Len(statusStack) = nextAlias
          /\ \A i \in 1..Len(statusStack) :
                statusStack[i] \in A /\ aliases[statusStack[i]] = i - 1
          /\ \A n \in R :
                CASE Op(ir, n) = "Allocate" -> IsRealAlias(aliases[n])
                  [] IsFinishOfAllocate(ir, n) ->
                        aliases[n] = aliases[ValueInput(ir, n, 1)]
                  [] OTHER -> aliases[n] = Untrackable

=============================================================================
