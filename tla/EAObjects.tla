------------------------------ MODULE EAObjects ------------------------------
(***************************************************************************)
(* Virtual-state propagator (EscapeAnalysis::RunObjectAnalysis).          *)
(*                                                                         *)
(* The first fixed point of the pass.  A worklist that starts at Start    *)
(* follows effect edges; at every effect node it keeps a VirtualState,    *)
(* a table from alias to VirtualObject (the field snapshot of one         *)
(* allocation).  States and objects are shared between nodes by pointer *)
(* and copied on write: a VirtualState belongs to the node that created  *)
(* it (owner), a VirtualObject to a state, and the kCopyRequired flag    *)
(* marks objects that a later write must clone first.  Loads get the     *)
(* stored value as replacement; EffectPhis merge the states of their     *)
(* inputs and synthesise value Phis for fields that differ.              *)
(*                                                                         *)
(* The heap is explicit: states and objects are sequences indexed by a   *)
(* pointer (0 is nullptr), so sharing, in-place updates and copies are    *)
(* the code's own.  One step is one iteration of the worklist loop: a    *)
(* pop, the whole Process call and the pushes of the effect uses.        *)
(***************************************************************************)
EXTENDS EAGraph

CONSTANTS
    Graphs,        \* the input graphs
    MaxHeap        \* bound on the states, objects and nodes created

VARIABLES
    ir,            \* the graph; grows by the Phis the merges create
    aliasOf,       \* aliases_ from the alias walk (read only)
    queue,         \* the ZoneDeque worklist
    inQueue,       \* the nodes flagged kInQueue
    vstate,        \* virtual_states_: NodeId -> state pointer
    states,        \* the VirtualStates: [owner, info: alias -> object pointer]
    objs,          \* the VirtualObjects
    replacement,   \* replacements_
    escaped,       \* nodes this phase marks escaped (SetEscaped)
    fault          \* a null VirtualObject was dereferenced

vars == <<ir, aliasOf, queue, inQueue, vstate, states, objs, replacement,
          escaped, fault>>

Untrackable == 999
NotReachable == 1000

\* The aliases the walk assigns: the reachable Allocates in some order
\* (here by NodeId), a FinishRegion sharing its Allocate's alias.
AliasMap(g) ==
    LET A == {n \in Reachable(g) : Op(g, n) = "Allocate"}
        rank(n) == Cardinality({m \in A : m < n})
    IN  [n \in Ids(g) |->
           IF n \notin Reachable(g) THEN NotReachable
           ELSE IF n \in A THEN rank(n)
           ELSE IF IsFinishOfAllocate(g, n) THEN rank(ValueInput(g, n, 1))
           ELSE Untrackable]

AliasCount(g) == Cardinality({n \in Reachable(g) : Op(g, n) = "Allocate"})

-----------------------------------------------------------------------------
(***************************************************************************)
(* The record h = [ir, st, ob, vs, rep, esc, fault, chg] threaded through *)
(* one Process call; chg is Process's result.                             *)
(***************************************************************************)
K == Cardinality({aliasOf[n] : n \in DOMAIN aliasOf} \ {Untrackable, NotReachable})

Aliases == [i \in 1..K |-> i - 1]

\* IsNotReachable: a NodeId beyond the alias table counts as reachable.
NotReached(n) == n \in DOMAIN aliasOf /\ aliasOf[n] = NotReachable

MkObj(id, owner, tracked, init, n) ==
    [id |-> id, tracked |-> tracked, init |-> init, copyReq |-> FALSE,
     fields |-> [i \in 1..n |-> NoNode], phi |-> [i \in 1..n |-> FALSE],
     owner |-> owner]

Field(h, o, i) == h.ob[o].fields[i + 1]

FieldCount(h, o) == Len(h.ob[o].fields)

Info(h, s, a) == h.st[s].info[a + 1]

\* VirtualObject::SetField.
SetField(h, o, i, v, isPhi) ==
    [h EXCEPT !.ob[o].fields[i + 1] = v, !.ob[o].phi[i + 1] = isPhi]

\* VirtualState::SetVirtualObject.
SetObject(h, s, a, o) == [h EXCEPT !.st[s].info[a + 1] = o]

\* A new object in state s at alias a; the pointer is Len(h.ob).
AddObject(h, s, a, obj) ==
    SetObject([h EXCEPT !.ob = Append(@, obj)], s, a, Len(h.ob) + 1)

\* The copy constructor VirtualObject(owner, other): kCopyRequired cleared.
CopyOf(h, o, s) == [h.ob[o] EXCEPT !.copyReq = FALSE, !.owner = s]

\* The copy constructor VirtualState(owner, state): same object pointers.
AddState(h, owner, info) ==
    [h EXCEPT !.st = Append(@, [owner |-> owner, info |-> info])]

\* EscapeAnalysis::GetVirtualObject(state, node).
GetVirtualObject(h, s, n) ==
    IF n \notin DOMAIN aliasOf \/ aliasOf[n] >= K THEN 0
    ELSE Info(h, s, aliasOf[n])

ResolveVirtualObject(h, s, n) ==
    GetVirtualObject(h, s, ResolveReplacement(h.rep, n))

AllFieldsClear(h, o) == \A i \in DOMAIN h.ob[o].fields : h.ob[o].fields[i] = NoNode

\* VirtualObject::ClearAllFields.
ClearAllFields(h, o) ==
    [h EXCEPT !.ob[o].fields = [i \in DOMAIN @ |-> NoNode],
              !.ob[o].phi = [i \in DOMAIN @ |-> FALSE]]

\* VirtualState::SetCopyRequired: flags, in place, every object it holds.
SetCopyRequired(h, s) ==
    LET held == {h.st[s].info[i] : i \in DOMAIN h.st[s].info}
    IN  [h EXCEPT !.ob = [o \in DOMAIN @ |->
                            IF o \in held THEN [@[o] EXCEPT !.copyReq = TRUE]
                            ELSE @[o]]]

\* CopyForModificationAt(state, node): [h, s] with s owned by node.
CopyStateAt(h, s, n) ==
    IF h.st[s].owner # n
    THEN [h |-> [AddState(h, n, h.st[s].info) EXCEPT !.vs[n] = Len(h.st) + 1],
          s |-> Len(h.st) + 1]
    ELSE [h |-> h, s |-> s]

\* VirtualState::Copy(obj, alias).
StateCopy(h, s, o, a) ==
    IF h.ob[o].owner = s THEN [h |-> h, o |-> o]
    ELSE [h |-> AddObject(h, s, a, CopyOf(h, o, s)), o |-> Len(h.ob) + 1]

\* CopyForModificationAt(obj, state, node): [h, o] with o safe to write.
CopyObjectAt(h, o, s, n) ==
    IF h.ob[o].copyReq /\ h.ob[o].init
    THEN LET c == CopyStateAt(h, s, n)
         IN  StateCopy(c.h, c.s, o, aliasOf[h.ob[o].id])
    ELSE [h |-> h, o |-> o]

\* VirtualObject::UpdateFrom: status, phi marks and fields taken over.
ObjectUpdateFrom(h, o, r) ==
    [h EXCEPT !.ob[o] = [@ EXCEPT !.tracked = h.ob[r].tracked,
                                  !.init = h.ob[r].init,
                                  !.copyReq = h.ob[r].copyReq,
                                  !.fields = h.ob[r].fields,
                                  !.phi = h.ob[r].phi]]

\* VirtualState::UpdateFrom(from): per alias, a missing object is copied,
\* a present one updated in place; an object missing in `from` is kept.
StateUpdateFrom(h, s, from) ==
    IF s = from THEN h
    ELSE FoldLeft(LAMBDA acc, a :
                    LET ls == Info(acc, s, a)
                        rs == Info(acc, from, a)
                    IN  IF ls = rs \/ rs = 0 THEN acc
                        ELSE IF ls = 0 THEN AddObject(acc, s, a, CopyOf(acc, rs, s))
                        ELSE ObjectUpdateFrom(acc, ls, rs),
                  h, Aliases)

\* An effect edge from a reachable user.
EffectUses(g, n) == {e \in UseEdges(g, n) : ~NotReached(e[1]) /\ IsEffectEdge(g, e)}

\* EscapeStatusAnalysis::IsDanglingEffectNode.
IsDangling(g, n) ==
    /\ EffectInputCount(g, n) # 0
    /\ EffectOutputCount(g, n) # 0
    /\ ~(EffectInputCount(g, n) = 1 /\ Op(g, EffectInput(g, n)) = "Start")
    /\ EffectUses(g, n) = {}

IsDanglingLoad(g, n) ==
    Op(g, n) \in {"LoadField", "LoadElement"} /\ IsDangling(g, n)

\* EscapeStatusAnalysis::IsEffectBranchPoint.
IsEffectBranchPoint(g, n) ==
    Cardinality({e \in EffectUses(g, n) : ~IsDanglingLoad(g, e[1])}) > 1

\* A slip of ForwardVirtualState: the state shared at a branch point is
\* not flagged kCopyRequired.
ForwardVirtualStateNoCopyFlag(h, n) ==
    LET e == EffectInput(h.ir, n)
        se == h.vs[e]
    IN  IF h.vs[n] # 0 THEN StateUpdateFrom(h, h.vs[n], se)
        ELSE IF se = 0 THEN [h EXCEPT !.fault = TRUE]
        ELSE [h EXCEPT !.vs[n] = se]

\* EscapeAnalysis::ForwardVirtualState.
ForwardVirtualState(h, n) ==
    LET e == EffectInput(h.ir, n)
        se == h.vs[e]
    IN  IF h.vs[n] # 0 THEN StateUpdateFrom(h, h.vs[n], se)
        ELSE IF se = 0 THEN [h EXCEPT !.fault = TRUE]
        ELSE LET h1 == [h EXCEPT !.vs[n] = se]
             IN  IF IsEffectBranchPoint(h.ir, e) \/ FrameStateInputCount(h.ir, n) > 0
                 THEN SetCopyRequired(h1, se) ELSE h1

\* EscapeAnalysis::ProcessStart: a fresh, empty state.
ProcessStart(h, n) ==
    [AddState(h, n, [i \in 1..K |-> 0]) EXCEPT !.vs[n] = Len(h.st) + 1]

\* EscapeAnalysis::ProcessAllocation.  The object is added in place to
\* the state the node forwarded, unless an EffectPhi owns that state.
ProcessAllocation(h, n) ==
    LET h1 == ForwardVirtualState(h, n)
        a == aliasOf[n]
    IN  IF h1.fault \/ Info(h1, h1.vs[n], a) # 0 THEN h1
        ELSE LET c == IF Op(h1.ir, h1.st[h1.vs[n]].owner) = "EffectPhi"
                      THEN CopyStateAt(h1, h1.vs[n], n)
                      ELSE [h |-> h1, s |-> h1.vs[n]]
                 size == ValueInput(h1.ir, n, 1)
             IN  AddObject(c.h, c.s, a,
                           IF HasNumber(h1.ir, size)
                           THEN MkObj(n, c.s, TRUE, FALSE, h1.ir[size].p \div kPointerSize)
                           ELSE MkObj(n, c.s, FALSE, FALSE, 0))

\* EscapeAnalysis::ProcessFinishRegion: SetInitialized, in place.
ProcessFinishRegion(h, n) ==
    LET h1 == ForwardVirtualState(h, n)
    IN  IF h1.fault \/ Op(h1.ir, ValueInput(h1.ir, n, 1)) # "Allocate" THEN h1
        ELSE LET o == Info(h1, h1.vs[n], aliasOf[n])
             IN  IF o = 0 THEN [h1 EXCEPT !.fault = TRUE]
                 ELSE [h1 EXCEPT !.ob[o].init = TRUE]

\* The write of ProcessStoreField/ProcessStoreElement at a known offset.
StoreAt(h, n, to, off, valIn) ==
    LET s == h.vs[n]
        o == GetVirtualObject(h, s, to)
        val == ResolveReplacement(h.rep, valIn)
    IN  IF o # 0 /\ h.ob[o].tracked /\ off < FieldCount(h, o) /\ Field(h, o, off) # val
        THEN LET c == CopyObjectAt(h, o, s, n) IN SetField(c.h, c.o, off, val, FALSE)
        ELSE h

ProcessStoreField(h, n) ==
    LET h1 == ForwardVirtualState(h, n)
    IN  IF h1.fault THEN h1
        ELSE StoreAt(h1, n, ResolveReplacement(h1.rep, ValueInput(h1.ir, n, 1)),
                     h1.ir[n].p \div kPointerSize, ValueInput(h1.ir, n, 2))

\* A slip: the object's fields are cleared but it is not escaped.
ProcessStoreElementNoEscape(h, n) ==
    LET h1 == ForwardVirtualState(h, n)
        to == ResolveReplacement(h1.rep, ValueInput(h1.ir, n, 1))
        index == ValueInput(h1.ir, n, 2)
        o == GetVirtualObject(h1, h1.vs[n], to)
    IN  IF h1.fault THEN h1
        ELSE IF HasNumber(h1.ir, index)
        THEN StoreAt(h1, n, to, h1.ir[index].p + h1.ir[n].p \div kPointerSize,
                     ValueInput(h1.ir, n, 3))
        ELSE IF o # 0 /\ h1.ob[o].tracked /\ ~AllFieldsClear(h1, o)
        THEN LET c == CopyObjectAt(h1, o, h1.vs[n], n) IN ClearAllFields(c.h, c.o)
        ELSE h1

\* A store at an index that is not a number escapes the object and
\* clears its fields.
ProcessStoreElement(h, n) ==
    LET h1 == ForwardVirtualState(h, n)
        to == ResolveReplacement(h1.rep, ValueInput(h1.ir, n, 1))
        index == ValueInput(h1.ir, n, 2)
        s == h1.vs[n]
        o == GetVirtualObject(h1, s, to)
    IN  IF h1.fault THEN h1
        ELSE IF HasNumber(h1.ir, index)
        THEN StoreAt(h1, n, to, h1.ir[index].p + h1.ir[n].p \div kPointerSize,
                     ValueInput(h1.ir, n, 3))
        ELSE LET h2 == [h1 EXCEPT !.esc = @ \cup {to}]
             IN  IF o # 0 /\ h1.ob[o].tracked /\ ~AllFieldsClear(h1, o)
                 THEN LET c == CopyObjectAt(h2, o, s, n) IN ClearAllFields(c.h, c.o)
                 ELSE h2

\* UpdateReplacement / SetReplacement.
SetReplacement(h, n, v) == [h EXCEPT !.rep[n] = v]

\* The read of ProcessLoadField/ProcessLoadElement from a tracked object.
LoadAt(h, n, o, off) ==
    IF ~h.ob[o].tracked \/ off >= FieldCount(h, o) THEN h
    ELSE SetReplacement(h, n, IF Field(h, o, off) = NoNode THEN NoNode
                              ELSE ResolveReplacement(h.rep, Field(h, o, off)))

\* MergeCache::GetFields(pos) over the objects os: rep is the field all
\* objects agree on (or NoNode); list the non-null fields in order.
GetFields(h, os, pos) ==
    FoldLeft(LAMBDA acc, o :
                IF pos >= FieldCount(h, o) THEN acc
                ELSE LET f == Field(h, o, pos)
                     IN  [rep |-> IF f # acc.rep THEN NoNode ELSE acc.rep,
                          list |-> IF f # NoNode THEN Append(acc.list, f) ELSE acc.list],
             [rep |-> IF pos >= FieldCount(h, os[1]) THEN NoNode ELSE Field(h, os[1], pos),
              list |-> <<>>], os)

\* IsEquivalentPhi(node1, node2), structural.
RECURSIVE EquivalentPhi(_, _, _)
EquivalentPhi(g, a, b) ==
    \/ a = b
    \/ /\ Op(g, a) = "Phi" /\ Op(g, b) = "Phi"
       /\ ValueInputCount(g, a) = ValueInputCount(g, b)
       /\ \A i \in 1..ValueInputCount(g, a) :
             EquivalentPhi(g, ValueInput(g, a, i), ValueInput(g, b, i))

\* IsEquivalentPhi(phi, inputs).
EquivalentPhiTo(g, phi, ins) ==
    /\ Op(g, phi) = "Phi"
    /\ ValueInputCount(g, phi) = Len(ins)
    /\ \A i \in 1..Len(ins) : EquivalentPhi(g, ValueInput(g, phi, i), ins[i])

\* A new value Phi over ins with control input ctl; its NodeId is Len(ir)+1.
NewPhi(h, ins, ctl) ==
    [h EXCEPT !.ir = Append(@, Nd("Phi", ins, <<>>, <<>>, <<ctl>>, 0))]

\* EscapeAnalysis::ProcessLoadFromPhi.  The candidate objects are looked
\* up from the value inputs of the load node.
ProcessLoadFromPhi(h, off, from, n) ==
    LET s == h.vs[n]
        ins == h.ir[n].vin
        os == SelectSeq([i \in 1..Len(ins) |->
                           IF aliasOf[ins[i]] >= K THEN 0
                           ELSE Info(h, s, aliasOf[ins[i]])],
                        LAMBDA o : o # 0)
    IN  IF Len(os) # Len(ins) THEN h
        ELSE LET fl == GetFields(h, os, off).list
             IN  IF Len(fl) # Len(os) THEN h
                 ELSE IF RepOf(h.rep, n) # NoNode /\ EquivalentPhiTo(h.ir, RepOf(h.rep, n), fl)
                 THEN h
                 ELSE SetReplacement(NewPhi(h, fl, ControlInput(h.ir, from)), n, Len(h.ir) + 1)

ProcessLoadField(h, n) ==
    LET h1 == ForwardVirtualState(h, n)
        from == ResolveReplacement(h1.rep, ValueInput(h1.ir, n, 1))
        o == GetVirtualObject(h1, h1.vs[n], from)
    IN  IF h1.fault THEN h1
        ELSE IF o # 0 THEN LoadAt(h1, n, o, h1.ir[n].p \div kPointerSize)
        ELSE IF Op(h1.ir, from) = "Phi" /\ h1.ir[n].p % kPointerSize = 0
        THEN ProcessLoadFromPhi(h1, h1.ir[n].p \div kPointerSize, from, n)
        ELSE SetReplacement(h1, n, NoNode)

ProcessLoadElement(h, n) ==
    LET h1 == ForwardVirtualState(h, n)
        from == ResolveReplacement(h1.rep, ValueInput(h1.ir, n, 1))
        index == ValueInput(h1.ir, n, 2)
        off == h1.ir[index].p + h1.ir[n].p \div kPointerSize
        o == GetVirtualObject(h1, h1.vs[n], from)
    IN  IF h1.fault THEN h1
        ELSE IF ~HasNumber(h1.ir, index) THEN [h1 EXCEPT !.esc = @ \cup {from}]
        ELSE IF o # 0 THEN LoadAt(h1, n, o, off)
        ELSE IF Op(h1.ir, from) = "Phi" THEN ProcessLoadFromPhi(h1, off, from, n)
        ELSE SetReplacement(h1, n, NoNode)

\* Users that may see a virtual object without observing its fields.
AllocationUsersAllowed ==
    {"StoreField", "LoadField", "StoreElement", "LoadElement", "FrameState",
     "StateValues", "ReferenceEqual", "FinishRegion", "ObjectIsSmi"}

\* A slip of ProcessAllocationUsers: opaque users leave the fields alone.
ProcessAllocationUsersKeep(h, n) == h

\* EscapeAnalysis::ProcessAllocationUsers: any other user clears the
\* fields of the objects among its value inputs.
ProcessAllocationUsers(h, n) ==
    IF Op(h.ir, n) \in AllocationUsersAllowed THEN h
    ELSE FoldLeft(LAMBDA acc, input :
                    LET o == ResolveVirtualObject(acc, acc.vs[n], input)
                    IN  IF o = 0 \/ AllFieldsClear(acc, o) THEN acc
                        ELSE LET c == CopyObjectAt(acc, o, acc.vs[n], n)
                             IN  ClearAllFields(c.h, c.o),
                  h, h.ir[n].vin)

\* VirtualState::GetOrCreateTrackedVirtualObject(alias, id, fields,
\* initialized, zone, force_copy): [h, o].  The new object has no fields.
GetOrCreateTracked(h, s, a, id, initialized, force) ==
    IF ~force /\ Info(h, s, a) # 0 THEN [h |-> h, o |-> Info(h, s, a)]
    ELSE [h |-> AddObject(h, s, a, MkObj(id, s, TRUE, initialized, 0)),
          o |-> Len(h.ob) + 1]

\* A slip of ResizeFields: the fields grow but the phi marks do not.
ResizeFieldsOnly(h, o, n) ==
    IF n > FieldCount(h, o)
    THEN [h EXCEPT !.ob[o].fields = @ \o [i \in 1..(n - Len(@)) |-> NoNode],
                   !.chg = TRUE]
    ELSE h

\* VirtualObject::ResizeFields: grows only.
ResizeFields(h, o, n) ==
    IF n > FieldCount(h, o)
    THEN [h EXCEPT !.ob[o].fields = @ \o [i \in 1..(n - Len(@)) |-> NoNode],
                   !.ob[o].phi = @ \o [i \in 1..(n - Len(@)) |-> FALSE],
                   !.chg = TRUE]
    ELSE h

\* A slip of the merge: a Phi is created anew on every merge instead of
\* updating the one this merge created before.
MergeFieldAlwaysNew(h, mo, os, i, ctl, arity) ==
    LET gf == GetFields(h, os, i)
        cur == Field(h, mo, i)
    IN
    IF gf.rep # NoNode
    THEN [SetField(h, mo, i, gf.rep, FALSE) EXCEPT !.chg = @ \/ cur # gf.rep]
    ELSE IF Len(gf.list) = arity
    THEN [SetField(NewPhi(h, gf.list, ctl), mo, i, Len(h.ir) + 1, TRUE) EXCEPT !.chg = TRUE]
    ELSE [SetField(h, mo, i, NoNode, FALSE) EXCEPT !.chg = @ \/ cur # NoNode]

\* One field i of the merge object mo: the agreed value, a Phi over the
\* inputs' values (created, or updated in place if this merge created
\* it), or nothing.
MergeField(h, mo, os, i, ctl, arity) ==
    LET gf == GetFields(h, os, i)
        cur == Field(h, mo, i)
    IN
    IF gf.rep # NoNode
    THEN [SetField(h, mo, i, gf.rep, FALSE) EXCEPT !.chg = @ \/ cur # gf.rep]
    ELSE IF Len(gf.list) = arity
    THEN IF cur = NoNode \/ ~h.ob[mo].phi[i + 1]
         THEN [SetField(NewPhi(h, gf.list, ctl), mo, i, Len(h.ir) + 1, TRUE)
                  EXCEPT !.chg = TRUE]
         ELSE [h EXCEPT !.ir[cur].vin = gf.list,
                        !.chg = @ \/ h.ir[cur].vin # gf.list]
    ELSE [SetField(h, mo, i, NoNode, FALSE) EXCEPT !.chg = @ \/ cur # NoNode]

\* VirtualState::MergeFrom for one alias a of the merge state ms.
MergeAlias(h, ms, cache, a, ctl, arity) ==
    LET mergeObject == Info(h, ms, a)
        os == SelectSeq([j \in 1..Len(cache) |-> Info(h, cache[j], a)],
                        LAMBDA o : o # 0)
        copyMerge == mergeObject # 0 /\ \E j \in 1..Len(os) : os[j] = mergeObject
        fields == Min({FieldCount(h, os[j]) : j \in 1..Len(os)})
        h0 == [h EXCEPT !.chg = @ \/ copyMerge]
    IN
    IF Len(os) = Len(cache)
    THEN LET g == GetOrCreateTracked(h0, ms, a, h.ob[os[1]].id, fields # 0, copyMerge)
             h1 == ResizeFields(g.h, g.o, fields)
         IN  FoldLeft(LAMBDA acc, i : MergeField(acc, g.o, os, i, ctl, arity),
                      h1, [i \in 1..fields |-> i - 1])
    ELSE [SetObject(h0, ms, a, 0) EXCEPT !.chg = @ \/ mergeObject # 0]

\* EscapeAnalysis::ProcessEffectPhi.  A merge state that is the state of
\* one of the inputs is replaced by a fresh one.
ProcessEffectPhi(h, n) ==
    LET fresh(hh) == [AddState(hh, n, [i \in 1..K |-> 0])
                         EXCEPT !.vs[n] = Len(hh.st) + 1, !.chg = TRUE]
        h1 == IF h.vs[n] = 0 THEN fresh(h) ELSE [h EXCEPT !.chg = FALSE]
        c == FoldLeft(LAMBDA acc, e :
                        LET st == acc.h.vs[e]
                        IN  IF st = 0 THEN acc
                            ELSE [h |-> IF st = acc.h.vs[n] THEN fresh(acc.h) ELSE acc.h,
                                  cache |-> Append(acc.cache, st)],
                      [h |-> h1, cache |-> <<>>], h.ir[n].ein)
    IN  IF c.cache = <<>> THEN c.h
        ELSE FoldLeft(LAMBDA acc, a :
                        MergeAlias(acc, c.h.vs[n], c.cache, a,
                                   ControlInput(h.ir, n), EffectInputCount(h.ir, n)),
                      c.h, Aliases)

\* EscapeAnalysis::Process; h.chg is its result (false only from an
\* EffectPhi whose merge changed nothing).
Process(h, n) ==
    CASE Op(h.ir, n) = "Allocate"     -> ProcessAllocation(h, n)
      [] Op(h.ir, n) = "BeginRegion"  -> ForwardVirtualState(h, n)
      [] Op(h.ir, n) = "FinishRegion" -> ProcessFinishRegion(h, n)
      [] Op(h.ir, n) = "StoreField"   -> ProcessStoreField(h, n)
      [] Op(h.ir, n) = "LoadField"    -> ProcessLoadField(h, n)
      [] Op(h.ir, n) = "StoreElement" -> ProcessStoreElement(h, n)
      [] Op(h.ir, n) = "LoadElement"  -> ProcessLoadElement(h, n)
      [] Op(h.ir, n) = "Start"        -> ProcessStart(h, n)
      [] Op(h.ir, n) = "EffectPhi"    -> ProcessEffectPhi(h, n)
      [] OTHER ->
           ProcessAllocationUsers(IF EffectInputCount(h.ir, n) > 0
                                  THEN ForwardVirtualState(h, n) ELSE h, n)

\* The effect uses of n in use order: EffectPhis go to the front of the
\* deque (without kInQueue), other uses to the back once, dangling loads
\* after them, even if already queued.
PushEffectUses(g, n, q, inq) ==
    LET r == FoldLeft(
               LAMBDA acc, e :
                 LET u == e[1] IN
                 IF NotReached(u) \/ ~IsEffectEdge(g, e) THEN acc
                 ELSE IF Op(g, u) = "EffectPhi"
                 THEN IF u \in acc.inq THEN acc ELSE [acc EXCEPT !.q = <<u>> \o @]
                 ELSE IF ~IsDanglingLoad(g, u)
                 THEN IF u \in acc.inq THEN acc
                      ELSE [acc EXCEPT !.q = Append(@, u), !.inq = @ \cup {u}]
                 ELSE [acc EXCEPT !.dang = Append(@, u)],
               [q |-> q, inq |-> inq, dang |-> <<>>], UseSeqOf(g, n))
    IN  [q |-> r.q \o r.dang, inq |-> r.inq]

-----------------------------------------------------------------------------
Init ==
    /\ ir \in Graphs
    /\ aliasOf = AliasMap(ir)
    /\ queue = <<StartNode(ir)>>
    /\ inQueue = {}
    /\ vstate = [n \in Ids(ir) |-> 0]
    /\ states = <<>>
    /\ objs = <<>>
    /\ replacement = [n \in Ids(ir) |-> NoNode]
    /\ escaped = {}
    /\ fault = FALSE

\* The loop condition of RunObjectAnalysis (queue not empty), no abort
\* so far, and the heap bound of the model.  Every other conjunct of Step
\* assigns a primed variable, so this is exactly ENABLED Step.
StepGuard ==
    /\ queue # <<>>
    /\ ~fault
    /\ Len(states) + Len(objs) + Len(ir) < MaxHeap

\* One iteration of RunObjectAnalysis.
Step ==
    /\ StepGuard
    /\ LET n == Last(queue)
           h0 == [ir |-> ir, st |-> states, ob |-> objs, vs |-> vstate,
                  rep |-> replacement, esc |-> escaped, fault |-> FALSE,
                  chg |-> TRUE]
       IN  \E h \in {Process(h0, n)} :
           \E p \in {IF h.chg THEN PushEffectUses(h.ir, n, Front(queue), inQueue \ {n})
                     ELSE [q |-> Front(queue), inq |-> inQueue \ {n}]} :
              /\ ir' = h.ir
              /\ states' = h.st
              /\ objs' = h.ob
              /\ vstate' = h.vs
              /\ replacement' = h.rep
              /\ escaped' = h.esc
              /\ fault' = h.fault
              /\ queue' = p.q
              /\ inQueue' = p.inq
    /\ UNCHANGED aliasOf

Done == queue = <<>> \/ fault

Next == Step

\* Weak fairness of Next, WF_vars(Next), written out with StepGuard in
\* place of ENABLED <<Next>>_vars: the loop is single-threaded and runs
\* until its queue is empty, so it is never starved while it can step.
Fairness == []<>~StepGuard \/ []<><<Next>>_vars

Spec == Init /\ [][Next]_vars /\ Fairness

-----------------------------------------------------------------------------
\* Type invariant; every pointer held is a live state or object.
TypeOK ==
    /\ \A n \in DOMAIN vstate : vstate[n] \in 0..Len(states)
    /\ \A s \in 1..Len(states) :
          /\ states[s].owner \in Ids(ir)
          /\ states[s].info \in [1..K -> 0..Len(objs)]
    /\ \A o \in 1..Len(objs) :
          /\ objs[o].owner \in 1..Len(states)
          /\ Len(objs[o].fields) = Len(objs[o].phi)
          /\ \A i \in DOMAIN objs[o].fields : objs[o].fields[i] \in Ids(ir) \cup {NoNode}
    /\ \A n \in DOMAIN replacement : replacement[n] \in Ids(ir) \cup {NoNode}
    /\ escaped \subseteq Ids(ir)
    /\ fault \in BOOLEAN

(***************************************************************************)
(* The field a load reads, by the graph alone: on every effect path into *)
(* e, the last write of field off of allocation a stored v.  A write at   *)
(* an unknown index, an opaque user of the object, the allocation itself *)
(* or Start ends a path with no known value.  At an EffectPhi either all *)
(* paths agree on v, or v is a Phi at the merge whose i-th input is the  *)
(* value on the i-th path.  Around a loop the check is coinductive: an  *)
(* EffectPhi reached again with the same v is taken to hold.            *)
(***************************************************************************)
AccessBase(g, rep, n) == AllocOf(g, ResolveReplacement(rep, ValueInput(g, n, 1)))

\* The field index a store writes, or -1 when the index is not a number.
StoreOffset(g, n) ==
    IF Op(g, n) = "StoreField" THEN g[n].p \div kPointerSize
    ELSE IF HasNumber(g, ValueInput(g, n, 2))
    THEN g[ValueInput(g, n, 2)].p + g[n].p \div kPointerSize
    ELSE -1

LoadOffset(g, n) ==
    IF Op(g, n) = "LoadField" THEN g[n].p \div kPointerSize
    ELSE g[ValueInput(g, n, 2)].p + g[n].p \div kPointerSize

RECURSIVE HoldsAt(_, _, _, _, _, _, _)
HoldsAt(g, rep, e, a, off, v, seen) ==
    LET writes == Op(g, e) \in {"StoreField", "StoreElement"} /\ AccessBase(g, rep, e) = a
        opaque == /\ Op(g, e) \notin AllocationUsersAllowed
                  /\ \E i \in 1..ValueInputCount(g, e) :
                        AllocOf(g, ResolveReplacement(rep, ValueInput(g, e, i))) = a
        seen2 == seen \cup {<<e, v>>}
    IN
    CASE writes /\ StoreOffset(g, e) = off ->
            ResolveReplacement(rep, StoredValue(g, e)) = v
      [] writes /\ StoreOffset(g, e) = -1 -> FALSE
      [] Op(g, e) = "Start" \/ e = a \/ opaque -> FALSE
      [] Op(g, e) = "EffectPhi" /\ <<e, v>> \in seen -> TRUE
      [] Op(g, e) = "EffectPhi" ->
            \/ \A i \in 1..EffectInputCount(g, e) :
                  HoldsAt(g, rep, g[e].ein[i], a, off, v, seen2)
            \/ /\ Op(g, v) = "Phi"
               /\ ControlInput(g, v) = ControlInput(g, e)
               /\ ValueInputCount(g, v) = EffectInputCount(g, e)
               /\ \A i \in 1..EffectInputCount(g, e) :
                     HoldsAt(g, rep, g[e].ein[i], a, off, ValueInput(g, v, i), seen2)
      [] OTHER -> HoldsAt(g, rep, EffectInput(g, e), a, off, v, seen)

(***************************************************************************)
(* Replacement validity (spec invariant 5): when the analysis ends, a    *)
(* load of a field of an allocation that has a replacement is replaced by *)
(* the value every path stores there.  Breaks if a write on one branch    *)
(* leaks into the state another branch shares (copy-on-write), if an      *)
(* opaque user does not clear the fields, or if a merge keeps a value    *)
(* that only one predecessor holds.                                       *)
(***************************************************************************)
LoadsReplacedByStoredValue ==
    (queue = <<>> /\ ~fault) =>
        \A l \in {n \in DOMAIN aliasOf : ~NotReached(n)
                                       /\ Op(ir, n) \in {"LoadField", "LoadElement"}} :
            LET v == GetReplacement(replacement, l)
                a == AccessBase(ir, replacement, l)
            IN  (v # NoNode /\ Op(ir, a) = "Allocate") =>
                    HoldsAt(ir, replacement, EffectInput(ir, l), a, LoadOffset(ir, l), v, {})

(***************************************************************************)
(* Load from a phi (spec 3.C3 and scenario S4): when the analysis ends, a *)
(* field load whose base is a Phi each of whose inputs is an object known *)
(* at the load with that field known has a replacement, the phi of the  *)
(* fields.  It is about ProcessLoadFromPhi, which collects the objects   *)
(* from the inputs of the load node rather than of the Phi.              *)
(***************************************************************************)
LoadFromPhiReplaced ==
    (queue = <<>> /\ ~fault) =>
        LET hh == [st |-> states, ob |-> objs]
        IN  \A l \in {n \in DOMAIN aliasOf : ~NotReached(n) /\ Op(ir, n) = "LoadField"} :
              LET from == ResolveReplacement(replacement, ValueInput(ir, l, 1))
                  off == LoadOffset(ir, l)
              IN  (/\ Op(ir, from) = "Phi"
                   /\ \A i \in 1..ValueInputCount(ir, from) :
                         LET o == GetVirtualObject(hh, vstate[l], ValueInput(ir, from, i))
                         IN  o # 0 /\ off < FieldCount(hh, o) /\ Field(hh, o, off) # NoNode)
                  => GetReplacement(replacement, l) # NoNode

(***************************************************************************)
(* RunObjectAnalysis terminates.  Around a loop the EffectPhi is queued  *)
(* again after every pass over the body; it is the merge's updating, in *)
(* place, of the Phis it created itself (the phi marks of the object)    *)
(* that lets a pass change nothing and the queue run dry (spec 9).       *)
(* The worklist is a loop of a single thread, so every step it can take *)
(* it takes (weak fairness).                                            *)
(***************************************************************************)
ObjectAnalysisTerminates == <>Done

=============================================================================
