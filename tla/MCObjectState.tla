--------------------------- MODULE MCObjectState ---------------------------
(***************************************************************************)
(* Heaps for EAObjectState.  Alias 1 is an outer object, alias 2 an inner *)
(* one.  The outer object V1 is shared by the states of both effects; the *)
(* inner alias maps to V2 at e1 and to a copy V3 at e2, as after a store  *)
(* into the inner object between the two effects.                         *)
(***************************************************************************)
EXTENDS EAObjectState

\* The VirtualObject pointers.
V1 == 1
V2 == 2
V3 == 3

MCEffects == {"e1", "e2"}

MCStates == [e \in MCEffects |-> [a \in {1, 2} |->
                IF a = 1 THEN V1 ELSE IF e = "e1" THEN V2 ELSE V3]]

\* A null field before a nested object: the nested ObjectState is written
\* at the field's position, not at its input's.
IndexHeaps ==
    {[states |-> MCStates, virtual |-> {1, 2},
      fields |-> [v \in {V1, V2, V3} |->
                    IF v = V1 THEN <<NoNode, 2, 10>> ELSE <<11>>]]}

=============================================================================
